----------------------------- MODULE TileProofs -----------------------------
(***************************************************************************)
(* What TileBuilder.tla keeps for every tile, every text and every order   *)
(* of the calls.                                                           *)
(*                                                                         *)
(* Tags.  The keys and values of a layer only grow, and an index is the    *)
(* place of what it was given out for (Placed), so the tags of a feature   *)
(* go on to read as the attributes of the call that added it (Holds),      *)
(* whatever other calls have added since.                                  *)
(*                                                                         *)
(* Sizes.  Whatever the clippers make of a line or of rings, what is       *)
(* encoded are paths with points (GeometriesAre).  A reader that has read  *)
(* what a writer wrote is where the writer is (At), so it decodes these    *)
(* paths (RoundTrip), and the lengths that were counted from them are      *)
(* those of what was written (SizeInv).                                    *)
(*                                                                         *)
(* A fold of the code's loops is read off as a sequence of its values (the *)
(* ...Fold lemmas).                                                        *)
(***************************************************************************)
EXTENDS TileBuilder, FiniteSetTheorems, SequenceTheorems, WellFoundedInduction, TLAPS

-----------------------------------------------------------------------------
(* Induction, and folds.                                                   *)

\* Every set of naturals that is not empty has a least element.
LEMMA LeastElement ==
  ASSUME NEW T \in SUBSET Nat, T # {}
  PROVE  \E n \in T : \A m \in T : n <= m
<1> DEFINE R == OpToRel(<, Nat)
<1>1. IsWellFoundedOn(R, Nat)
  BY NatLessThanWellFounded, Zenon
<1>2. PICK n \in T : \A m \in T : <<m, n>> \notin R
  <2> HIDE DEF R
  <2> QED
    BY <1>1, WFMin
<1>3. \A m \in T : ~ (m < n)
  BY <1>2 DEF OpToRel
<1> QED
  BY <1>3

\* Induction over a set of naturals.
LEMMA Inductive ==
  ASSUME NEW P \in SUBSET Nat, 0 \in P, \A n \in P : n + 1 \in P
  PROVE  \A n \in Nat : n \in P
<1> SUFFICES ASSUME NEW k \in Nat, k \notin P PROVE FALSE
  OBVIOUS
<1>1. PICK n \in Nat \ P : \A m \in Nat \ P : n <= m
  BY LeastElement
<1>2. n # 0 /\ n - 1 \in Nat
  OBVIOUS
<1>3. n - 1 \in P
  BY <1>1, <1>2
<1> QED
  BY <1>3, <1>1

\* What FoldLeft takes next: the last of the first k.
LEMMA Tops ==
  ASSUME NEW k \in Nat
  PROVE  /\ Max(1..(k + 1)) = k + 1 /\ (1..(k + 1)) \ {k + 1} = 1..k
         /\ \A t \in SUBSET (1..(k + 1)) :
               /\ k + 1 \in t => Max(t) = k + 1 /\ t \ {k + 1} \in SUBSET (1..k)
               /\ k + 1 \notin t => t \in SUBSET (1..k)
<1>1. ASSUME NEW t \in SUBSET (1..(k + 1)), k + 1 \in t PROVE Max(t) = k + 1
  <2>1. \A y \in t : k + 1 >= y
    OBVIOUS
  <2>2. \A x \in t : (\A y \in t : x >= y) => x = k + 1
    BY <1>1
  <2> QED
    BY <1>1, <2>1, <2>2 DEF Max
<1>2. \A x \in 1..(k + 1) : x # k + 1 => x \in 1..k
  OBVIOUS
<1> QED
  BY <1>1, <1>2

\* WriteTags before the first pair.
Started(layer) == [tags |-> layer.tags, scratch |-> << >>, threw |-> FALSE]

\* The sum, element by element.
LEMMA TotalFold ==
  ASSUME NEW s, NEW n \in Nat, DOMAIN s = 1..n
  PROVE  \E f : /\ f[0] = 0 /\ Total(s) = f[n]
                /\ \A i \in 1..n : f[i] = f[i - 1] + s[i]
<1> DEFINE Folds(k, g) ==
               g = [t \in SUBSET (1..k) |->
                       IF t = {} THEN 0 ELSE g[t \ {Max(t)}] + s[Max(t)]]
           P == {k \in Nat : \E g : Folds(k, g)}
<1>1. 0 \in P
  <2>1. Folds(0, [t \in SUBSET (1..0) |-> 0])
    OBVIOUS
  <2> QED
    BY <2>1
<1>2. ASSUME NEW k \in P PROVE k + 1 \in P
  <2>1. PICK g : Folds(k, g)
    OBVIOUS
  <2> DEFINE h == [t \in SUBSET (1..(k + 1)) |->
                      IF k + 1 \in t THEN g[t \ {k + 1}] + s[k + 1] ELSE g[t]]
  <2>0. k \in Nat
    OBVIOUS
  <2> HIDE DEF P, Folds
  <2>2. k \in Nat /\ \A t \in SUBSET (1..k) : h[t] = g[t] /\ t \ {Max(t)} \in SUBSET (1..k)
    <3>1. \A t \in SUBSET (1..k) : k + 1 \notin t /\ t \in SUBSET (1..(k + 1))
      BY <2>0
    <3>2. \A t \in SUBSET (1..k) : t \ {Max(t)} \in SUBSET (1..k)
      OBVIOUS
    <3> QED
      BY <2>0, <3>1, <3>2
  <2>3. ASSUME NEW t \in SUBSET (1..(k + 1))
        PROVE  h[t] = IF t = {} THEN 0 ELSE h[t \ {Max(t)}] + s[Max(t)]
    <3>1. CASE k + 1 \in t
      <4>1. Max(t) = k + 1 /\ t \ {k + 1} \in SUBSET (1..k) /\ t # {}
        BY <2>2, <3>1, Tops
      <4>2. h[t] = g[t \ {k + 1}] + s[k + 1] /\ h[t \ {k + 1}] = g[t \ {k + 1}]
        BY <2>2, <3>1, <4>1
      <4> QED
        BY ONLY <4>1, <4>2
    <3>2. CASE k + 1 \notin t
      <4>1. t \in SUBSET (1..k)
        BY <2>2, <3>2, Tops
      <4>2. h[t] = g[t] /\ h[t \ {Max(t)}] = g[t \ {Max(t)}]
        BY <2>2, <4>1
      <4>3. g[t] = IF t = {} THEN 0 ELSE g[t \ {Max(t)}] + s[Max(t)]
        BY ONLY <2>1, <4>1 DEF Folds
      <4> QED
        BY ONLY <4>2, <4>3
    <3> QED
      BY ONLY <3>1, <3>2
  <2>4. Folds(k + 1, h)
    BY ONLY <2>3 DEF Folds
  <2> HIDE DEF h
  <2> QED
    BY ONLY <2>4, <2>0 DEF P
<1>3. \E g : Folds(n, g)
  <2> HIDE DEF Folds
  <2>1. P \in SUBSET Nat
    OBVIOUS
  <2>2. n \in P
    <3> HIDE DEF P
    <3> QED
      BY <1>1, <1>2, <2>1, Inductive
  <2> QED
    BY ONLY <2>2
<1> DEFINE F == CHOOSE g : Folds(n, g)
<1>4. Folds(n, F)
  BY ONLY <1>3
<1>5. Total(s) = F[1..n]
  BY DEF Total, FoldLeft, MapThenFoldSet
<1> HIDE DEF F
<1> DEFINE f == [i \in 0..n |-> F[1..i]]
<1>6. f[0] = 0 /\ f[n] = F[1..n]
  <2>1. 1..0 = {} /\ {} \in SUBSET (1..n) /\ 0 \in 0..n /\ n \in 0..n
    OBVIOUS
  <2>2. F[{}] = 0
    BY ONLY <1>4, <2>1
  <2> QED
    BY ONLY <2>1, <2>2
<1>7. ASSUME NEW i \in 1..n PROVE f[i] = f[i - 1] + s[i]
  <2>1. i - 1 \in Nat /\ i - 1 + 1 = i /\ 1..i \in SUBSET (1..n) /\ 1..i # {}
    OBVIOUS
  <2>2. Max(1..i) = i /\ (1..i) \ {i} = 1..(i - 1)
    BY <2>1, Tops
  <2>3. F[1..i] = F[(1..i) \ {Max(1..i)}] + s[Max(1..i)]
    BY ONLY <1>4, <2>1
  <2>4. f[i] = F[1..i] /\ f[i - 1] = F[1..(i - 1)]
    OBVIOUS
  <2> QED
    BY ONLY <2>2, <2>3, <2>4
<1> HIDE DEF f
<1> QED
  BY <1>5, <1>6, <1>7

\* WriteTags, pair by pair.
LEMMA WriteTagsFold ==
  ASSUME NEW layer, NEW s, NEW n \in Nat, DOMAIN s = 1..n
  PROVE  \E f : /\ f[0] = Started(layer) /\ WriteTags(layer, s) = f[n]
                /\ \A i \in 1..n : f[i] = WritePair(f[i - 1], s[i])
<1> DEFINE Folds(k, g) ==
               g = [t \in SUBSET (1..k) |->
                       IF t = {} THEN Started(layer) ELSE WritePair(g[t \ {Max(t)}], s[Max(t)])]
           P == {k \in Nat : \E g : Folds(k, g)}
<1>1. 0 \in P
  <2>1. Folds(0, [t \in SUBSET (1..0) |-> Started(layer)])
    OBVIOUS
  <2> QED
    BY <2>1
<1>2. ASSUME NEW k \in P PROVE k + 1 \in P
  <2>1. PICK g : Folds(k, g)
    OBVIOUS
  <2> DEFINE h == [t \in SUBSET (1..(k + 1)) |->
                      IF k + 1 \in t THEN WritePair(g[t \ {k + 1}], s[k + 1]) ELSE g[t]]
  <2>0. k \in Nat
    OBVIOUS
  <2> HIDE DEF P, Folds
  <2>2. k \in Nat /\ \A t \in SUBSET (1..k) : h[t] = g[t] /\ t \ {Max(t)} \in SUBSET (1..k)
    <3>1. \A t \in SUBSET (1..k) : k + 1 \notin t /\ t \in SUBSET (1..(k + 1))
      BY <2>0
    <3>2. \A t \in SUBSET (1..k) : t \ {Max(t)} \in SUBSET (1..k)
      OBVIOUS
    <3> QED
      BY <2>0, <3>1, <3>2
  <2>3. ASSUME NEW t \in SUBSET (1..(k + 1))
        PROVE  h[t] = IF t = {} THEN Started(layer) ELSE WritePair(h[t \ {Max(t)}], s[Max(t)])
    <3>1. CASE k + 1 \in t
      <4>1. Max(t) = k + 1 /\ t \ {k + 1} \in SUBSET (1..k) /\ t # {}
        BY <2>2, <3>1, Tops
      <4>2. h[t] = WritePair(g[t \ {k + 1}], s[k + 1]) /\ h[t \ {k + 1}] = g[t \ {k + 1}]
        BY <2>2, <3>1, <4>1
      <4> QED
        BY ONLY <4>1, <4>2
    <3>2. CASE k + 1 \notin t
      <4>1. t \in SUBSET (1..k)
        BY <2>2, <3>2, Tops
      <4>2. h[t] = g[t] /\ h[t \ {Max(t)}] = g[t \ {Max(t)}]
        BY <2>2, <4>1
      <4>3. g[t] = IF t = {} THEN Started(layer) ELSE WritePair(g[t \ {Max(t)}], s[Max(t)])
        BY ONLY <2>1, <4>1 DEF Folds
      <4> QED
        BY ONLY <4>2, <4>3
    <3> QED
      BY ONLY <3>1, <3>2
  <2>4. Folds(k + 1, h)
    BY ONLY <2>3 DEF Folds
  <2> HIDE DEF h
  <2> QED
    BY ONLY <2>4, <2>0 DEF P
<1>3. \E g : Folds(n, g)
  <2> HIDE DEF Folds
  <2>1. P \in SUBSET Nat
    OBVIOUS
  <2>2. n \in P
    <3> HIDE DEF P
    <3> QED
      BY <1>1, <1>2, <2>1, Inductive
  <2> QED
    BY ONLY <2>2
<1> DEFINE F == CHOOSE g : Folds(n, g)
<1>4. Folds(n, F)
  BY ONLY <1>3
<1>5. WriteTags(layer, s) = F[1..n]
  BY DEF WriteTags, Started, FoldLeft, MapThenFoldSet
<1> HIDE DEF F
<1> DEFINE f == [i \in 0..n |-> F[1..i]]
<1>6. f[0] = Started(layer) /\ f[n] = F[1..n]
  <2>1. 1..0 = {} /\ {} \in SUBSET (1..n) /\ 0 \in 0..n /\ n \in 0..n
    OBVIOUS
  <2>2. F[{}] = Started(layer)
    BY ONLY <1>4, <2>1
  <2> QED
    BY ONLY <2>1, <2>2
<1>7. ASSUME NEW i \in 1..n PROVE f[i] = WritePair(f[i - 1], s[i])
  <2>1. i - 1 \in Nat /\ i - 1 + 1 = i /\ 1..i \in SUBSET (1..n) /\ 1..i # {}
    OBVIOUS
  <2>2. Max(1..i) = i /\ (1..i) \ {i} = 1..(i - 1)
    BY <2>1, Tops
  <2>3. F[1..i] = WritePair(F[(1..i) \ {Max(1..i)}], s[Max(1..i)])
    BY ONLY <1>4, <2>1
  <2>4. f[i] = F[1..i] /\ f[i - 1] = F[1..(i - 1)]
    OBVIOUS
  <2> QED
    BY ONLY <2>2, <2>3, <2>4
<1> HIDE DEF f
<1> QED
  BY <1>5, <1>6, <1>7

\* The pairs given, one by one.
LEMMA GivenFold ==
  ASSUME NEW s, NEW n \in Nat, DOMAIN s = 1..n
  PROVE  \E f : /\ f[0] = << >> /\ Given(s) = f[n]
                /\ \A i \in 1..n : f[i] = AppendGiven(f[i - 1], s[i])
<1> DEFINE Folds(k, g) ==
               g = [t \in SUBSET (1..k) |->
                       IF t = {} THEN << >> ELSE AppendGiven(g[t \ {Max(t)}], s[Max(t)])]
           P == {k \in Nat : \E g : Folds(k, g)}
<1>1. 0 \in P
  <2>1. Folds(0, [t \in SUBSET (1..0) |-> << >>])
    OBVIOUS
  <2> QED
    BY <2>1
<1>2. ASSUME NEW k \in P PROVE k + 1 \in P
  <2>1. PICK g : Folds(k, g)
    OBVIOUS
  <2> DEFINE h == [t \in SUBSET (1..(k + 1)) |->
                      IF k + 1 \in t THEN AppendGiven(g[t \ {k + 1}], s[k + 1]) ELSE g[t]]
  <2>0. k \in Nat
    OBVIOUS
  <2> HIDE DEF P, Folds
  <2>2. k \in Nat /\ \A t \in SUBSET (1..k) : h[t] = g[t] /\ t \ {Max(t)} \in SUBSET (1..k)
    <3>1. \A t \in SUBSET (1..k) : k + 1 \notin t /\ t \in SUBSET (1..(k + 1))
      BY <2>0
    <3>2. \A t \in SUBSET (1..k) : t \ {Max(t)} \in SUBSET (1..k)
      OBVIOUS
    <3> QED
      BY <2>0, <3>1, <3>2
  <2>3. ASSUME NEW t \in SUBSET (1..(k + 1))
        PROVE  h[t] = IF t = {} THEN << >> ELSE AppendGiven(h[t \ {Max(t)}], s[Max(t)])
    <3>1. CASE k + 1 \in t
      <4>1. Max(t) = k + 1 /\ t \ {k + 1} \in SUBSET (1..k) /\ t # {}
        BY <2>2, <3>1, Tops
      <4>2. h[t] = AppendGiven(g[t \ {k + 1}], s[k + 1]) /\ h[t \ {k + 1}] = g[t \ {k + 1}]
        BY <2>2, <3>1, <4>1
      <4> QED
        BY ONLY <4>1, <4>2
    <3>2. CASE k + 1 \notin t
      <4>1. t \in SUBSET (1..k)
        BY <2>2, <3>2, Tops
      <4>2. h[t] = g[t] /\ h[t \ {Max(t)}] = g[t \ {Max(t)}]
        BY <2>2, <4>1
      <4>3. g[t] = IF t = {} THEN << >> ELSE AppendGiven(g[t \ {Max(t)}], s[Max(t)])
        BY ONLY <2>1, <4>1 DEF Folds
      <4> QED
        BY ONLY <4>2, <4>3
    <3> QED
      BY ONLY <3>1, <3>2
  <2>4. Folds(k + 1, h)
    BY ONLY <2>3 DEF Folds
  <2> HIDE DEF h
  <2> QED
    BY ONLY <2>4, <2>0 DEF P
<1>3. \E g : Folds(n, g)
  <2> HIDE DEF Folds
  <2>1. P \in SUBSET Nat
    OBVIOUS
  <2>2. n \in P
    <3> HIDE DEF P
    <3> QED
      BY <1>1, <1>2, <2>1, Inductive
  <2> QED
    BY ONLY <2>2
<1> DEFINE F == CHOOSE g : Folds(n, g)
<1>4. Folds(n, F)
  BY ONLY <1>3
<1>5. Given(s) = F[1..n]
  BY DEF Given, FoldLeft, MapThenFoldSet
<1> HIDE DEF F
<1> DEFINE f == [i \in 0..n |-> F[1..i]]
<1>6. f[0] = << >> /\ f[n] = F[1..n]
  <2>1. 1..0 = {} /\ {} \in SUBSET (1..n) /\ 0 \in 0..n /\ n \in 0..n
    OBVIOUS
  <2>2. F[{}] = << >>
    BY ONLY <1>4, <2>1
  <2> QED
    BY ONLY <2>1, <2>2
<1>7. ASSUME NEW i \in 1..n PROVE f[i] = AppendGiven(f[i - 1], s[i])
  <2>1. i - 1 \in Nat /\ i - 1 + 1 = i /\ 1..i \in SUBSET (1..n) /\ 1..i # {}
    OBVIOUS
  <2>2. Max(1..i) = i /\ (1..i) \ {i} = 1..(i - 1)
    BY <2>1, Tops
  <2>3. F[1..i] = AppendGiven(F[(1..i) \ {Max(1..i)}], s[Max(1..i)])
    BY ONLY <1>4, <2>1
  <2>4. f[i] = F[1..i] /\ f[i - 1] = F[1..(i - 1)]
    OBVIOUS
  <2> QED
    BY ONLY <2>2, <2>3, <2>4
<1> HIDE DEF f
<1> QED
  BY <1>5, <1>6, <1>7

\* The calls that added, one by one.
LEMMA AddedFold ==
  ASSUME NEW s, NEW name, NEW n \in Nat, DOMAIN s = 1..n
  PROVE  \E f : /\ f[0] = << >> /\ AddedOf(name, s) = f[n]
                /\ \A i \in 1..n : f[i] = AppendAdded(f[i - 1], name, s[i])
<1> DEFINE Folds(k, g) ==
               g = [t \in SUBSET (1..k) |->
                       IF t = {} THEN << >> ELSE AppendAdded(g[t \ {Max(t)}], name, s[Max(t)])]
           P == {k \in Nat : \E g : Folds(k, g)}
<1>1. 0 \in P
  <2>1. Folds(0, [t \in SUBSET (1..0) |-> << >>])
    OBVIOUS
  <2> QED
    BY <2>1
<1>2. ASSUME NEW k \in P PROVE k + 1 \in P
  <2>1. PICK g : Folds(k, g)
    OBVIOUS
  <2> DEFINE h == [t \in SUBSET (1..(k + 1)) |->
                      IF k + 1 \in t THEN AppendAdded(g[t \ {k + 1}], name, s[k + 1]) ELSE g[t]]
  <2>0. k \in Nat
    OBVIOUS
  <2> HIDE DEF P, Folds
  <2>2. k \in Nat /\ \A t \in SUBSET (1..k) : h[t] = g[t] /\ t \ {Max(t)} \in SUBSET (1..k)
    <3>1. \A t \in SUBSET (1..k) : k + 1 \notin t /\ t \in SUBSET (1..(k + 1))
      BY <2>0
    <3>2. \A t \in SUBSET (1..k) : t \ {Max(t)} \in SUBSET (1..k)
      OBVIOUS
    <3> QED
      BY <2>0, <3>1, <3>2
  <2>3. ASSUME NEW t \in SUBSET (1..(k + 1))
        PROVE  h[t] = IF t = {} THEN << >> ELSE AppendAdded(h[t \ {Max(t)}], name, s[Max(t)])
    <3>1. CASE k + 1 \in t
      <4>1. Max(t) = k + 1 /\ t \ {k + 1} \in SUBSET (1..k) /\ t # {}
        BY <2>2, <3>1, Tops
      <4>2. h[t] = AppendAdded(g[t \ {k + 1}], name, s[k + 1]) /\ h[t \ {k + 1}] = g[t \ {k + 1}]
        BY <2>2, <3>1, <4>1
      <4> QED
        BY ONLY <4>1, <4>2
    <3>2. CASE k + 1 \notin t
      <4>1. t \in SUBSET (1..k)
        BY <2>2, <3>2, Tops
      <4>2. h[t] = g[t] /\ h[t \ {Max(t)}] = g[t \ {Max(t)}]
        BY <2>2, <4>1
      <4>3. g[t] = IF t = {} THEN << >> ELSE AppendAdded(g[t \ {Max(t)}], name, s[Max(t)])
        BY ONLY <2>1, <4>1 DEF Folds
      <4> QED
        BY ONLY <4>2, <4>3
    <3> QED
      BY ONLY <3>1, <3>2
  <2>4. Folds(k + 1, h)
    BY ONLY <2>3 DEF Folds
  <2> HIDE DEF h
  <2> QED
    BY ONLY <2>4, <2>0 DEF P
<1>3. \E g : Folds(n, g)
  <2> HIDE DEF Folds
  <2>1. P \in SUBSET Nat
    OBVIOUS
  <2>2. n \in P
    <3> HIDE DEF P
    <3> QED
      BY <1>1, <1>2, <2>1, Inductive
  <2> QED
    BY ONLY <2>2
<1> DEFINE F == CHOOSE g : Folds(n, g)
<1>4. Folds(n, F)
  BY ONLY <1>3
<1>5. AddedOf(name, s) = F[1..n]
  BY DEF AddedOf, FoldLeft, MapThenFoldSet
<1> HIDE DEF F
<1> DEFINE f == [i \in 0..n |-> F[1..i]]
<1>6. f[0] = << >> /\ f[n] = F[1..n]
  <2>1. 1..0 = {} /\ {} \in SUBSET (1..n) /\ 0 \in 0..n /\ n \in 0..n
    OBVIOUS
  <2>2. F[{}] = << >>
    BY ONLY <1>4, <2>1
  <2> QED
    BY ONLY <2>1, <2>2
<1>7. ASSUME NEW i \in 1..n PROVE f[i] = AppendAdded(f[i - 1], name, s[i])
  <2>1. i - 1 \in Nat /\ i - 1 + 1 = i /\ 1..i \in SUBSET (1..n) /\ 1..i # {}
    OBVIOUS
  <2>2. Max(1..i) = i /\ (1..i) \ {i} = 1..(i - 1)
    BY <2>1, Tops
  <2>3. F[1..i] = AppendAdded(F[(1..i) \ {Max(1..i)}], name, s[Max(1..i)])
    BY ONLY <1>4, <2>1
  <2>4. f[i] = F[1..i] /\ f[i - 1] = F[1..(i - 1)]
    OBVIOUS
  <2> QED
    BY ONLY <2>2, <2>3, <2>4
<1> HIDE DEF f
<1> QED
  BY <1>5, <1>6, <1>7

-----------------------------------------------------------------------------
(* Sequences *)

IsSeq(s) == \E S : s \in Seq(S)

\* A sequence, whatever it is of.
LEMMA SeqParts ==
  ASSUME NEW s, IsSeq(s)
  PROVE  Len(s) \in Nat /\ DOMAIN s = 1..Len(s)
BY DEF IsSeq

\* Append, on any sequence.
LEMMA AppendParts ==
  ASSUME NEW s, NEW e, IsSeq(s)
  PROVE  /\ IsSeq(Append(s, e)) /\ Len(s) \in Nat /\ Len(Append(s, e)) = Len(s) + 1
         /\ Append(s, e)[Len(s) + 1] = e
         /\ \A i \in 1..Len(s) : Append(s, e)[i] = s[i]
<1>1. PICK S : s \in Seq(S)
  BY DEF IsSeq
<1>2. s \in Seq(S \cup {e}) /\ e \in S \cup {e}
  BY <1>1
<1>3. Append(s, e) \in Seq(S \cup {e})
  BY <1>2
<1> QED
  BY <1>2, <1>3 DEF IsSeq

-----------------------------------------------------------------------------
(* TagEncoder *)

Data == Strings \cup Int

\* A value, and the type it is stored as.
StoredValues == {"string"} \X Strings \cup (Stored \ {"string"}) \X Data

\* A dictionary from some members of D to indexes.
Maps(D) == UNION {[E -> Nat] : E \in SUBSET D}

\* A TagEncoder, as it is at any time.
Encoders ==
    [keyIndex   : Maps(Strings),
     keyCount   : Nat,
     keys       : Seq(Strings),
     valueIndex : [Stored -> Maps(Data)],
     valueCount : Nat,
     values     : Seq(StoredValues)]

\* Every index is the place of its key, or of its value, in the buffer.
Placed(tags) ==
    /\ tags.keyCount = Len(tags.keys)
    /\ \A key \in DOMAIN tags.keyIndex :
          /\ tags.keyIndex[key] < tags.keyCount
          /\ tags.keys[tags.keyIndex[key] + 1] = key
    /\ tags.valueCount = Len(tags.values)
    /\ \A type \in Stored : \A v \in DOMAIN tags.valueIndex[type] :
          /\ tags.valueIndex[type][v] < tags.valueCount
          /\ tags.values[tags.valueIndex[type][v] + 1] = <<type, v>>

\* The buffers only grow.
Grows(s, t) == Len(s) <= Len(t) /\ \A i \in 1..Len(s) : t[i] = s[i]

TagsGrow(tags, new) == Grows(tags.keys, new.keys) /\ Grows(tags.values, new.values)

\* GetOrAddKey: the index it gives out is the place of the key.
LEMMA AddKeyPlaces ==
  ASSUME NEW tags \in Encoders, Placed(tags), NEW key \in Strings
  PROVE  LET new == AddKey(tags, key)
         IN  /\ new \in Encoders /\ Placed(new) /\ TagsGrow(tags, new)
             /\ new.keyIndex[key] \in 0..(Len(new.keys) - 1)
             /\ new.keys[new.keyIndex[key] + 1] = key
<1> DEFINE new == AddKey(tags, key)
<1>1. /\ tags.keys \in Seq(Strings) /\ tags.keyCount \in Nat /\ tags.keyCount = Len(tags.keys)
      /\ tags.values \in Seq(StoredValues)
  BY DEF Encoders, Placed
<1>2. PICK D \in SUBSET Strings : tags.keyIndex \in [D -> Nat]
  BY DEF Encoders, Maps
<1>3. CASE key \in DOMAIN tags.keyIndex
  <2>1. new = tags
    BY <1>3 DEF AddKey
  <2>2. tags.keyIndex[key] \in Nat
    BY <1>2, <1>3
  <2> QED
    BY <2>1, <2>2, <1>1, <1>3 DEF Placed, TagsGrow, Grows
<1>4. CASE key \notin DOMAIN tags.keyIndex
  <2>1. new = [tags EXCEPT !.keyIndex = MapAdd(@, key, tags.keyCount),
                      !.keyCount = @ + 1,
                      !.keys = Append(@, key)]
    BY <1>4 DEF AddKey
  <2> DEFINE index == MapAdd(tags.keyIndex, key, tags.keyCount)
  <2>2. /\ index \in [D \cup {key} -> Nat] /\ D \cup {key} \in SUBSET Strings
        /\ index[key] = tags.keyCount /\ \A k \in D : index[k] = tags.keyIndex[k]
    BY <1>1, <1>2, <1>4 DEF MapAdd
  <2>3. /\ IsSeq(tags.keys) /\ Append(tags.keys, key) \in Seq(Strings)
    BY <1>1 DEF IsSeq
  <2>4. /\ new.keyIndex = index /\ new.keyCount = tags.keyCount + 1
        /\ new.keys = Append(tags.keys, key)
        /\ new.valueIndex = tags.valueIndex /\ new.valueCount = tags.valueCount
        /\ new.values = tags.values
    BY <2>1 DEF Encoders
  <2>5. new \in Encoders
    <3>1. index \in Maps(Strings)
      BY <2>2 DEF Maps
    <3> HIDE DEF index, new
    <3>2. new = [keyIndex |-> index, keyCount |-> tags.keyCount + 1,
                 keys |-> Append(tags.keys, key), valueIndex |-> tags.valueIndex,
                 valueCount |-> tags.valueCount, values |-> tags.values]
      BY <2>1 DEF Encoders, index
    <3>3. tags.valueIndex \in [Stored -> Maps(Data)] /\ tags.valueCount \in Nat
      BY DEF Encoders
    <3> QED
      BY ONLY <2>3, <3>1, <3>2, <3>3, <1>1 DEF Encoders
  <2>6. /\ Len(new.keys) = Len(tags.keys) + 1 /\ new.keys[Len(tags.keys) + 1] = key
        /\ \A i \in 1..Len(tags.keys) : new.keys[i] = tags.keys[i]
    BY <2>3, <2>4, AppendParts
  <2>7. \A k \in D : tags.keyIndex[k] \in Nat /\ tags.keyIndex[k] < tags.keyCount
                     /\ tags.keys[tags.keyIndex[k] + 1] = k
    BY <1>2 DEF Placed
  <2> HIDE DEF new, index
  <2>8. DOMAIN new.keyIndex = D \cup {key}
    BY <2>2, <2>4
  <2>9. ASSUME NEW k \in D \cup {key}
        PROVE  new.keyIndex[k] < new.keyCount /\ new.keys[new.keyIndex[k] + 1] = k
    <3>1. CASE k = key
      BY ONLY <3>1, <2>2, <2>4, <2>6, <1>1
    <3>2. CASE k \in D
      <4>1. tags.keyIndex[k] + 1 \in 1..Len(tags.keys)
        BY ONLY <3>2, <2>7, <1>1
      <4> QED
        BY ONLY <3>2, <2>2, <2>4, <2>6, <2>7, <1>1, <4>1
    <3> QED
      BY <3>1, <3>2
  <2>10. Placed(new)
    BY <2>4, <2>6, <2>8, <2>9, <1>1 DEF Placed
  <2>11. TagsGrow(tags, new)
    BY <2>4, <2>6, <1>1 DEF TagsGrow, Grows
  <2> QED
    BY <2>2, <2>4, <2>5, <2>6, <2>10, <2>11, <1>1 DEF new
<1> QED
  BY <1>3, <1>4

\* GetOrAdd...Value: the index it gives out is the place of the value and its type.
LEMMA AddValuePlaces ==
  ASSUME NEW tags \in Encoders, Placed(tags), NEW type \in Stored, NEW v \in Data,
         <<type, v>> \in StoredValues
  PROVE  LET new == AddValue(tags, type, v)
         IN  /\ new \in Encoders /\ Placed(new) /\ TagsGrow(tags, new)
             /\ new.valueIndex[type][v] \in 0..(Len(new.values) - 1)
             /\ new.values[new.valueIndex[type][v] + 1] = <<type, v>>
<1> DEFINE new == AddValue(tags, type, v)
           old == tags.valueIndex[type]
<1>1. /\ tags.values \in Seq(StoredValues) /\ tags.valueCount \in Nat
      /\ tags.valueCount = Len(tags.values) /\ tags.keys \in Seq(Strings)
      /\ tags.valueIndex \in [Stored -> Maps(Data)]
  BY DEF Encoders, Placed
<1>2. PICK D \in SUBSET Data : old \in [D -> Nat]
  <2>1. old \in Maps(Data)
    BY ONLY <1>1, type \in Stored
  <2> HIDE DEF old
  <2> QED
    BY ONLY <2>1 DEF Maps
<1>3. CASE v \in DOMAIN old
  <2>1. new = tags
    BY <1>3 DEF AddValue
  <2>2. old[v] \in Nat
    <3> HIDE DEF old
    <3> QED
      BY ONLY <1>2, <1>3
  <2>3. old[v] < tags.valueCount /\ tags.values[old[v] + 1] = <<type, v>>
    BY <1>3 DEF Placed
  <2>4. TagsGrow(tags, tags)
    BY <1>1 DEF TagsGrow, Grows
  <2> HIDE DEF new
  <2>5. new.valueIndex[type][v] = old[v]
    BY ONLY <2>1
  <2>6. old[v] \in 0..(Len(tags.values) - 1)
    <3> HIDE DEF old
    <3> QED
      BY ONLY <2>2, <2>3, <1>1
  <2> QED
    BY <2>1, <2>3, <2>4, <2>5, <2>6 DEF new
<1>4. CASE v \notin DOMAIN old
  <2>1. new = [tags EXCEPT !.valueIndex[type] = MapAdd(@, v, tags.valueCount),
                      !.valueCount = @ + 1,
                      !.values = Append(@, <<type, v>>)]
    BY <1>4 DEF AddValue
  <2> DEFINE index == MapAdd(old, v, tags.valueCount)
  <2>2. /\ index \in [D \cup {v} -> Nat] /\ D \cup {v} \in SUBSET Data
        /\ index[v] = tags.valueCount /\ \A w \in D : index[w] = old[w]
    BY <1>1, <1>2, <1>4 DEF MapAdd
  <2>3. /\ IsSeq(tags.values) /\ Append(tags.values, <<type, v>>) \in Seq(StoredValues)
    BY <1>1 DEF IsSeq
  <2>4. /\ new.valueIndex = [tags.valueIndex EXCEPT ![type] = index]
        /\ new.valueCount = tags.valueCount + 1
        /\ new.values = Append(tags.values, <<type, v>>)
        /\ new.keyIndex = tags.keyIndex /\ new.keyCount = tags.keyCount
        /\ new.keys = tags.keys
    BY <2>1 DEF Encoders
  <2>5. new \in Encoders
    <3>1. index \in Maps(Data)
      BY <2>2 DEF Maps
    <3>2. [tags.valueIndex EXCEPT ![type] = index] \in [Stored -> Maps(Data)]
      <4> HIDE DEF index
      <4> QED
        BY <3>1, <1>1
    <3> HIDE DEF index, new
    <3>3. new = [keyIndex |-> tags.keyIndex, keyCount |-> tags.keyCount, keys |-> tags.keys,
                 valueIndex |-> [tags.valueIndex EXCEPT ![type] = index],
                 valueCount |-> tags.valueCount + 1,
                 values |-> Append(tags.values, <<type, v>>)]
      BY <2>1 DEF Encoders, index, old
    <3>4. tags.keyIndex \in Maps(Strings) /\ tags.keyCount \in Nat
      BY DEF Encoders
    <3> QED
      BY ONLY <2>3, <3>2, <3>3, <3>4, <1>1 DEF Encoders
  <2>6. /\ Len(new.values) = Len(tags.values) + 1
        /\ new.values[Len(tags.values) + 1] = <<type, v>>
        /\ \A i \in 1..Len(tags.values) : new.values[i] = tags.values[i]
    BY <2>3, <2>4, AppendParts
  <2>7. \A t \in Stored : \A w \in DOMAIN tags.valueIndex[t] :
           /\ tags.valueIndex[t][w] \in Nat /\ tags.valueIndex[t][w] < tags.valueCount
           /\ tags.values[tags.valueIndex[t][w] + 1] = <<t, w>>
    BY <1>1 DEF Placed, Maps
  <2>8. /\ new.valueIndex[type] = index
        /\ \A t \in Stored : t # type => new.valueIndex[t] = tags.valueIndex[t]
    <3> HIDE DEF index, new
    <3> QED
      BY <2>4, <1>1
  <2>a. DOMAIN index = D \cup {v} /\ DOMAIN old = D
    BY <2>2, <1>2
  <2>b. \A w \in D : old[w] \in Nat /\ old[w] < tags.valueCount
                     /\ tags.values[old[w] + 1] = <<type, w>>
    BY <2>7, <2>a
  <2> HIDE DEF new, index, old
  <2>9. ASSUME NEW t \in Stored, NEW w \in DOMAIN new.valueIndex[t]
        PROVE  /\ new.valueIndex[t][w] < new.valueCount
               /\ new.values[new.valueIndex[t][w] + 1] = <<t, w>>
    <3>1. CASE t # type
      <4>1. /\ tags.valueIndex[t][w] \in Nat /\ tags.valueIndex[t][w] < tags.valueCount
            /\ tags.values[tags.valueIndex[t][w] + 1] = <<t, w>>
            /\ new.valueIndex[t][w] = tags.valueIndex[t][w]
        BY <3>1, <2>7, <2>8
      <4>2. tags.valueIndex[t][w] + 1 \in 1..Len(tags.values)
        BY ONLY <4>1, <1>1
      <4> QED
        BY ONLY <4>1, <4>2, <2>4, <2>6, <1>1
    <3>2. CASE t = type /\ w = v
      BY ONLY <3>2, <2>2, <2>4, <2>6, <2>8, <1>1
    <3>3. CASE t = type /\ w # v
      <4>0. w \in D
        BY <3>3, <2>8, <2>a
      <4>1. old[w] \in Nat /\ old[w] < tags.valueCount
                     /\ tags.values[old[w] + 1] = <<type, w>> /\ index[w] = old[w]
        BY ONLY <4>0, <2>b, <2>2
      <4>2. old[w] + 1 \in 1..Len(tags.values)
        BY ONLY <4>1, <1>1
      <4> QED
        BY ONLY <4>1, <4>2, <2>4, <2>6, <2>8, <1>1, <3>3
    <3> QED
      BY <3>1, <3>2, <3>3
  <2>10. Placed(new)
    <3>1. /\ tags.keyCount = Len(tags.keys)
          /\ \A key \in DOMAIN tags.keyIndex :
                /\ tags.keyIndex[key] < tags.keyCount
                /\ tags.keys[tags.keyIndex[key] + 1] = key
      BY DEF Placed
    <3> QED
      BY ONLY <3>1, <2>4, <2>6, <2>9, <1>1 DEF Placed
  <2>11. TagsGrow(tags, new)
    BY <2>4, <2>6, <1>1 DEF TagsGrow, Grows
  <2> QED
    BY <2>2, <2>4, <2>5, <2>6, <2>8, <2>10, <2>11, <1>1 DEF new
<1> QED
  BY <1>3, <1>4

\* The buffers are sequences.
LEMMA EncoderSizes ==
  \A e \in Encoders : Len(e.keys) \in Nat /\ Len(e.values) \in Nat
<1> SUFFICES ASSUME NEW e \in Encoders PROVE Len(e.keys) \in Nat /\ Len(e.values) \in Nat
  OBVIOUS
<1>1. e.keys \in Seq(Strings) /\ e.values \in Seq(StoredValues)
  BY DEF Encoders
<1> QED
  BY ONLY <1>1

\* Growing goes on.
LEMMA GrowsOn ==
  ASSUME NEW s, NEW t, NEW u, Len(s) \in Nat, Len(t) \in Nat, Len(u) \in Nat,
         Grows(s, t), Grows(t, u)
  PROVE  Grows(s, u)
BY DEF Grows

\* The same of both buffers.
LEMMA TagsGrowOn ==
  ASSUME NEW a \in Encoders, NEW b \in Encoders, NEW c \in Encoders,
         TagsGrow(a, b), TagsGrow(b, c)
  PROVE  TagsGrow(a, c)
<1>1. \A e \in Encoders : Len(e.keys) \in Nat /\ Len(e.values) \in Nat
  BY EncoderSizes
<1>2. Grows(a.keys, b.keys) /\ Grows(b.keys, c.keys)
      /\ Grows(a.values, b.values) /\ Grows(b.values, c.values)
  BY DEF TagsGrow
<1>3. Grows(a.keys, c.keys)
  BY <1>1, <1>2, GrowsOn
<1>4. Grows(a.values, c.values)
  BY <1>1, <1>2, GrowsOn
<1> QED
  BY ONLY <1>3, <1>4 DEF TagsGrow

\* WriteTags while it writes.
Writings == [tags : Encoders, scratch : Seq(Nat), threw : BOOLEAN]

\* The k-th two tags are the places of the k-th pair's key and value.
Reads(tags, scratch, given) ==
    /\ Len(scratch) = 2 * Len(given)
    /\ \A k \in 1..Len(given) :
          /\ scratch[2 * k - 1] \in 0..(Len(tags.keys) - 1)
          /\ tags.keys[scratch[2 * k - 1] + 1] = given[k][1]
          /\ scratch[2 * k] \in 0..(Len(tags.values) - 1)
          /\ tags.values[scratch[2 * k] + 1] = <<StoredAs(given[k][2][1]), given[k][2][2]>>

\* What is added later does not change what tags read as.
LEMMA ReadsStay ==
  ASSUME NEW tags \in Encoders, NEW new \in Encoders, TagsGrow(tags, new),
         NEW scratch, NEW given, Reads(tags, scratch, given)
  PROVE  Reads(new, scratch, given)
<1>1. /\ Len(tags.keys) \in Nat /\ Len(tags.values) \in Nat
      /\ Len(new.keys) \in Nat /\ Len(new.values) \in Nat
  BY DEF Encoders
<1>2. /\ \A i \in 0..(Len(tags.keys) - 1) :
            i \in 0..(Len(new.keys) - 1) /\ new.keys[i + 1] = tags.keys[i + 1]
      /\ \A i \in 0..(Len(tags.values) - 1) :
            i \in 0..(Len(new.values) - 1) /\ new.values[i + 1] = tags.values[i + 1]
  BY <1>1 DEF TagsGrow, Grows
<1> QED
  BY <1>2 DEF Reads

\* Two more tags, of one more pair.
LEMMA ReadsOn ==
  ASSUME NEW tags, NEW scratch \in Seq(Nat), NEW given, IsSeq(given),
         Reads(tags, scratch, given), NEW pair, NEW i \in Nat, NEW j \in Nat,
         i \in 0..(Len(tags.keys) - 1), tags.keys[i + 1] = pair[1],
         j \in 0..(Len(tags.values) - 1),
         tags.values[j + 1] = <<StoredAs(pair[2][1]), pair[2][2]>>
  PROVE  Reads(tags, Append(Append(scratch, i), j), Append(given, pair))
<1> DEFINE one == Append(scratch, i)
           two == Append(one, j)
           all == Append(given, pair)
<1>1. /\ IsSeq(scratch) /\ Len(scratch) \in Nat
      /\ Len(scratch) = 2 * Len(given)
  BY DEF IsSeq, Reads
<1>2. /\ IsSeq(one) /\ Len(one) = Len(scratch) + 1 /\ one[Len(scratch) + 1] = i
      /\ \A k \in 1..Len(scratch) : one[k] = scratch[k]
  BY <1>1, AppendParts
<1>3. /\ Len(two) = Len(scratch) + 2 /\ two[Len(scratch) + 2] = j
      /\ \A k \in 1..(Len(scratch) + 1) : two[k] = one[k]
  <2> HIDE DEF one
  <2>1. /\ Len(two) = Len(one) + 1 /\ two[Len(one) + 1] = j
        /\ \A k \in 1..Len(one) : two[k] = one[k]
    BY <1>2, AppendParts
  <2> HIDE DEF two
  <2> QED
    BY ONLY <1>1, <1>2, <2>1
<1>4. /\ Len(given) \in Nat /\ Len(all) = Len(given) + 1 /\ all[Len(given) + 1] = pair
      /\ \A k \in 1..Len(given) : all[k] = given[k]
  BY AppendParts
<1> HIDE DEF one, two, all
<1>5. Len(two) = 2 * Len(all)
  BY ONLY <1>1, <1>3, <1>4
<1>6. ASSUME NEW k \in 1..Len(all)
      PROVE  /\ two[2 * k - 1] \in 0..(Len(tags.keys) - 1)
             /\ tags.keys[two[2 * k - 1] + 1] = all[k][1]
             /\ two[2 * k] \in 0..(Len(tags.values) - 1)
             /\ tags.values[two[2 * k] + 1] = <<StoredAs(all[k][2][1]), all[k][2][2]>>
  <2>1. CASE k = Len(given) + 1
    <3>1. 2 * k - 1 = Len(scratch) + 1 /\ 2 * k = Len(scratch) + 2
      BY ONLY <2>1, <1>1, <1>4
    <3>a. two[Len(scratch) + 1] = i /\ two[Len(scratch) + 2] = j /\ all[Len(given) + 1] = pair
      BY ONLY <1>1, <1>2, <1>3, <1>4
    <3>2. two[2 * k - 1] = i /\ two[2 * k] = j /\ all[k] = pair
      BY ONLY <2>1, <3>1, <3>a
    <3> QED
      BY ONLY <3>2, i \in 0..(Len(tags.keys) - 1), tags.keys[i + 1] = pair[1],
              j \in 0..(Len(tags.values) - 1),
              tags.values[j + 1] = <<StoredAs(pair[2][1]), pair[2][2]>>
  <2>2. CASE k # Len(given) + 1
    <3>1. k \in 1..Len(given) /\ 2 * k - 1 \in 1..Len(scratch) /\ 2 * k \in 1..Len(scratch)
      BY ONLY <2>2, <1>1, <1>4, k \in 1..Len(all)
    <3>a. \A m \in 1..Len(scratch) : two[m] = scratch[m]
      BY ONLY <1>1, <1>2, <1>3
    <3>2. two[2 * k - 1] = scratch[2 * k - 1] /\ two[2 * k] = scratch[2 * k] /\ all[k] = given[k]
      BY ONLY <3>1, <3>a, <1>4
    <3>3. /\ scratch[2 * k - 1] \in 0..(Len(tags.keys) - 1)
          /\ tags.keys[scratch[2 * k - 1] + 1] = given[k][1]
          /\ scratch[2 * k] \in 0..(Len(tags.values) - 1)
          /\ tags.values[scratch[2 * k] + 1] = <<StoredAs(given[k][2][1]), given[k][2][2]>>
      BY ONLY <3>1, Reads(tags, scratch, given) DEF Reads
    <3> QED
      BY ONLY <3>2, <3>3
  <2> QED
    BY <2>1, <2>2
<1> QED
  BY <1>5, <1>6 DEF Reads, two, one, all

\* The types GetOrAddValue has a case for.
LEMMA StoredTypes ==
  ASSUME NEW pair \in Pairs, pair[2] # Null, pair[2] # Unsupported
  PROVE  /\ StoredAs(pair[2][1]) \in Stored /\ pair[2][2] \in Data
         /\ <<StoredAs(pair[2][1]), pair[2][2]>> \in StoredValues
<1>1. \/ pair[2] \in AsString \X Strings
      \/ pair[2] \in {"ulong"} \X Nat
      \/ pair[2] \in (AsInt \cup {"double", "decimal", "float", "bool"}) \X Int
  BY DEF Pairs
<1>2. CASE pair[2] \in AsString \X Strings
  BY <1>2 DEF StoredAs, Stored, StoredValues, Data
<1>3. CASE pair[2] \in {"ulong"} \X Nat
  BY <1>3 DEF StoredAs, Stored, StoredValues, Data, AsString, AsInt
<1>4. CASE pair[2] \in (AsInt \cup {"double", "decimal", "float", "bool"}) \X Int
  BY <1>4 DEF StoredAs, Stored, StoredValues, Data, AsString, AsInt
<1> QED
  BY <1>1, <1>2, <1>3, <1>4

\* One pair of WriteTags, of a type the switch has a case for or not.
LEMMA PairReads ==
  ASSUME NEW acc \in Writings, Placed(acc.tags), NEW pair \in Pairs, NEW given, IsSeq(given),
         ~acc.threw => Reads(acc.tags, acc.scratch, given)
  PROVE  LET new == WritePair(acc, pair)
             more == AppendGiven(given, pair)
         IN  /\ new \in Writings /\ Placed(new.tags) /\ TagsGrow(acc.tags, new.tags)
             /\ IsSeq(more) /\ (~new.threw => Reads(new.tags, new.scratch, more))
<1> DEFINE new == WritePair(acc, pair)
           more == AppendGiven(given, pair)
           value == pair[2]
           keyed == AddKey(acc.tags, pair[1])
           withKey == Append(acc.scratch, keyed.keyIndex[pair[1]])
<1>1. /\ acc.tags \in Encoders /\ acc.scratch \in Seq(Nat) /\ acc.threw \in BOOLEAN
      /\ pair[1] \in Strings
  BY DEF Writings, Pairs
<1>2. IsSeq(more)
  BY AppendParts DEF AppendGiven
<1>3. TagsGrow(acc.tags, acc.tags)
  BY <1>1 DEF Encoders, TagsGrow, Grows
<1>4. CASE acc.threw \/ value = Null
  <2>1. new = acc
    BY <1>4 DEF WritePair
  <2>2. ~acc.threw => more = given
    BY <1>4 DEF AppendGiven
  <2> HIDE DEF new, more
  <2> QED
    BY <1>2, <1>3, <2>1, <2>2 DEF new, more
<1>5. /\ keyed \in Encoders /\ Placed(keyed) /\ TagsGrow(acc.tags, keyed)
      /\ keyed.keyIndex[pair[1]] \in 0..(Len(keyed.keys) - 1)
      /\ keyed.keys[keyed.keyIndex[pair[1]] + 1] = pair[1]
  BY <1>1, AddKeyPlaces
<1> HIDE DEF keyed
<1>6. withKey \in Seq(Nat) /\ keyed.keyIndex[pair[1]] \in Nat
  BY <1>1, <1>5
<1>7. CASE ~acc.threw /\ value # Null /\ value = Unsupported
  <2>1. new = [tags |-> keyed, scratch |-> withKey, threw |-> TRUE]
    BY <1>7 DEF WritePair, keyed
  <2> HIDE DEF new, withKey, more
  <2>2. new \in Writings /\ new.threw /\ new.tags = keyed
    BY ONLY <2>1, <1>5, <1>6 DEF Writings
  <2> QED
    BY <2>2, <1>2, <1>5 DEF new, more
<1>8. CASE ~acc.threw /\ value # Null /\ value # Unsupported
  <2> DEFINE type == StoredAs(value[1])
             tags == AddValue(keyed, type, value[2])
             j == tags.valueIndex[type][value[2]]
  <2>1. new = [tags |-> tags, scratch |-> Append(withKey, j), threw |-> FALSE]
    BY <1>8 DEF WritePair, keyed
  <2>2. type \in Stored /\ value[2] \in Data /\ <<type, value[2]>> \in StoredValues
    BY <1>8, StoredTypes
  <2>3. /\ tags \in Encoders /\ Placed(tags) /\ TagsGrow(keyed, tags)
        /\ j \in 0..(Len(tags.values) - 1) /\ tags.values[j + 1] = <<type, value[2]>>
    <3> HIDE DEF type
    <3> QED
      BY <1>5, <2>2, AddValuePlaces
  <2>4. TagsGrow(acc.tags, tags)
    <3> HIDE DEF tags
    <3> QED
      BY <1>1, <1>5, <2>3, TagsGrowOn
  <2>5. more = Append(given, pair)
    BY <1>8 DEF AppendGiven
  <2> HIDE DEF tags
  <2>6. /\ Len(keyed.keys) \in Nat /\ Len(tags.keys) \in Nat /\ Len(tags.values) \in Nat
    BY ONLY <1>5, <2>3, EncoderSizes
  <2>7. /\ keyed.keyIndex[pair[1]] \in 0..(Len(tags.keys) - 1)
        /\ tags.keys[keyed.keyIndex[pair[1]] + 1] = pair[1]
    <3>1. Grows(keyed.keys, tags.keys)
      BY <2>3 DEF TagsGrow
    <3>2. keyed.keyIndex[pair[1]] + 1 \in 1..Len(keyed.keys)
      BY ONLY <1>5, <2>6
    <3>3. /\ Len(keyed.keys) <= Len(tags.keys)
          /\ tags.keys[keyed.keyIndex[pair[1]] + 1] = keyed.keys[keyed.keyIndex[pair[1]] + 1]
      BY ONLY <3>1, <3>2 DEF Grows
    <3> QED
      BY ONLY <3>3, <1>5, <2>6
  <2>8. Reads(tags, acc.scratch, given)
    BY <1>1, <1>8, <2>3, <2>4, ReadsStay
  <2>9. j \in Nat
    <3> HIDE DEF j, type
    <3> QED
      BY ONLY <2>3, <2>6
  <2>10. Reads(tags, Append(withKey, j), more)
    <3> HIDE DEF j, type
    <3>1. tags.values[j + 1] = <<StoredAs(pair[2][1]), pair[2][2]>>
      BY <2>3 DEF type
    <3> QED
      BY <1>1, <1>6, <2>3, <2>5, <2>7, <2>8, <2>9, <3>1, ReadsOn
  <2>11. new \in Writings
    <3> HIDE DEF withKey, j, new
    <3>1. Append(withKey, j) \in Seq(Nat)
      BY <1>6, <2>9
    <3> QED
      BY ONLY <2>1, <2>3, <3>1 DEF Writings
  <2>12. new.tags = tags /\ new.scratch = Append(withKey, j)
    <3> HIDE DEF new, j, withKey
    <3> QED
      BY ONLY <2>1
  <2> HIDE DEF new, more, withKey, j
  <2> QED
    BY <1>2, <2>3, <2>4, <2>10, <2>11, <2>12 DEF new, more
<1> QED
  BY <1>1, <1>4, <1>7, <1>8

\* The tags of a call that does not throw read as the pairs it was given.
LEMMA WriteTagsReads ==
  ASSUME NEW layer, layer.tags \in Encoders, Placed(layer.tags), NEW s \in Seq(Pairs)
  PROVE  LET new == WriteTags(layer, s)
         IN  /\ new \in Writings /\ Placed(new.tags) /\ TagsGrow(layer.tags, new.tags)
             /\ IsSeq(Given(s)) /\ (~new.threw => Reads(new.tags, new.scratch, Given(s)))
<1> DEFINE n == Len(s)
<1>1. n \in Nat /\ DOMAIN s = 1..n /\ \A i \in 1..n : s[i] \in Pairs
  OBVIOUS
<1> HIDE DEF n
<1>2. PICK f : /\ f[0] = Started(layer)
               /\ WriteTags(layer, s) = f[n]
               /\ \A i \in 1..n : f[i] = WritePair(f[i - 1], s[i])
  <2>1. n \in Nat /\ DOMAIN s = 1..n
    BY <1>1
  <2> QED
    BY ONLY <2>1, WriteTagsFold
<1>3. PICK g : /\ g[0] = << >> /\ Given(s) = g[n]
               /\ \A i \in 1..n : g[i] = AppendGiven(g[i - 1], s[i])
  BY <1>1, GivenFold
<1> DEFINE Ok(i) == /\ f[i] \in Writings /\ Placed(f[i].tags) /\ TagsGrow(layer.tags, f[i].tags)
                    /\ IsSeq(g[i]) /\ (~f[i].threw => Reads(f[i].tags, f[i].scratch, g[i]))
           P == {i \in Nat : i <= n => Ok(i)}
<1>4. 0 \in P
  <2>1. f[0] \in Writings /\ f[0].tags = layer.tags /\ f[0].scratch = << >>
    BY <1>2 DEF Writings, Started
  <2>2. TagsGrow(layer.tags, layer.tags)
    BY DEF Encoders, TagsGrow, Grows
  <2>3. IsSeq(<< >>) /\ Reads(layer.tags, << >>, << >>)
    BY DEF IsSeq, Reads
  <2> QED
    BY <2>1, <2>2, <2>3, <1>3
<1>5. ASSUME NEW i \in P PROVE i + 1 \in P
  <2> SUFFICES ASSUME i + 1 <= n PROVE Ok(i + 1)
    OBVIOUS
  <2>1. i \in Nat /\ i + 1 \in 1..n /\ i + 1 - 1 = i /\ Ok(i)
    BY <1>1
  <2>2. f[i + 1] = WritePair(f[i], s[i + 1]) /\ g[i + 1] = AppendGiven(g[i], s[i + 1])
    BY ONLY <1>2, <1>3, <2>1
  <2> DEFINE new == WritePair(f[i], s[i + 1])
             more == AppendGiven(g[i], s[i + 1])
  <2>3. /\ new \in Writings /\ Placed(new.tags) /\ TagsGrow(f[i].tags, new.tags)
        /\ IsSeq(more) /\ (~new.threw => Reads(new.tags, new.scratch, more))
    BY <1>1, <2>1, PairReads
  <2>4. TagsGrow(layer.tags, new.tags)
    <3> HIDE DEF new
    <3>1. f[i].tags \in Encoders /\ new.tags \in Encoders
      BY <2>1, <2>3 DEF Writings
    <3> QED
      BY <2>1, <2>3, <3>1, TagsGrowOn
  <2> HIDE DEF new, more
  <2> QED
    BY ONLY <2>2, <2>3, <2>4 DEF new, more
<1>6. Ok(n)
  <2>1. P \in SUBSET Nat
    OBVIOUS
  <2> HIDE DEF Ok
  <2>2. n \in P
    <3> HIDE DEF P
    <3> QED
      BY <1>1, <1>4, <1>5, <2>1, Inductive
  <2> QED
    BY <1>1, <2>2
<1> QED
  BY <1>2, <1>3, <1>6

-----------------------------------------------------------------------------
(* The calls that added a feature                                          *)

\* One more call.
LEMMA AddedAppend ==
  ASSUME NEW name, NEW cs, IsSeq(cs), NEW c
  PROVE  AddedOf(name, Append(cs, c)) = AppendAdded(AddedOf(name, cs), name, c)
<1> DEFINE n == Len(cs)
           more == Append(cs, c)
<1>1. /\ n \in Nat /\ DOMAIN cs = 1..n /\ more[n + 1] = c
      /\ n + 1 \in Nat /\ DOMAIN more = 1..(n + 1) /\ \A i \in 1..n : more[i] = cs[i]
  <2>1. Len(more) \in Nat /\ DOMAIN more = 1..Len(more) /\ Len(more) = n + 1
    BY AppendParts, SeqParts
  <2> QED
    BY <2>1, AppendParts, SeqParts
<1> HIDE DEF n, more
<1>2. PICK f : /\ f[0] = << >> /\ AddedOf(name, cs) = f[n]
               /\ \A i \in 1..n : f[i] = AppendAdded(f[i - 1], name, cs[i])
  <2>1. n \in Nat /\ DOMAIN cs = 1..n
    BY <1>1
  <2> QED
    BY ONLY <2>1, AddedFold, Z3
<1>3. PICK g : /\ g[0] = << >> /\ AddedOf(name, more) = g[n + 1]
               /\ \A i \in 1..(n + 1) : g[i] = AppendAdded(g[i - 1], name, more[i])
  <2> DEFINE m == n + 1
  <2>1. m \in Nat /\ DOMAIN more = 1..m
    BY <1>1
  <2> HIDE DEF m
  <2>2. \E g : /\ g[0] = << >> /\ AddedOf(name, more) = g[m]
              /\ \A i \in 1..m : g[i] = AppendAdded(g[i - 1], name, more[i])
    BY ONLY <2>1, AddedFold, Z3
  <2> QED
    BY ONLY <2>2 DEF m
<1> DEFINE P == {i \in Nat : i <= n => f[i] = g[i]}
<1>4. 0 \in P
  BY <1>2, <1>3
<1>5. ASSUME NEW i \in P PROVE i + 1 \in P
  <2>1. i \in Nat /\ (i <= n => f[i] = g[i])
    OBVIOUS
  <2> SUFFICES ASSUME i + 1 <= n PROVE f[i + 1] = g[i + 1]
    BY <2>1
  <2>2. i + 1 \in 1..n /\ i + 1 \in 1..(n + 1) /\ i + 1 - 1 = i /\ f[i] = g[i]
    BY <1>1, <2>1
  <2> QED
    BY ONLY <1>1, <1>2, <1>3, <2>2
<1>6. n \in P
  <2>1. P \in SUBSET Nat
    OBVIOUS
  <2> HIDE DEF P
  <2> QED
    BY <1>1, <1>4, <1>5, <2>1, Inductive
<1>7. n + 1 \in 1..(n + 1) /\ n + 1 - 1 = n /\ f[n] = g[n]
  BY <1>1, <1>6
<1>8. g[n + 1] = AppendAdded(g[n], name, c)
  BY ONLY <1>1, <1>3, <1>7
<1> QED
  BY ONLY <1>2, <1>3, <1>7, <1>8 DEF more

\* Before any call.
LEMMA AddedNone == \A name : AddedOf(name, << >>) = << >>
<1> TAKE name
<1>1. 0 \in Nat /\ DOMAIN << >> = 1..0
  OBVIOUS
<1>2. PICK f : f[0] = << >> /\ AddedOf(name, << >>) = f[0]
  BY ONLY <1>1, AddedFold
<1> QED
  BY <1>2

-----------------------------------------------------------------------------
(* LayerBuilder                                                            *)

\* A layer, as it is between two calls.
LayerOk(layer) ==
    /\ DOMAIN layer = {"name", "tags", "features", "tagScratch", "nextId"}
    /\ layer.tags \in Encoders /\ Placed(layer.tags) /\ IsSeq(layer.features)

\* The features of a layer are those its calls added: the tags read as the
\* attributes of the call, and the ids are the given ones or count those that
\* gave none.
Nameless(added, i) == {j \in 1..i : added[j].id = Null}

Holds(layer, added) ==
    /\ IsSeq(added) /\ Len(layer.features) = Len(added)
    /\ layer.nextId = 1 + Cardinality(Nameless(added, Len(added)))
    /\ \A i \in 1..Len(added) :
          /\ IsSeq(Given(added[i].attributes))
          /\ Reads(layer.tags, layer.features[i].tags, Given(added[i].attributes))
          /\ layer.features[i].id = IF added[i].id = Null THEN Cardinality(Nameless(added, i))
                                    ELSE added[i].id

\* AddFeature keeps the layer a layer; it throws and adds nothing, or adds one
\* feature that reads as the attributes, with the id of the call or the next one.
LEMMA AddFeatureParts ==
  ASSUME NEW layer, LayerOk(layer), NEW type, NEW id, NEW geometry,
         NEW attributes \in Seq(Pairs)
  PROVE  LET new == AddFeature(layer, type, id, geometry, attributes)
         IN  /\ LayerOk(new) /\ TagsGrow(layer.tags, new.tags)
             /\ \/ new.features = layer.features /\ new.nextId = layer.nextId
                \/ \E f : /\ new.features = Append(layer.features, f)
                          /\ IsSeq(Given(attributes))
                          /\ Reads(new.tags, f.tags, Given(attributes))
                          /\ f.id = IF id = Null THEN layer.nextId ELSE id
                          /\ new.nextId = IF id = Null THEN layer.nextId + 1 ELSE layer.nextId
<1> DEFINE new == AddFeature(layer, type, id, geometry, attributes)
           written == WriteTags(layer, attributes)
           tagged == [layer EXCEPT !.tags = written.tags, !.tagScratch = written.scratch]
           featureId == IF id = Null THEN layer.nextId ELSE id
           f == [id |-> featureId, type |-> type, tags |-> written.scratch,
                 geometry |-> geometry,
                 body |-> FeatureBody(featureId, written.scratch, geometry)]
<1>1. /\ DOMAIN layer = {"name", "tags", "features", "tagScratch", "nextId"}
      /\ layer.tags \in Encoders /\ Placed(layer.tags) /\ IsSeq(layer.features)
  BY DEF LayerOk
<1>2. /\ written \in Writings /\ Placed(written.tags) /\ TagsGrow(layer.tags, written.tags)
      /\ IsSeq(Given(attributes))
      /\ ~written.threw => Reads(written.tags, written.scratch, Given(attributes))
  BY <1>1, WriteTagsReads
<1>3. new = IF written.threw THEN tagged
            ELSE [tagged EXCEPT !.features = Append(@, f),
                                !.nextId = IF id = Null THEN @ + 1 ELSE @]
  BY DEF AddFeature
<1>4. f.id = featureId /\ f.tags = written.scratch
  OBVIOUS
<1> HIDE DEF new, written, f
<1>5. written.tags \in Encoders /\ written.threw \in BOOLEAN
  BY <1>2 DEF Writings
<1>6. /\ DOMAIN tagged = DOMAIN layer /\ tagged.tags = written.tags
      /\ tagged.features = layer.features /\ tagged.nextId = layer.nextId
  BY <1>1
<1>7. CASE written.threw
  <2>1. new = tagged
    BY <1>3, <1>7
  <2> HIDE DEF tagged
  <2> QED
    BY <2>1, <1>1, <1>2, <1>5, <1>6 DEF LayerOk, new
<1>8. CASE ~written.threw
  <2> HIDE DEF tagged
  <2>1. new = [tagged EXCEPT !.features = Append(@, f),
                             !.nextId = IF id = Null THEN @ + 1 ELSE @]
    BY <1>3, <1>8
  <2>2. /\ DOMAIN new = DOMAIN layer /\ new.tags = written.tags
        /\ new.features = Append(layer.features, f)
        /\ new.nextId = IF id = Null THEN layer.nextId + 1 ELSE layer.nextId
    BY <2>1, <1>1, <1>6
  <2>3. IsSeq(new.features)
    BY <2>2, <1>1, AppendParts
  <2>4. LayerOk(new) /\ TagsGrow(layer.tags, new.tags)
    BY ONLY <2>2, <2>3, <1>1, <1>2, <1>5 DEF LayerOk
  <2>5. Reads(new.tags, f.tags, Given(attributes))
    BY ONLY <2>2, <1>2, <1>4, <1>8
  <2> QED
    BY <2>2, <2>4, <2>5, <1>2, <1>4 DEF new
<1> QED
  BY <1>7, <1>8

\* A call that adds nothing leaves what the features read as.
LEMMA HoldsStay ==
  ASSUME NEW layer, NEW new, NEW added, LayerOk(layer), LayerOk(new), Holds(layer, added),
         TagsGrow(layer.tags, new.tags),
         new.features = layer.features, new.nextId = layer.nextId
  PROVE  Holds(new, added)
<1>1. \A scratch, given : Reads(layer.tags, scratch, given) => Reads(new.tags, scratch, given)
  BY ReadsStay DEF LayerOk
<1> QED
  BY <1>1 DEF Holds

\* A call that adds a feature.
LEMMA HoldsOn ==
  ASSUME NEW layer, NEW new, NEW added, LayerOk(layer), LayerOk(new), Holds(layer, added),
         TagsGrow(layer.tags, new.tags), NEW f, NEW c,
         new.features = Append(layer.features, f), IsSeq(Given(c.attributes)),
         Reads(new.tags, f.tags, Given(c.attributes)),
         f.id = IF c.id = Null THEN layer.nextId ELSE c.id,
         new.nextId = IF c.id = Null THEN layer.nextId + 1 ELSE layer.nextId
  PROVE  Holds(new, Append(added, c))
<1> DEFINE n == Len(added)
           more == Append(added, c)
<1>1. \A scratch, given : Reads(layer.tags, scratch, given) => Reads(new.tags, scratch, given)
  BY ReadsStay DEF LayerOk
<1>2. /\ IsSeq(added) /\ Len(layer.features) = n
      /\ layer.nextId = 1 + Cardinality(Nameless(added, n))
      /\ \A i \in 1..n :
          /\ IsSeq(Given(added[i].attributes))
          /\ Reads(layer.tags, layer.features[i].tags, Given(added[i].attributes))
          /\ layer.features[i].id = IF added[i].id = Null THEN Cardinality(Nameless(added, i))
                                    ELSE added[i].id
  BY DEF Holds
<1>3. /\ n \in Nat /\ IsSeq(more) /\ Len(more) = n + 1 /\ more[n + 1] = c
      /\ \A i \in 1..n : more[i] = added[i]
  BY <1>2, AppendParts
<1>4. /\ Len(new.features) = n + 1 /\ new.features[n + 1] = f
      /\ \A i \in 1..n : new.features[i] = layer.features[i]
  BY <1>2, AppendParts DEF LayerOk
<1> HIDE DEF n, more
<1>5. \A i \in 1..n : Nameless(more, i) = Nameless(added, i)
  BY ONLY <1>3 DEF Nameless
<1>5a. Nameless(added, n) \subseteq 1..n /\ IsFiniteSet(Nameless(added, n)) /\ n + 1 \notin 1..n
  <2>1. Nameless(added, n) \subseteq 1..n
    BY DEF Nameless
  <2>2. IsFiniteSet(1..n) /\ n + 1 \notin 1..n
    BY <1>3, FS_Interval
  <2> QED
    BY ONLY <2>1, <2>2, FS_Subset
<1>6. Cardinality(Nameless(more, n + 1)) = Cardinality(Nameless(added, n))
                                             + IF c.id = Null THEN 1 ELSE 0
  <2>1. CASE c.id = Null
    <3>1. Nameless(more, n + 1) = Nameless(added, n) \cup {n + 1}
      BY ONLY <2>1, <1>3 DEF Nameless
    <3> QED
      BY <2>1, <3>1, <1>5a, FS_AddElement
  <2>2. CASE c.id # Null
    <3>1. Nameless(more, n + 1) = Nameless(added, n)
      BY ONLY <2>2, <1>3 DEF Nameless
    <3>2. Cardinality(Nameless(added, n)) \in Nat
      BY <1>5a, FS_CardinalityType
    <3> QED
      BY ONLY <2>2, <3>1, <3>2
  <2> QED
    BY <2>1, <2>2
<1>7. Cardinality(Nameless(added, n)) \in Nat
  BY <1>5a, FS_CardinalityType
<1>8. new.nextId = 1 + Cardinality(Nameless(more, n + 1))
  BY <1>2, <1>6, <1>7
<1>9. ASSUME NEW i \in 1..(n + 1)
      PROVE  /\ IsSeq(Given(more[i].attributes))
             /\ Reads(new.tags, new.features[i].tags, Given(more[i].attributes))
             /\ new.features[i].id = IF more[i].id = Null THEN Cardinality(Nameless(more, i))
                                     ELSE more[i].id
  <2>1. CASE i \in 1..n
    <3>1. /\ more[i] = added[i] /\ new.features[i] = layer.features[i]
          /\ Nameless(more, i) = Nameless(added, i)
      BY <2>1, <1>3, <1>4, <1>5
    <3>2. /\ IsSeq(Given(added[i].attributes))
          /\ Reads(new.tags, layer.features[i].tags, Given(added[i].attributes))
          /\ layer.features[i].id = IF added[i].id = Null THEN Cardinality(Nameless(added, i))
                                    ELSE added[i].id
      BY ONLY <2>1, <1>1, <1>2
    <3> QED
      BY ONLY <3>1, <3>2
  <2>2. CASE i = n + 1
    <3>1. more[i] = c /\ new.features[i] = f
      BY <2>2, <1>3, <1>4
    <3>2. c.id = Null => f.id = Cardinality(Nameless(more, n + 1))
      BY <1>2, <1>6, <1>7
    <3>3. /\ IsSeq(Given(c.attributes)) /\ Reads(new.tags, f.tags, Given(c.attributes))
          /\ f.id = IF c.id = Null THEN layer.nextId ELSE c.id
      OBVIOUS
    <3>4. f.id = IF c.id = Null THEN Cardinality(Nameless(more, i)) ELSE c.id
      BY ONLY <3>2, <3>3, <2>2
    <3> QED
      BY ONLY <3>1, <3>3, <3>4
  <2>3. i \in 1..n \/ i = n + 1
    BY ONLY <1>3, i \in 1..(n + 1)
  <2> QED
    BY ONLY <2>1, <2>2, <2>3
<1> QED
  BY ONLY <1>3, <1>4, <1>8, <1>9 DEF Holds, more

-----------------------------------------------------------------------------
(* The inductive invariant                                                 *)

\* Every layer of the tile holds the features its calls added; a name that is
\* not a layer's has had no call.
TagInv ==
    /\ source \in Source /\ IsSeq(calls)
    /\ \A name \in source.names \ DOMAIN layers : Added(name) = << >>
    /\ \A name \in DOMAIN layers : LayerOk(layers[name]) /\ Holds(layers[name], Added(name))

\* A new layer.
LEMMA NewLayerHolds ==
  ASSUME NEW name
  PROVE  LayerOk(NewLayer(name)) /\ Holds(NewLayer(name), << >>)
<1> DEFINE new == NewLayer(name)
<1>1. /\ DOMAIN new = {"name", "tags", "features", "tagScratch", "nextId"}
      /\ new.tags = NewTags /\ new.features = << >> /\ new.nextId = 1
  BY DEF NewLayer
<1>2. << >> \in Maps(Strings) /\ << >> \in Maps(Data)
  <2>1. << >> \in [{} -> Nat]
    OBVIOUS
  <2> QED
    BY <2>1 DEF Maps
<1>3. NewTags \in Encoders
  BY <1>2 DEF NewTags, Encoders
<1>4. Placed(NewTags)
  <2>1. /\ NewTags.keyCount = 0 /\ NewTags.keys = << >> /\ NewTags.keyIndex = << >>
        /\ NewTags.valueCount = 0 /\ NewTags.values = << >>
        /\ \A type \in Stored : NewTags.valueIndex[type] = << >>
    BY DEF NewTags
  <2> QED
    BY ONLY <2>1 DEF Placed
<1>5. IsSeq(<< >>)
  BY DEF IsSeq
<1>6. Nameless(<< >>, 0) = {} /\ Cardinality({}) = 0
  BY FS_EmptySet DEF Nameless
<1> HIDE DEF new
<1>7. LayerOk(new)
  BY ONLY <1>1, <1>3, <1>4, <1>5 DEF LayerOk
<1>8. Holds(new, << >>)
  <2>1. Len(<< >>) = 0 /\ \A i \in 1..0 : FALSE
    OBVIOUS
  <2>a. Nameless(<< >>, Len(<< >>)) = {}
    BY ONLY <1>6, <2>1, Zenon
  <2>b. Cardinality(Nameless(<< >>, Len(<< >>))) = 0
    BY ONLY <1>6, <2>a, Zenon
  <2>2. new.nextId = 1 + Cardinality(Nameless(<< >>, Len(<< >>)))
    BY ONLY <1>1, <2>b
  <2> QED
    BY ONLY <1>1, <1>5, <2>1, <2>2 DEF Holds
<1> QED
  BY <1>7, <1>8 DEF new

\* TileBuilder.Layer.
LEMMA LayerHolds ==
  ASSUME TagInv, NEW name \in source.names, Layer(name)
  PROVE  TagInv'
<1>1. /\ name \notin DOMAIN layers /\ layers' = MapAdd(layers, name, NewLayer(name))
      /\ source' = source /\ calls' = calls
  BY DEF Layer
<1>2. /\ DOMAIN layers' = DOMAIN layers \cup {name} /\ layers'[name] = NewLayer(name)
      /\ \A other \in DOMAIN layers : layers'[other] = layers[other]
  BY <1>1 DEF MapAdd
<1>3. \A other : Added(other)' = Added(other)
  BY <1>1 DEF Added
<1>4. Added(name) = << >>
  BY <1>1 DEF TagInv
<1>5. \A other \in source.names \ DOMAIN layers' : Added(other)' = << >>
  BY <1>2, <1>3 DEF TagInv
<1>6. ASSUME NEW other \in DOMAIN layers'
      PROVE  LayerOk(layers'[other]) /\ Holds(layers'[other], Added(other)')
  <2>1. CASE other = name
    BY <2>1, <1>2, <1>3, <1>4, NewLayerHolds
  <2>2. CASE other # name
    BY <2>2, <1>2, <1>3 DEF TagInv
  <2> QED
    BY <2>1, <2>2
<1> QED
  BY <1>1, <1>5, <1>6 DEF TagInv

\* An Add method, whether it skips, throws or adds.
LEMMA AddHolds ==
  ASSUME TagInv, NEW name \in DOMAIN layers, NEW shape, NEW geometry,
         NEW attributes \in Seq(Pairs), NEW id, Add(name, shape, geometry, attributes, id)
  PROVE  TagInv'
<1> DEFINE layer == layers[name]
           new == AddFeature(layer, shape.type, id, geometry, attributes)
           outcome == IF geometry = << >> THEN "skipped"
                      ELSE IF new.features = layer.features THEN "threw" ELSE "added"
           c == [name |-> name, shape |-> shape, attributes |-> attributes,
                 id |-> id, outcome |-> outcome]
<1>1. /\ layers' = IF geometry = << >> THEN layers ELSE [layers EXCEPT ![name] = new]
      /\ calls' = Append(calls, c) /\ source' = source
  BY DEF Add
<1>2. c.name = name /\ c.attributes = attributes /\ c.id = id /\ c.outcome = outcome
  OBVIOUS
<1>3. LayerOk(layer) /\ Holds(layer, Added(name)) /\ IsSeq(calls) /\ source \in Source
  BY DEF TagInv
<1>4. /\ LayerOk(new) /\ TagsGrow(layer.tags, new.tags)
      /\ \/ new.features = layer.features /\ new.nextId = layer.nextId
         \/ \E f : /\ new.features = Append(layer.features, f)
                   /\ IsSeq(Given(attributes)) /\ Reads(new.tags, f.tags, Given(attributes))
                   /\ f.id = IF id = Null THEN layer.nextId ELSE id
                   /\ new.nextId = IF id = Null THEN layer.nextId + 1 ELSE layer.nextId
  BY <1>3, AddFeatureParts
<1> HIDE DEF new, c
<1>5. IsSeq(calls')
  BY <1>1, <1>3, AppendParts
<1>6. \A other : Added(other)' = AppendAdded(Added(other), other, c)
  BY <1>1, <1>3, AddedAppend DEF Added
<1>7. \A other : other # name => Added(other)' = Added(other)
  BY <1>2, <1>6 DEF AppendAdded
<1>8. DOMAIN layers' = DOMAIN layers
      /\ \A other \in DOMAIN layers : other # name => layers'[other] = layers[other]
  BY <1>1
<1>9. LayerOk(layers'[name]) /\ Holds(layers'[name], Added(name)')
  <2> HIDE DEF layer
  <2>1. CASE geometry = << >>
    <3>1. layers' = layers /\ Added(name)' = Added(name)
      BY <2>1, <1>1, <1>2, <1>6 DEF AppendAdded
    <3> QED
      BY <3>1, <1>3 DEF layer
  <2>2. CASE geometry # << >> /\ new.features = layer.features /\ new.nextId = layer.nextId
    <3>1. layers'[name] = new /\ Added(name)' = Added(name)
      BY <2>2, <1>1, <1>2, <1>6 DEF AppendAdded
    <3> QED
      BY ONLY <3>1, <2>2, <1>3, <1>4, HoldsStay
  <2>3. ASSUME geometry # << >>, NEW f, new.features = Append(layer.features, f),
               IsSeq(Given(attributes)), Reads(new.tags, f.tags, Given(attributes)),
               f.id = IF id = Null THEN layer.nextId ELSE id,
               new.nextId = IF id = Null THEN layer.nextId + 1 ELSE layer.nextId
        PROVE  LayerOk(layers'[name]) /\ Holds(layers'[name], Added(name)')
    <3>1. new.features # layer.features
      <4>1. IsSeq(layer.features)
        BY <1>3 DEF LayerOk
      <4>2. Len(layer.features) \in Nat /\ Len(new.features) = Len(layer.features) + 1
        BY ONLY <2>3, <4>1, AppendParts
      <4> QED
        BY ONLY <4>2
    <3>2. layers'[name] = new /\ Added(name)' = Append(Added(name), c)
      BY <2>3, <3>1, <1>1, <1>2, <1>6 DEF AppendAdded
    <3>3. Holds(new, Append(Added(name), c))
      BY ONLY <2>3, <1>2, <1>3, <1>4, HoldsOn
    <3> QED
      BY <3>2, <3>3, <1>4
  <2> QED
    BY <2>1, <2>2, <2>3, <1>4
<1>10. \A other \in source.names \ DOMAIN layers : Added(other)' = << >>
  BY <1>7 DEF TagInv
<1>11. \A other \in DOMAIN layers : LayerOk(layers'[other]) /\ Holds(layers'[other], Added(other)')
  BY <1>7, <1>8, <1>9 DEF TagInv
<1> HIDE DEF layer
<1> QED
  BY ONLY <1>1, <1>3, <1>5, <1>8, <1>10, <1>11 DEF TagInv

\* The invariant holds of an empty tile.
LEMMA TagInvInit == Init => TagInv
BY AddedNone DEF Init, TagInv, Added, IsSeq

\* And after every call.
LEMMA TagInvNext == TagInv /\ [Next]_vars => TagInv'
<1> SUFFICES ASSUME TagInv, [Next]_vars PROVE TagInv'
  OBVIOUS
<1>1. CASE UNCHANGED vars
  BY <1>1 DEF vars, TagInv, Added
<1>2. CASE Next
  <2>1. ASSUME NEW name \in source.names, Layer(name) PROVE TagInv'
    BY <2>1, LayerHolds
  <2>2. ASSUME NEW name \in DOMAIN layers, NEW shape \in source.shapes,
               NEW attributes \in source.attributes, NEW id \in source.ids,
               \/ AddPoint(name, shape, attributes, id)
               \/ AddLineString(name, shape, attributes, id)
               \/ AddPolygon(name, shape, attributes, id)
        PROVE  TagInv'
    <3>1. attributes \in Seq(Pairs)
      BY SourceAssumption DEF TagInv
    <3>2. \E geometry : Add(name, shape, geometry, attributes, id)
      BY <2>2 DEF AddPoint, AddLineString, AddPolygon
    <3> QED
      BY <3>1, <3>2, AddHolds
  <2> QED
    BY <1>2, <2>1, <2>2 DEF Next
<1> QED
  BY <1>1, <1>2

\* It says what is promised of the tags and ids.
LEMMA TagInvDecodes == TagInv => TagsDecode
<1> SUFFICES ASSUME TagInv, NEW name \in DOMAIN layers
             PROVE  LET layer == layers[name]
                        added == Added(name)
                    IN  /\ Len(layer.features) = Len(added)
                        /\ \A i \in DOMAIN added :
                              LET feature == layer.features[i]
                                  given == Given(added[i].attributes)
                                  before == {j \in 1..i : added[j].id = Null}
                              IN  /\ Len(feature.tags) = 2 * Len(given)
                                  /\ \A k \in DOMAIN given :
                                       LET value == given[k][2]
                                       IN  /\ layer.tags.keys[feature.tags[2 * k - 1] + 1]
                                                  = given[k][1]
                                           /\ layer.tags.values[feature.tags[2 * k] + 1]
                                                  = <<StoredAs(value[1]), value[2]>>
                                  /\ feature.id = IF added[i].id = Null
                                                  THEN Cardinality(before) ELSE added[i].id
  BY DEF TagsDecode
<1> DEFINE layer == layers[name]
           added == Added(name)
<1>1. Holds(layer, added)
  BY DEF TagInv
<1> HIDE DEF layer, added
<1>2. IsSeq(added) /\ Len(layer.features) = Len(added)
  BY <1>1 DEF Holds
<1>3. ASSUME NEW i \in DOMAIN added
      PROVE  /\ IsSeq(Given(added[i].attributes))
             /\ Reads(layer.tags, layer.features[i].tags, Given(added[i].attributes))
             /\ layer.features[i].id = IF added[i].id = Null THEN Cardinality(Nameless(added, i))
                                       ELSE added[i].id
  BY <1>1, <1>2, SeqParts DEF Holds
<1>4. ASSUME NEW i \in DOMAIN added, NEW k \in DOMAIN Given(added[i].attributes)
      PROVE  LET feature == layer.features[i]
                 given == Given(added[i].attributes)
                 value == given[k][2]
             IN  /\ layer.tags.keys[feature.tags[2 * k - 1] + 1] = given[k][1]
                 /\ layer.tags.values[feature.tags[2 * k] + 1]
                        = <<StoredAs(value[1]), value[2]>>
  <2> DEFINE given == Given(added[i].attributes)
  <2>1. Reads(layer.tags, layer.features[i].tags, given) /\ k \in 1..Len(given)
    BY <1>3, SeqParts
  <2> HIDE DEF given
  <2>2. /\ layer.tags.keys[layer.features[i].tags[2 * k - 1] + 1] = given[k][1]
        /\ layer.tags.values[layer.features[i].tags[2 * k] + 1]
               = <<StoredAs(given[k][2][1]), given[k][2][2]>>
    BY ONLY <2>1 DEF Reads
  <2> QED
    BY ONLY <2>2 DEF given
<1>5. ASSUME NEW i \in DOMAIN added
      PROVE  Len(layer.features[i].tags) = 2 * Len(Given(added[i].attributes))
  BY <1>3 DEF Reads
<1> QED
  BY ONLY <1>2, <1>3, <1>4, <1>5 DEF Nameless, layer, added

\* TileBuilder.cs, LayerBuilder's remarks, and TagEncoder.cs:17-27: on every tile, after
\* any calls, also those that threw half way, the tags of every feature read as the
\* attributes it was added with and its id is the one given or the next of its layer.
THEOREM TagsKept == Spec => []TagsDecode
<1>1. Spec => []TagInv
  BY TagInvInit, TagInvNext, PTL DEF Spec
<1> QED
  BY <1>1, TagInvDecodes, PTL

-----------------------------------------------------------------------------
(* Folds, of any step on any set of values.                                *)

\* A set of the first numbers has its greatest element.
LEMMA Greatests ==
  ASSUME NEW n \in Nat, NEW t \in SUBSET (1..n), t # {}
  PROVE  Max(t) \in t /\ t \ {Max(t)} \in SUBSET (1..n) /\ \A x \in t : x <= Max(t)
<1> DEFINE T == {n - x : x \in t}
<1>1. T \in SUBSET Nat /\ T # {}
  <2>1. \A x \in t : n - x \in Nat
    OBVIOUS
  <2> QED
    BY <2>1
<1>2. PICK m \in T : \A k \in T : m <= k
  BY <1>1, LeastElement
<1>3. PICK x \in t : m = n - x
  BY <1>2
<1>4. \A y \in t : n - y \in T
  OBVIOUS
<1>5. x \in Int /\ \A y \in t : y \in Int /\ x >= y
  BY <1>2, <1>3, <1>4
<1>6. \E z \in t : \A y \in t : z >= y
  BY <1>5
<1>7. Max(t) \in t /\ \A y \in t : Max(t) >= y
  BY <1>6 DEF Max
<1> QED
  BY <1>7

\* The tables that the library's folds choose from: the value of a fold over any
\* part of the sequence, whose values keep to a set A.
StepsIn(A, n) == [A \X (1..n) -> A]

Table(g, A, base, step, n) ==
    /\ g \in [SUBSET (1..n) -> A]
    /\ \A t \in SUBSET (1..n) :
          g[t] = IF t = {} THEN base ELSE step[<<g[t \ {Max(t)}], Max(t)>>]

\* There is one.
LEMMA TableExists ==
  ASSUME NEW n \in Nat, NEW A, NEW base \in A, NEW step \in StepsIn(A, n)
  PROVE  \E g : Table(g, A, base, step, n)
<1> DEFINE Folds(k, g) ==
              /\ g \in [SUBSET (1..k) -> A]
              /\ \A t \in SUBSET (1..k) :
                    g[t] = IF t = {} THEN base ELSE step[<<g[t \ {Max(t)}], Max(t)>>]
           P == {k \in Nat : k <= n => \E g : Folds(k, g)}
<1>1. 0 \in P
  <2> DEFINE g == [t \in SUBSET (1..0) |-> base]
  <2>1. g \in [SUBSET (1..0) -> A]
    OBVIOUS
  <2>2. \A t \in SUBSET (1..0) : t = {}
    OBVIOUS
  <2>3. \A t \in SUBSET (1..0) : g[t] = base
    OBVIOUS
  <2> HIDE DEF g
  <2>4. Folds(0, g)
    BY ONLY <2>1, <2>2, <2>3
  <2> HIDE DEF Folds
  <2> QED
    BY <2>4
<1>2. ASSUME NEW k \in P, k + 1 <= n PROVE \E g : Folds(k + 1, g)
  <2>1. k \in Nat /\ k <= n
    BY <1>2
  <2>2. PICK g : Folds(k, g)
    <3> HIDE DEF Folds
    <3> QED
      BY <2>1
  <2>3. /\ g \in [SUBSET (1..k) -> A]
        /\ \A t \in SUBSET (1..k) :
              g[t] = IF t = {} THEN base ELSE step[<<g[t \ {Max(t)}], Max(t)>>]
    BY <2>2
  <2> DEFINE h == [t \in SUBSET (1..(k + 1)) |->
                     IF k + 1 \in t THEN step[<<g[t \ {k + 1}], k + 1>>] ELSE g[t]]
  <2> HIDE DEF Folds, P
  <2>4. \A t \in SUBSET (1..k) : /\ k + 1 \notin t /\ t \in SUBSET (1..(k + 1))
                                 /\ h[t] = g[t]
    BY <2>1
  <2>5. h \in [SUBSET (1..(k + 1)) -> A]
    <3>1. ASSUME NEW t \in SUBSET (1..(k + 1))
          PROVE  (IF k + 1 \in t THEN step[<<g[t \ {k + 1}], k + 1>>] ELSE g[t]) \in A
      <4>1. CASE k + 1 \in t
        <5>1. t \ {k + 1} \in SUBSET (1..k) /\ k + 1 \in 1..n
          BY <1>2, <2>1, <4>1, Tops
        <5>2. g[t \ {k + 1}] \in A
          BY <2>3, <5>1
        <5> QED
          BY <4>1, <5>1, <5>2 DEF StepsIn
      <4>2. CASE k + 1 \notin t
        <5>1. t \in SUBSET (1..k)
          BY <2>1, <4>2, Tops
        <5> QED
          BY <2>3, <4>2, <5>1
      <4> QED
        BY <4>1, <4>2
    <3> QED
      BY ONLY <3>1
  <2>6. ASSUME NEW t \in SUBSET (1..(k + 1))
        PROVE  h[t] = IF t = {} THEN base ELSE step[<<h[t \ {Max(t)}], Max(t)>>]
    <3>1. CASE k + 1 \in t
      <4>1. Max(t) = k + 1 /\ t \ {k + 1} \in SUBSET (1..k) /\ t # {}
        BY <2>1, <3>1, Tops
      <4>2. h[t] = step[<<g[t \ {k + 1}], k + 1>>] /\ h[t \ {k + 1}] = g[t \ {k + 1}]
        BY <2>4, <3>1, <4>1
      <4> QED
        BY ONLY <4>1, <4>2
    <3>2. CASE k + 1 \notin t
      <4>1. t \in SUBSET (1..k) /\ t \ {Max(t)} \in SUBSET (1..k)
        BY <2>1, <3>2, Tops
      <4>2. h[t] = g[t] /\ h[t \ {Max(t)}] = g[t \ {Max(t)}]
        BY <2>4, <4>1
      <4>3. g[t] = IF t = {} THEN base ELSE step[<<g[t \ {Max(t)}], Max(t)>>]
        BY ONLY <2>3, <4>1
      <4> QED
        BY ONLY <4>2, <4>3
    <3> QED
      BY ONLY <3>1, <3>2
  <2> HIDE DEF h
  <2>7. Folds(k + 1, h)
    BY ONLY <2>5, <2>6 DEF Folds
  <2> QED
    BY ONLY <2>7
<1> HIDE DEF Folds
<1>3. n \in P
  <2>1. P \in SUBSET Nat /\ \A k \in P : k + 1 \in P
    BY <1>2
  <2> HIDE DEF P
  <2> QED
    BY <1>1, <2>1, Inductive
<1>4. PICK g : Folds(n, g)
  BY <1>3
<1> QED
  BY ONLY <1>4 DEF Folds, Table

\* And its values on the prefixes go step by step.
LEMMA FirstOnes ==
  ASSUME NEW n \in Nat, NEW i \in 1..n
  PROVE  /\ 1..i \in SUBSET (1..n) /\ 1..i # {} /\ i - 1 \in 0..n
         /\ Max(1..i) = i /\ (1..i) \ {i} = 1..(i - 1)
<1>1. i - 1 \in Nat /\ i - 1 + 1 = i /\ i - 1 \in 0..n
  OBVIOUS
<1>2. Max(1..i) = i /\ (1..i) \ {i} = 1..(i - 1)
  BY <1>1, Tops
<1>3. i \in 1..i /\ 1..i \in SUBSET (1..n)
  OBVIOUS
<1> QED
  BY <1>1, <1>2, <1>3

-----------------------------------------------------------------------------
(* What coordinates and paths are                                          *)

Fractions == Int \X (Nat \ {0})
Spots == [{1, 2} -> Fractions]
Positions == Int \X Int

\* What ClipToRect keeps: runs of two points or more, and the one it is in.
Lines == {path \in Seq(Positions) : Len(path) >= 2}
Runs == [segments : Seq(Lines), current : Seq(Positions)]

\* An iteration of ClipToRect.
LEMMA ExtendRunType ==
  ASSUME NEW acc \in Runs, NEW part \in {<< >>} \cup (Positions \X Positions)
  PROVE  /\ ExtendRun(acc, part) \in Runs /\ EndRun(acc) \in Runs
         /\ EndRun(acc).segments \in Seq(Lines)
<1>1. acc.segments \in Seq(Lines) /\ acc.current \in Seq(Positions)
  BY DEF Runs
<1>2. \A a \in Runs : EndRun(a) \in Runs
  <2> SUFFICES ASSUME NEW a \in Runs PROVE EndRun(a) \in Runs
    OBVIOUS
  <2>1. a.segments \in Seq(Lines) /\ a.current \in Seq(Positions)
    BY DEF Runs
  <2>2. Len(a.current) >= 2 => a.current \in Lines
    BY <2>1 DEF Lines
  <2>3. (IF Len(a.current) >= 2 THEN Append(a.segments, a.current) ELSE a.segments) \in Seq(Lines)
    BY <2>1, <2>2
  <2>4. << >> \in Seq(Positions)
    OBVIOUS
  <2> QED
    BY ONLY <2>3, <2>4 DEF EndRun, Runs
<1>3. EndRun(acc) \in Runs /\ EndRun(acc).segments \in Seq(Lines)
  BY <1>2 DEF Runs
<1>4. CASE part = << >>
  BY <1>3, <1>4 DEF ExtendRun
<1>5. CASE part # << >>
  <2>1. part[1] \in Positions /\ part[2] \in Positions
    BY <1>5
  <2> DEFINE run == IF acc.current # << >> /\ Last(acc.current) = part[1] THEN acc
                    ELSE [EndRun(acc) EXCEPT !.current = <<part[1]>>]
  <2>2. run \in Runs
    <3>1. <<part[1]>> \in Seq(Positions)
      BY <2>1
    <3>2. [EndRun(acc) EXCEPT !.current = <<part[1]>>] \in Runs
      BY ONLY <1>3, <3>1 DEF Runs
    <3> QED
      BY <3>2
  <2>3. ExtendRun(acc, part) = IF part[2] = Last(run.current) THEN run
                              ELSE [run EXCEPT !.current = Append(@, part[2])]
    BY <1>5 DEF ExtendRun
  <2> HIDE DEF run
  <2>4. run.current \in Seq(Positions)
    BY <2>2 DEF Runs
  <2>5. Append(run.current, part[2]) \in Seq(Positions)
    BY <2>1, <2>4
  <2>6. [run EXCEPT !.current = Append(@, part[2])] \in Runs
    BY ONLY <2>2, <2>5 DEF Runs
  <2> QED
    BY <1>3, <2>2, <2>3, <2>6
<1> QED
  BY <1>4, <1>5

-----------------------------------------------------------------------------
(* Fractions                                                               *)

\* Euclid's algorithm is defined.
LEMMA GcdIs ==
  /\ \A m \in Nat : Gcd[0][m] = m
  /\ \A k \in Nat \ {0}, m \in Nat : Gcd[k][m] = Gcd[m % k][k]
<1> DEFINE Upto(n, g) ==
              /\ \A m \in Nat : g[0][m] = m
              /\ \A k \in 1..n : \A m \in Nat : g[k][m] = g[m % k][k]
           Full(n, g) == /\ g \in [0..n -> [Nat -> Nat]]
                         /\ Upto(n, g)
           P == {n \in Nat : \E g : Full(n, g)}
<1>1. 0 \in P
  <2> DEFINE g == [k \in 0..0 |-> [m \in Nat |-> m]]
  <2>1. g \in [0..0 -> [Nat -> Nat]] /\ \A m \in Nat : g[0][m] = m
    OBVIOUS
  <2> HIDE DEF g
  <2>2. Full(0, g)
    BY <2>1
  <2> HIDE DEF Full
  <2> QED
    BY <2>2
<1>2. ASSUME NEW n \in P PROVE n + 1 \in P
  <2>1. n \in Nat /\ n + 1 \in Nat
    OBVIOUS
  <2>2. PICK g : Full(n, g)
    <3> HIDE DEF Full
    <3> QED
      OBVIOUS
  <2>3. /\ g \in [0..n -> [Nat -> Nat]] /\ \A m \in Nat : g[0][m] = m
        /\ \A k \in 1..n : \A m \in Nat : g[k][m] = g[m % k][k]
    BY <2>2
  <2> DEFINE top == [m \in Nat |-> g[m % (n + 1)][n + 1]]
             h == [k \in 0..(n + 1) |-> IF k = n + 1 THEN top ELSE g[k]]
  <2> HIDE DEF P, Full
  <2>4. \A k \in 1..(n + 1), m \in Nat : m % k \in 0..n /\ m % k < k
    BY <2>1
  <2>5. top \in [Nat -> Nat]
    <3>1. ASSUME NEW m \in Nat PROVE g[m % (n + 1)][n + 1] \in Nat
      <4>1. n + 1 \in 1..(n + 1) /\ m % (n + 1) \in 0..n
        BY <2>1, <2>4
      <4>2. g[m % (n + 1)] \in [Nat -> Nat]
        BY <2>3, <4>1
      <4> QED
        BY <2>1, <4>2
    <3> QED
      BY ONLY <3>1
  <2>6. /\ h \in [0..(n + 1) -> [Nat -> Nat]]
        /\ \A k \in 0..n : h[k] = g[k]
        /\ \A m \in Nat : h[n + 1][m] = g[m % (n + 1)][n + 1]
    <3>1. \A m \in Nat : top[m] = g[m % (n + 1)][n + 1]
      OBVIOUS
    <3>2. n + 1 \in 0..(n + 1) /\ \A k \in 0..n : k \in 0..(n + 1) /\ k # n + 1
      BY <2>1
    <3>3. \A k \in 0..(n + 1) : k # n + 1 => k \in 0..n
      BY <2>1
    <3> HIDE DEF top
    <3>4. h[n + 1] = top /\ \A k \in 0..n : h[k] = g[k]
      BY ONLY <3>2
    <3>5. \A k \in 0..(n + 1) : (IF k = n + 1 THEN top ELSE g[k]) \in [Nat -> Nat]
      BY <2>3, <2>5, <3>3
    <3>6. h \in [0..(n + 1) -> [Nat -> Nat]]
      BY ONLY <3>5
    <3> HIDE DEF h
    <3> QED
      BY ONLY <3>1, <3>4, <3>6
  <2> HIDE DEF top, h
  <2>7. ASSUME NEW k \in 1..(n + 1), NEW m \in Nat PROVE h[k][m] = h[m % k][k]
    <3>1. m % k \in 0..n /\ h[m % k] = g[m % k]
      BY <2>4, <2>6
    <3>2. CASE k = n + 1
      BY <3>1, <3>2, <2>6
    <3>3. CASE k \in 1..n
      BY <3>1, <3>3, <2>3, <2>6
    <3> QED
      BY <3>2, <3>3, <2>1
  <2>8. \A m \in Nat : h[0][m] = m
    <3>1. 0 \in 0..n
      BY <2>1
    <3>2. h[0] = g[0]
      BY ONLY <2>6, <3>1
    <3> QED
      BY ONLY <3>2, <2>3
  <2>9. Full(n + 1, h)
    BY ONLY <2>6, <2>7, <2>8 DEF Full
  <2> QED
    BY ONLY <2>1, <2>9 DEF P
<1> HIDE DEF P
<1>3. \A n \in Nat : n \in P
  <2>1. P \in SUBSET Nat
    BY DEF P
  <2> QED
    BY ONLY <1>1, <1>2, <2>1, Inductive
<1> DEFINE G(n) == CHOOSE g : Full(n, g)
<1>4. ASSUME NEW n \in Nat PROVE Full(n, G(n))
  <2> HIDE DEF Full
  <2> QED
    BY <1>3 DEF P
<1> HIDE DEF G
<1>5. ASSUME NEW n \in Nat
      PROVE  /\ G(n) \in [0..n -> [Nat -> Nat]] /\ \A m \in Nat : G(n)[0][m] = m
             /\ \A k \in 1..n : \A m \in Nat : G(n)[k][m] = G(n)[m % k][k]
  BY <1>4
<1> HIDE DEF Full
\* Two of them agree.
<1>6. ASSUME NEW a \in Nat, NEW b \in Nat
      PROVE  \A k \in Nat : k <= a /\ k <= b => \A m \in Nat : G(a)[k][m] = G(b)[k][m]
  <2> DEFINE T == {k \in Nat : k <= a /\ k <= b /\ \E m \in Nat : G(a)[k][m] # G(b)[k][m]}
  <2> SUFFICES ASSUME T # {} PROVE FALSE
    OBVIOUS
  <2>1. T \in SUBSET Nat
    OBVIOUS
  <2>2. PICK k \in T : \A j \in T : k <= j
    <3> HIDE DEF T
    <3> QED
      BY <2>1, LeastElement
  <2>3. k \in Nat /\ k <= a /\ k <= b
    OBVIOUS
  <2>4. PICK m \in Nat : G(a)[k][m] # G(b)[k][m]
    OBVIOUS
  <2>5. k # 0
    <3>1. G(a)[0][m] = m /\ G(b)[0][m] = m
      BY <1>5
    <3> QED
      BY ONLY <2>4, <3>1
  <2>6. k \in 1..a /\ k \in 1..b /\ k \in Nat \ {0}
    BY <2>3, <2>5
  <2>7. G(a)[k][m] = G(a)[m % k][k] /\ G(b)[k][m] = G(b)[m % k][k]
    BY ONLY <1>5, <2>6, a \in Nat, b \in Nat, m \in Nat
  <2>8. m % k \in Nat /\ m % k < k
    BY ONLY <2>6, m \in Nat
  <2>9. m % k \notin T
    <3> HIDE DEF T
    <3> QED
      BY <2>1, <2>2, <2>8
  <2>10. G(a)[m % k][k] = G(b)[m % k][k]
    BY <2>3, <2>8, <2>9
  <2> QED
    BY <2>4, <2>7, <2>10
<1> DEFINE F == [k \in Nat |-> G(k)[k]]
<1>7. F = [k \in Nat |-> [m \in Nat |-> IF k = 0 THEN m ELSE F[m % k][k]]]
  <2>1. ASSUME NEW k \in Nat
        PROVE  F[k] = [m \in Nat |-> IF k = 0 THEN m ELSE F[m % k][k]]
    <3>1. F[k] = G(k)[k] /\ G(k)[k] \in [Nat -> Nat]
      <4>1. k \in 0..k
        OBVIOUS
      <4> QED
        BY <1>5, <4>1
    <3>2. ASSUME NEW m \in Nat PROVE F[k][m] = IF k = 0 THEN m ELSE F[m % k][k]
      <4>1. CASE k = 0
        BY <3>1, <4>1, <1>5
      <4>2. CASE k # 0
        <5>1. k \in 1..k /\ m % k \in Nat /\ m % k <= k
          BY <4>2
        <5>2. G(k)[k][m] = G(k)[m % k][k]
          BY <1>5, <5>1
        <5>3. G(k)[m % k][k] = G(m % k)[m % k][k]
          BY <1>6, <5>1
        <5>4. F[m % k] = G(m % k)[m % k]
          BY <5>1
        <5> QED
          BY ONLY <3>1, <4>2, <5>2, <5>3, <5>4
      <4> QED
        BY <4>1, <4>2
    <3> HIDE DEF F
    <3> QED
      BY ONLY <3>1, <3>2
  <2>2. DOMAIN F = Nat /\ F = [k \in Nat |-> F[k]]
    OBVIOUS
  <2> HIDE DEF F
  <2> QED
    BY ONLY <2>1, <2>2
<1> HIDE DEF F
<1>8. Gcd = [k \in Nat |-> [m \in Nat |-> IF k = 0 THEN m ELSE Gcd[m % k][k]]]
  BY <1>7, Zenon DEF Gcd
<1>9. ASSUME NEW m \in Nat PROVE Gcd[0][m] = m
  <2>1. Gcd[0] = [j \in Nat |-> IF 0 = 0 THEN j ELSE Gcd[j % 0][0]]
    BY ONLY <1>8
  <2> QED
    BY ONLY <2>1
<1>10. ASSUME NEW k \in Nat \ {0}, NEW m \in Nat PROVE Gcd[k][m] = Gcd[m % k][k]
  <2>1. Gcd[k] = [j \in Nat |-> IF k = 0 THEN j ELSE Gcd[j % k][k]]
    BY ONLY <1>8
  <2> QED
    BY ONLY <2>1
<1> QED
  BY ONLY <1>9, <1>10

\* It divides neither away.
LEMMA GcdBounds ==
  \A k \in Nat \ {0}, m \in Nat :
     /\ Gcd[k][m] \in 1..k
     /\ m # 0 => Gcd[k][m] <= m
<1> DEFINE Good(k) == \A m \in Nat : Gcd[k][m] \in 1..k /\ (m # 0 => Gcd[k][m] <= m)
           T == {k \in Nat \ {0} : ~Good(k)}
<1> SUFFICES ASSUME T # {} PROVE FALSE
  OBVIOUS
<1>1. T \in SUBSET Nat
  OBVIOUS
<1>2. PICK k \in T : \A j \in T : k <= j
  <2> HIDE DEF T
  <2> QED
    BY <1>1, LeastElement
<1>3. k \in Nat \ {0} /\ ~Good(k)
  BY <1>2
<1>4. ASSUME NEW m \in Nat PROVE Gcd[k][m] \in 1..k /\ (m # 0 => Gcd[k][m] <= m)
  <2>1. Gcd[k][m] = Gcd[m % k][k]
    BY <1>3, GcdIs
  <2>2. m % k \in Nat /\ m % k < k
    BY <1>3
  <2>3. CASE m % k = 0
    <3>1. Gcd[k][m] = k
      BY <2>1, <2>3, <1>3, GcdIs
    <3>2. m # 0 => k <= m
      <4>1. m < k => m % k = m
        BY <1>3
      <4> QED
        BY <4>1, <2>3, <1>3
    <3> QED
      BY <3>1, <3>2, <1>3
  <2>4. CASE m % k # 0
    <3>1. m % k \notin T /\ m % k \in Nat \ {0}
      <4> HIDE DEF T
      <4> QED
        BY <1>1, <1>2, <2>2, <2>4
    <3>2. Gcd[m % k][k] \in 1..(m % k)
      BY <3>1, <1>3
    <3>3. m % k <= m
      <4>1. m < k => m % k = m
        BY <1>3
      <4> QED
        BY <4>1, <2>2, <1>3
    <3> QED
      BY ONLY <2>1, <2>2, <3>2, <3>3, <1>3
  <2> QED
    BY <2>3, <2>4
<1> QED
  BY <1>3, <1>4

\* Products of positive numbers, and of others by them.
LEMMA Products ==
  /\ \A a, b \in Int : a * b \in Int
  /\ \A a, b \in Nat \ {0} : a * b \in Nat \ {0}
  /\ \A a, b \in Int, c \in Nat \ {0} : a < b <=> a * c < b * c
OBVIOUS

\* A fraction has a positive denominator, and is zero only if its numerator was.
LEMMA FractionIs ==
  ASSUME NEW n \in Int, NEW d \in Int, d # 0
  PROVE  Fraction(n, d) \in Fractions /\ (n # 0 => Fraction(n, d)[1] # 0)
<1> DEFINE g == Gcd[Abs(d)][Abs(n)]
           sign == IF d < 0 THEN -1 ELSE 1
<1>1. /\ Abs(d) \in Nat \ {0} /\ Abs(n) \in Nat /\ (n # 0 => Abs(n) # 0)
      /\ sign * d = Abs(d) /\ (sign * n = Abs(n) \/ sign * n = -Abs(n))
  BY DEF Abs
<1>2. g \in 1..Abs(d) /\ (Abs(n) # 0 => g <= Abs(n))
  BY <1>1, GcdBounds
<1>3. Fraction(n, d) = <<(sign * n) \div g, (sign * d) \div g>>
  BY DEF Fraction
<1> DEFINE a == sign * n
           b == Abs(d)
<1>4. a \in Int /\ b \in Nat \ {0} /\ (n # 0 => a # 0 /\ (a > 0 => g <= a) /\ (a < 0 => g <= -a))
  BY <1>1, <1>2
<1>5. Fraction(n, d) = <<a \div g, b \div g>> /\ g \in Nat \ {0} /\ g <= b
  BY <1>1, <1>2, <1>3
<1> HIDE DEF g, a, b
<1>6. b \div g \in Nat \ {0}
  BY <1>4, <1>5
<1>7. a \div g \in Int /\ (n # 0 => a \div g # 0)
  BY <1>4, <1>5
<1> QED
  BY <1>5, <1>6, <1>7 DEF Fractions

\* The arithmetic of the clippers.
LEMMA FractionParts ==
  ASSUME NEW p \in Fractions
  PROVE  p[1] \in Int /\ p[2] \in Nat \ {0} /\ p = <<p[1], p[2]>>
BY DEF Fractions

\* The arithmetic of fractions; a difference of two that differ is not zero.
LEMMA Arithmetic ==
  ASSUME NEW p \in Fractions, NEW q \in Fractions
  PROVE  /\ Plus(p, q) \in Fractions /\ Minus(p, q) \in Fractions /\ Times(p, q) \in Fractions
         /\ q[1] # 0 => Over(p, q) \in Fractions
         /\ p[1] * q[2] # q[1] * p[2] => Minus(p, q)[1] # 0
<1>1. p[1] \in Int /\ q[1] \in Int /\ p[2] \in Nat \ {0} /\ q[2] \in Nat \ {0}
  BY FractionParts
<1>2. /\ p[1] * q[2] \in Int /\ q[1] * p[2] \in Int /\ p[1] * q[1] \in Int
      /\ p[2] * q[2] \in Nat \ {0}
  BY <1>1, Products
<1>3. Plus(p, q) \in Fractions
  <2>1. p[1] * q[2] + q[1] * p[2] \in Int
    BY <1>2
  <2> QED
    BY <1>2, <2>1, FractionIs DEF Plus
<1>4. Minus(p, q) \in Fractions /\ (p[1] * q[2] # q[1] * p[2] => Minus(p, q)[1] # 0)
  <2> DEFINE n == p[1] * q[2] - q[1] * p[2]
             d == p[2] * q[2]
  <2>1. n \in Int /\ (p[1] * q[2] # q[1] * p[2] => n # 0) /\ d \in Int /\ d # 0
    BY <1>2
  <2>2. Minus(p, q) = Fraction(n, d)
    BY DEF Minus
  <2> HIDE DEF n, d
  <2> QED
    BY <2>1, <2>2, FractionIs
<1>5. Times(p, q) \in Fractions
  BY <1>2, FractionIs DEF Times
<1>6. ASSUME q[1] # 0 PROVE Over(p, q) \in Fractions
  <2> DEFINE n == p[1] * q[2]
             d == p[2] * q[1]
  <2>1. d \in Int /\ d # 0 /\ n \in Int
    <3>1. \A a \in Nat \ {0}, b \in Int : b # 0 => a * b # 0
      OBVIOUS
    <3> QED
      BY <1>1, <1>2, <1>6, <3>1, Products
  <2>2. Over(p, q) = Fraction(n, d)
    BY DEF Over
  <2> HIDE DEF n, d
  <2> QED
    BY <2>1, <2>2, FractionIs
<1> QED
  BY <1>3, <1>4, <1>5, <1>6

\* Two fractions on two sides of a third are not equal.
LEMMA Apart ==
  ASSUME NEW p \in Fractions, NEW q \in Fractions, NEW b \in Fractions,
         \/ Below(p, b) /\ ~Below(q, b)
         \/ Below(b, p) /\ ~Below(b, q)
  PROVE  p[1] * q[2] # q[1] * p[2]
<1> DEFINE x == p[1] * q[2] * b[2]
           y == q[1] * p[2] * b[2]
           z == b[1] * (p[2] * q[2])
<1>1. /\ p[1] \in Int /\ q[1] \in Int /\ b[1] \in Int
      /\ p[2] \in Nat \ {0} /\ q[2] \in Nat \ {0} /\ b[2] \in Nat \ {0}
  BY FractionParts
<1>2. /\ p[1] * b[2] \in Int /\ b[1] * p[2] \in Int
      /\ q[1] * b[2] \in Int /\ b[1] * q[2] \in Int
  BY <1>1, Products
<1>3. /\ (p[1] * b[2]) * q[2] = x /\ (b[1] * p[2]) * q[2] = z
      /\ (q[1] * b[2]) * p[2] = y /\ (b[1] * q[2]) * p[2] = z
      /\ x \in Int /\ y \in Int /\ z \in Int
  BY <1>1
<1>4. /\ p[1] * b[2] < b[1] * p[2] <=> x < z
      /\ b[1] * p[2] < p[1] * b[2] <=> z < x
      /\ q[1] * b[2] < b[1] * q[2] <=> y < z
      /\ b[1] * q[2] < q[1] * b[2] <=> z < y
  <2>1. \A a, c \in Int, k \in Nat \ {0} : a < c <=> a * k < c * k
    BY Products
  <2> HIDE DEF x, y, z
  <2>2. /\ p[1] * b[2] < b[1] * p[2] <=> (p[1] * b[2]) * q[2] < (b[1] * p[2]) * q[2]
        /\ b[1] * p[2] < p[1] * b[2] <=> (b[1] * p[2]) * q[2] < (p[1] * b[2]) * q[2]
        /\ q[1] * b[2] < b[1] * q[2] <=> (q[1] * b[2]) * p[2] < (b[1] * q[2]) * p[2]
        /\ b[1] * q[2] < q[1] * b[2] <=> (b[1] * q[2]) * p[2] < (q[1] * b[2]) * p[2]
    BY <1>1, <1>2, <2>1
  <2> QED
    BY ONLY <2>2, <1>3
<1>5. x # y
  <2> HIDE DEF x, y, z
  <2> QED
    BY <1>3, <1>4 DEF Below
<1> QED
  BY <1>5

\* Math.Round gives an integer.
LEMMA RoundIs ==
  ASSUME NEW p \in Fractions
  PROVE  Round(p) \in Int
<1>1. p[1] \in Int /\ p[2] \in Nat \ {0}
  BY FractionParts
<1> DEFINE r == (2 * p[1] + p[2]) \div (2 * p[2])
<1>2. r \in Int
  BY <1>1
<1> QED
  BY <1>2 DEF Round

\* A spot, and what rounds it to a position.
LEMMA SpotParts ==
  /\ \A p \in Spots : p[1] \in Fractions /\ p[2] \in Fractions /\ Rounded(p) \in Positions
  /\ \A c \in Positions : Exact(c) \in Spots
<1>1. \A p \in Spots : p[1] \in Fractions /\ p[2] \in Fractions
  BY DEF Spots
<1>2. \A p \in Spots : Rounded(p) \in Positions
  BY <1>1, RoundIs DEF Rounded, Positions
<1>3. ASSUME NEW c \in Positions PROVE Exact(c) \in Spots
  <2>1. <<c[1], 1>> \in Fractions /\ <<c[2], 1>> \in Fractions
    BY DEF Positions, Fractions
  <2> QED
    BY ONLY <2>1 DEF Exact, Spots
<1> QED
  BY <1>1, <1>2, <1>3

\* The clip buffer.
LEMMA BufferIs == Least \in Fractions /\ Greatest \in Fractions
<1>1. /\ Extent \in Int /\ 20 \in Int /\ 20 # 0
      /\ <<0, 1>> \in Fractions /\ <<Extent, 1>> \in Fractions
  BY ExtentAssumption DEF Fractions
<1>2. ClipBuffer \in Fractions
  BY <1>1, FractionIs DEF ClipBuffer
<1> QED
  BY <1>1, <1>2, Arithmetic DEF Least, Greatest

\* Where the line meets a side that lies between its ends.
LEMMA IntersectIs ==
  ASSUME NEW p \in Spots, NEW q \in Spots, NEW side \in {"left", "right", "bottom", "top"},
         (side \in Outside(p)) # (side \in Outside(q))
  PROVE  Intersect(p, q, side) \in Spots
<1> DEFINE along == IF side \in {"left", "right"} THEN 1 ELSE 2
           bound == IF side \in {"left", "bottom"} THEN Least ELSE Greatest
           t == Over(Minus(bound, p[along]), Minus(q[along], p[along]))
<1>1. along \in {1, 2} /\ bound \in Fractions
  BY BufferIs
<1>2. p[along] \in Fractions /\ q[along] \in Fractions
  BY <1>1, SpotParts
<1>3. q[along][1] * p[along][2] # p[along][1] * q[along][2]
  <2>1. \A s \in Spots :
           /\ "left" \in Outside(s) <=> Below(s[1], Least)
           /\ "right" \in Outside(s) <=> Below(Greatest, s[1])
           /\ "bottom" \in Outside(s) <=> Below(s[2], Least)
           /\ "top" \in Outside(s) <=> Below(Greatest, s[2])
    BY DEF Outside
  <2>2. \/ Below(p[along], bound) # Below(q[along], bound)
        \/ Below(bound, p[along]) # Below(bound, q[along])
    BY <2>1
  <2>3. Below(p[along], bound) \in BOOLEAN /\ Below(q[along], bound) \in BOOLEAN
        /\ Below(bound, p[along]) \in BOOLEAN /\ Below(bound, q[along]) \in BOOLEAN
    BY DEF Below
  <2> HIDE DEF along, bound
  <2> QED
    BY <1>1, <1>2, <2>2, <2>3, Apart
<1>4. t \in Fractions
  <2> HIDE DEF along, bound
  <2>1. Minus(bound, p[along]) \in Fractions /\ Minus(q[along], p[along]) \in Fractions
        /\ Minus(q[along], p[along])[1] # 0
    BY <1>1, <1>2, <1>3, Arithmetic
  <2> QED
    BY <2>1, Arithmetic
<1>5. Intersect(p, q, side) = [i \in {1, 2} |-> IF i = along THEN bound
                                 ELSE Plus(p[i], Times(Minus(q[i], p[i]), t))]
  BY DEF Intersect
<1> HIDE DEF along, bound, t
<1>6. ASSUME NEW i \in {1, 2} PROVE Plus(p[i], Times(Minus(q[i], p[i]), t)) \in Fractions
  <2>1. p[i] \in Fractions /\ q[i] \in Fractions
    BY SpotParts
  <2> QED
    BY <1>4, <2>1, Arithmetic
<1> QED
  BY <1>1, <1>5, <1>6 DEF Spots

-----------------------------------------------------------------------------
(* What the clippers return                                                *)

Sides4 == {"left", "right", "bottom", "top"}

Segments == Spots \X Spots

\* ClipSegmentCohenSutherland's iterations.
LEMMA ClipEndIs ==
  ASSUME NEW segment \in Segments
  PROVE  ClipEnd(segment) \in Segments
<1> DEFINE p == segment[1]
           q == segment[2]
<1>1. p \in Spots /\ q \in Spots /\ segment = <<p, q>>
  BY DEF Segments
<1>2. Outside(p) \subseteq Sides4 /\ Outside(q) \subseteq Sides4
  BY DEF Outside, Sides4
<1>3. \A sides \in SUBSET Sides4 : sides # {} => FirstOf(sides) \in sides
  BY DEF FirstOf, Sides4
<1> HIDE DEF p, q
<1>4. ClipEnd(segment) =
        IF Outside(p) \cup Outside(q) = {} \/ Outside(p) \cap Outside(q) # {} THEN segment
        ELSE IF Outside(p) # {} THEN <<Intersect(p, q, FirstOf(Outside(p))), q>>
        ELSE <<p, Intersect(p, q, FirstOf(Outside(q)))>>
  BY DEF ClipEnd, p, q
<1>5. CASE Outside(p) \cup Outside(q) = {} \/ Outside(p) \cap Outside(q) # {}
  BY <1>4, <1>5
<1>6. CASE ~(Outside(p) \cup Outside(q) = {} \/ Outside(p) \cap Outside(q) # {})
  <2>1. CASE Outside(p) # {}
    <3> DEFINE side == FirstOf(Outside(p))
    <3>1. side \in Outside(p) /\ side \notin Outside(q) /\ side \in Sides4
      BY <1>2, <1>3, <1>6, <2>1
    <3> HIDE DEF side
    <3>2. Intersect(p, q, side) \in Spots
      BY <1>1, <3>1, IntersectIs DEF Sides4
    <3>3. ClipEnd(segment) = <<Intersect(p, q, side), q>>
      BY <1>4, <1>6, <2>1 DEF side
    <3> QED
      BY ONLY <1>1, <3>2, <3>3 DEF Segments
  <2>2. CASE Outside(p) = {}
    <3> DEFINE side == FirstOf(Outside(q))
    <3>1. side \in Outside(q) /\ side \notin Outside(p) /\ side \in Sides4
      BY <1>2, <1>3, <1>6, <2>2
    <3> HIDE DEF side
    <3>2. Intersect(p, q, side) \in Spots
      BY <1>1, <3>1, IntersectIs DEF Sides4
    <3>3. ClipEnd(segment) = <<p, Intersect(p, q, side)>>
      BY <1>4, <1>6, <2>2 DEF side
    <3> QED
      BY ONLY <1>1, <3>2, <3>3 DEF Segments
  <2> QED
    BY <2>1, <2>2
<1> QED
  BY <1>5, <1>6

Parts == {<< >>} \cup (Positions \X Positions)

\* A segment is clipped to one with integer ends, or to nothing.
LEMMA ClipSegmentIs ==
  ASSUME NEW p \in Spots, NEW q \in Spots
  PROVE  ClipSegment(p, q) \in Parts
<1> DEFINE clipped == ClipEnd(ClipEnd(ClipEnd(ClipEnd(<<p, q>>))))
<1>1. <<p, q>> \in Segments
  BY DEF Segments
<1>2. clipped \in Segments
  BY <1>1, ClipEndIs
<1>3. ClipSegment(p, q) = IF Outside(clipped[1]) \cup Outside(clipped[2]) = {}
                          THEN <<Rounded(clipped[1]), Rounded(clipped[2])>> ELSE << >>
  BY DEF ClipSegment
<1> HIDE DEF clipped
<1>4. clipped[1] \in Spots /\ clipped[2] \in Spots
  BY <1>2 DEF Segments
<1>5. Rounded(clipped[1]) \in Positions /\ Rounded(clipped[2]) \in Positions
  BY <1>4, SpotParts
<1> QED
  BY <1>3, <1>5 DEF Parts

Walked(start, parts) == FoldLeft(ExtendRun, start, parts)

\* The iterations of ClipToRect.
LEMMA ExtendRunFold ==
  ASSUME NEW start \in Runs,
         NEW n \in Nat, NEW s, DOMAIN s = 1..n, \A i \in 1..n : s[i] \in Parts
  PROVE  \E f \in [0..n -> Runs] :
            /\ f[0] = start /\ Walked(start, s) = f[n]
            /\ \A i \in 1..n : f[i] = ExtendRun(f[i - 1], s[i])
<1> DEFINE step == [p \in Runs \X (1..n) |-> ExtendRun(p[1], s[p[2]])]
           Folds(h) == h = [t \in SUBSET (1..n) |->
                              IF t = {} THEN start
                              ELSE ExtendRun(h[t \ {Max(t)}], s[Max(t)])]
           F == CHOOSE h : Folds(h)
           f == [i \in 0..n |-> F[1..i]]
<1>1. ASSUME NEW a \in Runs, NEW i \in 1..n PROVE ExtendRun(a, s[i]) \in Runs
  BY ExtendRunType DEF Parts
<1>2. /\ step \in StepsIn(Runs, n)
      /\ \A a \in Runs, i \in 1..n : step[<<a, i>>] = ExtendRun(a, s[i])
  BY <1>1 DEF StepsIn
<1> HIDE DEF step
<1>a. start \in Runs
  OBVIOUS
<1>3. PICK g : Table(g, Runs, start, step, n)
  BY ONLY <1>2, <1>a, TableExists, n \in Nat
<1>4. Folds(g)
  <2>1. /\ g \in [SUBSET (1..n) -> Runs]
        /\ \A t \in SUBSET (1..n) :
              g[t] = IF t = {} THEN start ELSE step[<<g[t \ {Max(t)}], Max(t)>>]
    BY <1>3 DEF Table
  <2>2. ASSUME NEW t \in SUBSET (1..n), t # {}
        PROVE  g[t] = ExtendRun(g[t \ {Max(t)}], s[Max(t)])
    <3>1. Max(t) \in 1..n /\ t \ {Max(t)} \in SUBSET (1..n)
      BY <2>2, Greatests
    <3>2. g[t \ {Max(t)}] \in Runs
      BY ONLY <2>1, <3>1
    <3> QED
      BY ONLY <1>2, <2>1, <2>2, <3>1, <3>2
  <2> QED
    BY ONLY <2>1, <2>2
<1>5. Folds(F)
  <2> HIDE DEF Folds
  <2> QED
    BY ONLY <1>4
<1>6. Walked(start, s) = F[1..n]
  BY DEF Walked, FoldLeft, MapThenFoldSet
<1> HIDE DEF F
<1>7. 1..0 = {} /\ {} \in SUBSET (1..n) /\ 0 \in 0..n /\ n \in 0..n
  OBVIOUS
<1>8. f[0] = start /\ f[n] = F[1..n]
  BY ONLY <1>5, <1>7
<1>9. ASSUME NEW i \in 1..n PROVE f[i] = ExtendRun(f[i - 1], s[i])
  <2>1. /\ 1..i \in SUBSET (1..n) /\ 1..i # {} /\ i - 1 \in 0..n /\ i \in 0..n
        /\ Max(1..i) = i /\ (1..i) \ {i} = 1..(i - 1)
    BY ONLY FirstOnes, n \in Nat, i \in 1..n
  <2> QED
    BY ONLY <1>5, <2>1
<1> HIDE DEF f
<1> DEFINE P == {i \in Nat : i <= n => f[i] \in Runs}
<1>10. 0 \in P
  BY ONLY <1>8, <1>a
<1>11. ASSUME NEW i \in P, i + 1 <= n PROVE f[i + 1] \in Runs
  <2>1. i + 1 \in 1..n /\ i + 1 - 1 = i /\ f[i] \in Runs
    BY <1>11
  <2> QED
    BY ONLY <1>1, <1>9, <2>1
<1>12. \A i \in Nat : i \in P
  <2>1. P \in SUBSET Nat /\ \A i \in P : i + 1 \in P
    BY <1>11
  <2> HIDE DEF P
  <2> QED
    BY <1>10, <2>1, Inductive
<1>13. f \in [0..n -> Runs]
  <2>1. f = [i \in 0..n |-> f[i]]
    BY DEF f
  <2>2. \A i \in 0..n : f[i] \in Runs
    BY <1>12
  <2> QED
    BY ONLY <2>1, <2>2
<1> QED
  BY ONLY <1>6, <1>8, <1>9, <1>13

\* LineClipper.Clip gives lines of two integer points or more.
LEMMA ClipLineIs ==
  ASSUME NEW coords \in Seq(Positions), coords # << >>
  PROVE  ClipLine(coords) \in Seq(Lines)
<1> DEFINE n == Len(coords) - 1
           parts == [i \in 1..n |-> ClipSegment(Exact(coords[i]), Exact(coords[i + 1]))]
           start == [segments |-> << >>, current |-> << >>]
<1>1. n \in Nat /\ \A i \in 1..n : coords[i] \in Positions /\ coords[i + 1] \in Positions
  OBVIOUS
<1>2. start \in Runs
  <2>1. << >> \in Seq(Lines) /\ << >> \in Seq(Positions)
    OBVIOUS
  <2> QED
    BY ONLY <2>1 DEF Runs
<1>3. ClipLine(coords) = EndRun(Walked(start, parts)).segments
  BY DEF ClipLine, Walked
<1> HIDE DEF n, start
<1>4. DOMAIN parts = 1..n /\ \A i \in 1..n : parts[i] \in Parts
  BY <1>1, SpotParts, ClipSegmentIs
<1> HIDE DEF parts
<1>5. Walked(start, parts) \in Runs
  <2>1. PICK f \in [0..n -> Runs] : Walked(start, parts) = f[n]
    BY <1>1, <1>2, <1>4, ExtendRunFold
  <2> QED
    BY <2>1, <1>1
<1> QED
  BY <1>3, <1>5, ExtendRunType

\* Pieces are put together.
LEMMA FlattenIs ==
  ASSUME NEW S, NEW s \in Seq(Seq(S))
  PROVE  FlattenSeq(s) \in Seq(S)
<1> DEFINE n == Len(s)
           A == Seq(S)
           step == [p \in A \X (1..n) |-> p[1] \o s[p[2]]]
<1>1. n \in Nat /\ DOMAIN s = 1..n /\ << >> \in A /\ \A i \in 1..n : s[i] \in A
  OBVIOUS
<1>2. CASE n = 0
  BY <1>2 DEF FlattenSeq
<1>3. CASE n # 0
  <2>1. \A a \in A, b \in A : a \o b \in A
    OBVIOUS
  <2>2. step \in StepsIn(A, n) /\ \A a \in A, i \in 1..n : step[<<a, i>>] = a \o s[i]
    <3> HIDE DEF A
    <3> QED
      BY <1>1, <2>1 DEF StepsIn
  <2> HIDE DEF step, n, A
  <2>3. PICK g : Table(g, A, << >>, step, n)
    BY <1>1, <2>2, TableExists
  <2>4. /\ g \in [SUBSET (1..n) -> A]
        /\ \A t \in SUBSET (1..n) :
              g[t] = IF t = {} THEN << >> ELSE step[<<g[t \ {Max(t)}], Max(t)>>]
    BY <2>3 DEF Table
  <2> DEFINE f == [i \in 1..n |-> g[1..i]]
             Flattens(h) == h = [i \in 1..n |-> IF i = 1 THEN s[i] ELSE h[i - 1] \o s[i]]
             F == CHOOSE h : Flattens(h)
  <2>5. ASSUME NEW i \in 1..n
        PROVE  g[1..i] = IF i = 1 THEN s[i] ELSE g[1..(i - 1)] \o s[i]
    <3>1. /\ 1..i \in SUBSET (1..n) /\ 1..i # {}
          /\ Max(1..i) = i /\ (1..i) \ {i} = 1..(i - 1)
      BY <1>1, FirstOnes
    <3>2. 1..(i - 1) \in SUBSET (1..n)
      BY ONLY <3>1
    <3>3. g[1..i] = g[1..(i - 1)] \o s[i]
      <4>1. g[1..(i - 1)] \in A
        BY ONLY <2>4, <3>2
      <4>2. g[1..i] = step[<<g[1..(i - 1)], i>>]
        BY ONLY <2>4, <3>1
      <4> QED
        BY ONLY <2>2, <4>1, <4>2, i \in 1..n
    <3>4. CASE i = 1
      <4>1. 1..(i - 1) = {}
        BY <3>4
      <4>2. g[1..(i - 1)] = << >>
        BY ONLY <2>4, <3>2, <4>1
      <4>3. << >> \o s[i] = s[i]
        BY <1>1 DEF A
      <4> QED
        BY ONLY <3>3, <3>4, <4>2, <4>3
    <3> QED
      BY ONLY <3>3, <3>4
  <2>6. Flattens(f)
    <3>1. ASSUME NEW i \in 1..n PROVE f[i] = IF i = 1 THEN s[i] ELSE f[i - 1] \o s[i]
      <4>1. i # 1 => i - 1 \in 1..n
        BY <1>1
      <4> QED
        BY ONLY <2>5, <4>1, i \in 1..n
    <3>2. f = [i \in 1..n |-> f[i]]
      OBVIOUS
    <3> HIDE DEF f
    <3> QED
      BY ONLY <3>1, <3>2
  <2>7. Flattens(F)
    <3> HIDE DEF Flattens, f
    <3> QED
      BY ONLY <2>6
  <2>8. FlattenSeq(s) = F[n]
    BY <1>3 DEF FlattenSeq, n
  <2> HIDE DEF F
  <2> DEFINE P == {i \in Nat : i + 1 <= n => F[i + 1] \in A}
  <2>9. 0 \in P
    <3>1. 1 \in 1..n
      BY <1>1, <1>3
    <3>2. F[1] = s[1]
      BY ONLY <2>7, <3>1
    <3> QED
      BY <1>1, <3>1, <3>2
  <2>10. ASSUME NEW i \in P, NEW j \in 1..n, j = i + 2 PROVE F[j] \in A
    <3>1. j # 1 /\ j - 1 = i + 1 /\ F[i + 1] \in A
      BY <2>10, <1>1
    <3>2. F[j] = F[j - 1] \o s[j]
      BY ONLY <2>7, <3>1, j \in 1..n
    <3>3. F[j - 1] \in A
      BY ONLY <3>1
    <3> QED
      BY ONLY <1>1, <2>1, <3>2, <3>3, j \in 1..n
  <2>11. \A i \in Nat : i \in P
    <3>1. P \in SUBSET Nat
      OBVIOUS
    <3>2. ASSUME NEW i \in P, i + 1 + 1 <= n PROVE F[i + 1 + 1] \in A
      <4>1. i + 1 + 1 \in 1..n /\ i + 1 + 1 = i + 2
        BY <3>2, <1>1
      <4> QED
        BY ONLY <2>10, <4>1, i \in P
    <3>3. \A i \in P : i + 1 \in P
      BY <3>2
    <3> HIDE DEF P
    <3> QED
      BY <2>9, <3>1, <3>3, Inductive
  <2>12. n - 1 \in P /\ n - 1 + 1 = n
    BY <1>1, <1>3, <2>11
  <2>13. F[n] \in A
    BY ONLY <2>12, <1>1
  <2> QED
    BY ONLY <2>8, <2>13 DEF A
<1> QED
  BY <1>2, <1>3

\* A pass of PolygonClipper over one edge.
LEMMA ClipToEdgeIs ==
  ASSUME NEW ring \in Seq(Spots), NEW side \in Sides4
  PROVE  ClipToEdge(ring, side) \in Seq(Spots)
<1> DEFINE n == Len(ring)
           Piece(i) == (IF (side \notin Outside(ring[i])) # (side \notin Outside(Before(ring, i)))
                        THEN <<Intersect(Before(ring, i), ring[i], side)>> ELSE << >>)
                         \o (IF side \notin Outside(ring[i]) THEN <<ring[i]>> ELSE << >>)
           pieces == [i \in 1..n |-> Piece(i)]
<1>1. ASSUME NEW i \in 1..n PROVE Piece(i) \in Seq(Spots)
  <2> DEFINE cur == ring[i]
             prev == Before(ring, i)
  <2>1. cur \in Spots /\ prev \in Spots
    BY DEF Before
  <2> HIDE DEF cur, prev
  <2>2. (side \notin Outside(cur)) # (side \notin Outside(prev))
           => Intersect(prev, cur, side) \in Spots
    BY <2>1, IntersectIs DEF Sides4
  <2>3. (IF (side \notin Outside(cur)) # (side \notin Outside(prev))
         THEN <<Intersect(prev, cur, side)>> ELSE << >>) \in Seq(Spots)
    BY <2>2
  <2>4. (IF side \notin Outside(cur) THEN <<cur>> ELSE << >>) \in Seq(Spots)
    BY <2>1
  <2>5. \A a \in Seq(Spots), b \in Seq(Spots) : a \o b \in Seq(Spots)
    OBVIOUS
  <2> QED
    BY ONLY <2>3, <2>4, <2>5 DEF cur, prev
<1>2. ClipToEdge(ring, side) = FlattenSeq(pieces)
  BY DEF ClipToEdge
<1> HIDE DEF Piece
<1>3. n \in Nat /\ pieces \in Seq(Seq(Spots))
  BY <1>1
<1> QED
  BY ONLY <1>2, <1>3, FlattenIs

Outlines == Seq(Spots)

Edged(start, sides) == FoldLeft(ClipToEdge, start, sides)

\* One edge after the other.
LEMMA ClipToEdgeFold ==
  ASSUME NEW start \in Outlines,
         NEW n \in Nat, NEW s, DOMAIN s = 1..n, \A i \in 1..n : s[i] \in Sides4
  PROVE  \E f \in [0..n -> Outlines] :
            /\ f[0] = start /\ Edged(start, s) = f[n]
            /\ \A i \in 1..n : f[i] = ClipToEdge(f[i - 1], s[i])
<1> DEFINE step == [p \in Outlines \X (1..n) |-> ClipToEdge(p[1], s[p[2]])]
           Folds(h) == h = [t \in SUBSET (1..n) |->
                              IF t = {} THEN start
                              ELSE ClipToEdge(h[t \ {Max(t)}], s[Max(t)])]
           F == CHOOSE h : Folds(h)
           f == [i \in 0..n |-> F[1..i]]
<1>1. ASSUME NEW a \in Outlines, NEW i \in 1..n PROVE ClipToEdge(a, s[i]) \in Outlines
  BY ClipToEdgeIs DEF Outlines
<1>2. /\ step \in StepsIn(Outlines, n)
      /\ \A a \in Outlines, i \in 1..n : step[<<a, i>>] = ClipToEdge(a, s[i])
  BY <1>1 DEF StepsIn
<1> HIDE DEF step
<1>a. start \in Outlines
  OBVIOUS
<1>3. PICK g : Table(g, Outlines, start, step, n)
  BY ONLY <1>2, <1>a, TableExists, n \in Nat
<1>4. Folds(g)
  <2>1. /\ g \in [SUBSET (1..n) -> Outlines]
        /\ \A t \in SUBSET (1..n) :
              g[t] = IF t = {} THEN start ELSE step[<<g[t \ {Max(t)}], Max(t)>>]
    BY <1>3 DEF Table
  <2>2. ASSUME NEW t \in SUBSET (1..n), t # {}
        PROVE  g[t] = ClipToEdge(g[t \ {Max(t)}], s[Max(t)])
    <3>1. Max(t) \in 1..n /\ t \ {Max(t)} \in SUBSET (1..n)
      BY <2>2, Greatests
    <3>2. g[t \ {Max(t)}] \in Outlines
      BY ONLY <2>1, <3>1
    <3> QED
      BY ONLY <1>2, <2>1, <2>2, <3>1, <3>2
  <2> QED
    BY ONLY <2>1, <2>2
<1>5. Folds(F)
  <2> HIDE DEF Folds
  <2> QED
    BY ONLY <1>4
<1>6. Edged(start, s) = F[1..n]
  BY DEF Edged, FoldLeft, MapThenFoldSet
<1> HIDE DEF F
<1>7. 1..0 = {} /\ {} \in SUBSET (1..n) /\ 0 \in 0..n /\ n \in 0..n
  OBVIOUS
<1>8. f[0] = start /\ f[n] = F[1..n]
  BY ONLY <1>5, <1>7
<1>9. ASSUME NEW i \in 1..n PROVE f[i] = ClipToEdge(f[i - 1], s[i])
  <2>1. /\ 1..i \in SUBSET (1..n) /\ 1..i # {} /\ i - 1 \in 0..n /\ i \in 0..n
        /\ Max(1..i) = i /\ (1..i) \ {i} = 1..(i - 1)
    BY ONLY FirstOnes, n \in Nat, i \in 1..n
  <2> QED
    BY ONLY <1>5, <2>1
<1> HIDE DEF f
<1> DEFINE P == {i \in Nat : i <= n => f[i] \in Outlines}
<1>10. 0 \in P
  BY ONLY <1>8, <1>a
<1>11. ASSUME NEW i \in P, i + 1 <= n PROVE f[i + 1] \in Outlines
  <2>1. i + 1 \in 1..n /\ i + 1 - 1 = i /\ f[i] \in Outlines
    BY <1>11
  <2> QED
    BY ONLY <1>1, <1>9, <2>1
<1>12. \A i \in Nat : i \in P
  <2>1. P \in SUBSET Nat /\ \A i \in P : i + 1 \in P
    BY <1>11
  <2> HIDE DEF P
  <2> QED
    BY <1>10, <2>1, Inductive
<1>13. f \in [0..n -> Outlines]
  <2>1. f = [i \in 0..n |-> f[i]]
    BY DEF f
  <2>2. \A i \in 0..n : f[i] \in Outlines
    BY <1>12
  <2> QED
    BY ONLY <2>1, <2>2
<1> QED
  BY ONLY <1>6, <1>8, <1>9, <1>13

\* All of them.
LEMMA EdgedIs ==
  ASSUME NEW start \in Outlines, NEW n \in Nat, NEW sides, DOMAIN sides = 1..n,
         \A i \in 1..n : sides[i] \in Sides4
  PROVE  Edged(start, sides) \in Outlines
<1>1. PICK f \in [0..n -> Outlines] : Edged(start, sides) = f[n]
  BY ClipToEdgeFold
<1> QED
  BY <1>1

Joined(ps) == FoldLeft(AppendNew, << >>, ps)

\* The points that are not equal to the one before.
LEMMA AppendNewFold ==
  ASSUME NEW n \in Nat, NEW s, DOMAIN s = 1..n, \A i \in 1..n : s[i] \in Positions
  PROVE  \E f \in [0..n -> Seq(Positions)] :
            /\ f[0] = << >> /\ Joined(s) = f[n]
            /\ \A i \in 1..n : f[i] = AppendNew(f[i - 1], s[i])
<1> DEFINE step == [p \in Seq(Positions) \X (1..n) |-> AppendNew(p[1], s[p[2]])]
           Folds(h) == h = [t \in SUBSET (1..n) |->
                              IF t = {} THEN << >>
                              ELSE AppendNew(h[t \ {Max(t)}], s[Max(t)])]
           F == CHOOSE h : Folds(h)
           f == [i \in 0..n |-> F[1..i]]
<1>1. ASSUME NEW a \in Seq(Positions), NEW i \in 1..n PROVE AppendNew(a, s[i]) \in Seq(Positions)
  BY DEF AppendNew
<1>2. /\ step \in StepsIn(Seq(Positions), n)
      /\ \A a \in Seq(Positions), i \in 1..n : step[<<a, i>>] = AppendNew(a, s[i])
  BY <1>1 DEF StepsIn
<1> HIDE DEF step
<1>a. << >> \in Seq(Positions)
  OBVIOUS
<1>3. PICK g : Table(g, Seq(Positions), << >>, step, n)
  BY ONLY <1>2, <1>a, TableExists, n \in Nat
<1>4. Folds(g)
  <2>1. /\ g \in [SUBSET (1..n) -> Seq(Positions)]
        /\ \A t \in SUBSET (1..n) :
              g[t] = IF t = {} THEN << >> ELSE step[<<g[t \ {Max(t)}], Max(t)>>]
    BY <1>3 DEF Table
  <2>2. ASSUME NEW t \in SUBSET (1..n), t # {}
        PROVE  g[t] = AppendNew(g[t \ {Max(t)}], s[Max(t)])
    <3>1. Max(t) \in 1..n /\ t \ {Max(t)} \in SUBSET (1..n)
      BY <2>2, Greatests
    <3>2. g[t \ {Max(t)}] \in Seq(Positions)
      BY ONLY <2>1, <3>1
    <3> QED
      BY ONLY <1>2, <2>1, <2>2, <3>1, <3>2
  <2> QED
    BY ONLY <2>1, <2>2
<1>5. Folds(F)
  <2> HIDE DEF Folds
  <2> QED
    BY ONLY <1>4
<1>6. Joined(s) = F[1..n]
  BY DEF Joined, FoldLeft, MapThenFoldSet
<1> HIDE DEF F
<1>7. 1..0 = {} /\ {} \in SUBSET (1..n) /\ 0 \in 0..n /\ n \in 0..n
  OBVIOUS
<1>8. f[0] = << >> /\ f[n] = F[1..n]
  BY ONLY <1>5, <1>7
<1>9. ASSUME NEW i \in 1..n PROVE f[i] = AppendNew(f[i - 1], s[i])
  <2>1. /\ 1..i \in SUBSET (1..n) /\ 1..i # {} /\ i - 1 \in 0..n /\ i \in 0..n
        /\ Max(1..i) = i /\ (1..i) \ {i} = 1..(i - 1)
    BY ONLY FirstOnes, n \in Nat, i \in 1..n
  <2> QED
    BY ONLY <1>5, <2>1
<1> HIDE DEF f
<1> DEFINE P == {i \in Nat : i <= n => f[i] \in Seq(Positions)}
<1>10. 0 \in P
  BY ONLY <1>8, <1>a
<1>11. ASSUME NEW i \in P, i + 1 <= n PROVE f[i + 1] \in Seq(Positions)
  <2>1. i + 1 \in 1..n /\ i + 1 - 1 = i /\ f[i] \in Seq(Positions)
    BY <1>11
  <2> QED
    BY ONLY <1>1, <1>9, <2>1
<1>12. \A i \in Nat : i \in P
  <2>1. P \in SUBSET Nat /\ \A i \in P : i + 1 \in P
    BY <1>11
  <2> HIDE DEF P
  <2> QED
    BY <1>10, <2>1, Inductive
<1>13. f \in [0..n -> Seq(Positions)]
  <2>1. f = [i \in 0..n |-> f[i]]
    BY DEF f
  <2>2. \A i \in 0..n : f[i] \in Seq(Positions)
    BY <1>12
  <2> QED
    BY ONLY <2>1, <2>2
<1> QED
  BY ONLY <1>6, <1>8, <1>9, <1>13

\* PolygonClipper.Clip gives a ring of integer points, or none.
LEMMA ClipRingIs ==
  ASSUME NEW ring \in Seq(Positions)
  PROVE  ClipRing(ring) \in Seq(Positions)
<1> DEFINE start == [i \in 1..Len(ring) |-> Exact(ring[i])]
           sides == <<"left", "right", "bottom", "top">>
           clipped == Edged(start, sides)
<1>1. start \in Outlines
  <2>1. Len(ring) \in Nat /\ \A i \in 1..Len(ring) : Exact(ring[i]) \in Spots
    BY SpotParts
  <2> QED
    BY ONLY <2>1 DEF Outlines
<1> DEFINE n == Len(sides)
<1>2. n \in Nat /\ DOMAIN sides = 1..n /\ \A i \in 1..n : sides[i] \in Sides4
  BY DEF Sides4
<1>3. ClipRing(ring) = IF Len(clipped) < 3 THEN << >> ELSE RoundOnce(clipped)
  BY DEF ClipRing, Edged
<1> HIDE DEF start, sides, n
<1>4. clipped \in Seq(Spots)
  BY ONLY <1>1, <1>2, EdgedIs DEF Outlines
<1> HIDE DEF clipped
<1>5. RoundOnce(clipped) \in Seq(Positions)
  <2> DEFINE m == Len(clipped)
             ps == [i \in 1..m |-> Rounded(clipped[i])]
             steps == Joined(ps)
             open == IF Len(steps) > 1 /\ Last(steps) = Head(steps) THEN Front(steps) ELSE steps
  <2>1. m \in Nat /\ DOMAIN ps = 1..m /\ \A i \in 1..m : ps[i] \in Positions
    BY <1>4, SpotParts
  <2>2. RoundOnce(clipped) = IF Len(open) < 3 THEN << >> ELSE open
    BY DEF RoundOnce, Joined
  <2> HIDE DEF m, ps
  <2>3. steps \in Seq(Positions)
    <3>1. PICK f \in [0..m -> Seq(Positions)] : steps = f[m]
      BY <2>1, AppendNewFold
    <3> QED
      BY <2>1, <3>1
  <2> HIDE DEF steps
  <2>4. Len(steps) > 1 => Front(steps) \in Seq(Positions)
    BY <2>3 DEF Front
  <2> QED
    BY <2>2, <2>3, <2>4
<1> QED
  BY <1>3, <1>5

\* What is projected has integer coordinates once it is rounded.
LEMMA ProjectedIs ==
  /\ \A c \in Positions : Rounded(Unrounded(c)) \in Positions
  /\ \A coords \in Seq(Positions) :
        ProjectAll(coords) \in Seq(Positions) /\ Len(ProjectAll(coords)) = Len(coords)
<1>1. ASSUME NEW c \in Positions PROVE Rounded(Unrounded(c)) \in Positions
  <2>1. c[1] \in Int /\ c[2] \in Int /\ Grain \in Int /\ Grain # 0
    BY <1>1, GrainAssumption DEF Positions
  <2>2. Fraction(c[1], Grain) \in Fractions /\ Fraction(c[2], Grain) \in Fractions
    BY ONLY <2>1, FractionIs
  <2>3. Unrounded(c) \in Spots
    BY ONLY <2>2 DEF Unrounded, Spots
  <2> QED
    BY ONLY <2>3, SpotParts
<1>2. ASSUME NEW coords \in Seq(Positions)
      PROVE  ProjectAll(coords) \in Seq(Positions) /\ Len(ProjectAll(coords)) = Len(coords)
  <2>1. Len(coords) \in Nat /\ \A i \in 1..Len(coords) : coords[i] \in Positions
    BY <1>2
  <2>2. \A i \in 1..Len(coords) : Rounded(Unrounded(coords[i])) \in Positions
    BY ONLY <2>1, <1>1
  <2> QED
    BY ONLY <2>1, <2>2 DEF ProjectAll
<1> QED
  BY <1>1, <1>2

\* And so does Orient, and with them a ring of AddPolygon.
LEMMA RingIs ==
  ASSUME NEW ring \in Seq(Positions), NEW exterior \in BOOLEAN
  PROVE  Ring(ring, exterior) \in Seq(Positions)
<1>1. \A r \in Seq(Positions) : Reverse(r) \in Seq(Positions)
  <2> SUFFICES ASSUME NEW r \in Seq(Positions) PROVE Reverse(r) \in Seq(Positions)
    OBVIOUS
  <2>1. Len(r) \in Nat /\ \A i \in 1..Len(r) : r[(Len(r) - i) + 1] \in Positions
    OBVIOUS
  <2> QED
    BY ONLY <2>1 DEF Reverse
<1>2. \A r \in Seq(Positions) : Orient(r, exterior) \in Seq(Positions)
  BY <1>1 DEF Orient
<1>3. ClipRing(ProjectAll(ring)) \in Seq(Positions) /\ << >> \in Seq(Positions)
  BY ProjectedIs, ClipRingIs
<1> QED
  BY <1>2, <1>3 DEF Ring

\* The paths that are encoded have points.
Paths == Seq(Positions) \ {<< >>}

\* The rings that are left.
LEMMA NonEmptyFold ==
  ASSUME NEW n \in Nat, NEW s, DOMAIN s = 1..n, \A i \in 1..n : s[i] \in Seq(Positions)
  PROVE  \E f \in [0..n -> Seq(Paths)] :
            /\ f[0] = << >> /\ NonEmpty(s) = f[n]
            /\ \A i \in 1..n : f[i] = AppendNonEmpty(f[i - 1], s[i])
<1> DEFINE step == [p \in Seq(Paths) \X (1..n) |-> AppendNonEmpty(p[1], s[p[2]])]
           Folds(h) == h = [t \in SUBSET (1..n) |->
                              IF t = {} THEN << >>
                              ELSE AppendNonEmpty(h[t \ {Max(t)}], s[Max(t)])]
           F == CHOOSE h : Folds(h)
           f == [i \in 0..n |-> F[1..i]]
<1>1. ASSUME NEW a \in Seq(Paths), NEW i \in 1..n PROVE AppendNonEmpty(a, s[i]) \in Seq(Paths)
  BY DEF AppendNonEmpty, Paths
<1>2. /\ step \in StepsIn(Seq(Paths), n)
      /\ \A a \in Seq(Paths), i \in 1..n : step[<<a, i>>] = AppendNonEmpty(a, s[i])
  BY <1>1 DEF StepsIn
<1> HIDE DEF step
<1>a. << >> \in Seq(Paths)
  OBVIOUS
<1>3. PICK g : Table(g, Seq(Paths), << >>, step, n)
  BY ONLY <1>2, <1>a, TableExists, n \in Nat
<1>4. Folds(g)
  <2>1. /\ g \in [SUBSET (1..n) -> Seq(Paths)]
        /\ \A t \in SUBSET (1..n) :
              g[t] = IF t = {} THEN << >> ELSE step[<<g[t \ {Max(t)}], Max(t)>>]
    BY <1>3 DEF Table
  <2>2. ASSUME NEW t \in SUBSET (1..n), t # {}
        PROVE  g[t] = AppendNonEmpty(g[t \ {Max(t)}], s[Max(t)])
    <3>1. Max(t) \in 1..n /\ t \ {Max(t)} \in SUBSET (1..n)
      BY <2>2, Greatests
    <3>2. g[t \ {Max(t)}] \in Seq(Paths)
      BY ONLY <2>1, <3>1
    <3> QED
      BY ONLY <1>2, <2>1, <2>2, <3>1, <3>2
  <2> QED
    BY ONLY <2>1, <2>2
<1>5. Folds(F)
  <2> HIDE DEF Folds
  <2> QED
    BY ONLY <1>4
<1>6. NonEmpty(s) = F[1..n]
  BY DEF NonEmpty, FoldLeft, MapThenFoldSet
<1> HIDE DEF F
<1>7. 1..0 = {} /\ {} \in SUBSET (1..n) /\ 0 \in 0..n /\ n \in 0..n
  OBVIOUS
<1>8. f[0] = << >> /\ f[n] = F[1..n]
  BY ONLY <1>5, <1>7
<1>9. ASSUME NEW i \in 1..n PROVE f[i] = AppendNonEmpty(f[i - 1], s[i])
  <2>1. /\ 1..i \in SUBSET (1..n) /\ 1..i # {} /\ i - 1 \in 0..n /\ i \in 0..n
        /\ Max(1..i) = i /\ (1..i) \ {i} = 1..(i - 1)
    BY ONLY FirstOnes, n \in Nat, i \in 1..n
  <2> QED
    BY ONLY <1>5, <2>1
<1> HIDE DEF f
<1> DEFINE P == {i \in Nat : i <= n => f[i] \in Seq(Paths)}
<1>10. 0 \in P
  BY ONLY <1>8, <1>a
<1>11. ASSUME NEW i \in P, i + 1 <= n PROVE f[i + 1] \in Seq(Paths)
  <2>1. i + 1 \in 1..n /\ i + 1 - 1 = i /\ f[i] \in Seq(Paths)
    BY <1>11
  <2> QED
    BY ONLY <1>1, <1>9, <2>1
<1>12. \A i \in Nat : i \in P
  <2>1. P \in SUBSET Nat /\ \A i \in P : i + 1 \in P
    BY <1>11
  <2> HIDE DEF P
  <2> QED
    BY <1>10, <2>1, Inductive
<1>13. f \in [0..n -> Seq(Paths)]
  <2>1. f = [i \in 0..n |-> f[i]]
    BY DEF f
  <2>2. \A i \in 0..n : f[i] \in Seq(Paths)
    BY <1>12
  <2> QED
    BY ONLY <2>1, <2>2
<1> QED
  BY ONLY <1>6, <1>8, <1>9, <1>13

\* What the Add methods encode: points, or paths with points.
LEMMA GeometriesAre ==
  /\ \A coords \in Seq(Positions) :
        LineGeometry(coords) # << >>
           => \E paths \in Seq(Paths) : LineGeometry(coords) = EncodePaths(paths, FALSE)
  /\ \A rings \in Seq(Seq(Positions)) :
        rings # << >> /\ PolygonGeometry(rings) # << >>
           => \E paths \in Seq(Paths) : PolygonGeometry(rings) = EncodePaths(paths, TRUE)
<1>1. ASSUME NEW coords \in Seq(Positions), LineGeometry(coords) # << >>
      PROVE  \E paths \in Seq(Paths) : LineGeometry(coords) = EncodePaths(paths, FALSE)
  <2> DEFINE projected == ProjectAll(coords)
  <2>1. /\ LineGeometry(coords) = EncodePaths(ClipLine(projected), FALSE)
        /\ ~(Len(coords) < 2)
    BY <1>1 DEF LineGeometry
  <2>2. projected \in Seq(Positions) /\ Len(projected) = Len(coords)
    BY <1>1, ProjectedIs
  <2> HIDE DEF projected
  <2>3. ClipLine(projected) \in Seq(Lines)
    BY <2>1, <2>2, ClipLineIs
  <2>4. Lines \subseteq Paths
    BY DEF Lines, Paths
  <2>5. ClipLine(projected) \in Seq(Paths)
    BY ONLY <2>3, <2>4
  <2> QED
    BY <2>1, <2>5
<1>2. ASSUME NEW rings \in Seq(Seq(Positions)), rings # << >>, PolygonGeometry(rings) # << >>
      PROVE  \E paths \in Seq(Paths) : PolygonGeometry(rings) = EncodePaths(paths, TRUE)
  <2> DEFINE outer == IF OverlapsTile(rings[1]) THEN Ring(rings[1], TRUE) ELSE << >>
             n == Len(rings) - 1
             holes == [i \in 1..n |-> Ring(rings[i + 1], FALSE)]
  <2>1. /\ rings[1] \in Seq(Positions) /\ n \in Nat /\ DOMAIN holes = 1..n
        /\ \A i \in 1..n : rings[i + 1] \in Seq(Positions)
    BY <1>2
  <2>2. outer \in Seq(Positions) /\ \A i \in 1..n : holes[i] \in Seq(Positions)
    <3>1. \A r \in Seq(Positions) : /\ Ring(r, TRUE) \in Seq(Positions)
                                    /\ Ring(r, FALSE) \in Seq(Positions)
      BY RingIs
    <3>2. << >> \in Seq(Positions)
      OBVIOUS
    <3> HIDE DEF n
    <3>3. outer \in Seq(Positions)
      BY ONLY <2>1, <3>1, <3>2
    <3>4. \A i \in 1..n : Ring(rings[i + 1], FALSE) \in Seq(Positions)
      BY ONLY <2>1, <3>1
    <3> QED
      BY ONLY <3>3, <3>4
  <2>3. outer # << >> /\ PolygonGeometry(rings) = EncodePaths(<<outer>> \o NonEmpty(holes), TRUE)
    BY <1>2 DEF PolygonGeometry
  <2> HIDE DEF outer, n, holes
  <2>4. NonEmpty(holes) \in Seq(Paths)
    <3>1. PICK f \in [0..n -> Seq(Paths)] : NonEmpty(holes) = f[n]
      BY <2>1, <2>2, NonEmptyFold
    <3> QED
      BY <2>1, <3>1
  <2>5. <<outer>> \o NonEmpty(holes) \in Seq(Paths)
    <3>1. <<outer>> \in Seq(Paths)
      BY <2>2, <2>3 DEF Paths
    <3> QED
      BY <2>4, <3>1
  <2> QED
    BY <2>3, <2>5
<1> QED
  BY <1>1, <1>2

-----------------------------------------------------------------------------
(* The command stream                                                      *)

Read(commands) == FoldLeft(ReadInteger, NewReader, commands)

\* The reader, integer by integer.
LEMMA ReadFold ==
  ASSUME NEW s, NEW n \in Nat, DOMAIN s = 1..n
  PROVE  \E f : /\ f[0] = NewReader /\ Read(s) = f[n]
                /\ \A i \in 1..n : f[i] = ReadInteger(f[i - 1], s[i])
<1> DEFINE Folds(k, g) ==
               g = [t \in SUBSET (1..k) |->
                       IF t = {} THEN NewReader ELSE ReadInteger(g[t \ {Max(t)}], s[Max(t)])]
           P == {k \in Nat : \E g : Folds(k, g)}
<1>1. 0 \in P
  <2>1. Folds(0, [t \in SUBSET (1..0) |-> NewReader])
    OBVIOUS
  <2> QED
    BY <2>1
<1>2. ASSUME NEW k \in P PROVE k + 1 \in P
  <2>1. PICK g : Folds(k, g)
    OBVIOUS
  <2> DEFINE h == [t \in SUBSET (1..(k + 1)) |->
                      IF k + 1 \in t THEN ReadInteger(g[t \ {k + 1}], s[k + 1]) ELSE g[t]]
  <2>0. k \in Nat
    OBVIOUS
  <2> HIDE DEF P, Folds
  <2>2. k \in Nat /\ \A t \in SUBSET (1..k) : h[t] = g[t] /\ t \ {Max(t)} \in SUBSET (1..k)
    <3>1. \A t \in SUBSET (1..k) : k + 1 \notin t /\ t \in SUBSET (1..(k + 1))
      BY <2>0
    <3>2. \A t \in SUBSET (1..k) : t \ {Max(t)} \in SUBSET (1..k)
      OBVIOUS
    <3> QED
      BY <2>0, <3>1, <3>2
  <2>3. ASSUME NEW t \in SUBSET (1..(k + 1))
        PROVE  h[t] = IF t = {} THEN NewReader ELSE ReadInteger(h[t \ {Max(t)}], s[Max(t)])
    <3>1. CASE k + 1 \in t
      <4>1. Max(t) = k + 1 /\ t \ {k + 1} \in SUBSET (1..k) /\ t # {}
        BY <2>2, <3>1, Tops
      <4>2. h[t] = ReadInteger(g[t \ {k + 1}], s[k + 1]) /\ h[t \ {k + 1}] = g[t \ {k + 1}]
        BY <2>2, <3>1, <4>1
      <4> QED
        BY ONLY <4>1, <4>2
    <3>2. CASE k + 1 \notin t
      <4>1. t \in SUBSET (1..k)
        BY <2>2, <3>2, Tops
      <4>2. h[t] = g[t] /\ h[t \ {Max(t)}] = g[t \ {Max(t)}]
        BY <2>2, <4>1
      <4>3. g[t] = IF t = {} THEN NewReader ELSE ReadInteger(g[t \ {Max(t)}], s[Max(t)])
        BY ONLY <2>1, <4>1 DEF Folds
      <4> QED
        BY ONLY <4>2, <4>3
    <3> QED
      BY ONLY <3>1, <3>2
  <2>4. Folds(k + 1, h)
    BY ONLY <2>3 DEF Folds
  <2> HIDE DEF h
  <2> QED
    BY ONLY <2>4, <2>0 DEF P
<1>3. \E g : Folds(n, g)
  <2> HIDE DEF Folds
  <2>1. P \in SUBSET Nat
    OBVIOUS
  <2>2. n \in P
    <3> HIDE DEF P
    <3> QED
      BY <1>1, <1>2, <2>1, Inductive
  <2> QED
    BY ONLY <2>2
<1> DEFINE F == CHOOSE g : Folds(n, g)
<1>4. Folds(n, F)
  BY ONLY <1>3
<1>5. Read(s) = F[1..n]
  BY DEF Read, FoldLeft, MapThenFoldSet
<1> HIDE DEF F
<1> DEFINE f == [i \in 0..n |-> F[1..i]]
<1>6. f[0] = NewReader /\ f[n] = F[1..n]
  <2>1. 1..0 = {} /\ {} \in SUBSET (1..n) /\ 0 \in 0..n /\ n \in 0..n
    OBVIOUS
  <2>2. F[{}] = NewReader
    BY ONLY <1>4, <2>1
  <2> QED
    BY ONLY <2>1, <2>2
<1>7. ASSUME NEW i \in 1..n PROVE f[i] = ReadInteger(f[i - 1], s[i])
  <2>1. i - 1 \in Nat /\ i - 1 + 1 = i /\ 1..i \in SUBSET (1..n) /\ 1..i # {}
    OBVIOUS
  <2>2. Max(1..i) = i /\ (1..i) \ {i} = 1..(i - 1)
    BY <2>1, Tops
  <2>3. F[1..i] = ReadInteger(F[(1..i) \ {Max(1..i)}], s[Max(1..i)])
    BY ONLY <1>4, <2>1
  <2>4. f[i] = F[1..i] /\ f[i - 1] = F[1..(i - 1)]
    OBVIOUS
  <2> QED
    BY ONLY <2>2, <2>3, <2>4
<1> HIDE DEF f
<1> QED
  BY <1>5, <1>6, <1>7

\* One integer more.
LEMMA ReadAppend ==
  ASSUME NEW cs, IsSeq(cs), NEW c
  PROVE  Read(Append(cs, c)) = ReadInteger(Read(cs), c)
<1> DEFINE n == Len(cs)
           more == Append(cs, c)
<1>1. /\ n \in Nat /\ DOMAIN cs = 1..n /\ more[n + 1] = c
      /\ n + 1 \in Nat /\ DOMAIN more = 1..(n + 1) /\ \A i \in 1..n : more[i] = cs[i]
  <2>1. Len(more) \in Nat /\ DOMAIN more = 1..Len(more) /\ Len(more) = n + 1
    BY AppendParts, SeqParts
  <2> QED
    BY <2>1, AppendParts, SeqParts
<1> HIDE DEF n, more
<1>2. PICK f : /\ f[0] = NewReader /\ Read(cs) = f[n]
               /\ \A i \in 1..n : f[i] = ReadInteger(f[i - 1], cs[i])
  <2>1. n \in Nat /\ DOMAIN cs = 1..n
    BY <1>1
  <2> QED
    BY ONLY <2>1, ReadFold, Z3
<1>3. PICK g : /\ g[0] = NewReader /\ Read(more) = g[n + 1]
               /\ \A i \in 1..(n + 1) : g[i] = ReadInteger(g[i - 1], more[i])
  <2> DEFINE m == n + 1
  <2>1. m \in Nat /\ DOMAIN more = 1..m
    BY <1>1
  <2> HIDE DEF m
  <2>2. \E g : /\ g[0] = NewReader /\ Read(more) = g[m]
              /\ \A i \in 1..m : g[i] = ReadInteger(g[i - 1], more[i])
    BY ONLY <2>1, ReadFold, Z3
  <2> QED
    BY ONLY <2>2 DEF m
<1> DEFINE P == {i \in Nat : i <= n => f[i] = g[i]}
<1>4. 0 \in P
  BY <1>2, <1>3
<1>5. ASSUME NEW i \in P PROVE i + 1 \in P
  <2>1. i \in Nat /\ (i <= n => f[i] = g[i])
    OBVIOUS
  <2> SUFFICES ASSUME i + 1 <= n PROVE f[i + 1] = g[i + 1]
    BY <2>1
  <2>2. i + 1 \in 1..n /\ i + 1 \in 1..(n + 1) /\ i + 1 - 1 = i /\ f[i] = g[i]
    BY <1>1, <2>1
  <2> QED
    BY ONLY <1>1, <1>2, <1>3, <2>2
<1>6. n \in P
  <2>1. P \in SUBSET Nat
    OBVIOUS
  <2> HIDE DEF P
  <2> QED
    BY <1>1, <1>4, <1>5, <2>1, Inductive
<1>7. n + 1 \in 1..(n + 1) /\ n + 1 - 1 = n /\ f[n] = g[n]
  BY <1>1, <1>6
<1>8. g[n + 1] = ReadInteger(g[n], c)
  BY ONLY <1>1, <1>3, <1>7
<1> QED
  BY ONLY <1>2, <1>3, <1>7, <1>8 DEF more

\* Before the first.
LEMMA ReadNone == Read(<< >>) = NewReader
<1>1. 0 \in Nat /\ DOMAIN << >> = 1..0
  OBVIOUS
<1>2. PICK f : f[0] = NewReader /\ Read(<< >>) = f[0]
  BY ONLY <1>1, ReadFold
<1> QED
  BY <1>2

\* What is zigzagged comes back.
LEMMA ZigZagBack ==
  \A i \in Int : ZigZag(i) \in Nat /\ UnZigZag(ZigZag(i)) = i
BY DEF ZigZag, UnZigZag

\* The last of a sequence that was added to.
LEMMA AppendedParts ==
  ASSUME NEW S, NEW s \in Seq(S), NEW e \in S
  PROVE  /\ Append(s, e) \in Seq(S) /\ Front(Append(s, e)) = s /\ Last(Append(s, e)) = e
         /\ Len(Append(s, e)) = Len(s) + 1
<1> DEFINE t == Append(s, e)
<1>1. /\ t \in Seq(S) /\ Len(t) = Len(s) + 1 /\ t[Len(t)] = e /\ Len(s) \in Nat
      /\ \A i \in 1..Len(s) : t[i] = s[i]
  OBVIOUS
<1> HIDE DEF t
<1>2. Front(t) = s
  <2>1. Front(t) = SubSeq(t, 1, Len(s))
    BY <1>1 DEF Front
  <2>2. SubSeq(t, 1, Len(s)) \in Seq(S) /\ Len(SubSeq(t, 1, Len(s))) = Len(s)
        /\ \A i \in 1..Len(s) : SubSeq(t, 1, Len(s))[i] = t[i]
    BY <1>1
  <2> QED
    BY <1>1, <2>1, <2>2, SeqEqual
<1> QED
  BY <1>1, <1>2 DEF Last, t

\* One element more of the first of a sequence.
LEMMA FirstOnesOn ==
  ASSUME NEW S, NEW s \in Seq(S)
  PROVE  /\ SubSeq(s, 1, 0) = << >> /\ SubSeq(s, 1, Len(s)) = s
         /\ \A i \in 0..(Len(s) - 1) :
               /\ SubSeq(s, 1, i) \in Seq(S)
               /\ Append(SubSeq(s, 1, i), s[i + 1]) = SubSeq(s, 1, i + 1)
<1>1. SubSeq(s, 1, Len(s)) = s
  BY SubSeqFull
<1>2. ASSUME NEW i \in 0..(Len(s) - 1)
      PROVE  /\ SubSeq(s, 1, i) \in Seq(S)
             /\ Append(SubSeq(s, 1, i), s[i + 1]) = SubSeq(s, 1, i + 1)
  <2> DEFINE a == SubSeq(s, 1, i)
             b == SubSeq(s, 1, i + 1)
  <2>1. i \in Nat /\ i + 1 \in 1..Len(s) /\ s[i + 1] \in S
    OBVIOUS
  <2>2. a \in Seq(S) /\ Len(a) = i /\ \A j \in 1..i : a[j] = s[j]
    OBVIOUS
  <2>3. b \in Seq(S) /\ Len(b) = i + 1 /\ \A j \in 1..(i + 1) : b[j] = s[j]
    OBVIOUS
  <2> HIDE DEF a, b
  <2>4. /\ Append(a, s[i + 1]) \in Seq(S) /\ Len(Append(a, s[i + 1])) = i + 1
        /\ \A j \in 1..(i + 1) : Append(a, s[i + 1])[j] = s[j]
    BY <2>1, <2>2
  <2>5. Append(a, s[i + 1]) = b
    BY ONLY <2>3, <2>4, SeqEqual
  <2> QED
    BY ONLY <2>2, <2>5 DEF a, b
<1>3. SubSeq(s, 1, 0) = << >>
  BY SubSeqEmpty
<1> QED
  BY <1>1, <1>2, <1>3

\* A CommandWriter, and a reader that has read what it wrote.
Writers == [commands : Seq(Nat), cursor : Positions]

At(w, left, paths) ==
    Read(w.commands) = [left |-> left, cursor |-> w.cursor, paths |-> paths]

\* The commands are read as they were written.
LEMMA ReadCommands ==
  ASSUME NEW w \in Writers, NEW paths, At(w, 0, paths)
  PROVE  /\ WriteCommand(w, MoveTo, 1) \in Writers
         /\ At(WriteCommand(w, MoveTo, 1), 2, Append(paths, << >>))
         /\ Len(WriteCommand(w, MoveTo, 1).commands) = Len(w.commands) + 1
         /\ \A count \in Nat : /\ WriteCommand(w, LineTo, count) \in Writers
                               /\ At(WriteCommand(w, LineTo, count), 2 * count, paths)
                               /\ Len(WriteCommand(w, LineTo, count).commands) = Len(w.commands) + 1
         /\ WriteCommand(w, ClosePath, 1) \in Writers
         /\ At(WriteCommand(w, ClosePath, 1), 0, paths)
         /\ Len(WriteCommand(w, ClosePath, 1).commands) = Len(w.commands) + 1
<1>1. w.commands \in Seq(Nat) /\ w.cursor \in Positions
  BY DEF Writers
<1>2. ASSUME NEW id \in {MoveTo, LineTo, ClosePath}, NEW count \in Nat
      PROVE  LET new == WriteCommand(w, id, count)
             IN  /\ new \in Writers /\ Len(new.commands) = Len(w.commands) + 1
                 /\ At(new, IF id = ClosePath THEN 0 ELSE 2 * count,
                       IF id = MoveTo THEN Append(paths, << >>) ELSE paths)
  <2> DEFINE new == WriteCommand(w, id, count)
             u == CommandInteger(id, count)
             r == [left |-> 0, cursor |-> w.cursor, paths |-> paths]
  <2>1. u \in Nat /\ u % 8 = id /\ u \div 8 = count
    BY DEF CommandInteger, MoveTo, LineTo, ClosePath
  <2>2. new = [commands |-> Append(w.commands, u), cursor |-> w.cursor]
    <3>1. w = [commands |-> w.commands, cursor |-> w.cursor]
      BY DEF Writers
    <3>2. \A a, b, d : [[commands |-> a, cursor |-> b] EXCEPT !.commands = d]
                          = [commands |-> d, cursor |-> b]
      OBVIOUS
    <3>3. new = [w EXCEPT !.commands = Append(w.commands, u)]
      BY DEF WriteCommand
    <3> HIDE DEF new, u
    <3>4. [w EXCEPT !.commands = Append(w.commands, u)]
             = [commands |-> Append(w.commands, u), cursor |-> w.cursor]
      BY ONLY <3>1, <3>2
    <3> QED
      BY ONLY <3>3, <3>4
  <2> HIDE DEF new, u
  <2>3. /\ new.commands = Append(w.commands, u) /\ new.cursor = w.cursor /\ new \in Writers
        /\ Len(new.commands) = Len(w.commands) + 1
    <3>1. Append(w.commands, u) \in Seq(Nat) /\ Len(Append(w.commands, u)) = Len(w.commands) + 1
      BY <1>1, <2>1
    <3> QED
      BY ONLY <1>1, <2>2, <3>1 DEF Writers
  <2>4. Read(new.commands) = ReadInteger(r, u)
    BY <1>1, <2>3, ReadAppend DEF IsSeq, At
  <2>5. ReadInteger(r, u) = [left |-> IF id = ClosePath THEN 0 ELSE 2 * count,
                             cursor |-> w.cursor,
                             paths |-> IF id = MoveTo THEN Append(paths, << >>) ELSE paths]
    BY <2>1 DEF ReadInteger, ReadCommand
  <2>6. At(new, IF id = ClosePath THEN 0 ELSE 2 * count,
           IF id = MoveTo THEN Append(paths, << >>) ELSE paths)
    BY ONLY <2>3, <2>4, <2>5 DEF At
  <2> QED
    BY ONLY <2>3, <2>6 DEF new
<1>3. MoveTo # ClosePath /\ LineTo # ClosePath /\ LineTo # MoveTo /\ ClosePath # MoveTo /\ 1 \in Nat
      /\ 2 * 1 = 2
  BY DEF MoveTo, LineTo, ClosePath
<1>4. /\ WriteCommand(w, MoveTo, 1) \in Writers
      /\ Len(WriteCommand(w, MoveTo, 1).commands) = Len(w.commands) + 1
      /\ At(WriteCommand(w, MoveTo, 1), 2, Append(paths, << >>))
  BY <1>2, <1>3, MoveTo \in {MoveTo, LineTo, ClosePath}
<1>5. ASSUME NEW count \in Nat
      PROVE  /\ WriteCommand(w, LineTo, count) \in Writers
             /\ At(WriteCommand(w, LineTo, count), 2 * count, paths)
             /\ Len(WriteCommand(w, LineTo, count).commands) = Len(w.commands) + 1
  BY <1>2, <1>3, LineTo \in {MoveTo, LineTo, ClosePath}
<1>6. /\ WriteCommand(w, ClosePath, 1) \in Writers
      /\ At(WriteCommand(w, ClosePath, 1), 0, paths)
      /\ Len(WriteCommand(w, ClosePath, 1).commands) = Len(w.commands) + 1
  BY <1>2, <1>3, ClosePath \in {MoveTo, LineTo, ClosePath}
<1> QED
  BY ONLY <1>4, <1>5, <1>6

\* So is a point.
LEMMA ReadPoint ==
  ASSUME NEW w \in Writers, NEW k \in Nat \ {0}, NEW paths \in Seq(Seq(Positions)),
         NEW path \in Seq(Positions), At(w, 2 * k, Append(paths, path)), NEW p \in Positions
  PROVE  /\ WritePoint(w, p) \in Writers
         /\ At(WritePoint(w, p), 2 * (k - 1), Append(paths, Append(path, p)))
         /\ Len(WritePoint(w, p).commands) = Len(w.commands) + 2
<1> DEFINE c == w.commands
           u == ZigZag(p[1] - w.cursor[1])
           v == ZigZag(p[2] - w.cursor[2])
           new == WritePoint(w, p)
           r == [left |-> 2 * k, cursor |-> w.cursor, paths |-> Append(paths, path)]
           x == [left |-> 2 * k - 1, cursor |-> <<p[1], w.cursor[2]>>,
                 paths |-> Append(paths, path)]
           y == [left |-> 2 * (k - 1), cursor |-> p, paths |-> Append(paths, Append(path, p))]
<1>1. /\ c \in Seq(Nat) /\ w.cursor = <<w.cursor[1], w.cursor[2]>>
      /\ w.cursor[1] \in Int /\ w.cursor[2] \in Int
      /\ p = <<p[1], p[2]>> /\ p[1] \in Int /\ p[2] \in Int
  BY DEF Writers, Positions
<1>2. /\ u \in Nat /\ w.cursor[1] + UnZigZag(u) = p[1]
      /\ v \in Nat /\ w.cursor[2] + UnZigZag(v) = p[2]
  <2>1. p[1] - w.cursor[1] \in Int /\ p[2] - w.cursor[2] \in Int
    BY <1>1
  <2>2. /\ UnZigZag(u) = p[1] - w.cursor[1] /\ u \in Nat
        /\ UnZigZag(v) = p[2] - w.cursor[2] /\ v \in Nat
    BY <2>1, ZigZagBack
  <2> HIDE DEF u, v
  <2> QED
    BY <1>1, <2>2
<1>3. new = [commands |-> c \o <<u, v>>, cursor |-> p]
  BY DEF WritePoint
<1> HIDE DEF c, u, v, new
<1>4. c \o <<u, v>> = Append(Append(c, u), v) /\ c \o <<u, v>> \in Seq(Nat)
      /\ Len(c \o <<u, v>>) = Len(c) + 2 /\ IsSeq(c) /\ IsSeq(Append(c, u))
  <2>1. c \o <<u, v>> \in Seq(Nat) /\ Append(Append(c, u), v) \in Seq(Nat)
        /\ Append(c, u) \in Seq(Nat)
    BY <1>1, <1>2
  <2>2. Len(c \o <<u, v>>) = Len(c) + 2 /\ Len(Append(Append(c, u), v)) = Len(c) + 2
        /\ \A i \in 1..(Len(c) + 2) : (c \o <<u, v>>)[i] = Append(Append(c, u), v)[i]
    BY <1>1, <1>2
  <2>3. c \o <<u, v>> = Append(Append(c, u), v)
    BY ONLY <2>1, <2>2, SeqEqual
  <2> QED
    BY <1>1, <2>1, <2>2, <2>3 DEF IsSeq
<1>5. Read(Append(Append(c, u), v)) = ReadInteger(ReadInteger(r, u), v)
  BY <1>4, ReadAppend DEF At, c
<1>6. ReadInteger(r, u) = x
  <2>1. 2 * k # 0 /\ (2 * k) % 2 = 0
    OBVIOUS
  <2>2. ReadInteger(r, u) = ReadX(r, u)
    BY <2>1 DEF ReadInteger
  <2>3. ReadX(r, u) = [left |-> 2 * k - 1,
                       cursor |-> [w.cursor EXCEPT ![1] = w.cursor[1] + UnZigZag(u)],
                       paths |-> Append(paths, path)]
    <3>1. \A l, c1, q, d :
             /\ [[left |-> l, cursor |-> c1, paths |-> q] EXCEPT !.left = d]
                   = [left |-> d, cursor |-> c1, paths |-> q]
             /\ [[left |-> l, cursor |-> c1, paths |-> q] EXCEPT !.cursor = d]
                   = [left |-> l, cursor |-> d, paths |-> q]
      OBVIOUS
    <3>2. /\ [r EXCEPT !.left = r.left - 1].cursor = w.cursor
          /\ r.left = 2 * k /\ r.cursor = w.cursor
      OBVIOUS
    <3>3. ReadX(r, u) = [[r EXCEPT !.left = r.left - 1] EXCEPT
                           !.cursor = [[r EXCEPT !.left = r.left - 1].cursor EXCEPT
                                          ![1] = r.cursor[1] + UnZigZag(u)]]
      BY DEF ReadX
    <3>4. ReadX(r, u) = [[r EXCEPT !.left = 2 * k - 1] EXCEPT
                           !.cursor = [w.cursor EXCEPT ![1] = w.cursor[1] + UnZigZag(u)]]
      <4> HIDE DEF r
      <4> QED
        BY ONLY <3>2, <3>3
    <3> QED
      BY ONLY <3>1, <3>4
  <2>4. [w.cursor EXCEPT ![1] = w.cursor[1] + UnZigZag(u)] = <<p[1], w.cursor[2]>>
    <3>1. \A a, b, d : [<<a, b>> EXCEPT ![1] = d] = <<d, b>>
      OBVIOUS
    <3> QED
      BY <1>1, <1>2, <3>1
  <2> QED
    BY ONLY <2>2, <2>3, <2>4
<1>7. ReadInteger(x, v) = y
  <2>1. 2 * k - 1 # 0 /\ (2 * k - 1) % 2 # 0 /\ 2 * k - 1 - 1 = 2 * (k - 1)
    OBVIOUS
  <2>2. ReadInteger(x, v) = ReadY(x, v)
    BY <2>1 DEF ReadInteger
  <2>3. Front(Append(paths, path)) = paths /\ Last(Append(paths, path)) = path
    BY AppendedParts
  <2>4. ReadY(x, v) = [left |-> 2 * k - 1 - 1, cursor |-> <<p[1], w.cursor[2] + UnZigZag(v)>>,
                       paths |-> Append(Front(Append(paths, path)),
                                   Append(Last(Append(paths, path)),
                                          <<p[1], w.cursor[2] + UnZigZag(v)>>))]
    BY DEF ReadY
  <2>5. <<p[1], w.cursor[2] + UnZigZag(v)>> = p
    BY ONLY <1>1, <1>2
  <2> QED
    BY ONLY <2>1, <2>2, <2>3, <2>4, <2>5
<1>8. Read(new.commands) = y /\ new.cursor = p /\ Len(new.commands) = Len(c) + 2
  <2> HIDE DEF r, x, y
  <2>1. new.commands = c \o <<u, v>> /\ new.cursor = p
    BY ONLY <1>3
  <2> QED
    BY ONLY <2>1, <1>4, <1>5, <1>6, <1>7
<1>9. new \in Writers
  BY ONLY <1>3, <1>4, p \in Positions DEF Writers
<1> QED
  BY ONLY <1>8, <1>9 DEF At, new, c

Drawn(w, points) == FoldLeft(WritePoint, w, points)

\* A point is written to a writer.
LEMMA WritePointIs ==
  ASSUME NEW w \in Writers, NEW p \in Positions
  PROVE  WritePoint(w, p) \in Writers
<1>1. /\ w.commands \in Seq(Nat) /\ w.cursor[1] \in Int /\ w.cursor[2] \in Int
      /\ p[1] \in Int /\ p[2] \in Int
  BY DEF Writers, Positions
<1>2. p[1] - w.cursor[1] \in Int /\ p[2] - w.cursor[2] \in Int
  BY <1>1
<1>3. ZigZag(p[1] - w.cursor[1]) \in Nat /\ ZigZag(p[2] - w.cursor[2]) \in Nat
  BY <1>2, ZigZagBack
<1>4. w.commands \o <<ZigZag(p[1] - w.cursor[1]), ZigZag(p[2] - w.cursor[2])>> \in Seq(Nat)
  BY <1>1, <1>3
<1> QED
  BY <1>4 DEF WritePoint, Writers

\* The points of a path.
LEMMA WritePointFold ==
  ASSUME NEW start \in Writers,
         NEW n \in Nat, NEW s, DOMAIN s = 1..n, \A i \in 1..n : s[i] \in Positions
  PROVE  \E f \in [0..n -> Writers] :
            /\ f[0] = start /\ Drawn(start, s) = f[n]
            /\ \A i \in 1..n : f[i] = WritePoint(f[i - 1], s[i])
<1> DEFINE step == [p \in Writers \X (1..n) |-> WritePoint(p[1], s[p[2]])]
           Folds(h) == h = [t \in SUBSET (1..n) |->
                              IF t = {} THEN start
                              ELSE WritePoint(h[t \ {Max(t)}], s[Max(t)])]
           F == CHOOSE h : Folds(h)
           f == [i \in 0..n |-> F[1..i]]
<1>1. ASSUME NEW a \in Writers, NEW i \in 1..n PROVE WritePoint(a, s[i]) \in Writers
  BY WritePointIs
<1>2. /\ step \in StepsIn(Writers, n)
      /\ \A a \in Writers, i \in 1..n : step[<<a, i>>] = WritePoint(a, s[i])
  BY <1>1 DEF StepsIn
<1> HIDE DEF step
<1>a. start \in Writers
  OBVIOUS
<1>3. PICK g : Table(g, Writers, start, step, n)
  BY ONLY <1>2, <1>a, TableExists, n \in Nat
<1>4. Folds(g)
  <2>1. /\ g \in [SUBSET (1..n) -> Writers]
        /\ \A t \in SUBSET (1..n) :
              g[t] = IF t = {} THEN start ELSE step[<<g[t \ {Max(t)}], Max(t)>>]
    BY <1>3 DEF Table
  <2>2. ASSUME NEW t \in SUBSET (1..n), t # {}
        PROVE  g[t] = WritePoint(g[t \ {Max(t)}], s[Max(t)])
    <3>1. Max(t) \in 1..n /\ t \ {Max(t)} \in SUBSET (1..n)
      BY <2>2, Greatests
    <3>2. g[t \ {Max(t)}] \in Writers
      BY ONLY <2>1, <3>1
    <3> QED
      BY ONLY <1>2, <2>1, <2>2, <3>1, <3>2
  <2> QED
    BY ONLY <2>1, <2>2
<1>5. Folds(F)
  <2> HIDE DEF Folds
  <2> QED
    BY ONLY <1>4
<1>6. Drawn(start, s) = F[1..n]
  BY DEF Drawn, FoldLeft, MapThenFoldSet
<1> HIDE DEF F
<1>7. 1..0 = {} /\ {} \in SUBSET (1..n) /\ 0 \in 0..n /\ n \in 0..n
  OBVIOUS
<1>8. f[0] = start /\ f[n] = F[1..n]
  BY ONLY <1>5, <1>7
<1>9. ASSUME NEW i \in 1..n PROVE f[i] = WritePoint(f[i - 1], s[i])
  <2>1. /\ 1..i \in SUBSET (1..n) /\ 1..i # {} /\ i - 1 \in 0..n /\ i \in 0..n
        /\ Max(1..i) = i /\ (1..i) \ {i} = 1..(i - 1)
    BY ONLY FirstOnes, n \in Nat, i \in 1..n
  <2> QED
    BY ONLY <1>5, <2>1
<1> HIDE DEF f
<1> DEFINE P == {i \in Nat : i <= n => f[i] \in Writers}
<1>10. 0 \in P
  BY ONLY <1>8, <1>a
<1>11. ASSUME NEW i \in P, i + 1 <= n PROVE f[i + 1] \in Writers
  <2>1. i + 1 \in 1..n /\ i + 1 - 1 = i /\ f[i] \in Writers
    BY <1>11
  <2> QED
    BY ONLY <1>1, <1>9, <2>1
<1>12. \A i \in Nat : i \in P
  <2>1. P \in SUBSET Nat /\ \A i \in P : i + 1 \in P
    BY <1>11
  <2> HIDE DEF P
  <2> QED
    BY <1>10, <2>1, Inductive
<1>13. f \in [0..n -> Writers]
  <2>1. f = [i \in 0..n |-> f[i]]
    BY DEF f
  <2>2. \A i \in 0..n : f[i] \in Writers
    BY <1>12
  <2> QED
    BY ONLY <2>1, <2>2
<1> QED
  BY ONLY <1>6, <1>8, <1>9, <1>13

PointsDrawn(f, start, n, s) ==
    /\ f \in [0..n -> Writers] /\ f[0] = start /\ Drawn(start, s) = f[n]
    /\ \A i \in 1..n : f[i] = WritePoint(f[i - 1], s[i])

\* The points of a path, as a table of the writers.
LEMMA DrawnIs ==
  ASSUME NEW start \in Writers, NEW n \in Nat, NEW s, DOMAIN s = 1..n,
         \A i \in 1..n : s[i] \in Positions
  PROVE  \E f : PointsDrawn(f, start, n, s)
<1>1. PICK f \in [0..n -> Writers] :
         /\ f[0] = start /\ Drawn(start, s) = f[n]
         /\ \A i \in 1..n : f[i] = WritePoint(f[i - 1], s[i])
  BY WritePointFold
<1>2. PointsDrawn(f, start, n, s)
  BY ONLY <1>1 DEF PointsDrawn
<1> QED
  BY ONLY <1>2

\* So is a path, in commands that are as many as were counted.
LEMMA ReadPath ==
  ASSUME NEW w \in Writers, NEW paths \in Seq(Seq(Positions)), At(w, 0, paths),
         NEW path \in Paths, NEW closed \in BOOLEAN
  PROVE  /\ WritePath(w, path, closed) \in Writers
         /\ At(WritePath(w, path, closed), 0, Append(paths, path))
         /\ Len(WritePath(w, path, closed).commands)
                = Len(w.commands) + PathSize(Len(path), closed)
<1> DEFINE start == WriteCommand(w, MoveTo, 1)
           moved == WritePoint(start, path[1])
           m == Len(path) - 1
           line == WriteCommand(moved, LineTo, m)
           points == Tail(path)
           drawn == Drawn(line, points)
           One(i) == SubSeq(path, 1, i)
<1>1. path \in Seq(Positions) /\ path # << >> /\ m \in Nat /\ m + 1 = Len(path)
      /\ \A i \in 1..Len(path) : path[i] \in Positions
  BY DEF Paths
<1>2. /\ points \in Seq(Positions) /\ Len(points) = m /\ DOMAIN points = 1..m
      /\ \A i \in 1..m : points[i] = path[i + 1] /\ points[i] \in Positions
  <2>1. /\ points \in Seq(Positions) /\ Len(points) = Len(path) - 1
        /\ \A i \in 1..Len(points) : points[i] = path[i + 1]
    BY <1>1, HeadTailProperties
  <2> QED
    BY <2>1, <1>1
<1>3. /\ One(0) = << >>
      /\ \A i \in 0..m : One(i) \in Seq(Positions) /\ Append(One(i), path[i + 1]) = One(i + 1)
      /\ One(m + 1) = path
  <2>1. /\ SubSeq(path, 1, 0) = << >> /\ SubSeq(path, 1, Len(path)) = path
        /\ \A i \in 0..(Len(path) - 1) :
              /\ SubSeq(path, 1, i) \in Seq(Positions)
              /\ Append(SubSeq(path, 1, i), path[i + 1]) = SubSeq(path, 1, i + 1)
    BY <1>1, FirstOnesOn
  <2> QED
    BY <2>1, <1>1
<1>4. Len(w.commands) \in Nat
  BY DEF Writers
<1>5. WritePath(w, path, closed) = IF closed THEN WriteCommand(drawn, ClosePath, 1) ELSE drawn
  BY DEF WritePath, Drawn
<1> HIDE DEF start, moved, line, points, drawn, m, One
<1>6. /\ start \in Writers /\ At(start, 2, Append(paths, << >>))
      /\ Len(start.commands) = Len(w.commands) + 1
  BY ReadCommands DEF start
<1>7. /\ moved \in Writers /\ At(moved, 0, Append(paths, One(1)))
      /\ Len(moved.commands) = Len(w.commands) + 3
  <2>1. << >> \in Seq(Positions) /\ 1 \in Nat \ {0} /\ 2 * 1 = 2 /\ 2 * (1 - 1) = 0
    OBVIOUS
  <2>2. At(start, 2 * 1, Append(paths, << >>)) /\ path[1] \in Positions
    BY <1>1, <1>6, <2>1
  <2>3. /\ moved \in Writers /\ At(moved, 2 * (1 - 1), Append(paths, Append(<< >>, path[1])))
        /\ Len(moved.commands) = Len(start.commands) + 2
    BY ONLY <1>6, <2>1, <2>2, ReadPoint, paths \in Seq(Seq(Positions)) DEF moved
  <2>4. Append(<< >>, path[1]) = One(1)
    <3>1. 0 \in 0..m /\ 0 + 1 = 1
      BY <1>1
    <3> QED
      BY ONLY <1>3, <3>1
  <2> QED
    BY ONLY <1>4, <1>6, <2>1, <2>3, <2>4
<1>8. /\ line \in Writers /\ At(line, 2 * m, Append(paths, One(1)))
      /\ Len(line.commands) = Len(w.commands) + 4
  <2>1. /\ line \in Writers /\ At(line, 2 * m, Append(paths, One(1)))
        /\ Len(line.commands) = Len(moved.commands) + 1
    BY ONLY <1>1, <1>7, ReadCommands DEF line
  <2> QED
    BY <2>1, <1>4, <1>7
<1>9. PICK f \in [0..m -> Writers] :
         /\ f[0] = line /\ drawn = f[m]
         /\ \A i \in 1..m : f[i] = WritePoint(f[i - 1], points[i])
  <2>1. line \in Writers /\ m \in Nat
    BY <1>1, <1>8
  <2>2. DOMAIN points = 1..m /\ \A i \in 1..m : points[i] \in Positions
    BY <1>2
  <2>3. PICK f : PointsDrawn(f, line, m, points)
    BY ONLY <2>1, <2>2, DrawnIs
  <2> QED
    BY ONLY <2>3 DEF drawn, PointsDrawn
<1> DEFINE Ok(i) == /\ At(f[i], 2 * (m - i), Append(paths, One(i + 1)))
                    /\ Len(f[i].commands) = Len(w.commands) + 4 + 2 * i
           P == {i \in Nat : i <= m => Ok(i)}
<1>10. 0 \in P
  <2>1. m - 0 = m /\ 0 + 1 = 1
    BY <1>1
  <2>2. Len(w.commands) + 4 + 2 * 0 = Len(w.commands) + 4
    BY ONLY <1>4
  <2>3. f[0] = line
    BY ONLY <1>9
  <2>4. At(f[0], 2 * (m - 0), Append(paths, One(0 + 1)))
    BY ONLY <2>1, <2>3, <1>8
  <2>5. Len(f[0].commands) = Len(w.commands) + 4 + 2 * 0
    BY ONLY <2>2, <2>3, <1>8
  <2>6. Ok(0)
    BY ONLY <2>4, <2>5
  <2> QED
    BY ONLY <2>6
<1>11. ASSUME NEW i \in P, i + 1 <= m PROVE Ok(i + 1)
  <2>0. i \in Nat /\ i <= m
    <3> HIDE DEF Ok
    <3>1. i \in Nat
      BY DEF P
    <3> QED
      BY <3>1, <1>11, <1>1
  <2>9. Ok(i)
    <3> HIDE DEF Ok
    <3> QED
      BY <2>0 DEF P
  <2>1. /\ i \in Nat /\ i + 1 \in 1..m /\ i + 1 - 1 = i /\ i \in 0..m /\ i + 1 \in 0..m
        /\ m - i \in Nat \ {0} /\ m - i - 1 = m - (i + 1)
    BY ONLY <2>0, <1>11, <1>1
  <2>2. /\ f[i] \in Writers /\ f[i + 1] = WritePoint(f[i], points[i + 1])
        /\ points[i + 1] = path[i + 1 + 1] /\ points[i + 1] \in Positions
    <3>1. f[i] \in Writers
      BY ONLY <1>9, <2>1
    <3>2. f[i + 1] = WritePoint(f[i + 1 - 1], points[i + 1])
      BY ONLY <1>9, <2>1
    <3>3. points[i + 1] = path[i + 1 + 1] /\ points[i + 1] \in Positions
      BY ONLY <1>2, <2>1
    <3>4. i + 1 - 1 = i
      BY ONLY <2>1
    <3> QED
      BY ONLY <3>1, <3>2, <3>3, <3>4
  <2>3. One(i + 1) \in Seq(Positions) /\ Append(One(i + 1), points[i + 1]) = One(i + 1 + 1)
    BY ONLY <1>3, <2>1, <2>2
  <2> DEFINE k == m - i
             new == WritePoint(f[i], points[i + 1])
  <2>4. k \in Nat \ {0} /\ At(f[i], 2 * k, Append(paths, One(i + 1)))
    BY ONLY <2>1, <2>9
  <2> HIDE DEF k
  <2>5. /\ At(new, 2 * (k - 1), Append(paths, Append(One(i + 1), points[i + 1])))
        /\ Len(new.commands) = Len(f[i].commands) + 2
    BY ONLY <2>2, <2>3, <2>4, ReadPoint, paths \in Seq(Seq(Positions))
  <2> HIDE DEF new
  <2>6. At(f[i + 1], 2 * (m - (i + 1)), Append(paths, One(i + 1 + 1)))
    <3>1. k - 1 = m - (i + 1)
      BY ONLY <2>1 DEF k
    <3> QED
      BY ONLY <2>2, <2>3, <2>5, <3>1 DEF new
  <2>7. Len(f[i + 1].commands) = Len(w.commands) + 4 + 2 * (i + 1)
    <3>1. Len(f[i].commands) = Len(w.commands) + 4 + 2 * i /\ f[i + 1] = new
      BY ONLY <2>9, <2>2 DEF new
    <3>0. \A a, b \in Nat : a + 4 + 2 * b + 2 = a + 4 + 2 * (b + 1)
      BY ONLY TRUE
    <3>2. Len(w.commands) + 4 + 2 * i + 2 = Len(w.commands) + 4 + 2 * (i + 1)
      <4>1. i \in Nat
        BY ONLY <2>0
      <4> QED
        BY ONLY <1>4, <3>0, <4>1
    <3>3. Len(f[i + 1].commands) = Len(f[i].commands) + 2
      BY ONLY <2>5, <3>1
    <3> QED
      BY ONLY <3>1, <3>2, <3>3
  <2> QED
    BY ONLY <2>6, <2>7
<1>12. m \in P
  <2>1. P \in SUBSET Nat
    OBVIOUS
  <2>2. \A i \in P : i + 1 \in P
    <3> HIDE DEF Ok
    <3> QED
      BY <1>11
  <2> HIDE DEF P
  <2> QED
    BY ONLY <1>1, <1>10, <2>1, <2>2, Inductive
<1>13. /\ drawn \in Writers /\ At(drawn, 0, Append(paths, path))
       /\ Len(drawn.commands) = Len(w.commands) + 4 + 2 * m
  <2>1. Ok(m)
    <3> HIDE DEF Ok
    <3> QED
      BY <1>1, <1>12
  <2>2. 2 * (m - m) = 0 /\ m \in 0..m
    BY <1>1
  <2> QED
    BY ONLY <1>3, <1>9, <2>1, <2>2
<1>14. PathSize(Len(path), closed) = 4 + 2 * m + (IF closed THEN 1 ELSE 0)
  BY <1>1 DEF PathSize, m
<1> DEFINE written == WriteCommand(drawn, ClosePath, 1)
<1>17. m \in Nat /\ Len(w.commands) + 4 + 2 * m = Len(w.commands) + (4 + 2 * m)
       /\ Len(w.commands) + 4 + 2 * m + 1 = Len(w.commands) + (4 + 2 * m + 1)
       /\ 4 + 2 * m + 0 = 4 + 2 * m
  BY ONLY <1>1, <1>4
<1> HIDE DEF written
<1>15. CASE closed
  <2>1. /\ written \in Writers /\ At(written, 0, Append(paths, path))
        /\ Len(written.commands) = Len(drawn.commands) + 1
    BY ONLY <1>13, ReadCommands DEF written
  <2>2. WritePath(w, path, closed) = written /\ PathSize(Len(path), closed) = 4 + 2 * m + 1
    BY ONLY <1>5, <1>14, <1>15 DEF written
  <2> QED
    BY ONLY <1>13, <1>17, <2>1, <2>2
<1>16. CASE ~closed
  <2>1. WritePath(w, path, closed) = drawn /\ PathSize(Len(path), closed) = 4 + 2 * m
    BY ONLY <1>5, <1>14, <1>16, <1>17
  <2> QED
    BY ONLY <1>13, <1>17, <2>1
<1> QED
  BY <1>15, <1>16

Written(paths, closed) ==
    FoldLeft(LAMBDA w, path : WritePath(w, path, closed), NewWriter, paths)

\* A path is written to a writer.
LEMMA WritePathIs ==
  ASSUME NEW w \in Writers, NEW path \in Paths, NEW closed \in BOOLEAN
  PROVE  WritePath(w, path, closed) \in Writers
<1>1. \A v \in Writers, id \in {MoveTo, LineTo, ClosePath}, count \in Nat :
         WriteCommand(v, id, count) \in Writers
  <2> SUFFICES ASSUME NEW v \in Writers, NEW id \in {MoveTo, LineTo, ClosePath}, NEW count \in Nat
               PROVE  WriteCommand(v, id, count) \in Writers
    OBVIOUS
  <2>1. CommandInteger(id, count) \in Nat
    BY DEF CommandInteger, MoveTo, LineTo, ClosePath
  <2>2. Append(v.commands, CommandInteger(id, count)) \in Seq(Nat)
    BY <2>1 DEF Writers
  <2> QED
    BY <2>2 DEF WriteCommand, Writers
<1> DEFINE moved == WritePoint(WriteCommand(w, MoveTo, 1), path[1])
           m == Len(path) - 1
           line == WriteCommand(moved, LineTo, m)
           points == Tail(path)
           drawn == Drawn(line, points)
<1>2. /\ path \in Seq(Positions) /\ path # << >> /\ path[1] \in Positions /\ m \in Nat
      /\ DOMAIN points = 1..m /\ \A i \in 1..m : points[i] \in Positions
  BY HeadTailProperties DEF Paths
<1>3. moved \in Writers
  BY <1>1, <1>2, WritePointIs
<1>4. line \in Writers
  BY <1>1, <1>2, <1>3
<1>5. WritePath(w, path, closed) = IF closed THEN WriteCommand(drawn, ClosePath, 1) ELSE drawn
  BY DEF WritePath, Drawn
<1> HIDE DEF moved, m, line, points
<1>6. drawn \in Writers
  <2>1. PICK f \in [0..m -> Writers] : drawn = f[m]
    BY ONLY <1>2, <1>4, WritePointFold
  <2> QED
    BY <2>1, <1>2
<1> QED
  BY <1>1, <1>5, <1>6

\* The paths of a geometry.
LEMMA WritePathFold ==
  ASSUME NEW closed \in BOOLEAN,
         NEW n \in Nat, NEW s, DOMAIN s = 1..n, \A i \in 1..n : s[i] \in Paths
  PROVE  \E f \in [0..n -> Writers] :
            /\ f[0] = NewWriter /\ Written(s, closed) = f[n]
            /\ \A i \in 1..n : f[i] = WritePath(f[i - 1], s[i], closed)
<1> DEFINE step == [p \in Writers \X (1..n) |-> WritePath(p[1], s[p[2]], closed)]
           Folds(h) == h = [t \in SUBSET (1..n) |->
                              IF t = {} THEN NewWriter
                              ELSE WritePath(h[t \ {Max(t)}], s[Max(t)], closed)]
           F == CHOOSE h : Folds(h)
           f == [i \in 0..n |-> F[1..i]]
<1>1. ASSUME NEW a \in Writers, NEW i \in 1..n PROVE WritePath(a, s[i], closed) \in Writers
  BY WritePathIs
<1>2. /\ step \in StepsIn(Writers, n)
      /\ \A a \in Writers, i \in 1..n : step[<<a, i>>] = WritePath(a, s[i], closed)
  BY <1>1 DEF StepsIn
<1> HIDE DEF step
<1>a. NewWriter \in Writers
  BY DEF NewWriter, Writers, Positions
<1>3. PICK g : Table(g, Writers, NewWriter, step, n)
  BY ONLY <1>2, <1>a, TableExists, n \in Nat
<1>4. Folds(g)
  <2>1. /\ g \in [SUBSET (1..n) -> Writers]
        /\ \A t \in SUBSET (1..n) :
              g[t] = IF t = {} THEN NewWriter ELSE step[<<g[t \ {Max(t)}], Max(t)>>]
    BY <1>3 DEF Table
  <2>2. ASSUME NEW t \in SUBSET (1..n), t # {}
        PROVE  g[t] = WritePath(g[t \ {Max(t)}], s[Max(t)], closed)
    <3>1. Max(t) \in 1..n /\ t \ {Max(t)} \in SUBSET (1..n)
      BY <2>2, Greatests
    <3>2. g[t \ {Max(t)}] \in Writers
      BY ONLY <2>1, <3>1
    <3> QED
      BY ONLY <1>2, <2>1, <2>2, <3>1, <3>2
  <2> QED
    BY ONLY <2>1, <2>2
<1>5. Folds(F)
  <2> HIDE DEF Folds
  <2> QED
    BY ONLY <1>4
<1>6. Written(s, closed) = F[1..n]
  BY DEF Written, FoldLeft, MapThenFoldSet
<1> HIDE DEF F
<1>7. 1..0 = {} /\ {} \in SUBSET (1..n) /\ 0 \in 0..n /\ n \in 0..n
  OBVIOUS
<1>8. f[0] = NewWriter /\ f[n] = F[1..n]
  BY ONLY <1>5, <1>7
<1>9. ASSUME NEW i \in 1..n PROVE f[i] = WritePath(f[i - 1], s[i], closed)
  <2>1. /\ 1..i \in SUBSET (1..n) /\ 1..i # {} /\ i - 1 \in 0..n /\ i \in 0..n
        /\ Max(1..i) = i /\ (1..i) \ {i} = 1..(i - 1)
    BY ONLY FirstOnes, n \in Nat, i \in 1..n
  <2> QED
    BY ONLY <1>5, <2>1
<1> HIDE DEF f
<1> DEFINE P == {i \in Nat : i <= n => f[i] \in Writers}
<1>10. 0 \in P
  BY ONLY <1>8, <1>a
<1>11. ASSUME NEW i \in P, i + 1 <= n PROVE f[i + 1] \in Writers
  <2>1. i + 1 \in 1..n /\ i + 1 - 1 = i /\ f[i] \in Writers
    BY <1>11
  <2> QED
    BY ONLY <1>1, <1>9, <2>1
<1>12. \A i \in Nat : i \in P
  <2>1. P \in SUBSET Nat /\ \A i \in P : i + 1 \in P
    BY <1>11
  <2> HIDE DEF P
  <2> QED
    BY <1>10, <2>1, Inductive
<1>13. f \in [0..n -> Writers]
  <2>1. f = [i \in 0..n |-> f[i]]
    BY DEF f
  <2>2. \A i \in 0..n : f[i] \in Writers
    BY <1>12
  <2> QED
    BY ONLY <2>1, <2>2
<1> QED
  BY ONLY <1>6, <1>8, <1>9, <1>13

PathsWritten(f, n, s, closed) ==
    /\ f \in [0..n -> Writers] /\ f[0] = NewWriter /\ Written(s, closed) = f[n]
    /\ \A i \in 1..n : f[i] = WritePath(f[i - 1], s[i], closed)

\* The paths of a geometry, as a table of the writers.
LEMMA WrittenIs ==
  ASSUME NEW closed \in BOOLEAN, NEW n \in Nat, NEW s, DOMAIN s = 1..n,
         \A i \in 1..n : s[i] \in Paths
  PROVE  \E f : PathsWritten(f, n, s, closed)
<1>1. PICK f \in [0..n -> Writers] :
         /\ f[0] = NewWriter /\ Written(s, closed) = f[n]
         /\ \A i \in 1..n : f[i] = WritePath(f[i - 1], s[i], closed)
  BY WritePathFold
<1>2. PathsWritten(f, n, s, closed)
  BY ONLY <1>1 DEF PathsWritten
<1> QED
  BY ONLY <1>2

\* GeometryEncoder.cs: for all paths, lines or rings, what is encoded is decoded by a
\* reader of the specification, and the array for it has the length that was counted.
THEOREM RoundTrip ==
  ASSUME NEW paths \in Seq(Paths), NEW closed \in BOOLEAN
  PROVE  /\ Decode(EncodePaths(paths, closed)) = paths
         /\ EncodePaths(paths, closed) \in Seq(Nat)
         /\ Len(EncodePaths(paths, closed))
                = Total([k \in 1..Len(paths) |-> PathSize(Len(paths[k]), closed)])
<1> DEFINE n == Len(paths)
           sizes == [k \in 1..n |-> PathSize(Len(paths[k]), closed)]
           One(i) == SubSeq(paths, 1, i)
<1>1. /\ n \in Nat /\ DOMAIN paths = 1..n /\ \A i \in 1..n : paths[i] \in Paths
      /\ DOMAIN sizes = 1..n /\ paths \in Seq(Seq(Positions))
  <2>1. Paths \subseteq Seq(Positions)
    BY DEF Paths
  <2> QED
    BY <2>1
<1>2. \A i \in 1..n : sizes[i] = PathSize(Len(paths[i]), closed) /\ sizes[i] \in Nat
  <2>1. \A path \in Paths : Len(path) \in Nat \ {0}
    BY DEF Paths
  <2>2. \A k \in Nat \ {0} : PathSize(k, closed) \in Nat
    BY DEF PathSize
  <2> QED
    BY <1>1, <2>1, <2>2
<1>3. /\ One(0) = << >> /\ One(n) = paths
      /\ \A i \in 0..(n - 1) : /\ One(i) \in Seq(Seq(Positions))
                               /\ Append(One(i), paths[i + 1]) = One(i + 1)
  BY <1>1, FirstOnesOn
<1>4. PICK f \in [0..n -> Writers] :
         /\ f[0] = NewWriter /\ Written(paths, closed) = f[n]
         /\ \A i \in 1..n : f[i] = WritePath(f[i - 1], paths[i], closed)
  <2>1. n \in Nat /\ DOMAIN paths = 1..n /\ \A i \in 1..n : paths[i] \in Paths
    BY <1>1
  <2> HIDE DEF n
  <2>2. PICK f : PathsWritten(f, n, paths, closed)
    BY ONLY <2>1, WrittenIs, closed \in BOOLEAN
  <2> QED
    BY ONLY <2>2 DEF PathsWritten
<1> HIDE DEF n, sizes, One
<1>5. PICK t : /\ t[0] = 0 /\ Total(sizes) = t[n]
               /\ \A i \in 1..n : t[i] = t[i - 1] + sizes[i]
  BY ONLY <1>1, TotalFold
<1> DEFINE Ok(i) == At(f[i], 0, One(i)) /\ t[i] \in Nat /\ Len(f[i].commands) = t[i]
           P == {i \in Nat : i <= n => Ok(i)}
<1>6. 0 \in P
  <2>1. NewWriter.commands = << >> /\ NewWriter.cursor = <<0, 0>> /\ Len(<< >>) = 0
        /\ NewReader = [left |-> 0, cursor |-> <<0, 0>>, paths |-> << >>]
    BY DEF NewWriter, NewReader
  <2>2. At(NewWriter, 0, << >>)
    BY ONLY <2>1, ReadNone DEF At
  <2>3. Ok(0)
    BY ONLY <1>3, <1>4, <1>5, <2>1, <2>2
  <2> QED
    BY ONLY <2>3
<1>7. ASSUME NEW i \in P, i + 1 <= n PROVE Ok(i + 1)
  <2>1. i \in Nat /\ i + 1 \in 1..n /\ i + 1 - 1 = i /\ i \in 0..(n - 1) /\ i \in 0..n /\ Ok(i)
    BY <1>7, <1>1
  <2>2. /\ f[i] \in Writers /\ f[i + 1] = WritePath(f[i], paths[i + 1], closed)
        /\ t[i + 1] = t[i] + sizes[i + 1] /\ paths[i + 1] \in Paths
        /\ sizes[i + 1] = PathSize(Len(paths[i + 1]), closed) /\ sizes[i + 1] \in Nat
        /\ One(i) \in Seq(Seq(Positions)) /\ Append(One(i), paths[i + 1]) = One(i + 1)
    <3>1. f[i] \in Writers
      BY ONLY <1>4, <2>1
    <3>2. f[i + 1] = WritePath(f[i + 1 - 1], paths[i + 1], closed)
      BY ONLY <1>4, <2>1
    <3>3. t[i + 1] = t[i + 1 - 1] + sizes[i + 1]
      BY ONLY <1>5, <2>1
    <3>4. paths[i + 1] \in Paths
      BY ONLY <1>1, <2>1
    <3>5. sizes[i + 1] = PathSize(Len(paths[i + 1]), closed) /\ sizes[i + 1] \in Nat
      BY ONLY <1>2, <2>1
    <3>6. One(i) \in Seq(Seq(Positions)) /\ Append(One(i), paths[i + 1]) = One(i + 1)
      BY ONLY <1>3, <2>1
    <3>7. i + 1 - 1 = i
      BY ONLY <2>1
    <3> QED
      BY ONLY <3>1, <3>2, <3>3, <3>4, <3>5, <3>6, <3>7
  <2> DEFINE new == WritePath(f[i], paths[i + 1], closed)
  <2>3. /\ At(new, 0, Append(One(i), paths[i + 1]))
        /\ Len(new.commands) = Len(f[i].commands) + PathSize(Len(paths[i + 1]), closed)
    BY ONLY <2>1, <2>2, ReadPath, closed \in BOOLEAN
  <2> HIDE DEF new
  <2> QED
    BY ONLY <2>1, <2>2, <2>3 DEF new
<1>8. n \in P
  <2>1. P \in SUBSET Nat
    OBVIOUS
  <2>2. \A i \in P : i + 1 \in P
    <3> HIDE DEF Ok
    <3> QED
      BY <1>7
  <2> HIDE DEF P
  <2> QED
    BY ONLY <1>1, <1>6, <2>1, <2>2, Inductive
<1>9. Ok(n) /\ n \in 0..n
  BY <1>1, <1>8
<1>10. EncodePaths(paths, closed) = f[n].commands
  BY <1>4 DEF EncodePaths, Written
<1>11. Decode(f[n].commands) = Read(f[n].commands).paths
  BY DEF Decode, Read
<1>12. Decode(f[n].commands) = paths /\ Len(f[n].commands) = Total(sizes)
       /\ f[n].commands \in Seq(Nat)
  <2>1. Read(f[n].commands).paths = paths
    BY ONLY <1>3, <1>9 DEF At
  <2>2. f[n] \in Writers
    BY ONLY <1>4, <1>9
  <2> QED
    BY ONLY <1>5, <1>9, <1>11, <2>1, <2>2 DEF Writers
<1> QED
  BY ONLY <1>10, <1>12 DEF sizes, n

-----------------------------------------------------------------------------
(* Sizes                                                                   *)

\* A varint has a byte at least, and is as long as it was said to be.
LEMMA Varints ==
  \A value : /\ WriteVarint(value) \in Nat \ {0} /\ VarintSize(value) = WriteVarint(value)
<1> SUFFICES ASSUME NEW value
             PROVE  WriteVarint(value) \in Nat \ {0} /\ VarintSize(value) = WriteVarint(value)
  OBVIOUS
<1> DEFINE T == {k \in 1..3 : value \div 128 ^ (k - 1) >= 128}
<1>1. T \subseteq 1..3 /\ IsFiniteSet(1..3)
  <2>1. IsFiniteSet(1..3)
    BY ONLY FS_Interval, 1 \in Int, 3 \in Int
  <2>2. T \subseteq 1..3
    BY ONLY TRUE
  <2> QED
    BY ONLY <2>1, <2>2
<1>2. WriteVarint(value) = 1 + Cardinality(T) /\ VarintSize(value) = 1 + Cardinality(T)
  BY DEF WriteVarint, VarintSize
<1> HIDE DEF T
<1>3. Cardinality(T) \in Nat
  BY <1>1, FS_Subset, FS_CardinalityType
<1> QED
  BY ONLY <1>2, <1>3

\* The sum of positive sizes is as great as their number.
LEMMA TotalIs ==
  ASSUME NEW n \in Nat, NEW s, DOMAIN s = 1..n, \A i \in 1..n : s[i] \in Nat \ {0}
  PROVE  Total(s) \in Nat /\ Total(s) >= n
<1>1. PICK f : /\ f[0] = 0 /\ Total(s) = f[n]
               /\ \A i \in 1..n : f[i] = f[i - 1] + s[i]
  BY TotalFold
<1> DEFINE P == {i \in Nat : i <= n => f[i] \in Nat /\ f[i] >= i}
<1>2. 0 \in P
  BY <1>1
<1>3. ASSUME NEW i \in P, i + 1 <= n PROVE f[i + 1] \in Nat /\ f[i + 1] >= i + 1
  <2>1. i \in Nat /\ i + 1 \in 1..n /\ i + 1 - 1 = i /\ f[i] \in Nat /\ f[i] >= i
    BY <1>3
  <2>2. f[i + 1] = f[i] + s[i + 1] /\ s[i + 1] \in Nat \ {0}
    BY ONLY <1>1, <2>1, \A k \in 1..n : s[k] \in Nat \ {0}
  <2> QED
    BY ONLY <2>1, <2>2
<1>4. n \in P
  <2>1. P \in SUBSET Nat /\ \A i \in P : i + 1 \in P
    BY <1>3
  <2> HIDE DEF P
  <2> QED
    BY <1>2, <2>1, Inductive
<1> QED
  BY <1>1, <1>4

\* The bytes of integers that are packed.
LEMMA PackedIs ==
  ASSUME NEW s, IsSeq(s)
  PROVE  /\ TagBytes(s) \in Nat /\ PackedSize(s) = TagBytes(s)
         /\ (TagBytes(s) > 0) = (s # << >>)
<1> DEFINE n == Len(s)
           sizes == [i \in 1..n |-> WriteVarint(s[i])]
<1>1. n \in Nat /\ (n = 0) = (s = << >>)
  BY DEF IsSeq
<1>2. DOMAIN sizes = 1..n /\ \A i \in 1..n : sizes[i] \in Nat \ {0}
  BY Varints
<1>3. TagBytes(s) = Total(sizes)
  BY DEF TagBytes
<1>4. [i \in 1..n |-> VarintSize(s[i])] = sizes
  BY Varints
<1>5. PackedSize(s) = Total(sizes)
  BY <1>4 DEF PackedSize
<1> HIDE DEF n, sizes
<1>6. Total(sizes) \in Nat /\ Total(sizes) >= n
  BY ONLY <1>1, <1>2, TotalIs
<1>7. n = 0 => Total(sizes) = 0
  <2>1. PICK f : f[0] = 0 /\ Total(sizes) = f[n]
    BY ONLY <1>1, <1>2, TotalFold
  <2> QED
    BY ONLY <2>1
<1> QED
  BY ONLY <1>1, <1>3, <1>5, <1>6, <1>7

\* A feature has the length it declares.
LEMMA BodyIs ==
  ASSUME NEW id, NEW type, NEW tags, IsSeq(tags), NEW geometry, IsSeq(geometry)
  PROVE  FeatureWritten([id |-> id, type |-> type, tags |-> tags, geometry |-> geometry,
                         body |-> FeatureBody(id, tags, geometry)])
             = FeatureBody(id, tags, geometry)
<1> DEFINE f == [id |-> id, type |-> type, tags |-> tags, geometry |-> geometry,
                 body |-> FeatureBody(id, tags, geometry)]
           i == WriteVarint(id)
           t == TagBytes(tags)
           tl == WriteVarint(t)
           g == PackedSize(geometry)
           gl == WriteVarint(g)
<1>1. i \in Nat /\ t \in Nat /\ tl \in Nat /\ g \in Nat /\ gl \in Nat
      /\ (t > 0) = (tags # << >>)
  BY Varints, PackedIs
<1>2. FeatureBody(id, tags, geometry)
        = 1 + i + 1 + 1 + 1 + gl + g + (IF t > 0 THEN 1 + tl + t ELSE 0)
  BY Varints DEF FeatureBody
<1>3. WritePacked(geometry) = gl + g
  BY PackedIs DEF WritePacked, TagBytes
<1>4. f.id = id /\ f.tags = tags /\ f.geometry = geometry
  OBVIOUS
<1> HIDE DEF f, i, t, tl, g, gl
<1>5. FeatureWritten(f)
        = 1 + i + (IF tags = << >> THEN 0 ELSE 1 + tl + t) + 1 + 1 + 1 + (gl + g)
  BY ONLY <1>3, <1>4 DEF FeatureWritten, i, t, tl
<1>6. FeatureWritten(f) = FeatureBody(id, tags, geometry)
  <2>1. CASE tags = << >>
    BY ONLY <2>1, <1>1, <1>2, <1>5
  <2>2. CASE tags # << >>
    BY ONLY <2>2, <1>1, <1>2, <1>5
  <2> QED
    BY <2>1, <2>2
<1> QED
  BY <1>6 DEF f

\* A value has the length it declares.
LEMMA ValueIs ==
  ASSUME NEW value \in StoredValues
  PROVE  ValueBody(value[1], value[2]) = ValueWritten(value[1], value[2])
<1>1. \A s \in Strings : ByteCount[s] \in Nat
  BY SourceAssumption
<1>2. CASE value \in {"string"} \X Strings
  <2>1. value[1] = "string" /\ ByteCount[value[2]] \in Nat
        /\ WriteVarint(ByteCount[value[2]]) \in Nat
    BY <1>1, <1>2, Varints
  <2>2. ValueBody("string", value[2])
          = 1 + WriteVarint(ByteCount[value[2]]) + ByteCount[value[2]]
    BY Varints DEF ValueBody
  <2>3. ValueWritten("string", value[2])
          = 1 + (WriteVarint(ByteCount[value[2]]) + ByteCount[value[2]])
    BY DEF ValueWritten, WriteString
  <2> QED
    BY ONLY <2>1, <2>2, <2>3
<1>3. CASE value \in (Stored \ {"string"}) \X Data
  <2>1. value[1] \in {"int", "double", "float", "bool", "uint"}
    BY <1>3 DEF Stored
  <2> QED
    BY <2>1, Varints DEF ValueBody, ValueWritten
<1> QED
  BY <1>2, <1>3 DEF StoredValues

\* So has a layer, in Build's buffers and in its frame.
LEMMA FrameIs ==
  ASSUME NEW layer, layer.name \in Strings
  PROVE  /\ BodySize(layer) = LayerWritten(layer)
         /\ FramedSize(layer) = 1 + WriteVarint(BodySize(layer)) + LayerWritten(layer)
<1> DEFINE b == ByteCount[layer.name]
           l == WriteVarint(b)
           e == WriteVarint(Extent)
           f == FeaturesCount(layer)
           k == KeysCount(layer)
           v == ValuesCount(layer)
<1>1. b \in Nat /\ l \in Nat
  BY SourceAssumption, Varints
<1>2. BodySize(layer) = 1 + l + b + f + k + v + 1 + e + 1 + 1
  BY Varints DEF BodySize
<1>3. LayerWritten(layer) = 1 + (l + b) + f + k + v + 1 + e + 1 + 1
  BY DEF LayerWritten, WriteString
<1> HIDE DEF b, l, e, f, k, v
<1>4. 1 + l + b = 1 + (l + b)
  BY ONLY <1>1
<1>5. BodySize(layer) = LayerWritten(layer)
  BY ONLY <1>2, <1>3, <1>4
<1>6. FramedSize(layer) = 1 + WriteVarint(BodySize(layer)) + BodySize(layer)
  BY Varints DEF FramedSize
<1> QED
  BY ONLY <1>5, <1>6

\* A feature is of the length it declares, and a geometry that is not a point's is
\* the commands of some paths.
FeatureOk(f) ==
    /\ f.body = FeatureWritten(f)
    /\ f.type # "Point" =>
          \E paths \in Seq(Paths) : f.geometry = EncodePaths(paths, f.type = "Polygon")

FeaturesOk(layer) ==
    /\ layer.name \in Strings
    /\ \A i \in 1..Len(layer.features) : FeatureOk(layer.features[i])

\* AddFeature adds such a feature, if any.
LEMMA AddFeatureOk ==
  ASSUME NEW layer, LayerOk(layer), FeaturesOk(layer), NEW type, NEW id,
         NEW geometry \in Seq(Nat),
         type # "Point" =>
            \E paths \in Seq(Paths) : geometry = EncodePaths(paths, type = "Polygon"),
         NEW attributes \in Seq(Pairs)
  PROVE  FeaturesOk(AddFeature(layer, type, id, geometry, attributes))
<1> DEFINE new == AddFeature(layer, type, id, geometry, attributes)
           written == WriteTags(layer, attributes)
           tagged == [layer EXCEPT !.tags = written.tags, !.tagScratch = written.scratch]
           featureId == IF id = Null THEN layer.nextId ELSE id
           f == [id |-> featureId, type |-> type, tags |-> written.scratch,
                 geometry |-> geometry,
                 body |-> FeatureBody(featureId, written.scratch, geometry)]
<1>1. /\ DOMAIN layer = {"name", "tags", "features", "tagScratch", "nextId"}
      /\ layer.tags \in Encoders /\ Placed(layer.tags) /\ IsSeq(layer.features)
  BY DEF LayerOk
<1>2. IsSeq(written.scratch) /\ IsSeq(geometry)
  <2>1. written \in Writings
    BY <1>1, WriteTagsReads
  <2> HIDE DEF written
  <2>2. written.scratch \in Seq(Nat)
    BY ONLY <2>1 DEF Writings
  <2> QED
    BY <2>2 DEF IsSeq
<1>3. new = IF written.threw THEN tagged
            ELSE [tagged EXCEPT !.features = Append(@, f),
                                !.nextId = IF id = Null THEN @ + 1 ELSE @]
  BY DEF AddFeature
<1>4. FeatureOk(f)
  <2>1. f.body = FeatureBody(featureId, written.scratch, geometry)
        /\ f.type = type /\ f.geometry = geometry
    OBVIOUS
  <2>2. f.body = FeatureWritten(f)
    <3> HIDE DEF written, featureId
    <3>1. FeatureWritten([id |-> featureId, type |-> type, tags |-> written.scratch,
                          geometry |-> geometry,
                          body |-> FeatureBody(featureId, written.scratch, geometry)])
             = FeatureBody(featureId, written.scratch, geometry)
      BY ONLY <1>2, BodyIs
    <3> QED
      BY ONLY <2>1, <3>1 DEF f
  <2>3. f.type # "Point" =>
           \E paths \in Seq(Paths) : f.geometry = EncodePaths(paths, f.type = "Polygon")
    <3> HIDE DEF f
    <3> QED
      BY <2>1
  <2> HIDE DEF f
  <2> QED
    BY ONLY <2>2, <2>3 DEF FeatureOk
<1> HIDE DEF new, written, f
<1>5. /\ DOMAIN tagged = DOMAIN layer /\ tagged.name = layer.name
      /\ tagged.features = layer.features
  BY <1>1
<1> HIDE DEF tagged
<1>6. new.name = layer.name /\ new.features \in {layer.features, Append(layer.features, f)}
  <2>1. CASE written.threw
    BY <2>1, <1>3, <1>5
  <2>2. CASE ~written.threw
    <3>1. new = [tagged EXCEPT !.features = Append(@, f),
                               !.nextId = IF id = Null THEN @ + 1 ELSE @]
      BY <2>2, <1>3
    <3> QED
      BY ONLY <3>1, <1>1, <1>5
  <2> QED
    BY <2>1, <2>2
<1>7. \A i \in 1..Len(new.features) : FeatureOk(new.features[i])
  <2>1. \A i \in 1..Len(layer.features) : FeatureOk(layer.features[i])
    BY DEF FeaturesOk
  <2>2. CASE new.features = layer.features
    BY ONLY <2>1, <2>2
  <2>3. CASE new.features = Append(layer.features, f)
    <3>1. /\ Len(layer.features) \in Nat /\ Len(new.features) = Len(layer.features) + 1
          /\ new.features[Len(layer.features) + 1] = f
          /\ \A i \in 1..Len(layer.features) : new.features[i] = layer.features[i]
      BY ONLY <2>3, <1>1, AppendParts
    <3> QED
      BY ONLY <2>1, <3>1, <1>4
  <2> QED
    BY <1>6, <2>2, <2>3
<1> QED
  BY <1>6, <1>7 DEF FeaturesOk, new

\* The layers of a tile, and their features.
SizeInv == TagInv /\ \A name \in DOMAIN layers : FeaturesOk(layers[name])

\* The geometries of the Add methods.
LEMMA EncodedAre ==
  ASSUME NEW shape, shape.paths \in Seq(Seq(Positions)), shape.paths # << >>
  PROVE  /\ LET g == PointGeometry(shape.paths[1][1])
            IN  shape.paths[1] # << >> => g \in Seq(Nat)
         /\ LET g == LineGeometry(shape.paths[1])
            IN  g # << >> => /\ g \in Seq(Nat)
                             /\ \E paths \in Seq(Paths) : g = EncodePaths(paths, FALSE)
         /\ LET g == PolygonGeometry(shape.paths)
            IN  g # << >> => /\ g \in Seq(Nat)
                             /\ \E paths \in Seq(Paths) : g = EncodePaths(paths, TRUE)
<1>1. shape.paths[1] \in Seq(Positions)
  OBVIOUS
<1>2. ASSUME shape.paths[1] # << >> PROVE PointGeometry(shape.paths[1][1]) \in Seq(Nat)
  <2> DEFINE p == Rounded(Unrounded(shape.paths[1][1]))
  <2>1. p \in Positions
    BY <1>1, <1>2, ProjectedIs
  <2> HIDE DEF p
  <2>2. NewWriter \in Writers /\ CommandInteger(MoveTo, 1) \in Nat
    BY DEF NewWriter, Writers, Positions, CommandInteger, MoveTo
  <2>3. WriteCommand(NewWriter, MoveTo, 1) \in Writers
    <3>1. Append(NewWriter.commands, CommandInteger(MoveTo, 1)) \in Seq(Nat)
      BY <2>2 DEF Writers
    <3> QED
      BY <2>2, <3>1 DEF WriteCommand, Writers
  <2>4. WritePoint(WriteCommand(NewWriter, MoveTo, 1), p) \in Writers
    BY ONLY <2>1, <2>3, WritePointIs
  <2>5. EncodePoint(p) \in Seq(Nat) /\ << >> \in Seq(Nat)
    BY <2>4 DEF EncodePoint, Writers
  <2> QED
    BY <2>5 DEF PointGeometry, p
<1>3. \A paths \in Seq(Paths) : \A closed \in BOOLEAN : EncodePaths(paths, closed) \in Seq(Nat)
  BY RoundTrip
<1>4. LineGeometry(shape.paths[1]) # << >>
         => \E paths \in Seq(Paths) : LineGeometry(shape.paths[1]) = EncodePaths(paths, FALSE)
  BY ONLY <1>1, GeometriesAre
<1>5. PolygonGeometry(shape.paths) # << >>
         => \E paths \in Seq(Paths) : PolygonGeometry(shape.paths) = EncodePaths(paths, TRUE)
  BY ONLY GeometriesAre, shape.paths \in Seq(Seq(Positions)), shape.paths # << >>
<1> QED
  BY <1>2, <1>3, <1>4, <1>5

\* A call of an Add method.
LEMMA AddSizes ==
  ASSUME SizeInv, TagInv', NEW name \in DOMAIN layers, NEW shape, NEW geometry,
         NEW attributes \in Seq(Pairs), NEW id,
         geometry # << >> =>
            /\ geometry \in Seq(Nat)
            /\ shape.type # "Point" =>
                  \E paths \in Seq(Paths) : geometry = EncodePaths(paths, shape.type = "Polygon"),
         Add(name, shape, geometry, attributes, id)
  PROVE  SizeInv'
<1> DEFINE new == AddFeature(layers[name], shape.type, id, geometry, attributes)
<1>1. layers' = IF geometry = << >> THEN layers ELSE [layers EXCEPT ![name] = new]
  BY DEF Add
<1>2. CASE geometry = << >>
  BY <1>1, <1>2 DEF SizeInv
<1>3. CASE geometry # << >>
  <2>1. LayerOk(layers[name]) /\ FeaturesOk(layers[name])
    BY DEF SizeInv, TagInv
  <2>2. FeaturesOk(new)
    BY <1>3, <2>1, AddFeatureOk
  <2> HIDE DEF new
  <2>3. /\ DOMAIN layers' = DOMAIN layers /\ layers'[name] = new
        /\ \A other \in DOMAIN layers : other # name => layers'[other] = layers[other]
    BY <1>1, <1>3
  <2>4. \A other \in DOMAIN layers' : FeaturesOk(layers'[other])
    BY <2>2, <2>3 DEF SizeInv
  <2> QED
    BY <2>4 DEF SizeInv
<1> QED
  BY <1>2, <1>3

\* The invariant holds of an empty tile.
LEMMA SizeInvInit == Init => SizeInv
BY TagInvInit DEF Init, SizeInv

\* And after every call.
LEMMA SizeInvNext == SizeInv /\ [Next]_vars => SizeInv'
<1> SUFFICES ASSUME SizeInv, [Next]_vars PROVE SizeInv'
  OBVIOUS
<1>0. TagInv'
  BY TagInvNext DEF SizeInv
<1>1. CASE UNCHANGED vars
  BY <1>0, <1>1 DEF vars, SizeInv
<1>2. ASSUME NEW name \in source.names, Layer(name) PROVE SizeInv'
  <2>1. name \in Strings
    BY SourceAssumption DEF SizeInv, TagInv
  <2>2. layers' = MapAdd(layers, name, NewLayer(name)) /\ name \notin DOMAIN layers
    BY <1>2 DEF Layer
  <2>3. NewLayer(name).name = name /\ NewLayer(name).features = << >>
    BY DEF NewLayer
  <2>4. FeaturesOk(NewLayer(name))
    BY <2>1, <2>3 DEF FeaturesOk
  <2>5. /\ DOMAIN layers' = DOMAIN layers \cup {name} /\ layers'[name] = NewLayer(name)
        /\ \A other \in DOMAIN layers : layers'[other] = layers[other]
    BY <2>2 DEF MapAdd
  <2>6. \A other \in DOMAIN layers' : FeaturesOk(layers'[other])
    BY <2>4, <2>5 DEF SizeInv
  <2> QED
    BY <1>0, <2>6 DEF SizeInv
<1>3. ASSUME NEW name \in DOMAIN layers, NEW shape \in source.shapes,
             NEW attributes \in source.attributes, NEW id \in source.ids,
             \/ AddPoint(name, shape, attributes, id)
             \/ AddLineString(name, shape, attributes, id)
             \/ AddPolygon(name, shape, attributes, id)
      PROVE  SizeInv'
  <2>1. /\ attributes \in Seq(Pairs)
        /\ shape.paths \in Seq(Seq(Positions)) /\ shape.paths # << >>
        /\ shape.type = "Point" => shape.paths[1] # << >>
    BY SourceAssumption DEF SizeInv, TagInv, Positions
  <2>2. CASE AddPoint(name, shape, attributes, id)
    <3> DEFINE g == PointGeometry(shape.paths[1][1])
    <3>1. shape.type = "Point" /\ Add(name, shape, g, attributes, id)
      BY <2>2 DEF AddPoint
    <3>2. g \in Seq(Nat)
      BY ONLY <2>1, <3>1, EncodedAre
    <3> HIDE DEF g
    <3> QED
      BY <1>0, <2>1, <3>1, <3>2, AddSizes
  <2>3. CASE AddLineString(name, shape, attributes, id)
    <3> DEFINE g == LineGeometry(shape.paths[1])
    <3>1. shape.type = "LineString" /\ Add(name, shape, g, attributes, id)
      BY <2>3 DEF AddLineString
    <3>2. g # << >> => /\ g \in Seq(Nat)
                       /\ \E paths \in Seq(Paths) : g = EncodePaths(paths, FALSE)
      BY ONLY <2>1, EncodedAre
    <3> HIDE DEF g
    <3>3. g # << >> => \E paths \in Seq(Paths) : g = EncodePaths(paths, shape.type = "Polygon")
      <4>1. (shape.type = "Polygon") = FALSE
        BY ONLY <3>1
      <4> QED
        BY ONLY <3>2, <4>1
    <3> QED
      BY <1>0, <2>1, <3>1, <3>2, <3>3, AddSizes
  <2>4. CASE AddPolygon(name, shape, attributes, id)
    <3> DEFINE g == PolygonGeometry(shape.paths)
    <3>1. shape.type = "Polygon" /\ Add(name, shape, g, attributes, id)
      BY <2>4 DEF AddPolygon
    <3>2. g # << >> => /\ g \in Seq(Nat)
                       /\ \E paths \in Seq(Paths) : g = EncodePaths(paths, TRUE)
      BY ONLY <2>1, EncodedAre
    <3> HIDE DEF g
    <3>3. g # << >> => \E paths \in Seq(Paths) : g = EncodePaths(paths, shape.type = "Polygon")
      <4>1. (shape.type = "Polygon") = TRUE
        BY ONLY <3>1
      <4> QED
        BY ONLY <3>2, <4>1
    <3> QED
      BY <1>0, <2>1, <3>1, <3>2, <3>3, AddSizes
  <2> QED
    BY <1>3, <2>2, <2>3, <2>4
<1> QED
  BY <1>1, <1>2, <1>3 DEF Next

\* It says what is promised of the sizes.
LEMMA SizeInvExact == SizeInv => SizesExact
<1> SUFFICES ASSUME SizeInv PROVE SizesExact
  OBVIOUS
<1>1. ASSUME NEW name \in DOMAIN layers, NEW i \in DOMAIN layers[name].features
      PROVE  LET f == layers[name].features[i]
                 paths == Decode(f.geometry)
             IN  /\ f.body = FeatureWritten(f)
                 /\ f.type # "Point" =>
                      Len(f.geometry) = Total([k \in 1..Len(paths) |->
                          PathSize(Len(paths[k]), f.type = "Polygon")])
  <2> DEFINE f == layers[name].features[i]
             paths == Decode(f.geometry)
  <2>1. FeatureOk(f)
    BY <1>1, SeqParts DEF SizeInv, TagInv, FeaturesOk, LayerOk
  <2> HIDE DEF f
  <2>2. f.body = FeatureWritten(f)
    BY ONLY <2>1 DEF FeatureOk
  <2>3. ASSUME f.type # "Point"
        PROVE  Len(f.geometry) = Total([k \in 1..Len(paths) |->
                   PathSize(Len(paths[k]), f.type = "Polygon")])
    <3>1. PICK drawn \in Seq(Paths) : f.geometry = EncodePaths(drawn, f.type = "Polygon")
      BY ONLY <2>1, <2>3 DEF FeatureOk
    <3>2. (f.type = "Polygon") \in BOOLEAN
      OBVIOUS
    <3>3. /\ Decode(EncodePaths(drawn, f.type = "Polygon")) = drawn
          /\ Len(EncodePaths(drawn, f.type = "Polygon"))
               = Total([k \in 1..Len(drawn) |-> PathSize(Len(drawn[k]), f.type = "Polygon")])
      BY ONLY <3>2, RoundTrip, drawn \in Seq(Paths)
    <3>4. paths = drawn
      BY <3>1, <3>3
    <3> HIDE DEF paths
    <3> QED
      BY ONLY <3>1, <3>3, <3>4
  <2> QED
    BY ONLY <2>2, <2>3 DEF f
<1>2. ASSUME NEW name \in DOMAIN layers, NEW i \in DOMAIN layers[name].tags.values
      PROVE  LET value == layers[name].tags.values[i]
             IN  ValueBody(value[1], value[2]) = ValueWritten(value[1], value[2])
  <2>1. layers[name].tags \in Encoders
    BY <1>2 DEF SizeInv, TagInv, LayerOk
  <2>2. layers[name].tags.values \in Seq(StoredValues)
    BY ONLY <2>1 DEF Encoders
  <2>3. layers[name].tags.values[i] \in StoredValues
    BY ONLY <1>2, <2>2
  <2> QED
    BY ONLY <2>3, ValueIs
<1>3. ASSUME NEW name \in DOMAIN layers
      PROVE  LET layer == layers[name]
             IN  /\ BodySize(layer) = LayerWritten(layer)
                 /\ FramedSize(layer) = 1 + WriteVarint(BodySize(layer)) + LayerWritten(layer)
  <2>1. layers[name].name \in Strings
    BY <1>3 DEF SizeInv, FeaturesOk
  <2> QED
    BY ONLY <2>1, FrameIs
<1> QED
  BY ONLY <1>1, <1>2, <1>3 DEF SizesExact

\* WireFormatTests.cs:82, on every tile, after any calls: every length that is written
\* before the bytes it counts has their number, also those of the geometries, which
\* decode to the paths they were written from.
THEOREM SizesKept == Spec => []SizesExact
<1>1. Spec => []SizeInv
  BY SizeInvInit, SizeInvNext, PTL DEF Spec
<1> QED
  BY <1>1, SizeInvExact, PTL

=============================================================================
