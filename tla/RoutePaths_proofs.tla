-------------------------- MODULE RoutePaths_proofs --------------------------
(* Lemmas about paths: how their parts are counted, and that the positions  *)
(* a route's parameters have are those of a path it describes.              *)
EXTENDS RoutePaths, FiniteSetTheorems, TLAPS

-----------------------------------------------------------------------------
(* Least and greatest elements *)

\* A set of natural numbers has its least element.
LEMMA MinFacts ==
    ASSUME NEW S \in SUBSET Nat, S # {}
    PROVE  Min(S) \in S /\ \A k \in S : Min(S) <= k
<1>1. PICK m \in S : \A k \in S : <<k, m>> \notin OpToRel(<, Nat)
  BY WFMin, NatLessThanWellFounded, Zenon
<1>2. \A k \in S : ~(k < m)
  BY <1>1, Zenon DEF OpToRel
<1>3. \A k \in S : m <= k
  BY <1>2
<1> QED BY <1>3 DEF Min

\* The greatest element of a set of natural numbers is the one above all others.
LEMMA MaxFacts ==
    ASSUME NEW S \in SUBSET Nat, NEW m \in S, \A k \in S : k <= m
    PROVE  Max(S) = m
<1>1. \A k \in S : m >= k
  OBVIOUS
<1>2. Max(S) \in S /\ \A k \in S : Max(S) >= k
  BY <1>1 DEF Max
<1>3. Max(S) >= m /\ m >= Max(S) /\ Max(S) \in Nat /\ m \in Nat
  BY <1>1, <1>2
<1> QED BY <1>3

\* A non-empty set of natural numbers with a bound has its greatest element.
LEMMA GreatestExists ==
    ASSUME NEW S \in SUBSET Nat, S # {}, NEW b \in Nat, \A k \in S : k <= b
    PROVE  \E m \in S : \A k \in S : k <= m
<1> DEFINE D == {b - k : k \in S}
<1>1. D \in SUBSET Nat /\ D # {}
  <2>1. \A k \in S : b - k \in Nat
    OBVIOUS
  <2> QED BY <2>1
<1>2. Min(D) \in D /\ \A d \in D : Min(D) <= d
  BY <1>1, MinFacts
<1>3. PICK m \in S : Min(D) = b - m
  BY <1>2
<1>4. \A k \in S : b - m <= b - k
  BY <1>2, <1>3
<1> QED BY <1>3, <1>4

-----------------------------------------------------------------------------
(* The places of a path *)

\* What is empty is plain text.
LEMMA EmptyFacts == Empty.kind = "plain" /\ \A n : Param(n).kind = "param" /\ Param(n).text = n
BY DEF Empty, Plain, Param

\* The place numbers of a path's parts count up from 1, without a gap.
LEMMA PlaceFacts ==
    ASSUME NEW S, NEW path \in Seq(S)
    PROVE  LET F == Filled(path)
               count(i) == Cardinality(F \intersect 1 .. i)
           IN  /\ IsFiniteSet(F) /\ Cardinality(F) \in Nat
               /\ \A i \in F : count(i) \in 1 .. Cardinality(F) /\ Place(path, count(i)) = i
               /\ \A k \in 1 .. Cardinality(F) :
                    Place(path, k) \in F /\ count(Place(path, k)) = k
               /\ \A i, j \in F : i < j => count(i) < count(j)
<1> DEFINE F == Filled(path)
           N == Cardinality(F)
           count(i) == Cardinality(F \intersect 1 .. i)
<1>1. F \subseteq 1 .. Len(path) /\ Len(path) \in Nat
  BY DEF Filled
<1>2. IsFiniteSet(F) /\ N \in Nat
  <2> HIDE DEF F
  <2>1. IsFiniteSet(1 .. Len(path))
    BY <1>1, FS_Interval
  <2>2. IsFiniteSet(F)
    BY <1>1, <2>1, FS_Subset
  <2> QED BY <2>2, FS_CardinalityType
<1> HIDE DEF F
<1>3. ASSUME NEW i \in F
      PROVE  /\ count(i) \in 1 .. N
             /\ IsFiniteSet(F \intersect 1 .. i)
  <2>1. IsFiniteSet(F \intersect 1 .. i) /\ count(i) \in Nat /\ count(i) <= N
    BY <1>2, FS_Subset, FS_CardinalityType
  <2>2. i \in F \intersect 1 .. i
    BY <1>1
  <2>3. count(i) # 0
    BY <2>1, <2>2, FS_EmptySet
  <2> QED BY <1>2, <2>1, <2>3
<1>4. ASSUME NEW i \in F, NEW j \in F, i < j
      PROVE  count(i) < count(j)
  <2> DEFINE A == F \intersect 1 .. i
             B == F \intersect 1 .. j
  <2>1. IsFiniteSet(A) /\ IsFiniteSet(B) /\ Cardinality(A) \in Nat /\ Cardinality(B) \in Nat
    BY <1>3, FS_CardinalityType
  <2>2. j \notin A /\ A \union {j} \subseteq B
    BY <1>1, <1>4
  <2>3. Cardinality(A \union {j}) = Cardinality(A) + 1
    BY <2>1, <2>2, FS_AddElement
  <2>4. Cardinality(A \union {j}) <= Cardinality(B)
    BY <2>1, <2>2, FS_Subset
  <2> QED BY <2>1, <2>3, <2>4
<1>5. \A i, j \in F : count(i) = count(j) => i = j
  <2> SUFFICES ASSUME NEW i \in F, NEW j \in F, count(i) = count(j), i # j
               PROVE  FALSE
    OBVIOUS
  <2>1. i < j \/ j < i
    BY <1>1
  <2>2. count(i) < count(j) \/ count(j) < count(i)
    BY <1>4, <2>1
  <2>3. count(i) \in Nat /\ count(j) \in Nat
    BY <1>2, <1>3
  <2> QED BY <2>2, <2>3
<1>6. \A k \in 1 .. N : \E i \in F : count(i) = k
  <2> DEFINE f == [i \in F |-> count(i)]
  <2>1. f \in Injection(F, 1 .. N)
    BY <1>3, <1>5 DEF Injection, IsInjective
  <2>2. IsFiniteSet(1 .. N) /\ Cardinality(1 .. N) = N
    BY <1>2, FS_Interval
  <2>3. f \in Surjection(F, 1 .. N)
    <3> HIDE DEF f
    <3> QED BY <2>1, <2>2, FS_Injection
  <2> QED BY <2>3 DEF Surjection
<1>7. \A k : Place(path, k) = CHOOSE i \in F : count(i) = k
  BY DEF Place, F
<1>8. ASSUME NEW k \in 1 .. N
      PROVE  Place(path, k) \in F /\ count(Place(path, k)) = k
  <2>1. \E i \in F : count(i) = k
    BY <1>6
  <2> QED BY <1>7, <2>1
<1>9. ASSUME NEW i \in F
      PROVE  Place(path, count(i)) = i
  <2>1. Place(path, count(i)) \in F /\ count(Place(path, count(i))) = count(i)
    BY <1>3, <1>8
  <2> QED BY <1>5, <2>1
<1> QED BY <1>2, <1>3, <1>4, <1>8, <1>9 DEF F

\* A path without empty parts is its own parts.
LEMMA FullParts ==
    ASSUME NEW S, NEW path \in Seq(S), \A i \in DOMAIN path : path[i] # Empty
    PROVE  Parts(path) = path
<1> DEFINE count(i) == Cardinality(Filled(path) \intersect 1 .. i)
<1>1. Filled(path) = 1 .. Len(path) /\ Len(path) \in Nat
  BY DEF Filled
<1>2. \A i \in 1 .. Len(path) : count(i) = i
  <2> SUFFICES ASSUME NEW i \in 1 .. Len(path) PROVE count(i) = i
    OBVIOUS
  <2>1. Filled(path) \intersect 1 .. i = 1 .. i
    BY <1>1
  <2>2. Cardinality(1 .. i) = i
    BY FS_Interval
  <2> QED BY <2>1, <2>2
<1>3. Cardinality(Filled(path)) = Len(path)
  BY <1>1, FS_Interval
<1>4. \A i \in 1 .. Len(path) : Place(path, i) = i
  <2>1. \A i \in Filled(path) : Place(path, count(i)) = i
    BY PlaceFacts
  <2> HIDE DEF count
  <2> QED BY <1>1, <1>2, <2>1
<1>5. Parts(path) = [k \in 1 .. Len(path) |-> path[k]]
  BY <1>3, <1>4 DEF Parts
<1> QED BY <1>5

-----------------------------------------------------------------------------
(* Routes and the paths they describe *)

\* A path a route describes has its parameters where the route has them.
LEMMA ParsedAsBound ==
    ASSUME NEW route \in Seq(PathParts), NEW path \in Seq(PathParts), Matches(path, route)
    PROVE  ParseParameters(path, ParameterNames(route)) = Bindings(path, route)
<1> DEFINE N == Cardinality(Filled(route))
           place(k) == Place(route, k)
           named(n) == {k \in 1 .. N : route[place(k)] = Param(n)}
           Texts == {route[i].text : i \in {k \in DOMAIN route : route[k].kind = "param"}}
<1>1. \A i \in DOMAIN route : path[i] = Empty <=> route[i] = Empty
  <2> SUFFICES ASSUME NEW i \in DOMAIN route PROVE path[i] = Empty <=> route[i] = Empty
    OBVIOUS
  <2>1. IF route[i].kind = "param" THEN path[i] # Empty ELSE path[i] = route[i]
    BY DEF Matches
  <2> QED BY <2>1, EmptyFacts
<1>2. DOMAIN path = DOMAIN route
  BY DEF Matches
<1>3. Filled(path) = Filled(route)
  BY <1>1, <1>2 DEF Filled
<1>4. \A k : Place(path, k) = place(k)
  BY <1>3 DEF Place
<1>5. /\ Parts(route) = [k \in 1 .. N |-> route[place(k)]]
      /\ Parts(path) = [k \in 1 .. N |-> path[place(k)]]
  BY <1>3, <1>4 DEF Parts
<1>6. N \in Nat /\ \A k \in 1 .. N : place(k) \in DOMAIN route
  BY PlaceFacts DEF Filled
<1>7. \A i \in DOMAIN route : route[i] \in PathParts
  OBVIOUS
<1>8. \A i \in DOMAIN route : route[i].kind = "param" => route[i] = Param(route[i].text)
  BY <1>7 DEF PathParts, Param
<1>9. ParameterNames(route) =
        {[name |-> route[place(k)].text, position |-> k] :
            k \in {l \in 1 .. N : route[place(l)].kind = "param"}}
  BY <1>5 DEF ParameterNames
<1>10. Len(Parts(path)) = N
  BY <1>5, <1>6
<1> DEFINE meta == ParameterNames(route)
<1>11. {m \in meta : m.position <= Len(Parts(path))} = meta
  BY <1>6, <1>9, <1>10
<1>12. {m.name : m \in meta} = Texts
  <2>1. ASSUME NEW i \in DOMAIN route, route[i].kind = "param"
        PROVE  \E k \in 1 .. N : place(k) = i
    <3>1. i \in Filled(route)
      <4>1. route[i] # Empty
        BY <2>1, EmptyFacts
      <4> QED BY <4>1 DEF Filled
    <3> QED BY <3>1, PlaceFacts
  <2>2. ASSUME NEW n \in Texts
        PROVE  \E m \in meta : m.name = n
    <3>1. PICK i \in DOMAIN route : route[i].kind = "param" /\ n = route[i].text
      BY <2>2
    <3>2. PICK k \in 1 .. N : place(k) = i
      BY <2>1, <3>1
    <3>3. [name |-> route[place(k)].text, position |-> k] \in meta
      BY <1>9, <3>1, <3>2
    <3> QED BY <3>1, <3>2, <3>3
  <2>3. ASSUME NEW m \in meta
        PROVE  m.name \in Texts
    BY <1>6, <1>9
  <2> QED BY <2>2, <2>3
<1>13. ASSUME NEW n \in Texts
       PROVE  Parts(path)[Max({m.position : m \in {x \in meta : x.name = n}})]
                = path[Max({i \in DOMAIN route : route[i] = Param(n)})]
  <2> DEFINE I == {i \in DOMAIN route : route[i] = Param(n)}
  <2>1. {m.position : m \in {x \in meta : x.name = n}} = named(n)
    <3>1. ASSUME NEW k \in named(n)
          PROVE  [name |-> n, position |-> k] \in meta
      BY <1>9 DEF Param
    <3>2. ASSUME NEW m \in meta, m.name = n
          PROVE  m.position \in named(n)
      BY <1>6, <1>8, <1>9, <3>2
    <3>3. ASSUME NEW k \in named(n)
          PROVE  k \in {m.position : m \in {x \in meta : x.name = n}}
      <4> HIDE DEF meta, named
      <4> DEFINE m == [name |-> n, position |-> k]
      <4>1. m \in meta /\ m.name = n /\ m.position = k
        BY <3>1, <3>3
      <4> HIDE DEF m
      <4> QED BY <4>1
    <3>4. ASSUME NEW k \in {m.position : m \in {x \in meta : x.name = n}}
          PROVE  k \in named(n)
      <4> HIDE DEF meta, named
      <4> QED BY <3>2, <3>4
    <3> HIDE DEF meta, named
    <3> QED BY <3>3, <3>4
  <2>2. \A i \in I : \E k \in named(n) : place(k) = i
    <3> SUFFICES ASSUME NEW i \in I PROVE \E k \in named(n) : place(k) = i
      OBVIOUS
    <3>1. i \in Filled(route)
      <4>1. route[i].kind = "param"
        BY EmptyFacts
      <4>2. route[i] # Empty
        BY <4>1, EmptyFacts
      <4> QED BY <4>2 DEF Filled
    <3>2. \E k \in 1 .. N : place(k) = i
      BY <3>1, PlaceFacts
    <3> QED BY <3>2
  <2>3. I # {}
    BY <1>8
  <2>4. named(n) # {} /\ named(n) \in SUBSET Nat /\ \A k \in named(n) : k <= N
    BY <2>2, <2>3
  <2>5. PICK k \in named(n) : \A l \in named(n) : l <= k
    BY <1>6, <2>4, GreatestExists
  <2>6. place(k) \in I
    BY <1>6
  <2>7. \A l \in named(n) : place(l) <= place(k)
    <3> SUFFICES ASSUME NEW l \in named(n), ~(place(l) <= place(k)) PROVE FALSE
      OBVIOUS
    <3> DEFINE count(i) == Cardinality(Filled(route) \intersect 1 .. i)
    <3>1. place(l) \in Filled(route) /\ place(k) \in Filled(route)
          /\ count(place(l)) = l /\ count(place(k)) = k
      BY PlaceFacts
    <3>2. place(l) \in Nat /\ place(k) \in Nat
      BY <1>6
    <3>3. \A i, j \in Filled(route) : i < j => count(i) < count(j)
      BY PlaceFacts
    <3> HIDE DEF count, place
    <3>4. count(place(k)) < count(place(l))
      BY <3>1, <3>2, <3>3
    <3> QED BY <2>4, <2>5, <3>1, <3>4
  <2>8. \A i \in I : i <= place(k)
    BY <2>2, <2>7
  <2>9. I \in SUBSET Nat
    OBVIOUS
  <2>10. Max(I) = place(k)
    BY <2>6, <2>8, <2>9, MaxFacts
  <2>11. Max(named(n)) = k
    BY <2>4, <2>5, MaxFacts
  <2>12. k \in 1 .. N
    OBVIOUS
  <2>13. Parts(path)[k] = path[place(k)]
    BY <1>5, <2>12
  <2> HIDE DEF I, named, meta, place
  <2> QED BY <2>1, <2>10, <2>11, <2>13 DEF I
<1> HIDE DEF meta
<1>14. ParseParameters(path, meta) =
        [n \in Texts |-> Parts(path)[Max({m.position : m \in {x \in meta : x.name = n}})]]
  BY <1>11, <1>12 DEF ParseParameters
<1> QED BY <1>13, <1>14 DEF Bindings, meta

=============================================================================
