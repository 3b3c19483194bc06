------------------------- MODULE TelemetryApi_proofs -------------------------
(* Theorems about TelemetryApi, for every set of threads, requests, names,  *)
(* dates and values and every width of the numbers, and their proofs.        *)
EXTENDS TelemetryApi, RoutePaths_proofs

-----------------------------------------------------------------------------
(* Totals: the sum of a function with a finite domain does not depend on the *)
(* order of the summands                                                     *)

\* A set of numbers with 0 and the successors of its elements has them all.
LEMMA Induction ==
    ASSUME NEW S \in SUBSET Nat, 0 \in S, \A n \in S : n + 1 \in S
    PROVE  S = Nat
<1> SUFFICES ASSUME Nat \ S # {} PROVE FALSE
  OBVIOUS
<1> DEFINE m == Min(Nat \ S)
<1>1. m \in Nat \ S /\ \A k \in Nat \ S : m <= k
  BY MinFacts
<1> HIDE DEF m
<1>2. m - 1 \in Nat
  BY <1>1
<1>3. m - 1 \in S
  BY <1>1, <1>2
<1> QED BY <1>1, <1>2, <1>3

Pick(s) == CHOOSE x \in s : TRUE

\* The sums over the subsets of a function's domain, as the fold adds them up.
Sums(f) ==
    LET iter[s \in SUBSET DOMAIN f] ==
            IF s = {} THEN 0 ELSE LET x == CHOOSE x \in s : TRUE IN f[x] + iter[s \ {x}]
    IN  iter

\* One step of the sum over s, given the sums over smaller sets.
Add(f, sums, s) == IF s = {} THEN 0 ELSE f[Pick(s)] + sums[s \ {Pick(s)}]

LEMMA TotalIsSum == \A f : Total(f) = Sums(f)[DOMAIN f]
BY DEF Total, Sums, FoldFunction, FoldFunctionOnSet, MapThenFoldSet

\* A non-empty set has its pick, and one element less without it.
LEMMA PickFacts ==
    ASSUME NEW s, IsFiniteSet(s), s # {}
    PROVE  /\ Pick(s) \in s /\ IsFiniteSet(s \ {Pick(s)}) /\ s \ {Pick(s)} \subseteq s
           /\ Cardinality(s) \in Nat /\ Cardinality(s \ {Pick(s)}) = Cardinality(s) - 1
<1>1. Pick(s) \in s
  BY DEF Pick
<1>2. Cardinality(s) \in Nat
  BY FS_CardinalityType
<1>3. IsFiniteSet(s \ {Pick(s)}) /\ Cardinality(s \ {Pick(s)}) = Cardinality(s) - 1
  BY <1>1, FS_RemoveElement
<1> QED BY <1>1, <1>2, <1>3

\* The recursion of the sums is well-founded when the domain is finite.
LEMMA SumsExist ==
    ASSUME NEW f, IsFiniteSet(DOMAIN f)
    PROVE  Sums(f) = [s \in SUBSET DOMAIN f |-> Add(f, Sums(f), s)]
<1> DEFINE D == DOMAIN f
           Small(n) == {s \in SUBSET D : Cardinality(s) <= n}
           Law(g, n) == g = [s \in Small(n) |-> Add(f, g, s)]
           Good == {n \in Nat : \E g : Law(g, n)}
<1>1. \A s \in SUBSET D : IsFiniteSet(s) /\ Cardinality(s) \in Nat
                          /\ Cardinality(s) <= Cardinality(D)
  BY FS_Subset, FS_CardinalityType
<1>2. 0 \in Good
  <2>1. \A s \in Small(0) : s = {}
    BY <1>1, FS_EmptySet
  <2> DEFINE g == [s \in Small(0) |-> 0]
  <2>2. \A s \in Small(0) : Add(f, g, s) = 0
    BY <2>1 DEF Add
  <2>3. Law(g, 0)
    BY <2>2
  <2> QED BY <2>3
<1>3. ASSUME NEW n \in Good
      PROVE  n + 1 \in Good
  <2>1. PICK g : Law(g, n)
    OBVIOUS
  <2> DEFINE h == [s \in Small(n + 1) |-> Add(f, g, s)]
  <2>2. ASSUME NEW s \in Small(n + 1)
        PROVE  Add(f, h, s) = Add(f, g, s)
    <3>1. CASE s = {}
      BY <3>1 DEF Add
    <3>2. CASE s # {}
      <4> DEFINE t == s \ {Pick(s)}
      <4>1. t \in Small(n) /\ t \in Small(n + 1)
        <5>1. IsFiniteSet(s) /\ Cardinality(s) \in Nat /\ Cardinality(s) <= n + 1 /\ n \in Nat
          BY <1>1
        <5>2. t \in SUBSET D /\ Cardinality(t) = Cardinality(s) - 1
          BY <3>2, <5>1, PickFacts
        <5> HIDE DEF t
        <5> QED BY <5>1, <5>2
      <4>2. h[t] = Add(f, g, t) /\ g[t] = Add(f, g, t)
        <5> HIDE DEF t
        <5> QED BY <2>1, <4>1
      <4> QED BY <3>2, <4>2 DEF Add
    <3> QED BY <3>1, <3>2
  <2>3. Law(h, n + 1)
    BY <2>2
  <2>4. \E k : Law(k, n + 1)
    <3> HIDE DEF Law, h
    <3> QED BY <2>3
  <2> HIDE DEF Law
  <2> QED BY <2>4
<1> HIDE DEF Good
<1>4. Good = Nat
  BY <1>2, <1>3, Induction DEF Good
<1>5. Small(Cardinality(D)) = SUBSET D
  BY <1>1
<1>6. PICK g : g = [s \in SUBSET D |-> Add(f, g, s)]
  <2>1. Cardinality(D) \in Good
    BY <1>4, FS_CardinalityType
  <2> QED BY <1>5, <2>1 DEF Good
<1>7. Sums(f) = CHOOSE h : h = [s \in SUBSET D |-> Add(f, h, s)]
  BY DEF Sums, Add, Pick
<1> QED BY <1>6, <1>7

\* What the sums are made of.
LEMMA SumFacts ==
    ASSUME NEW D, IsFiniteSet(D), NEW f \in [D -> Int]
    PROVE  /\ Sums(f)[{}] = 0
           /\ \A s \in SUBSET D : Sums(f)[s] \in Int
           /\ \A s \in SUBSET D : \A x \in s : Sums(f)[s] = f[x] + Sums(f)[s \ {x}]
<1> DEFINE sum == Sums(f)
           OfSize(n) == {s \in SUBSET D : Cardinality(s) = n}
<1>1. \A s \in SUBSET D : sum[s] = Add(f, sum, s)
  BY SumsExist
<1> HIDE DEF sum
<1>2. \A s \in SUBSET D : IsFiniteSet(s) /\ Cardinality(s) \in Nat
  BY FS_Subset, FS_CardinalityType
<1>3. sum[{}] = 0
  BY <1>1 DEF Add
<1>4. ASSUME NEW n \in Nat, NEW s \in OfSize(n + 1), NEW x \in s
      PROVE  s \ {x} \in OfSize(n)
  <2>1. IsFiniteSet(s) /\ Cardinality(s) = n + 1
    BY <1>2
  <2>2. Cardinality(s \ {x}) = Cardinality(s) - 1
    BY <2>1, FS_RemoveElement
  <2> QED BY <2>1, <2>2
<1>5. ASSUME NEW n \in Nat, NEW s \in OfSize(n + 1)
      PROVE  Pick(s) \in s /\ sum[s] = f[Pick(s)] + sum[s \ {Pick(s)}]
  <2>1. s # {}
    <3>1. Cardinality(s) # 0
      OBVIOUS
    <3> QED BY <3>1, FS_EmptySet
  <2> QED BY <1>1, <2>1 DEF Add, Pick
<1>6. \A s \in SUBSET D : sum[s] \in Int
  <2> DEFINE Good == {n \in Nat : \A s \in OfSize(n) : sum[s] \in Int}
  <2>1. 0 \in Good
    <3>1. \A s \in OfSize(0) : s = {}
      BY <1>2, FS_EmptySet
    <3> QED BY <1>3, <3>1
  <2>2. ASSUME NEW n \in Good
        PROVE  n + 1 \in Good
    <3> SUFFICES ASSUME NEW s \in OfSize(n + 1) PROVE sum[s] \in Int
      OBVIOUS
    <3>1. Pick(s) \in s /\ sum[s] = f[Pick(s)] + sum[s \ {Pick(s)}]
      BY <1>5
    <3>2. sum[s \ {Pick(s)}] \in Int /\ f[Pick(s)] \in Int
      BY <1>4, <3>1
    <3> QED BY <3>1, <3>2
  <2> HIDE DEF Good
  <2>3. Good = Nat
    BY <2>1, <2>2, Induction DEF Good
  <2> QED BY <1>2, <2>3 DEF Good
<1>7. \A s \in SUBSET D : \A x \in s : sum[s] = f[x] + sum[s \ {x}]
  <2> DEFINE Good == {n \in Nat : \A s \in OfSize(n) : \A x \in s : sum[s] = f[x] + sum[s \ {x}]}
  <2>1. 0 \in Good
    <3>1. \A s \in OfSize(0) : s = {}
      BY <1>2, FS_EmptySet
    <3> QED BY <3>1
  <2>2. ASSUME NEW n \in Good
        PROVE  n + 1 \in Good
    <3> SUFFICES ASSUME NEW s \in OfSize(n + 1), NEW x \in s
                 PROVE  sum[s] = f[x] + sum[s \ {x}]
      OBVIOUS
    <3> DEFINE p == Pick(s)
    <3>1. p \in s /\ sum[s] = f[p] + sum[s \ {p}]
      BY <1>5
    <3> HIDE DEF p
    <3>2. CASE x = p
      BY <3>1, <3>2
    <3>3. CASE x # p
      <4>1. s \ {p} \in OfSize(n) /\ s \ {x} \in OfSize(n)
        BY <1>4, <3>1
      <4>2. /\ sum[s \ {p}] = f[x] + sum[(s \ {p}) \ {x}]
            /\ sum[s \ {x}] = f[p] + sum[(s \ {x}) \ {p}]
        BY <3>1, <3>3, <4>1
      <4>3. (s \ {p}) \ {x} = (s \ {x}) \ {p}
        OBVIOUS
      <4>4. f[x] \in Int /\ f[p] \in Int /\ sum[(s \ {x}) \ {p}] \in Int
        BY <1>6, <3>1
      <4> HIDE DEF Good, OfSize
      <4>5. sum[s] = f[p] + (f[x] + sum[(s \ {x}) \ {p}])
        BY <3>1, <4>2, <4>3
      <4>6. f[p] + (f[x] + sum[(s \ {x}) \ {p}]) = f[x] + (f[p] + sum[(s \ {x}) \ {p}])
        BY <4>4
      <4> QED BY <4>2, <4>5, <4>6
    <3> QED BY <3>2, <3>3
  <2> HIDE DEF Good
  <2>3. Good = Nat
    BY <2>1, <2>2, Induction DEF Good
  <2> QED BY <1>2, <2>3 DEF Good
<1> QED BY <1>3, <1>6, <1>7 DEF sum

\* The total of integers is an integer, and that of nothing is 0.
LEMMA TotalType ==
    ASSUME NEW D, IsFiniteSet(D), NEW f \in [D -> Int]
    PROVE  Total(f) \in Int /\ (D = {} => Total(f) = 0)
BY SumFacts, TotalIsSum

\* Two functions with the same values, each as often, have the same total.
LEMMA SameTotal ==
    ASSUME NEW D, IsFiniteSet(D), NEW E, IsFiniteSet(E),
           NEW f \in [D -> Int], NEW h \in [E -> Int], NEW b \in [D -> E],
           \A x, y \in D : b[x] = b[y] => x = y,
           \A e \in E : \E x \in D : b[x] = e,
           \A x \in D : f[x] = h[b[x]]
    PROVE  Total(f) = Total(h)
<1> DEFINE image(s) == {b[x] : x \in s}
           OfSize(n) == {s \in SUBSET D : Cardinality(s) = n}
           Good == {n \in Nat : \A s \in OfSize(n) : Sums(f)[s] = Sums(h)[image(s)]}
<1>1. \A s \in SUBSET D : IsFiniteSet(s) /\ Cardinality(s) \in Nat
  BY FS_Subset, FS_CardinalityType
<1>2. 0 \in Good
  <2>1. \A s \in OfSize(0) : s = {} /\ image(s) = {}
    BY <1>1, FS_EmptySet
  <2>2. Sums(f)[{}] = 0 /\ Sums(h)[{}] = 0
    BY SumFacts
  <2> QED BY <2>1, <2>2
<1>3. ASSUME NEW n \in Good
      PROVE  n + 1 \in Good
  <2> SUFFICES ASSUME NEW s \in OfSize(n + 1)
               PROVE  Sums(f)[s] = Sums(h)[image(s)]
    OBVIOUS
  <2>1. IsFiniteSet(s) /\ Cardinality(s) = n + 1 /\ n \in Nat
    BY <1>1
  <2>2. s # {}
    BY <2>1, FS_EmptySet
  <2>3. PICK x \in s : TRUE
    BY <2>2
  <2>4. Cardinality(s \ {x}) = n
    <3>1. Cardinality(s \ {x}) = Cardinality(s) - 1
      BY <2>1, FS_RemoveElement
    <3> HIDE DEF Good, OfSize
    <3> QED BY <2>1, <3>1
  <2>5. Sums(f)[s \ {x}] = Sums(h)[image(s \ {x})]
    BY <2>1, <2>4
  <2>6. image(s \ {x}) = image(s) \ {b[x]}
    OBVIOUS
  <2>7. b[x] \in image(s) /\ image(s) \in SUBSET E
    OBVIOUS
  <2>8. Sums(f)[s] = f[x] + Sums(f)[s \ {x}]
    BY SumFacts
  <2>9. Sums(h)[image(s)] = h[b[x]] + Sums(h)[image(s) \ {b[x]}]
    <3> HIDE DEF image
    <3> QED BY <2>7, SumFacts
  <2>10. f[x] = h[b[x]]
    OBVIOUS
  <2> HIDE DEF image
  <2> QED BY <2>5, <2>6, <2>8, <2>9, <2>10
<1>4. Good = Nat
  <2> HIDE DEF Good
  <2> QED BY <1>2, <1>3, Induction DEF Good
<1>5. Sums(f)[D] = Sums(h)[image(D)]
  BY <1>1, <1>4
<1>6. image(D) = E /\ DOMAIN f = D /\ DOMAIN h = E
  OBVIOUS
<1> QED BY <1>5, <1>6, TotalIsSum

-----------------------------------------------------------------------------
(* Requests: where they are routed, and the calls they make *)

\* The router of the application reads paths as RoutePaths does.
LEMMA RouterFacts ==
    /\ \A p : Router!Template(p) = Template(p)
    /\ \A p : Router!ParameterNames(p) = ParameterNames(p)
    /\ \A p, m : Router!ParseParameters(p, m) = ParseParameters(p, m)
    /\ \A S : Router!Min(S) = Min(S)
<1>1. Router!Empty = Empty /\ Router!Placeholder = Placeholder
  BY DEF Empty, Placeholder, Param, Plain, Router!Empty, Router!Placeholder, Router!Param,
         Router!Plain
<1>2. \A p : Router!Template(p) = Template(p)
  BY <1>1 DEF Template, Router!Template
<1>3. \A p : Router!Filled(p) = Filled(p)
  BY <1>1 DEF Filled, Router!Filled
<1>4. \A p : Router!Parts(p) = Parts(p)
  <2>1. \A S : Router!Cardinality(S) = Cardinality(S)
    BY DEF Cardinality, Router!Cardinality
  <2>2. \A p, k : Router!Place(p, k) = Place(p, k)
    BY <1>3, <2>1 DEF Place, Router!Place
  <2> QED BY <1>3, <2>1, <2>2 DEF Parts, Router!Parts
<1>5. \A p : Router!ParameterNames(p) = ParameterNames(p)
  BY <1>4 DEF ParameterNames, Router!ParameterNames
<1>6. \A S : Router!Min(S) = Min(S) /\ Router!Max(S) = Max(S)
  BY DEF Min, Max, Router!Min, Router!Max
<1>7. ASSUME NEW p, NEW meta
      PROVE  Router!ParseParameters(p, meta) = ParseParameters(p, meta)
  <2> DEFINE found == {m \in meta : m.position <= Len(Parts(p))}
             last(n) == Max({m.position : m \in {x \in found : x.name = n}})
  <2>1. ParseParameters(p, meta) = [n \in {m.name : m \in found} |-> Parts(p)[last(n)]]
    BY DEF ParseParameters
  <2>2. Router!ParseParameters(p, meta) =
            [n \in {m.name : m \in found} |->
                Parts(p)[Router!Max({m.position : m \in {x \in found : x.name = n}})]]
    BY <1>4, Zenon DEF Router!ParseParameters
  <2>3. \A n : Router!Max({m.position : m \in {x \in found : x.name = n}}) = last(n)
    BY <1>6, Zenon
  <2> HIDE DEF found
  <2> QED BY <2>1, <2>2, <2>3, Zenon
<1> QED BY <1>2, <1>5, <1>6, <1>7

\* Both routes of the application have one parameter, in the second place.
LEMMA RouteFacts ==
    ASSUME NEW p \in {MeanRoute, EventRoute}
    PROVE  ParameterNames(p) = {[name |-> "event", position |-> 2]}
<1> DEFINE S == {Plain("paths"), Param("event"), Plain("meanLength")}
<1>1. /\ Plain("paths").kind = "plain" /\ Plain("paths") # Empty
      /\ Plain("meanLength").kind = "plain" /\ Plain("meanLength") # Empty
      /\ Param("event") # Empty /\ Param("event").kind = "param" /\ Param("event").text = "event"
  BY EmptyFacts DEF Plain, Param, Empty
<1>2. /\ p \in Seq(S) /\ DOMAIN p \in {1 .. 2, 1 .. 3}
      /\ p[1] = Plain("paths") /\ p[2] = Param("event")
      /\ 3 \in DOMAIN p => p[3] = Plain("meanLength")
  <2>1. CASE p = MeanRoute
    BY <2>1 DEF MeanRoute
  <2>2. CASE p = EventRoute
    BY <2>2 DEF EventRoute
  <2> QED BY <2>1, <2>2
<1> HIDE DEF S
<1>3. \A i \in DOMAIN p : i \in {1, 2, 3}
  BY <1>2
<1>4. Parts(p) = p
  <2>1. \A i \in DOMAIN p : p[i] # Empty
    BY <1>1, <1>2, <1>3
  <2> QED BY <1>2, <2>1, FullParts
<1>5. {k \in DOMAIN p : p[k].kind = "param"} = {2}
  BY <1>1, <1>2, <1>3
<1>6. ParameterNames(p) = {[name |-> p[i].text, position |-> i] : i \in {2}}
  BY <1>4, <1>5 DEF ParameterNames
<1> QED BY <1>1, <1>2, <1>6

\* What the router does with a request of a method it knows, whatever its path:
\* the handler is the method's only one, and the parameter is the second part of
\* the request's path.
LEMMA RoutedFacts ==
    ASSUME NEW r \in Requests, r.method \in {"GET", "POST"}
    PROVE  /\ Routed(r).code = 200
           /\ Routed(r).handler = IF r.method = "GET" THEN "mean" ELSE "event"
           /\ "event" \in DOMAIN Routed(r).parameters =>
                /\ Len(Parts(r.path)) >= 2
                /\ Routed(r).parameters["event"] = Parts(r.path)[2]
<1> DEFINE map == AppHandlers[r.method]
           C == Router!Candidates(map, AppInfo)
<1>1. \A k \in DOMAIN map : map[k] = IF r.method = "GET" THEN "mean" ELSE "event"
  BY DEF AppHandlers, Map1
<1>2. Routed(r) =
        IF r.path \in DOMAIN map
          THEN [code |-> 200, handler |-> map[r.path], parameters |-> Router!NoParameters]
        ELSE IF C # {}
          THEN [code |-> 200, handler |-> map[Template(AppInfo[Min(C)])],
                parameters |-> ParseParameters(r.path, ParameterNames(AppInfo[Min(C)]))]
        ELSE [code |-> 404, handler |-> "none", parameters |-> Router!NoParameters]
  BY RouterFacts DEF Routed, Router!ProcessRouting
<1>3. C \in SUBSET {1, 2} /\ \A i \in C : Template(AppInfo[i]) \in DOMAIN map
  <2>1. DOMAIN AppInfo = {1, 2}
    BY DEF AppInfo
  <2> HIDE DEF map
  <2> QED BY <2>1, RouterFacts DEF Router!Candidates
<1>4. C # {}
  <2>1. AppInfo[1] = MeanRoute /\ AppInfo[2] = EventRoute /\ DOMAIN AppInfo = {1, 2}
    BY DEF AppInfo
  <2>2. Template(MeanRoute) \in DOMAIN map \/ Template(EventRoute) \in DOMAIN map
    BY DEF AppHandlers, Map1
  <2> HIDE DEF map
  <2> QED BY <2>1, <2>2, RouterFacts DEF Router!Candidates
<1> HIDE DEF map, C
<1>5. CASE r.path \in DOMAIN map
  BY <1>1, <1>2, <1>5 DEF Router!NoParameters
<1>6. CASE r.path \notin DOMAIN map /\ C # {}
  <2> DEFINE p == AppInfo[Min(C)]
             meta == {[name |-> "event", position |-> 2]}
  <2>1. Min(C) \in C
    BY <1>3, <1>6, MinFacts
  <2>2. p \in {MeanRoute, EventRoute} /\ map[Template(p)] = IF r.method = "GET" THEN "mean" ELSE "event"
    <3>1. Template(p) \in DOMAIN map
      BY <1>3, <2>1
    <3>2. AppInfo[1] = MeanRoute /\ AppInfo[2] = EventRoute /\ Min(C) \in {1, 2}
      BY <1>3, <2>1 DEF AppInfo
    <3>3. p \in {MeanRoute, EventRoute}
      BY <3>2
    <3> QED BY <1>1, <3>1, <3>3
  <2>3. ParameterNames(p) = meta
    BY <2>2, RouteFacts
  <2> HIDE DEF p
  <2>4. Routed(r) = [code |-> 200, handler |-> map[Template(p)],
                     parameters |-> ParseParameters(r.path, meta)]
    BY <1>2, <1>6, <2>3 DEF p
  <2>5. ASSUME "event" \in DOMAIN ParseParameters(r.path, meta)
        PROVE  /\ Len(Parts(r.path)) >= 2
               /\ ParseParameters(r.path, meta)["event"] = Parts(r.path)[2]
    <3> DEFINE parts == Parts(r.path)
               found == {m \in meta : m.position <= Len(parts)}
    <3>1. found # {}
      BY <2>5 DEF ParseParameters
    <3>2. found = meta /\ 2 <= Len(parts)
      BY <3>1
    <3>3. {m.position : m \in {x \in found : x.name = "event"}} = {2}
      <4>1. {x \in meta : x.name = "event"} = meta
        OBVIOUS
      <4>2. {m.position : m \in meta} = {2}
        OBVIOUS
      <4> HIDE DEF found, meta
      <4> QED BY <3>2, <4>1, <4>2
    <3>4. Max({2}) = 2
      BY MaxFacts
    <3>5. Len(parts) \in Nat
      <4>1. Cardinality(Filled(r.path)) \in Nat
        BY ApiAssumption, PlaceFacts
      <4> QED BY <4>1 DEF Parts
    <3>6. ParseParameters(r.path, meta)["event"] = parts[2]
      BY <2>5, <3>3, <3>4 DEF ParseParameters
    <3> QED BY <3>2, <3>5, <3>6
  <2> HIDE DEF meta
  <2> QED BY <2>2, <2>4, <2>5
<1> QED BY <1>4, <1>5, <1>6

\* A cast gives a number of its type, and keeps one that is.
LEMMA ConversionFacts ==
    /\ \A x \in Int : Wrapped(x) \in Word /\ WrappedInt(x) \in Ints
    /\ \A x \in Ints : WrappedInt(x) = x /\ (x \in JsonInts => Signed(x) = x)
    /\ Word \subseteq Nat /\ Ints \subseteq Int /\ 0 \in Word /\ MaxWord \in Word
<1>1. WordSize \in Nat \ {0} /\ IntSize \in Nat \ {0}
  BY ApiAssumption
<1>2. \A x \in Int : Wrapped(x) \in Word /\ WrappedInt(x) \in Ints
  BY <1>1 DEF Wrapped, WrappedInt, Word, Ints, MaxWord
<1>3. \A x \in Ints : WrappedInt(x) = x
  BY <1>1 DEF WrappedInt, Ints
<1>4. \A x \in Ints : x \in JsonInts => Signed(x) = x
  BY <1>3 DEF Signed
<1>5. Word \subseteq Nat /\ Ints \subseteq Int /\ 0 \in Word /\ MaxWord \in Word
  BY <1>1 DEF Word, Ints, MaxWord
<1> QED BY <1>2, <1>3, <1>4, <1>5

\* The two kinds of calls are different, and none is NoCall.
LEMMA CallKinds ==
    StoreCalls \intersect GetCalls = {} /\ NoCall \notin StoreCalls /\ NoCall \notin GetCalls
<1>1. \A c \in StoreCalls : "date" \in DOMAIN c
  BY DEF StoreCalls
<1>2. \A c \in GetCalls : "date" \notin DOMAIN c
  BY DEF GetCalls
<1> QED BY <1>1, <1>2, CallsAssumption

\* What is no request is not accepted.
LEMMA NoRequestFacts == NoRequest \notin EventRequests /\ NoRequest \notin QueryRequests
BY DEF NoRequest, EventRequests, QueryRequests, RoutedTo

\* An accepted request has an event name.
LEMMA NameFacts ==
    ASSUME NEW r \in EventRequests \union QueryRequests
    PROVE  /\ r \in Requests /\ r.method \in {"GET", "POST"}
           /\ Name(r) \in Names /\ Routed(r).parameters["event"].text = Name(r)
<1>1. r \in Requests /\ r.method \in {"GET", "POST"} /\ "event" \in DOMAIN Routed(r).parameters
  BY DEF EventRequests, QueryRequests, RoutedTo, ValidEvent, ValidQuery
<1>2. Len(Parts(r.path)) >= 2 /\ Routed(r).parameters["event"] = Parts(r.path)[2]
  BY <1>1, RoutedFacts
<1>3. Name(r) = Parts(r.path)[2].text
  BY DEF Name, NameOf
<1> QED BY <1>1, <1>2, <1>3, ApiAssumption

\* An accepted POST request: its call stores its record under its name.
LEMMA EventFacts ==
    ASSUME NEW r \in EventRequests
    PROVE  /\ r.method = "POST"
           /\ CallOf[r] \in StoreCalls /\ CallOf[r].name = Name(r)
           /\ CallOf[r].date = DateOf(r) /\ CallOf[r].values = Narrowed(r.body.values)
           /\ DateOf(r) \in Dates /\ DateOf(r) \in Word /\ Narrowed(r.body.values) \in Values
           /\ r.body.values \in Seq(Int)
           /\ \A i \in DOMAIN r.body.values : Signed(r.body.values[i]) \in Ints
<1>1. /\ r \in Requests /\ RoutedTo(r, "event") /\ Has(r, {"date"}) /\ Has(r, {"values"})
      /\ Len(r.body.values) = ArrayLen
  BY DEF EventRequests, ValidEvent, Has
<1>2. r.method = "POST"
  BY <1>1, RoutedFacts DEF RoutedTo
<1>3. /\ Unsigned(r.body.date) \in Word /\ r.body.values \in Seq(Int)
      /\ \A i \in DOMAIN r.body.values : Signed(r.body.values[i]) \in Ints
  <2>1. Unsigned(r.body["date"]) \in Word
    BY <1>1, ApiAssumption
  <2> QED BY <1>1, <2>1, ApiAssumption
<1>4. DateOf(r) \in Dates /\ DateOf(r) \in Word /\ Narrowed(r.body.values) \in Values
  BY <1>1, <1>3, ApiAssumption DEF DateOf
<1>5. CallOf[r] = [name |-> Name(r), date |-> DateOf(r), values |-> Narrowed(r.body.values)]
  BY NameFacts DEF CallOf, StoreCall, DateOf
<1>6. Name(r) \in Names
  BY NameFacts
<1>7. CallOf[r] \in StoreCalls
  BY <1>4, <1>5, <1>6 DEF StoreCalls
<1> QED BY <1>2, <1>3, <1>4, <1>5, <1>7

\* An accepted GET request: its call asks for the records of its name and bounds.
LEMMA QueryFacts ==
    ASSUME NEW r \in QueryRequests
    PROVE  /\ r.method = "GET" /\ r \notin EventRequests /\ r.body.resultUnit \in TimeUnits
           /\ CallOf[r] \in GetCalls /\ CallOf[r].name = Name(r)
           /\ CallOf[r].from = FieldOr(r, "startTimestamp", 0)
           /\ CallOf[r].to = FieldOr(r, "endTimestamp", MaxWord)
           /\ CallOf[r].from \in Word /\ CallOf[r].to \in Word
<1>1. r \in Requests /\ RoutedTo(r, "mean") /\ r.body.resultUnit \in TimeUnits
  BY DEF QueryRequests, ValidQuery
<1>2. r.method = "GET"
  BY <1>1, RoutedFacts DEF RoutedTo
<1>3. r \notin EventRequests
  BY <1>2, EventFacts
<1>4. CallOf[r] = [name |-> Name(r), from |-> FieldOr(r, "startTimestamp", 0),
                   to |-> FieldOr(r, "endTimestamp", MaxWord)]
  BY <1>3, NameFacts DEF CallOf, QueryCall
<1>5. Name(r) \in Names /\ FieldOr(r, "startTimestamp", 0) \in Bounds
      /\ FieldOr(r, "endTimestamp", MaxWord) \in Bounds
  BY <1>1, NameFacts, ApiAssumption
<1>6. CallOf[r] \in GetCalls
  BY <1>4, <1>5 DEF GetCalls
<1>7. FieldOr(r, "startTimestamp", 0) \in Word /\ FieldOr(r, "endTimestamp", MaxWord) \in Word
  BY <1>1, ApiAssumption, ConversionFacts DEF FieldOr
<1> QED BY <1>1, <1>2, <1>3, <1>4, <1>6, <1>7

\* The times of an event, as they are stored, have a total.
LEMMA NarrowedFacts ==
    ASSUME NEW r \in EventRequests
    PROVE  /\ Total(Narrowed(r.body.values)) \in Int
           /\ Total(r.body.values) \in Int
           /\ Representable(r) => Narrowed(r.body.values) = r.body.values
<1> DEFINE values == r.body.values
           D == 1 .. Len(values)
<1>1. values \in Seq(Int) /\ DOMAIN values = D /\ Len(values) \in Nat
  BY EventFacts
<1>2. values \in [D -> Int] /\ IsFiniteSet(D)
  BY <1>1, FS_Interval
<1> HIDE DEF values
<1>3. Narrowed(values) = [i \in D |-> Signed(values[i])]
  BY <1>1 DEF Narrowed
<1>4. Narrowed(values) \in [D -> Int]
  <2>1. \A i \in D : Signed(values[i]) \in Int
    BY <1>1, EventFacts, ConversionFacts DEF values
  <2> QED BY <1>3, <2>1
<1>5. Total(Narrowed(values)) \in Int /\ Total(values) \in Int
  BY <1>2, <1>4, TotalType
<1>6. ASSUME Representable(r)
      PROVE  Narrowed(values) = values
  <2>1. \A i \in D : values[i] \in Ints /\ values[i] \in JsonInts
    BY <1>1, <1>6 DEF Representable, values
  <2>2. \A i \in D : Signed(values[i]) = values[i]
    BY <2>1, ConversionFacts
  <2> QED BY <1>2, <1>3, <2>2
<1> QED BY <1>5, <1>6 DEF values

-----------------------------------------------------------------------------
(* The steps of the storage, as its contract has them *)

\* The storage's contract speaks of the records and calls of EventRecords.
LEMMA StoreFacts ==
    /\ Store!StoreCalls = StoreCalls /\ Store!GetCalls = GetCalls
    /\ Store!EmptyMap = EmptyMap /\ Store!EventMaps = EventMaps
    /\ \A m, d, v : Store!Emplace(m, d, v) = Emplace(m, d, v)
    /\ \A m, from, to : Store!InRange(m, from, to) = InRange(m, from, to)
    /\ \A m, from, to : Store!RunsPastEnd(m, from, to) = RunsPastEnd(m, from, to)
    /\ \A t \in Threads : Store!EndCall(t) <=> EndCall(t)
<1>1. Store!StoreCalls = StoreCalls /\ Store!GetCalls = GetCalls
  BY DEF StoreCalls, GetCalls, Store!StoreCalls, Store!GetCalls
<1>2. Store!EmptyMap = EmptyMap /\ Store!EventMaps = EventMaps
  BY DEF EmptyMap, EventMaps, Store!EmptyMap, Store!EventMaps
<1>3. \A m, d, v : Store!Emplace(m, d, v) = Emplace(m, d, v)
  BY DEF Emplace, Store!Emplace
<1>4. \A m, from, to : Store!InRange(m, from, to) = InRange(m, from, to)
  BY DEF InRange, Store!InRange
<1>5. \A m, from, to : Store!RunsPastEnd(m, from, to) = RunsPastEnd(m, from, to)
  BY DEF RunsPastEnd, Store!RunsPastEnd
<1>6. \A t \in Threads : Store!EndCall(t) <=> EndCall(t)
  BY DEF EndCall, Store!EndCall
<1> QED BY <1>1, <1>2, <1>3, <1>4, <1>5, <1>6

\* A call that begins or ends keeps the types of the history.
LEMMA HistoryFacts ==
    ASSUME TypeOK, NEW t \in Threads
    PROVE  /\ EndCall(t) => /\ call' = [call EXCEPT ![t] = NoCall]
                           /\ early' \subseteq Threads /\ met' \subseteq Threads
           /\ \A c, m : Store!BeginCall(t, c, m) =>
                /\ call[t] = NoCall /\ call' = [call EXCEPT ![t] = c]
                /\ early' \subseteq Threads /\ met' \subseteq Threads
<1>1. EndCall(t) => /\ call' = [call EXCEPT ![t] = NoCall]
                    /\ early' \subseteq Threads /\ met' \subseteq Threads
  BY DEF EndCall, TypeOK
<1>2. ASSUME NEW c, NEW m, Store!BeginCall(t, c, m)
      PROVE  /\ call[t] = NoCall /\ call' = [call EXCEPT ![t] = c]
             /\ early' \subseteq Threads /\ met' \subseteq Threads
  BY <1>2 DEF Store!BeginCall, TypeOK
<1> QED BY <1>1, <1>2

\* Every map of records has a value or none at each date.
LEMMA StoredFacts ==
    ASSUME TypeOK, NEW n \in Names
    PROVE  stored[n] \in EventMaps
BY DEF TypeOK

\* A store takes effect.
LEMMA PutFacts ==
    ASSUME TypeOK, NEW t \in Threads, Store!Put(t)
    PROVE  LET c == call[t]
           IN  /\ c \in StoreCalls /\ c.name \notin broken
               /\ stored' = [stored EXCEPT ![c.name] = Emplace(stored[c.name], c.date, c.values)]
               /\ call' = [call EXCEPT ![t] = NoCall]
               /\ early' \subseteq Threads /\ met' \subseteq Threads
               /\ UNCHANGED <<broken, up, result>>
<1>1. call[t].name \in Names
  BY StoreFacts DEF Store!Put, StoreCalls
<1>2. EndCall(t)
  BY StoreFacts DEF Store!Put
<1> QED BY <1>1, <1>2, StoreFacts, HistoryFacts DEF TypeOK, Store!Put

\* A store that overlaps others loses its name's records.
LEMMA PutUndefinedFacts ==
    ASSUME TypeOK, NEW t \in Threads, Store!PutUndefined(t), stored'[call[t].name] = EmptyMap
    PROVE  LET c == call[t]
           IN  /\ c \in StoreCalls
               /\ stored' = [stored EXCEPT ![c.name] = EmptyMap]
               /\ broken' = broken \union {c.name}
               /\ call' = [call EXCEPT ![t] = NoCall]
               /\ early' \subseteq Threads /\ met' \subseteq Threads
               /\ up' \in BOOLEAN /\ UNCHANGED result
<1>1. call[t] \in StoreCalls /\ call[t].name \in Names
  BY StoreFacts DEF Store!PutUndefined, StoreCalls
<1>2. PICK m : stored' = [stored EXCEPT ![call[t].name] = m]
  BY DEF Store!PutUndefined
<1>3. m = EmptyMap
  BY <1>1, <1>2 DEF TypeOK
<1>4. up' \in BOOLEAN
  BY DEF Store!PutUndefined
<1>5. EndCall(t)
  BY StoreFacts DEF Store!PutUndefined
<1> QED BY <1>1, <1>2, <1>3, <1>4, <1>5, HistoryFacts DEF Store!PutUndefined

\* A query is answered.
LEMMA AnswerFacts ==
    ASSUME TypeOK, NEW t \in Threads, Store!Answer(t)
    PROVE  LET c == call[t]
           IN  /\ c \in GetCalls /\ c.name \notin broken
               /\ result' = [result EXCEPT ![t] = InRange(stored[c.name], c.from, c.to)]
               /\ call' = [call EXCEPT ![t] = NoCall]
               /\ early' \subseteq Threads /\ met' \subseteq Threads
               /\ UNCHANGED <<stored, broken, up>>
<1>1. EndCall(t)
  BY StoreFacts DEF Store!Answer
<1> QED BY <1>1, StoreFacts, HistoryFacts DEF Store!Answer

\* A query of a damaged name, or with inverted bounds, is answered with nothing.
LEMMA AnswerUndefinedFacts ==
    ASSUME TypeOK, NEW t \in Threads, Store!AnswerUndefined(t), result'[t] = {}
    PROVE  LET c == call[t]
           IN  /\ c \in GetCalls
               /\ \/ broken' = broken \union {c.name}
                  \/ broken' = broken /\ RunsPastEnd(stored[c.name], c.from, c.to)
               /\ result' = [result EXCEPT ![t] = {}]
               /\ call' = [call EXCEPT ![t] = NoCall]
               /\ early' \subseteq Threads /\ met' \subseteq Threads
               /\ up' \in BOOLEAN /\ UNCHANGED stored
<1>1. PICK r : result' = [result EXCEPT ![t] = r]
  BY DEF Store!AnswerUndefined
<1>2. r = {}
  BY <1>1 DEF TypeOK
<1>3. up' \in BOOLEAN
  BY DEF Store!AnswerUndefined
<1>4. EndCall(t)
  BY StoreFacts DEF Store!AnswerUndefined
<1> QED BY <1>1, <1>2, <1>3, <1>4, StoreFacts, HistoryFacts DEF Store!AnswerUndefined

\* A request's call reaches the storage.
LEMMA CallFacts ==
    ASSUME TypeOK, NEW t \in Threads, NEW r \in EventRequests \union QueryRequests,
           CallStorage(t, r)
    PROVE  /\ call[t] = NoCall /\ pc[t] = "idle"
           /\ call' = [call EXCEPT ![t] = CallOf[r]]
           /\ early' \subseteq Threads /\ met' \subseteq Threads
           /\ result' = [result EXCEPT ![t] = {}]
           /\ pc' = [pc EXCEPT ![t] = "called"]
           /\ request' = [request EXCEPT ![t] = r]
           /\ response' = [response EXCEPT ![t] = NoResponse]
           /\ UNCHANGED <<stored, broken, up, acked>>
<1>1. PICK m : Store!BeginCall(t, CallOf[r], m)
  BY DEF CallStorage, Store!Invoke
<1> QED BY <1>1, HistoryFacts DEF CallStorage, Store!Invoke, Idle

-----------------------------------------------------------------------------
(* Results and means *)

\* The records of events have totals, and a mean of them has its type.
LEMMA MeanType ==
    ASSUME NEW records, IsFiniteSet(records), NEW unit,
           \A x \in records : \E r \in EventRequests : RecordOf(r) = x
    PROVE  /\ [x \in records |-> Total(x[2])] \in [records -> Int]
           /\ MeanPathLengths(records, unit) \subseteq Means
<1>1. ASSUME NEW x \in records
      PROVE  Total(x[2]) \in Int /\ WrappedInt(Total(x[2])) \in Int
  <2>1. PICK r \in EventRequests : RecordOf(r) = x
    BY <1>1
  <2>2. Narrowed(r.body.values) = x[2]
    BY <2>1 DEF RecordOf
  <2> QED BY <2>2, NarrowedFacts, ConversionFacts
<1>2. /\ Total([x \in records |-> Total(x[2])]) \in Int
      /\ Total([x \in records |-> WrappedInt(Total(x[2]))]) \in Int
  <2> DEFINE f == [x \in records |-> Total(x[2])]
             g == [x \in records |-> WrappedInt(Total(x[2]))]
  <2>1. f \in [records -> Int] /\ g \in [records -> Int]
    BY <1>1
  <2> HIDE DEF f, g
  <2>2. Total(f) \in Int /\ Total(g) \in Int
    BY <2>1, TotalType
  <2> QED BY <2>2 DEF f, g
<1>3. TotalTimes(records) \subseteq Word
  BY <1>2, ConversionFacts DEF TotalTimes
<1>4. Cardinality(records) \in Nat
  BY FS_CardinalityType
<1>5. \A total \in Word : \A count \in Nat : \A u : Mean(total, count, u) \in Means
  BY DEF Mean, Factor, Means
<1>6. Mean(0, 1, "seconds") \in Means
  BY <1>5, ConversionFacts
<1>7. \A total \in TotalTimes(records) : Mean(total, Cardinality(records), unit) \in Means
  BY <1>3, <1>4, <1>5
<1>8. MeanPathLengths(records, unit) \subseteq Means
  BY <1>6, <1>7 DEF MeanPathLengths
<1> QED BY <1>1, <1>8

-----------------------------------------------------------------------------
(* The inductive invariant *)

\* The invariant holds at first.
LEMMA InitIInv == Init => IInv
<1> SUFFICES ASSUME Init PROVE IInv
  OBVIOUS
<1>1. /\ stored = [n \in Names |-> EmptyMap] /\ broken = {} /\ up = TRUE
      /\ call = [t \in Threads |-> NoCall] /\ early = {} /\ met = {}
      /\ result = [t \in Threads |-> {}]
  BY StoreFacts DEF Init, Store!Init
<1>2. EmptyMap \in EventMaps /\ \A d \in Dates : EmptyMap[d] = NoValue
  BY DEF EmptyMap, EventMaps
<1>3. NoResponse \in [code : {0, 200, 400, 500, 501}, mean : Means]
  BY ConversionFacts DEF NoResponse, Response, NoMean, Mean, Factor, Means
<1>4. TypeOK
  BY <1>1, <1>2, <1>3 DEF Init, TypeOK
<1>5. CallsAreRequested /\ ReturnedEventsAreKept /\ ResultsAreAskedFor /\ MeansAreOfResults
  BY <1>1, NoRequestFacts DEF Init, CallsAreRequested, ReturnedEventsAreKept, ResultsAreAskedFor,
     ResultIsAskedFor, MeansAreOfResults
<1>6. RecordsWerePosted
  BY <1>1, <1>2, FS_EmptySet DEF Init, RecordsWerePosted
<1>7. AcknowledgedEventsAreKept
  BY DEF Init, AcknowledgedEventsAreKept
<1> QED BY <1>4, <1>5, <1>6, <1>7 DEF IInv

\* What a thread has been answered stays right, whatever the other threads do.
LEMMA ResultStays ==
    ASSUME IInv, NEW u \in Threads,
           request'[u] = request[u], call'[u] = call[u], result'[u] = result[u], seen'[u] = seen[u],
           broken \subseteq broken', posted \subseteq posted'
    PROVE  ResultIsAskedFor(u)'
<1> DEFINE q == request[u]
<1> SUFFICES ASSUME q \in QueryRequests, call[u] = NoCall, Sound(q)'
             PROVE  /\ \A x \in result[u] : \E r \in AskedBy(q)' : RecordOf(r) = x
                    /\ \A x, y \in result[u] : x[1] = y[1] => x = y
                    /\ \A r \in seen[u] \intersect AskedBy(q)' :
                            \E x \in result[u] : x[1] = DateOf(r)
  BY DEF ResultIsAskedFor, Sound, AskedBy
<1>1. Sound(q)
  BY DEF Sound
<1>2. /\ \A x \in result[u] : \E r \in AskedBy(q) : RecordOf(r) = x
      /\ \A x, y \in result[u] : x[1] = y[1] => x = y
      /\ \A r \in seen[u] \intersect AskedBy(q) : \E x \in result[u] : x[1] = DateOf(r)
  BY <1>1 DEF IInv, ResultsAreAskedFor, ResultIsAskedFor
<1>3. AskedBy(q) \subseteq AskedBy(q)'
  BY DEF AskedBy
<1>4. seen[u] \intersect AskedBy(q)' \subseteq AskedBy(q)
  <2>1. seen[u] \subseteq posted
    BY DEF IInv, TypeOK
  <2> QED BY <2>1 DEF AskedBy
<1> QED BY <1>2, <1>3, <1>4

\* A request that is refused.
LEMMA RefuseIInv ==
    ASSUME IInv, NEW t \in Threads, NEW r \in Requests, Refuse(t, r)
    PROVE  IInv'
<1>1. /\ pc[t] = "idle"
      /\ response' = [response EXCEPT ![t] = Response(RefusalCode(r), NoMean)]
      /\ pc' = [pc EXCEPT ![t] = "idle"]
      /\ request' = [request EXCEPT ![t] = NoRequest]
      /\ seen' = [seen EXCEPT ![t] = {}]
      /\ UNCHANGED <<stored, broken, up, call, early, met, result, posted, acked>>
  BY DEF Refuse, Idle, Finish, Forget, storeVars
<1>2. RefusalCode(r) \in {0, 200, 400, 500, 501}
  BY RoutedFacts DEF RefusalCode, CatchCode
<1>3. Response(RefusalCode(r), NoMean) \in [code : {0, 200, 400, 500, 501}, mean : Means]
  BY <1>2, ConversionFacts DEF Response, NoMean, Mean, Factor, Means
<1>4. TypeOK'
  BY <1>1, <1>3 DEF IInv, TypeOK
<1>5. CallsAreRequested'
  BY <1>1, NoRequestFacts DEF IInv, TypeOK, CallsAreRequested
<1>6. RecordsWerePosted' /\ AcknowledgedEventsAreKept'
  BY <1>1 DEF IInv, RecordsWerePosted, AcknowledgedEventsAreKept, Kept
<1>7. ReturnedEventsAreKept'
  BY <1>1, NoRequestFacts DEF IInv, TypeOK, ReturnedEventsAreKept, Kept
<1>8. ResultsAreAskedFor'
  <2> SUFFICES ASSUME NEW u \in Threads PROVE ResultIsAskedFor(u)'
    BY DEF ResultsAreAskedFor
  <2>1. CASE u = t
    BY <1>1, <2>1, NoRequestFacts DEF IInv, TypeOK, ResultIsAskedFor
  <2>2. CASE u # t
    BY <1>1, <2>2, ResultStays DEF IInv, TypeOK
  <2> QED BY <2>1, <2>2
<1>9. MeansAreOfResults'
  BY <1>1, NoRequestFacts DEF IInv, TypeOK, MeansAreOfResults
<1> QED BY <1>4, <1>5, <1>6, <1>7, <1>8, <1>9 DEF IInv

\* An accepted request calls the storage.
LEMMA CallIInv ==
    ASSUME IInv, NEW t \in Threads, NEW r \in Requests,
           StoreEvent(t, r) \/ GetEventInteractions(t, r)
    PROVE  IInv'
<1>1. /\ r \in EventRequests \union QueryRequests
      /\ posted' = IF r \in EventRequests THEN posted \union {r} ELSE posted
      /\ seen' = [seen EXCEPT ![t] = IF r \in EventRequests THEN {} ELSE acked]
      /\ CallStorage(t, r)
  BY QueryFacts DEF StoreEvent, GetEventInteractions
<1>2. /\ call[t] = NoCall /\ pc[t] = "idle"
      /\ call' = [call EXCEPT ![t] = CallOf[r]]
      /\ early' \subseteq Threads /\ met' \subseteq Threads
      /\ result' = [result EXCEPT ![t] = {}]
      /\ pc' = [pc EXCEPT ![t] = "called"]
      /\ request' = [request EXCEPT ![t] = r]
      /\ response' = [response EXCEPT ![t] = NoResponse]
      /\ UNCHANGED <<stored, broken, up, acked>>
  BY <1>1, CallFacts DEF IInv
<1>3. CallOf[r] \in StoreCalls \union GetCalls /\ CallOf[r] # NoCall
  BY <1>1, EventFacts, QueryFacts, CallKinds
<1>4. NoResponse \in [code : {0, 200, 400, 500, 501}, mean : Means] /\ NoResponse.code = 0
  BY ConversionFacts DEF NoResponse, Response, NoMean, Mean, Factor, Means
<1>5. posted \subseteq posted' /\ posted' \subseteq EventRequests /\ acked' \subseteq posted'
  BY <1>1, <1>2 DEF IInv, TypeOK
<1>6. TypeOK'
  <2>1. seen' \in [Threads -> SUBSET acked']
    BY <1>1, <1>2 DEF IInv, TypeOK
  <2>2. /\ stored' \in [Names -> EventMaps] /\ broken' \subseteq Names /\ up' \in BOOLEAN
        /\ pc' \in [Threads -> {"idle", "called"}]
        /\ early' \subseteq Threads /\ met' \subseteq Threads
    BY <1>2 DEF IInv, TypeOK
  <2>3. /\ call' \in [Threads -> StoreCalls \union GetCalls \union {NoCall}]
        /\ result' \in [Threads -> SUBSET Records]
        /\ request' \in [Threads -> EventRequests \union QueryRequests \union {NoRequest}]
    BY <1>1, <1>2, <1>3 DEF IInv, TypeOK
  <2>4. response' \in [Threads -> [code : {0, 200, 400, 500, 501}, mean : Means]]
    BY <1>2, <1>4 DEF IInv, TypeOK
  <2> QED BY <1>5, <2>1, <2>2, <2>3, <2>4 DEF TypeOK
<1>7. CallsAreRequested'
  <2> SUFFICES ASSUME NEW u \in Threads
               PROVE  /\ pc'[u] = "idle" => call'[u] = NoCall /\ request'[u] \notin EventRequests
                      /\ pc'[u] = "called" =>
                            /\ request'[u] # NoRequest /\ response'[u].code = 0
                            /\ call'[u] \in {CallOf[request'[u]], NoCall}
                      /\ request'[u] \in EventRequests => request'[u] \in posted'
    BY DEF CallsAreRequested
  <2>1. CASE u = t
    <3>1. pc'[t] = "called" /\ request'[t] = r /\ response'[t] = NoResponse /\ call'[t] = CallOf[r]
      BY <1>2 DEF IInv, TypeOK
    <3>2. r # NoRequest /\ (r \in EventRequests => r \in posted')
      BY <1>1, NoRequestFacts
    <3> QED BY <1>4, <2>1, <3>1, <3>2
  <2>2. CASE u # t
    <3>1. /\ pc'[u] = pc[u] /\ call'[u] = call[u] /\ request'[u] = request[u]
          /\ response'[u] = response[u]
      BY <1>2, <2>2 DEF IInv, TypeOK
    <3> QED BY <1>5, <3>1 DEF IInv, CallsAreRequested
  <2> QED BY <2>1, <2>2
<1>8. RecordsWerePosted'
  <2>1. IsFiniteSet(posted')
    BY <1>1, FS_AddElement DEF IInv, RecordsWerePosted
  <2>2. \A u \in Threads : result'[u] \subseteq result[u]
    BY <1>2 DEF IInv, TypeOK
  <2> QED BY <1>2, <1>5, <2>1, <2>2 DEF IInv, RecordsWerePosted
<1>9. AcknowledgedEventsAreKept'
  BY <1>2 DEF IInv, AcknowledgedEventsAreKept, Kept
<1>10. ReturnedEventsAreKept'
  BY <1>2, <1>3 DEF IInv, TypeOK, ReturnedEventsAreKept, Kept
<1>11. ResultsAreAskedFor'
  <2> SUFFICES ASSUME NEW u \in Threads PROVE ResultIsAskedFor(u)'
    BY DEF ResultsAreAskedFor
  <2>1. CASE u = t
    <3>1. call'[u] # NoCall
      BY <1>2, <1>3, <2>1 DEF IInv, TypeOK
    <3> QED BY <3>1 DEF ResultIsAskedFor
  <2>2. CASE u # t
    BY <1>1, <1>2, <1>5, <2>2, ResultStays DEF IInv, TypeOK
  <2> QED BY <2>1, <2>2
<1>12. MeansAreOfResults'
  BY <1>2 DEF IInv, TypeOK, MeansAreOfResults
<1> QED BY <1>6, <1>7, <1>8, <1>9, <1>10, <1>11, <1>12 DEF IInv

\* A thread in the storage: its call is the one of its request.
LEMMA InStorage ==
    ASSUME IInv, NEW t \in Threads, call[t] # NoCall
    PROVE  /\ pc[t] = "called" /\ call[t] = CallOf[request[t]]
           /\ request[t] \in EventRequests \union QueryRequests
           /\ call[t] \in StoreCalls => request[t] \in EventRequests /\ request[t] \in posted
           /\ call[t] \in GetCalls => request[t] \in QueryRequests
<1>1. pc[t] = "called" /\ call[t] = CallOf[request[t]] /\ request[t] # NoRequest
  BY DEF IInv, TypeOK, CallsAreRequested
<1>2. request[t] \in EventRequests \union QueryRequests
  BY <1>1 DEF IInv, TypeOK
<1>3. request[t] \in EventRequests => request[t] \in posted
  BY DEF IInv, CallsAreRequested
<1> QED BY <1>1, <1>2, <1>3, EventFacts, QueryFacts, CallKinds

\* A store: its event is kept, and so is every event that was.
LEMMA StoreIInv ==
    ASSUME IInv, NEW t \in Threads,
           \/ Store!Put(t)
           \/ Store!PutUndefined(t) /\ stored'[call[t].name] = EmptyMap,
           UNCHANGED <<pc, request, response, posted, acked, seen>>
    PROVE  IInv'
<1> DEFINE c == call[t]
           r == request[t]
<1>1. /\ c \in StoreCalls /\ call' = [call EXCEPT ![t] = NoCall] /\ UNCHANGED result
      /\ up' \in BOOLEAN /\ early' \subseteq Threads /\ met' \subseteq Threads
      /\ broken \subseteq broken' /\ broken' \subseteq broken \union {c.name}
      /\ \/ /\ c.name \notin broken
            /\ stored' = [stored EXCEPT ![c.name] = Emplace(stored[c.name], c.date, c.values)]
         \/ /\ c.name \in broken'
            /\ stored' = [stored EXCEPT ![c.name] = EmptyMap]
  <2>1. CASE Store!Put(t)
    <3>1. up' = up /\ up \in BOOLEAN
      BY <2>1, PutFacts DEF IInv, TypeOK
    <3> QED BY <2>1, <3>1, PutFacts DEF IInv
  <2>2. CASE Store!PutUndefined(t) /\ stored'[call[t].name] = EmptyMap
    BY <2>2, PutUndefinedFacts DEF IInv
  <2> QED BY <2>1, <2>2
<1>2. /\ pc[t] = "called" /\ r \in EventRequests /\ r \in posted /\ c = CallOf[r]
      /\ c.name = Name(r) /\ c.date = DateOf(r) /\ c.values = Narrowed(r.body.values)
      /\ c.name \in Names /\ c.date \in Dates /\ c.values \in Values
  <2>1. call[t] # NoCall
    BY <1>1, CallKinds
  <2>2. pc[t] = "called" /\ r \in EventRequests /\ r \in posted /\ c = CallOf[r]
    BY <1>1, <2>1, InStorage
  <2>3. c.name \in Names /\ c.date \in Dates /\ c.values \in Values
    BY <1>1 DEF StoreCalls
  <2> HIDE DEF c, r
  <2> QED BY <2>2, <2>3, EventFacts
<1> HIDE DEF c, r
<1>3. \A n \in Names : stored[n] \in EventMaps
  BY StoredFacts DEF IInv
<1>4. stored' \in [Names -> EventMaps] /\ \A n \in Names \ {c.name} : stored'[n] = stored[n]
  <2>1. Emplace(stored[c.name], c.date, c.values) \in EventMaps /\ EmptyMap \in EventMaps
    BY <1>2, <1>3 DEF Emplace, EmptyMap, EventMaps
  <2> QED BY <1>1, <1>2, <2>1 DEF IInv, TypeOK
<1>5. TypeOK'
  BY <1>1, <1>2, <1>4 DEF IInv, TypeOK
<1>6. \A n \in Names : \A d \in Dates :
        /\ stored'[n][d] # NoValue =>
                \/ stored'[n][d] = stored[n][d]
                \/ n = c.name /\ d = c.date /\ stored'[n][d] = c.values
        /\ stored[n][d] # NoValue => stored'[n][d] # NoValue \/ n \in broken'
  <2> SUFFICES ASSUME NEW n \in Names, NEW d \in Dates
               PROVE  /\ stored'[n][d] # NoValue =>
                            \/ stored'[n][d] = stored[n][d]
                            \/ n = c.name /\ d = c.date /\ stored'[n][d] = c.values
                      /\ stored[n][d] # NoValue => stored'[n][d] # NoValue \/ n \in broken'
    OBVIOUS
  <2>1. CASE n # c.name
    BY <1>4, <2>1
  <2>2. CASE n = c.name /\ stored'[n] = Emplace(stored[n], c.date, c.values)
    BY <1>2, <1>3, <2>2 DEF Emplace, EventMaps
  <2>3. CASE n = c.name /\ n \in broken' /\ stored'[n] = EmptyMap
    BY <2>3 DEF EmptyMap
  <2>4. n = c.name => stored'[n] = Emplace(stored[n], c.date, c.values)
                      \/ (n \in broken' /\ stored'[n] = EmptyMap)
    BY <1>1, <1>2 DEF IInv, TypeOK
  <2> QED BY <2>1, <2>2, <2>3, <2>4
<1>7. Kept(r)'
  <2>0. r' = r
    BY DEF r
  <2>1. CASE c.name \in broken'
    BY <1>2, <2>0, <2>1 DEF Kept
  <2>2. CASE stored' = [stored EXCEPT ![c.name] = Emplace(stored[c.name], c.date, c.values)]
    <3>1. stored'[c.name] = Emplace(stored[c.name], c.date, c.values)
      BY <1>2, <2>2 DEF IInv, TypeOK
    <3>2. stored'[c.name][c.date] # NoValue
      BY <1>2, <1>3, <3>1, RecordsAssumption DEF Emplace, EventMaps
    <3> QED BY <1>2, <2>0, <3>2 DEF Kept
  <2> QED BY <1>1, <2>1, <2>2
<1>8. \A e \in EventRequests : Kept(e) => Kept(e)'
  <2> SUFFICES ASSUME NEW e \in EventRequests, Kept(e) PROVE Kept(e)'
    OBVIOUS
  <2>1. Name(e) \in Names /\ DateOf(e) \in Dates
    BY NameFacts, EventFacts
  <2> QED BY <1>1, <1>6, <2>1 DEF Kept
<1>9. CallsAreRequested'
  BY <1>1, <1>2 DEF IInv, TypeOK, CallsAreRequested
<1>10. RecordsWerePosted'
  <2>1. \A n \in Names : \A d \in Dates :
            stored'[n][d] # NoValue =>
                \E e \in posted : Name(e) = n /\ RecordOf(e) = <<d, stored'[n][d]>>
    <3> SUFFICES ASSUME NEW n \in Names, NEW d \in Dates, stored'[n][d] # NoValue
                 PROVE  \E e \in posted : Name(e) = n /\ RecordOf(e) = <<d, stored'[n][d]>>
      OBVIOUS
    <3>1. CASE stored'[n][d] = stored[n][d]
      BY <3>1 DEF IInv, RecordsWerePosted
    <3>2. CASE n = c.name /\ d = c.date /\ stored'[n][d] = c.values
      BY <1>2, <3>2 DEF RecordOf
    <3> QED BY <1>6, <3>1, <3>2
  <2> QED BY <1>1, <2>1 DEF IInv, RecordsWerePosted
<1>11. AcknowledgedEventsAreKept'
  <2>1. \A e \in acked : e \in EventRequests /\ Kept(e)
    BY DEF IInv, TypeOK, AcknowledgedEventsAreKept
  <2> QED BY <1>8, <2>1 DEF AcknowledgedEventsAreKept
<1>12. ReturnedEventsAreKept'
  <2> SUFFICES ASSUME NEW u \in Threads, pc[u] = "called", call'[u] = NoCall,
                      request[u] \in EventRequests
               PROVE  Kept(request[u])'
    BY DEF ReturnedEventsAreKept, Kept
  <2>1. CASE u = t
    BY <1>7, <2>1 DEF r
  <2>2. CASE u # t
    <3>1. Kept(request[u])
      BY <1>1, <2>2 DEF IInv, TypeOK, ReturnedEventsAreKept
    <3> QED BY <1>8, <3>1
  <2> QED BY <2>1, <2>2
<1>13. ResultsAreAskedFor'
  <2> SUFFICES ASSUME NEW u \in Threads PROVE ResultIsAskedFor(u)'
    BY DEF ResultsAreAskedFor
  <2>1. CASE u = t
    <3>1. request'[u] \notin QueryRequests
      BY <1>2, <2>1, QueryFacts DEF r
    <3> QED BY <3>1 DEF ResultIsAskedFor
  <2>2. CASE u # t
    BY <1>1, <2>2, ResultStays DEF IInv, TypeOK
  <2> QED BY <2>1, <2>2
<1>14. MeansAreOfResults'
  BY <1>1 DEF IInv, MeansAreOfResults
<1> QED BY <1>5, <1>9, <1>10, <1>11, <1>12, <1>13, <1>14 DEF IInv

\* A query: its result has what it asks for.
LEMMA AnswerIInv ==
    ASSUME IInv, NEW t \in Threads,
           \/ Store!Answer(t)
           \/ Store!AnswerUndefined(t) /\ result'[t] = {},
           UNCHANGED <<pc, request, response, posted, acked, seen>>
    PROVE  IInv'
<1> DEFINE c == call[t]
           q == request[t]
           found == InRange(stored[c.name], c.from, c.to)
<1>1. /\ c \in GetCalls /\ call' = [call EXCEPT ![t] = NoCall] /\ UNCHANGED stored
      /\ up' \in BOOLEAN /\ early' \subseteq Threads /\ met' \subseteq Threads
      /\ broken \subseteq broken' /\ broken' \subseteq broken \union {c.name}
      /\ \/ result' = [result EXCEPT ![t] = found]
         \/ /\ result' = [result EXCEPT ![t] = {}]
            /\ c.name \in broken' \/ RunsPastEnd(stored[c.name], c.from, c.to)
  <2>1. CASE Store!Answer(t)
    <3>1. up' = up /\ up \in BOOLEAN
      BY <2>1, AnswerFacts DEF IInv, TypeOK
    <3> QED BY <2>1, <3>1, AnswerFacts DEF IInv
  <2>2. CASE Store!AnswerUndefined(t) /\ result'[t] = {}
    BY <2>2, AnswerUndefinedFacts DEF IInv
  <2> QED BY <2>1, <2>2
<1>2. /\ pc[t] = "called" /\ q \in QueryRequests /\ q \notin EventRequests
      /\ c.name = Name(q) /\ c.name \in Names
      /\ c.from = FieldOr(q, "startTimestamp", 0) /\ c.to = FieldOr(q, "endTimestamp", MaxWord)
  <2>1. call[t] # NoCall
    BY <1>1, CallKinds
  <2>2. pc[t] = "called" /\ q \in QueryRequests /\ c = CallOf[q]
    BY <1>1, <2>1, InStorage
  <2>3. c.name \in Names
    BY <1>1 DEF GetCalls
  <2> HIDE DEF c, q, found
  <2> QED BY <2>2, <2>3, QueryFacts
<1>3. q' = q
  OBVIOUS
<1>4. found \subseteq Records /\ \A x \in found :
        /\ x[1] \in Dates /\ c.from <= x[1] /\ x[1] <= c.to
        /\ x = <<x[1], stored[c.name][x[1]]>> /\ stored[c.name][x[1]] # NoValue
  <2>1. stored[c.name] \in EventMaps
    BY <1>2, StoredFacts DEF IInv
  <2> QED BY <2>1 DEF InRange, EventMaps, Records
<1>5. \A d \in Dates : c.from <= d /\ d <= c.to /\ stored[c.name][d] # NoValue =>
            \E x \in found : x[1] = d
  <2> SUFFICES ASSUME NEW d \in Dates, c.from <= d /\ d <= c.to /\ stored[c.name][d] # NoValue
               PROVE  \E x \in found : x[1] = d
    OBVIOUS
  <2>1. <<d, stored[c.name][d]>> \in found
    BY DEF InRange
  <2>2. <<d, stored[c.name][d]>>[1] = d
    OBVIOUS
  <2> HIDE DEF found
  <2> QED BY <2>1, <2>2
<1> HIDE DEF c, q, found
<1>6. result'[t] \in {found, {}} /\ \A u \in Threads \ {t} : result'[u] = result[u]
  BY <1>1 DEF IInv, TypeOK
<1>7. TypeOK'
  BY <1>1, <1>2, <1>4 DEF IInv, TypeOK
<1>8. CallsAreRequested'
  BY <1>1, <1>2 DEF IInv, TypeOK, CallsAreRequested
<1>9. \A x \in found : \E r \in posted : Name(r) = Name(q) /\ RecordOf(r) = x
  BY <1>2, <1>4 DEF IInv, RecordsWerePosted
<1>10. RecordsWerePosted'
  <2>1. \A u \in Threads : \A x \in result'[u] : \E r \in posted : RecordOf(r) = x
    BY <1>6, <1>9 DEF IInv, RecordsWerePosted
  <2> QED BY <1>1, <2>1 DEF IInv, RecordsWerePosted
<1>11. \A e : Kept(e) => Kept(e)'
  BY <1>1 DEF Kept
<1>12. AcknowledgedEventsAreKept'
  BY <1>11 DEF IInv, AcknowledgedEventsAreKept
<1>13. ReturnedEventsAreKept'
  <2> SUFFICES ASSUME NEW u \in Threads, pc[u] = "called", call'[u] = NoCall,
                      request[u] \in EventRequests
               PROVE  Kept(request[u])'
    BY DEF ReturnedEventsAreKept, Kept
  <2>1. u # t
    BY <1>2 DEF q
  <2>2. Kept(request[u])
    BY <1>1, <2>1 DEF IInv, TypeOK, ReturnedEventsAreKept
  <2> QED BY <1>1, <2>2 DEF Kept
<1>14. ResultsAreAskedFor'
  <2> SUFFICES ASSUME NEW u \in Threads PROVE ResultIsAskedFor(u)'
    BY DEF ResultsAreAskedFor
  <2>1. CASE u = t
    <3> SUFFICES ASSUME Sound(q)'
                 PROVE  /\ \A x \in result'[t] : \E r \in AskedBy(q) : RecordOf(r) = x
                        /\ \A x, y \in result'[t] : x[1] = y[1] => x = y
                        /\ \A r \in seen[t] \intersect AskedBy(q) :
                                \E x \in result'[t] : x[1] = DateOf(r)
      BY <1>3, <2>1 DEF ResultIsAskedFor, AskedBy, q
    <3>1. Name(q) \notin broken' /\ c.from <= c.to
      BY <1>2, <1>3, ConversionFacts, QueryFacts DEF Sound, FieldOr, Has, MaxWord, Word
    <3>2. ~RunsPastEnd(stored[c.name], c.from, c.to)
      <4>1. c.from \in Nat /\ c.to \in Nat /\ \A d \in Dates : d \in Nat
        BY <1>1, RecordsAssumption DEF GetCalls
      <4>2. \A d \in Dates : ~(c.to < d /\ d < c.from)
        BY <3>1, <4>1
      <4> QED BY <4>2 DEF RunsPastEnd
    <3>3. result'[t] = found
      BY <1>1, <1>2, <3>1, <3>2 DEF IInv, TypeOK
    <3>4. \A r \in EventRequests : Name(r) = Name(q) =>
            (r \in posted /\ c.from <= DateOf(r) /\ DateOf(r) <= c.to <=> r \in AskedBy(q))
      BY <1>2, EventFacts, ConversionFacts DEF AskedBy, FieldOr, Word, MaxWord
    <3>5. \A x \in found : \E r \in AskedBy(q) : RecordOf(r) = x
      BY <1>4, <1>9, <3>4 DEF RecordOf, IInv, TypeOK
    <3>6. \A x, y \in found : x[1] = y[1] => x = y
      BY <1>4
    <3>7. ASSUME NEW r \in seen[t] \intersect AskedBy(q)
          PROVE  \E x \in found : x[1] = DateOf(r)
      <4>1. r \in acked /\ r \in EventRequests /\ r \in posted /\ Name(r) = Name(q)
        BY DEF IInv, TypeOK, AskedBy
      <4>2. DateOf(r) \in Dates /\ c.from <= DateOf(r) /\ DateOf(r) <= c.to
        BY <3>4, <4>1, EventFacts
      <4>3. stored[c.name][DateOf(r)] # NoValue
        BY <1>1, <1>2, <3>1, <4>1 DEF IInv, AcknowledgedEventsAreKept, Kept
      <4> QED BY <1>5, <4>2, <4>3
    <3> QED BY <3>3, <3>5, <3>6, <3>7
  <2>2. CASE u # t
    BY <1>1, <2>2, ResultStays DEF IInv, TypeOK
  <2> QED BY <2>1, <2>2
<1>15. MeansAreOfResults'
  <2>1. \A u \in Threads : pc[u] = "idle" => u # t /\ result'[u] = result[u]
    BY <1>2, <1>6
  <2> QED BY <2>1 DEF IInv, MeansAreOfResults
<1> QED BY <1>7, <1>8, <1>10, <1>12, <1>13, <1>14, <1>15 DEF IInv

\* What a thread answers is a response of its type.
LEMMA ResponseType ==
    ASSUME TypeOK, NEW t \in Threads, NEW mean \in Means, Finish(t, 200, mean)
    PROVE  /\ response' \in [Threads -> [code : {0, 200, 400, 500, 501}, mean : Means]]
           /\ pc' \in [Threads -> {"idle", "called"}]
           /\ response'[t].mean = mean /\ pc'[t] = "idle"
           /\ \A u \in Threads \ {t} : response'[u] = response[u] /\ pc'[u] = pc[u]
<1>1. Response(200, mean) \in [code : {0, 200, 400, 500, 501}, mean : Means]
      /\ Response(200, mean).mean = mean
  BY DEF Response
<1> QED BY <1>1 DEF Finish, TypeOK

\* A POST request is answered: its event is kept.
LEMMA AnswerPostIInv ==
    ASSUME IInv, NEW t \in Threads, AnswerPost(t)
    PROVE  IInv'
<1>1. /\ pc[t] = "called" /\ call[t] = NoCall /\ request[t].method = "POST"
      /\ Finish(t, 200, NoMean)
      /\ acked' = acked \union {request[t]}
      /\ request' = [request EXCEPT ![t] = NoRequest]
      /\ seen' = [seen EXCEPT ![t] = {}]
      /\ UNCHANGED <<stored, broken, up, call, early, met, result, posted>>
  BY DEF AnswerPost, Returned, Forget, storeVars
<1>2. request[t] \in EventRequests /\ request[t] \in posted /\ Kept(request[t])
  <2>1. request[t] \in EventRequests \union QueryRequests
    BY <1>1 DEF IInv, TypeOK, CallsAreRequested
  <2>2. request[t] \in EventRequests
    BY <1>1, <2>1, QueryFacts
  <2> QED BY <1>1, <2>2 DEF IInv, CallsAreRequested, ReturnedEventsAreKept
<1>3. NoMean \in Means
  BY ConversionFacts DEF NoMean, Mean, Factor, Means
<1>4. /\ response' \in [Threads -> [code : {0, 200, 400, 500, 501}, mean : Means]]
      /\ pc' \in [Threads -> {"idle", "called"}]
      /\ pc'[t] = "idle"
      /\ \A u \in Threads \ {t} : response'[u] = response[u] /\ pc'[u] = pc[u]
  BY <1>1, <1>3, ResponseType DEF IInv
<1>5. request'[t] = NoRequest /\ \A u \in Threads \ {t} : request'[u] = request[u]
  BY <1>1 DEF IInv, TypeOK
<1>6. TypeOK'
  <2>1. acked' \subseteq posted' /\ seen' \in [Threads -> SUBSET acked']
    BY <1>1, <1>2 DEF IInv, TypeOK
  <2>2. request' \in [Threads -> EventRequests \union QueryRequests \union {NoRequest}]
    BY <1>1 DEF IInv, TypeOK
  <2> QED BY <1>1, <1>4, <2>1, <2>2 DEF IInv, TypeOK
<1>7. CallsAreRequested'
  BY <1>1, <1>4, <1>5, NoRequestFacts DEF IInv, CallsAreRequested
<1>8. RecordsWerePosted'
  BY <1>1 DEF IInv, RecordsWerePosted
<1>9. \A r : Kept(r) => Kept(r)'
  BY <1>1 DEF Kept
<1>10. AcknowledgedEventsAreKept'
  BY <1>1, <1>2, <1>9 DEF IInv, AcknowledgedEventsAreKept
<1>11. ReturnedEventsAreKept'
  BY <1>1, <1>4, <1>5, <1>9, NoRequestFacts DEF IInv, ReturnedEventsAreKept, Kept
<1>12. ResultsAreAskedFor'
  <2> SUFFICES ASSUME NEW u \in Threads PROVE ResultIsAskedFor(u)'
    BY DEF ResultsAreAskedFor
  <2>1. CASE u = t
    BY <1>5, <2>1, NoRequestFacts DEF ResultIsAskedFor
  <2>2. CASE u # t
    BY <1>1, <2>2, ResultStays DEF IInv, TypeOK
  <2> QED BY <2>1, <2>2
<1>13. MeansAreOfResults'
  BY <1>1, <1>4, <1>5, NoRequestFacts DEF IInv, MeansAreOfResults
<1> QED BY <1>6, <1>7, <1>8, <1>10, <1>11, <1>12, <1>13 DEF IInv

\* A thread's result is finite, and has the records of events.
LEMMA ResultFacts ==
    ASSUME IInv, NEW t \in Threads
    PROVE  /\ IsFiniteSet(result[t])
           /\ \A x \in result[t] : \E r \in EventRequests : RecordOf(r) = x
<1> DEFINE f == [r \in posted |-> RecordOf(r)]
           image == {RecordOf(r) : r \in posted}
<1>1. f \in Surjection(posted, image)
  BY DEF Surjection
<1>2. IsFiniteSet(image)
  BY <1>1, FS_Surjection DEF IInv, RecordsWerePosted
<1>3. \A x \in result[t] : \E r \in posted : RecordOf(r) = x
  BY DEF IInv, RecordsWerePosted
<1>4. IsFiniteSet(result[t])
  BY <1>2, <1>3, FS_Subset
<1> QED BY <1>3, <1>4 DEF IInv, TypeOK

\* A GET request is answered, with a mean of its result.
LEMMA AnswerGetIInv ==
    ASSUME IInv, NEW t \in Threads, AnswerGet(t)
    PROVE  IInv'
<1>1. /\ pc[t] = "called" /\ call[t] = NoCall /\ request[t].method = "GET"
      /\ UNCHANGED <<stored, broken, up, call, early, met, result, request, posted, acked, seen>>
  BY DEF AnswerGet, Returned, storeVars
<1>2. PICK mean \in MeanPathLengths(result[t], request[t].body.resultUnit) : Finish(t, 200, mean)
  BY DEF AnswerGet
<1>3. mean \in Means
  BY <1>2, ResultFacts, MeanType
<1>4. /\ response' \in [Threads -> [code : {0, 200, 400, 500, 501}, mean : Means]]
      /\ pc' \in [Threads -> {"idle", "called"}]
      /\ pc'[t] = "idle" /\ response'[t].mean = mean
      /\ \A u \in Threads \ {t} : response'[u] = response[u] /\ pc'[u] = pc[u]
  BY <1>2, <1>3, ResponseType DEF IInv
<1>5. request[t] \notin EventRequests
  BY <1>1, EventFacts
<1>6. TypeOK'
  BY <1>1, <1>4 DEF IInv, TypeOK
<1>7. CallsAreRequested'
  BY <1>1, <1>4, <1>5 DEF IInv, CallsAreRequested
<1>8. RecordsWerePosted' /\ AcknowledgedEventsAreKept'
  BY <1>1 DEF IInv, RecordsWerePosted, AcknowledgedEventsAreKept, Kept
<1>9. ReturnedEventsAreKept'
  BY <1>1, <1>4, <1>5 DEF IInv, ReturnedEventsAreKept, Kept
<1>10. ResultsAreAskedFor'
  <2> SUFFICES ASSUME NEW u \in Threads PROVE ResultIsAskedFor(u)'
    BY DEF ResultsAreAskedFor
  <2> QED BY <1>1, ResultStays
<1>11. MeansAreOfResults'
  <2> SUFFICES ASSUME NEW u \in Threads, pc'[u] = "idle", request[u] \in QueryRequests
               PROVE  response'[u].mean \in MeanPathLengths(result[u], request[u].body.resultUnit)
    BY <1>1 DEF MeansAreOfResults
  <2>1. CASE u = t
    BY <1>2, <1>4, <2>1
  <2>2. CASE u # t
    BY <1>4, <2>2 DEF IInv, MeansAreOfResults
  <2> QED BY <2>1, <2>2
<1> QED BY <1>6, <1>7, <1>8, <1>9, <1>10, <1>11 DEF IInv

\* Every step keeps the invariant.
LEMMA NextIInv == IInv /\ [Next]_vars => IInv'
<1> SUFFICES ASSUME IInv, [Next]_vars PROVE IInv'
  OBVIOUS
<1>1. ASSUME NEW t \in Threads, NEW r \in Requests,
             Refuse(t, r) \/ StoreEvent(t, r) \/ GetEventInteractions(t, r)
      PROVE  IInv'
  BY <1>1, RefuseIInv, CallIInv
<1>2. ASSUME NEW t \in Threads, StorageStep(t) PROVE IInv'
  BY <1>2, StoreIInv, AnswerIInv DEF StorageStep, UndefinedStep
<1>3. ASSUME NEW t \in Threads, AnswerPost(t) \/ AnswerGet(t) PROVE IInv'
  BY <1>3, AnswerPostIInv, AnswerGetIInv
<1>4. CASE UNCHANGED vars
  BY <1>4 DEF vars, storeVars, IInv, TypeOK, CallsAreRequested, RecordsWerePosted,
     AcknowledgedEventsAreKept, ReturnedEventsAreKept, ResultsAreAskedFor, ResultIsAskedFor,
     MeansAreOfResults, Kept, Sound, AskedBy
<1> QED BY <1>1, <1>2, <1>3, <1>4 DEF Next, Ended

\* The conjuncts of IInv hold in every reachable state.
THEOREM InductiveInvariant == Spec => []IInv
BY InitIInv, NextIInv, PTL DEF Spec

\* The variables keep their types, whatever the requests carry.
THEOREM TypeCorrect == Spec => []TypeOK
<1>1. IInv => TypeOK
  BY DEF IInv
<1> QED BY <1>1, InductiveInvariant, PTL

\* An event whose POST was answered 200 stays.
THEOREM EventsAreKept == Spec => []AcknowledgedEventsAreKept
<1>1. IInv => AcknowledgedEventsAreKept
  BY DEF IInv
<1> QED BY <1>1, InductiveInvariant, PTL

\* The total of records is that of the numbers the clients wrote, when each record
\* is the one of an event, and all the numbers and sums fit their types.
LEMMA TotalIsTrue ==
    ASSUME NEW records, IsFiniteSet(records), records # {},
           NEW events, IsFiniteSet(events), events \subseteq EventRequests,
           NEW b \in Bijection(records, events),
           \A x \in records : RecordOf(b[x]) = x,
           \A r \in events : Representable(r)
    PROVE  TotalTimes(records) = {Wrapped(TrueTotal(events))}
<1> DEFINE f == [x \in records |-> Total(x[2])]
           g == [x \in records |-> WrappedInt(Total(x[2]))]
           h == [r \in events |-> Total(r.body.values)]
<1>1. /\ b \in [records -> events]
      /\ \A x, y \in records : b[x] = b[y] => x = y
      /\ \A r \in events : \E x \in records : b[x] = r
  BY DEF Bijection, Injection, Surjection
<1>2. ASSUME NEW x \in records
      PROVE  Total(x[2]) = Total(b[x].body.values) /\ Total(x[2]) \in Ints
  <2>1. b[x] \in events /\ b[x] \in EventRequests /\ Representable(b[x])
    BY <1>1
  <2>2. Narrowed(b[x].body.values) = b[x].body.values
    BY <2>1, NarrowedFacts
  <2>3. x[2] = Narrowed(b[x].body.values)
    BY DEF RecordOf
  <2> QED BY <2>1, <2>2, <2>3 DEF Representable
<1>3. h \in [events -> Int] /\ f \in [records -> Int]
  <2>1. \A r \in events : Total(r.body.values) \in Int
    BY NarrowedFacts
  <2>2. \A x \in records : Total(x[2]) \in Int
    BY <1>2, ConversionFacts
  <2> QED BY <2>1, <2>2
<1>4. g = f
  BY <1>2, ConversionFacts
<1>5. \A x \in records : f[x] = h[b[x]]
  BY <1>1, <1>2
<1> HIDE DEF f, g, h
<1>6. Total(f) = Total(h)
  BY <1>1, <1>3, <1>5, SameTotal
<1>7. Total(h) = TrueTotal(events)
  BY DEF h, TrueTotal
<1>8. TotalTimes(records) = {Wrapped(Total(g)), Wrapped(Total(f))}
  BY DEF TotalTimes, f, g
<1> QED BY <1>4, <1>6, <1>7, <1>8

\* A mean that is answered is the mean of events that clients posted.
THEOREM MeanIsRight == Spec => []MeanIsOfPostedEvents
<1>1. IInv => MeanIsOfPostedEvents
  <2> SUFFICES ASSUME IInv, NEW t \in Threads, AnsweredQuery(t)
               PROVE  \E events \in SUBSET AskedBy(request[t]) :
                        /\ Counts(t, events)
                        /\ (\A r \in events : Representable(r)) =>
                                response[t].mean.total = Wrapped(TrueTotal(events))
    BY DEF MeanIsOfPostedEvents
  <2> DEFINE q == request[t]
             found == result[t]
             mean == response[t].mean
             EventOf(x) == CHOOSE r \in AskedBy(q) : RecordOf(r) = x
             b == [x \in found |-> EventOf(x)]
             events == {EventOf(x) : x \in found}
  <2>1. pc[t] = "idle" /\ call[t] = NoCall /\ q \in QueryRequests
    <3>1. pc[t] = "idle"
      BY DEF IInv, TypeOK, CallsAreRequested, AnsweredQuery
    <3> QED BY <3>1 DEF IInv, TypeOK, CallsAreRequested, AnsweredQuery
  <2>2. mean \in MeanPathLengths(found, q.body.resultUnit)
    BY <2>1 DEF IInv, MeansAreOfResults
  <2>3. /\ \A x \in found : \E r \in AskedBy(q) : RecordOf(r) = x
        /\ \A x, y \in found : x[1] = y[1] => x = y
        /\ \A r \in seen[t] \intersect AskedBy(q) : \E x \in found : x[1] = DateOf(r)
    BY <2>1 DEF IInv, ResultsAreAskedFor, ResultIsAskedFor, AnsweredQuery
  <2>4. ASSUME NEW x \in found
        PROVE  EventOf(x) \in AskedBy(q) /\ RecordOf(EventOf(x)) = x /\ DateOf(EventOf(x)) = x[1]
    <3>1. EventOf(x) \in AskedBy(q) /\ RecordOf(EventOf(x)) = x
      BY <2>3
    <3> HIDE DEF EventOf
    <3> QED BY <3>1 DEF RecordOf
  <2> HIDE DEF q, found, mean, EventOf
  <2>5. events \subseteq AskedBy(q) /\ AskedBy(q) \subseteq EventRequests
    BY <2>4 DEF AskedBy, IInv, TypeOK
  <2>6. \A r, s \in events : DateOf(r) = DateOf(s) => r = s
    BY <2>3, <2>4
  <2>7. \A r \in seen[t] \intersect AskedBy(q) : \E s \in events : DateOf(s) = DateOf(r)
    BY <2>3, <2>4
  <2>8. b \in Bijection(found, events)
    BY <2>4 DEF Bijection, Injection, IsInjective, Surjection
  <2>9. IsFiniteSet(found)
    BY ResultFacts DEF found
  <2>10. IsFiniteSet(events) /\ Cardinality(events) = Cardinality(found)
    <3> HIDE DEF b, events
    <3>1. ExistsBijection(found, events)
      BY <2>8 DEF ExistsBijection
    <3> QED BY <2>9, <3>1, FS_Bijection
  <2>11. \A x \in found : RecordOf(b[x]) = x
    BY <2>4
  <2>12. found = {} => events = {} /\ mean.total = 0 /\ TrueTotal(events) = 0
    <3> SUFFICES ASSUME found = {} PROVE events = {} /\ mean.total = 0 /\ TrueTotal(events) = 0
      OBVIOUS
    <3>1. mean.total = 0
      BY <2>2 DEF MeanPathLengths, Mean
    <3>2. events = {}
      OBVIOUS
    <3> DEFINE h == [r \in {} |-> Total(r.body.values)]
    <3>3. h \in [{} -> Int] /\ IsFiniteSet({})
      BY FS_EmptySet
    <3> HIDE DEF h, events
    <3>4. Total(h) = 0
      BY <3>3, TotalType
    <3> QED BY <3>1, <3>2, <3>4 DEF TrueTotal, h
  <2> HIDE DEF b, events
  <2>13. found # {} => /\ mean.count = Cardinality(found) /\ mean.total \in TotalTimes(found)
                       /\ mean.factor = Factor(q.body.resultUnit)
    BY <2>2 DEF MeanPathLengths, Mean
  <2>14. (\A r \in events : Representable(r)) => mean.total = Wrapped(TrueTotal(events))
    <3>1. Wrapped(0) = 0
      BY ApiAssumption DEF Wrapped
    <3> QED BY <2>5, <2>8, <2>9, <2>10, <2>11, <2>12, <2>13, <3>1, TotalIsTrue
  <2>15. events # {} => /\ mean.count = Cardinality(events)
                        /\ mean.factor = Factor(q.body.resultUnit)
    BY <2>10, <2>12, <2>13
  <2>16. Counts(t, events)
    BY <2>5, <2>6, <2>7, <2>15 DEF Counts, q, mean
  <2> QED BY <2>5, <2>14, <2>16 DEF q, mean
<1> QED BY <1>1, InductiveInvariant, PTL

=============================================================================
