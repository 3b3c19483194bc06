-------------------------- MODULE HttpRouter_proofs --------------------------
(* Theorems about HttpRouter, for every set of routes, request paths and    *)
(* handlers, and their proofs.                                               *)
EXTENDS HttpRouter, RoutePaths_proofs

-----------------------------------------------------------------------------
(* Lemmas about paths and routing *)

\* A direct path is its own template, and is described by no other path.
LEMMA DirectPathFacts ==
    ASSUME NEW p \in Routes, IsDirect(p)
    PROVE  /\ Template(p) = p
           /\ \A path \in RequestPaths : Matches(path, p) => path = p
<1>1. p \in Seq(PathParts)
  BY PathsAssumption
<1>2. \A i \in DOMAIN p : p[i].kind # "param"
  BY DEF IsDirect
<1>3. Template(p) = [i \in DOMAIN p |-> p[i]]
  BY <1>2 DEF Template
<1>4. Template(p) = p
  BY <1>1, <1>3
<1>5. ASSUME NEW path \in RequestPaths, Matches(path, p)
      PROVE  path = p
  <2>1. path \in Seq(PathParts)
    BY PathsAssumption
  <2>2. Len(path) = Len(p) /\ \A i \in DOMAIN p : path[i] = p[i]
    BY <1>2, <1>5 DEF Matches
  <2> QED BY <1>1, <2>1, <2>2
<1> QED BY <1>4, <1>5

\* A path with the template of a direct one is direct.
LEMMA TemplateFacts ==
    ASSUME NEW p \in Routes, NEW q \in Routes, Template(p) = Template(q), IsDirect(q)
    PROVE  IsDirect(p)
<1>1. p \in Seq(PathParts) /\ q \in Seq(PathParts)
  BY PathsAssumption
<1>2. DOMAIN p = DOMAIN q
  BY DEF Template
<1>3. ASSUME NEW i \in DOMAIN p
      PROVE  p[i].kind = "plain"
  <2>1. Template(p)[i] = q[i] /\ q[i].kind = "plain"
    BY <1>2, DirectPathFacts DEF IsDirect
  <2>2. Template(p)[i] = IF p[i].kind = "param" THEN Placeholder ELSE p[i]
    BY DEF Template
  <2>3. Placeholder.kind = "param"
    BY DEF Placeholder, Param
  <2> QED BY <2>1, <2>2, <2>3
<1> QED BY <1>3 DEF IsDirect

\* The key a route is registered under is its template.
LEMMA KeyFacts ==
    ASSUME NEW p \in Routes
    PROVE  (IF IsDirect(p) THEN p ELSE Template(p)) = Template(p)
BY DirectPathFacts

\* What a lookup returns: a handler of the map, or 404.
LEMMA RoutingFacts ==
    ASSUME NEW path, NEW map, NEW added \in Seq(Routes),
           \A k \in DOMAIN map : map[k] \in Handlers
    PROVE  LET r == ProcessRouting(path, map, added)
           IN  \/ r.code = 200 /\ r.handler \in Handlers
               \/ /\ r.code = 404 /\ r.handler = NoHandler
                  /\ path \notin DOMAIN map /\ Candidates(map, added) = {}
<1>1. CASE path \in DOMAIN map
  BY <1>1 DEF ProcessRouting
<1>2. CASE path \notin DOMAIN map /\ Candidates(map, added) # {}
  <2>1. Candidates(map, added) \in SUBSET Nat
    BY DEF Candidates
  <2>2. Min(Candidates(map, added)) \in Candidates(map, added)
    BY <1>2, <2>1, MinFacts
  <2>3. Template(added[Min(Candidates(map, added))]) \in DOMAIN map
    BY <2>2 DEF Candidates
  <2> QED BY <1>2, <2>3 DEF ProcessRouting
<1>3. CASE path \notin DOMAIN map /\ Candidates(map, added) = {}
  BY <1>3 DEF ProcessRouting
<1> QED BY <1>1, <1>2, <1>3

-----------------------------------------------------------------------------
(* The inductive invariant *)

\* The invariant holds at first.
LEMMA InitIInv == Init => IInv
<1> SUFFICES ASSUME Init PROVE IInv
  OBVIOUS
<1>1. TypeOK
  BY DEF Init, TypeOK, IsPartialMap, NoMap, NoExchange, Methods
<1>2. NothingEarly
  BY DEF Init, NothingEarly
<1>3. RouterHasAdded /\ AnswerIsRouted
  BY DEF Init, RouterHasAdded, AnswerIsRouted
<1>4. InfoIsAdded
  BY DEF Init, InfoIsAdded
<1> QED BY <1>1, <1>2, <1>3, <1>4 DEF IInv

\* A registration reaches the builder only.
LEMMA RegisterIInv ==
    ASSUME IInv, NEW m \in Methods, NEW p \in Routes, NEW h \in Handlers, Register(m, p, h)
    PROVE  IInv'
<1> USE DEF IInv, Register
<1>1. TypeOK'
  <2>1. DOMAIN builder' = Methods /\ \A n \in Methods : IsPartialMap(builder'[n], Routes)
    BY DEF TypeOK, IsPartialMap, Extend
  <2> QED BY <2>1 DEF TypeOK
<1>2. NothingEarly' /\ RouterHasAdded' /\ InfoIsAdded' /\ AnswerIsRouted'
  BY DEF NothingEarly, RouterHasAdded, InfoIsAdded, AnswerIsRouted
<1> QED BY <1>1, <1>2

\* build() begins with all the builder has.
LEMMA StartBuildIInv ==
    ASSUME IInv, StartBuild
    PROVE  IInv'
<1> USE DEF IInv, StartBuild
<1>1. TypeOK'
  BY DEF TypeOK, IsPartialMap
<1>2. NothingEarly' /\ AnswerIsRouted'
  BY DEF NothingEarly, AnswerIsRouted
<1>3. ASSUME NEW m \in Methods
      PROVE  /\ Added(m)' = {} /\ pending'[m] = RoutesOf(m)'
             /\ DOMAIN handlers'[m] = {}
  BY DEF Added, RoutesOf, NothingEarly, NoMap
<1>4. RouterHasAdded' /\ InfoIsAdded'
  BY <1>3 DEF RouterHasAdded, InfoIsAdded, NothingEarly
<1> QED BY <1>1, <1>2, <1>4

\* build() ends when all is moved.
LEMMA EndBuildIInv ==
    ASSUME IInv, EndBuild
    PROVE  IInv'
BY DEF IInv, EndBuild, TypeOK, NothingEarly, RouterHasAdded, InfoIsAdded, AnswerIsRouted, Added,
    RoutesOf

\* build() moves one registration.
LEMMA AddIInv ==
    ASSUME IInv, NEW m \in Methods, NEW p \in Routes, Add(m, p)
    PROVE  IInv'
<1> USE DEF IInv
<1> DEFINE key == Template(p)
           h == builder[m][p]
<1>1. /\ phase = "building" /\ p \in pending[m] /\ p \in RoutesOf(m) /\ h \in Handlers
      /\ pending' = [pending EXCEPT ![m] = @ \ {p}]
      /\ UNCHANGED <<given, builder, exchange>>
  BY DEF Add, RouterHasAdded, TypeOK, IsPartialMap, RoutesOf
<1>2. \/ key \in DOMAIN handlers[m] /\ phase' = "failed" /\ UNCHANGED <<handlers, info>>
      \/ /\ key \notin DOMAIN handlers[m] /\ phase' = phase
         /\ handlers' = [handlers EXCEPT ![m] = Extend(@, key, h)]
         /\ info' = IF IsDirect(p) THEN info ELSE Append(info, p)
  BY KeyFacts DEF Add, RegisterHandler
<1>3. exchange = NoExchange
  BY <1>1 DEF NothingEarly
<1>4. TypeOK'
  <2>1. DOMAIN handlers' = Methods /\ \A n \in Methods : IsPartialMap(handlers'[n], Keys)
    BY <1>1, <1>2 DEF TypeOK, IsPartialMap, Extend, Keys
  <2>2. info' \in Seq({q \in Routes : ~IsDirect(q)})
    BY <1>2 DEF TypeOK
  <2>3. pending' \in [Methods -> SUBSET Routes]
    BY <1>1 DEF TypeOK
  <2>4. phase' \in {"registering", "building", "ready", "failed"}
    BY <1>1, <1>2
  <2> QED BY <1>1, <2>1, <2>2, <2>3, <2>4 DEF TypeOK
<1>5. NothingEarly' /\ AnswerIsRouted'
  BY <1>1, <1>2, <1>3 DEF NothingEarly, AnswerIsRouted
<1>6. RouterHasAdded'
  <2> SUFFICES ASSUME phase' = "building", NEW n \in Methods
               PROVE  /\ pending'[n] \subseteq RoutesOf(n)'
                      /\ DOMAIN handlers'[n] = {Template(q) : q \in Added(n)'}
                      /\ \A q \in Added(n)' :
                          /\ handlers'[n][Template(q)] = builder'[n][q]
                          /\ ~IsDirect(q) => \E i \in DOMAIN info' : info'[i] = q
                      /\ \A q, r \in Added(n)' : Template(q) = Template(r) => q = r
    BY <1>1, <1>2 DEF RouterHasAdded
  <2>0. pending \in [Methods -> SUBSET Routes] /\ DOMAIN handlers = Methods
         /\ info \in Seq(Routes)
    BY DEF TypeOK
  <2>1. RoutesOf(n)' = RoutesOf(n)
    BY <1>1 DEF RoutesOf
  <2>2. /\ pending[n] \subseteq RoutesOf(n)
        /\ DOMAIN handlers[n] = {Template(q) : q \in Added(n)}
        /\ \A q \in Added(n) :
             /\ handlers[n][Template(q)] = builder[n][q]
             /\ ~IsDirect(q) => \E i \in DOMAIN info : info[i] = q
        /\ \A q, r \in Added(n) : Template(q) = Template(r) => q = r
    BY <1>1 DEF RouterHasAdded
  <2>3. \A q : (\E i \in DOMAIN info : info[i] = q) => \E i \in DOMAIN info' : info'[i] = q
    <3>1. CASE info' = info
      BY <3>1
    <3>2. CASE info' = Append(info, p)
      BY <2>0, <3>2
    <3> QED BY <1>2, <3>1, <3>2
  <2>4. CASE n # m
    <3>1. Added(n)' = Added(n) /\ pending'[n] = pending[n] /\ handlers'[n] = handlers[n]
      BY <1>1, <1>2, <2>0, <2>1, <2>4 DEF Added
    <3> QED BY <1>1, <2>1, <2>2, <2>3, <3>1
  <2>5. CASE n = m
    <3>1. /\ key \notin DOMAIN handlers[m]
          /\ handlers'[m] = Extend(handlers[m], key, h)
          /\ info' = IF IsDirect(p) THEN info ELSE Append(info, p)
      BY <1>1, <1>2, <2>0
    <3>2. Added(m)' = Added(m) \union {p}
      BY <1>1, <2>0, <2>1, <2>5 DEF Added
    <3>3. DOMAIN handlers'[m] = {Template(q) : q \in Added(m)'}
      BY <2>2, <2>5, <3>1, <3>2 DEF Extend
    <3>4. \A q \in Added(m) : Template(q) # key
      BY <2>2, <2>5, <3>1
    <3>5. \A q, r \in Added(m)' : Template(q) = Template(r) => q = r
      BY <2>2, <2>5, <3>2, <3>4
    <3>6. \A q \in Added(m)' : handlers'[m][Template(q)] = builder'[m][q]
      <4>1. handlers'[m][key] = builder'[m][p]
        BY <1>1, <3>1 DEF Extend
      <4>2. ASSUME NEW q \in Added(m)
            PROVE  handlers'[m][Template(q)] = builder'[m][q]
        BY <1>1, <2>2, <2>5, <3>1, <3>4, <4>2 DEF Extend
      <4> QED BY <3>2, <4>1, <4>2
    <3>7. ~IsDirect(p) => \E i \in DOMAIN info' : info'[i] = p
      <4> SUFFICES ASSUME ~IsDirect(p) PROVE \E i \in DOMAIN info' : info'[i] = p
        OBVIOUS
      <4>1. info' = Append(info, p) /\ Len(info) + 1 \in DOMAIN info'
        BY <2>0, <3>1
      <4>2. info'[Len(info) + 1] = p
        BY <2>0, <4>1
      <4> QED BY <4>1, <4>2
    <3>8. pending'[m] \subseteq RoutesOf(m)'
      BY <1>1, <2>0, <2>1, <2>2, <2>5
    <3> QED BY <2>2, <2>3, <2>5, <3>2, <3>3, <3>5, <3>6, <3>7, <3>8
  <2> QED BY <2>4, <2>5
<1>7. InfoIsAdded'
  <2> SUFFICES ASSUME phase' = "building", NEW i \in DOMAIN info'
               PROVE  \E n \in Methods : info'[i] \in Added(n)'
    BY <1>1, <1>2 DEF InfoIsAdded
  <2>1. pending \in [Methods -> SUBSET Routes] /\ info \in Seq(Routes)
    BY DEF TypeOK
  <2>2. p \in Added(m)' /\ \A n \in Methods : Added(n) \subseteq Added(n)'
    BY <1>1, <2>1 DEF Added, RoutesOf
  <2>3. (i \in DOMAIN info /\ info'[i] = info[i]) \/ info'[i] = p
    <3>1. CASE info' = info
      BY <3>1
    <3>2. CASE info' = Append(info, p)
      BY <2>1, <3>2
    <3> QED BY <1>1, <1>2, <3>1, <3>2
  <2> QED BY <1>1, <2>2, <2>3 DEF InfoIsAdded
<1> QED BY <1>4, <1>5, <1>6, <1>7

\* A request of a known method.
LEMMA RouteIInv ==
    ASSUME IInv, NEW m \in Methods, NEW path \in RequestPaths, Route(m, path)
    PROVE  IInv'
<1> USE DEF IInv
<1> DEFINE r == ProcessRouting(path, handlers[m], info)
<1>1. /\ phase = "ready" /\ UNCHANGED <<phase, given, builder, pending, handlers, info>>
      /\ exchange'.method = m /\ exchange'.path = path
      /\ exchange'.handler = r.handler /\ exchange'.parameters = r.parameters
      /\ exchange'.code = r.code \/ (exchange'.code = 500 /\ r.handler # NoHandler)
  <2>1. PICK code \in IF r.handler = NoHandler THEN {r.code} ELSE {r.code, 500} :
             exchange' = [method |-> m, path |-> path, code |-> code,
                          handler |-> r.handler, parameters |-> r.parameters]
    BY DEF Route
  <2>2. phase = "ready" /\ UNCHANGED <<phase, given, builder, pending, handlers, info>>
    BY DEF Route
  <2> HIDE DEF r
  <2> QED BY <2>1, <2>2
<1>2. \/ r.code = 200 /\ r.handler \in Handlers
      \/ r.code = 404 /\ r.handler = NoHandler
  BY RoutingFacts DEF TypeOK, IsPartialMap
<1>3. TypeOK'
  <2>1. exchange'.code \in {0, 200, 404, 500, 501}
         /\ exchange'.handler \in Handlers \union {NoHandler}
    BY <1>1, <1>2
  <2> HIDE DEF r
  <2> QED BY <1>1, <2>1 DEF TypeOK
<1>4. NothingEarly' /\ RouterHasAdded' /\ InfoIsAdded'
  BY <1>1 DEF NothingEarly, RouterHasAdded, InfoIsAdded, Added, RoutesOf
<1>5. AnswerIsRouted'
  BY <1>1 DEF AnswerIsRouted
<1> QED BY <1>3, <1>4, <1>5

\* A request of another method.
LEMMA RouteUnknownIInv ==
    ASSUME IInv, NEW path \in RequestPaths, RouteUnknown(path)
    PROVE  IInv'
<1> USE DEF IInv
<1>1. /\ phase = "ready" /\ UNCHANGED <<phase, given, builder, pending, handlers, info>>
      /\ exchange'.method = "UNKNOWN" /\ exchange'.code = 501 /\ exchange'.handler = NoHandler
  BY DEF RouteUnknown, NoExchange
<1> QED BY <1>1 DEF TypeOK, NothingEarly, RouterHasAdded, InfoIsAdded, AnswerIsRouted, Added, RoutesOf

\* Every step keeps the invariant.
LEMMA NextIInv == IInv /\ [Next]_vars => IInv'
<1> SUFFICES ASSUME IInv, [Next]_vars PROVE IInv'
  OBVIOUS
<1>1. CASE \E m \in Methods, p \in Routes, h \in Handlers : Register(m, p, h)
  BY <1>1, RegisterIInv
<1>2. CASE StartBuild
  BY <1>2, StartBuildIInv
<1>3. CASE \E p \in Routes : AddGet(p) \/ AddPost(p)
  BY <1>3, AddIInv DEF AddGet, AddPost, Methods
<1>4. CASE EndBuild
  BY <1>4, EndBuildIInv
<1>5. CASE \E m \in Methods, path \in RequestPaths : Route(m, path)
  BY <1>5, RouteIInv
<1>6. CASE \E path \in RequestPaths : RouteUnknown(path)
  BY <1>6, RouteUnknownIInv
<1>7. CASE UNCHANGED vars
  BY <1>7 DEF vars, IInv, TypeOK, NothingEarly, RouterHasAdded, InfoIsAdded, AnswerIsRouted, Added,
      RoutesOf
<1> QED BY <1>1, <1>2, <1>3, <1>4, <1>5, <1>6, <1>7 DEF Next

\* The strengthening the theorems below rest on holds in every reachable state.
THEOREM InductiveInvariant == Spec => []IInv
<1> QED BY InitIInv, NextIInv, PTL DEF Spec

\* Every variable keeps its type.
THEOREM TypeCorrect == Spec => []TypeOK
<1>1. IInv => TypeOK
  BY DEF IInv
<1> QED BY <1>1, InductiveInvariant, PTL

-----------------------------------------------------------------------------
(* What the router serves *)

\* Whatever order build() takes, a router it returns has each registration of the
\* builder under a key of its own.
THEOREM BuiltComplete == Spec => []BuiltRouterIsComplete
<1>1. IInv => BuiltRouterIsComplete
  BY DEF IInv, BuiltRouterIsComplete, NothingEarly, RouterHasAdded, Added
<1> QED BY <1>1, InductiveInvariant, PTL

\* A request that is answered 404 is described by no route of its method.
THEOREM NoRouteMissed == Spec => []NoRouteIsMissed
<1>1. IInv => NoRouteIsMissed
  <2> SUFFICES ASSUME IInv, exchange.code = 404,
                      NEW p \in RoutesOf(exchange.method), Matches(exchange.path, p)
               PROVE  FALSE
    BY DEF NoRouteIsMissed
  <2> DEFINE m == exchange.method
             path == exchange.path
  <2>1. phase = "ready" /\ m \in Methods /\ path \in RequestPaths
    BY DEF IInv, NothingEarly, AnswerIsRouted, NoExchange
  <2>2. path \notin DOMAIN handlers[m] /\ Candidates(handlers[m], info) = {}
    <3> DEFINE r == ProcessRouting(path, handlers[m], info)
    <3>1. /\ info \in Seq(Routes)
          /\ \A k \in DOMAIN handlers[m] : handlers[m][k] \in Handlers
      BY <2>1 DEF IInv, TypeOK, IsPartialMap
    <3>2. \/ r.code = 200 /\ r.handler \in Handlers
          \/ /\ r.code = 404 /\ r.handler = NoHandler
             /\ path \notin DOMAIN handlers[m] /\ Candidates(handlers[m], info) = {}
      BY <3>1, RoutingFacts
    <3>3. exchange # NoExchange /\ m # "UNKNOWN"
      BY <2>1 DEF NoExchange, Methods
    <3>4. exchange.code = r.code
      BY <3>3 DEF IInv, AnswerIsRouted
    <3> HIDE DEF r
    <3> QED BY <3>2, <3>4
  <2>3. p \in Routes /\ p \in Added(m)
    BY <2>1 DEF IInv, TypeOK, IsPartialMap, RoutesOf, NothingEarly, Added
  <2>4. Template(p) \in DOMAIN handlers[m]
         /\ (~IsDirect(p) => \E i \in DOMAIN info : info[i] = p)
    BY <2>1, <2>3 DEF IInv, RouterHasAdded
  <2>5. CASE IsDirect(p)
    BY <2>1, <2>2, <2>3, <2>4, <2>5, DirectPathFacts
  <2>6. CASE ~IsDirect(p)
    BY <2>2, <2>4, <2>6 DEF Candidates
  <2> QED BY <2>5, <2>6
<1> QED BY <1>1, InductiveInvariant, PTL

\* A request for a direct route gets its handler, whatever routes with parameters
\* describe its path too.
THEOREM DirectRoutesWin == Spec => []DirectRouteWins
<1>1. IInv => DirectRouteWins
  <2> SUFFICES ASSUME IInv, exchange.method \in Methods,
                      exchange.path \in RoutesOf(exchange.method), IsDirect(exchange.path)
               PROVE  /\ exchange.handler = builder[exchange.method][exchange.path]
                      /\ exchange.parameters = NoParameters
    BY DEF DirectRouteWins
  <2> DEFINE m == exchange.method
             path == exchange.path
  <2>1. phase = "ready"
    BY DEF IInv, NothingEarly, NoExchange, Methods
  <2>2. path \in Routes /\ path \in Added(m)
    BY <2>1 DEF IInv, TypeOK, IsPartialMap, RoutesOf, NothingEarly, Added
  <2>3. Template(path) = path
    BY <2>2, DirectPathFacts
  <2>4. path \in DOMAIN handlers[m] /\ handlers[m][path] = builder[m][path]
    BY <2>1, <2>2, <2>3 DEF IInv, RouterHasAdded
  <2>5. LET r == ProcessRouting(path, handlers[m], info)
        IN  exchange.handler = r.handler /\ exchange.parameters = r.parameters
    BY DEF IInv, AnswerIsRouted, NoExchange, Methods
  <2> QED BY <2>4, <2>5 DEF ProcessRouting
<1> QED BY <1>1, InductiveInvariant, PTL

\* A request that a route with parameters describes, its method's only one, gets
\* this route's handler, and the parameters at their places.
THEOREM LoneRouteServed == Spec => []LoneRouteIsServed
<1>1. IInv => LoneRouteIsServed
  <2> DEFINE m == exchange.method
             path == exchange.path
  <2> SUFFICES ASSUME IInv, m \in Methods, NEW p \in ParamRoutesOf(m),
                      ParamRoutesOf(m) = {p},
                      \A n \in Methods : \A q \in RoutesOf(n) : Template(q) = Template(p) => q = p,
                      path \notin RoutesOf(m), Matches(path, p), path # Template(p)
               PROVE  /\ exchange.handler = builder[m][p]
                      /\ exchange.parameters = Bindings(path, p)
    BY DEF LoneRouteIsServed
  <2>1. phase = "ready" /\ path \in RequestPaths
    BY DEF IInv, NothingEarly, AnswerIsRouted, NoExchange, Methods
  <2>2. p \in RoutesOf(m) /\ p \in Routes /\ ~IsDirect(p)
    BY DEF IInv, TypeOK, IsPartialMap, RoutesOf, ParamRoutesOf
  <2>3. \A n \in Methods : Added(n) = RoutesOf(n) /\ RoutesOf(n) \subseteq Routes
    BY <2>1 DEF IInv, TypeOK, IsPartialMap, NothingEarly, Added, RoutesOf
  <2>4. /\ DOMAIN handlers[m] = {Template(q) : q \in RoutesOf(m)}
        /\ handlers[m][Template(p)] = builder[m][p]
        /\ \E i \in DOMAIN info : info[i] = p
    BY <2>1, <2>2, <2>3 DEF IInv, RouterHasAdded
  <2>5. path \notin DOMAIN handlers[m]
    <3> SUFFICES ASSUME NEW q \in RoutesOf(m), path = Template(q) PROVE FALSE
      BY <2>4
    <3>1. CASE IsDirect(q)
      BY <2>3, <3>1, DirectPathFacts
    <3>2. CASE ~IsDirect(q)
      BY <3>2 DEF ParamRoutesOf
    <3> QED BY <3>1, <3>2
  <2>6. \A i \in Candidates(handlers[m], info) : info[i] = p
    <3> SUFFICES ASSUME NEW i \in Candidates(handlers[m], info) PROVE info[i] = p
      OBVIOUS
    <3>1. PICK q \in RoutesOf(m) : Template(info[i]) = Template(q)
      BY <2>4 DEF Candidates
    <3>2. PICK n \in Methods : info[i] \in RoutesOf(n)
      BY <2>1, <2>3 DEF IInv, InfoIsAdded, Candidates
    <3>3. info[i] \in Routes /\ ~IsDirect(info[i])
      BY DEF IInv, TypeOK, Candidates
    <3>4. ~IsDirect(q)
      BY <2>3, <3>1, <3>3, TemplateFacts
    <3>5. q = p
      BY <3>4 DEF ParamRoutesOf
    <3> QED BY <3>1, <3>2, <3>5
  <2>7. Candidates(handlers[m], info) # {} /\ Candidates(handlers[m], info) \in SUBSET Nat
    BY <2>2, <2>4 DEF Candidates, IInv, TypeOK
  <2>8. info[Min(Candidates(handlers[m], info))] = p
    BY <2>6, <2>7, MinFacts
  <2>9. LET r == ProcessRouting(path, handlers[m], info)
        IN  /\ r.handler = handlers[m][Template(p)]
            /\ r.parameters = ParseParameters(path, ParameterNames(p))
    BY <2>5, <2>7, <2>8 DEF ProcessRouting
  <2>10. LET r == ProcessRouting(path, handlers[m], info)
         IN  exchange.handler = r.handler /\ exchange.parameters = r.parameters
    BY DEF IInv, AnswerIsRouted, NoExchange, Methods
  <2>11. path \in Seq(PathParts) /\ p \in Seq(PathParts)
    BY <2>1, <2>2, PathsAssumption
  <2>12. ParseParameters(path, ParameterNames(p)) = Bindings(path, p)
    BY <2>11, ParsedAsBound
  <2> QED BY <2>4, <2>9, <2>10, <2>12
<1> QED BY <1>1, InductiveInvariant, PTL

=============================================================================
