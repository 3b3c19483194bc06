----------------------------- MODULE HttpRouter -----------------------------
(***************************************************************************)
(* RouterBuilder and the HttpRouter it builds.  Handlers are registered in *)
(* the builder; build() adds them to the router, all GET before all POST   *)
(* handlers and each group in the unspecified order of an unordered_map;   *)
(* the server's threads then route requests.  route() changes nothing but  *)
(* its request, so a request is one step, and only the last answer is kept.*)
(***************************************************************************)
EXTENDS RoutePaths

CONSTANTS
    Routes,         \* paths that may be registered
    RequestPaths,   \* paths of requests
    Handlers,       \* handlers; each is registered at most once
    NoHandler

ASSUME HandlersAssumption == NoHandler \notin Handlers

ASSUME PathsAssumption == Routes \union RequestPaths \subseteq Seq(PathParts)

Methods == {"GET", "POST"}

VARIABLES
    phase,      \* "registering", "building", "ready", or "failed": build() threw
    given,      \* the handlers that were passed to the builder
    builder,    \* builder[m]: path -> handler, what the builder keeps
    pending,    \* pending[m]: paths build() has yet to add
    handlers,   \* handlers[m]: template -> handler, getHandlers_ and postHandlers_
    info,       \* pathParametersInfo_: the parameterized paths, as added
    exchange    \* the last request and its response

vars == <<phase, given, builder, pending, handlers, info, exchange>>

NoMap == [p \in {} |-> NoHandler]
NoParameters == [n \in {} |-> Empty]
NoExchange == [method |-> "none", path |-> <<>>, code |-> 0,
               handler |-> NoHandler, parameters |-> NoParameters]

Extend(map, key, value) ==
    [k \in DOMAIN map \union {key} |-> IF k = key THEN value ELSE map[k]]

Keys == {Template(p) : p \in Routes}
IsPartialMap(map, keys) ==
    DOMAIN map \subseteq keys /\ \A k \in DOMAIN map : map[k] \in Handlers

TypeOK ==
    /\ phase \in {"registering", "building", "ready", "failed"}
    /\ given \subseteq Handlers
    /\ pending \in [Methods -> SUBSET Routes]
    /\ DOMAIN builder = Methods /\ DOMAIN handlers = Methods
    /\ \A m \in Methods : /\ IsPartialMap(builder[m], Routes)
                          /\ IsPartialMap(handlers[m], Keys)
    /\ info \in Seq({p \in Routes : ~IsDirect(p)})
    /\ exchange.code \in {0, 200, 404, 500, 501}
    /\ exchange.handler \in Handlers \union {NoHandler}

Init ==
    /\ phase = "registering"
    /\ given = {}
    /\ builder = [m \in Methods |-> NoMap]
    /\ pending = [m \in Methods |-> {}]
    /\ handlers = [m \in Methods |-> NoMap]
    /\ info = <<>>
    /\ exchange = NoExchange

-----------------------------------------------------------------------------
(* RouterBuilder *)

\* registerGet, registerPost: unordered_map::emplace keeps the first handler.
Register(m, p, h) ==
    /\ phase = "registering"
    /\ h \notin given
    /\ given' = given \union {h}
    /\ builder' = IF p \in DOMAIN builder[m]
                    THEN builder
                    ELSE [builder EXCEPT ![m] = Extend(@, p, h)]
    /\ UNCHANGED <<phase, pending, handlers, info, exchange>>

StartBuild ==
    /\ phase = "registering"
    /\ phase' = "building"
    /\ pending' = [m \in Methods |-> DOMAIN builder[m]]
    /\ UNCHANGED <<given, builder, handlers, info, exchange>>

EndBuild ==
    /\ phase = "building"
    /\ \A m \in Methods : pending[m] = {}
    /\ phase' = "ready"
    /\ UNCHANGED <<given, builder, pending, handlers, info, exchange>>

-----------------------------------------------------------------------------
(* HttpRouter *)

\* Faulty variants: the key is not looked up before it is added; the parameters
\* of GET paths only are kept; direct paths are kept with the parameterized ones.
RegisterHandlerOver(m, p, h) ==
    LET key == IF IsDirect(p) THEN p ELSE Template(p)
    IN  /\ phase' = phase
        /\ handlers' = [handlers EXCEPT ![m] = Extend(@, key, h)]
        /\ info' = IF IsDirect(p) THEN info ELSE Append(info, p)

RegisterHandlerNoInfo(m, p, h) ==
    LET key == IF IsDirect(p) THEN p ELSE Template(p)
    IN  IF key \in DOMAIN handlers[m]
          THEN phase' = "failed" /\ UNCHANGED <<handlers, info>>
          ELSE /\ phase' = phase
               /\ handlers' = [handlers EXCEPT ![m] = Extend(@, key, h)]
               /\ info' = IF IsDirect(p) \/ m = "POST" THEN info ELSE Append(info, p)

RegisterHandlerAllInfo(m, p, h) ==
    LET key == IF IsDirect(p) THEN p ELSE Template(p)
    IN  IF key \in DOMAIN handlers[m]
          THEN phase' = "failed" /\ UNCHANGED <<handlers, info>>
          ELSE /\ phase' = phase
               /\ handlers' = [handlers EXCEPT ![m] = Extend(@, key, h)]
               /\ info' = Append(info, p)

\* registerHandler_: a direct path is its own key, a parameterized one is kept
\* under its template; a key that is taken throws, and build() with it.
RegisterHandler(m, p, h) ==
    LET key == IF IsDirect(p) THEN p ELSE Template(p)
    IN  IF key \in DOMAIN handlers[m]
          THEN phase' = "failed" /\ UNCHANGED <<handlers, info>>
          ELSE /\ phase' = phase
               /\ handlers' = [handlers EXCEPT ![m] = Extend(@, key, h)]
               /\ info' = IF IsDirect(p) THEN info ELSE Append(info, p)

Add(m, p) ==
    /\ phase = "building"
    /\ p \in pending[m]
    /\ pending' = [pending EXCEPT ![m] = @ \ {p}]
    /\ RegisterHandler(m, p, builder[m][p])
    /\ UNCHANGED <<given, builder, exchange>>

\* The loops of build().
AddGet(p)  == Add("GET", p)
AddPost(p) == pending["GET"] = {} /\ Add("POST", p)

\* The parameterized paths, in the order they were added, whose template has a
\* handler in the map: their positions.
Candidates(map, added) == {i \in DOMAIN added : Template(added[i]) \in DOMAIN map}

\* Faulty variant: the parameterized paths are tried before the direct one.
ProcessRoutingParamsFirst(path, map, added) ==
    IF Candidates(map, added) # {}
      THEN LET i == Min(Candidates(map, added))
           IN  [code |-> 200, handler |-> map[Template(added[i])],
                parameters |-> ParseParameters(path, ParameterNames(added[i]))]
    ELSE IF path \in DOMAIN map
      THEN [code |-> 200, handler |-> map[path], parameters |-> NoParameters]
    ELSE [code |-> 404, handler |-> NoHandler, parameters |-> NoParameters]

\* processRouting_: the direct path, else the first parameterized path whose
\* template has a handler in this map; the request's path is not compared.
ProcessRouting(path, map, added) ==
    IF path \in DOMAIN map
      THEN [code |-> 200, handler |-> map[path], parameters |-> NoParameters]
    ELSE IF Candidates(map, added) # {}
      THEN LET i == Min(Candidates(map, added))
           IN  [code |-> 200, handler |-> map[Template(added[i])],
                parameters |-> ParseParameters(path, ParameterNames(added[i]))]
    ELSE [code |-> 404, handler |-> NoHandler, parameters |-> NoParameters]

\* route, and the handler's outcome: an answer, or an exception that becomes 500.
Route(m, path) ==
    /\ phase = "ready"
    /\ LET r == ProcessRouting(path, handlers[m], info)
       IN  \E code \in IF r.handler = NoHandler THEN {r.code} ELSE {r.code, 500} :
             exchange' = [method |-> m, path |-> path, code |-> code,
                          handler |-> r.handler, parameters |-> r.parameters]
    /\ UNCHANGED <<phase, given, builder, pending, handlers, info>>

\* Any other method.
RouteUnknown(path) ==
    /\ phase = "ready"
    /\ exchange' = [NoExchange EXCEPT !.method = "UNKNOWN", !.path = path, !.code = 501]
    /\ UNCHANGED <<phase, given, builder, pending, handlers, info>>

-----------------------------------------------------------------------------
Next ==
    \/ \E m \in Methods, p \in Routes, h \in Handlers : Register(m, p, h)
    \/ StartBuild
    \/ \E p \in Routes : AddGet(p) \/ AddPost(p)
    \/ EndBuild
    \/ \E m \in Methods, path \in RequestPaths : Route(m, path)
    \/ \E path \in RequestPaths : RouteUnknown(path)

Spec == Init /\ [][Next]_vars

-----------------------------------------------------------------------------
(* Properties *)

\* The routes of a method, and those of them with parameters.
RoutesOf(m) == DOMAIN builder[m]
ParamRoutesOf(m) == {p \in RoutesOf(m) : ~IsDirect(p)}

\* A router that build() returns has every registration of the builder under a
\* key of its own: no handler was replaced by one that shares its template.
BuiltRouterIsComplete ==
    phase = "ready" =>
        \A m \in Methods :
            /\ \A p \in RoutesOf(m) : handlers[m][Template(p)] = builder[m][p]
            /\ \A p, q \in RoutesOf(m) : Template(p) = Template(q) => p = q

\* 404 means that no route of the method describes the path.
NoRouteIsMissed ==
    exchange.code = 404 =>
        \A p \in RoutesOf(exchange.method) : ~Matches(exchange.path, p)

\* A direct route is never shadowed by a parameterized one.
DirectRouteWins ==
    /\ exchange.method \in Methods
    /\ exchange.path \in RoutesOf(exchange.method)
    /\ IsDirect(exchange.path)
    => /\ exchange.handler = builder[exchange.method][exchange.path]
       /\ exchange.parameters = NoParameters

\* A request that a route with parameters describes gets this route's handler
\* and the parameters at their places, whatever the order build() took, provided
\* the route is its method's only one with parameters and no route of the other
\* method has its template with other names.
LoneRouteIsServed ==
    exchange.method \in Methods =>
        \A p \in ParamRoutesOf(exchange.method) :
            /\ ParamRoutesOf(exchange.method) = {p}
            /\ \A m \in Methods : \A q \in RoutesOf(m) : Template(q) = Template(p) => q = p
            /\ exchange.path \notin RoutesOf(exchange.method)
            /\ Matches(exchange.path, p)
            /\ exchange.path # Template(p)
            => /\ exchange.handler = builder[exchange.method][p]
               /\ exchange.parameters = Bindings(exchange.path, p)

-----------------------------------------------------------------------------
(* The inductive invariant of the proofs *)

\* The registrations build() has moved to the router.
Added(m) == RoutesOf(m) \ pending[m]

\* Nothing is in the router before build(), and nobody asks it before its end.
NothingEarly ==
    /\ phase = "registering" =>
        info = <<>> /\ \A m \in Methods : handlers[m] = NoMap /\ pending[m] = {}
    /\ phase # "ready" => exchange = NoExchange
    /\ phase = "ready" => \A m \in Methods : pending[m] = {}

\* The router has what was moved, each under its own key, and its parameters.
RouterHasAdded ==
    phase \in {"building", "ready"} =>
        \A m \in Methods :
            /\ pending[m] \subseteq RoutesOf(m)
            /\ DOMAIN handlers[m] = {Template(p) : p \in Added(m)}
            /\ \A p \in Added(m) :
                /\ handlers[m][Template(p)] = builder[m][p]
                /\ ~IsDirect(p) => \E i \in DOMAIN info : info[i] = p
            /\ \A p, q \in Added(m) : Template(p) = Template(q) => p = q

\* The parameters in the router are those of registrations that were moved.
InfoIsAdded ==
    phase \in {"building", "ready"} =>
        \A i \in DOMAIN info : \E m \in Methods : info[i] \in Added(m)

\* The last answer is the one the router gives to its request.
AnswerIsRouted ==
    \/ exchange = NoExchange
    \/ exchange.method = "UNKNOWN" /\ exchange.code = 501 /\ exchange.handler = NoHandler
    \/ /\ exchange.method \in Methods
       /\ exchange.path \in RequestPaths
       /\ LET r == ProcessRouting(exchange.path, handlers[exchange.method], info)
          IN  /\ exchange.handler = r.handler
              /\ exchange.parameters = r.parameters
              /\ \/ exchange.code = r.code
                 \/ exchange.code = 500 /\ r.handler # NoHandler

IInv == TypeOK /\ NothingEarly /\ RouterHasAdded /\ InfoIsAdded /\ AnswerIsRouted

-----------------------------------------------------------------------------
(* What the comments of the code say, and the code does not keep *)

\* router.h:83: routing "attempts to match the request path to a registered
\* handler": a handler is only given requests its route describes.
OnlyMatchingPathsAreServed ==
    exchange.handler # NoHandler =>
        \E p \in RoutesOf(exchange.method) :
            /\ builder[exchange.method][p] = exchange.handler
            /\ Matches(exchange.path, p)

=============================================================================
