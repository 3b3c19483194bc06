\* Up to three registrations of eight routes.
SPECIFICATION Spec
CONSTANTS
    Routes <- MCRoutes
    RequestPaths <- MCRequestPaths
    Handlers = {h1, h2, h3}
    NoHandler = noHandler
SYMMETRY HandlerSymmetry
CHECK_DEADLOCK FALSE
INVARIANTS
    TypeOK
    BuiltRouterIsComplete
    NoRouteIsMissed
    DirectRouteWins
    LoneRouteIsServed
