\* The routes of the application.
SPECIFICATION Spec
CONSTANTS
    Routes <- AppRoutes
    RequestPaths <- AppRequestPaths
    Handlers = {h1, h2}
    NoHandler = noHandler
SYMMETRY HandlerSymmetry
CHECK_DEADLOCK FALSE
INVARIANT OnlyMatchingPathsAreServed
