----------------------------- MODULE RoutePaths -----------------------------
(***************************************************************************)
(* Paths as HttpRouter reads them.  A path is the sequence of the parts    *)
(* between its slashes after the first one, so that "/a//" is              *)
(* <<a, empty, empty>> and "/" is <<empty>>.  A part is                    *)
(*   plain   text without a brace,                                         *)
(*   param   "{name}"; "{}", the placeholder of a template, has no name,   *)
(*   brace   any other text with a "{" in it.                              *)
(***************************************************************************)
EXTENDS Naturals, Sequences, FiniteSetsExt

Plain(text) == [kind |-> "plain", text |-> text]
Param(name) == [kind |-> "param", text |-> name]
Brace(text) == [kind |-> "brace", text |-> text]

PathParts == [kind : {"plain", "param", "brace"}, text : STRING]

Empty == Plain("")
Placeholder == Param("")

\* registerHandler_ takes a path with a "{" in it for a parameterized one.
IsDirect(path) == \A i \in DOMAIN path : path[i].kind = "plain"

\* buildParameterizedPathTemplate_: "/a/{x}" becomes "/a/{}"; slashes stay.
Template(path) ==
    [i \in DOMAIN path |-> IF path[i].kind = "param" THEN Placeholder ELSE path[i]]

\* The non-empty parts, which parameter positions count: the places that have
\* one, the k-th of them, and what stands there.
Filled(path) == {i \in DOMAIN path : path[i] # Empty}
Place(path, k) == CHOOSE i \in Filled(path) : Cardinality(Filled(path) \intersect 1 .. i) = k
Parts(path) == [k \in 1 .. Cardinality(Filled(path)) |-> path[Place(path, k)]]

\* parseParameterNames_: the names with their positions.
ParameterNames(path) ==
    LET parts == Parts(path)
    IN  {[name |-> parts[i].text, position |-> i] :
            i \in {k \in DOMAIN parts : parts[k].kind = "param"}}

\* Faulty variant: positions are read one part too far to the left.
ParseParametersShifted(path, meta) ==
    LET parts == Parts(path)
        found == {m \in meta : m.position \in 2 .. Len(parts)}
    IN  [n \in {m.name : m \in found} |->
            parts[Max({m.position : m \in {x \in found : x.name = n}}) - 1]]

\* parseParameters_: each name with the part at its position, while the path has
\* such a part; of two equal names the later one counts.
ParseParameters(path, meta) ==
    LET parts == Parts(path)
        found == {m \in meta : m.position <= Len(parts)}
    IN  [n \in {m.name : m \in found} |->
            parts[Max({m.position : m \in {x \in found : x.name = n}})]]

-----------------------------------------------------------------------------
(* What a route means, for the properties *)

\* The request's path is one the route's pattern describes.
Matches(path, route) ==
    /\ Len(path) = Len(route)
    /\ \A i \in DOMAIN route :
        IF route[i].kind = "param" THEN path[i] # Empty ELSE path[i] = route[i]

\* The parts of a matching path that stand where the route has its parameters.
Bindings(path, route) ==
    [n \in {route[i].text : i \in {k \in DOMAIN route : route[k].kind = "param"}} |->
        path[Max({i \in DOMAIN route : route[i] = Param(n)})]]

=============================================================================
