---------------------------- MODULE MCHttpRouter ----------------------------
(* Instances of HttpRouter for TLC. *)
EXTENDS HttpRouter, TLC

A == Plain("a")
B == Plain("b")

\* Routes that are direct, share a template, overlap, nest, or only look
\* parameterized, or have an empty part; "/a/{}" is the template of two others.
MCRoutes == {<<A>>, <<A, B>>, <<A, Param("x")>>, <<A, Param("y")>>,
             <<Param("x"), Param("x")>>, <<A, Param("x"), B>>, <<Brace("a{")>>,
             <<A, Empty, Param("x")>>}

\* "/", "/a", "/a/b", "/b/a", "/a/", "/a//b", "/a/b/b" and "/a/{}".
MCRequestPaths == {<<Empty>>, <<A>>, <<A, B>>, <<B, A>>, <<A, Empty>>,
                   <<A, Empty, B>>, <<A, B, B>>, <<A, Placeholder>>}

\* The two routes of TelemetryRoutes, and paths around them.
PathsWord == Plain("paths")
Mean      == Plain("meanLength")
AppRoutes == {<<PathsWord, Param("event")>>, <<PathsWord, Param("event"), Mean>>}
AppRequestPaths == {<<PathsWord, A>>, <<PathsWord, A, Mean>>, <<A>>}

HandlerSymmetry == Permutations(Handlers)

=============================================================================
