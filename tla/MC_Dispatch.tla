------------------------------ MODULE MC_Dispatch ------------------------------
EXTENDS Dispatch

CONSTANTS m1, m2, c1, c2, h1

\* Two PUBLISHes of QoS 1 and 2 with ids 1 and 2, on topics a/b and b.
MC_Wire == <<m1, m2>>
MC_InQos == (m1 :> 1) @@ (m2 :> 2)
MC_InId == (m1 :> 1) @@ (m2 :> 2)
MC_InTopic == (m1 :> <<"a", "/", "b">>) @@ (m2 :> <<"b">>)

\* Filters neither of which matches the other under route.match.
MC_RouteFilters == {<<"a", "/", "+">>, <<"b">>}

\* Filters a/+ and a/b: both match a/b, and route.match(a/b) holds of the
\* route a/+.
MC_OverlappingFilters == {<<"a", "/", "+">>, <<"a", "/", "b">>}
===============================================================================
