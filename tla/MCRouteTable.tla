----------------------------- MODULE MCRouteTable -----------------------------
(* Small instances of RouteTable for TLC.                                  *)
EXTENDS RouteFilter, TLC

CONSTANTS n1, n2, d1, d2, h1, h2, g1, g2

MCUserRoutes == {[node |-> NoNode, cidr |-> d1, hop |-> h1]}
AnyOne       == Permutations({g1, g2}) \cup Permutations({n1, n2})
=============================================================================
