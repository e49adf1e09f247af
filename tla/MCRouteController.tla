-------------------------- MODULE MCRouteController --------------------------
(* Small instances of RouteController for TLC.                             *)
EXTENDS RouteController

CONSTANTS n1, n2, d1, d2, h

MCUserRoutes == {[node |-> NoNode, cidr |-> d1, hop |-> h]}
=============================================================================
