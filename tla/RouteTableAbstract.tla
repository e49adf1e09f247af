-------------------------- MODULE RouteTableAbstract --------------------------
(***************************************************************************)
(* What CreateRoute and DeleteRoute promise: each changes the whole route  *)
(* table by one indivisible step, for one node, and leaves the routes of   *)
(* the other nodes and of the users alone (routes.go:23).  Users edit the  *)
(* table route by route.  Nothing is promised while it is not quiet.       *)
(***************************************************************************)
EXTENDS Routes

VARIABLES table, quiet

Create(n) == \E cidr \in CIDRs, hop \in Hops : table' = AddOrUpdate(table, n, cidr, hop)
Delete(n) == table' = Remove(table, n)
Edit(r)   == r.node = NoNode /\ table' \in {table \cup {r}, table \ {r}}

Init == table \subseteq Route
Next == quiet => (\E n \in Nodes : Create(n) \/ Delete(n)) \/ (\E r \in Route : Edit(r))
Spec == Init /\ [][Next]_table

=============================================================================
