-------------------------------- MODULE Routes --------------------------------
(***************************************************************************)
(* The static routes of a VPC route table, and what the cloud controller   *)
(* makes of them.  A route of the controller carries its node's name in a  *)
(* label; a route without that label belongs to the users of the cloud.    *)
(* A table is a set: the order of its routes has no meaning, and as long   *)
(* as a node has one route at most (OneRoutePerNode) filterStaticRoutes    *)
(* makes no two equal ones.                                                *)
(***************************************************************************)
CONSTANTS
  Nodes,   \* names of nodes: values of the label node-role
  NoNode,  \* stands for a route without the label
  CIDRs,   \* destination prefixes
  Hops     \* next-hop addresses

ASSUME NoNodeAssumption == NoNode \notin Nodes

Route == [node : Nodes \cup {NoNode}, cidr : CIDRs, hop : Hops]

OfNode(table, n) == {r \in table : r.node = n}
Labelled(table)  == {r \in table : r.node # NoNode}

\* Faulty variant of the next definition: the node's old routes stay.
Appended(table, n, cidr, hop) ==
  table \cup {[node |-> n, cidr |-> cidr, hop |-> hop]}

\* filterStaticRoutes with a term of type AddOrUpdate: every route of the node
\* is replaced, and there is one in the end.
AddOrUpdate(table, n, cidr, hop) ==
  {r \in table : r.node # n} \cup {[node |-> n, cidr |-> cidr, hop |-> hop]}

\* filterStaticRoutes with a term of type Remove: the term has no CIDR, all
\* routes of the node go.
Remove(table, n) == {r \in table : r.node # n}

=============================================================================
