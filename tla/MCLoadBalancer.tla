---------------------------- MODULE MCLoadBalancer ----------------------------
(* Small instances of LoadBalancer for TLC.                                *)
EXTENDS LoadBalancer, TLC

CONSTANTS c1, c2, http, api, p1, p2, t1, t2, any, g1, g2, k1

MCListener(name, port, target) ==
  [name |-> name, port |-> port, target |-> target, address |-> any]
MCSpec(type, L, group) ==
  [type |-> type, listeners |-> L, attached |-> {[group |-> group, check |-> k1]}]

\* A Service of two ports; the same when the node port of the first and the
\* target group have changed; and an external one.
MCSpecs ==
  { MCSpec("INTERNAL", {MCListener(http, p1, t1), MCListener(api, p2, t2)}, g1),
    MCSpec("INTERNAL", {MCListener(http, p1, t2), MCListener(api, p2, t2)}, g2),
    MCSpec("EXTERNAL", {MCListener(http, p1, t1)}, g1) }

AnyCaller == Permutations({c1, c2})
=============================================================================
