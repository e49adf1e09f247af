-------------------------- MODULE MCTargetGroupSync --------------------------
(* Small instances of TargetGroupSync for TLC.                             *)
EXTENDS TargetGroupSync, TLC

CONSTANTS c1, c2, n1, n2, n3, A, B, t1, t2, t3, prod2

MCInterface(net, t) == [net |-> net, target |-> t]

\* The VM of n1 may be without IPv4 address, and n1 may lose or get the overlong
\* prefix annotation that n2 has: two nodes in one network that share a group or
\* have one each.
TwoVMs == n1 :> {{MCInterface(A, t1)}, {MCInterface(A, NoTarget)}}
       @@ n2 :> {{MCInterface(A, t3)}}
TwoLabels  == n1 :> {"none", "long"} @@ n2 :> {"long"}
LongIsCut  == [p \in {"none", "long", "cut"} |-> IF p = "long" THEN "cut" ELSE p]
AllYandex  == n1 :> "yandex" @@ n2 :> "yandex"

\* One node, whose VM is in two networks, or in one and with another address.
OneVM      == n1 :> {{MCInterface(A, t1), MCInterface(B, t2)}, {MCInterface(A, t3)}}
OneYandex  == n1 :> "yandex"
NoLabel    == n1 :> {"none"}
NoneIsNone == [p \in {"none"} |-> p]

AnyCaller  == Permutations({c1, c2})
=============================================================================
