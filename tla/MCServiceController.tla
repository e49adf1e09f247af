------------------------- MODULE MCServiceController -------------------------
(* Small instances of ServiceController for TLC.                           *)
EXTENDS ServiceController, TLC

CONSTANTS w, ns, n1, n2, A, B, t1, t2, t3, s1, s2, s3

MCInterface(net, t) == [net |-> net, target |-> t]

Yandex    == [n \in Nodes |-> "yandex"]
NoPrefix  == [n \in Nodes |-> {"none"}]
PlainName == [p \in {"none"} |-> p]

\* Every node in network A, and one whose interface may lack its address; one
\* node in both networks.
OneNet  == n1 :> {{MCInterface(A, t1)}} @@ n2 :> {{MCInterface(A, t2)}}
OneVM   == n1 :> {{MCInterface(A, t1)}}
MaybeVM == n1 :> {{MCInterface(A, t1)}, {MCInterface(A, NoTarget)}}
TwoNets == n1 :> {{MCInterface(A, t1), MCInterface(B, t3)}}

InA     == [s \in Services |-> <<"none", A>>]
InAAndB == [s \in Services |-> <<"none", IF s = s2 THEN B ELSE A>>]

\* A node comes; no node is left; nothing changes.
Growing  == {{n1}, {n1, n2}}
Emptying == {{}, {n1}}
Fixed    == {{n1}}

AnyService == Permutations({s1, s2})
=============================================================================
