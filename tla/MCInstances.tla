----------------------------- MODULE MCInstances -----------------------------
(* A small instance of Instances for TLC.                                  *)
EXTENDS Instances, TLC

CONSTANTS v1, v2, v3, n1, A, B, a1, a2, a3, b1, b2, x1, x2, none

Nic(net, addr, nat) == [net |-> net, addr |-> addr, nat |-> nat]
ZoneA == <<"ru", "central1", "a">>
ZoneB == <<"ru", "central1", "b">>

\* Neither set, either of them, and both.
MCSettings == {<<{}, {}>>, <<{A}, {}>>, <<{}, {B}>>, <<{B}, {A, B}>>}

\* v1 and its successors: v2 has its interfaces in the other order, both with a
\* public address; v3 has one without a primary IPv4 address.
MCVM ==
     v1 :> [name |-> n1, zone |-> ZoneA,
            nics |-> <<Nic(A, a1, none), Nic(B, b1, x1)>>]
  @@ v2 :> [name |-> n1, zone |-> ZoneB,
            nics |-> <<Nic(B, b2, x1), Nic(A, a2, x2)>>]
  @@ v3 :> [name |-> n1, zone |-> ZoneA,
            nics |-> <<Nic(A, a3, none), Nic(B, none, none)>>]

MCGiven ==
  n1 :> {EmptyID, ProviderID("yandex", <<"folder", "zone", n1>>),
         ProviderID("other", <<n1>>), IdOf(v2)}
=============================================================================
