--------------------------- MODULE InstancesProofs ---------------------------
(* Type correctness of Instances, that only nodes of VMs that are gone are *)
(* removed, and that nodes get the documented addresses, for any VMs,      *)
(* nodes, provider IDs and configurations.                                 *)
EXTENDS Instances, SelectionProofs

\* A node and what is known of it are records of these fields.
Shape ==
  /\ \A n \in DOMAIN node :
       node[n] = [pid |-> node[n].pid, ready |-> node[n].ready,
                  described |-> node[n].described, tainted |-> node[n].tainted,
                  addresses |-> node[n].addresses, region |-> node[n].region]
  /\ \A n \in DOMAIN sketch :
       sketch[n] = [pid |-> sketch[n].pid, looked |-> sketch[n].looked,
                    addresses |-> sketch[n].addresses]
  /\ \A r \in check : r = [node |-> r.node, answer |-> r.answer]

\* A provider ID by id is that of a VM there has been.
KnownId(p) == IsById(p) => \E id \in spent : p = IdOf(id)
Identified ==
  /\ \A n \in DOMAIN node : KnownId(node[n].pid)
  /\ \A n \in DOMAIN sketch :
       /\ KnownId(sketch[n].pid)
       /\ node[n].pid # EmptyID => sketch[n].pid = node[n].pid

\* What was found missing is still missing.
GoneNode(n) == \E id \in spent \ existing : node[n].pid = IdOf(id)
CheckTrue == \A r \in check : r.answer = NotFound => GoneNode(r.node)

\* The inductive invariant.
IInv == TypeOK /\ Shape /\ Identified /\ CheckTrue

-----------------------------------------------------------------------------
(* Lookups                                                                 *)

\* IdOf is one to one, and gives neither the empty ID nor a deprecated one.
LEMMA IdOfFacts ==
  ASSUME NEW i
  PROVE  /\ IdOf(i) # EmptyID /\ IsById(IdOf(i)) /\ ~IsDeprecated(IdOf(i))
         /\ IdOf(i).path = <<i>> /\ IdOf(i).path[1] = i
PROOF
<1>1. IdOf(i).scheme = "yandex" /\ EmptyID.scheme = "" /\ "" # "yandex"
  BY DEF IdOf, EmptyID, ProviderID
<1>2. IdOf(i).path = <<i>>
  BY DEF IdOf, ProviderID
<1>3. Len(<<i>>) = 1 /\ <<i>>[1] = i
  OBVIOUS
<1>4. Len(IdOf(i).path) = 1
  BY <1>2, <1>3
<1>5. IdOf(i) # EmptyID
  BY <1>1
<1>6. IsById(IdOf(i)) /\ ~IsDeprecated(IdOf(i))
  <2>1. 1 # 3 /\ 1 \notin {0, 3}
    OBVIOUS
  <2> QED
    BY <1>1, <1>4, <2>1, Zenon DEF IsById, IsDeprecated
<1>7. IdOf(i).path[1] = i
  BY <1>2, <1>3
<1> QED
  BY <1>2, <1>5, <1>6, <1>7

\* The two known forms of a provider ID exclude each other.
LEMMA Forms == ASSUME NEW p, IsDeprecated(p) PROVE ~IsById(p)
PROOF BY DEF IsDeprecated, IsById

\* What a provider ID of each form is answered.
LEMMA Answers ==
  ASSUME NEW p
  PROVE  /\ IsDeprecated(p) =>
              getInstanceByProviderID(p) = FindInstanceByName(p.path[3])
         /\ IsById(p) =>
              getInstanceByProviderID(p) =
                IF p.path \in {<<id>> : id \in existing} THEN p.path[1] ELSE NotFound
         /\ ~IsDeprecated(p) /\ ~IsById(p) => getInstanceByProviderID(p) = Error
PROOF BY Forms DEF getInstanceByProviderID, ByProviderID

\* A search by name finds a VM of this name, or fails.
LEMMA ByName ==
  ASSUME NEW n, FindInstanceByName(n) # Error
  PROVE  FindInstanceByName(n) \in existing
PROOF
<1> DEFINE found == {id \in existing : VM[id].name = n}
<1>1. Cardinality(found) = 1 /\ FindInstanceByName(n) = CHOOSE id \in found : TRUE
  BY DEF FindInstanceByName, TheOne
<1>2. found # {}
  BY <1>1, FS_EmptySet
<1> QED
  BY <1>1, <1>2

\* "Not found" is the answer only for an id that no VM has.
LEMMA Lookup ==
  ASSUME TypeOK, NEW p, getInstanceByProviderID(p) = NotFound, KnownId(p)
  PROVE  \E id \in spent \ existing : p = IdOf(id)
PROOF
<1>1. existing \subseteq Ids /\ NotFound \notin Ids
  BY AnswerAssumption DEF TypeOK, CloudOK
<1>2. CASE IsDeprecated(p)
  <2>1. getInstanceByProviderID(p) = FindInstanceByName(p.path[3])
    BY <1>2, Answers
  <2>2. FindInstanceByName(p.path[3]) # Error
    BY <2>1 DEF NotFound, Error
  <2> QED
    BY <1>1, <2>1, <2>2, ByName
<1>3. CASE ~IsDeprecated(p) /\ IsById(p)
  <2>1. PICK id \in spent : p = IdOf(id)
    BY <1>3 DEF KnownId
  <2>2. getInstanceByProviderID(p) =
          IF p.path \in {<<v>> : v \in existing} THEN p.path[1] ELSE NotFound
    BY <1>3, Answers
  <2>3. CASE id \in existing
    BY <1>1, <2>1, <2>2, <2>3, IdOfFacts
  <2>4. CASE id \notin existing
    BY <2>1, <2>4
  <2> QED
    BY <2>3, <2>4
<1>4. CASE ~IsDeprecated(p) /\ ~IsById(p)
  BY <1>4, Answers DEF NotFound, Error
<1> QED
  BY <1>2, <1>3, <1>4

\* A node without provider ID is taken for no VM, or for one that exists.
LEMMA Identity ==
  ASSUME IInv, NEW n \in DOMAIN node
  PROVE  /\ KnownId(IdentityOf(n)) /\ IdentityOf(n) \in ProviderIDs
         /\ node[n].pid # EmptyID => IdentityOf(n) = node[n].pid
         /\ node[n].pid = EmptyID =>
              getInstanceByProviderID(IdentityOf(n)) # NotFound
PROOF
<1> USE DEF IInv, TypeOK, CloudOK, NodesOK
<1>1. CASE node[n].pid # EmptyID
  BY <1>1 DEF IdentityOf, Identified
<1>2. CASE node[n].pid = EmptyID /\ Found(FindInstanceByName(n))
  <2> DEFINE id == FindInstanceByName(n)
  <2>1. IdentityOf(n) = IdOf(id) /\ id \in existing
    BY <1>2, ByName DEF IdentityOf, Found
  <2> HIDE DEF id
  <2>2. id \in spent /\ id \in Ids
    BY <2>1
  <2>3. KnownId(IdOf(id)) /\ IdOf(id) \in ProviderIDs
    BY <2>2 DEF KnownId, ProviderIDs
  <2>4. getInstanceByProviderID(IdOf(id)) # NotFound
    <3>1. IdOf(id).path = <<id>> /\ IdOf(id).path[1] = id
      BY IdOfFacts
    <3>2. IsById(IdOf(id))
      BY IdOfFacts
    <3>3. IdOf(id).path \in {<<v>> : v \in existing}
      BY <2>1, <3>1
    <3>4. getInstanceByProviderID(IdOf(id)) = id
      BY <3>1, <3>2, <3>3, Answers, Zenon
    <3> QED
      BY <2>2, <3>4, AnswerAssumption
  <2> QED
    BY <1>2, <2>1, <2>3, <2>4
<1>3. CASE node[n].pid = EmptyID /\ ~Found(FindInstanceByName(n))
  <2>1. IdentityOf(n) = EmptyID
    BY <1>3 DEF IdentityOf
  <2>2. ~IsById(EmptyID) /\ ~IsDeprecated(EmptyID)
    BY DEF EmptyID, ProviderID, IsById, IsDeprecated
  <2> QED
    BY <1>3, <2>1, <2>2, Answers DEF KnownId, NotFound, Error
<1> QED
  BY <1>1, <1>2, <1>3

-----------------------------------------------------------------------------
(* The invariant                                                           *)

LEMMA InitOK == Init => IInv
PROOF
<1> SUFFICES ASSUME Init PROVE IInv
  OBVIOUS
<1>1. CloudOK
  <2>1. PICK s \in Settings : internal = s[1] /\ external = s[2]
    BY DEF Init
  <2>2. <<internal, external>> = s
    BY <2>1, InstancesAssumption
  <2> QED
    BY <2>2 DEF Init, CloudOK, config
<1>2. DOMAIN node = {} /\ DOMAIN sketch = {}
  BY DEF Init
<1> QED
  BY <1>1, <1>2, InstancesAssumption
  DEF Init, IInv, TypeOK, NodesOK, ChecksOK, Shape, Identified, CheckTrue

\* The node controller notes an identity: InstanceID.
LEMMA IdentifyOK == ASSUME IInv, NEW n \in Names, Identify(n) PROVE IInv'
PROOF
<1> USE DEF IInv, TypeOK
<1> DEFINE new == [pid |-> IdentityOf(n), looked |-> FALSE, addresses |-> <<>>]
<1>1. /\ n \in DOMAIN node /\ IdentityOf(n) # EmptyID
      /\ sketch' = Put(sketch, n, new)
      /\ UNCHANGED <<config, cloud, node, check, trouble>>
  BY DEF Identify
<1>2. /\ DOMAIN sketch' = DOMAIN sketch \cup {n}
      /\ \A m \in DOMAIN sketch' : m # n => sketch'[m] = sketch[m]
      /\ sketch'[n] = new /\ sketch'[n].pid = IdentityOf(n)
  BY <1>1 DEF Put
<1>3. /\ KnownId(IdentityOf(n)) /\ IdentityOf(n) \in ProviderIDs
      /\ node[n].pid # EmptyID => IdentityOf(n) = node[n].pid
  BY <1>1, Identity
<1>4. CloudOK' /\ ChecksOK' /\ CheckTrue'
  BY <1>1 DEF CloudOK, ChecksOK, CheckTrue, GoneNode, config, cloud
<1>5. NodesOK'
  BY <1>1, <1>2, <1>3 DEF NodesOK
<1>6. Shape'
  BY <1>1, <1>2 DEF Shape
<1>7. Identified'
  BY <1>1, <1>2, <1>3 DEF Identified, KnownId, cloud
<1> QED
  BY <1>4, <1>5, <1>6, <1>7

\* NodeAddresses: a sketch is completed or dropped, or all is.
LEMMA FindAddressesCases ==
  ASSUME NEW n \in Names, FindAddresses(n)
  PROVE  \/ /\ Answering(sketch[n].pid, n, WithAddress) \in WithAddress
            /\ sketch' = [sketch EXCEPT ![n].looked = TRUE,
                 ![n].addresses =
                   extractNodeAddresses(VM[Answering(sketch[n].pid, n, WithAddress)].nics)]
            /\ check' = check
         \/ \E S \in {{n}, DOMAIN sketch} : sketch' = Drop(sketch, S) /\ check' \in {check, {}}
PROOF
<1>1. CASE Answering(sketch[n].pid, n, WithAddress) \in WithAddress
  <2> DEFINE id == Answering(sketch[n].pid, n, WithAddress)
  <2>1. \/ /\ sketch' = [sketch EXCEPT ![n].looked = TRUE,
                              ![n].addresses = extractNodeAddresses(VM[id].nics)]
           /\ UNCHANGED check
        \/ sketch' = Drop(sketch, DOMAIN sketch) /\ check' = {}
    <3> HIDE DEF id
    <3> QED BY <1>1 DEF FindAddresses, id
  <2> QED BY <1>1, <2>1
<1>2. CASE Answering(sketch[n].pid, n, WithAddress) \notin WithAddress
  BY <1>2 DEF FindAddresses
<1> QED BY <1>1, <1>2

LEMMA FindAddressesOK == ASSUME IInv, NEW n \in Names, FindAddresses(n) PROVE IInv'
PROOF
<1> USE DEF IInv, TypeOK
<1>1. /\ UNCHANGED <<config, cloud, node, trouble>>
      /\ check' = check \/ check' = {}
      /\ DOMAIN sketch' \subseteq DOMAIN sketch
      /\ \A m \in DOMAIN sketch' :
           /\ sketch'[m] = [pid |-> sketch'[m].pid, looked |-> sketch'[m].looked,
                            addresses |-> sketch'[m].addresses]
           /\ sketch'[m].pid = sketch[m].pid
  <2>1. UNCHANGED <<config, cloud, node, trouble>> /\ n \in DOMAIN sketch
    BY DEF FindAddresses
  <2>2. ASSUME NEW a, check' = check,
               sketch' = [sketch EXCEPT ![n].looked = TRUE, ![n].addresses = a]
        PROVE  <1>1!2 /\ <1>1!3 /\ <1>1!4
    <3>1. sketch[n] = [pid |-> sketch[n].pid, looked |-> sketch[n].looked,
                       addresses |-> sketch[n].addresses]
      BY <2>1 DEF Shape
    <3>2. sketch'[n] = [pid |-> sketch[n].pid, looked |-> TRUE, addresses |-> a]
      BY <2>1, <2>2, <3>1
    <3> QED BY <2>2, <3>2 DEF Shape
  <2>3. ASSUME NEW S, sketch' = Drop(sketch, S), check' \in {check, {}}
        PROVE  <1>1!2 /\ <1>1!3 /\ <1>1!4
    BY <2>3 DEF Drop, Shape
  <2> QED BY <2>1, <2>2, <2>3, FindAddressesCases
<1>2. CloudOK' /\ NodesOK' /\ Shape' /\ Identified' /\ CheckTrue'
  BY <1>1
  DEF CloudOK, NodesOK, Shape, Identified, KnownId, CheckTrue, GoneNode, config, cloud
<1>3. ChecksOK'
  BY <1>1 DEF ChecksOK
<1> QED
  BY <1>2, <1>3

\* GetZone, and the node is written: it keeps a provider ID that it has.
LEMMA FindZoneOK == ASSUME IInv, NEW n \in Names, FindZone(n) PROVE IInv'
PROOF
<1> USE DEF IInv, TypeOK
<1>1. /\ n \in DOMAIN sketch /\ sketch' = Drop(sketch, {n})
      /\ UNCHANGED <<config, cloud, check, trouble>>
  BY DEF FindZone
<1>2. /\ DOMAIN sketch' = DOMAIN sketch \ {n}
      /\ \A m \in DOMAIN sketch' : sketch'[m] = sketch[m]
  BY <1>1 DEF Drop
<1>3. n \in DOMAIN node
  BY <1>1 DEF NodesOK
<1>4. CASE UNCHANGED node
  <2>1. CloudOK' /\ ChecksOK' /\ CheckTrue'
    BY <1>1, <1>4 DEF CloudOK, ChecksOK, CheckTrue, GoneNode, config, cloud
  <2>2. NodesOK'
    BY <1>2, <1>4 DEF NodesOK
  <2>3. Shape'
    BY <1>1, <1>2, <1>4 DEF Shape
  <2>4. Identified'
    BY <1>1, <1>2, <1>4 DEF Identified, NodesOK, KnownId, cloud
  <2> QED
    BY <2>1, <2>2, <2>3, <2>4
<1>5. CASE node' # node
  <2>1. PICK a, z : node' = [node EXCEPT ![n] =
                      [node[n] EXCEPT !.pid = sketch[n].pid, !.described = TRUE,
                                      !.addresses = a, !.region = z]]
    BY <1>5 DEF FindZone
  <2>2. DOMAIN node' = DOMAIN node /\ \A m \in DOMAIN node \ {n} : node'[m] = node[m]
    BY <2>1
  <2>. DEFINE old == [pid |-> node[n].pid, ready |-> node[n].ready,
                  described |-> node[n].described, tainted |-> node[n].tainted,
                  addresses |-> node[n].addresses, region |-> node[n].region]
  <2>31. node[n] = old /\ node'[n] = [old EXCEPT !.pid = sketch[n].pid,
                      !.described = TRUE, !.addresses = a, !.region = z]
    BY <1>3, <2>1 DEF Shape
  <2>3. node'[n] = [pid |-> sketch[n].pid, ready |-> node[n].ready, described |-> TRUE,
                    tainted |-> node[n].tainted, addresses |-> a, region |-> z]
    BY <2>31
  <2>4. /\ KnownId(sketch[n].pid) /\ sketch[n].pid \in ProviderIDs \ {EmptyID}
        /\ node[n].pid # EmptyID => sketch[n].pid = node[n].pid
    BY <1>1 DEF NodesOK, Identified
  <2>5. \A m : GoneNode(m) /\ m \in DOMAIN node => node'[m].pid = node[m].pid
    BY <2>2, <2>3, <2>4, IdOfFacts DEF GoneNode
  <2>6. CloudOK' /\ ChecksOK'
    BY <1>1, <2>2 DEF CloudOK, ChecksOK, config, cloud
  <2>7. CheckTrue'
    BY <1>1, <2>5 DEF CheckTrue, ChecksOK, GoneNode, cloud
  <2>8. NodesOK'
    <3>1. node'[n].pid = sketch[n].pid
      BY <2>3
    <3>2. \A m \in DOMAIN node' :
            node'[m].pid \in ProviderIDs /\ (node'[m].described => node'[m].pid # EmptyID)
      BY <2>2, <2>4, <3>1 DEF NodesOK
    <3>3. \A m \in DOMAIN sketch' : sketch'[m].pid \in ProviderIDs \ {EmptyID}
      BY <1>2 DEF NodesOK
    <3> QED
      BY <1>2, <2>2, <3>2, <3>3 DEF NodesOK, ProviderIDs
  <2>9. Shape'
    BY <1>1, <1>2, <2>2, <2>3 DEF Shape
  <2>10. Identified'
    <3>1. node'[n].pid = sketch[n].pid /\ spent' = spent
      BY <1>1, <2>3 DEF cloud
    <3>2. \A m \in DOMAIN node' : KnownId(node'[m].pid)
      BY <2>2, <2>4, <3>1 DEF Identified
    <3>3. \A m \in DOMAIN sketch' :
            /\ KnownId(sketch'[m].pid) /\ m # n /\ m \in DOMAIN node
            /\ node[m].pid # EmptyID => sketch'[m].pid = node[m].pid
      BY <1>2 DEF Identified, NodesOK
    <3> QED
      BY <2>2, <3>1, <3>2, <3>3 DEF Identified, KnownId
  <2> QED
    BY <2>6, <2>7, <2>8, <2>9, <2>10
<1> QED
  BY <1>4, <1>5

\* InstanceExistsByProviderID: "not found" is true when it is answered.
LEMMA CheckNodeOK == ASSUME IInv, NEW n \in Names, CheckNode(n) PROVE IInv'
PROOF
<1> USE DEF IInv, TypeOK
<1> DEFINE r == [node |-> n, answer |-> getInstanceByProviderID(IdentityOf(n))]
<1>1. /\ n \in DOMAIN node /\ check' = {r}
      /\ UNCHANGED <<config, cloud, node, sketch, trouble>>
  BY DEF CheckNode
<1>2. r.answer = NotFound => GoneNode(n)
  <2> SUFFICES ASSUME getInstanceByProviderID(IdentityOf(n)) = NotFound
               PROVE  GoneNode(n)
    OBVIOUS
  <2>1. KnownId(IdentityOf(n)) /\ IdentityOf(n) = node[n].pid
    BY <1>1, Identity
  <2> QED
    BY <2>1, Lookup DEF GoneNode
<1>3. CheckTrue'
  BY <1>1, <1>2 DEF CheckTrue, GoneNode, cloud
<1>4. ChecksOK'
  BY <1>1 DEF ChecksOK
<1>5. CloudOK' /\ NodesOK' /\ Shape' /\ Identified'
  BY <1>1 DEF CloudOK, NodesOK, Shape, Identified, KnownId, config, cloud
<1> QED
  BY <1>3, <1>4, <1>5

\* The node is deleted.
LEMMA RemoveNodeOK == ASSUME IInv, NEW n \in Names, RemoveNode(n) PROVE IInv'
PROOF
<1> USE DEF IInv, TypeOK
<1>1. /\ node' = Drop(node, {n}) /\ sketch' = Drop(sketch, {n}) /\ check' = {}
      /\ UNCHANGED <<config, cloud, trouble>>
  BY DEF RemoveNode
<1>2. /\ DOMAIN node' = DOMAIN node \ {n} /\ DOMAIN sketch' = DOMAIN sketch \ {n}
      /\ \A m \in DOMAIN node' : node'[m] = node[m]
      /\ \A m \in DOMAIN sketch' : sketch'[m] = sketch[m]
  BY <1>1 DEF Drop
<1>3. ChecksOK' /\ CheckTrue'
  BY <1>1 DEF ChecksOK, CheckTrue
<1>4. CloudOK'
  BY <1>1 DEF CloudOK, config, cloud
<1>5. NodesOK'
  BY <1>2 DEF NodesOK, ProviderIDs
<1>6. Shape'
  BY <1>1, <1>2 DEF Shape
<1>7. Identified'
  BY <1>1, <1>2 DEF Identified, NodesOK, KnownId, cloud
<1> QED
  BY <1>3, <1>4, <1>5, <1>6, <1>7

\* A node changes, but its provider ID and its description do not.
LEMMA NodeKept ==
  ASSUME IInv, NEW n \in DOMAIN node,
         DOMAIN node' = DOMAIN node,
         \A m \in DOMAIN node \ {n} : node'[m] = node[m],
         NEW b, NEW c,
         node'[n] = [node[n] EXCEPT !.ready = b, !.tainted = c],
         check' = check \/ check' = {},
         UNCHANGED <<config, cloud, sketch, trouble>>
  PROVE  IInv'
PROOF
<1> USE DEF IInv, TypeOK
<1>1. node'[n] = [pid |-> node[n].pid, ready |-> b, described |-> node[n].described,
                  tainted |-> c, addresses |-> node[n].addresses,
                  region |-> node[n].region]
  BY DEF Shape
<1>2. \A m \in DOMAIN node :
        node'[m].pid = node[m].pid /\ node'[m].described = node[m].described
  BY <1>1
<1>3. ChecksOK'
  BY DEF ChecksOK
<1>4. CloudOK' /\ NodesOK' /\ Identified'
  BY <1>2 DEF CloudOK, NodesOK, Identified, KnownId, config, cloud
<1>5. CheckTrue'
  BY <1>2 DEF CheckTrue, ChecksOK, GoneNode, cloud
<1>6. Shape'
  BY <1>1 DEF Shape
<1> QED
  BY <1>3, <1>4, <1>5, <1>6

\* Kubernetes finds a node ready or not.
LEMMA ReadyOK == ASSUME IInv, NEW n \in Names, Ready(n) \/ Unready(n) PROVE IInv'
PROOF
<1>1. PICK b : /\ n \in DOMAIN node /\ node' = [node EXCEPT ![n].ready = b]
               /\ UNCHANGED <<config, cloud, sketch, check, trouble>>
  BY DEF Ready, Unready
<1>2. node[n] = [pid |-> node[n].pid, ready |-> node[n].ready,
                 described |-> node[n].described, tainted |-> node[n].tainted,
                 addresses |-> node[n].addresses, region |-> node[n].region]
  BY <1>1 DEF IInv, Shape
<1>3. node'[n] = [node[n] EXCEPT !.ready = b, !.tainted = node[n].tainted]
  BY <1>1, <1>2
<1>4. DOMAIN node' = DOMAIN node /\ \A m \in DOMAIN node \ {n} : node'[m] = node[m]
  BY <1>1
<1> QED
  BY <1>1, <1>3, <1>4, NodeKept

\* InstanceShutdownByProviderID: at most the taint of a node changes.
LEMMA KeepNodeOK == ASSUME IInv, NEW n \in Names, KeepNode(n) PROVE IInv'
PROOF
<1> USE DEF IInv, TypeOK
<1>1. /\ n \in DOMAIN node /\ check' = {}
      /\ UNCHANGED <<config, cloud, sketch, trouble>>
  BY DEF KeepNode, ChecksOK
<1>2. PICK c : node' \in {node, [node EXCEPT ![n].tainted = c]}
  BY DEF KeepNode
<1>3. node[n] = [pid |-> node[n].pid, ready |-> node[n].ready,
                 described |-> node[n].described, tainted |-> node[n].tainted,
                 addresses |-> node[n].addresses, region |-> node[n].region]
  BY <1>1 DEF Shape
<1>4. PICK d : node'[n] = [node[n] EXCEPT !.ready = node[n].ready, !.tainted = d]
  <2>1. CASE node' = node
    BY <1>3, <2>1
  <2>2. CASE node' = [node EXCEPT ![n].tainted = c]
    <3>1. node'[n] = [node[n] EXCEPT !.tainted = c]
      BY <1>1, <2>2
    <3> QED
      BY <1>3, <3>1
  <2> QED
    BY <1>2, <2>1, <2>2
<1>5. DOMAIN node' = DOMAIN node /\ \A m \in DOMAIN node \ {n} : node'[m] = node[m]
  BY <1>2
<1> QED
  BY <1>1, <1>4, <1>5, NodeKept

\* A VM is created with a new id, deleted, stopped or started.
LEMMA CloudStepOK ==
  ASSUME IInv, NEW id \in Ids, CreateVM(id) \/ DeleteVM(id) \/ StopOrStart(id)
  PROVE  IInv'
PROOF
<1> USE DEF IInv, TypeOK
<1>1. UNCHANGED <<config, node, sketch, check, trouble>>
  BY DEF CreateVM, DeleteVM, StopOrStart
<1>2. spent \subseteq spent' /\ spent \ existing \subseteq spent' \ existing'
  BY DEF CreateVM, DeleteVM, StopOrStart
<1>3. CloudOK'
  <2>1. CASE CreateVM(id)
    BY <2>1 DEF CreateVM, CloudOK, config
  <2>2. CASE DeleteVM(id)
    BY <2>2 DEF DeleteVM, CloudOK, config
  <2>3. CASE StopOrStart(id)
    BY <2>3 DEF StopOrStart, CloudOK, config
  <2> QED
    BY <2>1, <2>2, <2>3
<1>4. NodesOK' /\ ChecksOK' /\ Shape'
  BY <1>1 DEF NodesOK, ChecksOK, Shape
<1>5. Identified'
  BY <1>1, <1>2 DEF Identified, KnownId
<1>6. CheckTrue'
  BY <1>1, <1>2 DEF CheckTrue, GoneNode
<1> QED
  BY <1>3, <1>4, <1>5, <1>6

\* A kubelet registers its node; the node is new, and in no check.
LEMMA RegisterOK ==
  ASSUME IInv, NEW n \in Names, NEW p \in Given[n], Register(n, p) PROVE IInv'
PROOF
<1> USE DEF IInv, TypeOK
<1>1. /\ n \notin DOMAIN node /\ node' = Put(node, n, NewNode(p))
      /\ UNCHANGED <<config, cloud, sketch, check, trouble>>
  BY DEF Register
<1>2. KnownId(p)
  BY DEF Register, KnownId, CloudOK
<1>3. p \in ProviderIDs
  BY DEF ProviderIDs
<1>4. /\ DOMAIN node' = DOMAIN node \cup {n} /\ node'[n] = NewNode(p)
      /\ \A m \in DOMAIN node : node'[m] = node[m]
  BY <1>1 DEF Put
<1>5. node'[n].pid = p /\ ~node'[n].described
  BY <1>4 DEF NewNode
<1>6. CloudOK'
  BY <1>1 DEF CloudOK, config, cloud
<1>7. ChecksOK' /\ CheckTrue'
  BY <1>1, <1>4 DEF ChecksOK, CheckTrue, GoneNode, cloud
<1>8. NodesOK'
  BY <1>1, <1>3, <1>4, <1>5 DEF NodesOK, ProviderIDs
<1>9. Shape'
  BY <1>1, <1>4 DEF Shape, NewNode
<1>10. Identified'
  BY <1>1, <1>2, <1>4, <1>5 DEF Identified, NodesOK, KnownId, cloud
<1> QED
  BY <1>6, <1>7, <1>8, <1>9, <1>10

\* A call fails: a sketch is dropped, or a check ends without an answer.
LEMMA CallFailsOK == ASSUME IInv, NEW n \in Names, CallFails(n) PROVE IInv'
PROOF
<1> USE DEF IInv, TypeOK
<1>1. /\ UNCHANGED <<config, cloud, node>>
      /\ trouble' = trouble + 1 /\ trouble < MaxTrouble
      /\ DOMAIN sketch' \subseteq DOMAIN sketch
      /\ \A m \in DOMAIN sketch' : sketch'[m] = sketch[m]
      /\ \/ check' = check
         \/ n \in DOMAIN node /\ check' = {[node |-> n, answer |-> Error]}
  BY DEF CallFails, Drop
<1>2. CloudOK'
  BY <1>1 DEF CloudOK, config, cloud
<1>3. NodesOK'
  BY <1>1 DEF NodesOK, ProviderIDs
<1>4. ChecksOK'
  BY <1>1, InstancesAssumption DEF ChecksOK
<1>5. Shape'
  BY <1>1 DEF Shape
<1>6. Identified'
  BY <1>1 DEF Identified, KnownId, cloud
<1>7. CheckTrue'
  <2>1. Error # NotFound
    BY DEF Error, NotFound
  <2>2. \A r \in check' : r.answer = NotFound => r \in check
    BY <1>1, <2>1
  <2> QED
    BY <1>1, <2>2 DEF CheckTrue, GoneNode, cloud
<1> QED
  BY <1>2, <1>3, <1>4, <1>5, <1>6, <1>7

\* Every step keeps the invariant.
LEMMA StepOK == IInv /\ [Next]_vars => IInv'
PROOF
<1> SUFFICES ASSUME IInv, [Next]_vars PROVE IInv'
  OBVIOUS
<1>1. CASE UNCHANGED vars
  BY <1>1
  DEF vars, config, cloud, IInv, TypeOK, CloudOK, NodesOK, ChecksOK, Shape,
      Identified, KnownId, CheckTrue, GoneNode
<1>2. CASE Next
  BY <1>2, IdentifyOK, FindAddressesOK, FindZoneOK, CheckNodeOK, RemoveNodeOK,
     KeepNodeOK, ReadyOK, CloudStepOK, RegisterOK, CallFailsOK
  DEF Next, Describe, EndCheck
<1> QED
  BY <1>1, <1>2

-----------------------------------------------------------------------------
(* Lists of addresses                                                      *)

IPsOf(nics) ==
  [type : {"InternalIP", "ExternalIP"},
   address : {nics[i].addr : i \in DOMAIN nics} \cup {nics[i].nat : i \in DOMAIN nics}]

LEMMA Concatenated ==
  ASSUME NEW X, NEW a \in Seq(X), NEW b \in Seq(X), NEW t
  PROVE  a \o b \in Seq(X) /\ Addresses(a \o b, t) = Addresses(a, t) \cup Addresses(b, t)
<1> DEFINE ab == a \o b
<1>1. /\ Len(a) \in Nat /\ Len(b) \in Nat
      /\ DOMAIN a = 1 .. Len(a) /\ DOMAIN b = 1 .. Len(b)
      /\ ab \in Seq(X) /\ DOMAIN ab = 1 .. Len(a) + Len(b)
      /\ \A i \in 1 .. Len(a) + Len(b) :
           ab[i] = IF i <= Len(a) THEN a[i] ELSE b[i - Len(a)]
  OBVIOUS
<1> HIDE DEF ab
<1>2. Addresses(ab, t) \subseteq Addresses(a, t) \cup Addresses(b, t)
  <2> SUFFICES ASSUME NEW i \in DOMAIN ab, ab[i].type = t
               PROVE  ab[i].address \in Addresses(a, t) \cup Addresses(b, t)
    BY DEF Addresses
  <2>1. CASE i <= Len(a)
    BY <1>1, <2>1 DEF Addresses
  <2>2. CASE ~(i <= Len(a))
    <3>1. i - Len(a) \in 1 .. Len(b) /\ ab[i] = b[i - Len(a)]
      BY <1>1, <2>2
    <3> QED BY <1>1, <3>1 DEF Addresses
  <2> QED BY <2>1, <2>2
<1>3. Addresses(a, t) \subseteq Addresses(ab, t)
  <2> SUFFICES ASSUME NEW i \in DOMAIN a, a[i].type = t
               PROVE  a[i].address \in Addresses(ab, t)
    BY DEF Addresses
  <2>1. i \in DOMAIN ab /\ ab[i] = a[i]
    BY <1>1
  <2> QED BY <2>1 DEF Addresses
<1>4. Addresses(b, t) \subseteq Addresses(ab, t)
  <2> SUFFICES ASSUME NEW i \in DOMAIN b, b[i].type = t
               PROVE  b[i].address \in Addresses(ab, t)
    BY DEF Addresses
  <2>1. i + Len(a) \in DOMAIN ab /\ ab[i + Len(a)] = b[i]
    BY <1>1
  <2> QED BY <2>1 DEF Addresses
<1> QED BY <1>1, <1>2, <1>3, <1>4 DEF ab

\* The first loops: the private addresses in some networks.
LEMMA PrivateMeans ==
  ASSUME NEW nics, NEW len \in Nat, DOMAIN nics = 1 .. len, NEW S,
         NEW type \in {"InternalIP", "ExternalIP"}
  PROVE  /\ Private(In(nics, S), type) \in Seq(IPsOf(nics))
         /\ \A t : Addresses(Private(In(nics, S), type), t) =
                     IF t = type THEN PrivateIn(nics, S) ELSE {}
<1> DEFINE K == {i \in DOMAIN nics : nics[i].net \in S}
           c == Cardinality(K)
           l == Private(In(nics, S), type)
<1>1. /\ c \in Nat /\ DOMAIN In(nics, S) = 1 .. c
      /\ \A r \in 1 .. c : \E i \in K : In(nics, S)[r] = nics[i]
      /\ \A i \in K : \E r \in 1 .. c : In(nics, S)[r] = nics[i]
  <2>1. K \in SUBSET (1 .. len)
    OBVIOUS
  <2> HIDE DEF K
  <2>2. In(nics, S) = Select(nics, K)
    BY DEF In, K
  <2>3. /\ Cardinality(K) \in Nat /\ DOMAIN Select(nics, K) = 1 .. Cardinality(K)
        /\ \A r \in 1 .. Cardinality(K) : \E i \in K : Select(nics, K)[r] = nics[i]
        /\ \A i \in K : \E r \in 1 .. Cardinality(K) : Select(nics, K)[r] = nics[i]
    BY <2>1, SelectMeans
  <2> QED BY <2>2, <2>3
<1> HIDE DEF c
<1>2. /\ DOMAIN l = 1 .. c
      /\ \A r \in 1 .. c : l[r] = IP(type, In(nics, S)[r].addr)
  BY <1>1 DEF Private
<1> HIDE DEF l
<1>3. \A r \in 1 .. c : l[r] \in IPsOf(nics)
  <2> SUFFICES ASSUME NEW r \in 1 .. c PROVE l[r] \in IPsOf(nics)
    OBVIOUS
  <2>1. PICK i \in K : In(nics, S)[r] = nics[i]
    BY <1>1
  <2>2. l[r] = [type |-> type, address |-> nics[i].addr] /\ i \in DOMAIN nics
    BY <1>2, <2>1 DEF IP
  <2> QED BY <2>2 DEF IPsOf
<1>4. l \in Seq(IPsOf(nics))
  <2>1. l = [r \in 1 .. c |-> l[r]]
    BY <1>1, <1>2 DEF l, Private
  <2>2. l \in [1 .. c -> IPsOf(nics)]
    BY <1>3, <2>1
  <2> QED BY <1>1, <2>2
<1>5. ASSUME NEW t PROVE Addresses(l, t) = IF t = type THEN PrivateIn(nics, S) ELSE {}
  <2>1. \A r \in 1 .. c : l[r].type = type /\ l[r].address = In(nics, S)[r].addr
    BY <1>2 DEF IP
  <2>2. CASE t = type
    <3>1. Addresses(l, t) = {In(nics, S)[r].addr : r \in 1 .. c}
      BY <1>2, <2>1, <2>2 DEF Addresses
    <3>2. {In(nics, S)[r].addr : r \in 1 .. c} = {nics[i].addr : i \in K}
      <4> HIDE DEF K
      <4>1. \A r \in 1 .. c : In(nics, S)[r].addr \in {nics[i].addr : i \in K}
        BY <1>1
      <4>2. \A i \in K : nics[i].addr \in {In(nics, S)[r].addr : r \in 1 .. c}
        BY <1>1
      <4> QED BY <4>1, <4>2
    <3> QED BY <2>2, <3>1, <3>2 DEF PrivateIn
  <2>3. CASE t # type
    BY <1>2, <2>1, <2>3 DEF Addresses
  <2> QED BY <2>2, <2>3
<1> QED BY <1>4, <1>5 DEF l

\* The last loop, which ends at the first public address.
LEMMA FirstPublicMeans ==
  ASSUME NEW nics, NEW len \in Nat, DOMAIN nics = 1 .. len
  PROVE  /\ FirstPublic(Natted(nics)) \in Seq(IPsOf(nics))
         /\ Addresses(FirstPublic(Natted(nics)), "ExternalIP") = FirstWithNat(nics)
         /\ Addresses(FirstPublic(Natted(nics)), "InternalIP") = {}
<1> DEFINE K == {i \in DOMAIN nics : nics[i].nat # NoAddress}
           c == Cardinality(K)
           l == FirstPublic(Natted(nics))
<1>1. /\ c \in Nat /\ (c = 0 <=> K = {}) /\ DOMAIN Natted(nics) = 1 .. c
      /\ K # {} => \E i \in K : Natted(nics)[1] = nics[i] /\ \A j \in K : i <= j
  <2>1. K \in SUBSET (1 .. len)
    OBVIOUS
  <2> HIDE DEF K
  <2>2. Natted(nics) = Select(nics, K)
    BY DEF Natted, K
  <2>3. /\ Cardinality(K) \in Nat /\ (Cardinality(K) = 0 <=> K = {})
        /\ DOMAIN Select(nics, K) = 1 .. Cardinality(K)
        /\ K # {} => \E i \in K : /\ Select(nics, K)[1] = nics[i]
                                  /\ \A j \in K : i <= j
    BY <2>1, SelectMeans
  <2> QED BY <2>2, <2>3
<1> HIDE DEF c
<1>2. Len(Natted(nics)) = c
  BY <1>1 DEF Natted, Select, c
<1>3. CASE K = {}
  <2>1. l = <<>>
    BY <1>1, <1>2, <1>3 DEF FirstPublic
  <2>2. FirstWithNat(nics) = {}
    BY <1>3 DEF FirstWithNat
  <2> QED BY <2>1, <2>2 DEF Addresses
<1>4. CASE K # {}
  <2>1. PICK i \in K : Natted(nics)[1] = nics[i] /\ \A j \in K : i <= j
    BY <1>1, <1>4
  <2>2. 1 .. c \cap {1} = {1}
    BY <1>1, <1>4
  <2>3. l = <<IP("ExternalIP", nics[i].nat)>>
    BY <1>2, <2>1, <2>2 DEF FirstPublic
  <2> HIDE DEF l
  <2>4. l \in Seq(IPsOf(nics))
    BY <2>1, <2>3 DEF IPsOf, IP
  <2>5. FirstWithNat(nics) = {nics[i].nat}
    <3>1. \A j \in 1 .. i - 1 : j \in DOMAIN nics /\ j \notin K
      BY <2>1
    <3>2. nics[i].nat # NoAddress /\ i \in DOMAIN nics
      BY <2>1
    <3>3. \A k \in DOMAIN nics :
            nics[k].nat # NoAddress /\ (\A j \in 1 .. k - 1 : nics[j].nat = NoAddress)
              => k = i
      BY <2>1, <3>2
    <3> QED BY <3>1, <3>2, <3>3 DEF FirstWithNat
  <2>6. DOMAIN l = {1} /\ l[1].type = "ExternalIP" /\ l[1].address = nics[i].nat
    BY <2>3 DEF IP
  <2>7. Addresses(l, "ExternalIP") = {nics[i].nat} /\ Addresses(l, "InternalIP") = {}
    BY <2>6 DEF Addresses
  <2> QED BY <2>4, <2>5, <2>7 DEF l
<1> QED BY <1>3, <1>4

\* extractNodeAddresses gives the addresses that the documentation promises.
LEMMA ExtractionDocumented ==
  ASSUME NEW nics, NEW len \in Nat, DOMAIN nics = 1 .. len, len # 0,
         internal # {} \/ external = {}
  PROVE  Documented(extractNodeAddresses(nics), nics)
<1> DEFINE X == IPsOf(nics)
           inner == IF internal # {} THEN Private(In(nics, internal), "InternalIP")
                    ELSE <<IP("InternalIP", nics[1].addr)>> \o FirstPublic(Natted(<<nics[1]>>))
           outer == IF external # {} THEN Private(In(nics, external), "ExternalIP")
                    ELSE FirstPublic(Natted(nics))
<1> DEFINE first == {a \in {nics[1].nat} : a # NoAddress}
<1>1. /\ inner \in Seq(X)
      /\ Addresses(inner, "InternalIP") =
           IF internal # {} THEN PrivateIn(nics, internal) ELSE {nics[1].addr}
      /\ Addresses(inner, "ExternalIP") = IF internal # {} THEN {} ELSE first
  <2>1. CASE internal # {}
    <3>1. inner = Private(In(nics, internal), "InternalIP")
      BY <2>1
    <3> QED BY <2>1, <3>1, PrivateMeans
  <2>2. CASE internal = {}
    <3> DEFINE a == <<IP("InternalIP", nics[1].addr)>>
               b == FirstPublic(Natted(<<nics[1]>>))
               one == <<nics[1]>>
    <3>1. DOMAIN one = 1 .. 1 /\ one[1] = nics[1] /\ 1 \in DOMAIN nics
      OBVIOUS
    <3> HIDE DEF one
    <3>2. /\ b \in Seq(IPsOf(one)) /\ Addresses(b, "InternalIP") = {}
          /\ Addresses(b, "ExternalIP") = FirstWithNat(one)
      BY <3>1, FirstPublicMeans DEF one
    <3>3. FirstWithNat(one) = first
      BY <3>1 DEF FirstWithNat
    <3>4. IPsOf(one) \subseteq X
      <4>1. nics[1].addr \in {nics[i].addr : i \in DOMAIN nics}
            /\ nics[1].nat \in {nics[i].nat : i \in DOMAIN nics}
        BY <3>1
      <4>2. {one[i].addr : i \in DOMAIN one} = {nics[1].addr}
            /\ {one[i].nat : i \in DOMAIN one} = {nics[1].nat}
        BY <3>1
      <4> QED BY <4>1, <4>2 DEF IPsOf
    <3>5. IP("InternalIP", nics[1].addr) \in X
      BY <3>1 DEF IPsOf, IP
    <3> HIDE DEF X, b, first
    <3>6. a \in Seq(X) /\ b \in Seq(X)
      BY <3>2, <3>4, <3>5
    <3>7. a[1].type = "InternalIP" /\ a[1].address = nics[1].addr /\ DOMAIN a = {1}
      BY DEF IP
    <3> HIDE DEF a
    <3>8. Addresses(a, "InternalIP") = {nics[1].addr} /\ Addresses(a, "ExternalIP") = {}
      BY <3>7 DEF Addresses
    <3>9. inner = a \o b
      BY <2>2 DEF a, b
    <3>10. /\ a \o b \in Seq(X)
           /\ \A t : Addresses(a \o b, t) = Addresses(a, t) \cup Addresses(b, t)
      BY <3>6, Concatenated
    <3> QED BY <2>2, <3>2, <3>3, <3>8, <3>9, <3>10
  <2> QED BY <2>1, <2>2
<1>2. /\ outer \in Seq(X) /\ Addresses(outer, "InternalIP") = {}
      /\ Addresses(outer, "ExternalIP") =
           IF external # {} THEN PrivateIn(nics, external) ELSE FirstWithNat(nics)
  <2>1. CASE external # {}
    <3>1. outer = Private(In(nics, external), "ExternalIP")
      BY <2>1
    <3> QED BY <2>1, <3>1, PrivateMeans
  <2>2. CASE external = {}
    <3>1. outer = FirstPublic(Natted(nics))
      BY <2>2
    <3> QED BY <2>2, <3>1, FirstPublicMeans
  <2> QED BY <2>1, <2>2
<1>3. first \subseteq FirstWithNat(nics)
  BY DEF FirstWithNat
<1>4. extractNodeAddresses(nics) = inner \o outer
  BY DEF extractNodeAddresses, AddressesOf
<1> HIDE DEF X, inner, outer, first
<1>5. \A t : Addresses(inner \o outer, t) = Addresses(inner, t) \cup Addresses(outer, t)
  BY <1>1, <1>2, Concatenated
<1>6. Addresses(inner \o outer, "InternalIP") =
        IF internal # {} THEN PrivateIn(nics, internal) ELSE {nics[1].addr}
  BY <1>1, <1>2, <1>5
<1>7. Addresses(inner \o outer, "ExternalIP") =
        IF external # {} THEN PrivateIn(nics, external) ELSE FirstWithNat(nics)
  <2>1. CASE internal # {}
    BY <1>1, <1>2, <1>5, <2>1
  <2>2. CASE internal = {} /\ external = {}
    <3>1. /\ Addresses(inner, "ExternalIP") = first
          /\ Addresses(outer, "ExternalIP") = FirstWithNat(nics)
      BY <1>1, <1>2, <2>2
    <3> QED BY <1>3, <1>5, <2>2, <3>1
  <2> QED BY <2>1, <2>2
<1> QED BY <1>4, <1>6, <1>7 DEF Documented

-----------------------------------------------------------------------------
(* Whose addresses a node gets                                             *)

\* A provider ID of the deprecated form, which ends in the name of a VM, is that
\* of the node itself: nodes and their VMs have the same name (util.go:28-30).
NamesItself ==
  \A n \in Names : \A p \in Given[n] : IsDeprecated(p) => p.path[3] = n

\* A provider ID stands for a VM that has borne the node's name.
OwnID(p, n) ==
  /\ IsById(p) => \E id \in spent : p = IdOf(id) /\ VM[id].name = n
  /\ IsDeprecated(p) => p.path[3] = n

OwnIDs ==
  /\ \A n \in DOMAIN node : OwnID(node[n].pid, n)
  /\ \A n \in DOMAIN sketch : OwnID(sketch[n].pid, n)

DocumentedFor(list, n) ==
  \E id \in spent : VM[id].name = n /\ Documented(list, VM[id].nics)

\* The addresses that have been looked up, and not written to the node yet.
LookedDocumented ==
  internal # {} \/ external = {} =>
    \A n \in DOMAIN sketch :
      sketch[n].looked => DocumentedFor(sketch[n].addresses, n)

DescribedInv == OwnIDs /\ LookedDocumented /\ AddressesDocumented

\* A lookup by name finds a VM of this name.
LEMMA NameFound ==
  ASSUME NEW n, FindInstanceByName(n) # Error
  PROVE  FindInstanceByName(n) \in existing /\ VM[FindInstanceByName(n)].name = n
<1> DEFINE found == {id \in existing : VM[id].name = n}
<1>1. Cardinality(found) = 1 /\ FindInstanceByName(n) = CHOOSE id \in found : TRUE
  BY DEF FindInstanceByName, TheOne
<1>2. found # {}
  BY <1>1, FS_EmptySet
<1> QED BY <1>1, <1>2

\* The VM that answers for a node bears the node's name, or has borne it.
LEMMA AnsweringMeans ==
  ASSUME IInv, NEW n, NEW p, OwnID(p, n), NEW usable \in SUBSET existing,
         Answering(p, n, usable) \in usable
  PROVE  /\ Answering(p, n, usable) \in spent
         /\ VM[Answering(p, n, usable)].name = n
<1> DEFINE first == getInstanceByProviderID(p)
<1>1. existing \subseteq spent /\ NotFound \notin existing /\ Error \notin existing
  BY AnswerAssumption DEF IInv, TypeOK, CloudOK
<1>2. CASE first \in usable
  <2>1. Answering(p, n, usable) = first /\ first \in existing
    BY <1>2 DEF Answering
  <2>2. CASE IsDeprecated(p)
    <3>1. first = FindInstanceByName(n)
      BY <2>2, Answers DEF OwnID
    <3> QED BY <1>1, <2>1, <3>1, NameFound
  <2>3. CASE IsById(p)
    <3>1. PICK id \in spent : p = IdOf(id) /\ VM[id].name = n
      BY <2>3 DEF OwnID
    <3>2. first = p.path[1]
      <4>1. first # NotFound
        BY <1>1, <2>1
      <4> QED BY <2>3, <4>1, Answers
    <3> QED BY <1>1, <2>1, <3>1, <3>2, IdOfFacts
  <2>4. CASE ~IsDeprecated(p) /\ ~IsById(p)
    BY <1>1, <2>1, <2>4, Answers
  <2> QED BY <2>2, <2>3, <2>4
<1>3. CASE first \notin usable
  <2>1. Answering(p, n, usable) = FindInstanceByName(n)
    BY <1>3 DEF Answering
  <2>2. FindInstanceByName(n) # Error
    BY <1>1, <2>1
  <2> QED BY <1>1, <2>1, <2>2, NameFound
<1> QED BY <1>2, <1>3

\* InstanceID gives a node the id of a VM of its name.
LEMMA OwnIdentity ==
  ASSUME IInv, NEW n \in DOMAIN node, OwnID(node[n].pid, n)
  PROVE  OwnID(IdentityOf(n), n)
<1>1. existing \subseteq spent
  BY DEF IInv, TypeOK, CloudOK
<1>2. CASE node[n].pid # EmptyID
  BY <1>2 DEF IdentityOf
<1>3. CASE node[n].pid = EmptyID /\ Found(FindInstanceByName(n))
  <2> DEFINE id == FindInstanceByName(n)
  <2>1. IdentityOf(n) = IdOf(id)
    BY <1>3 DEF IdentityOf
  <2>2. id \in spent /\ VM[id].name = n
    BY <1>1, <1>3, NameFound DEF Found
  <2> HIDE DEF id
  <2> QED BY <2>1, <2>2, IdOfFacts DEF OwnID
<1>4. CASE node[n].pid = EmptyID /\ ~Found(FindInstanceByName(n))
  BY <1>4 DEF IdentityOf
<1> QED BY <1>2, <1>3, <1>4

\* Each node and each sketch is as before, or was written by one of these.
LEMMA NodeWritten ==
  ASSUME IInv, [Next]_vars, NEW m \in DOMAIN node'
  PROVE  \/ /\ m \in DOMAIN node /\ node'[m].pid = node[m].pid
            /\ node'[m].described = node[m].described
            /\ node'[m].addresses = node[m].addresses
         \/ \E p \in Given[m] : Register(m, p) /\ node'[m] = NewNode(p)
         \/ /\ m \in DOMAIN sketch /\ sketch[m].looked
            /\ node'[m].pid = sketch[m].pid /\ node'[m].addresses = sketch[m].addresses
<1> DEFINE Kept == /\ m \in DOMAIN node /\ node'[m].pid = node[m].pid
                   /\ node'[m].described = node[m].described
                   /\ node'[m].addresses = node[m].addresses
<1>1. \A n \in DOMAIN node :
        node[n] = [pid |-> node[n].pid, ready |-> node[n].ready,
                   described |-> node[n].described, tainted |-> node[n].tainted,
                   addresses |-> node[n].addresses, region |-> node[n].region]
  BY DEF IInv, Shape
<1>2. ASSUME NEW n \in Names, FindZone(n)
      PROVE  \/ Kept
             \/ /\ m \in DOMAIN sketch /\ sketch[m].looked
                /\ node'[m].pid = sketch[m].pid /\ node'[m].addresses = sketch[m].addresses
  <2>1. CASE node' = node
    BY <2>1
  <2>2. CASE node' # node
    <3>1. PICK z : node' = [node EXCEPT ![n] =
                      [node[n] EXCEPT !.pid = sketch[n].pid, !.described = TRUE,
                                      !.addresses = sketch[n].addresses, !.region = z]]
      BY <1>2, <2>2 DEF FindZone
    <3>2. CASE m = n
      <4>1. /\ node'[m].pid = sketch[m].pid /\ node'[m].addresses = sketch[m].addresses
        <5> DEFINE old == [pid |-> node[n].pid, ready |-> node[n].ready,
                  described |-> node[n].described, tainted |-> node[n].tainted,
                  addresses |-> node[n].addresses, region |-> node[n].region]
        <5>1. n \in DOMAIN node
          BY <1>2 DEF FindZone, IInv, TypeOK, NodesOK
        <5>2. node'[n] = [old EXCEPT !.pid = sketch[n].pid, !.described = TRUE,
                            !.addresses = sketch[n].addresses, !.region = z]
          BY <1>1, <3>1, <5>1
        <5> QED BY <3>2, <5>2
      <4> QED BY <1>2, <3>2, <4>1 DEF FindZone
    <3>3. CASE m # n
      BY <3>1, <3>3
    <3> QED BY <3>2, <3>3
  <2> QED BY <2>1, <2>2
<1>3. ASSUME NEW n \in Names, KeepNode(n) PROVE Kept
  <2>1. PICK c : node' \in {node, [node EXCEPT ![n].tainted = c]}
    BY <1>3 DEF KeepNode
  <2> QED BY <1>1, <2>1
<1>4. ASSUME NEW n \in Names, Ready(n) \/ Unready(n) PROVE Kept
  <2>1. PICK b : node' = [node EXCEPT ![n].ready = b]
    BY <1>4 DEF Ready, Unready
  <2> QED BY <1>1, <2>1
<1>5. ASSUME NEW n \in Names, NEW p \in Given[n], Register(n, p)
      PROVE  \/ Kept
             \/ \E q \in Given[m] : Register(m, q) /\ node'[m] = NewNode(q)
  BY <1>5 DEF Register, Put
<1>6. ASSUME NEW n \in Names, RemoveNode(n) PROVE Kept
  BY <1>6 DEF RemoveNode, Drop
<1>7. CASE UNCHANGED node
  BY <1>7
<1>8. ASSUME NEW n \in Names,
             Identify(n) \/ FindAddresses(n) \/ CheckNode(n) \/ CallFails(n)
      PROVE  UNCHANGED node
  BY <1>8 DEF Identify, FindAddresses, CheckNode, CallFails
<1>9. ASSUME NEW id \in Ids, CreateVM(id) \/ DeleteVM(id) \/ StopOrStart(id)
      PROVE  UNCHANGED node
  BY <1>9 DEF CreateVM, DeleteVM, StopOrStart
<1> HIDE DEF Kept
<1>10. CASE UNCHANGED vars
  BY <1>7, <1>10 DEF vars
<1> QED BY <1>2, <1>3, <1>4, <1>5, <1>6, <1>7, <1>8, <1>9, <1>10
        DEF Next, Describe, EndCheck, Kept

LEMMA SketchWritten ==
  ASSUME IInv, [Next]_vars, NEW m \in DOMAIN sketch'
  PROVE  \/ m \in DOMAIN sketch /\ sketch'[m] = sketch[m]
         \/ /\ m \in DOMAIN node /\ sketch'[m].pid = IdentityOf(m)
            /\ ~sketch'[m].looked
         \/ /\ m \in DOMAIN sketch /\ sketch'[m].pid = sketch[m].pid
            /\ Answering(sketch[m].pid, m, WithAddress) \in WithAddress
            /\ sketch'[m].addresses =
                 extractNodeAddresses(VM[Answering(sketch[m].pid, m, WithAddress)].nics)
<1>1. ASSUME NEW n \in Names, FindAddresses(n)
      PROVE  \/ m \in DOMAIN sketch /\ sketch'[m] = sketch[m]
             \/ /\ m \in DOMAIN sketch /\ sketch'[m].pid = sketch[m].pid
                /\ Answering(sketch[m].pid, m, WithAddress) \in WithAddress
                /\ sketch'[m].addresses =
                     extractNodeAddresses(VM[Answering(sketch[m].pid, m, WithAddress)].nics)
  <2>1. CASE \E S \in {{n}, DOMAIN sketch} : sketch' = Drop(sketch, S)
    BY <2>1 DEF Drop
  <2>2. ASSUME NEW a, n \in DOMAIN sketch,
               sketch' = [sketch EXCEPT ![n].looked = TRUE, ![n].addresses = a]
        PROVE  \/ m \in DOMAIN sketch /\ sketch'[m] = sketch[m]
               \/ m = n /\ sketch'[m].pid = sketch[m].pid /\ sketch'[m].addresses = a
    <3>1. sketch[n] = [pid |-> sketch[n].pid, looked |-> sketch[n].looked,
                       addresses |-> sketch[n].addresses]
      BY <2>2 DEF IInv, Shape
    <3> QED BY <2>2, <3>1
  <2>3. n \in DOMAIN sketch
    BY <1>1 DEF FindAddresses
  <2>4. CASE /\ Answering(sketch[n].pid, n, WithAddress) \in WithAddress
             /\ sketch' = [sketch EXCEPT ![n].looked = TRUE,
                  ![n].addresses =
                    extractNodeAddresses(VM[Answering(sketch[n].pid, n, WithAddress)].nics)]
    BY <2>2, <2>3, <2>4
  <2> QED BY <1>1, <2>1, <2>4, FindAddressesCases
<1>2. ASSUME NEW n \in Names, Identify(n)
      PROVE  \/ m \in DOMAIN sketch /\ sketch'[m] = sketch[m]
             \/ /\ m \in DOMAIN node /\ sketch'[m].pid = IdentityOf(m)
                /\ ~sketch'[m].looked
  BY <1>2 DEF Identify, Put
<1>3. ASSUME NEW n \in Names, FindZone(n) \/ RemoveNode(n) \/ CallFails(n)
      PROVE  m \in DOMAIN sketch /\ sketch'[m] = sketch[m]
  BY <1>3 DEF FindZone, RemoveNode, CallFails, Drop
<1>4. ASSUME NEW n \in Names, CheckNode(n) \/ KeepNode(n) \/ Ready(n) \/ Unready(n)
      PROVE  UNCHANGED sketch
  BY <1>4 DEF CheckNode, KeepNode, Ready, Unready
<1>5. ASSUME NEW n \in Names, NEW p \in Given[n], Register(n, p) PROVE UNCHANGED sketch
  BY <1>5 DEF Register
<1>6. ASSUME NEW id \in Ids, CreateVM(id) \/ DeleteVM(id) \/ StopOrStart(id)
      PROVE  UNCHANGED sketch
  BY <1>6 DEF CreateVM, DeleteVM, StopOrStart
<1>7. CASE UNCHANGED vars
  BY <1>7 DEF vars
<1> QED BY <1>1, <1>2, <1>3, <1>4, <1>5, <1>6, <1>7 DEF Next, Describe, EndCheck

\* Ids once given stay so, and the configuration is read once.
LEMMA Lasting ==
  ASSUME [Next]_vars PROVE UNCHANGED <<internal, external>> /\ spent \subseteq spent'
BY DEF Next, Describe, EndCheck, Identify, FindAddresses, FindZone, CheckNode, RemoveNode,
       KeepNode, CreateVM, DeleteVM, StopOrStart, Register, Ready, Unready, CallFails,
       vars, config, cloud

LEMMA OwnIDsKept == ASSUME IInv, IInv', OwnIDs, [Next]_vars, NamesItself PROVE OwnIDs'
<1>1. spent \subseteq spent'
  BY Lasting
<1>2. ASSUME NEW p, NEW n, OwnID(p, n) PROVE OwnID(p, n)'
  BY <1>1, <1>2 DEF OwnID
<1>3. ASSUME NEW m \in DOMAIN node' PROVE OwnID(node'[m].pid, m)
  <2>1. CASE m \in DOMAIN node /\ node'[m].pid = node[m].pid
    BY <2>1 DEF OwnIDs
  <2>2. ASSUME NEW p \in Given[m], Register(m, p), node'[m] = NewNode(p)
        PROVE  OwnID(node'[m].pid, m)
    <3>1. node'[m].pid = p /\ m \in Names
      BY <2>2 DEF NewNode, IInv, TypeOK, NodesOK
    <3>2. IsById(p) => \E id \in spent : VM[id].name = m /\ p = IdOf(id)
      BY <2>2 DEF Register, IInv, TypeOK, CloudOK
    <3> QED BY <3>1, <3>2 DEF OwnID, NamesItself
  <2>3. CASE m \in DOMAIN sketch /\ node'[m].pid = sketch[m].pid
    BY <2>3 DEF OwnIDs
  <2> QED BY <2>1, <2>2, <2>3, NodeWritten
<1>4. ASSUME NEW m \in DOMAIN sketch' PROVE OwnID(sketch'[m].pid, m)
  <2>1. CASE m \in DOMAIN node /\ sketch'[m].pid = IdentityOf(m)
    BY <2>1, OwnIdentity DEF OwnIDs
  <2>2. CASE m \in DOMAIN sketch /\ sketch'[m].pid = sketch[m].pid
    BY <2>2 DEF OwnIDs
  <2> QED BY <2>1, <2>2, SketchWritten
<1> QED BY <1>2, <1>3, <1>4 DEF OwnIDs

\* NodeAddresses: the VM that answers has the addresses, now and ever after.
LEMMA LookedKept ==
  ASSUME IInv, OwnIDs, LookedDocumented, [Next]_vars PROVE LookedDocumented'
<1>1. /\ UNCHANGED <<internal, external>> /\ spent \subseteq spent'
      /\ \A list, nics : Documented(list, nics) <=> Documented(list, nics)'
  BY Lasting DEF Documented
<1> SUFFICES ASSUME internal # {} \/ external = {},
                    NEW m \in DOMAIN sketch', sketch'[m].looked
             PROVE  \E id \in spent :
                      VM[id].name = m /\ Documented(sketch'[m].addresses, VM[id].nics)
  BY <1>1 DEF LookedDocumented, DocumentedFor
<1>2. CASE m \in DOMAIN sketch /\ sketch'[m] = sketch[m]
  BY <1>2 DEF LookedDocumented, DocumentedFor
<1>3. CASE /\ m \in DOMAIN sketch
           /\ Answering(sketch[m].pid, m, WithAddress) \in WithAddress
           /\ sketch'[m].addresses =
                extractNodeAddresses(VM[Answering(sketch[m].pid, m, WithAddress)].nics)
  <2> DEFINE id == Answering(sketch[m].pid, m, WithAddress)
  <2>1. id \in WithAddress /\ id \in spent /\ VM[id].name = m
    BY <1>3, AnsweringMeans DEF OwnIDs, WithAddress
  <2> HIDE DEF id
  <2> DEFINE nics == VM[id].nics
  <2>2. /\ nics \in Seq({nics[i] : i \in DOMAIN nics}) /\ nics # <<>>
    BY <2>1, InstancesAssumption DEF IInv, TypeOK, CloudOK, WithAddress, NoFirst
  <2>3. sketch'[m].addresses = extractNodeAddresses(nics)
    BY <1>3 DEF id
  <2> HIDE DEF nics
  <2>4. DOMAIN nics = 1 .. Len(nics) /\ Len(nics) \in Nat /\ Len(nics) # 0
    BY <2>2
  <2>5. Documented(extractNodeAddresses(nics), nics)
    BY <2>4, ExtractionDocumented
  <2> QED BY <2>1, <2>3, <2>5 DEF nics
<1> QED BY <1>2, <1>3, SketchWritten

LEMMA DescribedKept ==
  ASSUME IInv, LookedDocumented, AddressesDocumented, [Next]_vars
  PROVE  AddressesDocumented'
<1>1. /\ UNCHANGED <<internal, external>> /\ spent \subseteq spent'
      /\ \A list, nics : Documented(list, nics) <=> Documented(list, nics)'
  BY Lasting DEF Documented
<1> SUFFICES ASSUME internal # {} \/ external = {},
                    NEW m \in DOMAIN node', node'[m].described
             PROVE  \E id \in spent :
                      VM[id].name = m /\ Documented(node'[m].addresses, VM[id].nics)
  BY <1>1 DEF AddressesDocumented
<1>2. CASE /\ m \in DOMAIN node /\ node'[m].described = node[m].described
           /\ node'[m].addresses = node[m].addresses
  BY <1>2 DEF AddressesDocumented
<1>3. CASE \E p \in Given[m] : node'[m] = NewNode(p)
  BY <1>3 DEF NewNode
<1>4. CASE m \in DOMAIN sketch /\ sketch[m].looked /\ node'[m].addresses = sketch[m].addresses
  BY <1>4 DEF LookedDocumented, DocumentedFor
<1> QED BY <1>2, <1>3, <1>4, NodeWritten

-----------------------------------------------------------------------------
(* The theorems                                                            *)

\* Type correctness: two VMs never share a name, and what is described, or
\* checked, is a node that the cluster has, with a provider ID (instances.go:19-72).
THEOREM TypeCorrect == Spec => []TypeOK
PROOF
<1>1. IInv => TypeOK
  BY DEF IInv
<1> QED
  BY InitOK, StepOK, <1>1, PTL DEF Spec

\* A node is deleted only when the VM of its provider ID is gone: "not found"
\* is still true when the answer is acted on, because ids are never given
\* twice and the provider ID of a node does not change (instances.go:61-71).
THEOREM RemovesOnlyGone == Spec => OnlyGoneRemoved
PROOF
<1> DEFINE A == \A n \in DOMAIN node \ DOMAIN node' :
                  \E id \in spent \ existing : node[n].pid = IdOf(id)
<1>1. IInv /\ [Next]_vars => [A]_vars
  <2> SUFFICES ASSUME IInv, Next, NEW n \in DOMAIN node, n \notin DOMAIN node'
               PROVE  GoneNode(n)
    BY DEF GoneNode
  <2>1. CASE \E m \in Names : RemoveNode(m)
    <3>1. PICK m \in Names : RemoveNode(m)
      BY <2>1
    <3>2. m = n /\ [node |-> n, answer |-> NotFound] \in check
      BY <3>1 DEF RemoveNode, Drop
    <3> QED
      BY <3>2 DEF IInv, CheckTrue
  <2>2. CASE ~\E m \in Names : RemoveNode(m)
    <3>1. DOMAIN node \subseteq DOMAIN node'
      BY <2>2
      DEF Next, Describe, EndCheck, Identify, FindAddresses, FindZone, CheckNode,
          KeepNode, CreateVM, DeleteVM, StopOrStart, Register, Put, Ready, Unready,
          CallFails
    <3> QED
      BY <3>1
  <2> QED
    BY <2>1, <2>2
<1> QED
  BY InitOK, StepOK, <1>1, PTL DEF Spec, OnlyGoneRemoved

\* A node that was described has the documented addresses of one VM of its name,
\* although VMs come, go and are replaced between the lookups (instances.go:18-34,
\* 83-134).
THEOREM DescribedAsDocumented == NamesItself => (Spec => []AddressesDocumented)
<1> SUFFICES ASSUME NamesItself PROVE Spec => []AddressesDocumented
  OBVIOUS
<1>1. Init => DescribedInv
  BY DEF Init, DescribedInv, OwnIDs, LookedDocumented, AddressesDocumented
<1>2. IInv /\ IInv' /\ DescribedInv /\ [Next]_vars => DescribedInv'
  BY OwnIDsKept, LookedKept, DescribedKept DEF DescribedInv
<1>3. DescribedInv => AddressesDocumented
  BY DEF DescribedInv
<1> QED BY InitOK, StepOK, <1>1, <1>2, <1>3, PTL DEF Spec

=============================================================================
