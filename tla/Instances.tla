------------------------------ MODULE Instances ------------------------------
(***************************************************************************)
(* Instances and Zones: which VM a node is, what addresses and which zone  *)
(* the node gets from it, and whether its VM is still there.  The calls    *)
(* come from two controllers of Kubernetes, which are not code of this     *)
(* repository: the node controller describes new nodes, the node lifecycle *)
(* controller removes nodes whose VM is gone.                              *)
(***************************************************************************)
EXTENDS Selections, FiniteSets, Naturals, Sequences

CONSTANTS
  Ids,        \* ids of VMs: never given twice
  Names,      \* names of VMs and nodes
  VM,         \* VM[id]: name, interfaces (a list), zone (a list: its parts)
  Networks,   \* VPC networks
  Settings,   \* pairs of network sets that may be configured
  NoAddress,  \* an interface without primary IPv4 address, or without NAT
  Given,      \* Given[n]: the provider IDs that node n may register with
  MaxTrouble  \* bound: failing calls

ASSUME InstancesAssumption ==
  /\ \A id \in Ids : VM[id].name \in Names
  /\ \A id \in Ids :
       /\ \A i \in DOMAIN VM[id].nics : VM[id].nics[i].net \in Networks
       /\ VM[id].nics \in Seq({VM[id].nics[i] : i \in DOMAIN VM[id].nics})
  /\ Settings \subseteq (SUBSET Networks) \X (SUBSET Networks)
  /\ MaxTrouble \in Nat

VARIABLES
  internal, external,  \* InternalNetworkIDsSet, ExternalNetworkIDsSet
  existing,   \* the VMs of the folder
  spent,      \* ids that have been given
  stopped,    \* VMs whose status is STOPPED
  node,       \* the nodes of the cluster
  sketch,     \* what the node controller has found out about a node
  check,      \* the node that the lifecycle controller is at, and the answer
  trouble

config == <<internal, external>>
cloud  == <<existing, spent, stopped>>
vars   == <<config, cloud, node, sketch, check, trouble>>

-----------------------------------------------------------------------------
(* Provider IDs                                                            *)

\* scheme://path, the path cut at its slashes; the empty ID has no scheme.
ProviderID(scheme, path) == [scheme |-> scheme, path |-> path]
EmptyID                  == ProviderID("", <<>>)
IdOf(id)                 == ProviderID("yandex", <<id>>)

\* The deprecated form names the VM in its third part; anything else after
\* yandex:// is an id.
IsDeprecated(p) == p.scheme = "yandex" /\ Len(p.path) = 3
IsById(p)       == p.scheme = "yandex" /\ Len(p.path) \notin {0, 3}

-----------------------------------------------------------------------------
(* Lookups: an id, or one of these                                         *)

NotFound == "not found"
Error    == "error"

TheOne(found) == IF Cardinality(found) = 1 THEN CHOOSE id \in found : TRUE ELSE Error

\* Faulty variant of the next definition: only VMs that run.
FindRunning(n) == TheOne({id \in existing \ stopped : VM[id].name = n})

\* To find no VM is an error like any other.
FindInstanceByName(n) == TheOne({id \in existing : VM[id].name = n})

\* The answer for an id that is missing, and for a provider ID of no known form.
ByProviderID(p, missing, unread) ==
  CASE IsDeprecated(p) -> FindInstanceByName(p.path[3])
    [] IsById(p) -> IF p.path \in {<<id>> : id \in existing} THEN p.path[1] ELSE missing
    [] OTHER -> unread

\* Faulty variants of the next definition: what cannot be read is not found; the
\* status code of the error is not looked at.
NotFoundUnread(p) == ByProviderID(p, NotFound, NotFound)
ErrorForNone(p)   == ByProviderID(p, Error, Error)

getInstanceByProviderID(p) == ByProviderID(p, NotFound, Error)

ASSUME AnswerAssumption == NotFound \notin Ids /\ Error \notin Ids

Found(answer) == answer \notin {NotFound, Error}

-----------------------------------------------------------------------------
(* What a VM says of its node                                              *)

IP(type, a) == [type |-> type, address |-> a]

In(nics, S)  == Select(nics, {i \in DOMAIN nics : nics[i].net \in S})
Natted(nics) == Select(nics, {i \in DOMAIN nics : nics[i].nat # NoAddress})

\* An error: there is no first interface, or it has no address.
NoFirst(nics) ==
  nics = <<>> \/ (internal = {} /\ nics[1].addr = NoAddress)

\* The nil address of another interface is dereferenced; when no network is
\* external, the loop must get there before it finds a NAT.
Panics(nics) ==
  /\ ~NoFirst(nics)
  /\ \E i \in DOMAIN nics :
       /\ nics[i].addr = NoAddress
       /\ \/ nics[i].net \in internal \cup external
          \/ external = {} /\ \A j \in 1 .. i : nics[j].nat = NoAddress

Private(nics, type) == [i \in DOMAIN nics |-> IP(type, nics[i].addr)]
FirstPublic(nics)   == [i \in 1 .. Len(nics) \cap {1} |-> IP("ExternalIP", nics[i].nat)]

\* public: the addresses when no network is external.
AddressesOf(nics, public) ==
  (IF internal # {} THEN Private(In(nics, internal), "InternalIP")
   ELSE <<IP("InternalIP", nics[1].addr)>> \o FirstPublic(Natted(<<nics[1]>>)))
  \o
  (IF external # {} THEN Private(In(nics, external), "ExternalIP") ELSE public)

\* Faulty variant of the next definition: the loop goes on after the first.
AllPublic(nics) ==
  AddressesOf(nics,
    [i \in DOMAIN Natted(nics) |-> IP("ExternalIP", Natted(nics)[i].nat)])

extractNodeAddresses(nics) == AddressesOf(nics, FirstPublic(Natted(nics)))

\* The region is the zone without its last part; there must be two.
GetRegion(zone) == SubSeq(zone, 1, Len(zone) - 1)

\* The VMs whose addresses, or whose zone, can be told.
WithAddress == {id \in existing : ~NoFirst(VM[id].nics)}
WithZone    == {id \in existing : Len(VM[id].zone) >= 2}

\* The VM that answers for a node: by its provider ID, or else by its name.
Answering(p, n, usable) ==
  LET first == getInstanceByProviderID(p) IN
  IF first \in usable THEN first ELSE FindInstanceByName(n)

-----------------------------------------------------------------------------
(* The node controller                                                     *)

Put(f, n, r) == [m \in DOMAIN f \cup {n} |-> IF m = n THEN r ELSE f[m]]
Drop(f, S)   == [m \in DOMAIN f \ S |-> f[m]]

NewNode(p) ==
  [pid |-> p, ready |-> TRUE, described |-> FALSE, tainted |-> FALSE,
   addresses |-> <<>>, region |-> <<>>]

\* Faulty variant of the next definition: InstanceID without its error.
WithoutError(n) ==
  IF node[n].pid # EmptyID THEN node[n].pid ELSE IdOf(FindInstanceByName(n))

\* The provider ID of a node: its own, or that of the VM of its name, if any.
IdentityOf(n) ==
  IF node[n].pid # EmptyID THEN node[n].pid
  ELSE LET id == FindInstanceByName(n) IN IF Found(id) THEN IdOf(id) ELSE EmptyID

\* InstanceID, for a node that has registered without a provider ID.
Identify(n) ==
  /\ n \in DOMAIN node \ DOMAIN sketch /\ ~node[n].described
  /\ IdentityOf(n) # EmptyID
  /\ sketch' = Put(sketch, n, [pid |-> IdentityOf(n), looked |-> FALSE, addresses |-> <<>>])
  /\ UNCHANGED <<config, cloud, node, check, trouble>>

\* NodeAddressesByProviderID, and NodeAddresses when that fails.  A panic ends
\* the process: what both controllers know is lost.
FindAddresses(n) ==
  /\ n \in DOMAIN sketch /\ ~sketch[n].looked
  /\ \/ \E id \in WithAddress :
          /\ id = Answering(sketch[n].pid, n, WithAddress)
          /\ \/ /\ ~Panics(VM[id].nics)
                /\ sketch' = [sketch EXCEPT ![n].looked = TRUE,
                                 ![n].addresses = extractNodeAddresses(VM[id].nics)]
                /\ UNCHANGED check
             \/ /\ Panics(VM[id].nics)
                /\ sketch' = Drop(sketch, DOMAIN sketch) /\ check' = {}
     \/ /\ Answering(sketch[n].pid, n, WithAddress) \notin WithAddress
        /\ sketch' = Drop(sketch, {n}) /\ UNCHANGED check
  /\ UNCHANGED <<config, cloud, node, trouble>>

\* GetZoneByProviderID, and GetZoneByNodeName when that fails; the node is
\* written.
FindZone(n) ==
  LET id == Answering(sketch[n].pid, n, WithZone) IN
  /\ n \in DOMAIN sketch /\ sketch[n].looked
  /\ \/ /\ id \in WithZone
        /\ node' = [node EXCEPT ![n] =
                      [@ EXCEPT !.pid = sketch[n].pid, !.described = TRUE,
                                !.addresses = sketch[n].addresses,
                                !.region = GetRegion(VM[id].zone)]]
     \/ /\ id \notin WithZone
        /\ UNCHANGED node
  /\ sketch' = Drop(sketch, {n})
  /\ UNCHANGED <<config, cloud, check, trouble>>

-----------------------------------------------------------------------------
(* The node lifecycle controller                                           *)

\* InstanceExistsByProviderID, for a node that is not ready.
CheckNode(n) ==
  LET p == IdentityOf(n) IN
  /\ check = {} /\ n \in DOMAIN node /\ ~node[n].ready
  /\ check' = {[node |-> n, answer |-> getInstanceByProviderID(p)]}
  /\ UNCHANGED <<config, cloud, node, sketch, trouble>>

\* The node is deleted.
RemoveNode(n) ==
  /\ [node |-> n, answer |-> NotFound] \in check
  /\ node' = Drop(node, {n}) /\ sketch' = Drop(sketch, {n})
  /\ check' = {}
  /\ UNCHANGED <<config, cloud, trouble>>

\* InstanceShutdownByProviderID, for a node whose VM exists; after an error the
\* node is left alone.
KeepNode(n) ==
  LET id == getInstanceByProviderID(node[n].pid) IN
  /\ \E r \in check :
       /\ r.node = n /\ r.answer # NotFound
       /\ node' = IF Found(r.answer) /\ Found(id)
                  THEN [node EXCEPT ![n].tainted = id \in stopped] ELSE node
  /\ check' = {}
  /\ UNCHANGED <<config, cloud, sketch, trouble>>

-----------------------------------------------------------------------------
(* The environment                                                         *)

CreateVM(id) ==
  /\ id \notin spent /\ \A v \in existing : VM[v].name # VM[id].name
  /\ existing' = existing \cup {id} /\ spent' = spent \cup {id}
  /\ UNCHANGED <<config, stopped, node, sketch, check, trouble>>

DeleteVM(id) ==
  /\ id \in existing
  /\ existing' = existing \ {id} /\ stopped' = stopped \ {id}
  /\ UNCHANGED <<config, spent, node, sketch, check, trouble>>

StopOrStart(id) ==
  /\ id \in existing
  /\ stopped' \in {stopped \cup {id}, stopped \ {id}}
  /\ UNCHANGED <<config, existing, spent, node, sketch, check, trouble>>

Runs(n) == \E id \in existing \ stopped : VM[id].name = n

\* The kubelet of a running VM; if it is told an id, that of this VM.
Register(n, p) ==
  /\ n \notin DOMAIN node /\ Runs(n)
  /\ IsById(p) => \E id \in existing \ stopped : VM[id].name = n /\ p = IdOf(id)
  /\ node' = Put(node, n, NewNode(p))
  /\ UNCHANGED <<config, cloud, sketch, check, trouble>>

Ready(n) ==
  /\ n \in DOMAIN node /\ ~node[n].ready /\ Runs(n)
  /\ node' = [node EXCEPT ![n].ready = TRUE]
  /\ UNCHANGED <<config, cloud, sketch, check, trouble>>

Unready(n) ==
  /\ n \in DOMAIN node /\ node[n].ready /\ ~Runs(n)
  /\ node' = [node EXCEPT ![n].ready = FALSE]
  /\ UNCHANGED <<config, cloud, sketch, check, trouble>>

\* A call fails: a node is described or checked again later.
CallFails(n) ==
  /\ trouble < MaxTrouble /\ trouble' = trouble + 1
  /\ \/ /\ n \in DOMAIN sketch
        /\ sketch' = Drop(sketch, {n}) /\ UNCHANGED check
     \/ /\ check = {} /\ n \in DOMAIN node /\ ~node[n].ready
        /\ check' = {[node |-> n, answer |-> Error]} /\ UNCHANGED sketch
  /\ UNCHANGED <<config, cloud, node>>

-----------------------------------------------------------------------------

\* NewCloudConfig reads the two sets of networks once.
Init ==
  /\ \E s \in Settings : internal = s[1] /\ external = s[2]
  /\ existing = {} /\ spent = {} /\ stopped = {}
  /\ node = [n \in {} |-> NewNode(EmptyID)] /\ sketch = [n \in {} |-> EmptyID]
  /\ check = {} /\ trouble = 0

Describe(n) == Identify(n) \/ FindAddresses(n) \/ FindZone(n)
EndCheck(n) == RemoveNode(n) \/ KeepNode(n)

Next ==
  \/ \E n \in Names : Describe(n) \/ CheckNode(n) \/ EndCheck(n)
  \/ \E id \in Ids : CreateVM(id) \/ DeleteVM(id) \/ StopOrStart(id)
  \/ \E n \in Names : \E p \in Given[n] : Register(n, p)
  \/ \E n \in Names : Ready(n) \/ Unready(n) \/ CallFails(n)

\* Both controllers run their loops for ever and visit every node; the node of
\* a VM that is gone stops being ready.
Fairness ==
  \A n \in Names :
    /\ WF_vars(Describe(n)) /\ SF_vars(CheckNode(n)) /\ WF_vars(EndCheck(n))
    /\ WF_vars(Unready(n))

Spec == Init /\ [][Next]_vars /\ Fairness

-----------------------------------------------------------------------------
(* Properties                                                              *)

ProviderIDs == {IdOf(id) : id \in Ids} \cup UNION {Given[n] : n \in Names}

CloudOK ==
  /\ config \in Settings
  /\ stopped \subseteq existing /\ existing \subseteq spent /\ spent \subseteq Ids
  /\ \A v, w \in existing : VM[v].name = VM[w].name => v = w

NodesOK ==
  /\ DOMAIN node \subseteq Names /\ DOMAIN sketch \subseteq DOMAIN node
  /\ \A n \in DOMAIN node :
       /\ node[n].pid \in ProviderIDs
       /\ node[n].described => node[n].pid # EmptyID
  /\ \A n \in DOMAIN sketch : sketch[n].pid \in ProviderIDs \ {EmptyID}

ChecksOK ==
  /\ \A r, s \in check : r = s
  /\ \A r \in check : r.node \in DOMAIN node
  /\ trouble \in 0 .. MaxTrouble

\* Type invariant; names are not given twice at the same time, and what is
\* described, or checked, is a node.
TypeOK == CloudOK /\ NodesOK /\ ChecksOK

Addresses(list, type) ==
  {list[i].address : i \in {k \in DOMAIN list : list[k].type = type}}

\* The documented choice of addresses: README.md:103-108.
FirstWithNat(nics) ==
  {nics[i].nat : i \in {k \in DOMAIN nics :
     nics[k].nat # NoAddress /\ \A j \in 1 .. k - 1 : nics[j].nat = NoAddress}}
PrivateIn(nics, S) == {nics[i].addr : i \in {k \in DOMAIN nics : nics[k].net \in S}}

Documented(list, nics) ==
  /\ Addresses(list, "InternalIP") =
       IF internal # {} THEN PrivateIn(nics, internal) ELSE {nics[1].addr}
  /\ Addresses(list, "ExternalIP") =
       IF external # {} THEN PrivateIn(nics, external) ELSE FirstWithNat(nics)

\* A node that was described has the addresses the documentation promises, all
\* of one VM that has borne its name, although its VM may be replaced between
\* the lookups.  Left out is the configuration with external networks only, in
\* which the public address of the first interface is added (instances.go:108).
AddressesDocumented ==
  internal # {} \/ external = {} =>
    \A n \in DOMAIN node :
      node[n].described =>
        \E id \in spent :
          VM[id].name = n /\ Documented(node[n].addresses, VM[id].nics)

\* The lifecycle controller removes a node only when the VM of its provider ID
\* is gone: no failure, no provider ID that cannot be read, and no VM that is
\* merely stopped, is taken for that (instances.go:61-71).
OnlyGoneRemoved ==
  [][\A n \in DOMAIN node \ DOMAIN node' :
       \E id \in spent \ existing : node[n].pid = IdOf(id)]_vars

\* A VM without an address may end the process again and again.
Crashing == \E id \in existing : Panics(VM[id].nics)

\* A node whose VM is gone is removed, or is in use again by a VM of the same
\* name (README.md:11), if its provider ID is not of the deprecated form.
GoneRemoved ==
  \A n \in Names, id \in Ids :
    n \in DOMAIN node /\ node[n].pid = IdOf(id) /\ id \in spent \ existing
      ~> n \notin DOMAIN node \/ node[n].ready \/ Crashing

\* Whatever provider ID a node has registered with, and although its VM may
\* have been replaced since, it gets its description from the VM of its name.
Describable(n) ==
  \E id \in existing :
    VM[id].name = n /\ id \in WithAddress /\ Len(VM[id].zone) >= 2
EachDescribed ==
  \A n \in Names :
    n \in DOMAIN node ~>
      n \notin DOMAIN node \/ node[n].described \/ ~Describable(n) \/ Crashing

=============================================================================
