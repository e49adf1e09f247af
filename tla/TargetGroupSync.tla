--------------------------- MODULE TargetGroupSync ---------------------------
(***************************************************************************)
(* NodeTargetGroupSyncer: keeps the target groups of the cloud folder in   *)
(* step with the nodes of the cluster.                                     *)
(*                                                                         *)
(* The service controller calls SyncTGs from several goroutines (Callers): *)
(* with nodes from EnsureLoadBalancer and UpdateLoadBalancer, with no      *)
(* nodes from EnsureLoadBalancerDeleted.  A call holds tgSyncLock and      *)
(* works on the cloud by remote calls; each remote call is one step, and   *)
(* everything outside the lock may move between two of them: the cloud,    *)
(* the informer's view of the services, the node annotations.              *)
(*                                                                         *)
(* A change of the cloud takes effect in the step in which its operation   *)
(* is reported done.  When the wait ends while the operation still runs,   *)
(* with an error or with the process, the operation stays in `inflight`    *)
(* and takes effect later, or never.                                       *)
(***************************************************************************)
EXTENDS FiniteSets, Naturals

CONSTANTS
  Nodes,       \* names of Kubernetes nodes
  Provider,    \* [Nodes -> {"yandex", "other", ""}], the kind of Spec.ProviderID
  Networks,    \* VPC networks
  Targets,     \* (SubnetId, Address) pairs an interface can have
  NoTarget,    \* that of an interface without IPv4 address
  Nics,        \* Nics[n]: the sets of interfaces the VM named n can have
  Prefixes,    \* values of the target-group-name-prefix annotation
  Labels,      \* Labels[n]: the annotation values node n can carry
  Truncate,    \* [Prefixes -> Prefixes], truncateAnnotationValue
  Foreign,     \* target groups of the folder that this cluster did not create
  Matching,    \* those of them whose name contains the cluster name
  Callers,     \* goroutines of the service controller
  NoCaller,
  Hazards,     \* what the environment may do: see HazardsAssumption
  MaxInflight  \* bound: operations nobody waits for, at the same time

Interface == [net: Networks, target: Targets \cup {NoTarget}]

ASSUME WorldAssumption ==
  /\ NoTarget \notin Targets
  /\ Provider \in [Nodes -> {"yandex", "other", ""}]
  /\ Nics \in [Nodes -> SUBSET SUBSET Interface]
  /\ Labels \in [Nodes -> SUBSET Prefixes]
  /\ \A n \in Nodes : Nics[n] # {} /\ Labels[n] # {}
  /\ Truncate \in [Prefixes -> Prefixes]
  /\ Matching \subseteq Foreign
  /\ Foreign \cap (Prefixes \X Networks) = {}

ASSUME CallerAssumption == NoCaller \notin Callers

\* "error": a remote call fails and has no effect.  "lost": the wait for an
\* operation fails, the operation runs on.  "cancel": the same, for deletions
\* whose context errgroup cancels.  "crash": the process restarts, and leaves
\* running what the cloud had accepted.
\* "attach": load balancers hold groups, and the API refuses to delete these.
\* "relabel", "recreate": a node's annotation, a VM's interfaces change.
ASSUME HazardsAssumption ==
  Hazards \subseteq
    {"error", "lost", "cancel", "crash", "attach", "relabel", "recreate"}

VARIABLES
  tgs,         \* the cloud: target group name -> set of targets
  inUse,       \* the target groups attached to some load balancer
  inflight,    \* operations that run although nobody waits for them
  annotation,  \* the nodes' annotations
  nics,        \* the VMs' interfaces
  lock,        \* tgSyncLock: its holder, or NoCaller
  cache,       \* lastVisitedNodes
  call         \* the SyncTGs call of each caller: where it is, and its locals

cloud == <<tgs, inUse, inflight>>
world == <<annotation, nics>>
vars  == <<cloud, world, lock, cache, call>>

-----------------------------------------------------------------------------
(* Names and mappings                                                      *)

\* A name is prefix + ClusterName + NetworkId; ClusterName is the same in all.
OwnNames == Prefixes \X Networks
Names    == OwnNames \cup Foreign
NoName   == <<>>

\* Finite maps: the empty one, an entry set, a key removed.
Empty        == [x \in {} |-> {}]
Put(f, k, v) == [x \in DOMAIN f \cup {k} |-> IF x = k THEN v ELSE f[x]]
Drop(f, k)   == [x \in DOMAIN f \ {k} |-> f[x]]

\* The (name, target) pairs of instances: found maps nodes to the interfaces
\* of their instance, labels maps nodes to the annotation they carry.
Entries(found, labels) ==
  UNION { { <<<<Truncate[labels[n]], i.net>>, i.target>> : i \in found[n] } :
          n \in DOMAIN found }

constructTgNameToTargetMap(found, labels) ==
  [g \in {e[1] : e \in Entries(found, labels)} |->
      {e[2] : e \in {x \in Entries(found, labels) : x[1] = g}}]

-----------------------------------------------------------------------------
(* The cloud's side of an operation                                        *)

Create(g, T)        == [op |-> "create", group |-> g, targets |-> T]
AddTargets(g, T)    == [op |-> "add",    group |-> g, targets |-> T]
RemoveTargets(g, T) == [op |-> "remove", group |-> g, targets |-> T]
Delete(g)           == [op |-> "delete", group |-> g, targets |-> {}]

\* The API accepts the operation: names are unique in the folder, only an
\* existing group changes, and a group attached to a balancer stays.
Accepted(o) ==
  CASE o.op = "create" -> o.group \notin DOMAIN tgs
    [] o.op = "delete" -> o.group \in DOMAIN tgs /\ o.group \notin inUse
    [] OTHER           -> o.group \in DOMAIN tgs

After(o) ==
  CASE o.op = "create" -> Put(tgs, o.group, o.targets)
    [] o.op = "add"    -> Put(tgs, o.group, tgs[o.group] \cup o.targets)
    [] o.op = "remove" -> Put(tgs, o.group, tgs[o.group] \ o.targets)
    [] o.op = "delete" -> Drop(tgs, o.group)

\* Operations address a group by its id: they end with the group.
Surviving(o) ==
  {q \in inflight : ~(o.op = "delete" /\ q.group = o.group /\ q.op # "create")}

-----------------------------------------------------------------------------
(* Calls                                                                   *)

\* nodes: the argument, each node with the annotation its object carried when
\* the caller read it.  found: the instances looked up.  want: the mapping.
\* todo: what the loop at hand has still to visit.  cur, snap: the group that
\* CreateOrUpdateTG works on, and its targets as it read them.  strays: a
\* history variable, which no action reads: the operations that were running
\* when the call took the lock.
NoCall(result) ==
  [pc |-> result, nodes |-> Empty, found |-> Empty, want |-> Empty,
   todo |-> {}, cur |-> NoName, snap |-> {}, strays |-> {}]

Returned == {"ok", "err"}
Updating == {"create", "add", "remove", "recheck"}
Syncing  == {"next"} \cup Updating
Cleaning == {"list", "delete", "abort"}
Running  == {"resolve"} \cup Syncing \cup Cleaning

At(c, label) == call[c].pc = label

\* Every return runs the deferred Unlock.
Return(c, result) ==
  /\ call' = [call EXCEPT ![c] = NoCall(result)]
  /\ lock' = NoCaller

\* Faulty variant: an early return that leaves tgSyncLock locked.
FaultyFail(c) ==
  call' = [call EXCEPT ![c] = NoCall("err")] /\ UNCHANGED <<lock, cache>>

Fail(c) == Return(c, "err") /\ UNCHANGED cache

\* The operation is done; the cloud holds its effect.
Apply(o) ==
  /\ tgs' = After(o)
  /\ inflight' = Surviving(o)
  /\ UNCHANGED inUse

\* The operation runs, and nobody waits for it.
Abandon(o) ==
  /\ Cardinality(inflight) < MaxInflight
  /\ inflight' = inflight \cup {o}
  /\ UNCHANGED <<tgs, inUse>>

-----------------------------------------------------------------------------
(* SyncTGs up to the lock, and its choice of a branch                      *)

Start(c, N) ==
  /\ call[c].pc \in Returned
  /\ call' = [call EXCEPT ![c] =
       [NoCall("waiting") EXCEPT !.nodes = [n \in N |-> annotation[n]]]]
  /\ UNCHANGED <<cloud, world, lock, cache>>

\* synchronizeNodesWithTargetGroups returns before its first remote call.
NothingToDo(N) == N = {} \/ N = cache

\* Faulty variant of the next action: nobody waits for the lock.
FaultyAcquire(c, active) ==
  LET N == DOMAIN call[c].nodes IN
  /\ At(c, "waiting")
  /\ \/ /\ N = {} /\ ~active
        /\ call' = [call EXCEPT ![c].pc = "list", ![c].strays = inflight]
     \/ /\ ~NothingToDo(N)
        /\ call' = [call EXCEPT ![c].pc = "resolve", ![c].todo = N,
                                ![c].strays = inflight]
  /\ lock' = c
  /\ UNCHANGED <<cloud, world, cache>>

\* Faulty variant of the next action: only a sync takes the lock.
UnlockedCleanup(c, active) ==
  LET N == DOMAIN call[c].nodes IN
  /\ At(c, "waiting")
  /\ \/ /\ N = {} /\ ~active
        /\ call' = [call EXCEPT ![c].pc = "list", ![c].strays = inflight]
        /\ UNCHANGED lock
     \/ /\ lock = NoCaller /\ ~NothingToDo(N)
        /\ call' = [call EXCEPT ![c].pc = "resolve", ![c].todo = N,
                                ![c].strays = inflight]
        /\ lock' = c
     \/ /\ lock = NoCaller /\ NothingToDo(N) /\ (N = {} => active)
        /\ Return(c, "ok")
  /\ UNCHANGED <<cloud, world, cache>>

\* Lock, list the services of the indexer, and choose a branch.  active: the
\* indexer shows a service of type LoadBalancer that is not being deleted.  It
\* is read once, and lags behind the cluster: any answer will do.
Acquire(c, active) ==
  LET N == DOMAIN call[c].nodes IN
  /\ At(c, "waiting") /\ lock = NoCaller
  /\ \/ /\ N = {} /\ ~active
        /\ call' = [call EXCEPT ![c].pc = "list", ![c].strays = inflight]
        /\ lock' = c
     \/ /\ ~NothingToDo(N)
        /\ call' = [call EXCEPT ![c].pc = "resolve", ![c].todo = N,
                                ![c].strays = inflight]
        /\ lock' = c
     \/ /\ NothingToDo(N) /\ (N = {} => active)
        /\ Return(c, "ok")
  /\ UNCHANGED <<cloud, world, cache>>

-----------------------------------------------------------------------------
(* synchronizeNodesWithTargetGroups                                        *)

\* One node of the loop over nodes: FindInstanceByName unless it is skipped.
Lookup(c, n) ==
  /\ At(c, "resolve") /\ n \in call[c].todo
  /\ \/ /\ Provider[n] = ""
        /\ Fail(c)
     \/ /\ Provider[n] = "other"
        /\ call' = [call EXCEPT ![c].todo = @ \ {n}]
        /\ UNCHANGED <<lock, cache>>
     \/ /\ Provider[n] = "yandex"
        /\ call' = [call EXCEPT ![c].todo = @ \ {n},
                                ![c].found = Put(@, n, nics[n])]
        /\ UNCHANGED <<lock, cache>>
  /\ UNCHANGED <<cloud, world>>

\* Some interface has no PrimaryV4Address, which is dereferenced all the same.
Addressless(found) == \E n \in DOMAIN found : \E i \in found[n] : i.target = NoTarget

BuildMapping(c) ==
  LET mapping == constructTgNameToTargetMap(call[c].found, call[c].nodes) IN
  /\ At(c, "resolve") /\ call[c].todo = {}
  /\ \/ /\ Addressless(call[c].found)
        /\ call' = [call EXCEPT ![c].pc = "panic"]
        /\ UNCHANGED <<lock, cache>>
     \/ /\ ~Addressless(call[c].found)
        /\ DOMAIN mapping = {}    \* "no mappings found"
        /\ Fail(c)
     \/ /\ ~Addressless(call[c].found)
        /\ DOMAIN mapping # {}
        /\ call' = [call EXCEPT ![c].pc = "next", ![c].want = mapping,
                                ![c].todo = DOMAIN mapping]
        /\ UNCHANGED <<lock, cache>>
  /\ UNCHANGED <<cloud, world>>

\* The next group of the mapping, in the arbitrary order of a Go map, and the
\* diff of CreateOrUpdateTG against what the cloud answers.
GetGroup(c, g) ==
  LET wanted == call[c].want[g] IN
  /\ At(c, "next") /\ g \in call[c].todo
  /\ \/ /\ g \notin DOMAIN tgs
        /\ call' = [call EXCEPT ![c].pc = "create", ![c].cur = g]
     \/ /\ g \in DOMAIN tgs /\ wanted \ tgs[g] # {}
        /\ call' = [call EXCEPT ![c].pc = "add", ![c].cur = g, ![c].snap = tgs[g]]
     \/ /\ g \in DOMAIN tgs /\ wanted \subseteq tgs[g] /\ tgs[g] \ wanted # {}
        /\ call' = [call EXCEPT ![c].pc = "remove", ![c].cur = g, ![c].snap = tgs[g]]
     \/ /\ g \in DOMAIN tgs /\ wanted = tgs[g]
        /\ call' = [call EXCEPT ![c].todo = @ \ {g}]
  /\ UNCHANGED <<cloud, world, lock, cache>>

\* Back to the loop of synchronizeNodesWithTargetGroups.
GroupDone(c) ==
  call' = [call EXCEPT ![c].pc = "next", ![c].todo = @ \ {call[c].cur},
                       ![c].cur = NoName, ![c].snap = {}]

\* Faulty variant: RemoveTargets takes what the group had, not what is unwanted.
FaultyOperation(c) ==
  LET g == call[c].cur  wanted == call[c].want[g]  snap == call[c].snap IN
  CASE At(c, "create") -> Create(g, wanted)
    [] At(c, "add")    -> AddTargets(g, wanted \ snap)
    [] At(c, "remove") -> RemoveTargets(g, snap)

\* The operation that CreateOrUpdateTG is about to start.
Operation(c) ==
  LET g == call[c].cur  wanted == call[c].want[g]  snap == call[c].snap IN
  CASE At(c, "create") -> Create(g, wanted)
    [] At(c, "add")    -> AddTargets(g, wanted \ snap)
    [] At(c, "remove") -> RemoveTargets(g, snap \ wanted)

CreateTG(c) ==
  /\ At(c, "create") /\ Accepted(Operation(c))
  /\ Apply(Operation(c))
  /\ GroupDone(c)
  /\ UNCHANGED <<world, lock, cache>>

\* Faulty variant: a diff with both sides is taken for an addition.
FaultyAddTGTargets(c) ==
  /\ At(c, "add") /\ Accepted(Operation(c))
  /\ Apply(Operation(c))
  /\ call' = [call EXCEPT ![c].pc = "recheck"]
  /\ UNCHANGED <<world, lock, cache>>

AddTGTargets(c) ==
  /\ At(c, "add") /\ Accepted(Operation(c))
  /\ Apply(Operation(c))
  /\ LET label == IF call[c].snap \ call[c].want[call[c].cur] # {}
                  THEN "remove" ELSE "recheck"
     IN  call' = [call EXCEPT ![c].pc = label]
  /\ UNCHANGED <<world, lock, cache>>

RemoveTGTargets(c) ==
  /\ At(c, "remove") /\ Accepted(Operation(c))
  /\ Apply(Operation(c))
  /\ call' = [call EXCEPT ![c].pc = "recheck"]
  /\ UNCHANGED <<world, lock, cache>>

\* The group is read again after it was changed, for its Id: GetTgByName
\* answers nil for a group that is gone.
Recheck(c) ==
  /\ At(c, "recheck")
  /\ \/ call[c].cur \in DOMAIN tgs /\ GroupDone(c)
     \/ /\ call[c].cur \notin DOMAIN tgs
        /\ call' = [call EXCEPT ![c].pc = "panic"]
  /\ UNCHANGED <<cloud, world, lock, cache>>

RefuseOperation(c) ==
  /\ call[c].pc \in {"create", "add", "remove"} /\ ~Accepted(Operation(c))
  /\ Fail(c)
  /\ UNCHANGED <<cloud, world>>

LoseOperation(c) ==
  /\ "lost" \in Hazards
  /\ call[c].pc \in {"create", "add", "remove"} /\ Accepted(Operation(c))
  /\ Abandon(Operation(c))
  /\ Fail(c)
  /\ UNCHANGED world

\* Faulty variant: the set holds the node objects instead of their names.
FaultyCommit(c) ==
  /\ At(c, "next") /\ call[c].todo = {}
  /\ cache' = {<<n, call[c].nodes[n]>> : n \in DOMAIN call[c].nodes}
  /\ Return(c, "ok")
  /\ UNCHANGED <<cloud, world>>

Commit(c) ==
  /\ At(c, "next") /\ call[c].todo = {}
  /\ cache' = DOMAIN call[c].nodes
  /\ Return(c, "ok")
  /\ UNCHANGED <<cloud, world>>

-----------------------------------------------------------------------------
(* cleanUpTargetGroups                                                     *)

GetTGsByClusterName(c) ==
  /\ At(c, "list")
  /\ call' = [call EXCEPT ![c].pc = "delete",
                          ![c].todo = DOMAIN tgs \cap (OwnNames \cup Matching)]
  /\ UNCHANGED <<cloud, world, lock, cache>>

\* The deletions run side by side, so they end in any order.  A group that is
\* already gone answers NotFound, which RemoveTGByID takes for success.
RemoveTG(c, g) ==
  /\ call[c].pc \in {"delete", "abort"} /\ g \in call[c].todo
  /\ \/ Accepted(Delete(g)) /\ Apply(Delete(g))
     \/ g \notin DOMAIN tgs /\ UNCHANGED cloud
  /\ call' = [call EXCEPT ![c].todo = @ \ {g}]
  /\ UNCHANGED <<world, lock, cache>>

\* The first error cancels the context of the other deletions.
FailRemoveTG(c, g) ==
  /\ call[c].pc \in {"delete", "abort"} /\ g \in call[c].todo
  /\ \/ g \in inUse
     \/ "error" \in Hazards
  /\ call' = [call EXCEPT ![c].pc = "abort", ![c].todo = @ \ {g}]
  /\ UNCHANGED <<cloud, world, lock, cache>>

\* The wait ends early, for an error of its own or because it is cancelled.
LoseRemoveTG(c, g) ==
  /\ g \in call[c].todo /\ Accepted(Delete(g))
  /\ \/ At(c, "delete") /\ "lost" \in Hazards
     \/ At(c, "abort") /\ "cancel" \in Hazards
  /\ Abandon(Delete(g))
  /\ call' = [call EXCEPT ![c].pc = "abort", ![c].todo = @ \ {g}]
  /\ UNCHANGED <<world, lock, cache>>

\* A cancelled deletion whose request was not sent yet.
SkipRemoveTG(c, g) ==
  /\ At(c, "abort") /\ g \in call[c].todo
  /\ call' = [call EXCEPT ![c].todo = @ \ {g}]
  /\ UNCHANGED <<cloud, world, lock, cache>>

\* Faulty variants: the error of wg.Wait is dropped; lastVisitedNodes stays.
DropsError(c) ==
  /\ call[c].todo = {}
  /\ call[c].pc \in {"delete", "abort"} /\ cache' = {} /\ Return(c, "ok")
  /\ UNCHANGED <<cloud, world>>

KeepsCache(c) ==
  /\ call[c].todo = {}
  /\ \/ At(c, "delete") /\ UNCHANGED cache /\ Return(c, "ok")
     \/ At(c, "abort") /\ Fail(c)
  /\ UNCHANGED <<cloud, world>>

\* wg.Wait
CleanupEnd(c) ==
  /\ call[c].todo = {}
  /\ \/ At(c, "delete") /\ cache' = {} /\ Return(c, "ok")
     \/ At(c, "abort") /\ Fail(c)
  /\ UNCHANGED <<cloud, world>>

\* Every remote call of a sync and the listing of a cleanup: an error ends
\* the call.
RemoteError(c) ==
  /\ "error" \in Hazards
  /\ \/ call[c].pc \in {"resolve", "create", "add", "remove", "recheck", "list"}
     \/ At(c, "next") /\ call[c].todo # {}
  /\ Fail(c)
  /\ UNCHANGED <<cloud, world>>

-----------------------------------------------------------------------------
(* The environment                                                         *)

\* An abandoned operation ends: done, or refused and without effect.
Land(o) ==
  /\ o \in inflight
  /\ \/ /\ Accepted(o)
        /\ tgs' = After(o) /\ inflight' = Surviving(o) \ {o}
     \/ tgs' = tgs /\ inflight' = inflight \ {o}
  /\ UNCHANGED <<inUse, world, lock, cache, call>>

\* Load balancers, of this cluster's services and of others, take a group and
\* let it go; for groups that nobody would delete it makes no difference.
Attach(g) ==
  /\ "attach" \in Hazards /\ g \in OwnNames \cup Matching
  /\ g \in DOMAIN tgs \ inUse
  /\ inUse' = inUse \cup {g}
  /\ UNCHANGED <<tgs, inflight, world, lock, cache, call>>

Detach(g) ==
  /\ g \in inUse
  /\ inUse' = inUse \ {g}
  /\ UNCHANGED <<tgs, inflight, world, lock, cache, call>>

Relabel(n) ==
  /\ "relabel" \in Hazards
  /\ annotation' \in {[annotation EXCEPT ![n] = l] : l \in Labels[n]}
  /\ UNCHANGED <<cloud, nics, lock, cache, call>>

\* The VM is replaced by one of the same name.
Recreate(n) ==
  /\ "recreate" \in Hazards
  /\ nics' \in {[nics EXCEPT ![n] = i] : i \in Nics[n]}
  /\ UNCHANGED <<cloud, annotation, lock, cache, call>>

\* The operations that the API may have accepted from a call, and that the
\* call is waiting for.
Started(c) ==
  {o \in IF call[c].pc \in {"create", "add", "remove"} THEN {Operation(c)}
         ELSE IF call[c].pc \in {"delete", "abort"} THEN {Delete(g) : g \in call[c].todo}
         ELSE {} : Accepted(o)}

\* The process ends, by a panic or a crash, and starts anew: Initialize makes
\* a syncer whose lastVisitedNodes is empty.  Any of the operations that calls
\* were waiting for run on.
Restart ==
  /\ \/ "crash" \in Hazards
     \/ \E c \in Callers : At(c, "panic")
  /\ \E left \in SUBSET UNION {Started(c) : c \in Callers} :
       /\ Cardinality(inflight \cup left) <= MaxInflight
       /\ inflight' = inflight \cup left
  /\ call' = [c \in Callers |-> NoCall("err")]
  /\ lock' = NoCaller
  /\ cache' = {}
  /\ UNCHANGED <<tgs, inUse, world>>

-----------------------------------------------------------------------------

Init ==
  /\ tgs = [g \in Foreign |-> {}]
  /\ inUse = {} /\ inflight = {}
  /\ annotation \in {a \in [Nodes -> Prefixes] : \A n \in Nodes : a[n] \in Labels[n]}
  /\ nics \in {f \in [Nodes -> UNION {Nics[n] : n \in Nodes}] :
                 \A n \in Nodes : f[n] \in Nics[n]}
  /\ lock = NoCaller /\ cache = {}
  /\ call = [c \in Callers |-> NoCall("ok")]

\* What a running call does of itself.
Step(c) ==
  \/ \E n \in Nodes : Lookup(c, n)
  \/ BuildMapping(c)
  \/ \E g \in Names : GetGroup(c, g)
  \/ CreateTG(c) \/ AddTGTargets(c) \/ RemoveTGTargets(c)
  \/ Recheck(c) \/ RefuseOperation(c) \/ Commit(c)
  \/ GetTGsByClusterName(c)
  \/ \E g \in Names : RemoveTG(c, g) \/ FailRemoveTG(c, g) \/ SkipRemoveTG(c, g)
  \/ CleanupEnd(c)

\* What goes wrong with its remote calls.
Fault(c) ==
  \/ RemoteError(c) \/ LoseOperation(c)
  \/ \E g \in Names : LoseRemoveTG(c, g)

Environment ==
  \/ \E o \in inflight : Land(o)
  \/ \E g \in Names : Attach(g) \/ Detach(g)
  \/ \E n \in Nodes : Relabel(n) \/ Recreate(n)
  \/ Restart

Next ==
  \/ \E c \in Callers :
       \/ \E N \in SUBSET Nodes : Start(c, N)
       \/ \E active \in BOOLEAN : Acquire(c, active)
       \/ Step(c) \/ Fault(c)
  \/ Environment

Spec == Init /\ [][Next]_vars

\* A goroutine that may run is scheduled, every remote call returns, and
\* sync.Mutex starves nobody: Acquire is enabled again and again, not always.
\* The Deployment starts a new process when one has panicked.
Fairness ==
  /\ \A c \in Callers :
       /\ WF_vars(Step(c))
       /\ SF_vars(\E active \in BOOLEAN : Acquire(c, active))
  /\ WF_vars(Restart)

FairSpec == Spec /\ Fairness

-----------------------------------------------------------------------------
(* Properties                                                              *)

\* A finite map from group names of S to sets of targets.
IsGroupMap(f, S) ==
  DOMAIN f \subseteq S /\ \A g \in DOMAIN f : f[g] \subseteq Targets

Operations ==
  {o \in [op : {"create", "add", "remove", "delete"}, group : Names,
          targets : SUBSET Targets] : o.op = "delete" => o = Delete(o.group)}

\* A record with the fields of NoCall.
IsCall(r) ==
  r \in [pc : {r.pc}, nodes : {r.nodes}, found : {r.found}, want : {r.want},
         todo : {r.todo}, cur : {r.cur}, snap : {r.snap}, strays : {r.strays}]

\* A call has its locals; todo ranges over what the loop at hand visits, and
\* cur is the member of it that CreateOrUpdateTG works on.  A call that panics
\* does so over such a group, or over an interface, and then has no mapping.
CallOK(r) ==
  /\ IsCall(r)
  /\ r.pc \in Returned \cup {"waiting", "panic"} \cup Running
  /\ DOMAIN r.nodes \subseteq Nodes
  /\ \A n \in DOMAIN r.nodes : r.nodes[n] \in Prefixes
  /\ DOMAIN r.found \subseteq DOMAIN r.nodes
  /\ \A n \in DOMAIN r.found : r.found[n] \subseteq Interface
  /\ IsGroupMap(r.want, OwnNames)
  /\ r.pc = "resolve" => r.todo \subseteq DOMAIN r.nodes
  /\ r.pc \in Syncing \cup {"panic"} => r.todo \subseteq DOMAIN r.want
  /\ r.pc \in Cleaning => r.todo \subseteq Names
  /\ r.pc \in Returned \cup {"waiting"} => r.todo = {}
  /\ r.cur \in IF r.pc \in Updating THEN r.todo
              ELSE IF r.pc = "panic" THEN r.todo \cup {NoName}
              ELSE {NoName}
  /\ r.snap \subseteq Targets
  /\ r.strays \subseteq Operations

CallsOK ==
  call = [c \in Callers |-> call[c]] /\ \A c \in Callers : CallOK(call[c])

\* A call is between its Lock and its Unlock exactly when it holds tgSyncLock
\* (load_balancer_tg_controller.go:39-40).
LockOK ==
  \A c \in Callers : call[c].pc \in Running \cup {"panic"} <=> lock = c

CloudOK ==
  /\ IsGroupMap(tgs, Names)
  /\ inUse \subseteq DOMAIN tgs
  /\ inflight \subseteq Operations

\* Type invariant: the shape of the state, and mutual exclusion.
TypeOK ==
  /\ CloudOK
  /\ annotation \in [Nodes -> Prefixes]
  /\ nics \in [Nodes -> SUBSET Interface]
  /\ lock \in Callers \cup {NoCaller}
  /\ cache \subseteq Nodes
  /\ CallsOK
  /\ LockOK

\* What a sync of the nodes N would put into the cloud now.
Wanted(N) ==
  constructTgNameToTargetMap([n \in {m \in N : Provider[m] = "yandex"} |-> nics[n]],
                             annotation)

\* The groups that operations of earlier calls may still change under a call.
Disturbed(r) == {o.group : o \in r.strays}

\* Those that they may still create.
Reborn(r) == {o.group : o \in {p \in r.strays : p.op = "create"}}

\* The group g holds the targets T, unless it is disturbed.
Holds(r, g, T) == g \in Disturbed(r) \/ (g \in DOMAIN tgs /\ tgs[g] = T)

\* How far a call is, in terms of the cloud: a sync has settled the groups it
\* is done with, and knows what the group at hand holds; a cleanup has still to
\* delete every group of the cluster.  What runs beside it, ran before it; only
\* a cleanup that is failing leaves operations of its own behind.
Progress(r) ==
  /\ r.pc \in Running \ {"abort"} => inflight \subseteq r.strays
  /\ r.pc \in Syncing =>
       /\ \A g \in DOMAIN r.want : r.want[g] # {}
       /\ \A g \in DOMAIN r.want \ r.todo : Holds(r, g, r.want[g])
  /\ r.pc = "add"     => Holds(r, r.cur, r.snap)
  /\ r.pc = "remove"  => Holds(r, r.cur, r.snap \cup r.want[r.cur])
  /\ r.pc = "recheck" => /\ Holds(r, r.cur, r.want[r.cur])
                         /\ r.cur \in DOMAIN tgs \/ Delete(r.cur) \in r.strays
  /\ r.pc = "delete"  => DOMAIN tgs \cap OwnNames \subseteq r.todo \cup Reborn(r)

\* Inductive invariant: the steps of a call mean what the code takes them for,
\* although the lock is all that keeps other calls away from the groups it
\* works on, and but for groups that operations from before it disturb.
CallsProgress == \A c \in Callers : Progress(call[c])

\* The syncer panics over an interface without address, or over a group that a
\* deletion takes away for which an earlier call no longer waits: but for these,
\* CreateOrUpdateTG finds the group it has updated (loadbalancer.go:305-314).
PanicsExplained ==
  \A c \in Callers : At(c, "panic") =>
    \/ Addressless(call[c].found)
    \/ Delete(call[c].cur) \in call[c].strays

\* A sync that returns nil has left every group of its mapping in the cloud
\* with exactly the targets it computed, although it works on them one after
\* the other, by diffs, and other calls and the cloud's clients run between:
\* but for groups with an operation from before the sync.
SyncExact ==
  [][\A c \in Callers :
       At(c, "next") /\ call'[c].pc = "ok" =>
         \A g \in DOMAIN call[c].want \ Disturbed(call[c]) :
           g \in DOMAIN tgs' /\ tgs'[g] = call[c].want[g]]_vars

\* No traffic is cut while a sync rewrites a group (AddTargets goes before
\* RemoveTargets): the group stays, keeps every target it had that is still
\* wanted, and is never emptied, whatever goes wrong in the middle.
TrafficKept ==
  [][\A c \in Callers :
       call[c].pc \in Syncing =>
         \A g \in (DOMAIN call[c].want \cap DOMAIN tgs) \ Disturbed(call[c]) :
           /\ g \in DOMAIN tgs'
           /\ tgs[g] \cap call[c].want[g] \subseteq tgs'[g]
           /\ tgs[g] # {} => tgs'[g] # {}]_vars

\* A cleanup that returns nil leaves no group of this cluster behind, also of
\* prefixes and networks that no node has any more, unless a creation from
\* before the cleanup brings it back.
CleanupComplete ==
  [][\A c \in Callers :
       call[c].pc \in Cleaning /\ call'[c].pc = "ok" =>
         DOMAIN tgs' \cap OwnNames \subseteq Reborn(call[c])]_vars

\* Target groups of other owners stay as they are: the cluster name is what
\* tells them apart in the folder (README.md:51).
ForeignUntouched ==
  [][\A g \in Foreign : g \in DOMAIN tgs =>
       g \in DOMAIN tgs' /\ tgs'[g] = tgs[g]]_vars

\* Every call of SyncTGs returns.
CallsReturn == \A c \in Callers : At(c, "waiting") ~> call[c].pc \in Returned

=============================================================================
