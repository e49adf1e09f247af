# A specification of the Yandex.Cloud cloud controller manager

TLA+ modules for the parts of this repository that keep state or talk to the
cloud in several steps, the TLC configurations that check them, and proofs of
their main properties. Line numbers refer to the files of this repository.

## The system

The program is one process with the generic controllers of
`k8s.io/cloud-provider` (not code of this repository) that call the provider
in `pkg/cloudprovider/yandex`, which calls the cloud through `pkg/yapi`. The
controllers run calls in several goroutines. A change of the cloud is an
*operation*: it is accepted, runs, and is waited for (`OperationWaiter`,
`pkg/yapi/api.go:39`). When a wait fails, is cancelled, or ends with the process, the
operation runs on, and takes effect later or never.

| component | state | operations | called by | what makes it correct |
|---|---|---|---|---|
| Target group syncer, `load_balancer_tg_controller.go` | `tgSyncLock`, `lastVisitedNodes` | `SyncTGs`: synchronize or clean up | the three load balancer calls, several goroutines | a sync leaves exactly the computed groups, cuts no traffic on its way; a cleanup leaves nothing, and only that; the cache never hides a needed sync; every call returns |
| Target group client, `yapi/loadbalancer.go:189-206,238-336,359-411` | none (the cloud's target groups) | `CreateOrUpdateTG`, `RemoveTGByID`, `GetTGsByClusterName`, `GetTgByName` | the syncer, `ensureLB` | as above; no nil answer is dereferenced |
| Load balancer client, `yapi/loadbalancer.go:36-187,208-236,338-357,380-387,413-517` | none (the cloud's balancers) | `CreateOrUpdateLB`, `RemoveLBByName` | service load balancers | the balancer ends as specified; nothing wanted is removed; a retry after a failure finishes the work |
| Service load balancers, `load_balancer.go` | none | `EnsureLoadBalancer`, `UpdateLoadBalancer`, `EnsureLoadBalancerDeleted` | service controller (external) | a service has a balancer that carries its nodes; none is left after the service; groups go with the last service |
| Routes, `routes.go` | `routeAPILock` | `ListRoutes`, `CreateRoute`, `DeleteRoute` | route controller (external), one goroutine per route | calls do not undo each other, nor touch routes of users; one route per node; the table converges |
| Instances, `instances.go`, `util.go`, `yapi/compute.go` | none | `NodeAddresses`, `InstanceExistsByProviderID`, ... | node controllers, `CreateRoute` | addresses follow the documented rules; an instance that is gone is told from one that cannot be read |
| Zones, `zones.go` | none | `GetZone...` | node controller | the zone of the right instance |
| Configuration and start-up, `cloud.go`, `main.go` | configuration | `NewCloudConfig`, `Initialize` | once | - |
| Metadata, `metadata.go` | none | HTTP reads | start-up | - |

How they interact: `EnsureLoadBalancer` and `UpdateLoadBalancer` first call
`SyncTGs` with the nodes of the service, then look the target group up and
create or update the balancer, outside `tgSyncLock`.
`EnsureLoadBalancerDeleted` deletes the balancer, then calls `SyncTGs` without
nodes. `SyncTGs` reads the services from an informer of its own, which the
service controller does not share. `CreateRoute` calls `NodeAddresses`. Syncer,
routes and instances share no state.

What is hard here: goroutines that work on the same groups by several remote
calls each; operations that fail, or outlive the wait for them; deletions side
by side of which one fails and cancels the others; a cache that is compared
with less than it depends on; a restart in the middle; balancers that hold a
group; node lists that are older than the wait for a lock; services that are
deleted while they are updated; a route table that can only be written as a
whole, under a lock that nobody waits for; VMs that are replaced between two
lookups. `PROJECT.json` lists these hazards with their lines.

## Modules

| module | what it models |
|---|---|
| `TargetGroupSync` | `SyncTGs` in several goroutines (`Callers`), on a cloud that moves |
| `TargetGroupHistory` | the same with a history variable, for what `lastVisitedNodes` stands for |
| `MCTargetGroupSync`, `MCTargetGroupHistory` | their small instances |
| `TargetGroupSyncProofs` | type correctness, mutual exclusion and the safety properties |
| `TargetGroupCacheProofs` | when `lastVisitedNodes` may be trusted |
| `Routes` | tables of static routes, and `filterStaticRoutes` as set operators |
| `RouteTable` | `ListRoutes`, `CreateRoute`, `DeleteRoute` in several goroutines |
| `RouteTableAbstract` | what they promise: each call is one step |
| `RouteFilter` | `filterStaticRoutes` on lists, against the operators of `Routes` |
| `Selections` | filters of lists, for `RouteFilter` and `Instances` |
| `SelectionProofs` | what a filter leaves, in which order, and how often |
| `RouteController` | `RouteTable` under the rounds of the Kubernetes route controller |
| `MCRouteTable`, `MCRouteController` | their small instances |
| `LoadBalancer` | `CreateOrUpdateLB` and `RemoveLBByName` for the balancer of one Service |
| `MCLoadBalancer` | its small instance |
| `LoadBalancerProofs` | its safety properties, for calls that nobody interferes with |
| `ServiceController` | the load balancer calls of several Services, composed with `TargetGroupSync`, under the Kubernetes service controller |
| `ServiceHistory` | the same with history variables, for what is left behind |
| `MCServiceController`, `MCServiceHistory` | their small instances |
| `ServiceControllerProofs` | that no service is forgotten, and that the composed system is one of `TargetGroupSync` |
| `ServiceHistoryProofs` | what may be left in the cloud after the services |
| `Instances` | provider IDs, lookups, addresses, zones, under the node controllers |
| `MCInstances` | its small instance |
| `InstancesProofs` | type correctness, that only nodes whose VM is gone are removed, and that nodes get the documented addresses |
| `RouteTableProofs` | type correctness, one route per node, the refinement, the filter on lists; the same for the rounds of `RouteController`, and that they only improve the table |

### TargetGroupSync

`tgs` is the folder (group name to targets), `inUse` the groups that a balancer
holds, `inflight` the operations nobody waits for any more. `annotation` and
`nics` are the nodes and their VMs; `lock` and `cache` are `tgSyncLock` and
`lastVisitedNodes`; `call[c]` is a call: a label `pc` and the locals of
`SyncTGs`, `synchronizeNodesWithTargetGroups` and `CreateOrUpdateTG`.

A step is what happens between two remote calls. `Start` is the call, `Acquire`
everything up to the first remote call, with the early returns; `Lookup`,
`BuildMapping`, `GetGroup`, `CreateTG`, `AddTGTargets`, `RemoveTGTargets`,
`Recheck` and `Commit` are a sync; `GetTGsByClusterName`, `RemoveTG`,
`FailRemoveTG`, `LoseRemoveTG`, `SkipRemoveTG` and `CleanupEnd` a cleanup, whose
deletions run side by side. `RemoteError`, `RefuseOperation`, `LoseOperation`
are failures. `panic` is a nil dereference, of the group that was read again at
`yapi/loadbalancer.go:314` or of the address of an interface that has none
(`load_balancer_tg_controller.go:173`), after which the process restarts.

An operation that nobody waits for any more is in `inflight` until it ends (`Land`),
done or refused. It gets there when its wait fails (`LoseOperation`, `LoseRemoveTG`),
is cancelled because another deletion failed (`LoseRemoveTG`), or ends with the
process: `Restart` leaves running any of the operations that calls had `Started`.
`strays` is a history variable, which no action reads: the operations that were
running when the call took the lock. The properties of a call set aside the groups
that these concern (`Disturbed`), or may bring back (`Reborn`), and no others.

`TargetGroupHistory` adds `memo`, the sync that set `lastVisitedNodes`. A later sync of
the same nodes is skipped, and `CacheTruth` says when this is right: the nodes are as
that sync saw them (`AsVisited`) and no call has been given up amid its changes since
(`memo` is then `NoMemo`). Without the one or the other the code does skip syncs that
are needed, see the findings.

Abstractions. A group name is the pair of the truncated prefix and the network,
because the cluster name is the same in all names of a cluster; `Foreign` are
all other groups, `Matching` those of them whose name contains the cluster name.
Lists of targets are sets: `diffTargetGroupTargets` makes them sets by their
subnet and address before anything depends on their order, and the API accepts no
duplicates. The services in the indexer are one arbitrary boolean per call. An
operation takes effect at once when its wait succeeds; between its acceptance
and that moment nobody in this program can tell. The instances are looked up in
any order; a missing VM, a missing subnet and a failing API are all
`RemoteError`. An empty prefix annotation and none are the same prefix.

`Hazards` says what the environment may do, so that a run or a theorem can say
under what it holds; the theorems hold under all of them.

### RouteTable and RouteController

`table` is the route table, `stray` the tables that abandoned updates are going
to write, `address` the first InternalIP of each node. A call takes the lock or
fails (`Start`), reads the table (`GetTable`), finds the next hop
(`FindNextHop`, only `CreateRoute`) and writes the table (`UpdateTable`). An update
whose wait fails (`LoseUpdate`) or whose process ends (`Restart`) goes to `stray`.
`alone` is a history variable: no update was stray when the call read the table, and
no user has edited it since. `RouteTableAbstract` makes its promise for such calls,
while no update is stray (`Quiet`): a stray update writes a table of its own time, and
nothing in the code keeps it from that.
A route is its node label, CIDR and next hop; the other labels that
`filterStaticRoutes` carries over are left out.

`RouteTable` writes tables with the set operators of `Routes`. `RouteFilter` has
the function as it is, two loops over lists that agree through
`nodeNamesUpdatedSet`, and `FilterFaithful` says that both give the same table in
whatever order the cloud lists the routes, with the routes of users in their order.
A loop that appends what it does not skip is a `Select`: the elements at the positions
that pass, by their ranks. `TermsOf` is the inner loop over the terms, which breaks at
the first of the node; `Kept` and `Rewritten` are the loop over the routes, `Missing`
the final one.

`RouteController` adds what calls them: rounds of listing, parallel deletions,
a barrier, parallel creations, a barrier. It is modelled from
`k8s.io/cloud-provider` v0.32.1 as this repository uses it, and marked external.

`Converges` says that the rounds reach their aim, `RoundsImprove` that they do not
leave the way to it. A round is planned from a list that gets older while its calls
run; a deletion takes all routes of its node, whatever their CIDR, and each call writes
the whole table. `PlanHolds` says that what is planned or being called for is still
wanted and not done yet, and that the calls know the nodes' routes as they are. While
the nodes stay as they are and no update is lost, it stays true, and a step that
changes the routes of a node finds them wrong, and leaves them right or none.

### LoadBalancer

`lb` is the balancer of one Service, `inflight` the operations nobody waits for,
`call[c]` a call of `CreateOrUpdateLB` or `RemoveLBByName`: a label and its
locals, which are the specification, the id of the balancer it has read, and
the differences not worked off yet. `GetLB` reads the balancer, decides to
create, recreate or update it, and computes all differences at once, from this
one reading; each `Perform` is one remote operation on that id; `Recheck` reads
the balancer again and takes its first listener, which is a nil dereference
when it is gone. `Refuse`, `RemoteError` and `Lose` are failures; after a `Restart` any
of the operations that were waited for run on, as they do after `Lose`.

There is no lock: the goroutine that has the Service in hand and the one that
sends new nodes to all Services may both be in these calls. `stale` is a history
variable, which no action reads: the calls under which another call, or an
operation of one, has changed the balancer since they read it. The properties say
what the other calls promise, and `PanicsOnlyStale` that the nil dereference needs
such interference. `CallsKnow` says why they can promise it: the differences computed
from one reading, and not worked off yet, are at any time those of the balancer as it
is, because every operation takes one of them away and brings no new one.

Abstractions. A port is a protocol and a number. The first health check
stands for all its fields, which `nlbAttachedTargetGroupsAreEqual` compares one by
one. Operations on listeners or groups of one list are done in any order. An
id stands for a balancer; a free id may be given again when nobody remembers it.

### ServiceController and ServiceHistory

`ServiceController` extends `TargetGroupSync`: its two callers are the worker and the
node syncer of the Kubernetes service controller, and `work[c]` is where one of them is
in `GetLoadBalancer`, `EnsureLoadBalancer`, `UpdateLoadBalancer` or
`EnsureLoadBalancerDeleted`. `Synced`, `FindGroup`, `FindBalancer` and `CreateBalancer`
are what follows the `SyncTGs` call of an update; `CheckBalancer`, `RemoveBalancer`,
`BeginCleanup` and `CleanupReturned` are a deletion. Every step of the `SyncTGs` call is
a step of `TargetGroupSync` (`TakeLock`, `CallStep`, and its `Fault`s in `CallFails`),
so that syncs, cleanups and balancer calls of different services interleave; the groups
in use are those of the balancers, and the answer of the informer is what the syncer's
own informer shows (`listed`), not an arbitrary one. `lbOps` are the operations on
balancers that nobody waits for any more: a wait fails (`CallFails`) or the process ends
(`RestartAll`) while a creation or a deletion runs, and it ends later, under other calls
or after the service is gone (`LandBalancer`). A panic of one goroutine stops both
(`Alive`), until the Deployment starts the process again (`Recover`).

The service controller is modelled from `k8s.io/cloud-provider` v0.32.1 and marked
external: the queue with its retries, the cache of services it has met (`known`),
the nodes each service was last synchronized with (`last`), rounds of the node
syncer. The controller notes the nodes before it calls the provider, an error of
the node syncer is only retried when the balancer exists, and a deletion without
balancer does not call the provider: all three matter below.

Abstractions. A service lives once, since a new one of its name has another UID,
and keeps its specification, so that a balancer that exists is as it should be;
changes of a balancer are in `LoadBalancer`. One worker and one node syncer, which
are the controller's defaults. The annotations of a service are the constant
`GroupOf`.

`ServiceHistory` adds `late`, the services for which the node syncer was at work, or
an abandoned creation of their balancer was running, when they were deleted or after;
`swept`, whether a cleanup has succeeded and no service has come since; and `leftover`,
the groups that creations from before that cleanup may still bring back.

### Instances

`existing` and `stopped` are the VMs of the folder, `node` the nodes of the cluster,
`sketch` what the node controller has found out about a node it is describing,
`check` the answer that the lifecycle controller has for a node. Each step is one
lookup: `Identify` (`InstanceID`), `FindAddresses`, `FindZone`, `CheckNode`
(`InstanceExistsByProviderID`), `KeepNode` (`InstanceShutdownByProviderID`). The VM
may be stopped, deleted or replaced by one of its name between any two of them.

A provider ID is its scheme and the parts of its path, which is what the two regular
expressions tell apart; a zone is the list of its parts. `extractNodeAddresses` is
an operator on the list of interfaces, in their order, under the two network sets;
`Panics` says when it dereferences a nil address, which ends the process and with
it what both controllers know; the liveness properties set aside the time in which a VM
is `Crashing` the process so. A kubelet that is told an id registers with that of its
own VM. The node controllers are marked external: they
look up by provider ID first and by name when that fails.

## Checks

| run | instance | shows |
|---|---|---|
| `TGFaults` | 2 callers, 2 nodes in one network, one VM with or without its address, prefixes of which one is truncated to another; failing calls, attachments, annotation changes, crashes, and one operation at a time that outlives a failed or cancelled wait or a crash | `TypeOK`, `CallsProgress`, `PanicsExplained`, `SyncExact`, `TrafficKept`, `CleanupComplete` |
| `TGCache` | 2 callers, 3 nodes (one in two networks or one, one of another provider, one without provider ID); failing calls, crashes, VM replacements, and one such operation at a time | `CacheTruth` |
| `TGLiveness` | 2 callers, 1 node in two networks or one; failing calls, VM replacements, one such operation at a time, panics | `CallsReturn` |
| `Routes` | 2 goroutines, 2 nodes, 2 CIDRs, 1 address or none, 1 route of a user; failing calls, one stray update at a time, crashes, address changes, edits by users | `TypeOK`, `OneRoutePerNode`, `SnapshotFresh`, `FilterFaithful`, `Atomically` (refinement of `RouteTableAbstract`) |
| `RouteRounds` | a goroutine for every request, 2 nodes, 2 CIDRs, a route of a user; up to 4 changes and faults of every kind | `Converges`, `RoundsImprove` |
| `Balancer` | 2 callers, an internal Service of two ports whose node port and target group change, or that becomes external; failing calls, crashes, one operation at a time that outlives its wait or a crash | `TypeOK`, `PanicsOnlyStale`, `CallsKnow`, `UpdateExact`, `ServingKept`, `RemovedIsGone` |
| `Services` | 2 services that come and go, 1 node that may stop being ready, its VM with or without address; up to 2 node changes, failing calls and crashes, after which an operation on a group and one on a balancer may run on | `ServiceTypeOK`, `NothingForgotten`, `OrphanOnlyLate`, `SweptStaysClean` |
| `ServicesLive` | 2 services, one there from the start, 1 node; a failing call or a crash, after which an operation may run on | `DeletionEnds`, `Served` |
| `Instances` | 3 VMs of one name, with their interfaces in different orders, with and without public and private addresses, 4 forms of provider ID (none, deprecated, of another provider, an id), 4 configurations; a failing call | `TypeOK`, `AddressesDocumented`, `OnlyGoneRemoved`, `GoneRemoved`, `EachDescribed` |

What the properties of the services say together: a service that needs work is in
the queue or in the worker's hands at any time, although `UpdateLoadBalancer` drops
errors (`NothingForgotten`); a deletion ends (`DeletionEnds`); while another service
stays, every one gets its balancer (`Served`); no balancer outlives its service, and
no group a completed cleanup, unless the node syncer was at work for a deleted
service, or a creation that nobody waited for any more ended after the deletion or the
cleanup (`OrphanOnlyLate`, `SweptStaysClean`). Operations on groups and on balancers
that outlive failed waits and the process are part of both runs. Deletions that outlive
a wait cancelled by errgroup are not: they need two groups and a cleanup with two
services' balancers, which with everything else is beyond a run of some minutes. They
are in `TGFaults`, and the theorems about the composed system hold with them.

Three runs expect a violation; each shows a disagreement of the code with what
the repository says of it, told in `PROJECT.json` under `findings`:

- `ServiceStuck`: nothing fails, yet a new service never gets its balancer. A cleanup
  has deleted its group, was refused another one that the balancer of a service
  being deleted still holds, and has therefore kept `lastVisitedNodes`, for which the
  syncs that would bring the group back are skipped.
- `StaleNodes`: a node comes. A worker and the node syncer wait for `tgSyncLock` with
  the nodes of before and of now; the older list comes last, takes the new node out of
  its groups again, and stays.
- `ForeignGroups`: of two clusters called prod and prod2 in one folder, the cleanup of
  the first deletes the groups of the second, whose names contain its own.

The other findings follow from the code alone, or are what a property has to set
aside: a changed prefix annotation is not synchronized (`AsVisited`); the group just
updated is read again and may be gone, deleted by an operation that a cancelled cleanup
left running, and nil is dereferenced, as is the address of an interface that has none
(the two reasons of `PanicsExplained`); an update of routes that outlives its wait and a
later call undo each other (`Quiet`); a balancer that `UpdateLoadBalancer`, or a
creation given up, makes for a deleted service (`late`); a cleanup that never runs, or
whose groups a creation brings back (`leftover`); nodes with deprecated provider IDs;
two departures of the addresses from the documentation; prefixes cut in one place only;
groups that keep old targets.

Bounds. Two goroutines are enough for every conflict over a lock, since what one does
while another holds it is one of two things; two nodes for a group that grows and
shrinks and for a node that leaves; two networks for a mapping of several groups.
`MaxInflight` and `MaxStray` are 0 where the hazards that fill them are absent and 1
elsewhere: one surviving operation is what one failure leaves, and the next may come
when it has ended; the theorems have no such bound. In `ServiceController` the bound is
1 for groups and 1 for balancers. `Routes` has one address and one route of a user,
which each may be there or not, and makes the nodes interchangeable, as it does the
goroutines: both stand only in equalities. `MaxTrouble` = 4 is enough for a lost update,
a node that comes, one that goes and one more fault to come together. Three ids are
enough for two callers of `LoadBalancer`: a fourth adds no state. Two services give a
last one and one that is not; `ServiceStuck` needs three, of which two are being deleted
while the third comes. In `Services` the only node stops being ready, which is the case
in which an update turns into a cleanup; it starts with that node and no service, and
its two services, which are alike, are interchangeable. Nodes share no state in
`Instances`, so one name is enough, and three VMs for one that is replaced twice.
Deadlock is checked in all runs but those of `ServiceController` and `Instances`, which
stop when all services or VMs have come and gone and nothing is left to do.

Fairness. `TGLiveness`: a running call takes its next step (weak fairness of
`Step(c)`: goroutines are scheduled and remote calls return); a waiting call
gets the lock if it is free again and again (strong fairness of `Acquire`:
`sync.Mutex` hands the lock to a waiter that starves); a process that panicked is
started again (it runs in a Deployment). Nothing is assumed of failures: they
may happen for ever. `RouteRounds`: the controller goes on with its rounds,
goroutines and remote calls end (weak fairness of each), and a node that has no
address gets one. Faults are bounded by `MaxTrouble` there, because nothing
converges while calls fail for ever; the updates already lost may still land at
any time, or never. `ServicesLive`: steps of the provider and of `SyncTGs` are taken
(weak), the lock starves nobody (strong), the informer catches up and the node syncer
goes on (weak), and the queue gives every service its turn (strong: it is a FIFO
with delays, and the worker is busy with others again and again), and a process that
panicked is started again (weak). Abandoned operations need not end. `Served` assumes
in addition that a service of the start is always listed, which keeps the cleanups
away; `ServiceStuck` shows why. `Instances`: the node controller goes on with a node
(weak), the lifecycle controller visits every node every few seconds (strong, since
it is at other nodes in between), and a node whose VM does not run stops being ready
(weak). VMs, the kubelet and failures are not fair.

## Proofs

All for arbitrary constants: any callers, nodes, networks, prefixes, requests.

- `TargetGroupSyncProofs!TypeCorrect`: `Spec => []TypeOK`, under all hazards.
  `TypeOK` is inductive; its part `LockOK` (a call is inside `SyncTGs` exactly
  when it holds the lock) is what gives mutual exclusion. One lemma per action.
- The rest of `TargetGroupSyncProofs`, under all hazards too: `CallsProgress` is the
  inductive invariant. It ties the locals of a call to the cloud: the groups already
  visited hold what is wanted, the snapshot of the group at hand is still true, a
  cleanup still has all groups of the cluster before it. It is inductive with `TypeOK`,
  because only the lock's holder starts operations; what else may change a group is an
  operation that was running when the call took the lock, and its first conjunct says
  that there are no others (`inflight \subseteq r.strays`). So the rest speaks of
  groups that no such operation concerns (`Holds`, `Reborn`). From it follow
  `PanicsExplained`, `SyncExact`, `TrafficKept` and `CleanupComplete`, with the same
  exceptions, which are needed: each of the four fails without its own.
- `RouteTableProofs`: `TypeCorrect` and `OneRouteEach` under all hazards. For
  the second, `OnceEverywhere` strengthens `OneRoutePerNode` by the same of
  every table that may still be written: the lost ones, and the snapshots of
  running calls. `Fresh` and `Refines` hold under all hazards as well: with
  `SnapshotFresh` the write of a call that is `alone` is a step of
  `RouteTableAbstract`, an edit by a user is one, and every other step leaves the table
  alone or happens while it is not `Quiet`.
  `RoundsAreCalls` is the composition: every behaviour of `RoundSpec` is one of
  `Spec`, the steps of the controller being calls or stutters. `RoundsOneRoute` and
  `RoundsRefine` carry the results over to the rounds. `ControllerAssumption`
  (a goroutine for every request) is used only for the rounds.
- `FiltersFaithfully`, in the same module, is `FilterFaithful` under all hazards, for
  tables of any size. It needs that no node has two routes in a table that a call has
  read (`OnceEverywhere`: of two routes of a node the filter would make two equal ones)
  and that tables are finite (`FiniteTables`; `RouteConstantsAssumption` says so of the
  users' routes). `FilterShape` describes the new list by the positions that stay and
  the one route that is added when none was there to be rewritten, `FilterPositions`
  says what is at each position, and `FilterUsers` that the users' positions come in the
  same order before and after. The lemmas of `SelectionProofs` take the place of
  induction over the list: ranks number the positions of a finite set from 1 (`Ranks`,
  `RanksOnto`), and two selections whose positions correspond in order are the same list
  (`SameSelection`).
- `RoundsOnlyImprove`, in the same module, is `RoundsImprove` for any nodes and CIDRs.
  `RoundInv` adds to `TypeOK` and `OnceEverywhere` that a node asks for one CIDR at most
  (`OneCIDR`) and `PhaseOK`: a call runs only in the phase of its kind, for the request
  its goroutine is named by, and is not among the calls still to come; an answer of
  `ListRoutes` has labelled routes only. The write of a call is the case that matters
  (`CreateImproves`, `DeleteImproves`). There mutual exclusion gives that no other call
  is between its read and its write, `OneCIDR` that no other creation is planned for the
  node, and `OnceEverywhere` that no other deletion is, which would find nothing left to
  delete. `PlansBegin` says that the premise of `RoundsImprove` holds whenever a round
  begins and no lost update is out.
- `InstancesProofs`: `TypeCorrect` and `RemovesOnlyGone`, for any VMs, interfaces,
  provider IDs and configurations. The inductive invariant adds to `TypeOK` that
  a provider ID by id is that of a VM there has been, that a sketch has the
  provider ID of its node if the node has one, and `CheckTrue`: an answer "not found"
  that the lifecycle controller has not acted on yet is still true. It stays true
  because ids are never given twice, and because what the node controller writes
  meanwhile keeps the provider ID. That a search by name which finds nothing is
  an error, not "not found", is what the lookup lemma needs.
  `DescribedAsDocumented` is `AddressesDocumented`, under `NamesItself`: a node that
  registers with a deprecated provider ID has its own name in it. Without that the node
  gets the addresses of the VM it names, which is not of its name. `DescribedInv` adds
  that provider IDs name the VM of their node (`OwnIDs`), and that what a sketch has
  looked up was documented for a VM of its name that once was (`LookedDocumented`):
  between the lookup and the write the VM may be gone, its interfaces are the same.
  That `extractNodeAddresses` gives the documented list is `ExtractionDocumented`, by
  the lemmas of `SelectionProofs` on the interfaces it picks.
- `TargetGroupCacheProofs`: `CacheTrue`, under all hazards. `CallsRead` says that what a
  call has looked up is of its own nodes and that its mapping is what it has looked up;
  `MemoTrue` that the groups of `memo` are in the cloud as it wanted them, but for those
  disturbed when it began, or that a call which holds the lock is changing groups and
  will set `memo` anew or forget it. It is inductive with `TypeOK` and `CallsProgress`:
  these two give that such a call is the only one, what it leaves when it returns, and
  that operations which run beside it were running when `memo` began. Both premises of
  `CacheTruth` are needed: a failing call, or a group that a balancer holds, ends a sync
  or a cleanup half-way with the old `lastVisitedNodes` (`ServiceStuck` shows what comes
  of it), and with a new annotation or VM the mapping of the same nodes is another.
- `LoadBalancerProofs`: all safety properties of `LoadBalancer`, under all hazards. The
  inductive invariant is `TypeOK`, `CallsKnow` and `Unambiguous`. `CallsKnow` ties the
  locals of a call that is not stale to the balancer: it read this balancer, and what
  it still has to drop, add, detach and attach is the difference of what it wants and
  what is there. That an operation makes this difference smaller by just its own listener
  or group needs `Unambiguous`: in the balancer and in every operation started, ports and
  names of listeners and groups of attachments are unique, because listeners are removed
  by name and groups detached by id. Then `UpdateExact` is that nothing is left to do,
  `ServingKept` that only differences are taken away, and `PanicsOnlyStale` that a
  balancer which was read is still there. `SpecsAssumption` is what they need of the
  specifications: listeners with unique names and ports, and each group once.
- `ServiceControllerProofs`: `ServiceInv` is inductive. It is `TypeOK` and
  `CallsProgress` of the `SyncTGs` calls, that the groups in use are those of the
  balancers, `TaskOK` (what the worker and the node syncer may be at: only the worker
  deletes; a service that is deleted while the worker ensures it waits in the queue; a
  `SyncTGs` call runs only for who waits for it), `OpsOK` (what may be in `lbOps`) and
  `NothingForgotten`. The lemmas of `TargetGroupSync`'s actions are cited for the
  `SyncTGs` steps, and no hazard is excluded. Of `ServiceInv`
  follow `ServiceTypeCorrect` and `NoneForgotten`. `ServicesSync` is the composition:
  every behaviour of `ServiceSpec` is one of `TargetGroupSync`'s `Spec`. It assumes
  `"attach" \in Hazards`, because a balancer that takes a group is, for the syncer, a
  client that attaches it; `ServiceController` itself never looks at this element.
  `ServicesPanicsExplained` and `ServicesKeepGroups` carry `PanicsExplained`, `SyncExact`,
  `TrafficKept` and `CleanupComplete` over to the composed system, where deletions are
  cancelled and operations outlive their waits and the process.
- `ServiceHistoryProofs`: `OrphansOnlyLate` and `StaysSwept`. `HistoryInv` adds to
  `ServiceInv` that a service is late once it is deleted while the node syncer is at it
  or a creation of its balancer is in `lbOps` (`LateOK`), that a worker which has removed
  the balancer finds it still gone when it finalizes the service, or the service is late
  (`RemovalOK`), and that after a cleanup, with no service active or late, the worker has
  no sync at hand, and the groups that are there or that creations in `inflight` may make
  are among `leftover` (`SweptOK`). Neither property is inductive without these: a
  balancer comes back between its removal and the end of the service, and a group in a
  sync that was begun before the cleanup, or by a creation that such a sync has started.

Assumed: only the named assumptions on constants, which TLC evaluates in the
runs, and two hypotheses, which are part of their theorems: `NamesItself` of
`DescribedAsDocumented` and `"attach" \in Hazards` of `ServicesSync`. Every safety
property of the passing runs is proved, each action property and the refinement
included. Liveness under fairness is out of the prover's reach: `CallsReturn`,
`Converges`, `DeletionEnds`, `Served`, `GoneRemoved` and `EachDescribed` are
model-checked only. `RoundsOnlyImprove` is the part of `Converges` that can be proved:
what is left to TLC is that rounds, and calls which find the lock free, go on happening.

## Not modelled

Metadata, environment variables, flags, charts: pure input and output. `GetZone`,
`InstanceType` and the like, which return constants. The text of logs and errors.
The 1000-entry page of `GetTGsByClusterName`. Nodes with more than one CIDR in the
rounds of the route controller. Names and addresses of listeners, which
`diffListeners` does not compare. The reading of a service's annotations
(`getLoadBalancerParameters`): its result is a constant of `ServiceController` and an
input of `LoadBalancer`. A service that stops being of type LoadBalancer, which the
controllers treat as a deleted one.

## Plan

Done: `TargetGroupSync`, `RouteTable` and `RouteController` with their runs and
proofs, in this order because a wrong target group takes the traffic of all
services, a wrong route that of one node; `LoadBalancer`; `RouteFilter`;
`ServiceController` composed with `TargetGroupSync`; `Instances`.

All safety properties that the runs check are proved.

What is left: a run for what `diffListeners` does not compare, renamed listeners and
changed addresses.
