-------------------------- MODULE ServiceController --------------------------
(***************************************************************************)
(* EnsureLoadBalancer, UpdateLoadBalancer and EnsureLoadBalancerDeleted,   *)
(* on top of the SyncTGs calls of TargetGroupSync, under the service       *)
(* controller of Kubernetes, which is not code of this repository: a       *)
(* worker takes services from a queue, and a node syncer gives a changed   *)
(* set of nodes to every service the worker has met.                       *)
(*                                                                         *)
(* A service lives once: when it is created anew its UID, and with it the  *)
(* name of its balancer, is another.  Its specification does not change,   *)
(* so CreateOrUpdateLB either creates its balancer or leaves it as it is;  *)
(* what it does otherwise is the matter of LoadBalancer.                   *)
(*                                                                         *)
(* As with target groups, an operation on a balancer may outlive the wait  *)
(* for it, and the process: it stays in `lbOps` until it ends.             *)
(***************************************************************************)
EXTENDS TargetGroupSync

CONSTANTS
  Services,    \* the services of type LoadBalancer that there may be
  NoService,
  AtStart,     \* those that are there when the process starts
  GroupOf,     \* the target group that ensureLB looks for
  Worker, NodeSyncer,  \* the two callers
  Fleets,      \* the sets of nodes that may be ready
  MaxTrouble   \* bound: node changes, failing calls and crashes, together;
               \* MaxInflight bounds lbOps as well

ASSUME ServiceAssumption ==
  /\ NoService \notin Services /\ AtStart \subseteq Services
  /\ GroupOf \in [Services -> OwnNames]
  /\ Worker # NodeSyncer /\ Callers = {Worker, NodeSyncer}
  /\ Fleets \subseteq SUBSET Nodes /\ Fleets # {}
  /\ MaxTrouble \in Nat

VARIABLES
  svc,      \* the services: "absent", "active", "deleting", "gone"
  listed,   \* the services that the syncer's informer shows as active
  lb,       \* the cloud: whether a service has its balancer
  lbOps,    \* operations on balancers that run although nobody waits for them
  queued,   \* the worker's queue
  known,    \* the controller's cache: what a change of the nodes concerns
  last,     \* lastSyncedNodes of each service
  pending,  \* services that the node syncer has still to visit
  ready,    \* the nodes of the cluster that take part
  dirty,    \* they have changed since the node syncer began
  work,     \* what the worker and the node syncer are at
  trouble   \* how much has happened of what MaxTrouble bounds

serviceVars == <<svc, listed>>
balancers   == <<lb, lbOps>>
queueVars   == <<queued, known, last, pending>>
fleetVars   == <<ready, dirty>>
allVars ==
  <<vars, serviceVars, balancers, queueVars, fleetVars, work, trouble>>

Active == {s \in Services : svc[s] = "active"}

-----------------------------------------------------------------------------
(* Workers                                                                 *)

\* group: the target group that was looked up is still there.
Idle == [pc |-> "idle", svc |-> NoService, nodes |-> {}, group |-> FALSE]

IsAt(c, label) == work[c].pc = label

\* A panic of one goroutine is the end of the process.
Alive == \A c \in Callers : ~At(c, "panic")

Begin(c, label, s, N) ==
  work' = [work EXCEPT ![c] = [Idle EXCEPT !.pc = label, !.svc = s, !.nodes = N]]

Goto(c, label) == work' = [work EXCEPT ![c].pc = label]

Done(c) == work' = [work EXCEPT ![c] = Idle] /\ UNCHANGED queued

\* An error is returned: the worker puts the service back into its queue, the
\* node syncer asks first whether the balancer exists at all.
Failed(c) ==
  \/ /\ c = Worker
     /\ work' = [work EXCEPT ![c] = Idle]
     /\ queued' = queued \cup {work[c].svc}
  \/ /\ c = NodeSyncer
     /\ Goto(c, "check")
     /\ UNCHANGED queued

-----------------------------------------------------------------------------
(* The worker's choice                                                     *)

\* syncService; the nodes are listed now, and noted as synchronized.
PickActive(s) ==
  /\ svc[s] = "active"
  /\ last' = [last EXCEPT ![s] = ready]
  /\ Begin(Worker, "sync", s, ready)
  /\ Start(Worker, ready)

\* GetLoadBalancer comes first.
PickDeleting(s) ==
  /\ svc[s] = "deleting"
  /\ Begin(Worker, "exists", s, {})
  /\ UNCHANGED <<vars, last>>

\* A service that is gone is in the queue once more, and is not found.
PickGone(s) ==
  /\ svc[s] = "gone"
  /\ UNCHANGED <<vars, last, known, work>>

PickService(s) ==
  /\ Alive /\ IsAt(Worker, "idle") /\ s \in queued
  /\ \/ /\ PickActive(s) \/ PickDeleting(s)
        /\ known' = known \cup {s}
     \/ PickGone(s)
  /\ queued' = queued \ {s}
  /\ UNCHANGED <<serviceVars, balancers, pending, fleetVars, trouble>>

-----------------------------------------------------------------------------
(* EnsureLoadBalancer, UpdateLoadBalancer                                  *)

\* Faulty variant of the next action: ensureLB is not called after an error of
\* SyncTGs, and the error is not returned either.
SwallowsError(c) ==
  /\ IsAt(c, "sync") /\ call[c].pc \in Returned
  /\ \/ /\ call[c].pc = "ok" /\ work[c].nodes # {}
        /\ work' = [work EXCEPT ![c].pc = "lookup", ![c].nodes = {}]
        /\ UNCHANGED queued
     \/ /\ call[c].pc = "err" \/ work[c].nodes = {}
        /\ Done(c)
  /\ UNCHANGED <<vars, serviceVars, balancers, known, last, pending, fleetVars, trouble>>

\* SyncTGs has returned; ensureLB refuses to go on without nodes.
Synced(c) ==
  /\ IsAt(c, "sync") /\ call[c].pc \in Returned
  /\ \/ /\ call[c].pc = "ok" /\ work[c].nodes # {}
        /\ work' = [work EXCEPT ![c].pc = "lookup", ![c].nodes = {}]
        /\ UNCHANGED queued
     \/ /\ call[c].pc = "err" \/ work[c].nodes = {}
        /\ Failed(c)
  /\ UNCHANGED <<vars, serviceVars, balancers, known, last, pending, fleetVars, trouble>>

\* Faulty variant of the next action: a group that is missing is no error.
WaitsForGroup(c) ==
  /\ IsAt(c, "lookup")
  /\ \/ /\ GroupOf[work[c].svc] \in DOMAIN tgs
        /\ work' = [work EXCEPT ![c].pc = "balancer", ![c].group = TRUE]
        /\ UNCHANGED queued
     \/ /\ GroupOf[work[c].svc] \notin DOMAIN tgs
        /\ Done(c)
  /\ UNCHANGED <<vars, serviceVars, balancers, known, last, pending, fleetVars, trouble>>

\* GetTgByName
FindGroup(c) ==
  /\ IsAt(c, "lookup")
  /\ \/ /\ GroupOf[work[c].svc] \in DOMAIN tgs
        /\ work' = [work EXCEPT ![c].pc = "balancer", ![c].group = TRUE]
        /\ UNCHANGED queued
     \/ /\ GroupOf[work[c].svc] \notin DOMAIN tgs   \* "does not exist yet"
        /\ Failed(c)
  /\ UNCHANGED <<vars, serviceVars, balancers, known, last, pending, fleetVars, trouble>>

\* GetLbByName of CreateOrUpdateLB: a balancer that exists is as it should be.
FindBalancer(c) ==
  /\ IsAt(c, "balancer")
  /\ \/ lb[work[c].svc] /\ Done(c)
     \/ ~lb[work[c].svc] /\ Goto(c, "create") /\ UNCHANGED queued
  /\ UNCHANGED <<vars, serviceVars, balancers, known, last, pending, fleetVars, trouble>>

HeldGroups(b) == {GroupOf[s] : s \in {t \in Services : b[t]}}

\* Balancers come and go, each with its hold on a group.
BalancersMove ==
  /\ inUse' = HeldGroups(lb')
  /\ UNCHANGED <<tgs, inflight, world, lock, cache, call>>

CreateOf(s) == [op |-> "create", svc |-> s]
DeleteOf(s) == [op |-> "delete", svc |-> s]

\* The operation that the API accepts from c.  It refuses a name that is taken,
\* and a group that is gone.
Asked(c) ==
  LET s == work[c].svc IN
  IF IsAt(c, "create") /\ ~lb[s] /\ work[c].group THEN {CreateOf(s)}
  ELSE IF IsAt(c, "remove") /\ lb[s] THEN {DeleteOf(s)}
  ELSE {}

CreateBalancer(c) ==
  LET s == work[c].svc IN
  /\ IsAt(c, "create")
  /\ \/ /\ Asked(c) # {}
        /\ lb' = [lb EXCEPT ![s] = TRUE]
        /\ BalancersMove
        /\ Done(c)
     \/ /\ Asked(c) = {}
        /\ Failed(c)
        /\ UNCHANGED <<vars, lb>>
  /\ UNCHANGED <<lbOps, serviceVars, known, last, pending, fleetVars, trouble>>

-----------------------------------------------------------------------------
(* GetLoadBalancer, EnsureLoadBalancerDeleted                              *)

\* Faulty variant of the next action: an error is taken for "not found".
TakesErrorForNone(c) ==
  /\ IsAt(c, "exists")
  /\ Goto(c, "finalize") \/ (lb[work[c].svc] /\ Goto(c, "remove"))
  /\ UNCHANGED <<vars, serviceVars, balancers, queueVars, fleetVars, trouble>>

\* Without a balancer EnsureLoadBalancerDeleted is not called.
CheckBalancer(c) ==
  /\ IsAt(c, "exists")
  /\ Goto(c, IF lb[work[c].svc] THEN "remove" ELSE "finalize")
  /\ UNCHANGED <<vars, serviceVars, balancers, queueVars, fleetVars, trouble>>

\* RemoveLBByName: to find no balancer, or to find it gone, is success.  With a
\* balancer end the operations that mean it.
RemoveBalancer(c) ==
  /\ IsAt(c, "remove")
  /\ lb' = [lb EXCEPT ![work[c].svc] = FALSE]
  /\ lbOps' = lbOps \ {DeleteOf(work[c].svc)}
  /\ BalancersMove
  /\ Goto(c, "sweep")
  /\ UNCHANGED <<serviceVars, queueVars, fleetVars, trouble>>

BeginCleanup(c) ==
  /\ IsAt(c, "sweep")
  /\ Start(c, {})
  /\ Goto(c, "cleanup")
  /\ UNCHANGED <<serviceVars, balancers, queueVars, fleetVars, trouble>>

CleanupReturned(c) ==
  /\ IsAt(c, "cleanup") /\ call[c].pc \in Returned
  /\ \/ call[c].pc = "ok" /\ Goto(c, "finalize") /\ UNCHANGED queued
     \/ call[c].pc = "err" /\ Failed(c)
  /\ UNCHANGED <<vars, serviceVars, balancers, known, last, pending, fleetVars, trouble>>

\* The finalizer is removed, and the service disappears.
Finalize(c) ==
  /\ IsAt(c, "finalize")
  /\ svc' = [svc EXCEPT ![work[c].svc] = "gone"]
  /\ known' = known \ {work[c].svc}
  /\ Done(c)
  /\ UNCHANGED <<vars, listed, balancers, last, pending, fleetVars, trouble>>

-----------------------------------------------------------------------------
(* The node syncer                                                         *)

NodeRound ==
  /\ IsAt(NodeSyncer, "idle") /\ pending = {} /\ dirty
  /\ pending' = known /\ dirty' = FALSE
  /\ UNCHANGED <<vars, serviceVars, balancers, queued, known, last, ready, work, trouble>>

\* The service is the controller's copy: it may be deleted meanwhile.
VisitService(s) ==
  /\ IsAt(NodeSyncer, "idle") /\ s \in pending
  /\ pending' = pending \ {s} /\ last' = [last EXCEPT ![s] = ready]
  /\ \/ /\ last[s] = ready
        /\ UNCHANGED <<vars, work>>
     \/ /\ last[s] # ready
        /\ Begin(NodeSyncer, "sync", s, ready)
        /\ Start(NodeSyncer, ready)
  /\ UNCHANGED <<serviceVars, balancers, queued, known, fleetVars, trouble>>

\* A failed update is left to the worker, if the balancer is there.
CheckUpdated ==
  /\ IsAt(NodeSyncer, "check")
  /\ work' = [work EXCEPT ![NodeSyncer] = Idle]
  /\ queued' = queued \cup {s \in {work[NodeSyncer].svc} : lb[s]}
  /\ UNCHANGED <<vars, serviceVars, balancers, known, last, pending, fleetVars, trouble>>

-----------------------------------------------------------------------------
(* SyncTGs, and what goes wrong                                            *)

\* Of a group that has been deleted nobody holds the id any more, and no balancer
\* is created with it.
Forget ==
  /\ work' = [c \in Callers |->
                [work[c] EXCEPT !.group = @ /\ GroupOf[work[c].svc] \in DOMAIN tgs']]
  /\ lbOps' = {o \in lbOps : o.op = "create" => GroupOf[o.svc] \in DOMAIN tgs'}

CallStep(c) ==
  /\ Step(c)
  /\ Forget
  /\ UNCHANGED <<serviceVars, lb, queueVars, fleetVars, trouble>>

TakeLock(c) ==
  /\ Acquire(c, listed # {})
  /\ UNCHANGED <<serviceVars, balancers, queueVars, fleetVars, work, trouble>>

Remote == {"lookup", "balancer", "create", "exists", "remove"}

\* A remote call fails: in SyncTGs, or around it; there, the wait may fail for an
\* operation that runs on.
CallFails(c) ==
  \/ /\ Fault(c)
     /\ UNCHANGED <<queued, work, lbOps>>
  \/ /\ "error" \in Hazards /\ Alive /\ work[c].pc \in Remote
     /\ Failed(c)
     /\ UNCHANGED <<vars, lbOps>>
  \/ /\ "lost" \in Hazards /\ Alive /\ Cardinality(lbOps) < MaxInflight
     /\ \E o \in Asked(c) : lbOps' = lbOps \cup {o}
     /\ Failed(c)
     /\ UNCHANGED vars

\* An abandoned operation ends: done, or refused and without effect.
LandBalancer(o) ==
  /\ o \in lbOps /\ lbOps' = lbOps \ {o}
  /\ \/ /\ o.op = "create" => ~lb[o.svc]
        /\ lb' = [lb EXCEPT ![o.svc] = (o.op = "create")]
     \/ UNCHANGED lb
  /\ BalancersMove
  /\ UNCHANGED <<serviceVars, queueVars, fleetVars, work, trouble>>

LandGroup(o) ==
  /\ Land(o)
  /\ Forget
  /\ UNCHANGED <<serviceVars, lb, queueVars, fleetVars, trouble>>

\* The process starts again, after a crash, or when a panic has ended it: every
\* service comes anew from the informer, and so do the nodes.  Operations that were
\* waited for may run on.
RestartAll ==
  /\ Restart
  /\ IF Alive THEN trouble < MaxTrouble /\ trouble' = trouble + 1
              ELSE UNCHANGED trouble
  /\ \E left \in SUBSET UNION {Asked(c) : c \in Callers} :
       /\ Cardinality(lbOps \cup left) <= MaxInflight
       /\ lbOps' = lbOps \cup left
  /\ queued' = {s \in Services : svc[s] \in {"active", "deleting"}}
  /\ listed' = Active /\ known' = {} /\ pending' = {} /\ dirty' = TRUE
  /\ last' = [s \in Services |-> {}]
  /\ work' = [c \in Callers |-> Idle]
  /\ UNCHANGED <<svc, lb, ready>>

\* The Deployment starts a new process when one has panicked.
Recover == ~Alive /\ RestartAll

ChangeFleet ==
  /\ ready' \in Fleets \ {ready}
  /\ dirty' = TRUE
  /\ UNCHANGED <<vars, serviceVars, balancers, queueVars, work>>

Trouble ==
  /\ trouble < MaxTrouble /\ trouble' = trouble + 1
  /\ \/ \E c \in Callers : CallFails(c) /\ UNCHANGED <<serviceVars, lb, known,
                             last, pending, fleetVars>>
     \/ ChangeFleet

-----------------------------------------------------------------------------
(* The cluster                                                             *)

CreateService(s) ==
  /\ svc[s] = "absent"
  /\ svc' = [svc EXCEPT ![s] = "active"]
  /\ queued' = queued \cup {s}
  /\ UNCHANGED <<vars, listed, balancers, known, last, pending, fleetVars, work, trouble>>

DeleteService(s) ==
  /\ svc[s] = "active"
  /\ svc' = [svc EXCEPT ![s] = "deleting"]
  /\ queued' = queued \cup {s}
  /\ UNCHANGED <<vars, listed, balancers, known, last, pending, fleetVars, work, trouble>>

\* The syncer has an informer of its own, which lags behind the controller's.
Observe ==
  /\ listed # Active /\ listed' = Active
  /\ UNCHANGED <<vars, svc, balancers, queueVars, fleetVars, work, trouble>>

-----------------------------------------------------------------------------

ServiceInit ==
  /\ Init
  /\ svc = [s \in Services |-> IF s \in AtStart THEN "active" ELSE "absent"]
  /\ listed = AtStart /\ queued = AtStart
  /\ lb = [s \in Services |-> FALSE] /\ lbOps = {}
  /\ known = {} /\ pending = {} /\ last = [s \in Services |-> {}]
  /\ ready \in Fleets /\ dirty = FALSE
  /\ work = [c \in Callers |-> Idle]
  /\ trouble = 0

\* The provider's code, in the hands of one of its callers.
ProviderStep(c) ==
  /\ Alive
  /\ \/ Synced(c) \/ FindGroup(c) \/ FindBalancer(c) \/ CreateBalancer(c)
     \/ CheckBalancer(c) \/ RemoveBalancer(c) \/ BeginCleanup(c)
     \/ CleanupReturned(c) \/ Finalize(c)

NodeStep ==
  Alive /\ (NodeRound \/ CheckUpdated \/ \E s \in Services : VisitService(s))

ServiceNext ==
  \/ \E s \in Services : PickService(s)
  \/ \E c \in Callers : ProviderStep(c) \/ CallStep(c) \/ TakeLock(c)
  \/ NodeStep
  \/ \E o \in lbOps : LandBalancer(o)
  \/ \E o \in inflight : LandGroup(o)
  \/ Trouble \/ RestartAll
  \/ \E s \in Services : CreateService(s) \/ DeleteService(s)
  \/ Observe

\* Goroutines are scheduled, remote calls return, tgSyncLock starves nobody,
\* the informers catch up, the queue gives every service its turn, and a process
\* that has ended is started again.
ServiceFairness ==
  /\ \A c \in Callers :
       /\ WF_allVars(ProviderStep(c)) /\ WF_allVars(CallStep(c))
       /\ SF_allVars(TakeLock(c))
  /\ WF_allVars(NodeStep) /\ WF_allVars(Observe) /\ WF_allVars(Recover)
  /\ \A s \in Services : SF_allVars(PickService(s))

ServiceSpec == ServiceInit /\ [][ServiceNext]_allVars /\ ServiceFairness

-----------------------------------------------------------------------------
(* Properties                                                              *)

WorkLabels ==
  {"idle", "sync", "lookup", "balancer", "create", "exists", "remove", "sweep",
   "cleanup", "finalize", "check"}

\* Type invariant, with that of TargetGroupSync: groups in use are those of the
\* balancers, and a call runs only for who waits for it.
ServiceTypeOK ==
  /\ TypeOK
  /\ svc \in [Services -> {"absent", "active", "deleting", "gone"}]
  /\ lb \in [Services -> BOOLEAN] /\ inUse = HeldGroups(lb)
  /\ lbOps \subseteq {CreateOf(s) : s \in Services} \cup {DeleteOf(s) : s \in Services}
  /\ listed \subseteq Services /\ queued \subseteq Services
  /\ known \subseteq Services /\ pending \subseteq Services
  /\ last \in [Services -> SUBSET Nodes] /\ ready \in Fleets
  /\ dirty \in BOOLEAN /\ trouble \in 0 .. MaxTrouble
  /\ work \in [Callers -> [pc : WorkLabels, svc : Services \cup {NoService},
                           nodes : SUBSET Nodes, group : BOOLEAN]]
  /\ \A c \in Callers :
       call[c].pc \notin Returned => work[c].pc \in {"sync", "cleanup"}

\* A service that lacks its balancer, or has to be deleted, is in the queue or
\* in the worker's hands, whatever fails and although an update for new nodes
\* does not report all its errors (load_balancer.go:72-102).
NothingForgotten ==
  \A s \in Services :
    svc[s] = "deleting" \/ (svc[s] = "active" /\ ~lb[s]) =>
      s \in queued \/ work[Worker].svc = s

\* A deleted service is let go, whatever its cleanup meets.
DeletionEnds == \A s \in Services : svc[s] = "deleting" ~> svc[s] = "gone"

\* While some other service stays, and keeps the cleanups away, every service
\* gets its balancer (README.md:12).
Kept == [](listed \cap AtStart # {})
Served ==
  Kept => \A s \in Services : svc[s] = "active" ~> lb[s] \/ svc[s] # "active"

\* The same, whoever comes and goes.
AlwaysServed ==
  \A s \in Services : svc[s] = "active" ~> lb[s] \/ svc[s] # "active"

\* When everything has been dealt with, every node that is ready is in its
\* groups (README.md:114).
AtRest ==
  /\ queued = {} /\ pending = {} /\ ~dirty
  /\ \A c \in Callers : IsAt(c, "idle")
NodesInGroups ==
  AtRest /\ (\E s \in Active : lb[s]) =>
    \A g \in DOMAIN Wanted(ready) :
      g \in DOMAIN tgs /\ Wanted(ready)[g] \subseteq tgs[g]

=============================================================================
