------------------------ MODULE ServiceControllerProofs ------------------------
(***************************************************************************)
(* Theorems about ServiceController, for any services, nodes and failures. *)
(* The lemmas of TargetGroupSync are used here for the SyncTGs calls of    *)
(* the worker and the node syncer.                                         *)
(***************************************************************************)
EXTENDS ServiceController, TargetGroupSyncProofs

Ensuring == {"sync", "lookup", "balancer", "create"}
Deleting == {"exists", "remove", "sweep", "cleanup", "finalize"}

Task == [pc : WorkLabels, svc : Services \cup {NoService}, nodes : SUBSET Nodes,
         group : BOOLEAN]

\* What c is at.  Only the worker deletes; while it ensures a service that is
\* deleted meanwhile, the service waits in its queue.
TaskOK(c) ==
  LET task == work[c] IN
  /\ task \in Task
  /\ task.pc = "idle" => task = Idle
  /\ task.pc # "idle" => task.svc \in Services
  /\ task.group => GroupOf[task.svc] \in DOMAIN tgs
  /\ call[c].pc \notin Returned => task.pc \in {"sync", "cleanup"}
  /\ c = NodeSyncer => task.pc \in Ensuring \cup {"idle", "check"}
  /\ c = Worker =>
       /\ task.pc \in Ensuring \cup Deleting \cup {"idle"}
       /\ task.pc \in Ensuring => \/ svc[task.svc] = "active"
                                  \/ svc[task.svc] = "deleting" /\ task.svc \in queued
       /\ task.pc \in Deleting => svc[task.svc] = "deleting"

TasksOK == work = [c \in Callers |-> work[c]] /\ \A c \in Callers : TaskOK(c)

ControllerOK ==
  /\ svc \in [Services -> {"absent", "active", "deleting", "gone"}]
  /\ lb \in [Services -> BOOLEAN]
  /\ listed \subseteq Services /\ queued \subseteq Services
  /\ known \subseteq Services /\ pending \subseteq Services
  /\ last \in [Services -> SUBSET Nodes] /\ ready \in Fleets
  /\ dirty \in BOOLEAN /\ trouble \in 0 .. MaxTrouble

GroupsOK == TypeOK /\ CallsProgress /\ inUse = HeldGroups(lb)

\* What the running operations on balancers are about: a creation has its group,
\* and a deletion is that of a service which is being deleted, or is gone.
OpsOK ==
  /\ lbOps \subseteq {CreateOf(s) : s \in Services} \cup {DeleteOf(s) : s \in Services}
  /\ \A s \in Services :
       /\ CreateOf(s) \in lbOps => GroupOf[s] \in DOMAIN tgs
       /\ DeleteOf(s) \in lbOps => svc[s] \in {"deleting", "gone"}

\* The inductive invariant.
ServiceInv == GroupsOK /\ ControllerOK /\ TasksOK /\ OpsOK /\ NothingForgotten

LEMMA InvMeans == ServiceInv => ServiceTypeOK /\ NothingForgotten /\ CallsProgress
BY DEF ServiceInv, GroupsOK, ControllerOK, TasksOK, TaskOK, Task, OpsOK, ServiceTypeOK

LEMMA ReadyNodes == ASSUME ControllerOK PROVE ready \in SUBSET Nodes
BY ServiceAssumption DEF ControllerOK

LEMMA TwoCallers ==
  /\ Worker \in Callers /\ NodeSyncer \in Callers /\ Worker # NodeSyncer
  /\ \A c \in Callers : c = Worker \/ c = NodeSyncer
BY ServiceAssumption

LEMMA TaskFields ==
  ASSUME ServiceInv, NEW c \in Callers
  PROVE  /\ work = [d \in Callers |-> work[d]] /\ TaskOK(c) /\ work[c] \in Task
         /\ work[c] = [pc |-> work[c].pc, svc |-> work[c].svc,
                       nodes |-> work[c].nodes, group |-> work[c].group]
BY DEF ServiceInv, TasksOK, TaskOK, Task

-----------------------------------------------------------------------------
(* Target groups                                                           *)

LEMMA SameGroups ==
  ASSUME GroupsOK, UNCHANGED <<vars, lb>>
  PROVE  GroupsOK'
<1>1. TypeOK'
  BY TypeNext DEF GroupsOK
<1>2. CallsProgress'
  BY StillProgress DEF GroupsOK, CallsProgress, vars, cloud
<1> QED BY <1>1, <1>2 DEF GroupsOK, HeldGroups, vars, cloud

\* Balancers take and release groups.
LEMMA UsedGroups ==
  ASSUME GroupsOK, BalancersMove, HeldGroups(lb') \subseteq DOMAIN tgs
  PROVE  GroupsOK'
<1> USE DEF BalancersMove
<1>1. TypeOK'
  BY DEF GroupsOK, TypeOK, CloudOK, CallsOK, LockOK, world
<1>2. CallsProgress'
  BY StillProgress DEF GroupsOK, CallsProgress
<1> QED BY <1>1, <1>2 DEF GroupsOK, HeldGroups

LEMMA StartGroups ==
  ASSUME GroupsOK, NEW c \in Callers, NEW N \in SUBSET Nodes, Start(c, N), UNCHANGED lb
  PROVE  GroupsOK' /\ UNCHANGED tgs /\ OthersStay(c) /\ call'[c].pc = "waiting"
<1>1. TypeOK' /\ CallsProgress'
  BY StartType, StartProgress DEF GroupsOK
<1>2. OthersStay(c) /\ call'[c].pc = "waiting"
  BY CallFields DEF GroupsOK, Start, OthersStay, NoCall
<1> QED BY <1>1, <1>2 DEF GroupsOK, HeldGroups, Start, cloud

LEMMA AcquireGroups ==
  ASSUME GroupsOK, NEW c \in Callers, NEW active \in BOOLEAN, Acquire(c, active),
         UNCHANGED lb
  PROVE  /\ GroupsOK' /\ UNCHANGED tgs /\ OthersStay(c) /\ call[c].pc = "waiting"
<1>1. TypeOK' /\ CallsProgress'
  BY AcquireType, AcquireProgress DEF GroupsOK
<1>2. OthersStay(c)
  BY ActsOthersStay DEF GroupsOK, Acts
<1> QED BY <1>1, <1>2 DEF GroupsOK, HeldGroups, Acquire, cloud, At

LEMMA StepGroups ==
  ASSUME GroupsOK, NEW c \in Callers, Step(c), UNCHANGED lb
  PROVE  GroupsOK' /\ OthersStay(c) /\ call[c].pc \in Running
<1>1. TypeOK'
  BY TypeNext DEF GroupsOK, Next
<1>2. CallsProgress'
  BY StepProgress DEF GroupsOK
<1>3. OthersStay(c)
  BY ActsOthersStay DEF GroupsOK, Acts
<1>4. call[c].pc \in Running
  BY DEF Step, Lookup, BuildMapping, GetGroup, CreateTG, AddTGTargets, RemoveTGTargets,
         Recheck, RefuseOperation, Commit, GetTGsByClusterName, RemoveTG, FailRemoveTG,
         SkipRemoveTG, CleanupEnd, At, Running, Syncing, Updating, Cleaning
<1>5. inUse' = inUse
  BY DEF Step, Lookup, BuildMapping, GetGroup, CreateTG, AddTGTargets, RemoveTGTargets,
         Recheck, RefuseOperation, Commit, GetTGsByClusterName, RemoveTG, FailRemoveTG,
         SkipRemoveTG, CleanupEnd, Apply, cloud
<1> QED BY <1>1, <1>2, <1>3, <1>4, <1>5 DEF GroupsOK, HeldGroups

LEMMA FaultGroups ==
  ASSUME GroupsOK, NEW c \in Callers, Fault(c), UNCHANGED lb
  PROVE  /\ GroupsOK' /\ UNCHANGED tgs /\ OthersStay(c) /\ call[c].pc \in Running
<1>1. TypeOK'
  BY TypeNext DEF GroupsOK, Next
<1>2. CallsProgress'
  BY FaultProgress DEF GroupsOK
<1>3. OthersStay(c)
  BY ActsOthersStay DEF GroupsOK, Acts
<1>4. call[c].pc \in Running /\ UNCHANGED <<tgs, inUse>>
  BY DEF Fault, RemoteError, LoseOperation, LoseRemoveTG, Abandon, cloud, At, Running,
         Syncing, Updating, Cleaning
<1> QED BY <1>1, <1>2, <1>3, <1>4 DEF GroupsOK, HeldGroups

LEMMA LandGroups ==
  ASSUME GroupsOK, NEW o \in inflight, Land(o), UNCHANGED lb
  PROVE  GroupsOK'
<1>1. TypeOK' /\ CallsProgress'
  BY EnvironmentType, EnvironmentProgress DEF GroupsOK, Environment
<1> QED BY <1>1 DEF GroupsOK, HeldGroups, Land

LEMMA RestartGroups ==
  ASSUME GroupsOK, Restart, UNCHANGED lb
  PROVE  GroupsOK' /\ UNCHANGED tgs /\ \A c \in Callers : call'[c].pc = "err"
<1>1. TypeOK' /\ CallsProgress'
  BY EnvironmentType, EnvironmentProgress DEF GroupsOK, Environment
<1> QED BY <1>1 DEF GroupsOK, HeldGroups, Restart, NoCall, cloud

-----------------------------------------------------------------------------
(* One caller goes on                                                      *)

OthersWork(c) ==
  /\ work' = [d \in Callers |-> work'[d]]
  /\ \A d \in Callers \ {c} : work'[d] = work[d]

LEMMA WorkExcept ==
  ASSUME ServiceInv, NEW c \in Callers, NEW t, work' = [work EXCEPT ![c] = t]
  PROVE  OthersWork(c) /\ work'[c] = t
BY TaskFields DEF OthersWork

LEMMA GotoFields ==
  ASSUME ServiceInv, NEW c \in Callers, NEW l, Goto(c, l)
  PROVE  /\ OthersWork(c) /\ work'[c].pc = l /\ work'[c].svc = work[c].svc
         /\ work'[c].nodes = work[c].nodes /\ work'[c].group = work[c].group
         /\ (l \in WorkLabels => work'[c] \in Task)
BY TaskFields DEF OthersWork, Goto, Task

LEMMA IdleOK ==
  ASSUME NEW c \in Callers, work'[c] = Idle, call'[c].pc \in Returned
  PROVE  TaskOK(c)'
BY DEF TaskOK, Idle, Task, WorkLabels, Ensuring, Deleting

Unserved(s) == svc[s] = "deleting" \/ (svc[s] = "active" /\ ~lb[s])

\* The others are not disturbed by a step of c.
LEMMA CallerMoves ==
  ASSUME ServiceInv, NEW c \in Callers, OthersWork(c), OthersStay(c), UNCHANGED tgs,
         c = Worker \/ (UNCHANGED svc /\ queued \subseteq queued'),
         OpsOK' \/ UNCHANGED <<svc, lbOps>>,
         GroupsOK', ControllerOK', TaskOK(c)', NothingForgotten'
  PROVE  ServiceInv'
<1>1. ASSUME NEW d \in Callers, d # c PROVE TaskOK(d)'
  <2>1. /\ work'[d] = work[d] /\ call'[d] = call[d] /\ TaskOK(d)
        /\ d = Worker => UNCHANGED svc /\ queued \subseteq queued'
    BY <1>1 DEF OthersWork, OthersStay, ServiceInv, TasksOK
  <2> QED BY <2>1 DEF TaskOK
<1>2. OpsOK'
  BY DEF ServiceInv, OpsOK
<1> QED BY <1>1, <1>2 DEF ServiceInv, TasksOK, OthersWork

LEMMA SameCalls ==
  ASSUME ServiceInv, NEW c \in Callers, UNCHANGED vars
  PROVE  OthersStay(c) /\ UNCHANGED <<tgs, call>> /\ inUse' = inUse
BY CallFields DEF ServiceInv, GroupsOK, OthersStay, vars, cloud

\* What the worker puts back, keeps or has dealt with is not forgotten.
LEMMA Remembered ==
  ASSUME ServiceInv, UNCHANGED <<svc, lb>>, queued \subseteq queued',
         \/ work'[Worker].svc = work[Worker].svc
         \/ work[Worker].svc \in queued'
         \/ work[Worker].svc \notin Services
         \/ ~Unserved(work[Worker].svc)
  PROVE  NothingForgotten'
BY DEF ServiceInv, NothingForgotten, Unserved

\* c goes on with the same service.
LEMMA OnlyWork ==
  ASSUME ServiceInv, NEW c \in Callers, OthersWork(c), OthersStay(c),
         UNCHANGED <<tgs, balancers>>, work'[c].svc = work[c].svc, GroupsOK', TaskOK(c)',
         UNCHANGED <<serviceVars, queued, known, last, pending, fleetVars>>,
         trouble' \in 0 .. MaxTrouble
  PROVE  ServiceInv'
<1>1. ControllerOK'
  BY DEF ServiceInv, ControllerOK, serviceVars, fleetVars, balancers
<1>2. work'[Worker].svc = work[Worker].svc
  BY TwoCallers DEF OthersWork
<1>3. NothingForgotten'
  BY <1>2, Remembered DEF serviceVars, balancers
<1> QED BY <1>1, <1>3, CallerMoves DEF serviceVars, balancers

\* An error: the worker queues the service again, the node syncer looks whether
\* it should.
LEMMA FailedStep ==
  ASSUME ServiceInv, NEW c \in Callers, Failed(c), work[c].pc # "idle",
         call[c].pc \in Returned, trouble' \in 0 .. MaxTrouble,
         OpsOK' \/ UNCHANGED lbOps,
         UNCHANGED <<vars, serviceVars, lb, known, last, pending, fleetVars>>
  PROVE  ServiceInv'
<1>1. /\ OthersStay(c) /\ UNCHANGED <<tgs, call>> /\ GroupsOK'
  BY SameCalls, SameGroups DEF ServiceInv
<1>2. TaskOK(c) /\ work[c].svc \in Services
  BY TaskFields DEF TaskOK
<1>3. CASE c = Worker /\ work' = [work EXCEPT ![c] = Idle]
           /\ queued' = queued \cup {work[c].svc}
  <2>1. OthersWork(c) /\ work'[c] = Idle
    BY <1>3, WorkExcept
  <2>2. TaskOK(c)'
    BY <1>1, <2>1, IdleOK
  <2>3. ControllerOK'
    BY <1>2, <1>3 DEF ServiceInv, ControllerOK, serviceVars, fleetVars
  <2>4. NothingForgotten'
    BY <1>3, Remembered DEF serviceVars
  <2> QED BY <1>1, <1>3, <2>1, <2>2, <2>3, <2>4, CallerMoves DEF serviceVars
<1>4. CASE c = NodeSyncer /\ Goto(c, "check") /\ UNCHANGED queued
  <2>1. /\ OthersWork(c) /\ work'[c] \in Task /\ work'[c].pc = "check"
        /\ work'[c].svc = work[c].svc /\ work'[c].group = work[c].group
    BY <1>4, GotoFields DEF WorkLabels
  <2>2. TaskOK(c)'
    BY <1>1, <1>2, <1>4, <2>1, TwoCallers DEF TaskOK
  <2>3. ControllerOK'
    BY <1>4 DEF ServiceInv, ControllerOK, serviceVars, fleetVars
  <2>4. work'[Worker].svc = work[Worker].svc
    BY <1>4, <2>1, TwoCallers DEF OthersWork
  <2>5. NothingForgotten'
    BY <1>4, <2>4, Remembered DEF serviceVars
  <2> QED BY <1>1, <1>4, <2>1, <2>2, <2>3, <2>5, CallerMoves DEF serviceVars
<1> QED BY <1>3, <1>4 DEF Failed


-----------------------------------------------------------------------------
(* EnsureLoadBalancer, UpdateLoadBalancer                                  *)

\* A caller that is not in SyncTGs goes on with the same service.
LEMMA AdvanceStep ==
  ASSUME ServiceInv, NEW c \in Callers, OthersWork(c), work'[c] \in Task,
         work[c].pc # "idle", call[c].pc \in Returned,
         work'[c].svc = work[c].svc,
         \/ work[c].pc \in Ensuring /\ work'[c].pc \in Ensuring
         \/ work[c].pc \in Deleting /\ work'[c].pc \in Deleting,
         work'[c].group => GroupOf[work[c].svc] \in DOMAIN tgs,
         UNCHANGED <<vars, serviceVars, balancers, queueVars, fleetVars, trouble>>
  PROVE  ServiceInv'
<1>1. /\ OthersStay(c) /\ UNCHANGED <<tgs, call>> /\ GroupsOK'
  BY SameCalls, SameGroups DEF ServiceInv, balancers
<1>2. TaskOK(c)
  BY TaskFields
<1>3. TaskOK(c)'
  BY <1>1, <1>2, TwoCallers DEF TaskOK, Ensuring, Deleting, serviceVars, queueVars
<1> QED BY <1>1, <1>3, OnlyWork DEF queueVars, ServiceInv, ControllerOK

LEMMA SyncedStep ==
  ASSUME ServiceInv, NEW c \in Callers, Synced(c)
  PROVE  ServiceInv'
<1>1. CASE Failed(c)
  BY <1>1, FailedStep DEF Synced, IsAt, ServiceInv, ControllerOK, balancers
<1>2. CASE /\ work' = [work EXCEPT ![c].pc = "lookup", ![c].nodes = {}]
           /\ UNCHANGED queued
  <2>1. OthersWork(c) /\ work'[c] = [work[c] EXCEPT !.pc = "lookup", !.nodes = {}]
    BY <1>2, TaskFields DEF OthersWork
  <2>2. /\ work'[c] \in Task /\ work'[c].pc = "lookup" /\ work'[c].svc = work[c].svc
        /\ work'[c].group = work[c].group /\ work[c].pc = "sync"
    BY <2>1, TaskFields DEF Task, WorkLabels, Synced, IsAt
  <2>3. work'[c].group => GroupOf[work[c].svc] \in DOMAIN tgs
    BY <2>2, TaskFields DEF TaskOK
  <2> QED BY <1>2, <2>1, <2>2, <2>3, AdvanceStep DEF Synced, Ensuring, queueVars
<1> QED BY <1>1, <1>2 DEF Synced

LEMMA FindGroupStep ==
  ASSUME ServiceInv, NEW c \in Callers, FindGroup(c)
  PROVE  ServiceInv'
<1>1. call[c].pc \in Returned /\ work[c].pc = "lookup"
  BY TaskFields DEF FindGroup, IsAt, TaskOK
<1>2. CASE Failed(c)
  BY <1>1, <1>2, FailedStep DEF FindGroup, IsAt, ServiceInv, ControllerOK, balancers
<1>3. CASE /\ GroupOf[work[c].svc] \in DOMAIN tgs
           /\ work' = [work EXCEPT ![c].pc = "balancer", ![c].group = TRUE]
           /\ UNCHANGED queued
  <2>1. OthersWork(c) /\ work'[c] = [work[c] EXCEPT !.pc = "balancer", !.group = TRUE]
    BY <1>3, TaskFields DEF OthersWork
  <2>2. work'[c] \in Task /\ work'[c].pc = "balancer" /\ work'[c].svc = work[c].svc
    BY <2>1, TaskFields DEF Task, WorkLabels
  <2> QED BY <1>1, <1>3, <2>1, <2>2, AdvanceStep DEF FindGroup, Ensuring, queueVars
<1> QED BY <1>2, <1>3 DEF FindGroup

LEMMA FindBalancerStep ==
  ASSUME ServiceInv, NEW c \in Callers, FindBalancer(c)
  PROVE  ServiceInv'
<1>1. /\ call[c].pc \in Returned /\ work[c].pc = "balancer" /\ TaskOK(c)
      /\ OthersStay(c) /\ UNCHANGED <<tgs, call>> /\ GroupsOK'
  BY TaskFields, SameCalls, SameGroups
  DEF FindBalancer, IsAt, TaskOK, ServiceInv, balancers
<1>2. CASE lb[work[c].svc] /\ Done(c)
  <2>1. OthersWork(c) /\ work'[c] = Idle
    BY <1>2, WorkExcept DEF Done
  <2>2. TaskOK(c)'
    BY <1>1, <2>1, IdleOK
  <2>3. ControllerOK'
    BY <1>2
    DEF FindBalancer, Done, ServiceInv, ControllerOK, serviceVars, fleetVars, balancers
  <2>4. CASE c = Worker
    <3>1. work[c].svc \in queued' \/ ~Unserved(work[c].svc)
      BY <1>1, <1>2, <2>4 DEF TaskOK, Ensuring, Unserved, Done
    <3>2. NothingForgotten'
      BY <1>2, <2>4, <3>1, Remembered DEF FindBalancer, Done, serviceVars, balancers
    <3> QED BY <1>1, <2>1, <2>2, <2>3, <2>4, <3>2, CallerMoves
            DEF FindBalancer, serviceVars, balancers
  <2>5. CASE c # Worker
    <3>1. work'[Worker].svc = work[Worker].svc
      BY <2>1, <2>5, TwoCallers DEF OthersWork
    <3>2. NothingForgotten'
      BY <1>2, <3>1, Remembered DEF FindBalancer, Done, serviceVars, balancers
    <3> QED BY <1>1, <1>2, <2>1, <2>2, <2>3, <3>2, CallerMoves
            DEF FindBalancer, Done, serviceVars, balancers
  <2> QED BY <2>4, <2>5
<1>3. CASE Goto(c, "create") /\ UNCHANGED queued
  <2>1. /\ OthersWork(c) /\ work'[c] \in Task /\ work'[c].pc = "create"
        /\ work'[c].svc = work[c].svc /\ work'[c].group = work[c].group
    BY <1>3, GotoFields DEF WorkLabels
  <2>2. work'[c].group => GroupOf[work[c].svc] \in DOMAIN tgs
    BY <1>1, <2>1 DEF TaskOK
  <2> QED BY <1>1, <1>3, <2>1, <2>2, AdvanceStep DEF FindBalancer, Ensuring, queueVars
<1> QED BY <1>2, <1>3 DEF FindBalancer

\* The new balancer takes a group that is there.
LEMMA CreateBalancerStep ==
  ASSUME ServiceInv, NEW c \in Callers, CreateBalancer(c)
  PROVE  ServiceInv'
<1> DEFINE s == work[c].svc
<1>1. /\ call[c].pc \in Returned /\ work[c].pc = "create" /\ TaskOK(c) /\ s \in Services
      /\ lb \in [Services -> BOOLEAN] /\ UNCHANGED <<lbOps, serviceVars>>
  BY TaskFields DEF CreateBalancer, IsAt, TaskOK, ServiceInv, ControllerOK
<1>2. CASE Failed(c) /\ UNCHANGED <<vars, lb>>
  BY <1>1, <1>2, FailedStep DEF CreateBalancer, ServiceInv, ControllerOK
<1>3. CASE /\ Asked(c) # {}
           /\ lb' = [lb EXCEPT ![s] = TRUE] /\ BalancersMove
           /\ Done(c)
  <2>1. OthersWork(c) /\ work'[c] = Idle
    BY <1>3, WorkExcept DEF Done
  <2>2. UNCHANGED <<tgs, call>> /\ OthersStay(c)
    BY <1>3, CallFields DEF BalancersMove, ServiceInv, GroupsOK, OthersStay
  <2>3. TaskOK(c)'
    BY <1>1, <2>1, <2>2, IdleOK
  <2>4. HeldGroups(lb') \subseteq DOMAIN tgs
    <3>1. HeldGroups(lb) \subseteq DOMAIN tgs
      BY DEF ServiceInv, GroupsOK, TypeOK, CloudOK
    <3>2. GroupOf[s] \in DOMAIN tgs
      BY <1>1, <1>3 DEF TaskOK, Asked, IsAt
    <3>3. \A t \in Services : lb'[t] => t = s \/ lb[t]
      BY <1>1, <1>3
    <3> QED BY <3>1, <3>2, <3>3 DEF HeldGroups
  <2>5. GroupsOK'
    BY <1>3, <2>4, UsedGroups DEF ServiceInv
  <2>6. ControllerOK'
    BY <1>1, <1>3
    DEF CreateBalancer, Done, ServiceInv, ControllerOK, serviceVars, fleetVars
  <2>7. lb'[s] /\ \A t \in Services : lb[t] => lb'[t]
    BY <1>1, <1>3
  <2>8. NothingForgotten'
    <3> SUFFICES ASSUME NEW t \in Services, Unserved(t)'
                 PROVE  t \in queued' \/ work'[Worker].svc = t
      BY DEF NothingForgotten, Unserved
    <3>1. Unserved(t) /\ (t \in queued \/ work[Worker].svc = t)
      BY <1>1, <2>7 DEF Unserved, ServiceInv, NothingForgotten, serviceVars
    <3>2. ASSUME c = Worker, t = s PROVE t \in queued
      BY <1>1, <2>7, <3>2 DEF TaskOK, Ensuring, Unserved, serviceVars
    <3> QED BY <1>3, <2>1, <3>1, <3>2, TwoCallers DEF Done, OthersWork
  <2> QED BY <1>1, <1>3, <2>1, <2>2, <2>3, <2>5, <2>6, <2>8, CallerMoves
          DEF Done, serviceVars
<1> QED BY <1>2, <1>3 DEF CreateBalancer


-----------------------------------------------------------------------------
(* GetLoadBalancer, EnsureLoadBalancerDeleted                              *)

\* Only the worker deletes.
LEMMA WorkerDeletes ==
  ASSUME ServiceInv, NEW c \in Callers, work[c].pc \in Deleting
  PROVE  /\ c = Worker /\ work[c].svc \in Services /\ svc[work[c].svc] = "deleting"
         /\ work[c].pc # "idle" /\ work[c].pc \notin Ensuring
         /\ work[c].pc # "cleanup" => call[c].pc \in Returned
BY TaskFields, TwoCallers DEF TaskOK, Deleting, Ensuring

LEMMA CheckBalancerStep ==
  ASSUME ServiceInv, NEW c \in Callers, CheckBalancer(c)
  PROVE  ServiceInv'
<1>1. work[c].pc = "exists" /\ call[c].pc \in Returned /\ TaskOK(c)
  BY WorkerDeletes, TaskFields DEF CheckBalancer, IsAt, Deleting
<1>2. PICK l \in {"remove", "finalize"} : Goto(c, l)
  BY DEF CheckBalancer
<1>3. /\ OthersWork(c) /\ work'[c] \in Task /\ work'[c].pc = l
      /\ work'[c].svc = work[c].svc /\ work'[c].group = work[c].group
  BY <1>2, GotoFields DEF WorkLabels
<1>4. work'[c].group => GroupOf[work[c].svc] \in DOMAIN tgs
  BY <1>1, <1>3 DEF TaskOK
<1> QED BY <1>1, <1>3, <1>4, AdvanceStep DEF CheckBalancer, Deleting

\* The balancer lets its group go.
LEMMA RemoveBalancerStep ==
  ASSUME ServiceInv, NEW c \in Callers, RemoveBalancer(c)
  PROVE  ServiceInv'
<1> DEFINE s == work[c].svc
<1>1. /\ work[c].pc = "remove" /\ call[c].pc \in Returned /\ TaskOK(c) /\ s \in Services
      /\ c = Worker /\ svc[s] = "deleting"
  BY WorkerDeletes, TaskFields DEF RemoveBalancer, IsAt, Deleting
<1>2. /\ lb' = [lb EXCEPT ![s] = FALSE] /\ Goto(c, "sweep")
      /\ BalancersMove /\ UNCHANGED <<tgs, call>> /\ lbOps' \subseteq lbOps
      /\ UNCHANGED <<serviceVars, queueVars, fleetVars, trouble>>
      /\ lb \in [Services -> BOOLEAN]
  BY DEF RemoveBalancer, BalancersMove, ServiceInv, ControllerOK
<1>3. /\ OthersWork(c) /\ work'[c] \in Task /\ work'[c].pc = "sweep"
      /\ work'[c].svc = s /\ work'[c].group = work[c].group
  BY <1>2, GotoFields DEF WorkLabels
<1>4. OthersStay(c)
  BY <1>2, CallFields DEF ServiceInv, GroupsOK, OthersStay
<1>5. TaskOK(c)'
  BY <1>1, <1>2, <1>3, TwoCallers DEF TaskOK, Ensuring, Deleting, serviceVars
<1>6. GroupsOK'
  <2>1. HeldGroups(lb) \subseteq DOMAIN tgs
    BY DEF ServiceInv, GroupsOK, TypeOK, CloudOK
  <2>2. \A t \in Services : lb'[t] => lb[t]
    BY <1>2
  <2>3. HeldGroups(lb') \subseteq DOMAIN tgs
    BY <1>2, <2>1, <2>2 DEF HeldGroups
  <2> QED BY <1>2, <2>3, UsedGroups DEF ServiceInv
<1>7. ControllerOK'
  BY <1>1, <1>2 DEF ServiceInv, ControllerOK, serviceVars, queueVars, fleetVars
<1>8. NothingForgotten'
  <2> SUFFICES ASSUME NEW t \in Services, Unserved(t)', t # s
               PROVE  t \in queued'
    BY <1>1, <1>3 DEF NothingForgotten, Unserved
  <2>1. lb'[t] = lb[t] /\ svc' = svc /\ queued' = queued
    BY <1>2 DEF serviceVars, queueVars
  <2> QED BY <1>1, <2>1 DEF Unserved, ServiceInv, NothingForgotten
<1>9. OpsOK'
  BY <1>2 DEF ServiceInv, OpsOK, serviceVars
<1> QED BY <1>1, <1>2, <1>3, <1>4, <1>5, <1>6, <1>7, <1>8, <1>9, CallerMoves

LEMMA BeginCleanupStep ==
  ASSUME ServiceInv, NEW c \in Callers, BeginCleanup(c)
  PROVE  ServiceInv'
<1>1. work[c].pc = "sweep" /\ TaskOK(c)
  BY TaskFields DEF BeginCleanup, IsAt
<1>2. GroupsOK' /\ UNCHANGED tgs /\ OthersStay(c)
  BY StartGroups DEF BeginCleanup, ServiceInv, balancers
<1>3. /\ OthersWork(c) /\ work'[c] \in Task /\ work'[c].pc = "cleanup"
      /\ work'[c].svc = work[c].svc /\ work'[c].group = work[c].group
  BY GotoFields DEF BeginCleanup, WorkLabels
<1>4. TaskOK(c)'
  BY <1>1, <1>2, <1>3, TwoCallers
  DEF TaskOK, Ensuring, Deleting, BeginCleanup, serviceVars
<1> QED BY <1>2, <1>3, <1>4, OnlyWork
        DEF BeginCleanup, queueVars, ServiceInv, ControllerOK

LEMMA CleanupReturnedStep ==
  ASSUME ServiceInv, NEW c \in Callers, CleanupReturned(c)
  PROVE  ServiceInv'
<1>1. work[c].pc = "cleanup" /\ call[c].pc \in Returned /\ TaskOK(c)
  BY TaskFields DEF CleanupReturned, IsAt
<1>2. CASE Failed(c)
  BY <1>1, <1>2, FailedStep DEF CleanupReturned, ServiceInv, ControllerOK, balancers
<1>3. CASE Goto(c, "finalize") /\ UNCHANGED queued
  <2>1. /\ OthersWork(c) /\ work'[c] \in Task /\ work'[c].pc = "finalize"
        /\ work'[c].svc = work[c].svc /\ work'[c].group = work[c].group
    BY <1>3, GotoFields DEF WorkLabels
  <2>2. work'[c].group => GroupOf[work[c].svc] \in DOMAIN tgs
    BY <1>1, <2>1 DEF TaskOK
  <2> QED BY <1>1, <1>3, <2>1, <2>2, AdvanceStep DEF CleanupReturned, Deleting, queueVars
<1> QED BY <1>2, <1>3 DEF CleanupReturned

LEMMA FinalizeStep ==
  ASSUME ServiceInv, NEW c \in Callers, Finalize(c)
  PROVE  ServiceInv'
<1> DEFINE s == work[c].svc
<1>1. call[c].pc \in Returned /\ c = Worker /\ s \in Services
  BY WorkerDeletes DEF Finalize, IsAt, Deleting
<1>2. /\ OthersStay(c) /\ UNCHANGED <<tgs, call>> /\ GroupsOK'
  BY SameCalls, SameGroups DEF Finalize, ServiceInv, balancers
<1>3. OthersWork(c) /\ work'[c] = Idle
  BY WorkExcept DEF Finalize, Done
<1>4. TaskOK(c)'
  BY <1>1, <1>2, <1>3, IdleOK
<1>5. ControllerOK'
  BY <1>1 DEF Finalize, Done, ServiceInv, ControllerOK, fleetVars, balancers
<1>6. NothingForgotten'
  <2>1. svc \in [Services -> {"absent", "active", "deleting", "gone"}]
    BY DEF ServiceInv, ControllerOK
  <2> SUFFICES ASSUME NEW t \in Services, Unserved(t)' PROVE t \in queued'
    BY DEF NothingForgotten, Unserved
  <2>2. t # s /\ svc'[t] = svc[t]
    BY <1>1, <2>1 DEF Unserved, Finalize
  <2> QED BY <1>1, <2>2 DEF Unserved, Finalize, Done, balancers, ServiceInv, NothingForgotten
<1>7. OpsOK'
  BY <1>1, <1>2 DEF Finalize, balancers, ServiceInv, OpsOK, ControllerOK
<1> QED BY <1>1, <1>2, <1>3, <1>4, <1>5, <1>6, <1>7, CallerMoves


-----------------------------------------------------------------------------
(* The worker's queue and the node syncer                                  *)

LEMMA BeginFields ==
  ASSUME ServiceInv, NEW c \in Callers, NEW l \in WorkLabels, NEW s \in Services,
         NEW N \in SUBSET Nodes, Begin(c, l, s, N)
  PROVE  /\ OthersWork(c) /\ work'[c] \in Task /\ work'[c].pc = l /\ work'[c].svc = s
         /\ work'[c].nodes = N /\ work'[c].group = FALSE
<1>1. OthersWork(c) /\ work'[c] = [Idle EXCEPT !.pc = l, !.svc = s, !.nodes = N]
  BY WorkExcept DEF Begin
<1> QED BY <1>1 DEF Idle, Task

\* The service that the worker takes from the queue is in its hands.
LEMMA PickServiceStep ==
  ASSUME ServiceInv, NEW s \in Services, PickService(s)
  PROVE  ServiceInv'
<1> DEFINE c == Worker
<1>1. /\ c \in Callers /\ TaskOK(c) /\ work[c] = Idle /\ call[c].pc \in Returned
      /\ queued' = queued \ {s} /\ Worker # NodeSyncer
  BY TwoCallers, TaskFields DEF PickService, IsAt, TaskOK
<1>2. ready \in SUBSET Nodes
  BY ReadyNodes DEF ServiceInv
<1>3. ASSUME UNCHANGED svc, UNCHANGED lb, work'[c].svc = s \/ svc[s] = "gone"
      PROVE  NothingForgotten'
  <2> SUFFICES ASSUME NEW t \in Services, Unserved(t)'
               PROVE  t \in queued' \/ work'[c].svc = t
    BY DEF NothingForgotten, Unserved
  <2>1. Unserved(t)
    BY <1>3 DEF Unserved
  <2>2. work[c].svc = NoService /\ NoService # t
    BY <1>1, ServiceAssumption DEF Idle
  <2> QED BY <1>1, <1>3, <2>1, <2>2 DEF Unserved, ServiceInv, NothingForgotten
<1>4. CASE PickActive(s) /\ known' = known \cup {s}
  <2>1. GroupsOK' /\ UNCHANGED tgs /\ OthersStay(c) /\ call'[c].pc = "waiting"
    BY <1>1, <1>2, <1>4, StartGroups DEF PickActive, PickService, ServiceInv, balancers
  <2>2. /\ OthersWork(c) /\ work'[c] \in Task /\ work'[c].pc = "sync"
        /\ work'[c].svc = s /\ work'[c].group = FALSE
    BY <1>1, <1>2, <1>4, BeginFields DEF PickActive, WorkLabels
  <2>3. TaskOK(c)'
    BY <1>1, <1>4, <2>2 DEF TaskOK, Ensuring, Deleting, PickActive, PickService, serviceVars
  <2>4. ControllerOK'
    BY <1>1, <1>2, <1>4
    DEF ServiceInv, ControllerOK, PickActive, PickService, serviceVars, fleetVars, balancers
  <2>5. NothingForgotten'
    BY <1>3, <2>2 DEF PickService, serviceVars, balancers
  <2> QED BY <1>1, <2>1, <2>2, <2>3, <2>4, <2>5, CallerMoves
          DEF PickService, serviceVars, balancers
<1>5. CASE PickDeleting(s) /\ known' = known \cup {s}
  <2>1. GroupsOK' /\ UNCHANGED <<tgs, call>> /\ OthersStay(c)
    BY <1>1, <1>5, SameCalls, SameGroups DEF PickDeleting, PickService, ServiceInv, balancers
  <2>2. /\ OthersWork(c) /\ work'[c] \in Task /\ work'[c].pc = "exists"
        /\ work'[c].svc = s /\ work'[c].group = FALSE
    <3>1. Begin(c, "exists", s, {}) /\ "exists" \in WorkLabels /\ {} \in SUBSET Nodes
      BY <1>5 DEF PickDeleting, WorkLabels
    <3> QED BY <1>1, <3>1, BeginFields
  <2>3. TaskOK(c)'
    BY <1>1, <1>5, <2>1, <2>2
    DEF TaskOK, Ensuring, Deleting, PickDeleting, PickService, serviceVars
  <2>4. ControllerOK'
    BY <1>1, <1>5
    DEF ServiceInv, ControllerOK, PickDeleting, PickService, serviceVars, fleetVars, balancers
  <2>5. NothingForgotten'
    BY <1>3, <2>2 DEF PickService, serviceVars, balancers
  <2> QED BY <1>1, <2>1, <2>2, <2>3, <2>4, <2>5, CallerMoves
          DEF PickService, serviceVars, balancers
<1>6. CASE PickGone(s)
  <2>1. GroupsOK' /\ UNCHANGED <<tgs, call>> /\ OthersStay(c)
    BY <1>1, <1>6, SameCalls, SameGroups DEF PickGone, PickService, ServiceInv, balancers
  <2>2. OthersWork(c) /\ work'[c] = Idle
    BY <1>1, <1>6, TaskFields DEF PickGone, OthersWork
  <2>3. TaskOK(c)'
    BY <1>1, <2>1, <2>2, IdleOK
  <2>4. ControllerOK'
    BY <1>1, <1>6
    DEF ServiceInv, ControllerOK, PickGone, PickService, serviceVars, fleetVars, balancers
  <2>5. NothingForgotten'
    BY <1>3, <1>6 DEF PickGone, PickService, serviceVars, balancers
  <2> QED BY <1>1, <2>1, <2>2, <2>3, <2>4, <2>5, CallerMoves
          DEF PickService, serviceVars, balancers
<1> QED BY <1>4, <1>5, <1>6 DEF PickService

\* A step of the informers, the nodes or the node syncer's list.
LEMMA NobodyMoves ==
  ASSUME ServiceInv, UNCHANGED <<vars, balancers, svc, queued, work>>, ControllerOK'
  PROVE  ServiceInv'
<1>1. Worker \in Callers /\ TaskOK(Worker)
  BY TwoCallers, TaskFields
<1>2. /\ OthersStay(Worker) /\ UNCHANGED <<tgs, call>> /\ GroupsOK'
  BY <1>1, SameCalls, SameGroups DEF ServiceInv, balancers
<1>3. OthersWork(Worker)
  BY <1>1, TaskFields DEF OthersWork
<1>4. TaskOK(Worker)'
  BY <1>1, <1>2 DEF TaskOK
<1>5. NothingForgotten'
  BY DEF ServiceInv, NothingForgotten, balancers
<1> QED BY <1>1, <1>2, <1>3, <1>4, <1>5, CallerMoves DEF balancers

LEMMA NodeStepOK ==
  ASSUME ServiceInv, NodeStep
  PROVE  ServiceInv'
<1> DEFINE c == NodeSyncer
<1>1. c \in Callers /\ Worker \in Callers /\ c # Worker /\ TaskOK(c)
  BY TwoCallers, TaskFields
<1>2. CASE NodeRound
  BY <1>2, NobodyMoves DEF NodeRound, ServiceInv, ControllerOK, serviceVars, balancers
<1>3. CASE CheckUpdated
  <2>1. GroupsOK' /\ UNCHANGED <<tgs, call>> /\ OthersStay(c)
    BY <1>1, <1>3, SameCalls, SameGroups DEF CheckUpdated, ServiceInv, balancers
  <2>2. OthersWork(c) /\ work'[c] = Idle
    BY <1>1, <1>3, WorkExcept DEF CheckUpdated
  <2>3. work[c].svc \in Services /\ call[c].pc \in Returned
    BY <1>1, <1>3 DEF CheckUpdated, IsAt, TaskOK
  <2>4. TaskOK(c)'
    BY <1>1, <2>1, <2>2, <2>3, IdleOK
  <2>5. ControllerOK' /\ UNCHANGED <<svc, balancers>> /\ queued \subseteq queued'
    BY <1>3, <2>3 DEF CheckUpdated, ServiceInv, ControllerOK, serviceVars, fleetVars,
                           balancers
  <2>6. NothingForgotten'
    BY <1>1, <2>2, <2>5, Remembered DEF OthersWork, balancers
  <2> QED BY <1>1, <2>1, <2>2, <2>4, <2>5, <2>6, CallerMoves DEF balancers
<1>4. ASSUME NEW s \in Services, VisitService(s) PROVE ServiceInv'
  <2>1. ready \in SUBSET Nodes
    BY ReadyNodes DEF ServiceInv
  <2>2. ControllerOK' /\ UNCHANGED <<svc, balancers, queued>>
    BY <1>4, <2>1 DEF VisitService, ServiceInv, ControllerOK, serviceVars, fleetVars,
                           balancers
  <2>3. CASE UNCHANGED <<vars, work>>
    BY <2>2, <2>3, NobodyMoves
  <2>4. CASE Begin(c, "sync", s, ready) /\ Start(c, ready)
    <3>1. GroupsOK' /\ UNCHANGED tgs /\ OthersStay(c) /\ call'[c].pc = "waiting"
      BY <1>1, <2>1, <2>2, <2>4, StartGroups DEF ServiceInv, balancers
    <3>2. /\ OthersWork(c) /\ work'[c] \in Task /\ work'[c].pc = "sync"
          /\ work'[c].svc = s /\ work'[c].group = FALSE
      <4>1. Begin(c, "sync", s, ready) /\ "sync" \in WorkLabels
        BY <2>4 DEF WorkLabels
      <4> QED BY <1>1, <2>1, <4>1, BeginFields
    <3>3. TaskOK(c)'
      BY <1>1, <2>1, <3>2 DEF TaskOK, Ensuring, Deleting
    <3>4. NothingForgotten'
      BY <1>1, <2>2, <3>2, Remembered DEF OthersWork, balancers
    <3> QED BY <1>1, <2>2, <3>1, <3>2, <3>3, <3>4, CallerMoves DEF balancers
  <2> QED BY <1>4, <2>3, <2>4 DEF VisitService
<1> QED BY <1>2, <1>3, <1>4 DEF NodeStep


-----------------------------------------------------------------------------
(* SyncTGs, what goes wrong, and the cluster                               *)

\* Groups that are deleted are forgotten: that of a lookup, of a creation.
LEMMA ForgetStep ==
  ASSUME ServiceInv, GroupsOK', Forget,
         \A d \in Callers : call'[d].pc \notin Returned => call[d].pc \notin Returned,
         UNCHANGED <<serviceVars, lb, queueVars, fleetVars, trouble>>
  PROVE  ServiceInv'
<1>1. ASSUME NEW d \in Callers
      PROVE  /\ work'[d] \in Task /\ work'[d].pc = work[d].pc /\ work'[d].svc = work[d].svc
             /\ work'[d].nodes = work[d].nodes
             /\ work'[d].group => work[d].group /\ GroupOf[work[d].svc] \in DOMAIN tgs'
             /\ ~work[d].group => ~work'[d].group
  <2> DEFINE there == GroupOf[work[d].svc] \in DOMAIN tgs'
  <2>1. work'[d] = [work[d] EXCEPT !.group = work[d].group /\ there]
    BY DEF Forget
  <2>2. (work[d].group /\ there) \in BOOLEAN
    OBVIOUS
  <2> HIDE DEF there
  <2>3. /\ work'[d] \in Task /\ work'[d].pc = work[d].pc /\ work'[d].svc = work[d].svc
        /\ work'[d].nodes = work[d].nodes /\ work'[d].group = (work[d].group /\ there)
    BY <2>1, <2>2, TaskFields DEF Task
  <2> QED BY <2>3 DEF there
<1>2. ASSUME NEW d \in Callers PROVE TaskOK(d)'
  <2>1. TaskOK(d)
    BY TaskFields
  <2>2. work'[d].pc = "idle" => work'[d] = Idle
    <3> SUFFICES ASSUME work'[d].pc = "idle" PROVE work'[d] = Idle
      OBVIOUS
    <3>1. work[d] = Idle
      BY <1>1, <2>1 DEF TaskOK
    <3>2. work'[d].group = FALSE
      BY <1>1, <3>1 DEF Idle, Task
    <3>3. /\ work'[d].pc = "idle" /\ work'[d].svc = NoService /\ work'[d].nodes = {}
      BY <1>1, <3>1 DEF Idle
    <3>4. work'[d] = [pc |-> work'[d].pc, svc |-> work'[d].svc,
                      nodes |-> work'[d].nodes, group |-> work'[d].group]
      BY <1>1 DEF Task
    <3> QED BY <3>2, <3>3, <3>4, Zenon DEF Idle
  <2> QED BY <1>1, <2>1, <2>2 DEF TaskOK, serviceVars, queueVars
<1>3. TasksOK'
  BY <1>2 DEF TasksOK, Forget
<1>4. ControllerOK'
  BY DEF ServiceInv, ControllerOK, serviceVars, queueVars, fleetVars
<1>5. NothingForgotten'
  BY <1>1, TwoCallers DEF ServiceInv, NothingForgotten, serviceVars, queueVars
<1>6. OpsOK'
  <2>1. lbOps' \subseteq lbOps
    BY DEF Forget
  <2>2. ASSUME NEW s \in Services, CreateOf(s) \in lbOps' PROVE GroupOf[s] \in DOMAIN tgs'
    BY <2>2 DEF Forget, CreateOf
  <2> QED BY <2>1, <2>2 DEF ServiceInv, OpsOK, serviceVars
<1> QED BY <1>3, <1>4, <1>5, <1>6 DEF ServiceInv

LEMMA CallStepOK ==
  ASSUME ServiceInv, NEW c \in Callers, CallStep(c)
  PROVE  ServiceInv'
<1>1. GroupsOK' /\ OthersStay(c) /\ call[c].pc \in Running
  BY StepGroups DEF CallStep, ServiceInv
<1>2. \A d \in Callers : call'[d].pc \notin Returned => call[d].pc \notin Returned
  BY <1>1 DEF OthersStay, Returned, Running, Syncing, Updating, Cleaning
<1> QED BY <1>1, <1>2, ForgetStep DEF CallStep

LEMMA LandGroupStep ==
  ASSUME ServiceInv, NEW o \in inflight, LandGroup(o)
  PROVE  ServiceInv'
<1>1. GroupsOK' /\ UNCHANGED call
  BY LandGroups DEF LandGroup, Land, ServiceInv
<1> QED BY <1>1, ForgetStep DEF LandGroup

LEMMA OpMeans ==
  ASSUME OpsOK, NEW o \in lbOps
  PROVE  \E s \in Services :
           /\ o.svc = s
           /\ \/ o.op = "create" /\ GroupOf[s] \in DOMAIN tgs
              \/ o.op = "delete" /\ svc[s] \in {"deleting", "gone"}
<1>1. PICK s \in Services : o = CreateOf(s) \/ o = DeleteOf(s)
  BY DEF OpsOK
<1>2. CASE o = CreateOf(s)
  <2>1. GroupOf[s] \in DOMAIN tgs
    BY <1>2 DEF OpsOK
  <2> QED BY <1>2, <2>1 DEF CreateOf
<1>3. CASE o = DeleteOf(s)
  <2>1. svc[s] \in {"deleting", "gone"}
    BY <1>3 DEF OpsOK
  <2> QED BY <1>3, <2>1 DEF DeleteOf
<1> QED BY <1>1, <1>2, <1>3

\* A balancer that comes late has its group; one that goes late was to go.
LEMMA LandBalancerStep ==
  ASSUME ServiceInv, NEW o \in lbOps, LandBalancer(o)
  PROVE  ServiceInv'
<1>1. PICK s \in Services :
        /\ o.svc = s
        /\ \/ o.op = "create" /\ GroupOf[s] \in DOMAIN tgs
           \/ o.op = "delete" /\ svc[s] \in {"deleting", "gone"}
  BY OpMeans DEF ServiceInv
<1>2. /\ lb \in [Services -> BOOLEAN] /\ lbOps' \subseteq lbOps
      /\ UNCHANGED <<tgs, call, serviceVars, queueVars, fleetVars, work, trouble>>
  BY DEF LandBalancer, BalancersMove, ServiceInv, ControllerOK
<1>3. lb' = lb \/ lb' = [lb EXCEPT ![s] = (o.op = "create")]
  BY <1>1 DEF LandBalancer
<1>4. /\ lb' \in [Services -> BOOLEAN]
      /\ \A t \in Services : t # s => lb'[t] = lb[t]
      /\ o.op = "create" => (lb[s] => lb'[s])
  BY <1>2, <1>3
<1>5. GroupsOK'
  <2>1. HeldGroups(lb) \subseteq DOMAIN tgs
    BY DEF ServiceInv, GroupsOK, TypeOK, CloudOK
  <2>2. lb'[s] => lb[s] \/ GroupOf[s] \in DOMAIN tgs
    BY <1>1, <1>2, <1>3
  <2>3. HeldGroups(lb') \subseteq DOMAIN tgs
    BY <1>4, <2>1, <2>2 DEF HeldGroups
  <2> QED BY <2>3, UsedGroups DEF LandBalancer, ServiceInv
<1>6. TasksOK'
  BY <1>2 DEF ServiceInv, TasksOK, TaskOK, serviceVars, queueVars
<1>7. ControllerOK'
  BY <1>2, <1>4 DEF ServiceInv, ControllerOK, serviceVars, queueVars, fleetVars
<1>8. OpsOK'
  BY <1>2 DEF ServiceInv, OpsOK, serviceVars
<1>9. NothingForgotten'
  <2> SUFFICES ASSUME NEW t \in Services, Unserved(t)'
               PROVE  t \in queued \/ work[Worker].svc = t
    BY <1>2 DEF NothingForgotten, Unserved, queueVars
  <2>1. Unserved(t)
    BY <1>1, <1>2, <1>4 DEF Unserved, serviceVars
  <2> QED BY <2>1 DEF Unserved, ServiceInv, NothingForgotten
<1> QED BY <1>5, <1>6, <1>7, <1>8, <1>9 DEF ServiceInv

\* What the API accepts is as OpsOK has it.
LEMMA OpsLeft ==
  ASSUME ServiceInv, NEW left \in SUBSET UNION {Asked(c) : c \in Callers},
         lbOps' = lbOps \cup left, UNCHANGED <<tgs, svc>>
  PROVE  OpsOK'
<1>1. ASSUME NEW o \in left
      PROVE  \E s \in Services :
               \/ o = CreateOf(s) /\ GroupOf[s] \in DOMAIN tgs
               \/ o = DeleteOf(s) /\ svc[s] = "deleting"
  <2>1. PICK c \in Callers : o \in Asked(c)
    OBVIOUS
  <2>2. TaskOK(c)
    BY TaskFields
  <2>3. CASE IsAt(c, "create") /\ work[c].group /\ o = CreateOf(work[c].svc)
    BY <2>2, <2>3 DEF IsAt, TaskOK
  <2>4. CASE IsAt(c, "remove") /\ o = DeleteOf(work[c].svc)
    BY <2>4, WorkerDeletes DEF IsAt, Deleting
  <2> QED BY <2>1, <2>3, <2>4 DEF Asked
<1>2. \A s, t \in Services :
        /\ CreateOf(s) = CreateOf(t) => s = t
        /\ DeleteOf(s) = DeleteOf(t) => s = t
        /\ CreateOf(s) # DeleteOf(t)
  BY DEF CreateOf, DeleteOf
<1>3. lbOps' \subseteq {CreateOf(s) : s \in Services} \cup {DeleteOf(s) : s \in Services}
  BY <1>1 DEF ServiceInv, OpsOK
<1>4. ASSUME NEW s \in Services, CreateOf(s) \in lbOps' PROVE GroupOf[s] \in DOMAIN tgs'
  <2>1. CASE CreateOf(s) \in lbOps
    BY <2>1 DEF ServiceInv, OpsOK
  <2>2. CASE CreateOf(s) \in left
    BY <1>1, <1>2, <2>2
  <2> QED BY <1>4, <2>1, <2>2
<1>5. ASSUME NEW s \in Services, DeleteOf(s) \in lbOps'
      PROVE  svc'[s] \in {"deleting", "gone"}
  <2>1. CASE DeleteOf(s) \in lbOps
    BY <2>1 DEF ServiceInv, OpsOK
  <2>2. CASE DeleteOf(s) \in left
    BY <1>1, <1>2, <2>2
  <2> QED BY <1>5, <2>1, <2>2
<1> QED BY <1>3, <1>4, <1>5 DEF OpsOK

\* A step of a SyncTGs call that its caller takes no notice of.
LEMMA UnnoticedStep ==
  ASSUME ServiceInv, NEW c \in Callers, GroupsOK', OthersStay(c),
         call[c].pc \notin Returned, UNCHANGED <<tgs, balancers, work>>,
         UNCHANGED <<serviceVars, queued, known, last, pending, fleetVars>>,
         trouble' \in 0 .. MaxTrouble
  PROVE  ServiceInv'
<1>1. TaskOK(c) /\ OthersWork(c)
  BY TaskFields DEF OthersWork
<1>2. TaskOK(c)'
  BY <1>1 DEF TaskOK, serviceVars
<1> QED BY <1>1, <1>2, OnlyWork

LEMMA TakeLockOK ==
  ASSUME ServiceInv, NEW c \in Callers, TakeLock(c)
  PROVE  ServiceInv'
<1>1. GroupsOK' /\ UNCHANGED tgs /\ OthersStay(c) /\ call[c].pc = "waiting"
  <2>1. (listed # {}) \in BOOLEAN
    OBVIOUS
  <2> QED BY <2>1, AcquireGroups DEF TakeLock, ServiceInv, balancers
<1> QED BY <1>1, UnnoticedStep
        DEF TakeLock, Returned, queueVars, ServiceInv, ControllerOK

LEMMA RestartAllOK ==
  ASSUME ServiceInv, RestartAll
  PROVE  ServiceInv'
<1>0. trouble' \in 0 .. MaxTrouble
  BY ServiceAssumption DEF RestartAll, ServiceInv, ControllerOK
<1>1. GroupsOK' /\ UNCHANGED tgs /\ \A c \in Callers : call'[c].pc = "err"
  BY RestartGroups DEF RestartAll, ServiceInv
<1>2. TasksOK'
  BY <1>1, IdleOK DEF RestartAll, TasksOK, Returned
<1>3. ControllerOK'
  BY <1>0 DEF RestartAll, ServiceInv, ControllerOK, Active
<1>4. NothingForgotten'
  BY DEF RestartAll, NothingForgotten
<1>5. OpsOK'
  BY <1>1, OpsLeft DEF RestartAll
<1> QED BY <1>1, <1>2, <1>3, <1>4, <1>5 DEF ServiceInv

LEMMA TroubleOK ==
  ASSUME ServiceInv, Trouble
  PROVE  ServiceInv'
<1>1. trouble' \in 0 .. MaxTrouble
  BY ServiceAssumption DEF Trouble, ServiceInv, ControllerOK
<1>2. ASSUME NEW c \in Callers, CallFails(c),
             UNCHANGED <<serviceVars, lb, known, last, pending, fleetVars>>
      PROVE  ServiceInv'
  <2>1. CASE Fault(c) /\ UNCHANGED <<queued, work, lbOps>>
    <3>1. GroupsOK' /\ UNCHANGED tgs /\ OthersStay(c) /\ call[c].pc \in Running
      BY <1>2, <2>1, FaultGroups DEF ServiceInv
    <3> QED BY <1>1, <1>2, <2>1, <3>1, UnnoticedStep
            DEF Returned, Running, Syncing, Updating, Cleaning, balancers
  <2>2. CASE work[c].pc \in Remote /\ Failed(c) /\ UNCHANGED <<vars, lbOps>>
    <3>1. call[c].pc \in Returned /\ work[c].pc # "idle"
      BY <2>2, TaskFields DEF TaskOK, Remote
    <3> QED BY <1>1, <1>2, <2>2, <3>1, FailedStep
  <2>3. CASE /\ \E o \in Asked(c) : lbOps' = lbOps \cup {o}
             /\ Failed(c) /\ UNCHANGED vars
    <3>1. call[c].pc \in Returned /\ work[c].pc # "idle"
      BY <2>3, TaskFields DEF TaskOK, Asked, IsAt
    <3>2. PICK o \in Asked(c) : lbOps' = lbOps \cup {o}
      BY <2>3
    <3>3. {o} \in SUBSET UNION {Asked(d) : d \in Callers}
      BY <3>2
    <3>4. OpsOK'
      BY <1>2, <2>3, <3>2, <3>3, OpsLeft DEF vars, cloud, serviceVars
    <3> QED BY <1>1, <1>2, <2>3, <3>1, <3>4, FailedStep
  <2> QED BY <1>2, <2>1, <2>2, <2>3 DEF CallFails
<1>3. CASE ChangeFleet
  <2>1. ControllerOK'
    BY <1>1, <1>3
    DEF ChangeFleet, ServiceInv, ControllerOK, serviceVars, queueVars, balancers
  <2> QED BY <1>3, <2>1, NobodyMoves DEF ChangeFleet, serviceVars, queueVars
<1> QED BY <1>2, <1>3 DEF Trouble

LEMMA ClusterOK ==
  ASSUME ServiceInv,
         \/ \E s \in Services : CreateService(s) \/ DeleteService(s)
         \/ Observe
  PROVE  ServiceInv'
<1>1. Worker \in Callers /\ TaskOK(Worker)
  BY TwoCallers, TaskFields
<1>2. CASE Observe
  BY <1>2, NobodyMoves
  DEF Observe, Active, ServiceInv, ControllerOK, queueVars, fleetVars, balancers
<1>3. ASSUME NEW s \in Services,
             \/ svc[s] = "absent" /\ svc' = [svc EXCEPT ![s] = "active"]
             \/ svc[s] = "active" /\ svc' = [svc EXCEPT ![s] = "deleting"],
             queued' = queued \cup {s},
             UNCHANGED <<vars, listed, balancers, known, last, pending, fleetVars, work,
                         trouble>>
      PROVE  ServiceInv'
  <2>1. /\ OthersStay(Worker) /\ UNCHANGED <<tgs, call>> /\ GroupsOK'
    BY <1>1, <1>3, SameCalls, SameGroups DEF ServiceInv, balancers
  <2>2. OthersWork(Worker)
    BY <1>1, <1>3, TaskFields DEF OthersWork
  <2>3. svc \in [Services -> {"absent", "active", "deleting", "gone"}]
    BY DEF ServiceInv, ControllerOK
  <2>4. TaskOK(Worker)'
    BY <1>1, <1>3, <2>1, <2>3 DEF TaskOK, Ensuring, Deleting
  <2>5. ControllerOK'
    BY <1>3, <2>3 DEF ServiceInv, ControllerOK, fleetVars, balancers
  <2>6. NothingForgotten'
    BY <1>3, <2>3 DEF ServiceInv, NothingForgotten, balancers
  <2>7. OpsOK'
    BY <1>3, <2>1, <2>3 DEF ServiceInv, OpsOK, balancers
  <2> QED BY <1>1, <2>1, <2>2, <2>4, <2>5, <2>6, <2>7, CallerMoves
<1> QED BY <1>2, <1>3 DEF CreateService, DeleteService

-----------------------------------------------------------------------------
(* The invariant                                                           *)

LEMMA ServiceInitOK == ServiceInit => ServiceInv
<1> SUFFICES ASSUME ServiceInit PROVE ServiceInv
  OBVIOUS
<1>1. HeldGroups(lb) = {}
  BY DEF ServiceInit, HeldGroups
<1>2. GroupsOK
  BY <1>1, TypeInit, ProgressInit DEF ServiceInit, GroupsOK, Init
<1>3. ControllerOK
  <2>1. svc \in [Services -> {"absent", "active", "deleting", "gone"}]
    BY DEF ServiceInit
  <2>2. lb \in [Services -> BOOLEAN] /\ last \in [Services -> SUBSET Nodes]
    BY DEF ServiceInit
  <2>3. trouble \in 0 .. MaxTrouble
    BY ServiceAssumption DEF ServiceInit
  <2> QED BY <2>1, <2>2, <2>3, ServiceAssumption DEF ServiceInit, ControllerOK
<1>4. TasksOK
  <2>1. ASSUME NEW c \in Callers PROVE work[c] = Idle /\ call[c].pc = "ok"
    BY DEF ServiceInit, Init, NoCall
  <2>2. ASSUME NEW c \in Callers PROVE TaskOK(c)
    <3>1. Idle \in Task /\ Idle.pc = "idle" /\ Idle.group = FALSE
      BY DEF Idle, Task, WorkLabels
    <3> QED BY <2>1, <3>1 DEF TaskOK, Ensuring, Deleting, Returned
  <2> QED BY <2>2 DEF TasksOK, ServiceInit
<1>5. NothingForgotten /\ OpsOK
  BY DEF ServiceInit, NothingForgotten, OpsOK
<1> QED BY <1>2, <1>3, <1>4, <1>5 DEF ServiceInv

LEMMA ServiceNextOK == ServiceInv /\ [ServiceNext]_allVars => ServiceInv'
<1> SUFFICES ASSUME ServiceInv, [ServiceNext]_allVars PROVE ServiceInv'
  OBVIOUS
<1>1. CASE UNCHANGED allVars
  BY <1>1, NobodyMoves
  DEF allVars, serviceVars, balancers, queueVars, fleetVars, ServiceInv, ControllerOK
<1>2. ASSUME NEW c \in Callers, ProviderStep(c) PROVE ServiceInv'
  BY <1>2, SyncedStep, FindGroupStep, FindBalancerStep, CreateBalancerStep,
     CheckBalancerStep, RemoveBalancerStep, BeginCleanupStep, CleanupReturnedStep,
     FinalizeStep
  DEF ProviderStep
<1> QED
  BY <1>1, <1>2, PickServiceStep, CallStepOK, TakeLockOK, NodeStepOK,
     LandBalancerStep, LandGroupStep, TroubleOK, RestartAllOK, ClusterOK
  DEF ServiceNext

LEMMA ServiceInvariant == ServiceSpec => []ServiceInv
BY ServiceInitOK, ServiceNextOK, PTL DEF ServiceSpec

-----------------------------------------------------------------------------
(* The services as a use of SyncTGs                                        *)

\* One balancer comes, with a group that is there, or one goes, or none.
OneMoves(s) ==
  \/ UNCHANGED lb
  \/ lb' = [lb EXCEPT ![s] = TRUE] /\ GroupOf[s] \in DOMAIN tgs
  \/ lb' = [lb EXCEPT ![s] = FALSE]

BalancerMoves == BalancersMove /\ \E s \in Services : OneMoves(s)

LEMMA ServiceStepSyncs ==
  ASSUME ServiceInv, [ServiceNext]_allVars
  PROVE  [Next]_vars \/ BalancerMoves
<1>1. ASSUME NEW c \in Callers, ProviderStep(c)
      PROVE  [Next]_vars \/ BalancerMoves
  <2>1. CASE CreateBalancer(c) \/ RemoveBalancer(c)
    <3>1. TaskOK(c) /\ work[c].svc \in Services
      BY <2>1, TaskFields DEF TaskOK, CreateBalancer, RemoveBalancer, IsAt
    <3>2. UNCHANGED vars \/ (BalancersMove /\ OneMoves(work[c].svc))
      BY <2>1, <3>1 DEF CreateBalancer, RemoveBalancer, Asked, IsAt, TaskOK, OneMoves
    <3> QED BY <3>1, <3>2 DEF BalancerMoves
  <2>2. CASE ~CreateBalancer(c) /\ ~RemoveBalancer(c)
    BY <1>1, <2>2
    DEF ProviderStep, Synced, FindGroup, FindBalancer, CheckBalancer, BeginCleanup,
        CleanupReturned, Finalize, Next
  <2> QED BY <2>1, <2>2
<1>2. ASSUME NEW o \in lbOps, LandBalancer(o) PROVE BalancerMoves
  <2>1. PICK s \in Services :
          /\ o.svc = s
          /\ \/ o.op = "create" /\ GroupOf[s] \in DOMAIN tgs
             \/ o.op = "delete" /\ svc[s] \in {"deleting", "gone"}
    BY OpMeans DEF ServiceInv
  <2>2. OneMoves(s)
    BY <1>2, <2>1 DEF LandBalancer, OneMoves
  <2> QED BY <1>2, <2>2 DEF LandBalancer, BalancerMoves
<1>3. ASSUME NEW c \in Callers, CallStep(c) PROVE [Next]_vars
  BY <1>3 DEF CallStep, Next
<1>4. ASSUME NEW c \in Callers, TakeLock(c) PROVE [Next]_vars
  <2>1. (listed # {}) \in BOOLEAN
    OBVIOUS
  <2> QED BY <1>4, <2>1 DEF TakeLock, Next
<1>5. ASSUME NEW s \in Services, PickService(s) PROVE [Next]_vars
  <2>1. Worker \in Callers /\ ready \in SUBSET Nodes
    BY TwoCallers, ReadyNodes DEF ServiceInv
  <2> QED BY <1>5, <2>1 DEF PickService, PickActive, PickDeleting, PickGone, Next
<1>6. CASE NodeStep
  <2>1. NodeSyncer \in Callers /\ ready \in SUBSET Nodes
    BY TwoCallers, ReadyNodes DEF ServiceInv
  <2> QED BY <1>6, <2>1 DEF NodeStep, NodeRound, CheckUpdated, VisitService, Next
<1>7. CASE Trouble \/ RestartAll
  BY <1>7 DEF Trouble, CallFails, ChangeFleet, RestartAll, Environment, Next
<1>8. CASE Observe \/ UNCHANGED allVars
  BY <1>8 DEF Observe, allVars
<1>9. ASSUME NEW s \in Services, CreateService(s) \/ DeleteService(s) PROVE [Next]_vars
  BY <1>9 DEF CreateService, DeleteService
<1>10. ASSUME NEW o \in inflight, LandGroup(o) PROVE [Next]_vars
  BY <1>10 DEF LandGroup, Environment, Next
<1> QED
  BY <1>1, <1>2, <1>3, <1>4, <1>5, <1>6, <1>7, <1>8, <1>9, <1>10 DEF ServiceNext

\* The balancers attach and detach one group at a time.
LEMMA BalancersAttach ==
  ASSUME ServiceInv, "attach" \in Hazards, BalancerMoves
  PROVE  [Next]_vars
<1>1. PICK s \in Services : OneMoves(s)
  BY DEF BalancerMoves
<1> DEFINE g == GroupOf[s]
<1>2. /\ lb \in [Services -> BOOLEAN] /\ inUse = HeldGroups(lb)
      /\ inUse' = HeldGroups(lb')
  BY DEF ServiceInv, ControllerOK, GroupsOK, BalancerMoves, BalancersMove
<1>3. g \in OwnNames /\ g \in Names
  BY ServiceAssumption DEF Names
<1>4. inUse' = inUse => [Next]_vars
  BY DEF BalancerMoves, BalancersMove, vars, cloud
<1>5. CASE UNCHANGED lb
  BY <1>2, <1>4, <1>5 DEF HeldGroups
<1>6. CASE lb' = [lb EXCEPT ![s] = TRUE] /\ g \in DOMAIN tgs
  <2>1. inUse' = inUse \cup {g}
    BY <1>2, <1>6 DEF HeldGroups
  <2>2. CASE g \in inUse
    BY <1>4, <2>1, <2>2
  <2>3. CASE g \notin inUse
    <3>1. Attach(g)
      BY <1>3, <1>6, <2>1, <2>3 DEF Attach, BalancerMoves, BalancersMove
    <3> QED BY <1>3, <3>1 DEF Next, Environment
  <2> QED BY <2>2, <2>3
<1>7. CASE lb' = [lb EXCEPT ![s] = FALSE]
  <2>1. inUse' = inUse \/ (inUse' = inUse \ {g} /\ g \in inUse)
    BY <1>2, <1>7 DEF HeldGroups
  <2>2. CASE inUse' = inUse \ {g} /\ g \in inUse
    <3>1. Detach(g)
      BY <2>2 DEF Detach, BalancerMoves, BalancersMove
    <3> QED BY <1>3, <3>1 DEF Next, Environment
  <2> QED BY <1>4, <2>1, <2>2
<1> QED BY <1>1, <1>5, <1>6, <1>7 DEF OneMoves

-----------------------------------------------------------------------------
(* The theorems                                                            *)

\* Type correctness of the services with their SyncTGs calls: also that the
\* groups in use are always there, and that a call runs only for a caller that
\* waits for it (load_balancer.go:72-102, 204-239).
THEOREM ServiceTypeCorrect == ServiceSpec => []ServiceTypeOK
<1>1. ServiceInv => ServiceTypeOK
  BY InvMeans
<1> QED BY <1>1, ServiceInvariant, PTL

\* A service that lacks its balancer or has to be deleted is queued or in the
\* worker's hands (load_balancer.go:72-102).
THEOREM NoneForgotten == ServiceSpec => []NothingForgotten
<1>1. ServiceInv => NothingForgotten
  BY InvMeans
<1> QED BY <1>1, ServiceInvariant, PTL

\* The service controller with its two callers is a user of SyncTGs as
\* TargetGroupSync assumes it: every run is one of that specification
\* (load_balancer.go:83, 97, 232 call SyncTGs from two goroutines).
THEOREM ServicesSync == "attach" \in Hazards => (ServiceSpec => Spec)
<1> SUFFICES ASSUME "attach" \in Hazards PROVE ServiceSpec => Spec
  OBVIOUS
<1>1. ServiceInv /\ [ServiceNext]_allVars => [Next]_vars
  BY ServiceStepSyncs, BalancersAttach
<1>2. ServiceInit => Init
  BY DEF ServiceInit
<1> QED BY <1>1, <1>2, ServiceInvariant, PTL DEF ServiceSpec, Spec

\* Under the service controller, too, the syncer panics only over an interface
\* without address, or over a group that an abandoned deletion has taken away,
\* that of a cleanup which was refused another group, say: the balancers keep
\* their groups, and tgSyncLock keeps the two callers apart
\* (load_balancer_tg_controller.go:84-92, loadbalancer.go:305-314).
THEOREM ServicesPanicsExplained == ServiceSpec => []PanicsExplained
<1>1. ServiceInit => PanicsExplained
  BY DEF ServiceInit, Init, PanicsExplained, NoCall, At
<1>2. ASSUME ServiceInv, [ServiceNext]_allVars, PanicsExplained PROVE PanicsExplained'
  <2>1. CASE [Next]_vars
    BY <1>2, <2>1, PanicStep DEF ServiceInv, GroupsOK
  <2>2. CASE BalancerMoves
    BY <1>2, <2>2 DEF BalancerMoves, BalancersMove, PanicsExplained, At
  <2> QED BY <1>2, <2>1, <2>2, ServiceStepSyncs
<1> QED BY <1>1, <1>2, ServiceInvariant, PTL DEF ServiceSpec

\* For services that come and go, a sync that returns nil has settled its
\* mapping, no sync cuts traffic, and a cleanup that returns nil leaves no group
\* of the cluster: each but for the groups that operations from before the call
\* may still change, which deletions cancelled by a refused one leave behind
\* (load_balancer_tg_controller.go:54-92).
THEOREM ServicesKeepGroups ==
  ServiceSpec => SyncExact /\ TrafficKept /\ CleanupComplete
<1>1. ServiceInv /\ [ServiceNext]_allVars =>
        [\A c \in Callers :
           At(c, "next") /\ call'[c].pc = "ok" =>
             \A g \in DOMAIN call[c].want \ Disturbed(call[c]) :
               g \in DOMAIN tgs' /\ tgs'[g] = call[c].want[g]]_vars
  BY ServiceStepSyncs, CommitExact DEF BalancerMoves, BalancersMove, At, ServiceInv, GroupsOK
<1>2. ServiceInv /\ [ServiceNext]_allVars =>
        [\A c \in Callers :
           call[c].pc \in Syncing =>
             \A g \in (DOMAIN call[c].want \cap DOMAIN tgs) \ Disturbed(call[c]) :
               /\ g \in DOMAIN tgs'
               /\ tgs[g] \cap call[c].want[g] \subseteq tgs'[g]
               /\ tgs[g] # {} => tgs'[g] # {}]_vars
  BY ServiceStepSyncs, TrafficStep DEF BalancerMoves, BalancersMove, ServiceInv, GroupsOK
<1>3. ServiceInv /\ [ServiceNext]_allVars =>
        [\A c \in Callers :
           call[c].pc \in Cleaning /\ call'[c].pc = "ok" =>
             DOMAIN tgs' \cap OwnNames \subseteq Reborn(call[c])]_vars
  BY ServiceStepSyncs, CleanupStep
  DEF BalancerMoves, BalancersMove, Cleaning, ServiceInv, GroupsOK
<1> QED BY <1>1, <1>2, <1>3, ServiceInvariant, PTL
        DEF ServiceSpec, SyncExact, TrafficKept, CleanupComplete

=============================================================================
