-------------------------- MODULE ServiceHistoryProofs --------------------------
(***************************************************************************)
(* What may be left in the cloud after the services, for any services,     *)
(* nodes and failures: the theorems of ServiceHistory.                     *)
(***************************************************************************)
EXTENDS ServiceHistory, ServiceControllerProofs

\* Whoever may get a balancer without the worker is late, once it is deleted.
LateOK == Underway \cap (Services \ Active) \subseteq late

\* RemoveLBByName has returned, or there was no balancer.
BalancerGone == {"sweep", "cleanup", "finalize"}

RemovalOK ==
  work[Worker].pc \in BalancerGone /\ lb[work[Worker].svc] => work[Worker].svc \in late

\* The worker's call is one that creates and changes groups, or will be.
WorkerSyncs ==
  \/ call[Worker].pc \in {"resolve"} \cup Syncing
  \/ call[Worker].pc = "waiting" /\ DOMAIN call[Worker].nodes # {}

\* The groups that running operations may create.
Coming == {o.group : o \in {p \in inflight : p.op = "create"}}

\* Nobody creates a group but for those in L, nor is there any.
CleanBut(L) == ~WorkerSyncs /\ (DOMAIN tgs \cap OwnNames) \cup Coming \subseteq L

SweptOK == swept => Active = {} /\ (late = {} => CleanBut(leftover))

\* The inductive invariant.
HistoryInv ==
  ServiceInv /\ LateOK /\ OrphanOnlyLate /\ RemovalOK /\ SweptOK

-----------------------------------------------------------------------------
(* Balancers and services                                                  *)

\* A balancer appears only by CreateBalancer, or by a creation that was given up.
LEMMA NewBalancer ==
  ASSUME ServiceInv, [ServiceNext]_allVars, NEW s \in Services, ~lb[s], lb'[s]
  PROVE  /\ UNCHANGED svc
         /\ \/ CreateOf(s) \in lbOps
            \/ \E c \in Callers : work[c].pc = "create" /\ work[c].svc = s
<1>1. lb \in [Services -> BOOLEAN]
  BY DEF ServiceInv, ControllerOK
<1>2. ASSUME NEW c \in Callers, CreateBalancer(c)
      PROVE  work[c].pc = "create" /\ work[c].svc = s /\ UNCHANGED svc
  BY <1>1, <1>2 DEF CreateBalancer, IsAt, serviceVars
<1>3. ASSUME NEW c \in Callers, RemoveBalancer(c) PROVE FALSE
  BY <1>1, <1>3 DEF RemoveBalancer
<1>4. ASSUME NEW c \in Callers, ProviderStep(c), ~ CreateBalancer(c), ~ RemoveBalancer(c)
      PROVE  lb' = lb
  BY <1>4 DEF ProviderStep, Synced, FindGroup, FindBalancer, CheckBalancer, BeginCleanup,
              CleanupReturned, Finalize, balancers
<1>5. ASSUME NEW c \in Callers, CallStep(c) \/ TakeLock(c) PROVE lb' = lb
  BY <1>5 DEF CallStep, TakeLock, balancers
<1>6. CASE NodeStep \/ Trouble \/ RestartAll \/ Observe \/ UNCHANGED allVars
  BY <1>6 DEF NodeStep, NodeRound, CheckUpdated, VisitService, Trouble, ChangeFleet,
              RestartAll, Observe, allVars, balancers
<1>7. ASSUME NEW t \in Services, PickService(t) \/ CreateService(t) \/ DeleteService(t)
      PROVE  lb' = lb
  BY <1>7 DEF PickService, CreateService, DeleteService, balancers
<1>8. ASSUME NEW o \in lbOps, LandBalancer(o)
      PROVE  CreateOf(s) \in lbOps /\ UNCHANGED svc
  <2>1. o.svc = s /\ o.op = "create" /\ UNCHANGED svc
    BY <1>1, <1>8 DEF LandBalancer, serviceVars
  <2>2. PICK t \in Services : o = CreateOf(t) \/ o = DeleteOf(t)
    BY DEF ServiceInv, OpsOK
  <2>3. o = CreateOf(s)
    BY <2>1, <2>2 DEF CreateOf, DeleteOf
  <2> QED BY <2>1, <2>3
<1>9. ASSUME NEW o \in inflight, LandGroup(o) PROVE lb' = lb
  BY <1>9 DEF LandGroup
<1> QED BY <1>2, <1>3, <1>4, <1>5, <1>6, <1>7, <1>8, <1>9 DEF ServiceNext

\* A service disappears only by Finalize.
LEMMA NewlyGone ==
  ASSUME ServiceInv, [ServiceNext]_allVars, NEW s \in Services,
         svc[s] # "gone", svc'[s] = "gone"
  PROVE  work[Worker].pc = "finalize" /\ work[Worker].svc = s /\ UNCHANGED lb
<1>1. svc \in [Services -> {"absent", "active", "deleting", "gone"}]
  BY DEF ServiceInv, ControllerOK
<1>2. ASSUME NEW c \in Callers, Finalize(c)
      PROVE  work[Worker].pc = "finalize" /\ work[Worker].svc = s /\ UNCHANGED lb
  <2>1. c = Worker
    BY <1>2, WorkerDeletes DEF Finalize, IsAt, Deleting
  <2> QED BY <1>1, <1>2, <2>1 DEF Finalize, IsAt, balancers
<1>3. ASSUME NEW c \in Callers, ProviderStep(c), ~ Finalize(c) PROVE svc' = svc
  BY <1>3 DEF ProviderStep, Synced, FindGroup, FindBalancer, CreateBalancer, CheckBalancer,
              RemoveBalancer, BeginCleanup, CleanupReturned, serviceVars
<1>4. ASSUME NEW c \in Callers, CallStep(c) \/ TakeLock(c) PROVE svc' = svc
  BY <1>4 DEF CallStep, TakeLock, serviceVars
<1>5. CASE NodeStep \/ Trouble \/ RestartAll \/ Observe \/ UNCHANGED allVars
  BY <1>5 DEF NodeStep, NodeRound, CheckUpdated, VisitService, Trouble, ChangeFleet,
              RestartAll, Observe, allVars, serviceVars
<1>6. ASSUME NEW t \in Services, PickService(t) PROVE svc' = svc
  BY <1>6 DEF PickService, serviceVars
<1>7. ASSUME NEW t \in Services, CreateService(t) \/ DeleteService(t) PROVE FALSE
  BY <1>1, <1>7 DEF CreateService, DeleteService
<1>8. (\E o \in lbOps : LandBalancer(o)) \/ (\E o \in inflight : LandGroup(o)) => svc' = svc
  BY DEF LandBalancer, LandGroup, serviceVars
<1> QED BY <1>2, <1>3, <1>4, <1>5, <1>6, <1>7, <1>8 DEF ServiceNext

-----------------------------------------------------------------------------
(* The worker's removals                                                   *)

SameTask(c) == work'[c].pc = work[c].pc /\ work'[c].svc = work[c].svc

LEMMA OwnStep ==
  ASSUME ServiceInv, NEW c \in Callers, ProviderStep(c)
  PROVE  OthersWork(c)
<1>1. ASSUME NEW t, work' = [work EXCEPT ![c] = t] PROVE OthersWork(c)
  BY <1>1, WorkExcept
<1>2. ASSUME NEW l, Goto(c, l) PROVE OthersWork(c)
  BY <1>2, GotoFields
<1>3. Done(c) \/ Failed(c) => OthersWork(c)
  BY <1>1, <1>2 DEF Done, Failed
<1>4. work' = [work EXCEPT ![c].pc = "lookup", ![c].nodes = {}] => OthersWork(c)
  BY TaskFields DEF OthersWork
<1>5. work' = [work EXCEPT ![c].pc = "balancer", ![c].group = TRUE] => OthersWork(c)
  BY TaskFields DEF OthersWork
<1> QED
  BY <1>2, <1>3, <1>4, <1>5
  DEF ProviderStep, Synced, FindGroup, FindBalancer, CreateBalancer, CheckBalancer,
      RemoveBalancer, BeginCleanup, CleanupReturned, Finalize

\* The worker comes to clean up by CheckBalancer and RemoveBalancer, and then
\* there is no balancer.
LEMMA NewlyRemoved ==
  ASSUME ServiceInv, [ServiceNext]_allVars, work'[Worker].pc \in BalancerGone
  PROVE  \/ work[Worker].pc \in BalancerGone /\ work'[Worker].svc = work[Worker].svc
         \/ lb'[work'[Worker].svc] = FALSE
<1> DEFINE c == Worker
<1>1. /\ c \in Callers /\ NodeSyncer \in Callers /\ NodeSyncer # c /\ TaskOK(c)
      /\ work[c] \in Task /\ lb \in [Services -> BOOLEAN]
      /\ work = [d \in Callers |-> work[d]]
  BY TwoCallers, TaskFields DEF ServiceInv, ControllerOK
<1>2. SameTask(c) => work[c].pc \in BalancerGone /\ work'[c].svc = work[c].svc
  BY DEF SameTask
<1>3. ~ (work'[c] = Idle)
  BY DEF Idle, BalancerGone
<1>4. ~ Failed(c) /\ ~ Done(c)
  <2>1. Failed(c) \/ Done(c) => work'[c] = Idle
    BY <1>1, WorkExcept DEF Failed, Done
  <2> QED BY <1>3, <2>1
<1>5. ASSUME ProviderStep(c)
      PROVE  \/ work[c].pc \in BalancerGone /\ work'[c].svc = work[c].svc
             \/ lb'[work'[c].svc] = FALSE
  <2>1. ~ Synced(c) /\ ~ FindGroup(c) /\ ~ FindBalancer(c) /\ ~ CreateBalancer(c)
        /\ ~ Finalize(c)
    <3>1. work' # [work EXCEPT ![c].pc = "lookup", ![c].nodes = {}]
      BY <1>1 DEF Task, BalancerGone
    <3>2. work' # [work EXCEPT ![c].pc = "balancer", ![c].group = TRUE]
      BY <1>1 DEF Task, BalancerGone
    <3>3. ~ Goto(c, "create")
      BY <1>1, GotoFields DEF BalancerGone
    <3> QED BY <1>4, <3>1, <3>2, <3>3
            DEF Synced, FindGroup, FindBalancer, CreateBalancer, Finalize
  <2>2. CASE CheckBalancer(c)
    <3>1. /\ work[c].pc = "exists" /\ work[c].svc \in Services /\ UNCHANGED lb
          /\ Goto(c, IF lb[work[c].svc] THEN "remove" ELSE "finalize")
      BY <1>1, <2>2 DEF CheckBalancer, IsAt, TaskOK, balancers
    <3>2. /\ work'[c].svc = work[c].svc
          /\ work'[c].pc = IF lb[work[c].svc] THEN "remove" ELSE "finalize"
      BY <1>1, <3>1, GotoFields
    <3> QED BY <1>1, <3>1, <3>2 DEF BalancerGone
  <2>3. CASE RemoveBalancer(c)
    <3>1. /\ work[c].pc = "remove" /\ work[c].svc \in Services
          /\ lb' = [lb EXCEPT ![work[c].svc] = FALSE] /\ Goto(c, "sweep")
      BY <1>1, <2>3 DEF RemoveBalancer, IsAt, TaskOK
    <3>2. work'[c].svc = work[c].svc
      BY <1>1, <3>1, GotoFields
    <3> QED BY <1>1, <3>1, <3>2
  <2>4. CASE BeginCleanup(c) \/ CleanupReturned(c)
    <3>1. /\ work[c].pc \in BalancerGone
          /\ Goto(c, "cleanup") \/ Goto(c, "finalize")
      BY <1>4, <2>4 DEF BeginCleanup, CleanupReturned, IsAt, BalancerGone
    <3> QED BY <1>1, <3>1, GotoFields
  <2> QED BY <1>5, <2>1, <2>2, <2>3, <2>4 DEF ProviderStep
<1>6. ASSUME ProviderStep(NodeSyncer) PROVE SameTask(c)
  BY <1>1, <1>6, OwnStep DEF OthersWork, SameTask
<1>7. Forget => SameTask(c)
  <2>1. Forget => work'[c] = [work[c] EXCEPT !.group = @ /\ GroupOf[work[c].svc] \in DOMAIN tgs']
    BY <1>1 DEF Forget
  <2> QED BY <1>1, <2>1 DEF SameTask, Task
<1>8. ASSUME NEW d \in Callers, TakeLock(d) PROVE SameTask(c)
  BY <1>8 DEF TakeLock, SameTask
<1>9. CASE NodeStep
  <2>1. ASSUME NEW t, work' = [work EXCEPT ![NodeSyncer] = t] PROVE SameTask(c)
    BY <1>1, <2>1 DEF SameTask
  <2> QED BY <1>9, <2>1 DEF NodeStep, NodeRound, CheckUpdated, VisitService, Begin, SameTask
<1>10. CASE Trouble \/ RestartAll
  <2>1. ASSUME Failed(NodeSyncer) PROVE SameTask(c)
    BY <1>1, <2>1, GotoFields DEF Failed, SameTask, OthersWork
  <2>2. ~ RestartAll
    BY <1>1, <1>3 DEF RestartAll
  <2> QED BY <1>1, <1>4, <1>10, <2>1, <2>2, TwoCallers
          DEF Trouble, CallFails, ChangeFleet, SameTask
<1>11. CASE Observe \/ UNCHANGED allVars
  BY <1>11 DEF Observe, allVars, SameTask
<1>12. ASSUME NEW t \in Services, CreateService(t) \/ DeleteService(t) PROVE SameTask(c)
  BY <1>12 DEF CreateService, DeleteService, SameTask
<1>13. ASSUME NEW t \in Services, PickService(t) PROVE SameTask(c)
  <2>1. ASSUME NEW l \in {"sync", "exists"}, NEW N, Begin(c, l, t, N) PROVE FALSE
    <3>1. work'[c] = [Idle EXCEPT !.pc = l, !.svc = t, !.nodes = N]
      BY <1>1, <2>1, WorkExcept DEF Begin
    <3> QED BY <3>1 DEF Idle, BalancerGone
  <2> QED BY <1>13, <2>1 DEF PickService, PickActive, PickDeleting, PickGone, SameTask
<1>14. ASSUME NEW o \in lbOps, LandBalancer(o) PROVE SameTask(c)
  BY <1>14 DEF LandBalancer, SameTask
<1> QED
  BY <1>2, <1>5, <1>6, <1>7, <1>8, <1>9, <1>10, <1>11, <1>12, <1>13, <1>14, TwoCallers
  DEF ServiceNext, CallStep, LandGroup


-----------------------------------------------------------------------------
(* The SyncTGs calls                                                       *)

\* What a step may do to the calls and the groups.
CallsMove ==
  \/ UNCHANGED <<tgs, inflight, call>>
  \/ \E c \in Callers :
       /\ UNCHANGED <<tgs, inflight>> /\ OthersStay(c)
       /\ \/ /\ call[c].pc \in Returned /\ call'[c].pc = "waiting"
             /\ c = Worker /\ Active = {} => DOMAIN call'[c].nodes = {}
          \/ call[c].pc = "waiting" /\ call'[c].pc \in {"list", "ok"}
          \/ call[c].pc = "waiting" /\ DOMAIN call[c].nodes # {} /\ call'[c].pc = "resolve"
  \/ \E c \in Callers : CallStep(c)
  \/ \E c \in Callers : Fault(c)
  \/ \E o \in inflight : Land(o)
  \/ Restart

LEMMA BeginsCall ==
  ASSUME ServiceInv, NEW c \in Callers, NEW N \in SUBSET Nodes, Start(c, N)
  PROVE  /\ UNCHANGED <<tgs, inflight>> /\ OthersStay(c) /\ call[c].pc \in Returned
         /\ call'[c].pc = "waiting" /\ DOMAIN call'[c].nodes = N
<1>1. TypeOK
  BY DEF ServiceInv, GroupsOK
<1> QED BY <1>1, CallFields DEF Start, OthersStay, NoCall, cloud

LEMMA Moves == ServiceInv /\ [ServiceNext]_allVars => CallsMove
<1> SUFFICES ASSUME ServiceInv, [ServiceNext]_allVars PROVE CallsMove
  OBVIOUS
<1>1. UNCHANGED vars \/ BalancersMove => CallsMove
  BY DEF vars, cloud, BalancersMove, CallsMove
<1>2. Worker \in Callers /\ NodeSyncer \in Callers /\ Worker # NodeSyncer
      /\ ready \in SUBSET Nodes /\ TypeOK
  BY TwoCallers, ReadyNodes DEF ServiceInv, GroupsOK
<1>3. ASSUME NEW c \in Callers, ProviderStep(c) PROVE CallsMove
  <2>1. CASE BeginCleanup(c)
    <3>1. Start(c, {}) /\ {} \in SUBSET Nodes
      BY <2>1 DEF BeginCleanup
    <3> QED BY <3>1, BeginsCall DEF CallsMove
  <2> QED BY <1>1, <1>3, <2>1
          DEF ProviderStep, Synced, FindGroup, FindBalancer, CreateBalancer, CheckBalancer,
              RemoveBalancer, CleanupReturned, Finalize
<1>4. ASSUME NEW s \in Services, PickService(s) PROVE CallsMove
  <2>1. CASE PickActive(s)
    <3>1. Start(Worker, ready) /\ Active # {}
      BY <2>1 DEF PickActive, Active
    <3> QED BY <1>2, <3>1, BeginsCall DEF CallsMove
  <2> QED BY <1>1, <1>4, <2>1 DEF PickService, PickDeleting, PickGone
<1>5. CASE NodeStep
  <2>1. Start(NodeSyncer, ready) => CallsMove
    BY <1>2, BeginsCall DEF CallsMove
  <2> QED BY <1>1, <1>5, <2>1 DEF NodeStep, NodeRound, CheckUpdated, VisitService
<1>6. ASSUME NEW c \in Callers, TakeLock(c) PROVE CallsMove
  <2>1. Acquire(c, listed # {}) /\ (listed # {}) \in BOOLEAN
    BY <1>6 DEF TakeLock
  <2>2. UNCHANGED <<tgs, inflight>> /\ call[c].pc = "waiting"
    BY <2>1 DEF Acquire, cloud, At
  <2>3. OthersStay(c) /\ \/ call'[c].pc \in {"list", "ok"}
                         \/ DOMAIN call[c].nodes # {} /\ call'[c].pc = "resolve"
    BY <1>2, <2>1, CallFields
    DEF Acquire, OthersStay, Return, NoCall, NothingToDo, IsCall
  <2> QED BY <2>2, <2>3 DEF CallsMove
<1>7. CASE Trouble \/ RestartAll
  <2>1. RestartAll \/ (\E c \in Callers : Fault(c)) => CallsMove
    BY DEF RestartAll, CallsMove
  <2> QED BY <1>1, <1>7, <2>1 DEF Trouble, CallFails, ChangeFleet
<1>8. CASE Observe \/ UNCHANGED allVars
  BY <1>1, <1>8 DEF Observe, allVars
<1>9. ASSUME NEW s \in Services, CreateService(s) \/ DeleteService(s) PROVE CallsMove
  BY <1>1, <1>9 DEF CreateService, DeleteService
<1>10. ASSUME NEW o \in lbOps, LandBalancer(o) PROVE CallsMove
  BY <1>1, <1>10 DEF LandBalancer
<1>11. ASSUME NEW o \in inflight, LandGroup(o) PROVE CallsMove
  BY <1>11 DEF LandGroup, CallsMove
<1> QED BY <1>3, <1>4, <1>5, <1>6, <1>7, <1>8, <1>9, <1>10, <1>11 DEF ServiceNext, CallsMove


\* A sync begins by Acquire, and only a sync makes groups.
LEMMA CallStepEffects ==
  ASSUME ServiceInv, NEW c \in Callers, CallStep(c)
  PROVE  /\ OthersStay(c) /\ call[c].pc \in Running
         /\ call'[c].pc # "waiting"
         /\ call'[c].pc \in {"resolve"} \cup Syncing =>
              call[c].pc \in {"resolve"} \cup Syncing
         /\ DOMAIN tgs' \subseteq DOMAIN tgs \/ call[c].pc = "create"
         /\ inflight' \subseteq inflight
<1> USE DEF At
<1>1. /\ TypeOK /\ Step(c) /\ IsCall(call[c])
      /\ call = [d \in Callers |-> call[d]]
  BY CallFields DEF ServiceInv, GroupsOK, CallStep
<1>2. OthersStay(c) /\ call[c].pc \in Running
  BY StepGroups DEF CallStep, ServiceInv
<1>3. ASSUME Return(c, "err") \/ Return(c, "ok") PROVE call'[c].pc \in Returned
  BY <1>1, <1>3 DEF Return, NoCall, Returned
<1>4. DOMAIN tgs' \subseteq DOMAIN tgs \/ call[c].pc = "create"
  <2>1. ASSUME NEW o, Accepted(o), Apply(o), o.op \in {"add", "remove", "delete"}
        PROVE  DOMAIN tgs' \subseteq DOMAIN tgs
    BY <2>1 DEF Accepted, Apply, After, Put, Drop
  <2>2. CASE AddTGTargets(c) \/ RemoveTGTargets(c)
    BY <2>1, <2>2 DEF AddTGTargets, RemoveTGTargets, Operation, AddTargets, RemoveTargets
  <2>3. ASSUME NEW g, RemoveTG(c, g) PROVE DOMAIN tgs' \subseteq DOMAIN tgs
    BY <2>1, <2>3 DEF RemoveTG, Delete, cloud
  <2> QED BY <1>1, <2>2, <2>3
          DEF Step, Lookup, BuildMapping, GetGroup, CreateTG, Recheck, RefuseOperation,
              Commit, GetTGsByClusterName, FailRemoveTG, SkipRemoveTG, CleanupEnd, cloud
<1>5. inflight' \subseteq inflight
  BY <1>1 DEF Step, Lookup, BuildMapping, GetGroup, CreateTG, AddTGTargets, RemoveTGTargets,
              Recheck, RefuseOperation, Commit, GetTGsByClusterName, RemoveTG, FailRemoveTG,
              SkipRemoveTG, CleanupEnd, Apply, Surviving, cloud
<1>6. CASE call[c].pc \in {"resolve"} \cup Syncing
  <2>1. call'[c].pc \in Returned \cup Syncing \cup {"resolve", "panic"}
    <3>1. ASSUME NEW n, Lookup(c, n) PROVE call'[c].pc \in Returned \cup {"resolve"}
      <4>1. CASE Fail(c)
        BY <1>3, <4>1 DEF Fail
      <4>2. CASE ~Fail(c)
        BY <3>1, <4>2, CallFields DEF Lookup, IsCall, ServiceInv, GroupsOK
      <4> QED BY <4>1, <4>2
    <3>2. CASE BuildMapping(c)
      BY <1>1, <1>3, <3>2 DEF BuildMapping, Fail, IsCall, Syncing
    <3>3. ASSUME NEW g, GetGroup(c, g) PROVE call'[c].pc \in Syncing
      BY <1>1, <3>3 DEF GetGroup, IsCall, Syncing, Updating
    <3>4. CASE CreateTG(c) \/ Recheck(c)
      BY <1>1, <3>4 DEF CreateTG, Recheck, GroupDone, IsCall, Syncing
    <3>5. CASE AddTGTargets(c) \/ RemoveTGTargets(c)
      BY <1>1, <3>5 DEF AddTGTargets, RemoveTGTargets, IsCall, Syncing, Updating
    <3>6. CASE RefuseOperation(c) \/ Commit(c)
      BY <1>3, <3>6 DEF RefuseOperation, Fail, Commit
    <3>7. ASSUME NEW g,
                 \/ GetTGsByClusterName(c) \/ CleanupEnd(c)
                 \/ RemoveTG(c, g) \/ FailRemoveTG(c, g) \/ SkipRemoveTG(c, g)
          PROVE  FALSE
      BY <1>6, <3>7 DEF GetTGsByClusterName, CleanupEnd, RemoveTG, FailRemoveTG,
                        SkipRemoveTG, Syncing, Updating
    <3> QED BY <1>1, <3>1, <3>2, <3>3, <3>4, <3>5, <3>6, <3>7 DEF Step
  <2> QED BY <1>2, <1>4, <1>5, <1>6, <2>1 DEF Returned, Syncing, Updating
<1>7. CASE call[c].pc \in Cleaning
  <2>1. call'[c].pc \in Cleaning \cup Returned
    <3>1. CASE CleanupEnd(c)
      BY <1>3, <3>1 DEF CleanupEnd, Fail
    <3>2. CASE GetTGsByClusterName(c)
      BY <1>1, <3>2 DEF GetTGsByClusterName, IsCall, Cleaning
    <3>3. ASSUME NEW g, RemoveTG(c, g) \/ FailRemoveTG(c, g) \/ SkipRemoveTG(c, g)
          PROVE  call'[c].pc \in Cleaning
      BY <1>1, <1>7, <3>3 DEF RemoveTG, FailRemoveTG, SkipRemoveTG, IsCall, Cleaning
    <3>4. ASSUME NEW n, Lookup(c, n) \/ GetGroup(c, n) PROVE FALSE
      BY <1>7, <3>4 DEF Lookup, GetGroup, Cleaning
    <3>5. ASSUME \/ BuildMapping(c) \/ CreateTG(c) \/ AddTGTargets(c)
                 \/ RemoveTGTargets(c) \/ Recheck(c) \/ RefuseOperation(c) \/ Commit(c)
          PROVE  FALSE
      BY <1>7, <3>5 DEF BuildMapping, CreateTG, AddTGTargets, RemoveTGTargets, Recheck,
                        RefuseOperation, Commit, Cleaning
    <3> QED BY <1>1, <3>1, <3>2, <3>3, <3>4, <3>5 DEF Step
  <2> QED BY <1>2, <1>4, <1>5, <2>1 DEF Cleaning, Returned, Syncing, Updating
<1> QED BY <1>2, <1>6, <1>7 DEF Running


-----------------------------------------------------------------------------
(* The invariant                                                           *)

HistoryStep ==
  /\ [ServiceNext]_allVars
  /\ \/ late' = late \cup (Underway' \cap (Services \ Active'))
     \/ UNCHANGED <<allVars, late>>

\* What is under way is active, late or nothing.
LEMMA LateStep ==
  ASSUME LateOK, HistoryStep
  PROVE  LateOK' /\ late \subseteq late'
BY DEF LateOK, HistoryStep, Underway, allVars, serviceVars, balancers, Active

\* Who gets a balancer although it is deleted is late, unless from the worker.
LEMMA NewIsLate ==
  ASSUME ServiceInv, LateOK, [ServiceNext]_allVars,
         NEW s \in Services, svc[s] # "active", ~lb[s], lb'[s],
         ~(work[Worker].pc = "create" /\ work[Worker].svc = s)
  PROVE  s \in late
<1>1. s \in Underway
  BY NewBalancer, TwoCallers DEF Underway
<1> QED BY <1>1 DEF LateOK, Active

LEMMA OrphanStep ==
  ASSUME HistoryInv, HistoryStep, ServiceInv'
  PROVE  OrphanOnlyLate'
<1>1. late \subseteq late' /\ ServiceInv /\ LateOK /\ [ServiceNext]_allVars
  BY LateStep DEF HistoryInv, HistoryStep
<1> SUFFICES ASSUME NEW s \in Services, svc'[s] = "gone", lb'[s] PROVE s \in late
  BY <1>1 DEF OrphanOnlyLate
<1>2. CASE ~ lb[s]
  <2>1. svc[s] = "gone"
    BY <1>1, <1>2, NewBalancer
  <2>2. ~(work[Worker].pc = "create" /\ work[Worker].svc = s)
    BY <1>1, <2>1, TaskFields, TwoCallers DEF TaskOK, Ensuring
  <2> QED BY <1>1, <1>2, <2>1, <2>2, NewIsLate
<1>3. CASE lb[s] /\ svc[s] = "gone"
  BY <1>3 DEF HistoryInv, OrphanOnlyLate
<1>4. CASE lb[s] /\ svc[s] # "gone"
  BY <1>1, <1>4, NewlyGone DEF HistoryInv, RemovalOK, BalancerGone
<1> QED BY <1>2, <1>3, <1>4

LEMMA RemovalStep ==
  ASSUME HistoryInv, HistoryStep, ServiceInv'
  PROVE  RemovalOK'
<1> DEFINE s == work'[Worker].svc
<1>1. late \subseteq late' /\ ServiceInv /\ LateOK /\ [ServiceNext]_allVars
  BY LateStep DEF HistoryInv, HistoryStep
<1> SUFFICES ASSUME work'[Worker].pc \in BalancerGone, lb'[s] PROVE s \in late
  BY <1>1 DEF RemovalOK
<1>2. lb'[s] # FALSE
  OBVIOUS
<1>3. work[Worker].pc \in BalancerGone /\ work[Worker].svc = s
  BY <1>1, <1>2, NewlyRemoved
<1>4. s \in Services /\ svc[s] = "deleting"
  BY <1>1, <1>3, WorkerDeletes, TwoCallers DEF BalancerGone, Deleting
<1>5. CASE lb[s]
  BY <1>3, <1>5 DEF HistoryInv, RemovalOK
<1>6. CASE ~ lb[s]
  BY <1>1, <1>3, <1>4, <1>6, NewIsLate DEF BalancerGone
<1> QED BY <1>5, <1>6

-----------------------------------------------------------------------------
(* The sweep                                                               *)

\* With no service left that could be late, the node syncer has nothing to do,
\* and the worker's calls only clean up.
LEMMA StillSwept ==
  ASSUME HistoryInv, [ServiceNext]_allVars, swept, late = {}, NEW L, CleanBut(L)
  PROVE  CleanBut(L)'
<1>1. Active = {} /\ ServiceInv /\ TypeOK /\ CallsMove
  BY Moves DEF HistoryInv, SweptOK, ServiceInv, GroupsOK
<1>2. call[NodeSyncer].pc \in Returned
  <2>1. work[NodeSyncer].svc \notin Services
    BY <1>1 DEF HistoryInv, LateOK, Underway
  <2> QED BY <1>1, <2>1, TaskFields, TwoCallers DEF TaskOK
<1>3. Worker \in Callers /\ NodeSyncer \in Callers
      /\ \A c \in Callers : c = Worker \/ c = NodeSyncer
  BY TwoCallers
<1>4. \A c \in Callers : call[c].pc \notin {"create", "add", "remove"}
  BY <1>2, <1>3 DEF CleanBut, WorkerSyncs, Returned, Syncing, Updating
<1>5. CASE UNCHANGED <<tgs, inflight, call>>
  BY <1>5 DEF CleanBut, WorkerSyncs, Coming
<1>6. ASSUME NEW c \in Callers, UNCHANGED <<tgs, inflight>>, OthersStay(c),
             \/ /\ call[c].pc \in Returned /\ call'[c].pc = "waiting"
                /\ c = Worker /\ Active = {} => DOMAIN call'[c].nodes = {}
             \/ call[c].pc = "waiting" /\ call'[c].pc \in {"list", "ok"}
             \/ call[c].pc = "waiting" /\ DOMAIN call[c].nodes # {} /\ call'[c].pc = "resolve"
      PROVE  CleanBut(L)'
  <2>1. ~WorkerSyncs'
    <3>1. CASE c = Worker
      BY <1>1, <1>6, <3>1 DEF CleanBut, WorkerSyncs, Syncing, Updating
    <3>2. CASE c # Worker
      BY <1>3, <1>6, <3>2 DEF CleanBut, WorkerSyncs, OthersStay
    <3> QED BY <3>1, <3>2
  <2> QED BY <1>6, <2>1 DEF CleanBut, Coming
<1>7. ASSUME NEW c \in Callers, CallStep(c) PROVE CleanBut(L)'
  <2>1. c = Worker
    BY <1>1, <1>2, <1>3, <1>7, CallStepEffects
    DEF Returned, Running, Syncing, Updating, Cleaning
  <2>2. call[c].pc # "create" /\ call[c].pc \notin {"resolve"} \cup Syncing
    BY <2>1 DEF CleanBut, WorkerSyncs, Syncing, Updating
  <2> QED BY <1>1, <1>7, <2>1, <2>2, CallStepEffects DEF CleanBut, WorkerSyncs, Coming
<1>8. ASSUME NEW c \in Callers, Fault(c) PROVE CleanBut(L)'
  <2>1. /\ call[c].pc \in Running /\ UNCHANGED tgs
        /\ call'[c].pc \in {"err", "abort"}
    BY <1>1, <1>8, CallFields
    DEF Fault, RemoteError, LoseOperation, LoseRemoveTG, Fail, Return, NoCall, Abandon,
        IsCall, cloud, At, Running, Syncing, Updating, Cleaning
  <2>2. c = Worker
    BY <1>2, <1>3, <2>1 DEF Returned, Running, Syncing, Updating, Cleaning
  <2>3. inflight' = inflight \/ \E g : inflight' = inflight \cup {Delete(g)}
    BY <1>4, <1>8 DEF Fault, RemoteError, LoseOperation, LoseRemoveTG, Abandon, cloud
  <2>4. \A g : Delete(g).op # "create"
    BY DEF Delete
  <2>5. Coming' = Coming
    BY <2>3, <2>4 DEF Coming
  <2> QED BY <2>1, <2>2, <2>5 DEF CleanBut, WorkerSyncs, Syncing, Updating
<1>9. ASSUME NEW o \in inflight, Land(o) PROVE CleanBut(L)'
  <2>1. UNCHANGED call /\ inflight' \subseteq inflight
    BY <1>9 DEF Land, Surviving
  <2>2. DOMAIN tgs' \subseteq DOMAIN tgs \cup Coming
    <3>1. o.op \in {"create", "add", "remove", "delete"}
      BY <1>1 DEF TypeOK, CloudOK, Operations
    <3> QED BY <1>9, <3>1 DEF Land, Accepted, After, Put, Drop, Coming
  <2> QED BY <2>1, <2>2 DEF CleanBut, WorkerSyncs, Coming
<1>10. CASE Restart
  <2>1. UNCHANGED tgs /\ call'[Worker].pc = "err"
    BY <1>3, <1>10 DEF Restart, NoCall
  <2>2. ASSUME NEW c \in Callers, NEW o \in Started(c) PROVE o.op = "delete"
    BY <1>4, <2>2 DEF Started, Delete
  <2>3. Coming' = Coming
    BY <1>10, <2>2 DEF Restart, Coming
  <2> QED BY <2>1, <2>3 DEF CleanBut, WorkerSyncs, Syncing, Updating
<1> QED BY <1>1, <1>5, <1>6, <1>7, <1>8, <1>9, <1>10 DEF CallsMove

\* The cleanup that sweeps is one of the worker's: if it was the node syncer's,
\* then for a service that is late.
LEMMA Sweeps ==
  ASSUME HistoryInv, HistoryStep, ServiceInv', Active' = {}, late' = {},
         NEW c \in Callers, CleanupSucceeds(c), leftover' = Reborn(call[c])
  PROVE  CleanBut(leftover)'
<1>1. /\ call[c].pc \in {"delete", "abort"} /\ call'[c].pc = "ok"
      /\ ServiceInv /\ TypeOK /\ CallsMove /\ LateOK' /\ [ServiceNext]_allVars
  BY Moves, LateStep DEF CleanupSucceeds, HistoryInv, HistoryStep, ServiceInv, GroupsOK
<1>2. At(c, "delete") /\ call[c].todo = {} /\ UNCHANGED cloud
  <2>1. [Next]_vars
    BY <1>1, ServiceStepSyncs DEF BalancerMoves, BalancersMove
  <2> QED BY <1>1, <2>1, OkFrom DEF Commit, At, Running, Cleaning
<1>3. (DOMAIN tgs' \cap OwnNames) \cup Coming' \subseteq Reborn(call[c])
  <2>1. Progress(call[c])
    BY <1>1 DEF ServiceInv, GroupsOK, CallsProgress
  <2>2. inflight \subseteq call[c].strays /\ DOMAIN tgs \cap OwnNames \subseteq Reborn(call[c])
    BY <1>2, <2>1 DEF Progress, At, Running, Cleaning
  <2> QED BY <1>2, <2>2 DEF Reborn, Coming, cloud
<1>4. Forget
  <2>1. ASSUME NEW d \in Callers, OthersStay(d), d # c PROVE FALSE
    BY <1>1, <2>1 DEF OthersStay
  <2>2. ~ \E d \in Callers : Fault(d)
    <3>1. ~ Fault(c)
      BY <1>1, CallFields DEF Fault, RemoteError, LoseOperation, LoseRemoveTG, Fail, Return,
                              NoCall, IsCall
    <3> QED BY <1>1, <2>1, <3>1, ActsOthersStay DEF Acts
  <2>3. ~ Restart /\ ~ \E o \in inflight : Land(o)
    BY <1>1 DEF Restart, NoCall, Land
  <2> QED BY <1>1, <2>1, <2>2, <2>3 DEF CallsMove, CallStep, Returned
<1>5. c = Worker
  <2>1. work[c].pc # "idle" /\ work[c].svc \in Services
    BY <1>1, TaskFields DEF TaskOK, Returned
  <2>2. work'[c].svc = work[c].svc
    <3>1. work'[c] = [work[c] EXCEPT !.group = @ /\ GroupOf[work[c].svc] \in DOMAIN tgs']
      BY <1>4 DEF Forget
    <3> QED BY <1>1, <3>1, TaskFields DEF Task
  <2>3. c # NodeSyncer
    BY <1>1, <2>1, <2>2 DEF LateOK, Underway
  <2> QED BY <2>3, TwoCallers
<1> QED BY <1>1, <1>3, <1>5 DEF CleanBut, WorkerSyncs, Syncing, Updating

-----------------------------------------------------------------------------
(* The invariant                                                           *)

LEMMA HistoryInitOK == HistoryInit => HistoryInv
<1> SUFFICES ASSUME HistoryInit PROVE HistoryInv
  OBVIOUS
<1>1. ServiceInv
  BY ServiceInitOK DEF HistoryInit
<1>2. work[NodeSyncer] = Idle /\ work[Worker] = Idle /\ lbOps = {}
  BY TwoCallers DEF HistoryInit, ServiceInit
<1>3. LateOK
  BY <1>2, ServiceAssumption DEF LateOK, Underway, Idle
<1>4. OrphanOnlyLate /\ RemovalOK /\ SweptOK
  BY <1>2 DEF OrphanOnlyLate, RemovalOK, SweptOK, Idle, BalancerGone, HistoryInit, ServiceInit
<1> QED BY <1>1, <1>3, <1>4 DEF HistoryInv

LEMMA HistoryNextOK ==
  HistoryInv /\ [HistoryNext]_<<allVars, history>> => HistoryInv'
<1> SUFFICES ASSUME HistoryInv, [HistoryNext]_<<allVars, history>> PROVE HistoryInv'
  OBVIOUS
<1>1. HistoryStep
  BY DEF HistoryNext, HistoryStep, history
<1>2. ServiceInv'
  BY <1>1, ServiceNextOK DEF HistoryStep, HistoryInv
<1>3. LateOK' /\ late \subseteq late'
  BY <1>1, LateStep DEF HistoryInv
<1>4. SweptOK'
  <2>1. CASE HistoryNext
    <3> SUFFICES ASSUME swept' PROVE Active' = {} /\ (late' = {} => CleanBut(leftover)')
      BY DEF SweptOK
    <3>1. Active' = {}
      BY <2>1 DEF HistoryNext, Sweep
    <3>2. ASSUME late' = {}, NEW c \in Callers, CleanupSucceeds(c),
                 leftover' = Reborn(call[c])
          PROVE  CleanBut(leftover)'
      BY <1>1, <1>2, <3>1, <3>2, Sweeps
    <3>3. ASSUME late' = {}, UNCHANGED <<swept, leftover>> PROVE CleanBut(leftover)'
      <4>1. swept /\ late = {} /\ CleanBut(leftover)
        BY <1>3, <3>3 DEF HistoryInv, SweptOK
      <4>2. \A L : L = leftover => CleanBut(L)'
        BY <1>1, <4>1, StillSwept DEF HistoryStep
      <4> QED BY <3>3, <4>2 DEF CleanBut
    <3> QED BY <2>1, <3>1, <3>2, <3>3 DEF HistoryNext, Sweep
  <2>2. CASE UNCHANGED <<allVars, history>>
    BY <2>2 DEF SweptOK, HistoryInv, CleanBut, Coming, WorkerSyncs, Active, allVars, vars,
                cloud, serviceVars, history
  <2> QED BY <2>1, <2>2
<1> QED BY <1>1, <1>2, <1>3, <1>4, OrphanStep, RemovalStep DEF HistoryInv

LEMMA HistoryInvariant == HistorySpec => []HistoryInv
BY HistoryInitOK, HistoryNextOK, PTL DEF HistorySpec

-----------------------------------------------------------------------------
(* The theorems                                                            *)

\* A balancer outlives its service only when, while this service was deleted or
\* afterwards, the node syncer was at work for it (load_balancer.go:88, 96), or a
\* creation was running that an earlier wait or process had given up (api.go:45).
THEOREM OrphansOnlyLate == HistorySpec => []OrphanOnlyLate
<1>1. HistoryInv => OrphanOnlyLate
  BY DEF HistoryInv
<1> QED BY <1>1, HistoryInvariant, PTL

\* After a cleanup that no service has followed, the cluster has no group but for
\* those that a creation from before the cleanup brings back (api.go:45), unless
\* somebody was still at work for a deleted service
\* (load_balancer_tg_controller.go:54-58).
THEOREM StaysSwept == HistorySpec => []SweptStaysClean
<1>1. HistoryInv => SweptStaysClean
  BY DEF HistoryInv, SweptOK, CleanBut, SweptStaysClean
<1> QED BY <1>1, HistoryInvariant, PTL

=============================================================================
