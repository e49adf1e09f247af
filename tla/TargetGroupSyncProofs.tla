------------------------ MODULE TargetGroupSyncProofs ------------------------
(***************************************************************************)
(* Theorems about TargetGroupSync, for all values of its constants and     *)
(* whatever fails: type correctness and mutual exclusion, then what a      *)
(* SyncTGs call achieves.  There the inductive invariant is TypeOK         *)
(* together with CallsProgress, and operations that outlive their waits    *)
(* are dealt with group by group.                                          *)
(***************************************************************************)
EXTENDS TargetGroupSync, TLAPS

-----------------------------------------------------------------------------
(* Maps and mappings                                                       *)

LEMMA PutMap ==
  ASSUME NEW f, NEW S, NEW k \in S, NEW v \in SUBSET Targets, IsGroupMap(f, S)
  PROVE  IsGroupMap(Put(f, k, v), S)
BY DEF IsGroupMap, Put

LEMMA DropMap ==
  ASSUME NEW f, NEW S, NEW k, IsGroupMap(f, S)
  PROVE  IsGroupMap(Drop(f, k), S)
BY DEF IsGroupMap, Drop

\* constructTgNameToTargetMap gives own names and targets.
LEMMA MappingType ==
  ASSUME NEW found, NEW labels,
         DOMAIN found \subseteq DOMAIN labels,
         \A n \in DOMAIN labels : labels[n] \in Prefixes,
         \A n \in DOMAIN found : found[n] \subseteq Interface,
         ~Addressless(found)
  PROVE  IsGroupMap(constructTgNameToTargetMap(found, labels), OwnNames)
<1>1. \A e \in Entries(found, labels) : e[1] \in OwnNames /\ e[2] \in Targets
  <2> SUFFICES ASSUME NEW n \in DOMAIN found, NEW i \in found[n]
               PROVE  /\ <<Truncate[labels[n]], i.net>> \in OwnNames
                      /\ i.target \in Targets
    BY DEF Entries
  <2>1. i.net \in Networks /\ i.target \in Targets
    BY DEF Interface, Addressless
  <2>2. Truncate[labels[n]] \in Prefixes
    BY WorldAssumption
  <2> QED BY <2>1, <2>2 DEF OwnNames
<1> QED BY <1>1 DEF IsGroupMap, constructTgNameToTargetMap

\* An accepted operation leaves the cloud well formed.
LEMMA AfterType ==
  ASSUME NEW o \in Operations, CloudOK, Accepted(o)
  PROVE  /\ IsGroupMap(After(o), Names)
         /\ inUse \subseteq DOMAIN After(o)
         /\ Surviving(o) \subseteq Operations
<1>1. CASE o.op = "create"
  BY <1>1, PutMap DEF CloudOK, Operations, Accepted, After, Surviving, Put
<1>2. CASE o.op = "add"
  <2>1. tgs[o.group] \cup o.targets \in SUBSET Targets
    BY <1>2 DEF CloudOK, Operations, Accepted, IsGroupMap
  <2> QED BY <1>2, <2>1, PutMap DEF CloudOK, Operations, Accepted, After, Surviving, Put
<1>3. CASE o.op = "remove"
  <2>1. tgs[o.group] \ o.targets \in SUBSET Targets
    BY <1>3 DEF CloudOK, Operations, Accepted, IsGroupMap
  <2> QED BY <1>3, <2>1, PutMap DEF CloudOK, Operations, Accepted, After, Surviving, Put
<1>4. CASE o.op = "delete"
  BY <1>4, DropMap DEF CloudOK, Operations, Accepted, After, Surviving, Drop
<1> QED BY <1>1, <1>2, <1>3, <1>4 DEF Operations

-----------------------------------------------------------------------------
(* Type correctness and mutual exclusion                                   *)

LEMMA NoCallOK == ASSUME NEW l \in Returned \cup {"waiting"} PROVE CallOK(NoCall(l))
BY DEF CallOK, IsCall, NoCall, Returned, Empty, IsGroupMap, Syncing, Updating, Cleaning, NoName

\* A step of c leaves the other calls alone.
OthersStay(c) ==
  /\ call' = [d \in Callers |-> call'[d]]
  /\ \A d \in Callers \ {c} : call'[d] = call[d]

LEMMA OneCall ==
  ASSUME NEW c \in Callers, CallsOK, CallOK(call'[c]), OthersStay(c)
  PROVE  CallsOK'
BY DEF CallsOK, OthersStay

\* The lock goes with the running calls: c takes the free lock, keeps what it
\* has, or gives its own back.
LEMMA OneLock ==
  ASSUME NEW c \in Callers, LockOK, OthersStay(c), lock \in {c, NoCaller},
         IF call'[c].pc \in Running \cup {"panic"} THEN lock' = c ELSE lock' = NoCaller
  PROVE  LockOK'
BY CallerAssumption DEF LockOK, OthersStay

\* A running call that returns.
LEMMA ReturnType ==
  ASSUME TypeOK, NEW c \in Callers, NEW result \in Returned,
         lock \in {c, NoCaller}, Return(c, result)
  PROVE  CallsOK' /\ LockOK' /\ lock' \in Callers \cup {NoCaller}
<1>1. OthersStay(c) /\ call'[c] = NoCall(result)
  BY DEF TypeOK, CallsOK, Return, OthersStay
<1>2. CallOK(call'[c])
  BY <1>1, NoCallOK
<1>3. call'[c].pc \notin Running \cup {"panic"}
  BY <1>1 DEF NoCall, Returned, Running, Syncing, Updating, Cleaning
<1> QED BY <1>1, <1>2, <1>3, OneCall, OneLock DEF TypeOK, Return

\* A running call that goes on.
LEMMA GoOnType ==
  ASSUME TypeOK, NEW c \in Callers, call[c].pc \in Running, UNCHANGED lock,
         OthersStay(c), CallOK(call'[c]), call'[c].pc \in Running \cup {"panic"}
  PROVE  CallsOK' /\ LockOK' /\ lock' \in Callers \cup {NoCaller}
<1>1. lock = c
  BY DEF TypeOK, LockOK
<1> QED BY <1>1, OneCall, OneLock DEF TypeOK

LEMMA StartType ==
  ASSUME TypeOK, NEW c \in Callers, NEW N \in SUBSET Nodes, Start(c, N)
  PROVE  TypeOK'
<1> USE DEF Returned, Updating, Syncing, Cleaning, Running
<1>1. OthersStay(c)
  BY DEF TypeOK, CallsOK, Start, OthersStay
<1>2. CallOK(call'[c]) /\ call'[c].pc = "waiting"
  BY DEF TypeOK, CallsOK, CallOK, IsCall, Start, NoCall, Empty, IsGroupMap, NoName
<1>3. LockOK'
  BY <1>1, <1>2 DEF TypeOK, LockOK, Start, OthersStay
<1> QED BY <1>1, <1>2, <1>3, OneCall DEF TypeOK, CloudOK, Start, cloud, world

LEMMA AcquireType ==
  ASSUME TypeOK, NEW c \in Callers, NEW active, Acquire(c, active)
  PROVE  TypeOK'
<1> USE DEF Returned, Updating, Syncing, Cleaning, Running
<1>1. CASE Return(c, "ok")
  BY <1>1, ReturnType DEF TypeOK, CloudOK, Acquire, cloud, world
<1>2. CASE ~Return(c, "ok")
  <2>1. OthersStay(c)
    BY <1>2 DEF TypeOK, CallsOK, Acquire, OthersStay
  <2>0. inflight \subseteq Operations
    BY DEF TypeOK, CloudOK
  <2>2. CASE /\ call' = [call EXCEPT ![c].pc = "list", ![c].strays = inflight]
             /\ lock' = c
    <3>1. CallOK(call'[c]) /\ call'[c].pc = "list"
      BY <2>0, <2>2 DEF TypeOK, CallsOK, CallOK, IsCall, Acquire, At
    <3> QED BY <2>1, <2>2, <3>1, OneCall, OneLock DEF TypeOK, CloudOK, Acquire, cloud, world
  <2>3. CASE /\ call' = [call EXCEPT ![c].pc = "resolve", ![c].todo = DOMAIN call[c].nodes,
                                     ![c].strays = inflight]
             /\ lock' = c
    <3>0. CallOK(call[c]) /\ call = [d \in Callers |-> call[d]] /\ call[c].pc = "waiting"
      BY DEF TypeOK, CallsOK, Acquire, At
    <3>2. /\ IsCall(call'[c]) /\ call'[c].pc = "resolve"
          /\ call'[c].nodes = call[c].nodes /\ call'[c].found = call[c].found
          /\ call'[c].want = call[c].want /\ call'[c].todo = DOMAIN call[c].nodes
          /\ call'[c].cur = call[c].cur /\ call'[c].snap = call[c].snap
          /\ call'[c].strays = inflight
      BY <2>3, <3>0 DEF CallOK, IsCall
    <3>1. CallOK(call'[c]) /\ call'[c].pc = "resolve"
      BY <2>0, <3>0, <3>2 DEF CallOK
    <3> QED BY <2>1, <2>3, <3>1, OneCall, OneLock DEF TypeOK, CloudOK, Acquire, cloud, world
  <2> QED BY <1>2, <2>2, <2>3 DEF Acquire
<1> QED BY <1>1, <1>2

LEMMA LookupType ==
  ASSUME TypeOK, NEW c \in Callers, NEW n, Lookup(c, n)
  PROVE  TypeOK'
<1> USE DEF Returned, Updating, Syncing, Cleaning, Running
<1>0. call[c].pc = "resolve" /\ lock = c
  BY DEF TypeOK, LockOK, Lookup, At
<1>1. CASE Fail(c)
  BY <1>0, <1>1, ReturnType DEF TypeOK, CloudOK, Lookup, Fail, cloud, world
<1>2. CASE ~Fail(c)
  <2>0. CallOK(call[c]) /\ call = [d \in Callers |-> call[d]]
    BY DEF TypeOK, CallsOK
  <2>1. OthersStay(c)
    BY <1>2 DEF TypeOK, CallsOK, Lookup, OthersStay
  <2>2. CASE call' = [call EXCEPT ![c].todo = @ \ {n}]
    <3>0. /\ IsCall(call'[c]) /\ call'[c].pc = "resolve"
          /\ call'[c].nodes = call[c].nodes /\ call'[c].found = call[c].found
          /\ call'[c].want = call[c].want /\ call'[c].todo = call[c].todo \ {n}
          /\ call'[c].cur = call[c].cur /\ call'[c].snap = call[c].snap
          /\ call'[c].strays = call[c].strays
      BY <1>0, <2>0, <2>2 DEF CallOK, IsCall
    <3>1. CallOK(call'[c]) /\ call'[c].pc = "resolve"
      BY <1>0, <2>0, <3>0 DEF CallOK
    <3> QED BY <1>0, <1>2, <2>1, <2>2, <3>1, GoOnType DEF TypeOK, CloudOK, Lookup, cloud, world
  <2>3. CASE call' = [call EXCEPT ![c].todo = @ \ {n}, ![c].found = Put(@, n, nics[n])]
    <3>1. n \in DOMAIN call[c].nodes /\ nics[n] \subseteq Interface
      BY <1>0 DEF TypeOK, CallsOK, CallOK, Lookup
    <3>2. /\ DOMAIN Put(call[c].found, n, nics[n]) \subseteq DOMAIN call[c].nodes
          /\ \A m \in DOMAIN Put(call[c].found, n, nics[n]) :
               Put(call[c].found, n, nics[n])[m] \subseteq Interface
      BY <3>1 DEF TypeOK, CallsOK, CallOK, Put
    <3>0. /\ IsCall(call'[c]) /\ call'[c].pc = "resolve"
          /\ call'[c].nodes = call[c].nodes /\ call'[c].want = call[c].want
          /\ call'[c].found = Put(call[c].found, n, nics[n])
          /\ call'[c].todo = call[c].todo \ {n}
          /\ call'[c].cur = call[c].cur /\ call'[c].snap = call[c].snap
          /\ call'[c].strays = call[c].strays
      BY <1>0, <2>0, <2>3 DEF CallOK, IsCall
    <3>3. CallOK(call'[c]) /\ call'[c].pc = "resolve"
      BY <1>0, <2>0, <3>0, <3>2 DEF CallOK
    <3> QED BY <1>0, <1>2, <2>1, <2>3, <3>3, GoOnType DEF TypeOK, CloudOK, Lookup, cloud, world
  <2> QED BY <1>2, <2>2, <2>3 DEF Lookup
<1> QED BY <1>1, <1>2

LEMMA BuildMappingType ==
  ASSUME TypeOK, NEW c \in Callers, BuildMapping(c)
  PROVE  TypeOK'
<1> USE DEF Returned, Updating, Syncing, Cleaning, Running
<1> DEFINE mapping == constructTgNameToTargetMap(call[c].found, call[c].nodes)
<1>0. call[c].pc = "resolve" /\ lock = c
  BY DEF TypeOK, LockOK, BuildMapping, At
<1>1. CASE Fail(c)
  BY <1>0, <1>1, ReturnType DEF TypeOK, CloudOK, BuildMapping, Fail, cloud, world
<1>3. CASE call' = [call EXCEPT ![c].pc = "panic"] /\ UNCHANGED <<lock, cache>>
  <2>1. CallOK(call[c]) /\ call = [d \in Callers |-> call[d]] /\ call[c].todo = {}
    BY DEF TypeOK, CallsOK, BuildMapping
  <2>2. /\ OthersStay(c) /\ IsCall(call'[c]) /\ call'[c].pc = "panic"
        /\ call'[c].nodes = call[c].nodes /\ call'[c].found = call[c].found
        /\ call'[c].want = call[c].want /\ call'[c].todo = {}
        /\ call'[c].cur = call[c].cur /\ call'[c].snap = call[c].snap
        /\ call'[c].strays = call[c].strays
    BY <1>3, <2>1 DEF CallOK, IsCall, OthersStay
  <2>3. CallOK(call'[c])
    BY <1>0, <2>1, <2>2 DEF CallOK
  <2> QED BY <1>0, <1>3, <2>2, <2>3, GoOnType DEF TypeOK, CloudOK, BuildMapping, cloud, world
<1>2. CASE /\ call' = [call EXCEPT ![c].pc = "next", ![c].want = mapping,
                                   ![c].todo = DOMAIN mapping]
           /\ UNCHANGED <<lock, cache>> /\ ~Addressless(call[c].found)
  <2>1. IsGroupMap(mapping, OwnNames)
    <3>1. CallOK(call[c])
      BY DEF TypeOK, CallsOK
    <3> HIDE DEF mapping
    <3>2. /\ DOMAIN call[c].found \subseteq DOMAIN call[c].nodes
          /\ \A n \in DOMAIN call[c].nodes : call[c].nodes[n] \in Prefixes
          /\ \A n \in DOMAIN call[c].found : call[c].found[n] \subseteq Interface
      BY <3>1 DEF CallOK
    <3> QED BY <1>2, <3>2, MappingType DEF mapping
  <2> HIDE DEF mapping
  <2>2. OthersStay(c)
    BY <1>2 DEF TypeOK, CallsOK, OthersStay
  <2>3. CallOK(call'[c]) /\ call'[c].pc = "next"
    <3>1. CallOK(call[c]) /\ call = [d \in Callers |-> call[d]]
      BY DEF TypeOK, CallsOK
    <3>2. /\ IsCall(call'[c]) /\ call'[c].pc = "next"
          /\ call'[c].nodes = call[c].nodes /\ call'[c].found = call[c].found
          /\ call'[c].want = mapping /\ call'[c].todo = DOMAIN mapping
          /\ call'[c].cur = call[c].cur /\ call'[c].snap = call[c].snap
          /\ call'[c].strays = call[c].strays
      BY <1>2, <3>1 DEF CallOK, IsCall
    <3> QED BY <1>0, <2>1, <3>1, <3>2 DEF CallOK
  <2> QED BY <1>0, <1>2, <2>2, <2>3, GoOnType DEF TypeOK, CloudOK, BuildMapping, cloud, world
<1> QED BY <1>1, <1>2, <1>3 DEF BuildMapping

LEMMA GetGroupType ==
  ASSUME TypeOK, NEW c \in Callers, NEW g, GetGroup(c, g)
  PROVE  TypeOK'
<1> USE DEF Returned, Updating, Syncing, Cleaning, Running
<1>1. OthersStay(c)
  BY DEF TypeOK, CallsOK, GetGroup, OthersStay
<1>2. g \in DOMAIN tgs => tgs[g] \subseteq Targets
  BY DEF TypeOK, CloudOK, IsGroupMap
<1>3. CallOK(call'[c]) /\ call'[c].pc \in Syncing
  <2>1. CallOK(call[c]) /\ call = [d \in Callers |-> call[d]]
    BY DEF TypeOK, CallsOK
  <2>2. /\ IsCall(call'[c])
        /\ call'[c].nodes = call[c].nodes /\ call'[c].found = call[c].found
        /\ call'[c].want = call[c].want /\ call'[c].strays = call[c].strays
    BY <2>1 DEF CallOK, IsCall, GetGroup
  <2>3. CASE call' = [call EXCEPT ![c].todo = @ \ {g}]
    <3>1. /\ call'[c].pc = call[c].pc /\ call'[c].todo = call[c].todo \ {g}
          /\ call'[c].cur = call[c].cur /\ call'[c].snap = call[c].snap
      BY <2>1, <2>3 DEF CallOK, IsCall
    <3> QED BY <2>1, <2>2, <3>1 DEF CallOK, GetGroup, At
  <2>4. CASE /\ call'[c].pc \in Updating /\ call'[c].cur = g
             /\ call'[c].todo = call[c].todo
             /\ call'[c].snap \subseteq Targets
    BY <2>1, <2>2, <2>4 DEF CallOK, GetGroup, At
  <2>5. CASE ~(call' = [call EXCEPT ![c].todo = @ \ {g}])
    <3> DEFINE Reads == /\ call'[c].pc \in {"create", "add", "remove"}
                        /\ call'[c].cur = g /\ call'[c].todo = call[c].todo
                        /\ call'[c].snap \subseteq Targets
    <3>1. CASE call' = [call EXCEPT ![c].pc = "create", ![c].cur = g]
      <4>1. call[c].snap \subseteq Targets /\ IsCall(call[c])
        BY <2>1 DEF CallOK
      <4>2. Reads
        BY <2>1, <3>1, <4>1 DEF IsCall
      <4> QED BY <2>4, <4>2
    <3>2. CASE /\ call' = [call EXCEPT ![c].pc = "add", ![c].cur = g, ![c].snap = tgs[g]]
               /\ g \in DOMAIN tgs
      <4>1. IsCall(call[c])
        BY <2>1 DEF CallOK
      <4>2. Reads
        BY <1>2, <2>1, <3>2, <4>1 DEF IsCall
      <4> QED BY <2>4, <4>2
    <3>3. CASE /\ call' = [call EXCEPT ![c].pc = "remove", ![c].cur = g, ![c].snap = tgs[g]]
               /\ g \in DOMAIN tgs
      <4>1. IsCall(call[c])
        BY <2>1 DEF CallOK
      <4>2. Reads
        BY <1>2, <2>1, <3>3, <4>1 DEF IsCall
      <4> QED BY <2>4, <4>2
    <3> QED BY <2>5, <3>1, <3>2, <3>3 DEF GetGroup
  <2> QED BY <2>3, <2>5
<1> QED BY <1>1, <1>3, GoOnType DEF TypeOK, CloudOK, GetGroup, At, cloud, world

\* The operation at hand is one, and works on a group of the mapping.
LEMMA OperationType ==
  ASSUME TypeOK, NEW c \in Callers, call[c].pc \in {"create", "add", "remove"}
  PROVE  /\ Operation(c) \in Operations
         /\ Operation(c).group = call[c].cur
         /\ call[c].cur \in call[c].todo
         /\ call[c].todo \subseteq DOMAIN call[c].want
         /\ lock = c
<1> USE DEF Returned, Updating, Syncing, Cleaning, Running
<1>1. CallOK(call[c]) /\ lock = c
  BY DEF TypeOK, CallsOK, LockOK
<1>2. /\ call[c].cur \in call[c].todo
      /\ call[c].todo \subseteq DOMAIN call[c].want
      /\ call[c].want[call[c].cur] \subseteq Targets
      /\ call[c].cur \in Names
      /\ call[c].snap \subseteq Targets
  BY <1>1 DEF CallOK, IsGroupMap, Names
<1> QED
  BY <1>1, <1>2 DEF Operation, Operations, Create, AddTargets, RemoveTargets, At

\* A step that applies an operation keeps the cloud in shape.
LEMMA ApplyType ==
  ASSUME CloudOK, NEW o \in Operations, Accepted(o), Apply(o)
  PROVE  CloudOK'
BY AfterType DEF Apply, CloudOK

LEMMA AbandonType ==
  ASSUME CloudOK, NEW o \in Operations, Abandon(o)
  PROVE  CloudOK'
BY DEF Abandon, CloudOK, IsGroupMap

\* CreateOrUpdateTG returns, goes on to its next request, or panics.
LEMMA GroupDoneType ==
  ASSUME TypeOK, NEW c \in Callers, call[c].pc \in Updating, GroupDone(c)
  PROVE  OthersStay(c) /\ CallOK(call'[c]) /\ call'[c].pc = "next"
<1>1. CallOK(call[c]) /\ call = [d \in Callers |-> call[d]]
  BY DEF TypeOK, CallsOK
<1>2. IsCall(call[c])
  BY <1>1 DEF CallOK
<1>3. OthersStay(c)
  BY <1>1 DEF GroupDone, OthersStay
<1>4. /\ IsCall(call'[c]) /\ call'[c].pc = "next"
      /\ call'[c].nodes = call[c].nodes /\ call'[c].found = call[c].found
      /\ call'[c].want = call[c].want /\ call'[c].todo = call[c].todo \ {call[c].cur}
      /\ call'[c].cur = NoName /\ call'[c].snap = {}
      /\ call'[c].strays = call[c].strays
  BY <1>1, <1>2 DEF GroupDone, IsCall
<1>5. call'[c].todo \subseteq DOMAIN call'[c].want
  BY <1>1, <1>4 DEF CallOK, Syncing, Updating
<1>6. /\ DOMAIN call'[c].nodes \subseteq Nodes
      /\ \A n \in DOMAIN call'[c].nodes : call'[c].nodes[n] \in Prefixes
      /\ DOMAIN call'[c].found \subseteq DOMAIN call'[c].nodes
      /\ \A n \in DOMAIN call'[c].found : call'[c].found[n] \subseteq Interface
      /\ IsGroupMap(call'[c].want, OwnNames)
  BY <1>1, <1>4 DEF CallOK
<1>7. /\ call'[c].cur = NoName /\ call'[c].snap \subseteq Targets
      /\ call'[c].strays \subseteq Operations
  BY <1>1, <1>4 DEF CallOK
<1> QED
  BY <1>3, <1>4, <1>5, <1>6, <1>7
  DEF CallOK, Returned, Running, Syncing, Updating, Cleaning

LEMMA LabelType ==
  ASSUME TypeOK, NEW c \in Callers, call[c].pc \in Updating,
         NEW l \in Updating \cup {"panic"}, call' = [call EXCEPT ![c].pc = l]
  PROVE  OthersStay(c) /\ CallOK(call'[c]) /\ call'[c].pc = l
<1>1. CallOK(call[c]) /\ call = [d \in Callers |-> call[d]]
  BY DEF TypeOK, CallsOK
<1>2. OthersStay(c)
  BY <1>1 DEF OthersStay
<1>3. IsCall(call[c])
  BY <1>1 DEF CallOK
<1>4. /\ IsCall(call'[c]) /\ call'[c].pc = l
      /\ call'[c].nodes = call[c].nodes /\ call'[c].found = call[c].found
      /\ call'[c].want = call[c].want /\ call'[c].todo = call[c].todo
      /\ call'[c].cur = call[c].cur /\ call'[c].snap = call[c].snap
      /\ call'[c].strays = call[c].strays
  BY <1>1, <1>3 DEF IsCall
<1> QED
  BY <1>1, <1>2, <1>4 DEF CallOK, Returned, Running, Syncing, Updating, Cleaning

LEMMA CreateTGType ==
  ASSUME TypeOK, NEW c \in Callers, CreateTG(c)
  PROVE  TypeOK'
<1>1. CloudOK'
  BY OperationType, ApplyType DEF CreateTG, At, TypeOK
<1>2. CallsOK' /\ LockOK' /\ lock' \in Callers \cup {NoCaller}
  BY GroupDoneType, GoOnType DEF CreateTG, At, Running, Syncing, Updating
<1> QED BY <1>1, <1>2 DEF TypeOK, CreateTG, world

LEMMA AddTGTargetsType ==
  ASSUME TypeOK, NEW c \in Callers, AddTGTargets(c)
  PROVE  TypeOK'
<1>1. CloudOK'
  BY OperationType, ApplyType DEF AddTGTargets, At, TypeOK
<1>2. PICK l \in {"remove", "recheck"} : call' = [call EXCEPT ![c].pc = l]
  BY DEF AddTGTargets
<1>3. CallsOK' /\ LockOK' /\ lock' \in Callers \cup {NoCaller}
  BY <1>2, LabelType, GoOnType DEF AddTGTargets, At, Running, Syncing, Updating
<1> QED BY <1>1, <1>3 DEF TypeOK, AddTGTargets, world

LEMMA RemoveTGTargetsType ==
  ASSUME TypeOK, NEW c \in Callers, RemoveTGTargets(c)
  PROVE  TypeOK'
<1>1. CloudOK'
  BY OperationType, ApplyType DEF RemoveTGTargets, At, TypeOK
<1>2. CallsOK' /\ LockOK' /\ lock' \in Callers \cup {NoCaller}
  BY LabelType, GoOnType DEF RemoveTGTargets, At, Running, Syncing, Updating
<1> QED BY <1>1, <1>2 DEF TypeOK, RemoveTGTargets, world

LEMMA RecheckType ==
  ASSUME TypeOK, NEW c \in Callers, Recheck(c)
  PROVE  TypeOK'
<1>1. CallsOK' /\ LockOK' /\ lock' \in Callers \cup {NoCaller}
  BY GroupDoneType, LabelType, GoOnType
  DEF Recheck, At, Running, Syncing, Updating
<1> QED BY <1>1 DEF TypeOK, CloudOK, Recheck, cloud, world

\* A call of a running caller that ends with an error.
LEMMA FailType ==
  ASSUME TypeOK, NEW c \in Callers, call[c].pc \in Running, Fail(c), CloudOK',
         UNCHANGED world
  PROVE  TypeOK'
<1>1. lock = c
  BY DEF TypeOK, LockOK
<1> QED BY <1>1, ReturnType DEF TypeOK, Fail, Returned, world

LEMMA RefuseOperationType ==
  ASSUME TypeOK, NEW c \in Callers, RefuseOperation(c)
  PROVE  TypeOK'
BY FailType DEF RefuseOperation, Running, Syncing, Updating, TypeOK, CloudOK, cloud

LEMMA LoseOperationType ==
  ASSUME TypeOK, NEW c \in Callers, LoseOperation(c)
  PROVE  TypeOK'
BY FailType, OperationType, AbandonType
DEF LoseOperation, Running, Syncing, Updating, TypeOK

LEMMA CommitType ==
  ASSUME TypeOK, NEW c \in Callers, Commit(c)
  PROVE  TypeOK'
<1>1. call[c].pc \in Running
  BY DEF Commit, At, Running, Syncing
<1>2. DOMAIN call[c].nodes \subseteq Nodes /\ lock = c
  BY <1>1 DEF TypeOK, CallsOK, CallOK, LockOK
<1> QED BY <1>2, ReturnType DEF TypeOK, CloudOK, Commit, Returned, cloud, world

\* A cleanup that goes on with fewer or newly listed groups.
LEMMA CleaningType ==
  ASSUME TypeOK, NEW c \in Callers, call[c].pc \in Cleaning,
         NEW l \in Cleaning, NEW T \in SUBSET Names,
         call' = [call EXCEPT ![c].pc = l, ![c].todo = T], UNCHANGED lock
  PROVE  CallsOK' /\ LockOK' /\ lock' \in Callers \cup {NoCaller}
<1>1. CallOK(call[c]) /\ call = [d \in Callers |-> call[d]]
  BY DEF TypeOK, CallsOK
<1>2. OthersStay(c)
  BY <1>1 DEF OthersStay
<1>3. IsCall(call[c])
  BY <1>1 DEF CallOK
<1>4. /\ IsCall(call'[c]) /\ call'[c].pc = l
      /\ call'[c].nodes = call[c].nodes /\ call'[c].found = call[c].found
      /\ call'[c].want = call[c].want /\ call'[c].todo = T
      /\ call'[c].cur = call[c].cur /\ call'[c].snap = call[c].snap
      /\ call'[c].strays = call[c].strays
  BY <1>1, <1>3 DEF IsCall
<1>5. CallOK(call'[c])
  BY <1>1, <1>4 DEF CallOK, Returned, Running, Syncing, Updating, Cleaning
<1> QED BY <1>2, <1>4, <1>5, GoOnType DEF Running

LEMMA GetTGsByClusterNameType ==
  ASSUME TypeOK, NEW c \in Callers, GetTGsByClusterName(c)
  PROVE  TypeOK'
<1>1. DOMAIN tgs \cap (OwnNames \cup Matching) \in SUBSET Names
  BY DEF TypeOK, CloudOK, IsGroupMap
<1>2. CallsOK' /\ LockOK' /\ lock' \in Callers \cup {NoCaller}
  BY <1>1, CleaningType DEF GetTGsByClusterName, At, Cleaning
<1> QED BY <1>2 DEF TypeOK, CloudOK, GetTGsByClusterName, cloud, world

LEMMA DeleteType ==
  ASSUME NEW g \in Names
  PROVE  Delete(g) \in Operations /\ Delete(g).group = g /\ Delete(g).op = "delete"
BY DEF Delete, Operations

\* One deletion less to wait for.
LEMMA LessTodo ==
  ASSUME TypeOK, NEW c \in Callers, call[c].pc \in {"delete", "abort"}, NEW g,
         NEW l \in {"delete", "abort"}, UNCHANGED lock,
         \/ call' = [call EXCEPT ![c].pc = l, ![c].todo = @ \ {g}]
         \/ call' = [call EXCEPT ![c].todo = @ \ {g}]
  PROVE  CallsOK' /\ LockOK' /\ lock' \in Callers \cup {NoCaller}
<1>1. /\ CallOK(call[c]) /\ IsCall(call[c])
      /\ call = [d \in Callers |-> call[d]]
  BY DEF TypeOK, CallsOK, CallOK
<1>2. call[c].todo \ {g} \in SUBSET Names
  BY <1>1 DEF CallOK, Cleaning
<1>3. CASE call' = [call EXCEPT ![c].pc = l, ![c].todo = @ \ {g}]
  BY <1>2, <1>3, CleaningType DEF Cleaning
<1>4. CASE call' = [call EXCEPT ![c].todo = @ \ {g}]
  <2>1. call' = [call EXCEPT ![c].pc = call[c].pc, ![c].todo = call[c].todo \ {g}]
    BY <1>1, <1>4 DEF IsCall
  <2> QED BY <1>2, <2>1, CleaningType DEF Cleaning
<1> QED BY <1>3, <1>4

LEMMA RemoveTGType ==
  ASSUME TypeOK, NEW c \in Callers, NEW g \in Names, RemoveTG(c, g)
  PROVE  TypeOK'
<1>1. CloudOK'
  <2>1. CASE Accepted(Delete(g)) /\ Apply(Delete(g))
    BY <2>1, DeleteType, ApplyType DEF TypeOK
  <2>2. CASE UNCHANGED cloud
    BY <2>2 DEF TypeOK, CloudOK, cloud
  <2> QED BY <2>1, <2>2 DEF RemoveTG
<1>2. CallsOK' /\ LockOK' /\ lock' \in Callers \cup {NoCaller}
  BY LessTodo DEF RemoveTG
<1> QED BY <1>1, <1>2 DEF TypeOK, RemoveTG, world

LEMMA FailRemoveTGType ==
  ASSUME TypeOK, NEW c \in Callers, NEW g \in Names, FailRemoveTG(c, g)
  PROVE  TypeOK'
<1>1. CallsOK' /\ LockOK' /\ lock' \in Callers \cup {NoCaller}
  BY LessTodo DEF FailRemoveTG
<1> QED BY <1>1 DEF TypeOK, CloudOK, FailRemoveTG, cloud, world

LEMMA LoseRemoveTGType ==
  ASSUME TypeOK, NEW c \in Callers, NEW g \in Names, LoseRemoveTG(c, g)
  PROVE  TypeOK'
<1>1. CloudOK'
  BY DeleteType, AbandonType DEF LoseRemoveTG, TypeOK
<1>2. CallsOK' /\ LockOK' /\ lock' \in Callers \cup {NoCaller}
  BY LessTodo DEF LoseRemoveTG, At
<1> QED BY <1>1, <1>2 DEF TypeOK, LoseRemoveTG, world

LEMMA SkipRemoveTGType ==
  ASSUME TypeOK, NEW c \in Callers, NEW g \in Names, SkipRemoveTG(c, g)
  PROVE  TypeOK'
<1>1. CallsOK' /\ LockOK' /\ lock' \in Callers \cup {NoCaller}
  BY LessTodo DEF SkipRemoveTG, At
<1> QED BY <1>1 DEF TypeOK, CloudOK, SkipRemoveTG, cloud, world

LEMMA CleanupEndType ==
  ASSUME TypeOK, NEW c \in Callers, CleanupEnd(c)
  PROVE  TypeOK'
<1>1. lock = c
  BY DEF TypeOK, LockOK, CleanupEnd, At, Running, Cleaning
<1>2. CASE At(c, "delete") /\ cache' = {} /\ Return(c, "ok")
  BY <1>1, <1>2, ReturnType DEF TypeOK, CloudOK, CleanupEnd, Returned, cloud, world
<1>3. CASE At(c, "abort") /\ Fail(c)
  BY <1>3, FailType DEF CleanupEnd, At, Running, Cleaning, TypeOK, CloudOK, cloud
<1> QED BY <1>2, <1>3 DEF CleanupEnd

LEMMA RemoteErrorType ==
  ASSUME TypeOK, NEW c \in Callers, RemoteError(c)
  PROVE  TypeOK'
BY FailType
DEF RemoteError, At, Running, Syncing, Updating, Cleaning, TypeOK, CloudOK, cloud

\* What a crash leaves running are operations.
LEMMA StartedType ==
  ASSUME TypeOK, NEW c \in Callers
  PROVE  Started(c) \subseteq Operations
<1>1. CASE call[c].pc \in {"create", "add", "remove"}
  BY <1>1, OperationType DEF Started
<1>2. CASE call[c].pc \in {"delete", "abort"}
  <2>1. call[c].todo \subseteq Names
    BY <1>2 DEF TypeOK, CallsOK, CallOK, Cleaning
  <2> QED BY <1>2, <2>1, DeleteType DEF Started
<1> QED BY <1>1, <1>2 DEF Started

LEMMA EnvironmentType ==
  ASSUME TypeOK, Environment
  PROVE  TypeOK'
<1>1. ASSUME NEW o \in inflight, Land(o) PROVE TypeOK'
  <2>1. o \in Operations
    BY DEF TypeOK, CloudOK
  <2>2. CloudOK'
    BY <1>1, <2>1, AfterType DEF Land, TypeOK, CloudOK, IsGroupMap
  <2> QED BY <1>1, <2>2 DEF Land, TypeOK, CallsOK, LockOK, world
<1>2. ASSUME NEW g \in Names, Attach(g) \/ Detach(g) PROVE TypeOK'
  BY <1>2 DEF Attach, Detach, TypeOK, CloudOK, CallsOK, LockOK, world
<1>3. ASSUME NEW n \in Nodes, Relabel(n) PROVE TypeOK'
  BY <1>3, WorldAssumption DEF Relabel, TypeOK, CloudOK, CallsOK, LockOK, cloud
<1>4. ASSUME NEW n \in Nodes, Recreate(n) PROVE TypeOK'
  BY <1>4, WorldAssumption DEF Recreate, TypeOK, CloudOK, CallsOK, LockOK, cloud
<1>5. ASSUME Restart PROVE TypeOK'
  <2>0. CloudOK'
    <3>1. \A c \in Callers : Started(c) \subseteq Operations
      BY StartedType
    <3>2. inflight' \subseteq Operations
      BY <1>5, <3>1 DEF Restart, TypeOK, CloudOK
    <3> QED BY <1>5, <3>2 DEF Restart, TypeOK, CloudOK, IsGroupMap
  <2>1. CallOK(NoCall("err"))
    BY NoCallOK DEF Returned
  <2>2. CallsOK'
    BY <1>5, <2>1 DEF Restart, CallsOK
  <2>3. LockOK'
    BY <1>5, CallerAssumption
    DEF Restart, LockOK, NoCall, Running, Syncing, Updating, Cleaning
  <2> QED BY <1>5, <2>0, <2>2, <2>3 DEF Restart, TypeOK, world
<1> QED BY <1>1, <1>2, <1>3, <1>4, <1>5 DEF Environment

LEMMA TypeInit == Init => TypeOK
<1> SUFFICES ASSUME Init PROVE TypeOK
  OBVIOUS
<1>1. CloudOK
  BY DEF Init, CloudOK, IsGroupMap, Names
<1>2. CallsOK
  BY NoCallOK DEF Init, CallsOK, Returned
<1>3. LockOK
  BY CallerAssumption
  DEF Init, LockOK, NoCall, Running, Syncing, Updating, Cleaning
<1>4. annotation \in [Nodes -> Prefixes]
  BY DEF Init
<1>5. nics \in [Nodes -> SUBSET Interface]
  <2>1. \A n \in Nodes : nics[n] \subseteq Interface
    BY WorldAssumption DEF Init
  <2> QED BY <2>1 DEF Init
<1> QED BY <1>1, <1>2, <1>3, <1>4, <1>5 DEF Init, TypeOK

LEMMA TypeNext == TypeOK /\ [Next]_vars => TypeOK'
<1> SUFFICES ASSUME TypeOK, [Next]_vars PROVE TypeOK'
  OBVIOUS
<1>1. ASSUME NEW c \in Callers, Step(c) PROVE TypeOK'
  BY <1>1, LookupType, BuildMappingType, GetGroupType, CreateTGType,
     AddTGTargetsType, RemoveTGTargetsType, RecheckType, RefuseOperationType,
     CommitType, GetTGsByClusterNameType, RemoveTGType, FailRemoveTGType,
     SkipRemoveTGType, CleanupEndType
  DEF Step
<1>2. ASSUME NEW c \in Callers, Fault(c) PROVE TypeOK'
  BY <1>2, RemoteErrorType, LoseOperationType, LoseRemoveTGType DEF Fault
<1>3. CASE UNCHANGED vars
  BY <1>3 DEF vars, cloud, world, TypeOK, CloudOK, CallsOK, LockOK
<1> QED
  BY <1>1, <1>2, <1>3, StartType, AcquireType, EnvironmentType DEF Next

\* The state keeps its shape, and tgSyncLock its promise, whatever fails: also
\* when operations outlive their wait, a call panics, the process restarts.
THEOREM TypeCorrect == Spec => []TypeOK
BY TypeInit, TypeNext, PTL DEF Spec

-----------------------------------------------------------------------------
(* What a call achieves                                                    *)

\* A group of the mapping is there for some target of it.
LEMMA MappingNonEmpty ==
  ASSUME NEW found, NEW labels, NEW g \in DOMAIN constructTgNameToTargetMap(found, labels)
  PROVE  constructTgNameToTargetMap(found, labels)[g] # {}
<1>1. PICK e \in Entries(found, labels) : g = e[1]
  BY DEF constructTgNameToTargetMap
<1> QED BY <1>1 DEF constructTgNameToTargetMap

\* While c holds the lock, or nobody does, the others claim nothing.
LEMMA OthersProgress ==
  ASSUME TypeOK, NEW c \in Callers, lock \in {c, NoCaller}, OthersStay(c),
         Progress(call[c])'
  PROVE  CallsProgress'
<1> SUFFICES ASSUME NEW d \in Callers, d # c PROVE Progress(call[d])'
  BY DEF CallsProgress
<1>1. call[d].pc \notin Running \cup {"panic"} /\ call'[d] = call[d]
  BY CallerAssumption DEF TypeOK, LockOK, OthersStay
<1> QED BY <1>1 DEF Progress, Running, Syncing, Updating, Cleaning

LEMMA ReturnProgress ==
  ASSUME TypeOK, NEW c \in Callers, lock \in {c, NoCaller}, NEW result \in Returned,
         Return(c, result)
  PROVE  CallsProgress'
<1>1. OthersStay(c) /\ call'[c] = NoCall(result)
  BY DEF TypeOK, CallsOK, Return, OthersStay
<1>2. Progress(call[c])'
  BY <1>1 DEF NoCall, Returned, Progress, Running, Syncing, Updating, Cleaning
<1> QED BY <1>1, <1>2, OthersProgress

\* Nothing of what Progress speaks of changes.
LEMMA StillProgress ==
  ASSUME NEW c \in Callers, Progress(call[c]), UNCHANGED <<tgs, inflight>>,
         call'[c] = call[c]
  PROVE  Progress(call[c])'
BY DEF Progress, Holds, Disturbed, Reborn

-----------------------------------------------------------------------------
(* CallsProgress is preserved                                              *)

\* The fields of a call that CallsProgress speaks of.
LEMMA CallFields ==
  ASSUME TypeOK, NEW c \in Callers
  PROVE  /\ call = [d \in Callers |-> call[d]]
         /\ IsCall(call[c]) /\ CallOK(call[c])
         /\ call[c].pc \in Running \cup {"panic"} => lock = c
BY DEF TypeOK, CallsOK, CallOK, LockOK

LEMMA StartProgress ==
  ASSUME TypeOK, CallsProgress, NEW c \in Callers, NEW N, Start(c, N)
  PROVE  CallsProgress'
<1>1. OthersStay(c) /\ call'[c].pc = "waiting"
  BY CallFields DEF Start, OthersStay, NoCall
<1>2. ASSUME NEW d \in Callers \ {c} PROVE Progress(call[d])'
  BY <1>1, StillProgress DEF CallsProgress, OthersStay, Start, cloud
<1>3. Progress(call[c])'
  BY <1>1 DEF Progress, Running, Syncing, Updating, Cleaning
<1> QED BY <1>2, <1>3 DEF CallsProgress

LEMMA AcquireProgress ==
  ASSUME TypeOK, CallsProgress, NEW c \in Callers, NEW active, Acquire(c, active)
  PROVE  CallsProgress'
<1>1. CASE Return(c, "ok")
  BY <1>1, ReturnProgress DEF Acquire, Returned
<1>2. CASE ~Return(c, "ok")
  <2>1. /\ OthersStay(c) /\ call'[c].pc \in {"list", "resolve"}
        /\ call'[c].strays = inflight /\ inflight' = inflight
    BY <1>2, CallFields DEF Acquire, OthersStay, IsCall, cloud
  <2>2. Progress(call[c])'
    BY <2>1 DEF Progress, Syncing, Updating
  <2> QED BY <2>1, <2>2, OthersProgress DEF Acquire
<1> QED BY <1>1, <1>2

LEMMA LookupProgress ==
  ASSUME TypeOK, CallsProgress, NEW c \in Callers, NEW n, Lookup(c, n)
  PROVE  CallsProgress'
<1>0. lock = c
  BY CallFields DEF Lookup, At, Running
<1>1. CASE Fail(c)
  BY <1>0, <1>1, ReturnProgress DEF Fail, Returned
<1>2. CASE ~Fail(c)
  <2>1. /\ OthersStay(c) /\ call[c].pc = "resolve" /\ call'[c].pc = "resolve"
        /\ call'[c].strays = call[c].strays /\ inflight' = inflight
    <3>1. \/ call' = [call EXCEPT ![c].todo = @ \ {n}]
          \/ call' = [call EXCEPT ![c].todo = @ \ {n}, ![c].found = Put(@, n, nics[n])]
      BY <1>2 DEF Lookup
    <3>2. call[c].pc = "resolve" /\ inflight' = inflight
      BY DEF Lookup, At, cloud
    <3>3. IsCall(call[c]) /\ call = [d \in Callers |-> call[d]]
      BY CallFields
    <3>4. OthersStay(c)
      BY <3>1, <3>3 DEF OthersStay
    <3>5. call'[c].pc = call[c].pc /\ call'[c].strays = call[c].strays
      BY <3>1, <3>3 DEF IsCall
    <3> QED BY <3>2, <3>4, <3>5
  <2>2. Progress(call[c])'
    BY <2>1 DEF CallsProgress, Progress, Running, Syncing, Updating
  <2> QED BY <1>0, <2>1, <2>2, OthersProgress
<1> QED BY <1>1, <1>2

LEMMA BuildMappingProgress ==
  ASSUME TypeOK, CallsProgress, NEW c \in Callers, BuildMapping(c)
  PROVE  CallsProgress'
<1> DEFINE mapping == constructTgNameToTargetMap(call[c].found, call[c].nodes)
<1>0. lock = c /\ call[c].pc = "resolve" /\ inflight' = inflight
  BY CallFields DEF BuildMapping, At, Running, cloud
<1>1. CASE Fail(c)
  BY <1>0, <1>1, ReturnProgress DEF Fail, Returned
<1>2. CASE call' = [call EXCEPT ![c].pc = "panic"]
  <2>1. OthersStay(c) /\ call'[c].pc = "panic"
    BY <1>2, CallFields DEF OthersStay, IsCall
  <2>2. Progress(call[c])'
    BY <2>1 DEF Progress, Running, Syncing, Updating, Cleaning
  <2> QED BY <1>0, <2>1, <2>2, OthersProgress
<1>3. CASE call' = [call EXCEPT ![c].pc = "next", ![c].want = mapping,
                                ![c].todo = DOMAIN mapping]
  <2>1. \A g \in DOMAIN mapping : mapping[g] # {}
    BY MappingNonEmpty
  <2> HIDE DEF mapping
  <2>2. /\ OthersStay(c) /\ call'[c].pc = "next" /\ call'[c].strays = call[c].strays
        /\ call'[c].want = mapping /\ call'[c].todo = DOMAIN mapping
    BY <1>3, CallFields DEF OthersStay, IsCall
  <2>3. Progress(call[c])'
    BY <1>0, <2>1, <2>2 DEF CallsProgress, Progress, Running
  <2> QED BY <1>0, <2>2, <2>3, OthersProgress
<1> QED BY <1>1, <1>2, <1>3 DEF BuildMapping

LEMMA GetGroupProgress ==
  ASSUME TypeOK, CallsProgress, NEW c \in Callers, NEW g, GetGroup(c, g)
  PROVE  CallsProgress'
<1> USE DEF Holds, Disturbed, Running, Syncing, Updating
<1>1. OthersStay(c)
  BY CallFields DEF GetGroup, OthersStay
<1>2. call[c].pc = "next" /\ lock = c /\ UNCHANGED <<tgs, inflight>>
  BY CallFields DEF GetGroup, At, cloud
<1>3. Progress(call[c])
  BY DEF CallsProgress
<1>4. g \in DOMAIN call[c].want
  BY <1>2, CallFields DEF GetGroup, CallOK
<1>5. CASE call' = [call EXCEPT ![c].pc = "create", ![c].cur = g]
  <2>1. /\ call'[c].pc = "create" /\ call'[c].want = call[c].want
        /\ call'[c].todo = call[c].todo /\ call'[c].strays = call[c].strays
    BY <1>5, CallFields DEF IsCall
  <2>2. Progress(call[c])'
    BY <1>2, <1>3, <2>1 DEF Progress
  <2> QED BY <1>1, <1>2, <2>2, OthersProgress
<1>6. CASE /\ call' = [call EXCEPT ![c].pc = "add", ![c].cur = g, ![c].snap = tgs[g]]
           /\ g \in DOMAIN tgs
  <2>1. /\ call'[c].pc = "add" /\ call'[c].want = call[c].want
        /\ call'[c].todo = call[c].todo /\ call'[c].strays = call[c].strays
        /\ call'[c].cur = g /\ call'[c].snap = tgs[g]
    BY <1>6, CallFields DEF IsCall
  <2>2. Progress(call[c])'
    BY <1>2, <1>3, <1>6, <2>1 DEF Progress
  <2> QED BY <1>1, <1>2, <2>2, OthersProgress
<1>7. CASE /\ call' = [call EXCEPT ![c].pc = "remove", ![c].cur = g, ![c].snap = tgs[g]]
           /\ g \in DOMAIN tgs /\ call[c].want[g] \subseteq tgs[g]
  <2>1. /\ call'[c].pc = "remove" /\ call'[c].want = call[c].want
        /\ call'[c].todo = call[c].todo /\ call'[c].strays = call[c].strays
        /\ call'[c].cur = g /\ call'[c].snap = tgs[g]
    BY <1>7, CallFields DEF IsCall
  <2>2. tgs[g] = tgs[g] \cup call[c].want[g]
    BY <1>7
  <2>3. Progress(call[c])'
    BY <1>2, <1>3, <1>7, <2>1, <2>2 DEF Progress
  <2> QED BY <1>1, <1>2, <2>3, OthersProgress
<1>8. CASE /\ call' = [call EXCEPT ![c].todo = @ \ {g}]
           /\ g \in DOMAIN tgs /\ call[c].want[g] = tgs[g]
  <2>1. /\ call'[c].pc = "next" /\ call'[c].want = call[c].want
        /\ call'[c].todo = call[c].todo \ {g} /\ call'[c].strays = call[c].strays
    BY <1>2, <1>8, CallFields DEF IsCall
  <2>2. Progress(call[c])'
    BY <1>2, <1>3, <1>8, <2>1 DEF Progress
  <2> QED BY <1>1, <1>2, <2>2, OthersProgress
<1> QED BY <1>5, <1>6, <1>7, <1>8 DEF GetGroup

\* What the three operations of CreateOrUpdateTG make of the group at hand.
LEMMA OperationEffect ==
  ASSUME TypeOK, CallsProgress, NEW c \in Callers,
         call[c].pc \in {"create", "add", "remove"},
         Accepted(Operation(c)), Apply(Operation(c))
  PROVE  LET g == call[c].cur  wanted == call[c].want[g] IN
         /\ inflight' \subseteq inflight /\ lock = c
         /\ g \in call[c].todo /\ g \in DOMAIN call[c].want
         /\ \E T : /\ tgs' = Put(tgs, g, T)
                   /\ call[c].pc = "create" => g \notin DOMAIN tgs /\ T = wanted
                   /\ call[c].pc # "create" => g \in DOMAIN tgs
                   /\ g \notin Disturbed(call[c]) =>
                        /\ call[c].pc = "add" =>
                             tgs[g] = call[c].snap /\ T = call[c].snap \cup wanted
                        /\ call[c].pc = "remove" =>
                             tgs[g] = call[c].snap \cup wanted /\ T = wanted
<1> DEFINE g == call[c].cur
           wanted == call[c].want[g]
           snap == call[c].snap
<1>1. /\ g \in call[c].todo /\ g \in DOMAIN call[c].want /\ lock = c
      /\ Progress(call[c])
  BY OperationType DEF CallsProgress
<1>2. inflight' \subseteq inflight /\ tgs' = After(Operation(c))
  BY DEF Apply, Surviving
<1>3. CASE call[c].pc = "create"
  <2>1. Operation(c) = Create(g, wanted)
    BY <1>3 DEF Operation, At
  <2>2. g \notin DOMAIN tgs /\ After(Operation(c)) = Put(tgs, g, wanted)
    BY <2>1 DEF Accepted, After, Create
  <2> QED BY <1>1, <1>2, <1>3, <2>2
<1>4. CASE call[c].pc = "add"
  <2>1. Operation(c) = AddTargets(g, wanted \ snap)
    BY <1>4 DEF Operation, At
  <2>2. /\ g \in DOMAIN tgs
        /\ After(Operation(c)) = Put(tgs, g, tgs[g] \cup (wanted \ snap))
    BY <2>1 DEF Accepted, After, AddTargets
  <2>3. g \notin Disturbed(call[c]) => tgs[g] = snap
    BY <1>1, <1>4 DEF Progress, Holds
  <2>4. snap \cup (wanted \ snap) = snap \cup wanted
    OBVIOUS
  <2> QED BY <1>1, <1>2, <1>4, <2>2, <2>3, <2>4
<1>5. CASE call[c].pc = "remove"
  <2>1. Operation(c) = RemoveTargets(g, snap \ wanted)
    BY <1>5 DEF Operation, At
  <2>2. /\ g \in DOMAIN tgs
        /\ After(Operation(c)) = Put(tgs, g, tgs[g] \ (snap \ wanted))
    BY <2>1 DEF Accepted, After, RemoveTargets
  <2>3. g \notin Disturbed(call[c]) => tgs[g] = snap \cup wanted
    BY <1>1, <1>5 DEF Progress, Holds
  <2>4. (snap \cup wanted) \ (snap \ wanted) = wanted
    OBVIOUS
  <2> QED BY <1>1, <1>2, <1>5, <2>2, <2>3, <2>4
<1> QED BY <1>3, <1>4, <1>5

\* One more group of the mapping is settled.
LEMMA GroupDoneProgress ==
  ASSUME TypeOK, CallsProgress, NEW c \in Callers, call[c].pc \in Updating,
         GroupDone(c), inflight' \subseteq inflight,
         LET g == call[c].cur IN
         /\ g \in Disturbed(call[c]) \/ (g \in DOMAIN tgs' /\ tgs'[g] = call[c].want[g])
         /\ \A h \in DOMAIN tgs \ {g} : h \in DOMAIN tgs' /\ tgs'[h] = tgs[h]
  PROVE  CallsProgress'
<1>1. lock = c /\ OthersStay(c)
  BY CallFields, GroupDoneType DEF Running, Syncing
<1>2. /\ call'[c].pc = "next" /\ call'[c].want = call[c].want
      /\ call'[c].todo = call[c].todo \ {call[c].cur}
      /\ call'[c].strays = call[c].strays
  BY CallFields DEF GroupDone, IsCall
<1>3. Progress(call[c])
  BY DEF CallsProgress
<1>4. /\ \A g \in DOMAIN call[c].want : call[c].want[g] # {}
      /\ inflight \subseteq call[c].strays
  BY <1>3 DEF Progress, Running, Syncing, Updating
<1>5. \A g \in DOMAIN call[c].want \ (call[c].todo \ {call[c].cur}) :
        g \in Disturbed(call[c]) \/ (g \in DOMAIN tgs' /\ tgs'[g] = call[c].want[g])
  BY <1>3 DEF Progress, Syncing, Holds
<1>6. Progress(call[c])'
  BY <1>2, <1>4, <1>5 DEF Progress, Holds, Disturbed
<1> QED BY <1>1, <1>6, OthersProgress

LEMMA CreateTGProgress ==
  ASSUME TypeOK, CallsProgress, NEW c \in Callers, CreateTG(c)
  PROVE  CallsProgress'
BY OperationEffect, GroupDoneProgress DEF CreateTG, At, Put, Updating

\* The operation at hand is done, and another request follows it.
LEMMA NextRequestProgress ==
  ASSUME TypeOK, CallsProgress, NEW c \in Callers, call[c].pc \in {"add", "remove"},
         Accepted(Operation(c)), Apply(Operation(c)),
         NEW l \in {"remove", "recheck"}, call' = [call EXCEPT ![c].pc = l],
         l = "remove" => call[c].pc = "add",
         call[c].pc = "add" /\ l = "recheck" =>
           call[c].snap \subseteq call[c].want[call[c].cur]
  PROVE  CallsProgress'
<1> DEFINE g == call[c].cur
           wanted == call[c].want[g]
<1>1. PICK T : /\ tgs' = Put(tgs, g, T) /\ g \in DOMAIN tgs
               /\ g \notin Disturbed(call[c]) =>
                    T = IF l = "remove" THEN call[c].snap \cup wanted ELSE wanted
  BY OperationEffect
<1>2. /\ inflight' \subseteq inflight /\ lock = c
      /\ g \in call[c].todo /\ g \in DOMAIN call[c].want
  BY OperationEffect
<1>3. Progress(call[c])
  BY DEF CallsProgress
<1>4. /\ OthersStay(c) /\ call'[c].pc = l /\ call'[c].cur = g
      /\ call'[c].want = call[c].want /\ call'[c].todo = call[c].todo
      /\ call'[c].snap = call[c].snap /\ call'[c].strays = call[c].strays
  BY CallFields DEF OthersStay, IsCall
<1>5. /\ g \in DOMAIN tgs' /\ tgs'[g] = T
      /\ \A h \in DOMAIN tgs \ {g} : h \in DOMAIN tgs' /\ tgs'[h] = tgs[h]
  BY <1>1 DEF Put
<1>6. /\ \A h \in DOMAIN call[c].want : call[c].want[h] # {}
      /\ \A h \in DOMAIN call[c].want \ call[c].todo :
           h \in Disturbed(call[c]) \/ (h \in DOMAIN tgs' /\ tgs'[h] = call[c].want[h])
      /\ inflight' \subseteq call[c].strays
  BY <1>2, <1>3, <1>5 DEF Progress, Holds, Running, Syncing, Updating
<1>7. Progress(call[c])'
  BY <1>1, <1>4, <1>5, <1>6 DEF Progress, Holds, Disturbed
<1> QED BY <1>2, <1>4, <1>7, OthersProgress

LEMMA AddTGTargetsProgress ==
  ASSUME TypeOK, CallsProgress, NEW c \in Callers, AddTGTargets(c)
  PROVE  CallsProgress'
<1>1. PICK l \in {"remove", "recheck"} :
        /\ call' = [call EXCEPT ![c].pc = l]
        /\ l = "recheck" => call[c].snap \subseteq call[c].want[call[c].cur]
  BY DEF AddTGTargets
<1> QED BY <1>1, NextRequestProgress DEF AddTGTargets, At

LEMMA RemoveTGTargetsProgress ==
  ASSUME TypeOK, CallsProgress, NEW c \in Callers, RemoveTGTargets(c)
  PROVE  CallsProgress'
BY NextRequestProgress DEF RemoveTGTargets, At

LEMMA RecheckProgress ==
  ASSUME TypeOK, CallsProgress, NEW c \in Callers, Recheck(c)
  PROVE  CallsProgress'
<1>1. /\ call[c].pc = "recheck" /\ Progress(call[c])
      /\ inflight' = inflight /\ tgs' = tgs /\ lock' = lock
  BY DEF CallsProgress, Recheck, At, cloud
<1>2. CASE GroupDone(c)
  <2>1. \/ call[c].cur \in Disturbed(call[c])
        \/ /\ call[c].cur \in DOMAIN tgs
           /\ tgs[call[c].cur] = call[c].want[call[c].cur]
    BY <1>1 DEF Progress, Holds
  <2> QED BY <1>1, <1>2, <2>1, GroupDoneProgress DEF Updating
<1>3. CASE call' = [call EXCEPT ![c].pc = "panic"]
  <2>1. OthersStay(c) /\ call'[c].pc = "panic"
    BY <1>3, CallFields DEF OthersStay, IsCall
  <2>2. Progress(call[c])'
    BY <2>1 DEF Progress, Running, Syncing, Updating, Cleaning
  <2> QED BY <1>1, <2>1, <2>2, CallFields, OthersProgress DEF Running, Syncing, Updating
<1> QED BY <1>2, <1>3 DEF Recheck

LEMMA FailProgress ==
  ASSUME TypeOK, NEW c \in Callers, call[c].pc \in Running, Fail(c)
  PROVE  CallsProgress'
BY CallFields, ReturnProgress DEF Fail, Returned

LEMMA CommitProgress ==
  ASSUME TypeOK, NEW c \in Callers, Commit(c)
  PROVE  CallsProgress'
BY CallFields, ReturnProgress DEF Commit, At, Running, Syncing, Returned

LEMMA GetTGsByClusterNameProgress ==
  ASSUME TypeOK, CallsProgress, NEW c \in Callers, GetTGsByClusterName(c)
  PROVE  CallsProgress'
<1>1. lock = c /\ inflight' = inflight /\ tgs' = tgs /\ call[c].pc = "list"
  BY CallFields DEF GetTGsByClusterName, At, Running, Cleaning, cloud
<1>2. /\ OthersStay(c) /\ call'[c].pc = "delete" /\ call'[c].strays = call[c].strays
      /\ call'[c].todo = DOMAIN tgs \cap (OwnNames \cup Matching)
  BY CallFields DEF GetTGsByClusterName, OthersStay, IsCall
<1>3. Progress(call[c])'
  BY <1>1, <1>2 DEF CallsProgress, Progress, Running, Syncing, Updating, Cleaning
<1> QED BY <1>1, <1>2, <1>3, OthersProgress

\* A deletion that leaves the list: done, or the cleanup is failing anyway.
LEMMA LessTodoProgress ==
  ASSUME TypeOK, CallsProgress, NEW c \in Callers, call[c].pc \in {"delete", "abort"},
         NEW g, UNCHANGED lock,
         \/ /\ call' = [call EXCEPT ![c].todo = @ \ {g}]
            /\ call[c].pc = "abort" \/ g \notin DOMAIN tgs'
            /\ DOMAIN tgs' \subseteq DOMAIN tgs /\ inflight' \subseteq inflight
         \/ call' = [call EXCEPT ![c].pc = "abort", ![c].todo = @ \ {g}]
  PROVE  CallsProgress'
<1>1. /\ lock = c /\ OthersStay(c) /\ call'[c].todo = call[c].todo \ {g}
      /\ call'[c].strays = call[c].strays
  BY CallFields DEF OthersStay, IsCall, Running, Cleaning
<1>2. \/ call'[c].pc = "abort"
      \/ /\ call'[c].pc = "delete" /\ call[c].pc = "delete" /\ g \notin DOMAIN tgs'
         /\ DOMAIN tgs' \subseteq DOMAIN tgs /\ inflight' \subseteq inflight
  BY CallFields DEF IsCall
<1>3. Progress(call[c])
  BY DEF CallsProgress
<1>4. Progress(call[c])'
  BY <1>1, <1>2, <1>3 DEF Progress, Reborn, Running, Syncing, Updating, Cleaning
<1> QED BY <1>1, <1>4, OthersProgress

LEMMA RemoveTGProgress ==
  ASSUME TypeOK, CallsProgress, NEW c \in Callers, NEW g, RemoveTG(c, g)
  PROVE  CallsProgress'
<1>1. /\ inflight' \subseteq inflight
      /\ DOMAIN tgs' \subseteq DOMAIN tgs /\ g \notin DOMAIN tgs'
  <2>1. CASE Accepted(Delete(g)) /\ Apply(Delete(g))
    BY <2>1 DEF Apply, After, Surviving, Delete, Drop
  <2>2. CASE g \notin DOMAIN tgs /\ UNCHANGED cloud
    BY <2>2 DEF cloud
  <2> QED BY <2>1, <2>2 DEF RemoveTG
<1> QED BY <1>1, LessTodoProgress DEF RemoveTG

LEMMA FailRemoveTGProgress ==
  ASSUME TypeOK, CallsProgress, NEW c \in Callers, NEW g,
         FailRemoveTG(c, g) \/ LoseRemoveTG(c, g) \/ SkipRemoveTG(c, g)
  PROVE  CallsProgress'
<1>1. CASE FailRemoveTG(c, g) \/ LoseRemoveTG(c, g)
  BY <1>1, LessTodoProgress DEF FailRemoveTG, LoseRemoveTG, At
<1>2. CASE SkipRemoveTG(c, g)
  BY <1>2, LessTodoProgress DEF SkipRemoveTG, At, cloud
<1> QED BY <1>1, <1>2

LEMMA CleanupEndProgress ==
  ASSUME TypeOK, NEW c \in Callers, CleanupEnd(c)
  PROVE  CallsProgress'
<1>1. lock = c /\ call[c].pc \in Running
  BY CallFields DEF CleanupEnd, At, Running, Cleaning
<1> QED BY <1>1, ReturnProgress, FailProgress DEF CleanupEnd, Returned

LEMMA StepProgress ==
  ASSUME TypeOK, CallsProgress, NEW c \in Callers, Step(c)
  PROVE  CallsProgress'
<1>1. ASSUME RefuseOperation(c) PROVE CallsProgress'
  BY <1>1, FailProgress DEF RefuseOperation, Running, Syncing, Updating
<1> QED
  BY <1>1, LookupProgress, BuildMappingProgress, GetGroupProgress,
     CreateTGProgress, AddTGTargetsProgress, RemoveTGTargetsProgress,
     RecheckProgress, CommitProgress, GetTGsByClusterNameProgress,
     RemoveTGProgress, FailRemoveTGProgress, CleanupEndProgress
  DEF Step

LEMMA FaultProgress ==
  ASSUME TypeOK, CallsProgress, NEW c \in Callers, Fault(c)
  PROVE  CallsProgress'
<1>1. CASE RemoteError(c) \/ LoseOperation(c)
  BY <1>1, FailProgress
  DEF RemoteError, LoseOperation, At, Running, Syncing, Updating, Cleaning
<1> QED BY <1>1, FailRemoveTGProgress DEF Fault

\* An operation that lands while a call runs was running before the call: the
\* call takes its group for disturbed.
LEMMA LandProgress ==
  ASSUME TypeOK, CallsProgress, NEW o \in inflight, Land(o), NEW c \in Callers
  PROVE  Progress(call[c])'
<1> DEFINE r == call[c]
<1>1. /\ call' = call /\ inflight' \subseteq inflight
      /\ o \in Operations
      /\ tgs' = tgs \/ (Accepted(o) /\ tgs' = After(o))
  BY DEF Land, Surviving, TypeOK, CloudOK
<1>2. Progress(r)
  BY DEF CallsProgress
<1>3. CASE r.pc \notin Running \ {"abort"}
  BY <1>1, <1>3 DEF Progress, Running, Syncing, Updating, Cleaning
<1>4. CASE r.pc \in Running \ {"abort"}
  <2>1. o \in r.strays /\ inflight' \subseteq r.strays
    BY <1>1, <1>2, <1>4 DEF Progress
  <2>2. \A g \in DOMAIN tgs \ {o.group} : g \in DOMAIN tgs' /\ tgs'[g] = tgs[g]
    BY <1>1 DEF After, Put, Drop, Operations
  <2>3. \A g, T : Holds(r, g, T) => Holds(r, g, T)'
    BY <1>1, <2>1, <2>2 DEF Holds, Disturbed
  <2>4. \A g \in DOMAIN tgs : g \in DOMAIN tgs' \/ Delete(g) \in r.strays
    <3>1. CASE o.op = "delete"
      <4>1. o = Delete(o.group)
        BY <1>1, <3>1 DEF Operations
      <4> QED BY <2>1, <2>2, <4>1
    <3>2. CASE o.op # "delete"
      BY <1>1, <3>2 DEF After, Put, Operations
    <3> QED BY <3>1, <3>2
  <2>5. DOMAIN tgs' \subseteq DOMAIN tgs \cup Reborn(r)
    <3>1. CASE o.op = "create"
      BY <1>1, <2>1, <3>1 DEF After, Put, Reborn
    <3>2. CASE o.op # "create"
      BY <1>1, <3>2 DEF After, Accepted, Put, Drop, Operations
    <3> QED BY <3>1, <3>2
  <2> QED BY <1>1, <1>2, <2>1, <2>3, <2>4, <2>5 DEF Progress, Reborn
<1> QED BY <1>3, <1>4

LEMMA EnvironmentProgress ==
  ASSUME TypeOK, CallsProgress, Environment
  PROVE  CallsProgress'
<1>1. CASE \E o \in inflight : Land(o)
  BY <1>1, LandProgress DEF CallsProgress
<1>2. CASE UNCHANGED <<tgs, inflight, call>>
  BY <1>2, StillProgress DEF CallsProgress
<1>3. CASE Restart
  <2>1. \A c \in Callers : call'[c].pc = "err"
    BY <1>3 DEF Restart, NoCall
  <2> QED BY <2>1 DEF CallsProgress, Progress, Running, Syncing, Updating, Cleaning
<1> QED BY <1>1, <1>2, <1>3
        DEF Environment, Attach, Detach, Relabel, Recreate, cloud

LEMMA ProgressNext ==
  ASSUME TypeOK, CallsProgress, [Next]_vars
  PROVE  CallsProgress'
<1>1. CASE UNCHANGED vars
  BY <1>1, StillProgress DEF vars, cloud, CallsProgress
<1> QED
  BY <1>1, StartProgress, AcquireProgress, StepProgress, FaultProgress,
     EnvironmentProgress
  DEF Next

LEMMA ProgressInit == Init => CallsProgress
BY DEF Init, CallsProgress, Progress, NoCall, Running, Syncing, Updating, Cleaning

-----------------------------------------------------------------------------
(* What a step may change                                                  *)

\* A caller's step.
Acts(c) ==
  \/ \E N \in SUBSET Nodes : Start(c, N)
  \/ \E active \in BOOLEAN : Acquire(c, active)
  \/ Step(c) \/ Fault(c)

\* The caller at work applies the operation that CreateOrUpdateTG is about to
\* start, or has a group deleted.
Updates(c) ==
  /\ call[c].pc \in {"create", "add", "remove"}
  /\ Accepted(Operation(c)) /\ Apply(Operation(c))

Deletes(c, g) ==
  /\ call[c].pc \in {"delete", "abort"} /\ g \in call[c].todo
  /\ tgs' = Drop(tgs, g)

LEMMA ActsOthersStay ==
  ASSUME TypeOK, NEW c \in Callers, Acts(c)
  PROVE  OthersStay(c)
<1> USE CallFields DEF OthersStay
<1>1. CASE \E N \in SUBSET Nodes : Start(c, N)
  BY <1>1 DEF Start
<1>2. CASE \E active \in BOOLEAN : Acquire(c, active)
  BY <1>2 DEF Acquire, Return
<1>3. CASE Step(c)
  <2>1. ASSUME NEW n, Lookup(c, n) PROVE OthersStay(c)
    BY <2>1 DEF Lookup, Fail, Return
  <2>2. ASSUME BuildMapping(c) PROVE OthersStay(c)
    BY <2>2 DEF BuildMapping, Fail, Return
  <2>3. ASSUME NEW g, GetGroup(c, g) PROVE OthersStay(c)
    BY <2>3 DEF GetGroup
  <2>4. ASSUME CreateTG(c) \/ Recheck(c) PROVE OthersStay(c)
    BY <2>4 DEF CreateTG, Recheck, GroupDone
  <2>5. ASSUME AddTGTargets(c) \/ RemoveTGTargets(c) PROVE OthersStay(c)
    BY <2>5 DEF AddTGTargets, RemoveTGTargets
  <2>6. ASSUME RefuseOperation(c) \/ Commit(c) PROVE OthersStay(c)
    BY <2>6 DEF RefuseOperation, Commit, Fail, Return
  <2>7. ASSUME GetTGsByClusterName(c) PROVE OthersStay(c)
    BY <2>7 DEF GetTGsByClusterName
  <2>8. ASSUME NEW g, RemoveTG(c, g) \/ FailRemoveTG(c, g) \/ SkipRemoveTG(c, g)
        PROVE OthersStay(c)
    BY <2>8 DEF RemoveTG, FailRemoveTG, SkipRemoveTG
  <2>9. ASSUME CleanupEnd(c) PROVE OthersStay(c)
    BY <2>9 DEF CleanupEnd, Fail, Return
  <2> QED BY <1>3, <2>1, <2>2, <2>3, <2>4, <2>5, <2>6, <2>7, <2>8, <2>9 DEF Step
<1>4. CASE Fault(c)
  BY <1>4 DEF Fault, RemoteError, LoseOperation, LoseRemoveTG, Fail, Return
<1> QED BY <1>1, <1>2, <1>3, <1>4 DEF Acts

LEMMA TgsChange ==
  ASSUME TypeOK, [Next]_vars
  PROVE  \/ tgs' = tgs
         \/ \E c \in Callers : Updates(c)
         \/ \E c \in Callers, g \in Names : Deletes(c, g)
         \/ \E o \in inflight : Land(o)
<1>1. ASSUME NEW c \in Callers, Step(c)
      PROVE  tgs' = tgs \/ Updates(c) \/ \E g \in Names : Deletes(c, g)
  <2>1. ASSUME CreateTG(c) \/ AddTGTargets(c) \/ RemoveTGTargets(c)
        PROVE  Updates(c)
    BY <2>1 DEF CreateTG, AddTGTargets, RemoveTGTargets, Updates, At
  <2>2. ASSUME NEW g \in Names, RemoveTG(c, g)
        PROVE  tgs' = tgs \/ Deletes(c, g)
    BY <2>2 DEF RemoveTG, Deletes, Apply, After, Delete, cloud
  <2> QED
    BY <1>1, <2>1, <2>2
    DEF Step, Lookup, BuildMapping, GetGroup, Recheck, RefuseOperation, Commit,
        GetTGsByClusterName, FailRemoveTG, SkipRemoveTG, CleanupEnd, cloud
<1>2. ASSUME NEW c \in Callers, Fault(c) PROVE tgs' = tgs
  BY <1>2 DEF Fault, RemoteError, LoseOperation, LoseRemoveTG, Abandon, cloud
<1>3. ASSUME Environment PROVE tgs' = tgs \/ \E o \in inflight : Land(o)
  BY <1>3 DEF Environment, Attach, Detach, Relabel, Recreate, Restart, cloud
<1> QED
  BY <1>1, <1>2, <1>3 DEF Next, Start, Acquire, vars, cloud

\* A call returns nil from its loop over the groups only through Commit, and
\* from a cleanup only through its end.
LEMMA OkFrom ==
  ASSUME TypeOK, NEW c \in Callers, call[c].pc \in Running \ {"resolve"}, call'[c].pc = "ok",
         [Next]_vars
  PROVE  \/ Commit(c)
         \/ At(c, "delete") /\ call[c].todo = {} /\ UNCHANGED cloud
<1>1. ~ UNCHANGED vars
  BY DEF vars, Running, Syncing, Updating, Cleaning
<1>2. ~ Environment
  BY DEF Environment, Land, Attach, Detach, Relabel, Recreate, Restart, NoCall,
         Running, Syncing, Updating, Cleaning
<1>3. PICK d \in Callers : Acts(d)
  BY <1>1, <1>2 DEF Next, Acts
<1>4. d = c
  BY <1>3, ActsOthersStay DEF OthersStay, Running, Syncing, Updating, Cleaning
<1>5. ~ Fail(c)
  BY CallFields DEF Fail, Return, NoCall
<1>6. CASE Step(c)
  <2> USE CallFields DEF IsCall, At
  <2>1. ~ \E n \in Nodes : Lookup(c, n)
    BY DEF Lookup
  <2>2. ~ BuildMapping(c)
    BY DEF BuildMapping
  <2>3. ~ \E g \in Names : GetGroup(c, g)
    <3> SUFFICES ASSUME NEW g, GetGroup(c, g) PROVE FALSE
      OBVIOUS
    <3>1. CASE call' = [call EXCEPT ![c].pc = "create", ![c].cur = g]
      BY <3>1
    <3>2. CASE call' = [call EXCEPT ![c].pc = "add", ![c].cur = g, ![c].snap = tgs[g]]
      BY <3>2
    <3>3. CASE call' = [call EXCEPT ![c].pc = "remove", ![c].cur = g, ![c].snap = tgs[g]]
      BY <3>3
    <3>4. CASE call' = [call EXCEPT ![c].todo = @ \ {g}] /\ call[c].pc = "next"
      BY <3>4
    <3> QED BY <3>1, <3>2, <3>3, <3>4 DEF GetGroup
  <2>4. ~ CreateTG(c) /\ ~ Recheck(c)
    BY DEF CreateTG, Recheck, GroupDone
  <2>5. ~ AddTGTargets(c) /\ ~ RemoveTGTargets(c)
    BY DEF AddTGTargets, RemoveTGTargets
  <2>6. ~ RefuseOperation(c)
    BY <1>5 DEF RefuseOperation
  <2>7. ~ GetTGsByClusterName(c)
    BY DEF GetTGsByClusterName
  <2>8. ~ \E g \in Names : RemoveTG(c, g) \/ FailRemoveTG(c, g) \/ SkipRemoveTG(c, g)
    BY DEF RemoveTG, FailRemoveTG, SkipRemoveTG
  <2>9. CASE CleanupEnd(c)
    BY <1>5, <2>9 DEF CleanupEnd
  <2> QED BY <1>6, <2>1, <2>2, <2>3, <2>4, <2>5, <2>6, <2>7, <2>8, <2>9 DEF Step
<1>7. CASE Fault(c)
  BY <1>5, <1>7, CallFields DEF Fault, RemoteError, LoseOperation, LoseRemoveTG, IsCall
<1>8. CASE \E N \in SUBSET Nodes : Start(c, N)
  BY <1>8 DEF Start, Returned, Running, Syncing, Updating, Cleaning
<1>9. CASE \E active \in BOOLEAN : Acquire(c, active)
  BY <1>9 DEF Acquire, At, Running, Syncing, Updating, Cleaning
<1> QED BY <1>3, <1>4, <1>6, <1>7, <1>8, <1>9 DEF Acts

\* A sync returns nil only when it has settled every group of its mapping.
LEMMA CommitExact ==
  ASSUME TypeOK, CallsProgress, [Next]_vars,
         NEW c \in Callers, At(c, "next"), call'[c].pc = "ok"
  PROVE  \A g \in DOMAIN call[c].want \ Disturbed(call[c]) :
           g \in DOMAIN tgs' /\ tgs'[g] = call[c].want[g]
<1>1. Commit(c)
  BY OkFrom DEF At, Running, Syncing
<1>2. Progress(call[c]) /\ call[c].todo = {} /\ tgs' = tgs
  BY <1>1 DEF CallsProgress, Commit, cloud
<1> QED BY <1>2 DEF Progress, Holds, At, Syncing

\* A step keeps what a running sync wants of the groups there are.
LEMMA TrafficStep ==
  ASSUME TypeOK, CallsProgress, [Next]_vars,
         NEW c \in Callers, call[c].pc \in Syncing,
         NEW g \in (DOMAIN call[c].want \cap DOMAIN tgs) \ Disturbed(call[c])
  PROVE  /\ g \in DOMAIN tgs'
         /\ tgs[g] \cap call[c].want[g] \subseteq tgs'[g]
         /\ tgs[g] # {} => tgs'[g] # {}
<1>1. lock = c /\ Progress(call[c])
  BY CallFields DEF Running, CallsProgress
<1>2. call[c].want[g] # {} /\ inflight \subseteq call[c].strays
  BY <1>1 DEF Progress, Running, Syncing, Updating
<1>3. CASE tgs' = tgs
  BY <1>3
<1>4. CASE \E d \in Callers : Updates(d)
  <2>1. PICK d \in Callers : Updates(d)
    BY <1>4
  <2>2. d = c
    BY <1>1, <2>1, CallFields DEF Updates, Running, Syncing, Updating
  <2> DEFINE h == call[c].cur
  <2>3. PICK T : /\ tgs' = Put(tgs, h, T)
                 /\ h \in DOMAIN tgs \ Disturbed(call[c]) => call[c].want[h] \subseteq T
    BY <2>1, <2>2, OperationEffect DEF Updates
  <2> QED BY <1>2, <2>3 DEF Put
<1>5. CASE \E d \in Callers, h \in Names : Deletes(d, h)
  BY <1>1, <1>5, CallFields DEF Deletes, Running, Syncing, Updating, Cleaning
<1>6. CASE \E o \in inflight : Land(o)
  <2>1. PICK o \in inflight : Land(o)
    BY <1>6
  <2>2. o \in Operations /\ o.group # g
    BY <1>2 DEF Disturbed, TypeOK, CloudOK
  <2>3. g \in DOMAIN tgs' /\ tgs'[g] = tgs[g]
    BY <2>1, <2>2 DEF Land, After, Put, Drop, Operations
  <2> QED BY <2>3
<1> QED BY <1>3, <1>4, <1>5, <1>6, TgsChange

\* A cleanup returns nil only when it has nothing more to delete.
LEMMA CleanupStep ==
  ASSUME TypeOK, CallsProgress, [Next]_vars,
         NEW c \in Callers, call[c].pc \in Cleaning, call'[c].pc = "ok"
  PROVE  DOMAIN tgs' \cap OwnNames \subseteq Reborn(call[c])
<1>1. At(c, "delete") /\ call[c].todo = {} /\ tgs' = tgs
  BY OkFrom DEF Commit, At, Running, Cleaning, cloud
<1>2. Progress(call[c])
  BY DEF CallsProgress
<1> QED BY <1>1, <1>2 DEF Progress, At

\* A call that panics does so where it may.
Explained(r) ==
  r.pc = "panic" => Addressless(r.found) \/ Delete(r.cur) \in r.strays

LEMMA PanicStep ==
  ASSUME TypeOK, CallsProgress, [Next]_vars, PanicsExplained
  PROVE  PanicsExplained'
<1> SUFFICES ASSUME NEW c \in Callers, call'[c].pc = "panic"
             PROVE  Explained(call'[c])
  BY DEF PanicsExplained, Explained, At, Addressless
<1>1. CASE call'[c] = call[c]
  BY <1>1 DEF PanicsExplained, Explained, At
<1>2. CASE call'[c] # call[c]
  <2>1. ~ UNCHANGED vars /\ ~ Environment
    BY <1>2 DEF vars, Environment, Land, Attach, Detach, Relabel, Recreate, Restart, NoCall
  <2>2. Acts(c)
    BY <1>2, <2>1, ActsOthersStay DEF Next, Acts, OthersStay
  <2>3. CallOK(call[c]) /\ IsCall(call[c]) /\ call = [d \in Callers |-> call[d]]
    BY CallFields
  <2>4. ~ Fail(c)
    BY <2>3 DEF Fail, Return, NoCall
  <2>5. CASE BuildMapping(c)
    <3>1. \/ call' = [call EXCEPT ![c].pc = "panic"] /\ Addressless(call[c].found)
          \/ \E w : call' = [call EXCEPT ![c].pc = "next", ![c].want = w,
                                         ![c].todo = DOMAIN w]
      BY <2>4, <2>5 DEF BuildMapping
    <3>2. call' = [call EXCEPT ![c].pc = "panic"] /\ Addressless(call[c].found)
      <4>1. ASSUME NEW w, call' = [call EXCEPT ![c].pc = "next", ![c].want = w,
                                               ![c].todo = DOMAIN w]
            PROVE  FALSE
        <5>1. call'[c].pc = "next"
          BY <2>3, <4>1 DEF IsCall
        <5> QED BY <5>1
      <4> QED BY <3>1, <4>1
    <3>3. call'[c].found = call[c].found
      BY <2>3, <3>2 DEF IsCall
    <3> QED BY <3>2, <3>3 DEF Explained
  <2>6. CASE Recheck(c)
    <3>1. call' = [call EXCEPT ![c].pc = "panic"] /\ call[c].cur \notin DOMAIN tgs
      BY <2>3, <2>6 DEF Recheck, GroupDone, IsCall
    <3>2. Delete(call[c].cur) \in call[c].strays
      BY <2>6, <3>1 DEF CallsProgress, Progress, Recheck, At
    <3>3. call'[c].cur = call[c].cur /\ call'[c].strays = call[c].strays
      BY <2>3, <3>1 DEF IsCall
    <3> QED BY <3>2, <3>3 DEF Explained
  <2>7. CASE ~BuildMapping(c) /\ ~Recheck(c)
    <3> SUFFICES call'[c].pc # "panic"
      OBVIOUS
    <3> USE <2>3 DEF IsCall
    <3>1. CASE \E N \in SUBSET Nodes : Start(c, N)
      BY <3>1 DEF Start, NoCall
    <3>2. CASE \E active \in BOOLEAN : Acquire(c, active)
      BY <3>2 DEF Acquire, Return, NoCall, At
    <3>3. CASE Step(c)
      <4>1. ASSUME NEW n, Lookup(c, n) PROVE call'[c].pc # "panic"
        <5>1. \/ call' = [call EXCEPT ![c].todo = @ \ {n}]
              \/ call' = [call EXCEPT ![c].todo = @ \ {n}, ![c].found = Put(@, n, nics[n])]
          BY <2>4, <4>1 DEF Lookup
        <5>2. call'[c].pc = call[c].pc
          BY <5>1
        <5> QED BY <4>1, <5>2 DEF Lookup, At
      <4>2. ASSUME NEW g, GetGroup(c, g) PROVE call'[c].pc # "panic"
        <5>1. CASE call' = [call EXCEPT ![c].pc = "create", ![c].cur = g]
          BY <5>1
        <5>2. CASE call' = [call EXCEPT ![c].pc = "add", ![c].cur = g, ![c].snap = tgs[g]]
          BY <5>2
        <5>3. CASE call' = [call EXCEPT ![c].pc = "remove", ![c].cur = g, ![c].snap = tgs[g]]
          BY <5>3
        <5>4. CASE call' = [call EXCEPT ![c].todo = @ \ {g}] /\ call[c].pc = "next"
          BY <5>4
        <5> QED BY <4>2, <5>1, <5>2, <5>3, <5>4 DEF GetGroup, At
      <4>3. ASSUME CreateTG(c) PROVE call'[c].pc # "panic"
        BY <4>3 DEF CreateTG, GroupDone
      <4>4. ASSUME AddTGTargets(c) \/ RemoveTGTargets(c) PROVE call'[c].pc # "panic"
        BY <4>4 DEF AddTGTargets, RemoveTGTargets
      <4>5. ASSUME RefuseOperation(c) \/ Commit(c) PROVE call'[c].pc # "panic"
        BY <2>4, <4>5 DEF RefuseOperation, Commit, Return, NoCall
      <4>6. ASSUME GetTGsByClusterName(c) PROVE call'[c].pc # "panic"
        BY <4>6 DEF GetTGsByClusterName
      <4>7. ASSUME NEW g, RemoveTG(c, g) \/ FailRemoveTG(c, g) \/ SkipRemoveTG(c, g)
            PROVE  call'[c].pc # "panic"
        BY <4>7 DEF RemoveTG, FailRemoveTG, SkipRemoveTG, At
      <4>8. ASSUME CleanupEnd(c) PROVE call'[c].pc # "panic"
        BY <2>4, <4>8 DEF CleanupEnd, Return, NoCall
      <4> QED BY <2>7, <3>3, <4>1, <4>2, <4>3, <4>4, <4>5, <4>6, <4>7, <4>8 DEF Step
    <3>4. CASE Fault(c)
      BY <2>4, <3>4 DEF Fault, RemoteError, LoseOperation, LoseRemoveTG
    <3> QED BY <2>2, <3>1, <3>2, <3>3, <3>4 DEF Acts
  <2> QED BY <2>5, <2>6, <2>7
<1> QED BY <1>1, <1>2

-----------------------------------------------------------------------------
(* Theorems                                                                *)

\* At every moment of its run a call knows the cloud well enough for its next
\* step, because tgSyncLock keeps the other calls away; what may surprise it are
\* operations that nobody waited for any more when it took the lock
\* (load_balancer_tg_controller.go:39-40, api.go:45-48).
THEOREM Progressing == Spec => []CallsProgress
<1>1. TypeOK /\ CallsProgress /\ [Next]_vars => CallsProgress'
  BY ProgressNext
<1> QED BY <1>1, ProgressInit, TypeCorrect, PTL DEF Spec

\* The syncer panics only over an interface without address, or over a group
\* that an abandoned deletion has taken away (loadbalancer.go:305-314).
THEOREM PanicsAreExplained == Spec => []PanicsExplained
<1>1. Init => PanicsExplained
  BY DEF Init, PanicsExplained, NoCall, At
<1>2. TypeOK /\ CallsProgress /\ [Next]_vars /\ PanicsExplained => PanicsExplained'
  BY PanicStep
<1> QED BY <1>1, <1>2, TypeCorrect, Progressing, PTL DEF Spec

\* A sync that returns nil has brought every group of its mapping about.
THEOREM SyncsExactly == Spec => SyncExact
<1>1. TypeOK /\ CallsProgress /\ [Next]_vars =>
        [\A c \in Callers :
           At(c, "next") /\ call'[c].pc = "ok" =>
             \A g \in DOMAIN call[c].want \ Disturbed(call[c]) :
               g \in DOMAIN tgs' /\ tgs'[g] = call[c].want[g]]_vars
  BY CommitExact
<1> QED BY <1>1, TypeCorrect, Progressing, PTL DEF Spec, SyncExact

\* No traffic is cut while a sync rewrites a group.
THEOREM KeepsTraffic == Spec => TrafficKept
<1>1. TypeOK /\ CallsProgress /\ [Next]_vars =>
        [\A c \in Callers :
           call[c].pc \in Syncing =>
             \A g \in (DOMAIN call[c].want \cap DOMAIN tgs) \ Disturbed(call[c]) :
               /\ g \in DOMAIN tgs'
               /\ tgs[g] \cap call[c].want[g] \subseteq tgs'[g]
               /\ tgs[g] # {} => tgs'[g] # {}]_vars
  BY TrafficStep
<1> QED BY <1>1, TypeCorrect, Progressing, PTL DEF Spec, TrafficKept

\* A cleanup that returns nil leaves no group of this cluster behind.
THEOREM CleansUp == Spec => CleanupComplete
<1>1. TypeOK /\ CallsProgress /\ [Next]_vars =>
        [\A c \in Callers :
           call[c].pc \in Cleaning /\ call'[c].pc = "ok" =>
             DOMAIN tgs' \cap OwnNames \subseteq Reborn(call[c])]_vars
  BY CleanupStep
<1> QED BY <1>1, TypeCorrect, Progressing, PTL DEF Spec, CleanupComplete

=============================================================================
