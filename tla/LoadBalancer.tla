----------------------------- MODULE LoadBalancer -----------------------------
(***************************************************************************)
(* CreateOrUpdateLB and RemoveLBByName: the network load balancer of one   *)
(* Service.  Balancers of different Services have different names, and     *)
(* nothing in common.  There is no lock: the worker that has the Service   *)
(* in hand and the one that sends a new set of nodes to all Services call  *)
(* side by side.                                                           *)
(*                                                                         *)
(* A call reads the balancer once, computes all differences from what it   *)
(* has read, and works them off by one remote operation each.  Operations  *)
(* address the balancer by its id, which a new balancer of the same name   *)
(* does not inherit.                                                       *)
(***************************************************************************)
EXTENDS FiniteSets, Naturals

CONSTANTS
  ListenerNames, Ports, NodePorts, Addresses,  \* of the ports of a Service
  Groups,      \* target groups
  Checks,      \* health checks
  Specs,       \* what ensureLB asks for
  Ids, NoId,   \* ids of balancers: numbers; a free one is reused
  Callers,
  Hazards,     \* "error", "lost", "crash": see TargetGroupSync
  MaxInflight  \* bound: operations nobody waits for, at the same time

Types == {"INTERNAL", "EXTERNAL"}

\* A port is a protocol and a port number.
Listener   == [name : ListenerNames, port : Ports, target : NodePorts,
               address : Addresses]
Attachment == [group : Groups, check : Checks]
BalancerSpec == [type : Types, listeners : SUBSET Listener, attached : SUBSET Attachment]
Balancer   == [id : Ids \cup {NoId}, type : Types, listeners : SUBSET Listener,
               attached : SUBSET Attachment]

\* A Service has a port, its ports differ in name and in number, and ensureLB
\* attaches one group.
ASSUME SpecsAssumption ==
  /\ Specs \subseteq BalancerSpec
  /\ \A s \in Specs :
       /\ s.listeners # {} /\ \E a \in Attachment : s.attached = {a}
       /\ \A k, l \in s.listeners : k.name = l.name \/ k.port = l.port => k = l

ASSUME IdsAssumption == Ids \subseteq Nat /\ NoId \notin Ids

ASSUME BalancerHazardsAssumption == Hazards \subseteq {"error", "lost", "crash"}

VARIABLES
  lb,        \* the balancer in the cloud, or NoBalancer
  inflight,  \* operations that run although nobody waits for them
  call,      \* the call of each caller: where it is, and its locals
  stale      \* history: calls under which others have changed the balancer

vars == <<lb, inflight, call, stale>>

NoBalancer == [id |-> NoId, type |-> "EXTERNAL", listeners |-> {}, attached |-> {}]
NoSpec     == [type |-> "EXTERNAL", listeners |-> {}, attached |-> {}]
Exists     == lb.id # NoId

-----------------------------------------------------------------------------
(* Differences                                                             *)

\* Faulty variant: as if a listener were its port alone.
SamePort(k, l) == k.port = l.port

\* nlbListenersAreEqual: neither the name nor the address counts.
SameListener(k, l) == k.port = l.port /\ k.target = l.target

\* diffListeners and diffAttachedTargetGroups, on either side: the members of
\* S without an equal in T.  A found one is remembered by its name or its
\* group, of which a Spec has no two.
Unmatched(S, T) == {l \in S : \A k \in T : ~SameListener(k, l)}

\* Faulty variant: all groups are attached anew.
AllGroups(S, T) == S

\* nlbAttachedTargetGroupsAreEqual: a group and its health check.
Unattached(S, T) == S \ T

-----------------------------------------------------------------------------
(* Operations                                                              *)

CreateLB(s) ==
  [op |-> "create", id |-> NoId, type |-> s.type, listeners |-> s.listeners,
   attached |-> s.attached]

Operation(name, i, L, A) ==
  [op |-> name, id |-> i, type |-> "EXTERNAL", listeners |-> L, attached |-> A]

DeleteLB(i)          == Operation("delete", i, {}, {})
RemoveListener(i, l) == Operation("unlisten", i, {l}, {})
AddListener(i, l)    == Operation("listen", i, {l}, {})
DetachGroup(i, a)    == Operation("detach", i, {}, {a})
AttachGroup(i, a)    == Operation("attach", i, {}, {a})

ListenerNamesOf(S) == {l.name : l \in S}
PortsOf(S)         == {l.port : l \in S}
GroupsOf(S)        == {a.group : a \in S}

\* The API accepts the operation: the balancer is the one that is meant, names
\* and ports of listeners are unique, a group is attached once.
Accepted(o) ==
  LET names == ListenerNamesOf(o.listeners)  ports == PortsOf(o.listeners)
      groups == GroupsOf(o.attached) IN
  CASE o.op = "create"   -> ~Exists
    [] o.op = "delete"   -> lb.id = o.id
    [] o.op = "unlisten" -> lb.id = o.id /\ names \subseteq ListenerNamesOf(lb.listeners)
    [] o.op = "listen"   -> /\ lb.id = o.id
                            /\ names \cap ListenerNamesOf(lb.listeners) = {}
                            /\ ports \cap PortsOf(lb.listeners) = {}
    [] o.op = "detach"   -> lb.id = o.id /\ groups \subseteq GroupsOf(lb.attached)
    [] o.op = "attach"   -> lb.id = o.id /\ groups \cap GroupsOf(lb.attached) = {}

\* Ids that nobody knows any more, the smallest of them.
FreeIds ==
  LET held == {lb.id} \cup {call[c].id : c \in Callers} \cup {o.id : o \in inflight}
  IN  {i \in Ids \ held : \A j \in Ids \ held : i <= j}

\* The balancer after an accepted operation.
After(o) ==
  CASE o.op = "create"   -> {[id |-> i, type |-> o.type, listeners |-> o.listeners,
                              attached |-> o.attached] : i \in FreeIds}
    [] o.op = "delete"   -> {NoBalancer}
    [] o.op = "unlisten" -> {[lb EXCEPT !.listeners =
                               {l \in @ : l.name \notin ListenerNamesOf(o.listeners)}]}
    [] o.op = "listen"   -> {[lb EXCEPT !.listeners = @ \cup o.listeners]}
    [] o.op = "detach"   -> {[lb EXCEPT !.attached =
                               {a \in @ : a.group \notin GroupsOf(o.attached)}]}
    [] o.op = "attach"   -> {[lb EXCEPT !.attached = @ \cup o.attached]}

-----------------------------------------------------------------------------
(* Calls                                                                   *)

\* want: the arguments of CreateOrUpdateLB.  id: the balancer that was read.
\* drop, add, detach, attach: the differences not worked off yet.
NewCall(label, s) ==
  [pc |-> label, want |-> s, id |-> NoId, drop |-> {}, add |-> {},
   detach |-> {}, attach |-> {}]

Returned == {"ok", "err"}
Ensuring == {"get", "create", "recreate", "update"}
Removing == {"find", "remove"}
Running  == Ensuring \cup Removing \cup {"panic"}

At(c, label)      == call[c].pc = label
Return(c, result) == call' = [call EXCEPT ![c] = NewCall(result, NoSpec)]

\* A call that has returned is not stale any more, and one that has just read
\* the balancer is not yet.
NobodyElse     == stale' = {d \in stale : call'[d].pc \in Running}
HasRead(c)     == stale' = stale \ {c}
\* Everybody else's knowledge of the balancer is out of date.
Changed(S)     == stale' = {d \in Callers : call'[d].pc \in Running /\ (d \in S \cup stale)}

\* What a call does next; of several listeners or groups any.
Pending(c) ==
  LET r == call[c] IN
  CASE r.pc = "create"                 -> {CreateLB(r.want)}
    [] r.pc \in {"recreate", "remove"} -> {DeleteLB(r.id)}
    [] r.pc = "update" /\ r.drop # {}  -> {RemoveListener(r.id, l) : l \in r.drop}
    [] r.pc = "update" /\ r.drop = {} /\ r.add # {} ->
         {AddListener(r.id, l) : l \in r.add}
    [] r.pc = "update" /\ r.drop \cup r.add = {} /\ r.detach # {} ->
         {DetachGroup(r.id, a) : a \in r.detach}
    [] r.pc = "update" /\ r.drop \cup r.add = {} /\ r.detach = {} ->
         {AttachGroup(r.id, a) : a \in r.attach}
    [] OTHER -> {}

\* CreateOrUpdateLB(s), RemoveLBByName
Ensure(c, s) ==
  /\ call[c].pc \in Returned
  /\ call' = [call EXCEPT ![c] = NewCall("get", s)]
  /\ UNCHANGED <<lb, inflight, stale>>

Remove(c) ==
  /\ call[c].pc \in Returned
  /\ call' = [call EXCEPT ![c] = NewCall("find", NoSpec)]
  /\ UNCHANGED <<lb, inflight, stale>>

\* GetLbByName, shouldRecreate and the differences of CreateOrUpdateLB.
GetLB(c) ==
  LET s == call[c].want
      r == [call[c] EXCEPT !.pc     = "update", !.id = lb.id,
                           !.drop   = Unmatched(lb.listeners, s.listeners),
                           !.add    = Unmatched(s.listeners, lb.listeners),
                           !.detach = Unattached(lb.attached, s.attached),
                           !.attach = Unattached(s.attached, lb.attached)]
      same == r.drop \cup r.add = {} /\ r.detach \cup r.attach = {}
  IN
  /\ At(c, "get")
  /\ \/ ~Exists /\ call' = [call EXCEPT ![c].pc = "create"]
     \/ /\ Exists /\ s.type # lb.type
        /\ call' = [call EXCEPT ![c].pc = "recreate", ![c].id = lb.id]
     \/ Exists /\ s.type = lb.type /\ ~same /\ call' = [call EXCEPT ![c] = r]
     \/ Exists /\ s.type = lb.type /\ same /\ Return(c, "ok")
  /\ HasRead(c)
  /\ UNCHANGED <<lb, inflight>>

\* Faulty variant: without the look at nil.
FindUnchecked(c) ==
  /\ At(c, "find")
  /\ call' = [call EXCEPT ![c].pc = "remove", ![c].id = lb.id]
  /\ HasRead(c)
  /\ UNCHANGED <<lb, inflight>>

\* GetLbByName of RemoveLBByName.
FindLB(c) ==
  /\ At(c, "find")
  /\ \/ ~Exists /\ Return(c, "ok")
     \/ Exists /\ call' = [call EXCEPT ![c].pc = "remove", ![c].id = lb.id]
  /\ HasRead(c)
  /\ UNCHANGED <<lb, inflight>>

\* Faulty variant: the deleted balancer is updated.
FallsThrough(c) == call' = [call EXCEPT ![c].pc = "update"]

\* The other type of balancer is created once the one is deleted.
CreateAnew(c) == call' = [call EXCEPT ![c].pc = "create", ![c].id = NoId]

\* The call goes on after its operation o.
Proceed(c, o) ==
  \/ o.op = "create" /\ Return(c, "ok")
  \/ o.op = "delete" /\ At(c, "remove") /\ Return(c, "ok")
  \/ o.op = "delete" /\ At(c, "recreate") /\ CreateAnew(c)
  \/ o.op = "unlisten" /\ call' = [call EXCEPT ![c].drop   = @ \ o.listeners]
  \/ o.op = "listen"   /\ call' = [call EXCEPT ![c].add    = @ \ o.listeners]
  \/ o.op = "detach"   /\ call' = [call EXCEPT ![c].detach = @ \ o.attached]
  \/ o.op = "attach"   /\ call' = [call EXCEPT ![c].attach = @ \ o.attached]

\* An operation, accepted and done.
Perform(c, o) ==
  /\ o \in Pending(c) /\ Accepted(o)
  /\ lb' \in After(o)
  /\ Proceed(c, o)
  /\ Changed(Callers \ {c})
  /\ UNCHANGED inflight

\* After an update the balancer is read again, for the address of its first
\* listener: GetLbByName answers nil for one that is gone.
Recheck(c) ==
  /\ At(c, "update") /\ Pending(c) = {}
  /\ \/ lb.listeners # {} /\ Return(c, "ok")
     \/ lb.listeners = {} /\ call' = [call EXCEPT ![c].pc = "panic"]
  /\ NobodyElse
  /\ UNCHANGED <<lb, inflight>>

\* An operation that the API refuses.  RemoveLBByName takes NotFound for success.
Refuse(c) ==
  /\ \E o \in Pending(c) : ~Accepted(o)
  /\ Return(c, IF At(c, "remove") THEN "ok" ELSE "err")
  /\ NobodyElse
  /\ UNCHANGED <<lb, inflight>>

\* Faulty variant: RemoveLBByName takes any error for success.
AnyErrorIsNotFound(c) ==
  /\ "error" \in Hazards /\ call[c].pc \in Running \ {"panic"}
  /\ Return(c, IF At(c, "remove") THEN "ok" ELSE "err")
  /\ NobodyElse
  /\ UNCHANGED <<lb, inflight>>

\* Any remote call fails, without an effect.
RemoteError(c) ==
  /\ "error" \in Hazards /\ call[c].pc \in Running \ {"panic"}
  /\ Return(c, "err")
  /\ NobodyElse
  /\ UNCHANGED <<lb, inflight>>

\* The wait fails, the operation runs on.
Lose(c) ==
  /\ "lost" \in Hazards /\ Cardinality(inflight) < MaxInflight
  /\ \E o \in Pending(c) : Accepted(o) /\ inflight' = inflight \cup {o}
  /\ Return(c, "err")
  /\ NobodyElse
  /\ UNCHANGED lb

\* An abandoned operation ends: done, or refused and without effect.
Land(o) ==
  /\ o \in inflight /\ inflight' = inflight \ {o}
  /\ UNCHANGED call
  /\ \/ Accepted(o) /\ lb' \in After(o) /\ Changed(Callers)
     \/ UNCHANGED <<lb, stale>>

\* A crash, or the end of the process after a panic: every call is gone; of the
\* operations that were accepted and waited for, any run on.
Restart ==
  /\ "crash" \in Hazards \/ \E c \in Callers : At(c, "panic")
  /\ \E S \in SUBSET Callers : \E o \in [S -> UNION {Pending(c) : c \in S}] :
       /\ \A c \in S : o[c] \in Pending(c) /\ Accepted(o[c])
       /\ inflight' = inflight \cup {o[c] : c \in S}
  /\ inflight' # inflight => Cardinality(inflight') <= MaxInflight
  /\ call' = [c \in Callers |-> NewCall("err", NoSpec)]
  /\ stale' = {}
  /\ UNCHANGED lb

Init ==
  /\ lb = NoBalancer /\ inflight = {} /\ stale = {}
  /\ call = [c \in Callers |-> NewCall("ok", NoSpec)]

Operations ==
  [op : {"create", "delete", "unlisten", "listen", "detach", "attach"},
   id : Ids \cup {NoId}, type : Types, listeners : SUBSET Listener,
   attached : SUBSET Attachment]

Step(c) ==
  \/ GetLB(c) \/ FindLB(c) \/ Recheck(c) \/ Refuse(c)
  \/ \E o \in Pending(c) : Perform(c, o)

Next ==
  \/ \E c \in Callers :
       \/ \E s \in Specs : Ensure(c, s)
       \/ Remove(c) \/ Step(c) \/ RemoteError(c) \/ Lose(c)
  \/ \E o \in inflight : Land(o)
  \/ Restart

Spec == Init /\ [][Next]_vars

-----------------------------------------------------------------------------
(* Properties                                                              *)

CallOK(r) ==
  /\ r \in [pc : Returned \cup Running, want : Specs \cup {NoSpec}, id : Ids \cup {NoId},
            drop : SUBSET Listener, add : SUBSET Listener,
            detach : SUBSET Attachment, attach : SUBSET Attachment]
  /\ r.pc \in Ensuring => r.want \in Specs
  /\ r.pc \in {"update", "recreate", "remove"} => r.id # NoId

\* Type invariant.
TypeOK ==
  /\ lb \in Balancer /\ (lb.id = NoId => lb = NoBalancer)
  /\ inflight \subseteq Operations
  /\ call = [c \in Callers |-> call[c]] /\ \A c \in Callers : CallOK(call[c])
  /\ stale \subseteq {c \in Callers : call[c].pc \in Running}

\* The balancer carries exactly the ports of the Service, to its target group.
Matches(b, s) ==
  /\ b.id # NoId /\ b.type = s.type
  /\ {<<l.port, l.target>> : l \in b.listeners} =
       {<<l.port, l.target>> : l \in s.listeners}
  /\ b.attached = s.attached

\* A CreateOrUpdateLB that returns nil leaves the balancer as it was asked to,
\* from whatever a failed, crashed or abandoned call has left, unless another
\* call has changed the balancer since this one read it.
UpdateExact ==
  [][\A c \in Callers \ stale :
       call[c].pc \in Ensuring /\ call'[c].pc = "ok" => Matches(lb', call[c].want)]_vars

\* While a balancer is updated in place, no step of the update takes away a
\* listener or an attachment that is wanted.
ServingKept ==
  [][\A c \in Callers \ (stale \cup stale') :
       At(c, "update") /\ lb'.id = lb.id =>
         /\ \A l \in lb.listeners \ lb'.listeners :
              \A k \in call[c].want.listeners : ~(k.port = l.port /\ k.target = l.target)
         /\ (lb.attached \ lb'.attached) \cap call[c].want.attached = {}]_vars

\* A RemoveLBByName that returns nil leaves no balancer, unless another call has
\* made one since this one looked for it.
RemovedIsGone ==
  [][\A c \in Callers \ stale :
       call[c].pc \in Removing /\ call'[c].pc = "ok" => lb' = NoBalancer]_vars

\* What a call takes for granted of the balancer that it has read.
Knows(r) ==
  /\ r.pc # "panic"
  /\ r.pc = "create" => ~Exists
  /\ r.pc \in {"recreate", "update", "remove"} => lb.id = r.id
  /\ r.pc = "update" =>
       /\ lb.type = r.want.type
       /\ r.drop   = Unmatched(lb.listeners, r.want.listeners)
       /\ r.add    = Unmatched(r.want.listeners, lb.listeners)
       /\ r.detach = Unattached(lb.attached, r.want.attached)
       /\ r.attach = Unattached(r.want.attached, lb.attached)

\* The differences that a call has not worked off yet are at any time those of
\* the balancer as it is, although they were computed once and operations
\* refer to listeners by name and to groups by id (loadbalancer.go:74-180),
\* unless another call has changed the balancer.
CallsKnow == \A c \in Callers \ stale : Knows(call[c])

\* CreateOrUpdateLB dereferences a balancer that is gone (loadbalancer.go:186)
\* only when another call, or an operation of one, has taken it away.
PanicsOnlyStale == \A c \in Callers : At(c, "panic") => c \in stale

=============================================================================
