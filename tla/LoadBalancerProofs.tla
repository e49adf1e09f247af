-------------------------- MODULE LoadBalancerProofs --------------------------
(***************************************************************************)
(* Theorems about LoadBalancer, for any Services, callers and failures.    *)
(* The argument: a call that nobody has interfered with since it read the  *)
(* balancer knows at any time how the balancer differs from what it should *)
(* be (CallsKnow); every operation takes one difference away and adds      *)
(* none, because the names, ports and groups by which operations refer to  *)
(* listeners and attachments are unique (Unambiguous).                     *)
(***************************************************************************)
EXTENDS LoadBalancer, TLAPS

Distinct(L) == \A k, l \in L : k.name = l.name \/ k.port = l.port => k = l

OncePerGroup(A) == \A a, b \in A : a.group = b.group => a = b

\* An operation that a call may have started.
Meaningful(o) ==
  /\ o \in Operations
  /\ Distinct(o.listeners) /\ OncePerGroup(o.attached)
  /\ o.op # "create" => o.id # NoId

\* What the API sees to, given that calls ask for meaningful operations only.
Unambiguous ==
  /\ Distinct(lb.listeners) /\ OncePerGroup(lb.attached)
  /\ \A o \in inflight : Meaningful(o)

\* The inductive invariant.
IInv == TypeOK /\ Unambiguous /\ CallsKnow

-----------------------------------------------------------------------------
(* Operations                                                              *)

\* Specifications are unambiguous.
LEMMA SpecMeans ==
  ASSUME NEW s \in Specs
  PROVE  /\ s \in BalancerSpec /\ s.listeners # {}
         /\ Distinct(s.listeners) /\ OncePerGroup(s.attached)
BY SpecsAssumption DEF Distinct, OncePerGroup

\* The fields of a call.
LEMMA CallFields ==
  ASSUME TypeOK, NEW c \in Callers
  PROVE  /\ call = [d \in Callers |-> call[d]] /\ CallOK(call[c])
         /\ call[c].pc \in Returned \cup Running
         /\ call[c].want \in Specs \cup {NoSpec} /\ call[c].id \in Ids \cup {NoId}
         /\ call[c].drop \in SUBSET Listener /\ call[c].add \in SUBSET Listener
         /\ call[c].detach \in SUBSET Attachment /\ call[c].attach \in SUBSET Attachment
BY DEF TypeOK, CallOK

\* What the operations of a call are.
LEMMA PendingMeans ==
  ASSUME TypeOK, NEW c \in Callers, NEW o \in Pending(c)
  PROVE  /\ Meaningful(o)
         /\ \/ At(c, "create") /\ o = CreateLB(call[c].want) /\ call[c].want \in Specs
            \/ call[c].pc \in {"recreate", "remove"} /\ o = DeleteLB(call[c].id)
            \/ /\ At(c, "update")
               /\ \E l \in call[c].drop : o = RemoveListener(call[c].id, l)
            \/ /\ At(c, "update") /\ call[c].drop = {}
               /\ \E l \in call[c].add : o = AddListener(call[c].id, l)
            \/ /\ At(c, "update") /\ call[c].drop \cup call[c].add = {}
               /\ \E a \in call[c].detach : o = DetachGroup(call[c].id, a)
            \/ /\ At(c, "update") /\ call[c].drop \cup call[c].add = {}
               /\ call[c].detach = {}
               /\ \E a \in call[c].attach : o = AttachGroup(call[c].id, a)
<1> DEFINE r == call[c]
<1>1. /\ r.pc \in Ensuring => r.want \in Specs
      /\ r.pc \in {"update", "recreate", "remove"} => r.id \in Ids \ {NoId}
  BY CallFields DEF CallOK
<1>2. CASE At(c, "create")
  <2>1. o = CreateLB(r.want) /\ r.want \in Specs
    BY <1>1, <1>2 DEF Pending, At, Ensuring
  <2> HIDE DEF r
  <2>2. Meaningful(o)
    BY <2>1, SpecMeans DEF Meaningful, CreateLB, Operations, BalancerSpec
  <2> QED BY <1>2, <2>1, <2>2 DEF r
<1>3. CASE r.pc \in {"recreate", "remove"}
  <2>1. o = DeleteLB(r.id) /\ r.id \in Ids \ {NoId}
    BY <1>1, <1>3 DEF Pending
  <2>2. Meaningful(o)
    BY <2>1 DEF Meaningful, DeleteLB, Operation, Operations, Types, Distinct, OncePerGroup
  <2> QED BY <1>3, <2>1, <2>2
<1>4. CASE At(c, "update")
  <2>1. r.id \in Ids \ {NoId}
    BY <1>1, <1>4 DEF At
  <2>2. \/ \E l \in r.drop : o = RemoveListener(r.id, l)
        \/ r.drop = {} /\ \E l \in r.add : o = AddListener(r.id, l)
        \/ r.drop \cup r.add = {} /\ \E a \in r.detach : o = DetachGroup(r.id, a)
        \/ /\ r.drop \cup r.add = {} /\ r.detach = {}
           /\ \E a \in r.attach : o = AttachGroup(r.id, a)
    BY <1>4 DEF Pending, At
  <2>3. ASSUME NEW l \in Listener, NEW a \in Attachment,
               \/ o = RemoveListener(r.id, l) \/ o = AddListener(r.id, l)
               \/ o = DetachGroup(r.id, a) \/ o = AttachGroup(r.id, a)
        PROVE  Meaningful(o)
    BY <2>1, <2>3
    DEF Meaningful, RemoveListener, AddListener, DetachGroup, AttachGroup, Operation,
        Operations, Types, Distinct, OncePerGroup
  <2>4. /\ r.drop \subseteq Listener /\ r.add \subseteq Listener
        /\ r.detach \subseteq Attachment /\ r.attach \subseteq Attachment
    BY CallFields
  <2>5. Listener # {} /\ Attachment # {}
    <3>1. PICK s \in Specs : TRUE
      BY <1>1, <1>4 DEF At, Ensuring
    <3> QED BY <3>1, SpecsAssumption DEF BalancerSpec
  <2>6. Meaningful(o)
    <3> HIDE DEF r
    <3> QED BY <2>2, <2>3, <2>4, <2>5
  <2> QED BY <1>4, <2>2, <2>6
<1> QED BY <1>2, <1>3, <1>4 DEF Pending, At

\* The balancer after an operation is one, and unambiguous.
LEMMA AfterMeans ==
  ASSUME TypeOK, Unambiguous, NEW o, Meaningful(o), Accepted(o), NEW b \in After(o)
  PROVE  /\ b \in Balancer /\ (b.id = NoId => b = NoBalancer)
         /\ Distinct(b.listeners) /\ OncePerGroup(b.attached)
<1> USE DEF Distinct, OncePerGroup
<1>1. /\ lb \in Balancer /\ (lb.id = NoId => lb = NoBalancer)
      /\ Distinct(lb.listeners) /\ OncePerGroup(lb.attached)
  BY DEF TypeOK, Unambiguous
<1>2. /\ o \in Operations /\ Distinct(o.listeners) /\ OncePerGroup(o.attached)
      /\ o.op # "create" => o.id # NoId
  BY DEF Meaningful
<1>3. CASE o.op = "create"
  <2>1. PICK i \in FreeIds : b = [id |-> i, type |-> o.type, listeners |-> o.listeners,
                                  attached |-> o.attached]
    BY <1>3 DEF After
  <2>2. i \in Ids /\ i # NoId
    BY IdsAssumption DEF FreeIds
  <2> QED BY <1>2, <2>1, <2>2 DEF Operations, Balancer
<1>4. CASE o.op = "delete"
  BY <1>4 DEF After, NoBalancer, Balancer, Types
<1>5. CASE o.op = "unlisten"
  <2>1. b = [lb EXCEPT !.listeners = {l \in @ : l.name \notin ListenerNamesOf(o.listeners)}]
    BY <1>5 DEF After
  <2>2. lb.id # NoId
    BY <1>2, <1>5 DEF Accepted
  <2> QED BY <1>1, <2>1, <2>2 DEF Balancer
<1>6. CASE o.op = "listen"
  <2>1. b = [lb EXCEPT !.listeners = @ \cup o.listeners]
    BY <1>6 DEF After
  <2>2. /\ lb.id # NoId
        /\ ListenerNamesOf(o.listeners) \cap ListenerNamesOf(lb.listeners) = {}
        /\ PortsOf(o.listeners) \cap PortsOf(lb.listeners) = {}
    BY <1>2, <1>6 DEF Accepted
  <2>3. \A k \in o.listeners, l \in lb.listeners : k.name # l.name /\ k.port # l.port
    BY <2>2 DEF ListenerNamesOf, PortsOf
  <2>4. b.listeners = lb.listeners \cup o.listeners /\ b.attached = lb.attached
    BY <1>1, <2>1 DEF Balancer
  <2>5. Distinct(b.listeners)
    BY <1>1, <1>2, <2>3, <2>4
  <2> QED BY <1>1, <1>2, <2>1, <2>2, <2>4, <2>5 DEF Balancer, Operations
<1>7. CASE o.op = "detach"
  <2>1. b = [lb EXCEPT !.attached = {a \in @ : a.group \notin GroupsOf(o.attached)}]
    BY <1>7 DEF After
  <2>2. lb.id # NoId
    BY <1>2, <1>7 DEF Accepted
  <2> QED BY <1>1, <2>1, <2>2 DEF Balancer
<1>8. CASE o.op = "attach"
  <2>1. b = [lb EXCEPT !.attached = @ \cup o.attached]
    BY <1>8 DEF After
  <2>2. lb.id # NoId /\ GroupsOf(o.attached) \cap GroupsOf(lb.attached) = {}
    BY <1>2, <1>8 DEF Accepted
  <2>3. \A a \in o.attached, e \in lb.attached : a.group # e.group
    BY <2>2 DEF GroupsOf
  <2>4. b.attached = lb.attached \cup o.attached /\ b.listeners = lb.listeners
    BY <1>1, <2>1 DEF Balancer
  <2>5. OncePerGroup(b.attached)
    BY <1>1, <1>2, <2>3, <2>4
  <2> QED BY <1>1, <1>2, <2>1, <2>2, <2>4, <2>5 DEF Balancer, Operations
<1> QED BY <1>2, <1>3, <1>4, <1>5, <1>6, <1>7, <1>8 DEF Operations

-----------------------------------------------------------------------------
(* Steps of one call                                                       *)

\* A step of c leaves the other calls alone.
OthersStay(c) ==
  /\ call' = [d \in Callers |-> call'[d]]
  /\ \A d \in Callers \ {c} : call'[d] = call[d]

LEMMA ExceptStay ==
  ASSUME TypeOK, NEW c \in Callers, NEW r, call' = [call EXCEPT ![c] = r]
  PROVE  OthersStay(c) /\ call'[c] = r
BY CallFields DEF OthersStay

LEMMA NewCallOK ==
  ASSUME NEW l \in Returned \cup {"find"}
  PROVE  CallOK(NewCall(l, NoSpec)) /\ NewCall(l, NoSpec).pc = l
BY DEF CallOK, NewCall, Returned, Running, Ensuring, Removing

\* A step of c that leaves the balancer alone.
LEMMA CallStep ==
  ASSUME IInv, NEW c \in Callers, OthersStay(c), CallOK(call'[c]), UNCHANGED lb,
         \A o \in inflight' : Meaningful(o),
         NobodyElse \/ HasRead(c) \/ (UNCHANGED stale /\ c \notin stale),
         c \notin stale' => Knows(call[c])'
  PROVE  IInv'
<1>1. stale' \subseteq stale
  BY DEF NobodyElse, HasRead
<1>2. \A d \in Callers \ {c} : d \in stale => d \in stale'
  BY DEF NobodyElse, HasRead, OthersStay, IInv, TypeOK
<1>3. stale' \subseteq {d \in Callers : call'[d].pc \in Running}
  BY DEF NobodyElse, HasRead, OthersStay, IInv, TypeOK
<1>4. TypeOK'
  BY <1>3 DEF IInv, TypeOK, OthersStay, Meaningful
<1>5. Unambiguous'
  BY DEF IInv, Unambiguous
<1>6. ASSUME NEW d \in Callers \ stale', d # c PROVE Knows(call[d])'
  <2>1. call'[d] = call[d] /\ Knows(call[d])
    BY <1>2, <1>6 DEF OthersStay, IInv, CallsKnow
  <2> QED BY <2>1 DEF Knows, Exists
<1> QED BY <1>4, <1>5, <1>6 DEF IInv, CallsKnow

\* A call that is not on its way knows nothing that could be wrong.
LEMMA NotRunningKnows ==
  ASSUME NEW d, call'[d].pc \notin Running
  PROVE  Knows(call[d])'
BY DEF Knows, Running, Ensuring, Removing

\* A call that returns is well-formed and knows nothing.
LEMMA ReturnOK ==
  ASSUME TypeOK, NEW c \in Callers, NEW result \in Returned, Return(c, result)
  PROVE  /\ OthersStay(c) /\ CallOK(call'[c]) /\ call'[c].pc = result
         /\ call'[c].pc \notin Running
<1>1. OthersStay(c) /\ call'[c] = NewCall(result, NoSpec)
  BY ExceptStay DEF Return
<1>2. CallOK(call'[c]) /\ call'[c].pc = result
  BY <1>1, NewCallOK
<1> QED BY <1>1, <1>2 DEF Returned, Running, Ensuring, Removing

LEMMA ReturnStep ==
  ASSUME IInv, NEW c \in Callers, NEW result \in Returned, Return(c, result),
         UNCHANGED lb, \A o \in inflight' : Meaningful(o), NobodyElse \/ HasRead(c)
  PROVE  IInv'
<1>1. OthersStay(c) /\ CallOK(call'[c]) /\ Knows(call[c])'
  BY ReturnOK, NotRunningKnows DEF IInv
<1> QED BY <1>1, CallStep

LEMMA EnsureStep ==
  ASSUME IInv, NEW c \in Callers, NEW s \in Specs, Ensure(c, s)
  PROVE  IInv'
<1>1. OthersStay(c) /\ call'[c] = NewCall("get", s) /\ c \notin stale
  BY ExceptStay DEF Ensure, IInv, TypeOK, Returned, Running, Ensuring, Removing
<1>2. CallOK(call'[c]) /\ Knows(call[c])'
  BY <1>1 DEF CallOK, NewCall, Returned, Running, Ensuring, Removing, Knows
<1> QED BY <1>1, <1>2, CallStep DEF Ensure, IInv, Unambiguous

LEMMA RemoveStep ==
  ASSUME IInv, NEW c \in Callers, Remove(c)
  PROVE  IInv'
<1>1. OthersStay(c) /\ call'[c] = NewCall("find", NoSpec) /\ c \notin stale
  BY ExceptStay DEF Remove, IInv, TypeOK, Returned, Running, Ensuring, Removing
<1>2. CallOK(call'[c]) /\ Knows(call[c])'
  BY <1>1, NewCallOK DEF Knows
<1> QED BY <1>1, <1>2, CallStep DEF Remove, IInv, Unambiguous

\* The differences are those of the balancer at this moment.
LEMMA GetLBStep ==
  ASSUME IInv, NEW c \in Callers, GetLB(c)
  PROVE  IInv'
<1> DEFINE s == call[c].want
           r == [call[c] EXCEPT !.pc     = "update", !.id = lb.id,
                                !.drop   = Unmatched(lb.listeners, s.listeners),
                                !.add    = Unmatched(s.listeners, lb.listeners),
                                !.detach = Unattached(lb.attached, s.attached),
                                !.attach = Unattached(s.attached, lb.attached)]
<1>1. /\ UNCHANGED <<lb, inflight>> /\ HasRead(c)
      /\ \A o \in inflight' : Meaningful(o)
  BY DEF GetLB, IInv, Unambiguous
<1>2. /\ CallOK(call[c]) /\ s \in Specs /\ s \in BalancerSpec /\ TypeOK
      /\ lb \in Balancer /\ lb.id \in Ids \cup {NoId}
  BY CallFields, SpecMeans DEF GetLB, At, IInv, TypeOK, CallOK, Ensuring, Balancer
<1>3. CASE Return(c, "ok")
  BY <1>1, <1>3, ReturnStep DEF Returned
<1>4. CASE ~Exists /\ call' = [call EXCEPT ![c].pc = "create"]
  <2>1. OthersStay(c) /\ call'[c] = [call[c] EXCEPT !.pc = "create"]
    BY <1>2, <1>4, CallFields DEF OthersStay
  <2>2. CallOK(call'[c]) /\ call'[c].pc = "create"
    BY <1>2, <2>1 DEF CallOK, Running, Ensuring
  <2>3. Knows(call[c])'
    BY <1>1, <1>4, <2>2 DEF Knows, Exists
  <2> QED BY <1>1, <2>1, <2>2, <2>3, CallStep
<1>5. CASE Exists /\ call' = [call EXCEPT ![c].pc = "recreate", ![c].id = lb.id]
  <2>1. OthersStay(c) /\ call'[c] = [call[c] EXCEPT !.pc = "recreate", !.id = lb.id]
    BY <1>2, <1>5, CallFields DEF OthersStay
  <2>2. CallOK(call'[c]) /\ call'[c].pc = "recreate" /\ call'[c].id = lb.id
    <3>1. lb.id \in Ids /\ lb.id # NoId
      BY <1>2, <1>5 DEF Exists
    <3>2. call'[c].want = s /\ call'[c].pc = "recreate" /\ call'[c].id = lb.id
      BY <1>2, <2>1 DEF CallOK
    <3>3. call'[c] \in [pc : Returned \cup Running, want : Specs \cup {NoSpec},
                        id : Ids \cup {NoId}, drop : SUBSET Listener, add : SUBSET Listener,
                        detach : SUBSET Attachment, attach : SUBSET Attachment]
      BY <1>2, <2>1, <3>1 DEF CallOK, Running, Ensuring
    <3> QED BY <1>2, <3>1, <3>2, <3>3 DEF CallOK
  <2>3. Knows(call[c])'
    BY <1>1, <2>2 DEF Knows
  <2> QED BY <1>1, <2>1, <2>2, <2>3, CallStep
<1>6. CASE Exists /\ s.type = lb.type /\ call' = [call EXCEPT ![c] = r]
  <2>1. OthersStay(c) /\ call'[c] = r
    BY <1>2, <1>6, ExceptStay
  <2>2. /\ Unmatched(lb.listeners, s.listeners) \in SUBSET Listener
        /\ Unmatched(s.listeners, lb.listeners) \in SUBSET Listener
        /\ Unattached(lb.attached, s.attached) \in SUBSET Attachment
        /\ Unattached(s.attached, lb.attached) \in SUBSET Attachment
    BY <1>2 DEF Unmatched, Unattached, Balancer, BalancerSpec
  <2>3. /\ r.pc = "update" /\ r.id = lb.id /\ r.want = s
        /\ r.drop = Unmatched(lb.listeners, s.listeners)
        /\ r.add = Unmatched(s.listeners, lb.listeners)
        /\ r.detach = Unattached(lb.attached, s.attached)
        /\ r.attach = Unattached(s.attached, lb.attached)
    BY <1>2 DEF CallOK
  <2>4. CallOK(r)
    BY <1>2, <1>6, <2>2 DEF CallOK, Running, Ensuring, Exists
  <2> HIDE DEF r, s
  <2>5. Knows(call[c])'
    BY <1>1, <1>6, <2>1, <2>3 DEF Knows, s
  <2> QED BY <1>1, <2>1, <2>4, <2>5, CallStep
<1> QED BY <1>3, <1>4, <1>5, <1>6 DEF GetLB

LEMMA FindLBStep ==
  ASSUME IInv, NEW c \in Callers, FindLB(c)
  PROVE  IInv'
<1>1. /\ UNCHANGED <<lb, inflight>> /\ HasRead(c)
      /\ \A o \in inflight' : Meaningful(o)
      /\ lb \in Balancer
      /\ CallOK(call[c]) /\ TypeOK
  BY CallFields DEF FindLB, IInv, Unambiguous, TypeOK
<1>2. CASE Return(c, "ok")
  BY <1>1, <1>2, ReturnStep DEF Returned
<1>3. CASE Exists /\ call' = [call EXCEPT ![c].pc = "remove", ![c].id = lb.id]
  <2>1. OthersStay(c) /\ call'[c] = [call[c] EXCEPT !.pc = "remove", !.id = lb.id]
    BY <1>1, <1>3, CallFields DEF OthersStay
  <2>2. CallOK(call'[c]) /\ call'[c].pc = "remove" /\ call'[c].id = lb.id
    BY <1>1, <1>3, <2>1 DEF CallOK, Running, Ensuring, Removing, Exists, IInv, TypeOK, Balancer
  <2>3. Knows(call[c])'
    BY <1>1, <2>2 DEF Knows
  <2> QED BY <1>1, <2>1, <2>2, <2>3, CallStep
<1> QED BY <1>2, <1>3 DEF FindLB

\* When nothing is left to do, the balancer is as it should be.
LEMMA NothingPending ==
  ASSUME IInv, NEW c \in Callers \ stale, At(c, "update"), Pending(c) = {}
  PROVE  /\ lb.id # NoId /\ lb.type = call[c].want.type /\ call[c].want \in Specs
         /\ Unmatched(lb.listeners, call[c].want.listeners) = {}
         /\ Unmatched(call[c].want.listeners, lb.listeners) = {}
         /\ lb.attached = call[c].want.attached
<1> DEFINE r == call[c]
<1>1. Knows(r) /\ r.pc = "update" /\ r.want \in Specs /\ r.id # NoId
  BY DEF IInv, CallsKnow, TypeOK, CallOK, At, Ensuring
<1>2. r.drop = {} /\ r.add = {} /\ r.detach = {} /\ r.attach = {}
  BY <1>1 DEF Pending
<1> QED BY <1>1, <1>2 DEF Knows, Unattached

LEMMA RecheckStep ==
  ASSUME IInv, NEW c \in Callers, Recheck(c)
  PROVE  IInv'
<1>1. /\ UNCHANGED <<lb, inflight>> /\ NobodyElse
      /\ \A o \in inflight' : Meaningful(o)
      /\ CallOK(call[c]) /\ TypeOK
  BY CallFields DEF Recheck, IInv, Unambiguous, TypeOK
<1>2. CASE Return(c, "ok")
  BY <1>1, <1>2, ReturnStep DEF Returned
<1>3. CASE lb.listeners = {} /\ call' = [call EXCEPT ![c].pc = "panic"]
  <2>1. OthersStay(c) /\ call'[c] = [call[c] EXCEPT !.pc = "panic"]
    BY <1>1, <1>3, CallFields DEF OthersStay
  <2>2. CallOK(call'[c]) /\ call'[c].pc \in Running
    BY <1>1, <1>3, <2>1 DEF CallOK, Running, Ensuring
  <2>3. c \in stale
    <3> SUFFICES ASSUME c \notin stale PROVE FALSE
      OBVIOUS
    <3>1. /\ Unmatched(call[c].want.listeners, lb.listeners) = {}
          /\ call[c].want \in Specs
      BY NothingPending DEF Recheck
    <3> QED BY <1>3, <3>1, SpecMeans DEF Unmatched
  <2>4. c \in stale'
    BY <1>1, <2>2, <2>3 DEF NobodyElse
  <2> QED BY <1>1, <2>1, <2>2, <2>4, CallStep
<1> QED BY <1>2, <1>3 DEF Recheck

\* A call ends with an error, or because the balancer is gone already.
LEMMA FailureStep ==
  ASSUME IInv, NEW c \in Callers, Refuse(c) \/ RemoteError(c) \/ Lose(c)
  PROVE  IInv'
<1>1. PICK result \in Returned : Return(c, result)
  BY DEF Refuse, RemoteError, Lose, Returned
<1>2. UNCHANGED lb /\ NobodyElse
  BY DEF Refuse, RemoteError, Lose
<1>3. \A o \in inflight' : Meaningful(o)
  BY PendingMeans DEF Refuse, RemoteError, Lose, IInv, Unambiguous
<1> QED BY <1>1, <1>2, <1>3, ReturnStep

-----------------------------------------------------------------------------
(* Steps that change the balancer                                          *)

\* Removing an unmatched listener, by its name, takes exactly this difference
\* away.
LEMMA Unlistened ==
  ASSUME NEW L, NEW W, Distinct(L), NEW l \in Unmatched(L, W),
         NEW M, M = {k \in L : k.name \notin ListenerNamesOf({l})}
  PROVE  /\ M = L \ {l}
         /\ Unmatched(M, W) = Unmatched(L, W) \ {l}
         /\ Unmatched(W, M) = Unmatched(W, L)
<1>1. l \in L /\ \A k \in W : ~SameListener(l, k) /\ ~SameListener(k, l)
  BY DEF Unmatched, SameListener
<1>2. M = L \ {l}
  BY <1>1 DEF Distinct, ListenerNamesOf
<1>3. Unmatched(M, W) = Unmatched(L, W) \ {l}
  BY <1>2 DEF Unmatched
<1>4. Unmatched(W, M) = Unmatched(W, L)
  BY <1>1, <1>2 DEF Unmatched
<1> QED BY <1>2, <1>3, <1>4

LEMMA UnmatchedMember ==
  ASSUME NEW S, NEW T, NEW x
  PROVE  x \in Unmatched(S, T) <=> x \in S /\ \A k \in T : ~SameListener(x, k)
BY DEF Unmatched, SameListener

\* So does adding one.
LEMMA Listened ==
  ASSUME NEW L, NEW W, Distinct(W), Unmatched(L, W) = {}, NEW l \in Unmatched(W, L)
  PROVE  /\ Unmatched(L \cup {l}, W) = {}
         /\ Unmatched(W, L \cup {l}) = Unmatched(W, L) \ {l}
<1>1. l \in W /\ SameListener(l, l)
  BY DEF Unmatched, SameListener
<1>2. \A k \in W : SameListener(k, l) => k = l
  BY <1>1 DEF Distinct, SameListener
<1>3. Unmatched(L \cup {l}, W) = {}
  BY <1>1 DEF Unmatched
<1>4. Unmatched(W, L \cup {l}) = Unmatched(W, L) \ {l}
  <2>1. ASSUME NEW w \in W
        PROVE  (\A k \in L \cup {l} : ~SameListener(w, k)) <=>
                 (\A k \in L : ~SameListener(w, k)) /\ w # l
    BY <1>1, <1>2
  <2>2. ASSUME NEW w
        PROVE  w \in Unmatched(W, L \cup {l}) <=> w \in Unmatched(W, L) \ {l}
    BY <2>1, UnmatchedMember
  <2> QED BY <2>2, Zenon
<1> QED BY <1>3, <1>4

\* What an operation of a call does to the balancer.
LEMMA UnlistenEffect ==
  ASSUME NEW i, NEW l, NEW o, o = RemoveListener(i, l), lb' \in After(o)
  PROVE  /\ o.op = "unlisten" /\ o.listeners = {l}
         /\ lb' = [lb EXCEPT !.listeners =
                     {k \in lb.listeners : k.name \notin ListenerNamesOf({l})}]
BY DEF RemoveListener, Operation, After

LEMMA ListenEffect ==
  ASSUME NEW i, NEW l, NEW o, o = AddListener(i, l), lb' \in After(o)
  PROVE  /\ o.op = "listen" /\ o.listeners = {l}
         /\ lb' = [lb EXCEPT !.listeners = lb.listeners \cup {l}]
BY DEF AddListener, Operation, After

LEMMA DetachEffect ==
  ASSUME NEW i, NEW a, NEW o, o = DetachGroup(i, a), lb' \in After(o)
  PROVE  /\ o.op = "detach" /\ o.attached = {a}
         /\ lb' = [lb EXCEPT !.attached =
                     {e \in lb.attached : e.group \notin GroupsOf({a})}]
BY DEF DetachGroup, Operation, After

LEMMA AttachEffect ==
  ASSUME NEW i, NEW a, NEW o, o = AttachGroup(i, a), lb' \in After(o)
  PROVE  /\ o.op = "attach" /\ o.attached = {a}
         /\ lb' = [lb EXCEPT !.attached = lb.attached \cup {a}]
BY DEF AttachGroup, Operation, After

LEMMA DeleteEffect ==
  ASSUME NEW i, NEW o, o = DeleteLB(i), lb' \in After(o)
  PROVE  o.op = "delete" /\ lb' = NoBalancer
BY DEF DeleteLB, Operation, After

LEMMA CreateEffect ==
  ASSUME NEW w, NEW o, o = CreateLB(w), lb' \in After(o)
  PROVE  /\ o.op = "create" /\ lb'.id # NoId /\ lb'.type = w.type
         /\ lb'.listeners = w.listeners /\ lb'.attached = w.attached
BY IdsAssumption DEF CreateLB, After, FreeIds

\* One difference of an update is worked off.
LEMMA Progress ==
  ASSUME IInv, NEW c \in Callers, At(c, "update"), NEW o \in Pending(c), Perform(c, o)
  PROVE  /\ OthersStay(c) /\ CallOK(call'[c]) /\ call'[c].pc = "update"
         /\ c \notin stale => Knows(call[c])'
<1> DEFINE r == call[c]  L == lb.listeners  W == r.want.listeners
           A == lb.attached  V == r.want.attached
<1>1. /\ Accepted(o) /\ lb' \in After(o) /\ Proceed(c, o)
      /\ r.pc = "update" /\ CallOK(r) /\ lb \in Balancer
      /\ r.want \in Specs /\ Distinct(W) /\ Distinct(L) /\ OncePerGroup(A)
  BY CallFields, SpecMeans DEF Perform, At, IInv, TypeOK, CallOK, Ensuring, Unambiguous
<1>2. /\ c \notin stale =>
           /\ lb.id = r.id /\ lb.type = r.want.type
           /\ r.drop = Unmatched(L, W) /\ r.add = Unmatched(W, L)
           /\ r.detach = A \ V /\ r.attach = V \ A
  BY <1>1 DEF IInv, CallsKnow, Knows, Unattached
<1>3. ASSUME NEW q,
             /\ call' = [call EXCEPT ![c] = q] /\ CallOK(q) /\ q.pc = "update"
             /\ c \notin stale =>
                  /\ lb'.id = q.id /\ lb'.type = q.want.type
                  /\ q.drop = Unmatched(lb'.listeners, q.want.listeners)
                  /\ q.add = Unmatched(q.want.listeners, lb'.listeners)
                  /\ q.detach = lb'.attached \ q.want.attached
                  /\ q.attach = q.want.attached \ lb'.attached
      PROVE  /\ OthersStay(c) /\ CallOK(call'[c]) /\ call'[c].pc = "update"
             /\ c \notin stale => Knows(call[c])'
  <2>1. OthersStay(c) /\ call'[c] = q
    BY <1>3, ExceptStay DEF IInv
  <2> QED BY <1>3, <2>1 DEF Knows, Unattached
<1>4. ASSUME NEW l \in r.drop, o = RemoveListener(r.id, l)
      PROVE  /\ OthersStay(c) /\ CallOK(call'[c]) /\ call'[c].pc = "update"
             /\ c \notin stale => Knows(call[c])'
  <2> DEFINE q == [r EXCEPT !.drop = @ \ {l}]
             M == {k \in L : k.name \notin ListenerNamesOf({l})}
  <2>1. o.op = "unlisten" /\ o.listeners = {l} /\ lb' = [lb EXCEPT !.listeners = M]
    BY <1>1, <1>4, UnlistenEffect
  <2>2. call' = [call EXCEPT ![c] = q]
    BY <1>1, <2>1 DEF Proceed
  <2>3. /\ CallOK(q) /\ q.pc = "update" /\ q.id = r.id /\ q.want = r.want
        /\ q.drop = r.drop \ {l} /\ q.add = r.add
        /\ q.detach = r.detach /\ q.attach = r.attach
    BY <1>1 DEF CallOK
  <2>4. lb'.id = lb.id /\ lb'.type = lb.type /\ lb'.listeners = M /\ lb'.attached = A
    BY <1>1, <2>1 DEF Balancer
  <2>5. c \notin stale => /\ Unmatched(M, W) = r.drop \ {l}
                          /\ Unmatched(W, M) = r.add
    BY <1>1, <1>2, <1>4, Unlistened
  <2> HIDE DEF q, M
  <2> QED BY <1>2, <1>3, <2>2, <2>3, <2>4, <2>5
<1>5. ASSUME r.drop = {}, NEW l \in r.add, o = AddListener(r.id, l)
      PROVE  /\ OthersStay(c) /\ CallOK(call'[c]) /\ call'[c].pc = "update"
             /\ c \notin stale => Knows(call[c])'
  <2> DEFINE q == [r EXCEPT !.add = @ \ {l}]
             M == L \cup {l}
  <2>1. o.op = "listen" /\ o.listeners = {l} /\ lb' = [lb EXCEPT !.listeners = M]
    BY <1>1, <1>5, ListenEffect
  <2>2. call' = [call EXCEPT ![c] = q]
    BY <1>1, <2>1 DEF Proceed
  <2>3. /\ CallOK(q) /\ q.pc = "update" /\ q.id = r.id /\ q.want = r.want
        /\ q.drop = r.drop /\ q.add = r.add \ {l}
        /\ q.detach = r.detach /\ q.attach = r.attach
    BY <1>1 DEF CallOK
  <2>4. lb'.id = lb.id /\ lb'.type = lb.type /\ lb'.listeners = M /\ lb'.attached = A
    BY <1>1, <2>1 DEF Balancer
  <2>5. c \notin stale => Unmatched(M, W) = {} /\ Unmatched(W, M) = r.add \ {l}
    BY <1>1, <1>2, <1>5, Listened
  <2> HIDE DEF q, M
  <2> QED BY <1>2, <1>3, <1>5, <2>2, <2>3, <2>4, <2>5
<1>6. ASSUME NEW a \in r.detach, o = DetachGroup(r.id, a)
      PROVE  /\ OthersStay(c) /\ CallOK(call'[c]) /\ call'[c].pc = "update"
             /\ c \notin stale => Knows(call[c])'
  <2> DEFINE q == [r EXCEPT !.detach = @ \ {a}]
             B == {e \in A : e.group \notin GroupsOf({a})}
  <2>1. o.op = "detach" /\ o.attached = {a} /\ lb' = [lb EXCEPT !.attached = B]
    BY <1>1, <1>6, DetachEffect
  <2>2. call' = [call EXCEPT ![c] = q]
    BY <1>1, <2>1 DEF Proceed
  <2>3. /\ CallOK(q) /\ q.pc = "update" /\ q.id = r.id /\ q.want = r.want
        /\ q.drop = r.drop /\ q.add = r.add
        /\ q.detach = r.detach \ {a} /\ q.attach = r.attach
    BY <1>1 DEF CallOK
  <2>4. lb'.id = lb.id /\ lb'.type = lb.type /\ lb'.listeners = L /\ lb'.attached = B
    BY <1>1, <2>1 DEF Balancer
  <2>5. c \notin stale => B = A \ {a} /\ a \notin V
    BY <1>1, <1>2, <1>6 DEF OncePerGroup, GroupsOf
  <2> HIDE DEF q, B
  <2> QED BY <1>2, <1>3, <2>2, <2>3, <2>4, <2>5
<1>7. ASSUME NEW a \in r.attach, o = AttachGroup(r.id, a)
      PROVE  /\ OthersStay(c) /\ CallOK(call'[c]) /\ call'[c].pc = "update"
             /\ c \notin stale => Knows(call[c])'
  <2> DEFINE q == [r EXCEPT !.attach = @ \ {a}]
  <2>1. o.op = "attach" /\ o.attached = {a} /\ lb' = [lb EXCEPT !.attached = A \cup {a}]
    BY <1>1, <1>7, AttachEffect
  <2>2. call' = [call EXCEPT ![c] = q]
    BY <1>1, <2>1 DEF Proceed
  <2>3. /\ CallOK(q) /\ q.pc = "update" /\ q.id = r.id /\ q.want = r.want
        /\ q.drop = r.drop /\ q.add = r.add
        /\ q.detach = r.detach /\ q.attach = r.attach \ {a}
    BY <1>1 DEF CallOK
  <2>4. /\ lb'.id = lb.id /\ lb'.type = lb.type /\ lb'.listeners = L
        /\ lb'.attached = A \cup {a}
    BY <1>1, <2>1 DEF Balancer
  <2> HIDE DEF q
  <2> QED BY <1>2, <1>3, <1>7, <2>2, <2>3, <2>4
<1> HIDE DEF r, L, W, A, V
<1>8. \/ \E l \in r.drop : o = RemoveListener(r.id, l)
      \/ r.drop = {} /\ \E l \in r.add : o = AddListener(r.id, l)
      \/ \E a \in r.detach : o = DetachGroup(r.id, a)
      \/ \E a \in r.attach : o = AttachGroup(r.id, a)
  BY PendingMeans DEF At, IInv, r
<1> QED BY <1>4, <1>5, <1>6, <1>7, <1>8

LEMMA PerformStep ==
  ASSUME IInv, NEW c \in Callers, NEW o \in Pending(c), Perform(c, o)
  PROVE  IInv'
<1>1. /\ TypeOK /\ Unambiguous /\ Meaningful(o) /\ Accepted(o) /\ lb' \in After(o)
      /\ UNCHANGED inflight /\ Changed(Callers \ {c}) /\ Proceed(c, o)
  BY PendingMeans DEF IInv, Perform
<1>2. /\ lb' \in Balancer /\ (lb'.id = NoId => lb' = NoBalancer)
      /\ Unambiguous'
  BY <1>1, AfterMeans DEF Unambiguous
<1>3. /\ OthersStay(c) /\ CallOK(call'[c])
      /\ c \notin stale /\ call'[c].pc \in Running => Knows(call[c])'
  <2>1. CASE At(c, "create")
    <3>1. o = CreateLB(call[c].want)
      BY <2>1, PendingMeans, <1>1 DEF At
    <3>2. o.op = "create"
      BY <1>1, <3>1, CreateEffect
    <3>3. Return(c, "ok")
      BY <1>1, <3>2 DEF Proceed
    <3> QED BY <1>1, <3>3, ReturnOK DEF Returned
  <2>2. CASE call[c].pc \in {"recreate", "remove"}
    <3>1. o = DeleteLB(call[c].id)
      BY <2>2, PendingMeans, <1>1 DEF At
    <3>2. o.op = "delete" /\ lb' = NoBalancer
      BY <1>1, <3>1, DeleteEffect
    <3>3. Return(c, "ok") \/ (At(c, "recreate") /\ CreateAnew(c))
      BY <1>1, <3>2 DEF Proceed
    <3>4. CASE Return(c, "ok")
      BY <1>1, <3>4, ReturnOK DEF Returned
    <3>5. CASE At(c, "recreate") /\ CreateAnew(c)
      <4>1. CallOK(call[c]) /\ call[c].want \in Specs
        BY <1>1, <3>5, CallFields DEF CallOK, At, Ensuring
      <4>2. OthersStay(c) /\ call'[c] = [call[c] EXCEPT !.pc = "create", !.id = NoId]
        BY <1>1, <3>5, <4>1, CallFields DEF CreateAnew, OthersStay
      <4>3. CallOK(call'[c]) /\ call'[c].pc = "create"
        BY <4>1, <4>2 DEF CallOK, Running, Ensuring
      <4>4. Knows(call[c])'
        BY <3>2, <4>3 DEF Knows, Exists, NoBalancer
      <4> QED BY <4>2, <4>3, <4>4
    <3> QED BY <3>3, <3>4, <3>5
  <2>3. CASE At(c, "update")
    BY <2>3, Progress
  <2> QED BY <1>1, <2>1, <2>2, <2>3, PendingMeans
<1>4. stale' \subseteq {d \in Callers : call'[d].pc \in Running}
  BY <1>1 DEF Changed
<1>5. TypeOK'
  BY <1>1, <1>2, <1>3, <1>4 DEF TypeOK, OthersStay
<1>6. ASSUME NEW d \in Callers \ stale' PROVE Knows(call[d])'
  <2>1. CASE call'[d].pc \notin Running
    BY <2>1, NotRunningKnows
  <2>2. CASE call'[d].pc \in Running
    <3>1. d = c /\ c \notin stale
      BY <1>1, <1>6, <2>2 DEF Changed
    <3> QED BY <1>3, <2>2, <3>1
  <2> QED BY <2>1, <2>2
<1> QED BY <1>2, <1>5, <1>6 DEF IInv, CallsKnow

\* An operation that was abandoned: whoever is on the way is stale now.
LEMMA LandStep ==
  ASSUME IInv, NEW o \in inflight, Land(o)
  PROVE  IInv'
<1>1. /\ TypeOK /\ Unambiguous /\ Meaningful(o) /\ call' = call
      /\ inflight' \subseteq inflight
  BY DEF IInv, Unambiguous, Land
<1>2. CASE UNCHANGED <<lb, stale>>
  BY <1>1, <1>2 DEF IInv, TypeOK, Unambiguous, CallsKnow, Knows, Exists
<1>3. CASE Accepted(o) /\ lb' \in After(o) /\ Changed(Callers)
  <2>1. /\ lb' \in Balancer /\ (lb'.id = NoId => lb' = NoBalancer)
        /\ Unambiguous'
    BY <1>1, <1>3, AfterMeans DEF Unambiguous
  <2>2. stale' = {d \in Callers : call'[d].pc \in Running}
    BY <1>3 DEF Changed
  <2>3. TypeOK'
    BY <1>1, <2>1, <2>2 DEF TypeOK
  <2>4. CallsKnow'
    BY <2>2, NotRunningKnows DEF CallsKnow
  <2> QED BY <2>1, <2>3, <2>4 DEF IInv
<1> QED BY <1>2, <1>3 DEF Land

LEMMA RestartStep ==
  ASSUME IInv, Restart
  PROVE  IInv'
<1>1. /\ TypeOK /\ Unambiguous /\ UNCHANGED lb /\ stale' = {}
      /\ call' = [c \in Callers |-> NewCall("err", NoSpec)]
  BY DEF Restart, IInv
<1>2. \A c \in Callers : CallOK(call'[c]) /\ call'[c].pc = "err"
  BY <1>1, NewCallOK DEF Returned
<1>3. \A o \in inflight' : o \in inflight \/ \E c \in Callers : o \in Pending(c)
  BY DEF Restart
<1>4. \A o \in inflight' : Meaningful(o)
  BY <1>1, <1>3, PendingMeans DEF Unambiguous
<1>5. TypeOK'
  BY <1>1, <1>2, <1>4 DEF TypeOK, Meaningful
<1>6. CallsKnow'
  BY <1>2, NotRunningKnows DEF CallsKnow, Running, Ensuring, Removing
<1> QED BY <1>1, <1>4, <1>5, <1>6 DEF IInv, Unambiguous

-----------------------------------------------------------------------------
(* The invariant                                                           *)

LEMMA InitOK == Init => IInv
<1> SUFFICES ASSUME Init PROVE IInv
  OBVIOUS
<1>1. \A c \in Callers : call[c] = NewCall("ok", NoSpec)
  BY DEF Init
<1>2. TypeOK
  BY <1>1, NewCallOK
  DEF Init, TypeOK, NoBalancer, Balancer, Types, Returned
<1>3. Unambiguous
  BY DEF Init, Unambiguous, NoBalancer, Distinct, OncePerGroup
<1>4. CallsKnow
  BY <1>1, NewCallOK DEF CallsKnow, Knows, Returned
<1> QED BY <1>2, <1>3, <1>4 DEF IInv

LEMMA NextOK == IInv /\ [Next]_vars => IInv'
<1> SUFFICES ASSUME IInv, [Next]_vars PROVE IInv'
  OBVIOUS
<1>1. CASE UNCHANGED vars
  BY <1>1 DEF vars, IInv, TypeOK, Unambiguous, CallsKnow, Knows, Exists
<1>2. ASSUME NEW c \in Callers, Step(c) PROVE IInv'
  BY <1>2, GetLBStep, FindLBStep, RecheckStep, FailureStep, PerformStep DEF Step
<1>3. ASSUME NEW c \in Callers, RemoteError(c) \/ Lose(c) PROVE IInv'
  BY <1>3, FailureStep
<1>4. CASE Next
  BY <1>2, <1>3, <1>4, EnsureStep, RemoveStep, LandStep, RestartStep DEF Next
<1> QED BY <1>1, <1>4

LEMMA Invariant == Spec => []IInv
BY InitOK, NextOK, PTL DEF Spec

-----------------------------------------------------------------------------
(* The theorems                                                            *)

\* Type correctness, whatever fails and however many calls run side by side.
THEOREM TypeCorrect == Spec => []TypeOK
<1>1. IInv => TypeOK
  BY DEF IInv
<1> QED BY <1>1, Invariant, PTL

\* The differences that a call works off are those of the balancer as it is,
\* unless another call has changed it (loadbalancer.go:74-180).
THEOREM DifferencesHold == Spec => []CallsKnow
<1>1. IInv => CallsKnow
  BY DEF IInv
<1> QED BY <1>1, Invariant, PTL

\* The balancer that is read again after an update is gone, and nil is
\* dereferenced (loadbalancer.go:186), only when others have taken it away.
THEOREM PanicsStale == Spec => []PanicsOnlyStale
<1>1. IInv => PanicsOnlyStale
  BY DEF IInv, CallsKnow, Knows, PanicsOnlyStale, At
<1> QED BY <1>1, Invariant, PTL

-----------------------------------------------------------------------------
(* Steps                                                                   *)

\* Whoever moves, the calls of others stay where they are.
LEMMA MoverOnly ==
  ASSUME TypeOK, NEW d \in Callers,
         \/ \E s \in Specs : Ensure(d, s)
         \/ Remove(d) \/ Step(d) \/ RemoteError(d) \/ Lose(d)
  PROVE  \A c \in Callers \ {d} : call'[c] = call[c]
<1> SUFFICES ASSUME NEW c \in Callers \ {d} PROVE call'[c] = call[c]
  OBVIOUS
<1>1. call = [e \in Callers |-> call[e]]
  BY DEF TypeOK
<1>2. ASSUME NEW s \in Specs, Ensure(d, s) PROVE call'[c] = call[c]
  BY <1>1, <1>2 DEF Ensure
<1>3. CASE Remove(d)
  BY <1>1, <1>3 DEF Remove
<1>4. CASE RemoteError(d) \/ Lose(d) \/ Refuse(d)
  BY <1>1, <1>4 DEF RemoteError, Lose, Refuse, Return
<1>5. CASE GetLB(d)
  BY <1>1, <1>5 DEF GetLB, Return
<1>6. CASE FindLB(d)
  BY <1>1, <1>6 DEF FindLB, Return
<1>7. CASE Recheck(d)
  BY <1>1, <1>7 DEF Recheck, Return
<1>8. ASSUME NEW o \in Pending(d), Perform(d, o) PROVE call'[c] = call[c]
  BY <1>1, <1>8 DEF Perform, Proceed, Return, CreateAnew
<1> QED BY <1>2, <1>3, <1>4, <1>5, <1>6, <1>7, <1>8 DEF Step

\* A call that moves does so by an operation of its own, or by a restart.
LEMMA MovesItself ==
  ASSUME TypeOK, [Next]_vars, NEW c \in Callers, call'[c] # call[c]
  PROVE  \/ \E s \in Specs : Ensure(c, s)
         \/ Remove(c) \/ Step(c) \/ RemoteError(c) \/ Lose(c) \/ Restart
<1>1. ASSUME NEW o \in inflight, Land(o) PROVE FALSE
  BY <1>1 DEF Land
<1>2. CASE UNCHANGED vars
  BY <1>2 DEF vars
<1>3. ASSUME NEW d \in Callers,
             \/ \E s \in Specs : Ensure(d, s)
             \/ Remove(d) \/ Step(d) \/ RemoteError(d) \/ Lose(d)
      PROVE  d = c
  BY <1>3, MoverOnly
<1> QED BY <1>1, <1>2, <1>3 DEF Next

\* Without differences the balancer has the same ports and targets.
LEMMA NoDifference ==
  ASSUME NEW S, NEW T, Unmatched(S, T) = {}, Unmatched(T, S) = {}
  PROVE  {<<l.port, l.target>> : l \in S} = {<<l.port, l.target>> : l \in T}
<1>1. \A l \in S : \E k \in T : SameListener(l, k)
  BY UnmatchedMember
<1>2. \A l \in T : \E k \in S : SameListener(l, k)
  BY UnmatchedMember
<1> QED BY <1>1, <1>2 DEF SameListener

\* A call that returns nil has done what it was asked to.
LEMMA ExactStep ==
  ASSUME IInv, [Next]_vars, NEW c \in Callers \ stale,
         call[c].pc \in Ensuring, call'[c].pc = "ok"
  PROVE  Matches(lb', call[c].want)
<1>1. /\ TypeOK /\ call'[c] # call[c] /\ call = [d \in Callers |-> call[d]]
      /\ call[c].want \in Specs
  BY CallFields DEF Ensuring, IInv, CallOK
<1>2. CASE Restart
  BY <1>2 DEF Restart, NewCall
<1>3. ASSUME Remove(c) \/ \E s \in Specs : Ensure(c, s) PROVE FALSE
  BY <1>3 DEF Remove, Ensure, Returned, Ensuring
<1>4. ASSUME RemoteError(c) \/ Lose(c) PROVE FALSE
  BY <1>1, <1>4 DEF RemoteError, Lose, Return, NewCall
<1>5. ASSUME Refuse(c) \/ FindLB(c) PROVE FALSE
  BY <1>1, <1>5 DEF Refuse, FindLB, At, Return, NewCall, Ensuring
<1>6. CASE GetLB(c)
  <2> DEFINE s == call[c].want
             r == [call[c] EXCEPT !.pc     = "update", !.id = lb.id,
                                  !.drop   = Unmatched(lb.listeners, s.listeners),
                                  !.add    = Unmatched(s.listeners, lb.listeners),
                                  !.detach = Unattached(lb.attached, s.attached),
                                  !.attach = Unattached(s.attached, lb.attached)]
  <2>1. /\ r.pc = "update"
        /\ r.drop = Unmatched(lb.listeners, s.listeners)
        /\ r.add = Unmatched(s.listeners, lb.listeners)
        /\ r.detach = Unattached(lb.attached, s.attached)
        /\ r.attach = Unattached(s.attached, lb.attached)
    BY CallFields DEF IInv, CallOK
  <2> HIDE DEF r
  <2>2. ASSUME ~Exists, call' = [call EXCEPT ![c].pc = "create"] PROVE FALSE
    BY <1>1, <2>2, CallFields DEF CallOK
  <2>3. ASSUME call' = [call EXCEPT ![c].pc = "recreate", ![c].id = lb.id] PROVE FALSE
    BY <1>1, <2>3, CallFields DEF CallOK
  <2>4. ASSUME call' = [call EXCEPT ![c] = r] PROVE FALSE
    BY <1>1, <2>1, <2>4
  <2>5. /\ lb' = lb /\ lb.id # NoId /\ s.type = lb.type
        /\ r.drop \cup r.add = {} /\ r.detach \cup r.attach = {}
    BY <1>6, <2>2, <2>3, <2>4 DEF GetLB, Exists, r
  <2>6. lb.attached = s.attached
    BY <2>1, <2>5 DEF Unattached
  <2>7. Unmatched(lb.listeners, s.listeners) = {} /\ Unmatched(s.listeners, lb.listeners) = {}
    BY <2>1, <2>5
  <2> QED BY <2>5, <2>6, <2>7, NoDifference DEF Matches
<1>7. CASE Recheck(c)
  BY <1>7, NothingPending, NoDifference DEF Recheck, Matches
<1>8. ASSUME NEW o \in Pending(c), Perform(c, o) PROVE Matches(lb', call[c].want)
  <2>1. lb' \in After(o) /\ Proceed(c, o)
    BY <1>8 DEF Perform
  <2>2. CASE At(c, "create")
    BY <1>1, <2>1, <2>2, PendingMeans, CreateEffect DEF Matches, At
  <2>3. CASE At(c, "recreate")
    <3>1. o.op = "delete"
      BY <1>1, <2>1, <2>3, PendingMeans, DeleteEffect DEF At
    <3>2. call' = [call EXCEPT ![c].pc = "create", ![c].id = NoId]
      BY <2>1, <2>3, <3>1 DEF At, Proceed, CreateAnew
    <3> QED BY <1>1, <3>2, CallFields DEF CallOK
  <2>4. CASE At(c, "update")
    BY <1>8, <2>4, Progress
  <2> QED BY <1>1, <2>2, <2>3, <2>4, PendingMeans DEF At, Ensuring
<1> QED BY <1>1, <1>2, <1>3, <1>4, <1>5, <1>6, <1>7, <1>8, MovesItself DEF Step

\* What a step takes away from the balancer under an update, nobody wants.
LEMMA KeptStep ==
  ASSUME IInv, [Next]_vars, NEW c \in Callers \ (stale \cup stale'),
         At(c, "update"), lb'.id = lb.id
  PROVE  /\ \A l \in lb.listeners \ lb'.listeners :
              \A k \in call[c].want.listeners : ~(k.port = l.port /\ k.target = l.target)
         /\ (lb.attached \ lb'.attached) \cap call[c].want.attached = {}
<1> DEFINE r == call[c]
           Kept == /\ \A l \in lb.listeners \ lb'.listeners :
                        \A k \in r.want.listeners : ~(k.port = l.port /\ k.target = l.target)
                   /\ (lb.attached \ lb'.attached) \cap r.want.attached = {}
<1> SUFFICES Kept
  OBVIOUS
<1>1. /\ TypeOK /\ lb \in Balancer
      /\ Distinct(lb.listeners) /\ OncePerGroup(lb.attached) /\ Knows(r)
  BY DEF IInv, TypeOK, Unambiguous, CallsKnow
<1>2. /\ r.drop = Unmatched(lb.listeners, r.want.listeners)
      /\ r.detach = lb.attached \ r.want.attached
  BY <1>1 DEF Knows, At, Unattached
<1>3. CASE UNCHANGED lb
  BY <1>3
<1>4. ASSUME Changed(Callers) \/ \E d \in Callers \ {c} : Changed(Callers \ {d}),
             call'[c] = call[c]
      PROVE  FALSE
  BY <1>4 DEF Changed, At, Running, Ensuring
<1>5. ASSUME NEW d \in Callers, NEW o \in Pending(d), Perform(d, o), d # c PROVE FALSE
  <2>1. call'[c] = call[c]
    BY <1>1, <1>5, MoverOnly DEF Step
  <2> QED BY <1>4, <1>5, <2>1 DEF Perform
<1>6. ASSUME NEW o \in inflight, Land(o) PROVE Kept
  BY <1>3, <1>4, <1>6 DEF Land
<1>7. ASSUME NEW o \in Pending(c), Perform(c, o) PROVE Kept
  <2>1. lb' \in After(o)
    BY <1>7 DEF Perform
  <2>2. ASSUME NEW l \in r.drop, o = RemoveListener(r.id, l) PROVE Kept
    <3> DEFINE M == {k \in lb.listeners : k.name \notin ListenerNamesOf({l})}
    <3>1. M = lb.listeners \ {l}
      <4>1. l \in Unmatched(lb.listeners, r.want.listeners)
        BY <1>2, <2>2
      <4>2. \A k \in lb.listeners : k.name = l.name <=> k = l
        BY <1>1, <4>1, UnmatchedMember DEF Distinct
      <4> QED BY <4>2 DEF ListenerNamesOf
    <3>2. lb' = [lb EXCEPT !.listeners = M]
      BY <2>1, <2>2, UnlistenEffect
    <3> HIDE DEF M
    <3>3. lb'.listeners = lb.listeners \ {l} /\ lb'.attached = lb.attached
      BY <1>1, <3>1, <3>2 DEF Balancer
    <3>4. \A k \in r.want.listeners : ~SameListener(l, k)
      BY <1>2, <2>2, UnmatchedMember
    <3> QED BY <3>3, <3>4 DEF SameListener
  <2>3. ASSUME NEW l \in r.add, o = AddListener(r.id, l) PROVE Kept
    BY <1>1, <2>1, <2>3, ListenEffect DEF Balancer
  <2>4. ASSUME NEW a \in r.detach, o = DetachGroup(r.id, a) PROVE Kept
    <3>1. lb' = [lb EXCEPT !.attached =
                   {e \in lb.attached : e.group \notin GroupsOf({a})}]
      BY <2>1, <2>4, DetachEffect
    <3>2. \A e \in lb.attached : e.group \in GroupsOf({a}) <=> e = a
      BY <1>1, <1>2, <2>4 DEF OncePerGroup, GroupsOf
    <3>3. lb'.attached = lb.attached \ {a} /\ lb'.listeners = lb.listeners
      BY <1>1, <3>1, <3>2 DEF Balancer
    <3> QED BY <1>2, <2>4, <3>3
  <2>5. ASSUME NEW a \in r.attach, o = AttachGroup(r.id, a) PROVE Kept
    BY <1>1, <2>1, <2>5, AttachEffect DEF Balancer
  <2> HIDE DEF Kept
  <2> QED BY <1>1, <2>2, <2>3, <2>4, <2>5, PendingMeans DEF At
<1> HIDE DEF Kept
<1>8. ASSUME NEW d \in Callers,
             \/ \E s \in Specs : Ensure(d, s)
             \/ Remove(d) \/ GetLB(d) \/ FindLB(d) \/ Recheck(d) \/ Refuse(d)
             \/ RemoteError(d) \/ Lose(d)
      PROVE  UNCHANGED lb
  BY <1>8 DEF Ensure, Remove, GetLB, FindLB, Recheck, Refuse, RemoteError, Lose
<1>9. CASE Restart \/ UNCHANGED vars
  BY <1>3, <1>9 DEF Restart, vars
<1> QED BY <1>3, <1>5, <1>6, <1>7, <1>8, <1>9 DEF Next, Step

\* A call that removes the balancer and returns nil leaves none.
LEMMA GoneStep ==
  ASSUME IInv, [Next]_vars, NEW c \in Callers \ stale,
         call[c].pc \in Removing, call'[c].pc = "ok"
  PROVE  lb' = NoBalancer
<1>1. /\ TypeOK /\ call'[c] # call[c] /\ call = [d \in Callers |-> call[d]]
      /\ CallOK(call[c]) /\ Knows(call[c])
  BY CallFields DEF Removing, IInv, CallsKnow
<1>2. CASE Restart
  BY <1>2 DEF Restart, NewCall
<1>3. ASSUME Remove(c) \/ \E s \in Specs : Ensure(c, s) PROVE FALSE
  BY <1>3 DEF Remove, Ensure, Returned, Removing
<1>4. ASSUME RemoteError(c) \/ Lose(c) PROVE FALSE
  BY <1>1, <1>4 DEF RemoteError, Lose, Return, NewCall
<1>5. ASSUME GetLB(c) \/ Recheck(c) PROVE FALSE
  BY <1>5 DEF GetLB, Recheck, At, Removing
<1>6. CASE FindLB(c)
  <2>1. ASSUME call' = [call EXCEPT ![c].pc = "remove", ![c].id = lb.id] PROVE FALSE
    BY <1>1, <2>1 DEF CallOK
  <2> QED BY <1>1, <1>6, <2>1 DEF FindLB, Exists, TypeOK
<1>7. ASSUME NEW o \in Pending(c) PROVE o = DeleteLB(call[c].id) /\ At(c, "remove")
  BY <1>1, PendingMeans DEF At, Removing
<1>8. CASE Refuse(c)
  <2>1. PICK o \in Pending(c) : ~Accepted(o)
    BY <1>8 DEF Refuse
  <2>2. o.op = "delete" /\ o.id = call[c].id /\ At(c, "remove")
    BY <1>7 DEF DeleteLB, Operation
  <2>3. lb.id # o.id
    BY <2>1, <2>2 DEF Accepted
  <2>4. lb.id = o.id
    BY <1>1, <2>2 DEF Knows, At
  <2> QED BY <2>3, <2>4
<1>9. ASSUME NEW o \in Pending(c), Perform(c, o) PROVE lb' = NoBalancer
  BY <1>7, <1>9, DeleteEffect DEF Perform
<1> QED BY <1>1, <1>2, <1>3, <1>4, <1>5, <1>6, <1>8, <1>9, MovesItself DEF Step

\* A CreateOrUpdateLB that returns nil leaves the balancer as it was asked to,
\* unless another call has changed it meanwhile (loadbalancer.go:36-187).
THEOREM UpdatesExactly == Spec => UpdateExact
<1>1. IInv /\ [Next]_vars =>
        [\A c \in Callers \ stale :
           call[c].pc \in Ensuring /\ call'[c].pc = "ok" => Matches(lb', call[c].want)]_vars
  BY ExactStep
<1> QED BY <1>1, Invariant, PTL DEF Spec, UpdateExact

\* An update in place takes away no listener and no attachment that is wanted
\* (loadbalancer.go:99-180).
THEOREM KeepsServing == Spec => ServingKept
<1>1. IInv /\ [Next]_vars =>
        [\A c \in Callers \ (stale \cup stale') :
           At(c, "update") /\ lb'.id = lb.id =>
             /\ \A l \in lb.listeners \ lb'.listeners :
                  \A k \in call[c].want.listeners :
                    ~(k.port = l.port /\ k.target = l.target)
             /\ (lb.attached \ lb'.attached) \cap call[c].want.attached = {}]_vars
  BY KeptStep
<1> QED BY <1>1, Invariant, PTL DEF Spec, ServingKept

\* A RemoveLBByName that returns nil leaves no balancer, unless another call has
\* made one since it looked (loadbalancer.go:208-236).
THEOREM RemovesLB == Spec => RemovedIsGone
<1>1. IInv /\ [Next]_vars =>
        [\A c \in Callers \ stale :
           call[c].pc \in Removing /\ call'[c].pc = "ok" => lb' = NoBalancer]_vars
  BY GoneStep
<1> QED BY <1>1, Invariant, PTL DEF Spec, RemovedIsGone

=============================================================================
