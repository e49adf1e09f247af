--------------------------- MODULE RouteTableProofs ---------------------------
(***************************************************************************)
(* Theorems about RouteTable and RouteFilter, for all values of their      *)
(* constants, whatever fails: mutual exclusion, one route per node, the    *)
(* refinement of the abstract table, and that filterStaticRoutes, on       *)
(* lists, writes that table.  At the end, that all this holds of the calls *)
(* of RouteController's rounds as well, and that these rounds only improve *)
(* the table; only there is ControllerAssumption used.                     *)
(***************************************************************************)
EXTENDS RouteController, RouteFilter, SelectionProofs

-----------------------------------------------------------------------------
(* Lemmas                                                                  *)

LEMMA NewCallOK ==
  ASSUME NEW l \in Returned \cup {"get"}, NEW r \in Requests
  PROVE  CallOK(NewCall(l, r))
BY DEF CallOK, NewCall, Returned, Running

LEMMA FilterType ==
  ASSUME NEW t \in SUBSET Route, NEW n \in Nodes, NEW d \in CIDRs, NEW h \in Hops
  PROVE  AddOrUpdate(t, n, d, h) \in SUBSET Route /\ Remove(t, n) \in SUBSET Route
BY DEF AddOrUpdate, Remove, Route

\* What a call that is about to write knows.
LEMMA UpdateType ==
  ASSUME TypeOK, NEW c \in Callers, At(c, "update")
  PROVE  /\ NewStaticRoutes(c) \in SUBSET Route /\ lock = c
         /\ call[c].snap \in SUBSET Route /\ call[c].req.node \in Nodes
         /\ \/ /\ call[c].req.op = "create"
               /\ call[c].req.cidr \in CIDRs /\ call[c].hop \in Hops
               /\ NewStaticRoutes(c) =
                    AddOrUpdate(call[c].snap, call[c].req.node, call[c].req.cidr, call[c].hop)
            \/ NewStaticRoutes(c) = Remove(call[c].snap, call[c].req.node)
<1>1. CallOK(call[c]) /\ lock = c /\ call[c].req \in Requests
  BY DEF TypeOK, LockOK, CallOK, At, Running
<1>2. \/ \E n \in Nodes, d \in CIDRs : call[c].req = CreateRequest(n, d)
      \/ \E n \in Nodes, d \in CIDRs : call[c].req = DeleteRequest(n, d)
  BY <1>1 DEF Requests, ListRequest, CallOK, At
<1>3. CASE \E n \in Nodes, d \in CIDRs : call[c].req = CreateRequest(n, d)
  <2>1. PICK n \in Nodes, d \in CIDRs : call[c].req = CreateRequest(n, d)
    BY <1>3
  <2>2. call[c].req.op = "create" /\ call[c].req.node = n /\ call[c].req.cidr = d
    BY <2>1 DEF CreateRequest
  <2>3. call[c].snap \in SUBSET Route /\ call[c].hop \in Hops
    BY <1>1, <2>2 DEF CallOK, At
  <2>4. NewStaticRoutes(c) = AddOrUpdate(call[c].snap, n, d, call[c].hop)
    BY <2>2 DEF NewStaticRoutes
  <2>5. NewStaticRoutes(c) \in SUBSET Route
    BY <2>3, <2>4, FilterType
  <2> QED BY <1>1, <2>2, <2>3, <2>4, <2>5
<1>4. CASE \E n \in Nodes, d \in CIDRs : call[c].req = DeleteRequest(n, d)
  BY <1>1, <1>4, FilterType DEF DeleteRequest, CallOK, At, NewStaticRoutes, Remove
<1> QED BY <1>2, <1>3, <1>4

\* A user's edit leaves to the calls all they have.
SameCalls ==
  \A c \in Callers :
    /\ call'[c].pc = call[c].pc /\ call'[c].req = call[c].req
    /\ call'[c].snap = call[c].snap /\ call'[c].hop = call[c].hop

LEMMA EditKeeps ==
  ASSUME TypeOK, NEW r, UserEdit(r)
  PROVE  /\ SameCalls /\ call' = [c \in Callers |-> call'[c]]
         /\ \A c \in Callers : CallOK(call'[c]) /\ ~call'[c].alone
<1>1. call' = [c \in Callers |-> [call[c] EXCEPT !.alone = FALSE]]
  BY DEF UserEdit
<1>2. ASSUME NEW c \in Callers
      PROVE  CallOK(call[c]) /\ call'[c] = [call[c] EXCEPT !.alone = FALSE]
  BY <1>1 DEF TypeOK
<1> QED BY <1>1, <1>2 DEF SameCalls, CallOK

-----------------------------------------------------------------------------
(* Type correctness and mutual exclusion                                   *)

\* A step of c leaves the other calls alone.
OthersStay(c) ==
  /\ call' = [d \in Callers |-> call'[d]]
  /\ \A d \in Callers \ {c} : call'[d] = call[d]

\* What TypeOK says of the calls and the lock.
CallsOK ==
  /\ lock \in Callers \cup {NoCaller}
  /\ call = [c \in Callers |-> call[c]] /\ \A c \in Callers : CallOK(call[c])
  /\ LockOK

\* c takes the free lock, keeps what it has, or gives its own back.
LEMMA OneCall ==
  ASSUME CallsOK, NEW c \in Callers, OthersStay(c), CallOK(call'[c]),
         lock \in {c, NoCaller},
         lock' = IF call'[c].pc \in Running THEN c ELSE NoCaller
  PROVE  CallsOK'
BY RouteConstantsAssumption DEF CallsOK, LockOK, OthersStay

LEMMA ReturnType ==
  ASSUME CallsOK, NEW c \in Callers, lock = c, NEW result \in Returned,
         NEW answer \in SUBSET Route, Return(c, result, answer)
  PROVE  CallsOK'
<1>1. OthersStay(c) /\ call'[c] = [NewCall(result, ListRequest) EXCEPT !.snap = answer]
  BY DEF CallsOK, Return, OthersStay
<1>2. call'[c] = [pc |-> result, req |-> ListRequest, snap |-> answer, hop |-> NoHop,
                  alone |-> FALSE]
  BY <1>1 DEF NewCall
<1>3. CallOK(call'[c]) /\ call'[c].pc \notin Running
  BY <1>2 DEF CallOK, Returned, Running, Requests
<1> QED BY <1>1, <1>3, OneCall DEF Return

LEMMA StartType ==
  ASSUME TypeOK, NEW c \in Callers, NEW r \in Requests, Start(c, r)
  PROVE  CallsOK'
<1>1. OthersStay(c) /\ CallsOK
  BY DEF TypeOK, CallsOK, Start, OthersStay
<1>2. CASE lock = NoCaller
  <2>1. call'[c] = NewCall("get", r) /\ lock' = c
    BY <1>2 DEF TypeOK, Start
  <2> QED BY <1>1, <1>2, <2>1, NewCallOK, OneCall DEF NewCall, Running
<1>3. CASE lock # NoCaller
  <2>1. call'[c] = NewCall("err", ListRequest) /\ lock' = lock
    BY <1>3 DEF TypeOK, Start
  <2>2. CallOK(call'[c]) /\ call'[c].pc = "err"
    BY <2>1, NewCallOK DEF Requests, Returned, NewCall
  <2> QED BY <1>1, <1>3, <2>1, <2>2 DEF CallsOK, LockOK, OthersStay, Start, Returned, Running
<1> QED BY <1>2, <1>3

\* What a call that is going to write takes with it.
LEMMA GetsTable ==
  ASSUME TypeOK, NEW c \in Callers, GetTable(c), call[c].req.op # "list"
  PROVE  /\ OthersStay(c) /\ UNCHANGED <<table, stray, lock>>
         /\ call'[c].snap = table /\ (call'[c].alone <=> stray = {})
<1>1. PICK l \in {"address", "update"} :
        call' = [call EXCEPT ![c].pc = l, ![c].snap = table, ![c].alone = (stray = {})]
  BY DEF GetTable
<1>2. CallOK(call[c]) /\ call = [d \in Callers |-> call[d]]
  BY DEF TypeOK
<1>3. call'[c] = [call[c] EXCEPT !.pc = l, !.snap = table, !.alone = (stray = {})]
  BY <1>1, <1>2
<1>4. call'[c].snap = table /\ call'[c].alone = (stray = {})
  BY <1>2, <1>3 DEF CallOK
<1>5. UNCHANGED <<table, stray, lock>>
  BY DEF GetTable
<1> QED BY <1>1, <1>2, <1>4, <1>5 DEF OthersStay

LEMMA StepType ==
  ASSUME TypeOK, NEW c \in Callers, Step(c) \/ Fault(c)
  PROVE  CallsOK'
<1>1. CallsOK /\ CallOK(call[c])
  BY DEF TypeOK, CallsOK
<1>2. call[c].pc \in Running /\ lock = c
  BY DEF TypeOK, LockOK, Step, Fault, GetTable, FindNextHop, UpdateTable,
         LoseUpdate, RemoteError, At, Running
<1>3. ASSUME NEW result \in Returned, NEW answer \in SUBSET Route, Return(c, result, answer)
      PROVE  CallsOK'
  BY <1>1, <1>2, <1>3, ReturnType
<1>4. ASSUME GetTable(c), call[c].req.op # "list" PROVE CallsOK'
  <2>1. PICK l \in {"address", "update"} :
          /\ call' = [call EXCEPT ![c].pc = l, ![c].snap = table]
          /\ l = "address" <=> call[c].req.op = "create"
          /\ call[c].req.op \in {"create", "delete"}
    BY <1>4 DEF GetTable
  <2>2. OthersStay(c) /\ CallOK(call'[c]) /\ call'[c].pc \in Running
    BY <1>1, <2>1 DEF TypeOK, CallsOK, CallOK, OthersStay, Running
  <2> QED BY <1>1, <1>2, <1>4, <2>2, OneCall DEF GetTable
<1>5. ASSUME GetTable(c), call[c].req.op = "list" PROVE CallsOK'
  BY <1>3, <1>5 DEF GetTable, TypeOK, Labelled, Returned
<1>6. ASSUME FindNextHop(c), ~Return(c, "err", {}) PROVE CallsOK'
  <2>1. CallOK(call[c]) /\ call[c].pc = "address" /\ call[c].req.op = "create"
    BY <1>1, <1>6 DEF CallOK, FindNextHop, At
  <2>2. call[c].req.node \in Nodes
    BY <2>1 DEF CallOK, Requests, ListRequest, CreateRequest, DeleteRequest
  <2>3. PICK h \in Hops : call' = [call EXCEPT ![c].pc = "update", ![c].hop = h]
    BY <1>6, <2>2 DEF FindNextHop, TypeOK
  <2>4. OthersStay(c) /\ CallOK(call'[c]) /\ call'[c].pc \in Running
    BY <1>1, <2>1, <2>3 DEF CallsOK, CallOK, OthersStay, Running
  <2> QED BY <1>1, <1>2, <1>6, <2>4, OneCall DEF FindNextHop
<1>7. ASSUME UpdateTable(c) \/ Fault(c) PROVE CallsOK'
  BY <1>3, <1>7 DEF UpdateTable, Fault, LoseUpdate, RemoteError, Returned
<1>8. ASSUME Return(c, "err", {}) PROVE CallsOK'
  BY <1>3, <1>8 DEF Returned
<1> QED BY <1>4, <1>5, <1>6, <1>7, <1>8 DEF Step

LEMMA TypeNext == TypeOK /\ [Next]_vars => TypeOK'
<1> SUFFICES ASSUME TypeOK, [Next]_vars PROVE TypeOK'
  OBVIOUS
<1>1. ASSUME NEW c \in Callers, NEW r \in Requests, Start(c, r) PROVE TypeOK'
  BY <1>1, StartType DEF TypeOK, CallsOK, Start
<1>2. ASSUME NEW c \in Callers, Step(c) \/ Fault(c) PROVE TypeOK'
  <2>1. table' \subseteq Route /\ stray' \subseteq SUBSET Route /\ address' = address
    BY <1>2, UpdateType
    DEF TypeOK, Step, Fault, GetTable, FindNextHop, UpdateTable, LoseUpdate, RemoteError
  <2> QED BY <1>2, <2>1, StepType DEF TypeOK, CallsOK
<1>3. ASSUME NEW t \in stray, Land(t) PROVE TypeOK'
  BY <1>3 DEF Land, TypeOK, LockOK
<1>4. ASSUME NEW n \in Nodes, Readdress(n) PROVE TypeOK'
  BY <1>4 DEF Readdress, TypeOK, LockOK
<1>5. ASSUME NEW r \in UserRoutes, UserEdit(r) PROVE TypeOK'
  <2>1. table' \subseteq Route /\ UNCHANGED <<stray, address, lock>>
    BY <1>5, RouteConstantsAssumption DEF UserEdit, TypeOK
  <2> QED BY <1>5, <2>1, EditKeeps DEF SameCalls, TypeOK, LockOK
<1>6. ASSUME Restart PROVE TypeOK'
  <2>2. stray' \subseteq SUBSET Route
    BY <1>6, UpdateType DEF Restart, TypeOK
  <2>1. CallOK(NewCall("err", ListRequest))
    BY NewCallOK DEF Requests, Returned
  <2> QED BY <1>6, <2>1, <2>2, RouteConstantsAssumption
          DEF Restart, TypeOK, LockOK, NewCall, Running
<1>7. CASE UNCHANGED vars
  BY <1>7 DEF vars, TypeOK, LockOK
<1> QED BY <1>1, <1>2, <1>3, <1>4, <1>5, <1>6, <1>7 DEF Next, Environment

LEMMA TypeInit == Init => TypeOK
<1> SUFFICES ASSUME Init PROVE TypeOK
  OBVIOUS
<1>1. CallOK(NewCall("ok", ListRequest))
  BY NewCallOK DEF Requests, Returned
<1>2. table \subseteq Route
  BY RouteConstantsAssumption DEF Init
<1> QED BY <1>1, <1>2, RouteConstantsAssumption
        DEF Init, TypeOK, LockOK, NewCall, Running

\* The state keeps its shape, and routeAPILock its promise, whatever fails.
THEOREM TypeCorrect == Spec => []TypeOK
BY TypeInit, TypeNext, PTL DEF Spec

-----------------------------------------------------------------------------
(* One route per node                                                      *)

OneEach(t) == \A r, s \in Labelled(t) : r.node = s.node => r = s

\* Not only the table, but also whatever may be written to it: the tables of
\* lost updates, and what the calls have read.
OnceEverywhere ==
  /\ OneEach(table)
  /\ \A t \in stray : OneEach(t)
  /\ \A c \in Callers : call[c].pc \in {"address", "update"} => OneEach(call[c].snap)

LEMMA FilterOneEach ==
  ASSUME NEW t, OneEach(t), NEW n \in Nodes, NEW d, NEW h
  PROVE  OneEach(AddOrUpdate(t, n, d, h)) /\ OneEach(Remove(t, n))
BY DEF OneEach, Labelled, AddOrUpdate, Remove

LEMMA UpdateOneEach ==
  ASSUME TypeOK, OnceEverywhere, NEW c \in Callers, At(c, "update")
  PROVE  OneEach(NewStaticRoutes(c))
BY UpdateType, FilterOneEach DEF OnceEverywhere, At

\* A step after which c is no longer between its read and its write.
LEMMA LeavesWindow ==
  ASSUME TypeOK, OnceEverywhere, NEW c \in Callers, OthersStay(c),
         call'[c].pc \notin {"address", "update"},
         OneEach(table'), \A t \in stray' : OneEach(t)
  PROVE  OnceEverywhere'
BY DEF OnceEverywhere, OthersStay, OneEach, Labelled

LEMMA ReturnLeaves ==
  ASSUME TypeOK, NEW c \in Callers, NEW result \in Returned, NEW answer,
         Return(c, result, answer)
  PROVE  OthersStay(c) /\ call'[c].pc \notin {"address", "update"}
BY DEF TypeOK, OthersStay, Return, NewCall, Returned

LEMMA OnceNext == TypeOK /\ OnceEverywhere /\ [Next]_vars => OnceEverywhere'
<1> SUFFICES ASSUME TypeOK, OnceEverywhere, [Next]_vars PROVE OnceEverywhere'
  OBVIOUS
<1>1. ASSUME NEW c \in Callers, NEW r \in Requests, Start(c, r) PROVE OnceEverywhere'
  <2>1. OthersStay(c) /\ call'[c].pc \notin {"address", "update"}
    BY <1>1 DEF TypeOK, OthersStay, Start, NewCall
  <2>2. table' = table /\ stray' = stray
    BY <1>1 DEF Start
  <2> QED BY <2>1, <2>2, LeavesWindow DEF OnceEverywhere
<1>2. ASSUME NEW c \in Callers, GetTable(c) PROVE OnceEverywhere'
  <2>1. CASE call[c].req.op = "list"
    BY <1>2, <2>1, ReturnLeaves, LeavesWindow DEF GetTable, OnceEverywhere, Returned
  <2>2. CASE call[c].req.op # "list"
    <3>1. OthersStay(c) /\ call'[c].snap = table /\ table' = table /\ stray' = stray
      BY <1>2, <2>2, GetsTable
    <3> QED BY <3>1 DEF OnceEverywhere, OthersStay, OneEach, Labelled
  <2> QED BY <2>1, <2>2
<1>3. ASSUME NEW c \in Callers, FindNextHop(c) PROVE OnceEverywhere'
  <2>1. table' = table /\ stray' = stray
    BY <1>3 DEF FindNextHop
  <2>2. CASE Return(c, "err", {})
    BY <2>1, <2>2, ReturnLeaves, LeavesWindow DEF OnceEverywhere, Returned
  <2>3. CASE ~Return(c, "err", {})
    <3>1. OthersStay(c) /\ call'[c].snap = call[c].snap /\ call[c].pc = "address"
      BY <1>3, <2>3 DEF FindNextHop, TypeOK, CallOK, OthersStay, At
    <3> QED BY <2>1, <3>1 DEF OnceEverywhere, OthersStay, OneEach, Labelled
  <2> QED BY <2>2, <2>3
<1>4. ASSUME NEW c \in Callers, UpdateTable(c) \/ LoseUpdate(c) PROVE OnceEverywhere'
  <2>1. OneEach(NewStaticRoutes(c))
    BY <1>4, UpdateOneEach DEF UpdateTable, LoseUpdate
  <2>2. OthersStay(c) /\ call'[c].pc \notin {"address", "update"}
    BY <1>4, ReturnLeaves DEF UpdateTable, LoseUpdate, Returned
  <2>3. OneEach(table') /\ \A t \in stray' : OneEach(t)
    BY <1>4, <2>1 DEF UpdateTable, LoseUpdate, OnceEverywhere
  <2> QED BY <2>2, <2>3, LeavesWindow
<1>5. ASSUME NEW c \in Callers, RemoteError(c) PROVE OnceEverywhere'
  BY <1>5, ReturnLeaves, LeavesWindow DEF RemoteError, OnceEverywhere, Returned
<1>6. ASSUME NEW t \in stray, Land(t) PROVE OnceEverywhere'
  BY <1>6 DEF Land, OnceEverywhere, OneEach, Labelled
<1>7. ASSUME NEW n \in Nodes, Readdress(n) PROVE OnceEverywhere'
  BY <1>7 DEF Readdress, OnceEverywhere, OneEach, Labelled
<1>8. ASSUME NEW r \in UserRoutes, UserEdit(r) PROVE OnceEverywhere'
  <2>1. r.node = NoNode /\ stray' = stray /\ SameCalls
    BY <1>8, EditKeeps, RouteConstantsAssumption DEF UserEdit
  <2>2. Labelled(table') = Labelled(table)
    BY <1>8, <2>1 DEF UserEdit, Labelled
  <2> QED BY <2>1, <2>2 DEF OnceEverywhere, OneEach, Labelled, SameCalls
<1>9. ASSUME Restart PROVE OnceEverywhere'
  <2>1. \A t \in stray' : OneEach(t)
    BY <1>9, UpdateOneEach DEF Restart, OnceEverywhere
  <2> QED BY <1>9, <2>1 DEF Restart, NewCall, OnceEverywhere, OneEach, Labelled
<1>10. CASE UNCHANGED vars
  BY <1>10 DEF vars, OnceEverywhere, OneEach, Labelled
<1> QED BY <1>1, <1>2, <1>3, <1>4, <1>5, <1>6, <1>7, <1>8, <1>9, <1>10
        DEF Next, Step, Fault, Environment

LEMMA OnceInit == Init => OnceEverywhere
BY RouteConstantsAssumption
DEF Init, OnceEverywhere, OneEach, Labelled, NewCall

\* CreateRoute never leaves a node with two routes (routes.go:182-190,
\* 206-217): not when updates get lost and overwrite each other, not when users
\* edit the table between the read and the write.
THEOREM OneRouteEach == Spec => []OneRoutePerNode
<1>1. OnceEverywhere => OneRoutePerNode
  BY DEF OnceEverywhere, OneEach, OneRoutePerNode
<1> QED BY <1>1, TypeInit, TypeNext, OnceInit, OnceNext, PTL DEF Spec

-----------------------------------------------------------------------------
(* The refinement                                                          *)

LEMMA FreshNext ==
  ASSUME TypeOK, SnapshotFresh, [Next]_vars
  PROVE  SnapshotFresh'
<1>1. ASSUME NEW c \in Callers, NEW r \in Requests, Start(c, r) PROVE SnapshotFresh'
  BY <1>1 DEF Start, SnapshotFresh, TypeOK, NewCall
<1>2. ASSUME NEW c \in Callers, Step(c) \/ Fault(c) PROVE SnapshotFresh'
  <2>1. \A d \in Callers \ {c} : call[d].pc \notin Running /\ call'[d] = call[d]
    BY <1>2
    DEF TypeOK, LockOK, Step, Fault, GetTable, FindNextHop, UpdateTable,
        LoseUpdate, RemoteError, Return, At, Running
  <2> DEFINE Window(d) == call[d].pc \in {"address", "update"}
  <2>2. ASSUME Window(c)' /\ call'[c].alone => stray' = {} /\ call'[c].snap = table'
        PROVE  SnapshotFresh'
    BY <2>1, <2>2 DEF SnapshotFresh, Running
  <2>3. ASSUME NEW result \in Returned, NEW answer, Return(c, result, answer)
        PROVE  ~Window(c)'
    BY <2>3, ReturnLeaves
  <2>4. CASE GetTable(c)
    <3>1. CASE call[c].req.op = "list"
      BY <2>2, <2>3, <2>4, <3>1 DEF GetTable, Returned
    <3>2. CASE call[c].req.op # "list"
      <4>1. /\ call'[c].snap = table /\ (call'[c].alone <=> stray = {})
            /\ UNCHANGED <<table, stray>>
        BY <2>4, <3>2, GetsTable
      <4> QED BY <2>2, <4>1
    <3> QED BY <3>1, <3>2
  <2>5. CASE FindNextHop(c)
    <3>1. UNCHANGED <<table, stray>> /\ Window(c)
      BY <2>5 DEF FindNextHop, At
    <3>2. CASE Return(c, "err", {})
      BY <2>2, <2>3, <3>2 DEF Returned
    <3>3. CASE ~Return(c, "err", {})
      <4>1. call'[c].snap = call[c].snap /\ call'[c].alone = call[c].alone
        BY <2>5, <3>3 DEF FindNextHop, TypeOK, CallOK
      <4> QED BY <2>2, <3>1, <4>1 DEF SnapshotFresh
    <3> QED BY <3>2, <3>3
  <2>6. CASE UpdateTable(c) \/ Fault(c)
    BY <2>2, <2>3, <2>6 DEF UpdateTable, Fault, LoseUpdate, RemoteError, Returned
  <2> QED BY <1>2, <2>4, <2>5, <2>6 DEF Step
<1>3. CASE \/ \E t \in stray : Land(t)
           \/ \E n \in Nodes : Readdress(n)
           \/ Restart
  BY <1>3 DEF Land, Readdress, Restart, NewCall, SnapshotFresh
<1>4. ASSUME NEW r \in UserRoutes, UserEdit(r) PROVE SnapshotFresh'
  BY <1>4, EditKeeps DEF SnapshotFresh
<1>5. CASE UNCHANGED vars
  BY <1>5 DEF vars, SnapshotFresh
<1> QED BY <1>1, <1>2, <1>3, <1>4, <1>5 DEF Next, Environment

LEMMA FreshInit == Init => SnapshotFresh
BY DEF Init, SnapshotFresh, NewCall

\* A call writes what follows from the table at the moment of its write, unless
\* an update that nobody waits for, or a user, writes the table too.
THEOREM Fresh == Spec => []SnapshotFresh
<1>1. TypeOK /\ SnapshotFresh /\ [Next]_vars => SnapshotFresh'
  BY FreshNext
<1> QED BY <1>1, TypeCorrect, FreshInit, PTL DEF Spec

\* While it is quiet, only calls and users change the table, and a call does so
\* as if it had been this one step.
LEMMA StepRefines ==
  ASSUME TypeOK, SnapshotFresh, [Next]_vars
  PROVE  [Abstract!Next]_table
<1> SUFFICES ASSUME Quiet, table' # table PROVE Abstract!Next
  BY DEF Abstract!Next
<1>1. ASSUME NEW c \in Callers, UpdateTable(c) PROVE Abstract!Next
  <2>1. At(c, "update") /\ table' = NewStaticRoutes(c) /\ call[c].snap = table
    BY <1>1 DEF UpdateTable, SnapshotFresh, Quiet, At
  <2> DEFINE n == call[c].req.node
  <2>2. \/ \E d \in CIDRs, h \in Hops : table' = AddOrUpdate(table, n, d, h)
        \/ table' = Remove(table, n)
    BY <2>1, UpdateType
  <2>3. n \in Nodes
    BY <2>1, UpdateType
  <2> QED BY <2>2, <2>3
          DEF Abstract!Next, Abstract!Create, Abstract!Delete,
              Abstract!AddOrUpdate, Abstract!Remove, AddOrUpdate, Remove
<1>2. ASSUME NEW c \in Callers, NEW r \in Requests, Start(c, r) PROVE table' = table
  BY <1>2 DEF Start
<1>3. ASSUME NEW c \in Callers, GetTable(c) \/ FindNextHop(c) \/ Fault(c)
      PROVE  table' = table
  BY <1>3 DEF GetTable, FindNextHop, Fault, LoseUpdate, RemoteError
<1>4. ASSUME NEW r \in UserRoutes, UserEdit(r) PROVE Abstract!Next
  BY <1>4, RouteConstantsAssumption
  DEF UserEdit, Abstract!Next, Abstract!Edit, Abstract!Route, Route
<1>5. ASSUME Environment, ~ \E r \in UserRoutes : UserEdit(r) PROVE table' = table
  BY <1>5 DEF Environment, Land, Readdress, Restart, Quiet
<1>6. CASE UNCHANGED vars
  BY <1>6 DEF vars
<1> QED BY <1>1, <1>2, <1>3, <1>4, <1>5, <1>6 DEF Next, Step, Environment

\* CreateRoute and DeleteRoute implement RouteTableAbstract: goroutines that run
\* side by side, fail, or die with the process change the table as if every
\* call were one indivisible step (routes.go:23), except for an update that has
\* outlived its wait, and for calls that such an update or a user interferes
\* with.
THEOREM Refines == Spec => Atomically
<1>1. Init => Abstract!Init
  BY RouteConstantsAssumption DEF Init, Abstract!Init, Abstract!Route, Route
<1>2. TypeOK /\ SnapshotFresh /\ [Next]_vars => [Abstract!Next]_table
  BY StepRefines
<1> QED BY <1>1, <1>2, TypeCorrect, Fresh, PTL DEF Spec, Atomically, Abstract!Spec

-----------------------------------------------------------------------------
(* The filter on lists                                                     *)

\* With one term, that term decides about the routes of its node.
LEMMA OneTerm ==
  ASSUME NEW t, NEW r, NEW type
  PROVE  /\ Decided(r, <<t>>, type) <=> r.node # NoNode /\ t.node = r.node /\ t.type = type
         /\ Decided(r, <<t>>, type) => TermsOf(r, <<t>>)[1] = t
<1> DEFINE terms == <<t>>
           K     == {j \in DOMAIN terms : r.node # NoNode /\ terms[j].node = r.node}
<1>1. TermsOf(r, <<t>>) = Select(terms, K)
  BY DEF TermsOf
<1>2. K \in SUBSET {1}
  OBVIOUS
<1>3. K # {} <=> r.node # NoNode /\ t.node = r.node
  OBVIOUS
<1> HIDE DEF K
<1>4. TermsOf(r, <<t>>) = IF K = {} THEN <<>> ELSE <<t>>
  BY <1>1, <1>2, SelectOne
<1>5. <<t>> # <<>> /\ <<t>>[1] = t
  OBVIOUS
<1> QED BY <1>3, <1>4, <1>5 DEF Decided

\* A list of routes, as long as it may be.
Listing(routes, len) == routes \in [1 .. len -> Route]

Staying(routes, len, t) == {i \in 1 .. len : ~Decided(routes[i], <<t>>, "Remove")}
NoneOf(routes, len, t)  == /\ t.type = "AddOrUpdate"
                           /\ \A i \in 1 .. len : routes[i].node # t.node
RouteOf(t) == [node |-> t.node, cidr |-> t.cidr, hop |-> t.hop]

\* A list that has the routes at the positions P, perhaps rewritten, and after
\* them what is missing.
Filters(new, routes, len, t, P) ==
  /\ Cardinality(P) \in Nat
  /\ Len(new) = IF NoneOf(routes, len, t) THEN Cardinality(P) + 1 ELSE Cardinality(P)
  /\ DOMAIN new = 1 .. Len(new)
  /\ NoneOf(routes, len, t) => new[Cardinality(P) + 1] = RouteOf(t)
  /\ \A i \in P : /\ Rank(P, i) \in 1 .. Cardinality(P)
                  /\ new[Rank(P, i)] = Rewritten(routes[i], <<t>>)
  /\ \A j \in 1 .. Cardinality(P) : \E i \in P : Rank(P, i) = j
  /\ \A i, j \in P : i < j => Rank(P, i) < Rank(P, j)

LEMMA FilterShape ==
  ASSUME NEW len \in Nat, NEW routes, Listing(routes, len), NEW t, t.node \in Nodes
  PROVE  Filters(filterStaticRoutes(routes, <<t>>), routes, len, t, Staying(routes, len, t))
<1> SUFFICES ASSUME NEW P, P = {i \in 1 .. len : ~Decided(routes[i], <<t>>, "Remove")},
                    NEW c, c = Cardinality(P),
                    NEW new, new = filterStaticRoutes(routes, <<t>>)
             PROVE  Filters(new, routes, len, t, P)
  BY DEF Staying
<1> DEFINE x    == [node |-> t.node, cidr |-> t.cidr, hop |-> t.hop]
           none == /\ t.type = "AddOrUpdate"
                   /\ \A i \in 1 .. len : routes[i].node # t.node
           added(u) == [node |-> u.node, cidr |-> u.cidr, hop |-> u.hop]
           terms == <<t>>
           M == {j \in DOMAIN terms :
                   /\ terms[j].type = "AddOrUpdate"
                   /\ ~\E i \in DOMAIN routes :
                         /\ routes[i].node = terms[j].node
                         /\ Decided(routes[i], terms, "AddOrUpdate")}
           kept == Kept(routes, terms)
           missing == Missing(routes, terms)
           a == [i \in DOMAIN kept |-> Rewritten(kept[i], terms)]
           b == [i \in DOMAIN missing |-> added(missing[i])]
<1>1. DOMAIN routes = 1 .. len /\ P \in SUBSET (1 .. len)
  BY DEF Listing
<1>2. /\ c \in Nat
      /\ \A i \in P : Rank(P, i) \in 1 .. c
      /\ \A i, j \in P : i < j => Rank(P, i) < Rank(P, j)
      /\ \A j \in 1 .. c : \E i \in P : Rank(P, i) = j
  <2> HIDE DEF none, x
  <2> QED BY <1>1, Ranks, RanksOnto
<1>3. kept = Select(routes, P)
  BY <1>1 DEF Kept
<1>4. DOMAIN kept = 1 .. c /\ \A i \in P : kept[Rank(P, i)] = routes[i]
  BY <1>1, <1>3, SelectAt
<1>5. M = IF none THEN {1} ELSE {}
  <2>1. DOMAIN terms = {1} /\ terms[1] = t
    OBVIOUS
  <2>2. \A i \in 1 .. len : Decided(routes[i], terms, "AddOrUpdate") <=>
          routes[i].node # NoNode /\ t.node = routes[i].node /\ t.type = "AddOrUpdate"
    BY OneTerm
  <2>3. t.node # NoNode
    BY NoNodeAssumption
  <2> HIDE DEF terms
  <2> QED BY <1>1, <2>1, <2>2, <2>3
<1>6. M \in SUBSET {1}
  OBVIOUS
<1>7. missing = IF none THEN <<t>> ELSE <<>>
  <2>1. missing = Select(terms, M)
    BY DEF Missing
  <2> HIDE DEF M, missing, none
  <2> QED BY <1>5, <1>6, <2>1, SelectOne
<1>8. new = a \o b
  BY DEF filterStaticRoutes
<1> HIDE DEF kept, missing, terms, M, none
<1> DEFINE e == IF none THEN 1 ELSE 0
<1>9. /\ e \in Nat /\ (none => e = 1) /\ (~none => e = 0)
      /\ DOMAIN missing = 1 .. e /\ (none => missing[1] = t)
  <2>1. e \in Nat /\ (none => e = 1) /\ (~none => e = 0)
    OBVIOUS
  <2> HIDE DEF e
  <2>2. DOMAIN <<t>> = 1 .. 1 /\ <<t>>[1] = t /\ DOMAIN <<>> = 1 .. 0
    OBVIOUS
  <2>3. CASE none
    BY <1>7, <2>1, <2>2, <2>3
  <2>4. CASE ~none
    BY <1>7, <2>1, <2>2, <2>4
  <2> QED BY <2>1, <2>3, <2>4
<1> HIDE DEF e
<1> DEFINE X == {a[i] : i \in 1 .. c} \cup {b[i] : i \in 1 .. e}
<1>10. a \in [1 .. c -> X] /\ b \in [1 .. e -> X]
  BY <1>4, <1>9
<1>11. /\ \A i \in 1 .. c : a[i] = Rewritten(kept[i], terms)
       /\ none => b[1] = x
  BY <1>4, <1>9
<1> HIDE DEF a, b, X
<1>12. /\ Len(new) = c + e /\ DOMAIN new = 1 .. c + e
       /\ \A i \in 1 .. c : new[i] = a[i]
       /\ \A i \in 1 .. e : new[c + i] = b[i]
  <2>1. a \in Seq(X) /\ b \in Seq(X)
    BY <1>2, <1>9, <1>10, ListsAreSeqs
  <2>2. Len(a) = c /\ Len(b) = e
    BY <1>2, <1>9, <1>10, ListsAreSeqs
  <2>3. /\ Len(a \o b) = Len(a) + Len(b) /\ DOMAIN (a \o b) = 1 .. Len(a) + Len(b)
        /\ \A i \in 1 .. Len(a) : (a \o b)[i] = a[i]
        /\ \A i \in 1 .. Len(b) : (a \o b)[Len(a) + i] = b[i]
    BY <2>1, OneAfterAnother
  <2> QED BY <1>8, <2>2, <2>3
<1>13. \A i \in P : new[Rank(P, i)] = Rewritten(routes[i], <<t>>)
  <2> SUFFICES ASSUME NEW i \in P PROVE new[Rank(P, i)] = Rewritten(routes[i], <<t>>)
    OBVIOUS
  <2>1. Rank(P, i) \in 1 .. c /\ kept[Rank(P, i)] = routes[i]
    BY <1>2, <1>4
  <2> QED BY <1>11, <1>12, <2>1 DEF terms
<1>14. c \in Nat /\ Len(new) = (IF none THEN c + 1 ELSE c) /\ DOMAIN new = 1 .. Len(new)
  BY <1>2, <1>9, <1>12
<1>15. none => new[c + 1] = x
  BY <1>9, <1>11, <1>12
<1> QED BY <1>2, <1>13, <1>14, <1>15 DEF none, Filters, NoneOf, RouteOf

\* The routes of users are kept, in their order.
LEMMA FilterUsers ==
  ASSUME NEW len \in Nat, NEW routes, Listing(routes, len), NEW t, t.node \in Nodes
  PROVE  OfUsers(filterStaticRoutes(routes, <<t>>)) = OfUsers(routes)
<1> DEFINE P == Staying(routes, len, t)
           c == Cardinality(P)
           new == filterStaticRoutes(routes, <<t>>)
           n == Len(new)
           K == {i \in DOMAIN routes : routes[i].node = NoNode}
           L == {i \in DOMAIN new : new[i].node = NoNode}
           m == [i \in K |-> Rank(P, i)]
           none == NoneOf(routes, len, t)
<1>0. Filters(new, routes, len, t, P)
  BY FilterShape
<1> HIDE DEF P, new
<1>1. /\ c \in Nat /\ n = (IF none THEN c + 1 ELSE c)
      /\ DOMAIN new = 1 .. n
      /\ none => new[c + 1] = RouteOf(t)
      /\ \A i \in P : /\ Rank(P, i) \in 1 .. c
                      /\ new[Rank(P, i)] = Rewritten(routes[i], <<t>>)
      /\ \A j \in 1 .. c : \E i \in P : Rank(P, i) = j
      /\ \A i, j \in P : i < j => Rank(P, i) < Rank(P, j)
  BY <1>0 DEF Filters
<1> HIDE DEF n
<1>2. n \in Nat /\ 1 .. c \subseteq 1 .. n
  BY <1>1
<1>3. DOMAIN routes = 1 .. len /\ \A i \in 1 .. len : routes[i] \in Route
  BY DEF Listing
<1> HIDE DEF none, c
<1>4. K \subseteq P
  BY <1>3, OneTerm DEF P, Staying
<1>5. /\ \A i \in P : Rewritten(routes[i], <<t>>).node = routes[i].node
      /\ \A i \in K : Rewritten(routes[i], <<t>>) = routes[i]
  <2>1. ASSUME NEW i \in P PROVE Rewritten(routes[i], <<t>>).node = routes[i].node
    BY <1>3 DEF Rewritten, Route
  <2>2. ASSUME NEW i \in K PROVE Rewritten(routes[i], <<t>>) = routes[i]
    BY <2>2, OneTerm DEF Rewritten
  <2> QED BY <2>1, <2>2
<1>6. K \in SUBSET (1 .. len) /\ L \in SUBSET (1 .. n)
  BY <1>1, <1>3
<1>7. \A i \in K : new[Rank(P, i)] = routes[i] /\ Rank(P, i) \in L
  <2> SUFFICES ASSUME NEW i \in K
               PROVE  new[Rank(P, i)] = routes[i] /\ Rank(P, i) \in L
    OBVIOUS
  <2>1. i \in P /\ routes[i].node = NoNode
    BY <1>4
  <2>2. new[Rank(P, i)] = routes[i] /\ Rank(P, i) \in DOMAIN new
    BY <1>1, <1>2, <1>5, <2>1
  <2> QED BY <2>1, <2>2
<1>8. \A j \in L : \E i \in K : Rank(P, i) = j
  <2> SUFFICES ASSUME NEW j \in 1 .. n, new[j].node = NoNode
               PROVE  \E i \in K : Rank(P, i) = j
    BY <1>1
  <2>1. j \in 1 .. c
    <3>1. none => new[c + 1].node # NoNode
      BY <1>1, NoNodeAssumption DEF RouteOf
    <3>2. j \in 1 .. c \/ (none /\ j = c + 1)
      BY <1>1
    <3> QED BY <3>1, <3>2
  <2>2. PICK i \in P : Rank(P, i) = j
    BY <1>1, <2>1
  <2>3. routes[i].node = NoNode /\ i \in DOMAIN routes
    BY <1>1, <1>3, <1>5, <2>2 DEF P, Staying
  <2> QED BY <2>2, <2>3
<1> HIDE DEF K, L
<1>9. m \in Surjection(K, L)
  BY <1>7, <1>8 DEF Surjection
<1>10. /\ \A i, j \in K : i < j => m[i] < m[j]
       /\ \A i \in K : new[m[i]] = routes[i]
  BY <1>1, <1>4, <1>7
<1> HIDE DEF m
<1>11. Select(new, L) = Select(routes, K)
  <2>1. InOrder(m, K, len, L, n)
    BY <1>2, <1>6, <1>9, <1>10 DEF InOrder
  <2> QED BY <1>10, <2>1, SameSelection
<1> QED BY <1>11 DEF OfUsers, K, L, new

\* A list without repetitions is as long as its set is large.
LEMMA ListOf ==
  ASSUME NEW list, NEW S, DOMAIN list = 1 .. Len(list), Len(list) \in Nat,
         \A i, j \in DOMAIN list : list[i] = list[j] => i = j,
         \A i \in DOMAIN list : list[i] \in S,
         \A s \in S : \E i \in DOMAIN list : list[i] = s
  PROVE  Lists(list, S)
<1> DEFINE f == [i \in DOMAIN list |-> list[i]]
<1>1. Seqs!ToSet(list) = S
  BY DEF Seqs!ToSet
<1>2. f \in Surjection(DOMAIN list, S) /\ f \in Injection(DOMAIN list, S)
  BY DEF Surjection, Injection, IsInjective
<1>3. IsFiniteSet(DOMAIN list) /\ Cardinality(DOMAIN list) = Len(list)
  <2> DEFINE n == Len(list)
  <2>1. n \in Nat /\ DOMAIN list = 1 .. n
    OBVIOUS
  <2> HIDE DEF n
  <2>2. IsFiniteSet(1 .. n) /\ Cardinality(1 .. n) = n
    BY <2>1, FS_Interval
  <2> QED BY <2>1, <2>2 DEF n
<1> HIDE DEF f
<1>4. Cardinality(S) = Len(list)
  BY <1>2, <1>3, FS_Surjection
<1> QED BY <1>1, <1>4 DEF Lists

\* A list has the routes of a table, each once.
Ordered(routes, len, S) ==
  /\ len \in Nat /\ routes \in [1 .. len -> S] /\ S \subseteq Route
  /\ \A i, j \in 1 .. len : routes[i] = routes[j] => i = j
  /\ \A s \in S : \E i \in 1 .. len : routes[i] = s

\* The new list as a list of positions: each holds a route that stays, or the
\* missing one.
LEMMA FilterPositions ==
  ASSUME NEW new, NEW routes, NEW len, NEW t, NEW P,
         Filters(new, routes, len, t, P),
         NEW j \in DOMAIN new
  PROVE  \/ \E i \in P : Rank(P, i) = j /\ new[j] = Rewritten(routes[i], <<t>>)
         \/ /\ NoneOf(routes, len, t) /\ j = Cardinality(P) + 1
            /\ new[j] = RouteOf(t)
<1> DEFINE c == Cardinality(P)
           n == Len(new)
           none == NoneOf(routes, len, t)
<1>1. /\ c \in Nat /\ n = (IF none THEN c + 1 ELSE c)
      /\ DOMAIN new = 1 .. n
      /\ none => new[c + 1] = RouteOf(t)
      /\ \A i \in P : new[Rank(P, i)] = Rewritten(routes[i], <<t>>)
      /\ \A k \in 1 .. c : \E i \in P : Rank(P, i) = k
  BY DEF Filters
<1> HIDE DEF c, n, none
<1>2. j \in 1 .. c \/ (none /\ j = c + 1)
  BY <1>1
<1>3. CASE j \in 1 .. c
  BY <1>1, <1>3
<1>4. CASE none /\ j = c + 1
  BY <1>1, <1>4 DEF none, c
<1> QED BY <1>2, <1>3, <1>4

LEMMA FilterRemove ==
  ASSUME NEW routes, NEW len, NEW S, Ordered(routes, len, S), NEW n \in Nodes
  PROVE  Lists(filterStaticRoutes(routes, <<RemoveTerm(n)>>), Remove(S, n))
<1> DEFINE t == RemoveTerm(n)
           P == Staying(routes, len, t)
           new == filterStaticRoutes(routes, <<t>>)
<1>1. t.node = n /\ t.type = "Remove"
  BY DEF RemoveTerm
<1> HIDE DEF t
<1>2. len \in Nat /\ Listing(routes, len) /\ \A i \in 1 .. len : routes[i] \in S
  BY DEF Ordered, Listing
<1>3. Filters(new, routes, len, t, P)
  BY <1>1, <1>2, FilterShape
<1>4. P \subseteq 1 .. len /\ \A i \in 1 .. len : i \in P <=> routes[i].node # n
  BY <1>1, OneTerm, NoNodeAssumption DEF Staying
<1>5. \A r : Rewritten(r, <<t>>) = r
  BY <1>1, OneTerm DEF Rewritten
<1>6. ~NoneOf(routes, len, t)
  BY <1>1 DEF NoneOf
<1> HIDE DEF new, P
<1>7. \A j \in DOMAIN new : \E i \in P : Rank(P, i) = j /\ new[j] = routes[i]
  BY <1>3, <1>5, <1>6, FilterPositions
<1>8. \A i \in P : Rank(P, i) \in DOMAIN new /\ new[Rank(P, i)] = routes[i]
  BY <1>3, <1>5, <1>6 DEF Filters
<1>9. \A i, j \in DOMAIN new : new[i] = new[j] => i = j
  BY <1>4, <1>7 DEF Ordered
<1>10. \A j \in DOMAIN new : new[j] \in Remove(S, n)
  <2> SUFFICES ASSUME NEW j \in DOMAIN new PROVE new[j] \in Remove(S, n)
    OBVIOUS
  <2>1. PICK i \in P : new[j] = routes[i]
    BY <1>7
  <2> QED BY <1>2, <1>4, <2>1 DEF Remove
<1>11. \A s \in Remove(S, n) : \E j \in DOMAIN new : new[j] = s
  <2> SUFFICES ASSUME NEW s \in S, s.node # n PROVE \E j \in DOMAIN new : new[j] = s
    BY DEF Remove
  <2>1. PICK i \in 1 .. len : routes[i] = s
    BY DEF Ordered
  <2> QED BY <1>4, <1>8, <2>1
<1>12. DOMAIN new = 1 .. Len(new) /\ Len(new) \in Nat
  BY <1>3, <1>6 DEF Filters
<1> QED BY <1>9, <1>10, <1>11, <1>12, ListOf DEF new, t

LEMMA FilterCreate ==
  ASSUME NEW routes, NEW len, NEW S, Ordered(routes, len, S), OneEach(S),
         NEW n \in Nodes, NEW d, NEW h
  PROVE  Lists(filterStaticRoutes(routes, <<AddOrUpdateTerm(n, d, h)>>),
               AddOrUpdate(S, n, d, h))
<1> DEFINE t == AddOrUpdateTerm(n, d, h)
           P == Staying(routes, len, t)
           x == [node |-> n, cidr |-> d, hop |-> h]
           new == filterStaticRoutes(routes, <<t>>)
<1>1. t.node = n /\ t.type = "AddOrUpdate" /\ t.cidr = d /\ t.hop = h /\ RouteOf(t) = x
  BY DEF AddOrUpdateTerm, RouteOf
<1> HIDE DEF t
<1>2. /\ len \in Nat /\ Listing(routes, len)
      /\ \A i \in 1 .. len : routes[i] \in S /\ routes[i] \in Route
  BY DEF Ordered, Listing
<1>3. Filters(new, routes, len, t, P)
  BY <1>1, <1>2, FilterShape
<1>4. P = 1 .. len
  BY <1>1, OneTerm DEF Staying
<1>5. \A r \in Route : Rewritten(r, <<t>>) = IF r.node = n THEN x ELSE r
  <2> SUFFICES ASSUME NEW r \in Route PROVE Rewritten(r, <<t>>) = IF r.node = n THEN x ELSE r
    OBVIOUS
  <2>1. Decided(r, <<t>>, "AddOrUpdate") <=> r.node = n
    BY <1>1, OneTerm, NoNodeAssumption
  <2>2. CASE r.node = n
    <3>1. TermsOf(r, <<t>>)[1] = t
      BY <2>1, <2>2, OneTerm
    <3>2. Rewritten(r, <<t>>) = [r EXCEPT !.cidr = d, !.hop = h]
      BY <1>1, <2>1, <2>2, <3>1 DEF Rewritten
    <3> QED BY <2>2, <3>2 DEF Route
  <2>3. CASE r.node # n
    BY <2>1, <2>3 DEF Rewritten
  <2> QED BY <2>2, <2>3
<1>6. NoneOf(routes, len, t) <=> \A i \in 1 .. len : routes[i].node # n
  BY <1>1 DEF NoneOf
<1> HIDE DEF new
<1> DEFINE c == Cardinality(P)
           Written(i) == IF routes[i].node = n THEN x ELSE routes[i]
<1>7. \A j \in DOMAIN new :
        \/ \E i \in 1 .. len : Rank(P, i) = j /\ new[j] = Written(i)
        \/ /\ \A i \in 1 .. len : routes[i].node # n
           /\ j = c + 1 /\ new[j] = x
  <2> SUFFICES ASSUME NEW j \in DOMAIN new
               PROVE  \/ \E i \in 1 .. len : Rank(P, i) = j /\ new[j] = Written(i)
                      \/ /\ \A i \in 1 .. len : routes[i].node # n
                         /\ j = c + 1 /\ new[j] = x
    OBVIOUS
  <2>1. \/ \E i \in P : Rank(P, i) = j /\ new[j] = Rewritten(routes[i], <<t>>)
        \/ NoneOf(routes, len, t) /\ j = c + 1 /\ new[j] = RouteOf(t)
    <3> HIDE DEF P
    <3> QED BY <1>3, FilterPositions
  <2> QED BY <1>1, <1>2, <1>4, <1>5, <1>6, <2>1
<1>8. \A i \in 1 .. len : Rank(P, i) \in DOMAIN new /\ new[Rank(P, i)] = Written(i)
  <2> SUFFICES ASSUME NEW i \in 1 .. len
               PROVE  Rank(P, i) \in DOMAIN new /\ new[Rank(P, i)] = Written(i)
    OBVIOUS
  <2>1. /\ Rank(P, i) \in DOMAIN new
        /\ new[Rank(P, i)] = Rewritten(routes[i], <<t>>)
    BY <1>3, <1>4 DEF Filters
  <2> QED BY <1>2, <1>5, <2>1
<1>9. (\A i \in 1 .. len : routes[i].node # n) => c + 1 \in DOMAIN new /\ new[c + 1] = x
  BY <1>1, <1>3, <1>6 DEF Filters
<1>10. \A i, k \in 1 .. len : routes[i].node = n /\ routes[k].node = n => i = k
  BY <1>2, NoNodeAssumption DEF Ordered, OneEach, Labelled
<1>11. DOMAIN new = 1 .. Len(new) /\ Len(new) \in Nat
  BY <1>3 DEF Filters
<1> HIDE DEF P, c
<1>12. \A i, j \in DOMAIN new : new[i] = new[j] => i = j
  <2>1. x.node = n
    OBVIOUS
  <2>2. \A i, k \in 1 .. len : Written(i) = Written(k) => i = k
    BY <1>10, <2>1 DEF Ordered
  <2>3. (\A i \in 1 .. len : routes[i].node # n) => \A i \in 1 .. len : Written(i) # x
    BY <2>1
  <2> HIDE DEF Written, x
  <2> QED BY <1>7, <2>2, <2>3
<1>13. \A j \in DOMAIN new : new[j] \in AddOrUpdate(S, n, d, h)
  BY <1>2, <1>7 DEF AddOrUpdate
<1>14. \A s \in AddOrUpdate(S, n, d, h) : \E j \in DOMAIN new : new[j] = s
  <2>1. ASSUME NEW s \in S, s.node # n PROVE \E j \in DOMAIN new : new[j] = s
    <3>1. PICK i \in 1 .. len : routes[i] = s
      BY DEF Ordered
    <3> QED BY <1>8, <2>1, <3>1
  <2>2. \E j \in DOMAIN new : new[j] = x
    BY <1>8, <1>9
  <2> QED BY <2>1, <2>2 DEF AddOrUpdate
<1> QED BY <1>11, <1>12, <1>13, <1>14, ListOf DEF new, t

\* The lists of TLC's enumeration.
LEMMA AnyOrder ==
  ASSUME NEW S, S \subseteq Route, IsFiniteSet(S), NEW routes \in Seqs!SetToSeqs(S)
  PROVE  Ordered(routes, Cardinality(S), S) /\ Listing(routes, Cardinality(S))
<1> DEFINE c == Cardinality(S)
<1>1. c \in Nat
  BY FS_CardinalityType
<1> HIDE DEF c
<1>2. routes \in [1 .. c -> S] /\ \A i, j \in 1 .. c : i # j => routes[i] # routes[j]
  <2>1. Seqs!Cardinality(S) = Cardinality(S)
    BY DEF Seqs!Cardinality, Seqs!IsFiniteSet, Cardinality, IsFiniteSet
  <2> QED BY <2>1 DEF Seqs!SetToSeqs, c
<1>3. routes \in Injection(1 .. c, S)
  BY <1>2 DEF Injection, IsInjective
<1>4. routes \in Surjection(1 .. c, S)
  BY <1>1, <1>3, FS_Injection, FS_Interval DEF c
<1> QED BY <1>1, <1>2, <1>4 DEF c, Ordered, Listing, Surjection

\* Every table is finite.
FiniteTables ==
  /\ IsFiniteSet(table) /\ \A t \in stray : IsFiniteSet(t)
  /\ \A c \in Callers : IsFiniteSet(call[c].snap)

LEMMA FiniteWrite ==
  ASSUME TypeOK, FiniteTables, NEW c \in Callers, At(c, "update")
  PROVE  IsFiniteSet(NewStaticRoutes(c))
<1> DEFINE r == call[c].req
           S == call[c].snap
           x == [node |-> r.node, cidr |-> r.cidr, hop |-> call[c].hop]
           T == {s \in S : s.node # r.node}
<1>1. IsFiniteSet(S)
  BY DEF FiniteTables
<1>2. IsFiniteSet(T) /\ IsFiniteSet(T \cup {x})
  <2>1. T \in SUBSET S
    OBVIOUS
  <2> HIDE DEF T, S, x
  <2>2. IsFiniteSet(T)
    BY <1>1, <2>1, FS_Subset
  <2> QED BY <2>2, FS_AddElement
<1> QED BY <1>2 DEF NewStaticRoutes, AddOrUpdate, Remove

LEMMA FiniteNext == ASSUME TypeOK, FiniteTables, [Next]_vars PROVE FiniteTables'
<1>0. IsFiniteSet({})
  BY FS_EmptySet
<1>1. ASSUME NEW c \in Callers, NEW r \in Requests, Start(c, r) PROVE FiniteTables'
  <2>1. table' = table /\ stray' = stray
    BY <1>1 DEF Start
  <2>2. ASSUME NEW d \in Callers PROVE call'[d].snap \in {{}, call[d].snap}
    BY <1>1 DEF Start, TypeOK, NewCall
  <2> QED BY <1>0, <2>1, <2>2 DEF FiniteTables
<1>2. ASSUME NEW c \in Callers, NEW result, NEW answer, IsFiniteSet(answer),
             Return(c, result, answer)
      PROVE  \A d \in Callers : IsFiniteSet(call'[d].snap)
  BY <1>2 DEF Return, FiniteTables, TypeOK, NewCall
<1>3. ASSUME NEW c \in Callers, GetTable(c) PROVE FiniteTables'
  <2>1. IsFiniteSet(Labelled(table))
    BY FS_Subset DEF FiniteTables, Labelled
  <2>2. CASE Return(c, "ok", Labelled(table))
    BY <1>2, <1>3, <2>1, <2>2 DEF GetTable, FiniteTables
  <2>3. CASE ~Return(c, "ok", Labelled(table))
    BY <1>3, <2>3 DEF GetTable, FiniteTables, TypeOK, CallOK
  <2> QED BY <2>2, <2>3
<1>4. ASSUME NEW c \in Callers, FindNextHop(c) PROVE FiniteTables'
  <2>1. CASE Return(c, "err", {})
    BY <1>0, <1>2, <1>4, <2>1 DEF FindNextHop, FiniteTables
  <2>2. CASE ~Return(c, "err", {})
    BY <1>4, <2>2 DEF FindNextHop, FiniteTables, TypeOK, CallOK
  <2> QED BY <2>1, <2>2
<1>5. ASSUME NEW c \in Callers, UpdateTable(c) \/ Fault(c) PROVE FiniteTables'
  <2>1. \A d \in Callers : IsFiniteSet(call'[d].snap)
    BY <1>0, <1>2, <1>5 DEF UpdateTable, Fault, LoseUpdate, RemoteError
  <2>2. IsFiniteSet(table') /\ \A t \in stray' : IsFiniteSet(t)
    BY <1>5, FiniteWrite DEF UpdateTable, Fault, LoseUpdate, RemoteError, FiniteTables
  <2> QED BY <2>1, <2>2 DEF FiniteTables
<1>6. ASSUME NEW t \in stray, Land(t) PROVE FiniteTables'
  BY <1>6 DEF Land, FiniteTables
<1>7. ASSUME NEW r \in UserRoutes, UserEdit(r) PROVE FiniteTables'
  <2>1. IsFiniteSet(table \cup {r}) /\ IsFiniteSet(table \ {r})
    BY FS_AddElement, FS_Subset DEF FiniteTables
  <2> QED BY <1>7, <2>1, EditKeeps DEF UserEdit, FiniteTables, SameCalls
<1>8. ASSUME Restart PROVE FiniteTables'
  <2>1. \A t \in stray' : IsFiniteSet(t)
    BY <1>8, FiniteWrite DEF Restart, FiniteTables
  <2> QED BY <1>0, <1>8, <2>1 DEF Restart, FiniteTables, NewCall
<1>9. ASSUME (\E n \in Nodes : Readdress(n)) \/ UNCHANGED vars PROVE FiniteTables'
  BY <1>9 DEF Readdress, vars, FiniteTables
<1> QED BY <1>1, <1>3, <1>4, <1>5, <1>6, <1>7, <1>8, <1>9 DEF Next, Step, Environment

\* filterStaticRoutes, which works on lists, writes the table of RouteTable, with
\* no route twice and those of users in the order they had, in whatever order
\* the cloud lists the routes, whatever fails and whoever writes the table besides
\* (routes.go:161-220).
THEOREM FiltersFaithfully == Spec => []FilterFaithful
<1>1. Init => FiniteTables
  <2> SUFFICES ASSUME Init PROVE FiniteTables
    OBVIOUS
  <2>1. IsFiniteSet(table) /\ stray = {} /\ \A c \in Callers : call[c].snap = {}
    BY RouteConstantsAssumption DEF Init, NewCall
  <2> QED BY <2>1, FS_EmptySet DEF FiniteTables
<1>2. TypeOK /\ FiniteTables /\ [Next]_vars => FiniteTables'
  BY FiniteNext
<1>3. ASSUME TypeOK, OnceEverywhere, FiniteTables PROVE FilterFaithful
  <2> SUFFICES ASSUME NEW c \in Callers, At(c, "update"),
                      NEW routes \in Seqs!SetToSeqs(call[c].snap)
               PROVE  LET new == filterStaticRoutes(routes, <<Term(c)>>)
                      IN  Lists(new, NewStaticRoutes(c)) /\ OfUsers(new) = OfUsers(routes)
    BY DEF FilterFaithful
  <2> DEFINE S == call[c].snap
             n == call[c].req.node
  <2>1. S \subseteq Route /\ n \in Nodes
    BY <1>3, UpdateType
  <2>2. IsFiniteSet(S) /\ OneEach(S)
    BY <1>3 DEF FiniteTables, OnceEverywhere, At
  <2>3. Ordered(routes, Cardinality(S), S) /\ Listing(routes, Cardinality(S))
    BY <2>1, <2>2, AnyOrder
  <2>4. OfUsers(filterStaticRoutes(routes, <<Term(c)>>)) = OfUsers(routes)
    <3>1. Term(c).node \in Nodes
      BY <2>1 DEF Term, AddOrUpdateTerm, RemoveTerm
    <3>2. Cardinality(S) \in Nat
      BY <2>2, FS_CardinalityType
    <3> QED BY <2>3, <3>1, <3>2, FilterUsers
  <2>5. Lists(filterStaticRoutes(routes, <<Term(c)>>), NewStaticRoutes(c))
    <3>1. CASE call[c].req.op = "create"
      BY <2>1, <2>2, <2>3, <3>1, FilterCreate DEF Term, NewStaticRoutes
    <3>2. CASE call[c].req.op # "create"
      BY <2>1, <2>3, <3>2, FilterRemove DEF Term, NewStaticRoutes
    <3> QED BY <3>1, <3>2
  <2> QED BY <2>4, <2>5
<1> QED BY <1>1, <1>2, <1>3, TypeInit, TypeNext, OnceInit, OnceNext, PTL DEF Spec

-----------------------------------------------------------------------------
(* The rounds of the route controller                                      *)

\* A step of the controller and its surroundings is one of RouteTable, or
\* changes nothing that RouteTable has.
LEMMA RoundStepIsCall == ASSUME [RoundNext]_allVars PROVE [Next]_vars
<1>1. CASE BeginRound
  <2>1. ListRequest \in Callers /\ ListRequest \in Requests
    BY ControllerAssumption DEF Requests
  <2> QED BY <1>1, <2>1 DEF BeginRound, Next
<1>2. CASE PlanRound \/ EndPhase
  BY <1>2 DEF PlanRound, EndPhase
<1>3. ASSUME NEW r \in Requests, CallDelete(r) \/ CallCreate(r) PROVE Next
  <2>1. r \in Callers /\ Start(r, r)
    BY <1>3, ControllerAssumption DEF CallDelete, CallCreate
  <2> QED BY <2>1 DEF Next
<1>4. CASE Trouble
  <2>1. ASSUME NEW n \in Nodes, ChangeNode(n) PROVE UNCHANGED vars
    BY <2>1 DEF ChangeNode
  <2>2. CASE Disturbance
    BY <2>2 DEF Disturbance, Next, Environment
  <2> QED BY <1>4, <2>1, <2>2 DEF Trouble
<1>5. CASE LateUpdate
  BY <1>5 DEF LateUpdate, Next, Environment
<1>6. ASSUME NEW c \in Callers, CallStep(c) PROVE Next
  BY <1>6 DEF CallStep, Next
<1>7. ASSUME NEW n \in Nodes, GetAddress(n) PROVE Next
  BY <1>7 DEF GetAddress, Next, Environment
<1>8. CASE UNCHANGED allVars
  BY <1>8 DEF allVars
<1> QED BY <1>1, <1>2, <1>3, <1>4, <1>5, <1>6, <1>7, <1>8 DEF RoundNext, RoundStep

\* The composition: whatever rounds the route controller of Kubernetes runs, and
\* however nodes come and go, its calls are those of RouteTable
\* (routes.go:28, 67, 117).
THEOREM RoundsAreCalls == RoundSpec => Spec
<1>1. RoundInit => Init
  BY DEF RoundInit
<1>2. [RoundNext]_allVars => [Next]_vars
  BY RoundStepIsCall
<1> QED BY <1>1, <1>2, PTL DEF RoundSpec, Spec

\* So in the rounds, too, no node ever has two routes, and a goroutine that
\* finds the lock taken leaves it alone (routes.go:29-33, 182-217).
THEOREM RoundsOneRoute == RoundSpec => [](TypeOK /\ OneRoutePerNode)
BY RoundsAreCalls, TypeCorrect, OneRouteEach, PTL

\* And they implement the abstract table.
THEOREM RoundsRefine == RoundSpec => Atomically
BY RoundsAreCalls, Refines

-----------------------------------------------------------------------------
(* What a round is about to do                                             *)

Creations == {CreateRequest(n, d) : n \in Nodes, d \in CIDRs}
Deletions == {DeleteRequest(n, d) : n \in Nodes, d \in CIDRs}

OneCIDR ==
  /\ podCIDRs \in [Nodes -> SUBSET CIDRs]
  /\ \A n \in Nodes : \A d, e \in podCIDRs[n] : d = e

\* A call runs for the request that its goroutine is named by, in the phase for
\* such requests, and is not called again in the round.
PhaseOK ==
  /\ phase \in {"rest", "list", "delete", "create"}
  /\ deletes \subseteq Deletions /\ creates \subseteq Creations
  /\ phase \in {"rest", "list"} => deletes = {} /\ creates = {}
  /\ phase = "create" => deletes = {}
  /\ \A r \in Requests : call[r].pc \in Running =>
       call[r].req = r /\ phase = r.op /\ r \notin deletes \cup creates
  /\ \A r \in Requests : call[r].pc \in Returned => Labelled(call[r].snap) = call[r].snap

RoundInv == TypeOK /\ OnceEverywhere /\ OneCIDR /\ PhaseOK

LEMMA Kinds ==
  /\ ListRequest \in Requests /\ ListRequest.op = "list"
  /\ \A r \in Creations : r \in Requests /\ r.op = "create" /\ r.node \in Nodes /\ r.cidr \in CIDRs
                          /\ r = CreateRequest(r.node, r.cidr)
  /\ \A r \in Deletions : r \in Requests /\ r.op = "delete" /\ r.node \in Nodes /\ r.cidr \in CIDRs
                          /\ r = DeleteRequest(r.node, r.cidr)
  /\ \A r \in Requests : r = ListRequest \/ r \in Creations \/ r \in Deletions
BY DEF Requests, Creations, Deletions, ListRequest, CreateRequest, DeleteRequest

\* A step of a running call, of itself or by a fault.
LEMMA CallGoesOn ==
  ASSUME TypeOK, NEW c \in Callers, Step(c) \/ Fault(c)
  PROVE  /\ OthersStay(c) /\ call[c].pc \in Running
         /\ call'[c].pc \in Running => call'[c].req = call[c].req
         /\ call'[c].pc \in Returned => Labelled(call'[c].snap) = call'[c].snap
         /\ call'[c].pc = "ok" /\ call[c].req.op = "list" => call'[c].snap = Labelled(table)
<1>1. CallOK(call[c])
  BY DEF TypeOK
<1>2. call[c].pc \in Running
  BY DEF Step, Fault, GetTable, FindNextHop, UpdateTable, LoseUpdate, RemoteError, At, Running
<1>3. ASSUME NEW result \in Returned, NEW answer, Labelled(answer) = answer,
             Return(c, result, answer)
      PROVE  /\ OthersStay(c) /\ call'[c].pc = result /\ call'[c].snap = answer
  BY <1>3 DEF TypeOK, Return, NewCall, OthersStay
<1>4. Labelled(Labelled(table)) = Labelled(table) /\ Labelled({}) = {}
  BY DEF Labelled
<1>5. ASSUME Return(c, "err", {})
      PROVE  OthersStay(c) /\ call'[c].pc = "err" /\ call'[c].snap = {}
  BY <1>3, <1>4, <1>5 DEF Returned
<1>6. CASE GetTable(c) /\ call[c].req.op = "list"
  BY <1>2, <1>3, <1>4, <1>6 DEF GetTable, Returned, Running
<1>7. CASE GetTable(c) /\ call[c].req.op # "list"
  <2>1. OthersStay(c) /\ call'[c].pc \in Running /\ call'[c].req = call[c].req
    BY <1>1, <1>7 DEF GetTable, TypeOK, CallOK, OthersStay, Running
  <2> QED BY <1>2, <2>1 DEF Running, Returned
<1>8. CASE FindNextHop(c) /\ ~Return(c, "err", {})
  <2>1. OthersStay(c) /\ call'[c].pc \in Running /\ call'[c].req = call[c].req
    BY <1>1, <1>8 DEF FindNextHop, TypeOK, CallOK, OthersStay, Running
  <2> QED BY <1>2, <2>1 DEF Running, Returned
<1>9. CASE UpdateTable(c)
  <2>1. OthersStay(c) /\ call'[c].pc = "ok" /\ call'[c].snap = {}
    BY <1>3, <1>4, <1>9 DEF UpdateTable, Returned
  <2>2. call[c].req.op # "list"
    BY <1>1, <1>9 DEF UpdateTable, CallOK, At
  <2> QED BY <1>2, <1>4, <2>1, <2>2 DEF Running, Returned
<1>10. CASE Return(c, "err", {})
  BY <1>2, <1>4, <1>5, <1>10 DEF Running, Returned
<1> QED BY <1>6, <1>7, <1>8, <1>9, <1>10 DEF Step, Fault, FindNextHop, LoseUpdate, RemoteError

\* A call begins, or finds the lock taken.
LEMMA CallStarts ==
  ASSUME TypeOK, NEW c \in Callers, NEW r \in Requests, Start(c, r)
  PROVE  /\ OthersStay(c) /\ table' = table /\ stray' = stray
         /\ call'[c].pc \in {"get", "err"} /\ call'[c].snap = {}
         /\ call'[c].pc = "get" => call'[c].req = r
BY DEF TypeOK, OthersStay, Start, NewCall

\* What PlanRound compares.
Has(routes) == {<<r.node, r.cidr>> : r \in routes}
Wants       == UNION {{<<n, d>> : d \in podCIDRs[n]} : n \in Nodes}

LEMMA ListedNodes ==
  ASSUME TypeOK, PhaseOK, call[ListRequest].pc = "ok"
  PROVE  Has(call[ListRequest].snap) \subseteq Nodes \X CIDRs
<1>1. CallOK(call[ListRequest])
  BY Kinds, ControllerAssumption DEF TypeOK
<1>2. Labelled(call[ListRequest].snap) = call[ListRequest].snap
  BY Kinds DEF PhaseOK, Returned
<1> QED BY <1>1, <1>2 DEF CallOK, Labelled, Has, Route

LEMMA WantsType == ASSUME OneCIDR PROVE Wants \subseteq Nodes \X CIDRs
BY DEF OneCIDR, Wants

LEMMA PhaseNext == ASSUME TypeOK, OneCIDR, PhaseOK, [RoundNext]_allVars PROVE PhaseOK'
<1> USE ControllerAssumption
<1>0. Labelled({}) = {}
  BY DEF Labelled
<1>1. CASE BeginRound
  <2>1. PICK x : x = ListRequest
    OBVIOUS
  <2>2. OthersStay(x) /\ call'[x].pc \in {"get", "err"} /\ call'[x].snap = {}
        /\ (call'[x].pc = "get" => call'[x].req = x)
    BY <1>1, <2>1, CallStarts, Kinds DEF BeginRound
  <2>3. \A r \in Requests : call[r].pc \notin Running
    BY <1>1, Kinds DEF PhaseOK, BeginRound
  <2>4. phase' = "list" /\ deletes' = {} /\ creates' = {}
    BY <1>1 DEF PhaseOK, BeginRound
  <2>5. \A r \in Requests \ {x} : call'[r] = call[r]
    BY <2>2 DEF OthersStay
  <2>6. x.op = "list"
    BY <2>1, Kinds
  <2>7. ASSUME NEW r \in Requests, call'[r].pc \in Running
        PROVE  call'[r].req = r /\ phase' = r.op /\ r \notin deletes' \cup creates'
    BY <2>2, <2>3, <2>4, <2>5, <2>6, <2>7 DEF Running
  <2>8. ASSUME NEW r \in Requests, call'[r].pc \in Returned
        PROVE  Labelled(call'[r].snap) = call'[r].snap
    BY <1>0, <2>2, <2>5, <2>8 DEF PhaseOK
  <2> QED BY <2>4, <2>7, <2>8 DEF PhaseOK, Labelled
<1>2. CASE PlanRound
  <2>1. \A r \in Requests : call[r].pc \notin Running
    BY <1>2 DEF PlanRound, AllReturned, Returned, Running
  <2>2. call' = call
    BY <1>2 DEF PlanRound, vars
  <2>3. CASE call[ListRequest].pc = "err"
    BY <1>2, <2>1, <2>2, <2>3 DEF PlanRound, PhaseOK, Labelled
  <2>4. CASE call[ListRequest].pc = "ok"
    <3>1. /\ phase' = "delete"
          /\ deletes' = {DeleteRequest(p[1], p[2]) : p \in Has(call[ListRequest].snap) \ Wants}
          /\ creates' = {CreateRequest(p[1], p[2]) : p \in Wants \ Has(call[ListRequest].snap)}
      BY <1>2, <2>4 DEF PlanRound, Has, Wants
    <3>2. Has(call[ListRequest].snap) \subseteq Nodes \X CIDRs /\ Wants \subseteq Nodes \X CIDRs
      BY <2>4, ListedNodes, WantsType
    <3>3. deletes' \subseteq Deletions /\ creates' \subseteq Creations
      BY <3>1, <3>2 DEF Deletions, Creations
    <3> QED BY <2>1, <2>2, <3>1, <3>3 DEF PhaseOK, Labelled
  <2> QED BY <1>2, <2>3, <2>4 DEF PlanRound
<1>3. ASSUME NEW x \in Requests, CallDelete(x) \/ CallCreate(x) PROVE PhaseOK'
  <2>1. OthersStay(x) /\ call'[x].pc \in {"get", "err"} /\ call'[x].snap = {}
        /\ (call'[x].pc = "get" => call'[x].req = x)
    BY <1>3, CallStarts DEF CallDelete, CallCreate
  <2>2. /\ phase' = phase /\ phase = x.op
        /\ deletes' = deletes \ {x} /\ creates' = creates \ {x}
    BY <1>3, Kinds DEF CallDelete, CallCreate, PhaseOK
  <2>3. \A r \in Requests \ {x} : call'[r] = call[r]
    BY <2>1 DEF OthersStay
  <2>4. ASSUME NEW r \in Requests, call'[r].pc \in Running
        PROVE  call'[r].req = r /\ phase' = r.op /\ r \notin deletes' \cup creates'
    BY <2>1, <2>2, <2>3, <2>4 DEF PhaseOK, Running
  <2>5. ASSUME NEW r \in Requests, call'[r].pc \in Returned
        PROVE  Labelled(call'[r].snap) = call'[r].snap
    BY <1>0, <2>1, <2>3, <2>5 DEF PhaseOK
  <2> QED BY <2>2, <2>4, <2>5 DEF PhaseOK, Labelled
<1>4. CASE EndPhase
  <2>1. \A r \in Requests : call[r].pc \notin Running
    BY <1>4 DEF EndPhase, AllReturned, Returned, Running
  <2> QED BY <1>4, <2>1 DEF EndPhase, vars, PhaseOK, Labelled
<1>5. ASSUME NEW x \in Callers, Step(x) \/ Fault(x), UNCHANGED roundVars PROVE PhaseOK'
  <2>1. /\ \A r \in Requests \ {x} : call'[r] = call[r]
        /\ call[x].pc \in Running
        /\ call'[x].pc \in Running => call'[x].req = call[x].req
        /\ call'[x].pc \in Returned => Labelled(call'[x].snap) = call'[x].snap
    BY <1>5, CallGoesOn DEF OthersStay
  <2>2. ASSUME NEW r \in Requests, call'[r].pc \in Running
        PROVE  call'[r].req = r /\ phase = r.op /\ r \notin deletes \cup creates
    BY <2>1, <2>2 DEF PhaseOK
  <2>3. ASSUME NEW r \in Requests, call'[r].pc \in Returned
        PROVE  Labelled(call'[r].snap) = call'[r].snap
    BY <2>1, <2>3 DEF PhaseOK
  <2> QED BY <1>5, <2>2, <2>3 DEF roundVars, PhaseOK, Labelled
<1>6. ASSUME Restart, phase' = "rest", deletes' = {}, creates' = {} PROVE PhaseOK'
  BY <1>0, <1>6 DEF Restart, PhaseOK, NewCall, Running, Labelled
<1>7. ASSUME SameCalls \/ UNCHANGED call, UNCHANGED roundVars PROVE PhaseOK'
  <2>1. \A r \in Requests : /\ call'[r].pc = call[r].pc /\ call'[r].req = call[r].req
                            /\ call'[r].snap = call[r].snap
    BY <1>7 DEF SameCalls
  <2> QED BY <1>7, <2>1 DEF roundVars, PhaseOK, Labelled
<1>8. CASE Trouble
  <2>1. CASE \E n \in Nodes : ChangeNode(n)
    BY <1>7, <2>1 DEF ChangeNode, vars
  <2>2. CASE Disturbance
    BY <1>5, <1>6, <1>7, <2>2, EditKeeps DEF Disturbance, Readdress
  <2> QED BY <1>8, <2>1, <2>2 DEF Trouble
<1>9. CASE LateUpdate \/ (\E n \in Nodes : GetAddress(n)) \/ UNCHANGED allVars
  BY <1>7, <1>9 DEF LateUpdate, Land, GetAddress, Readdress, allVars, vars
<1>10. ASSUME NEW c \in Callers, CallStep(c) PROVE PhaseOK'
  BY <1>5, <1>10 DEF CallStep
<1> QED BY <1>1, <1>2, <1>3, <1>4, <1>8, <1>9, <1>10 DEF RoundNext, RoundStep

LEMMA OneCIDRNext == ASSUME OneCIDR, [RoundNext]_allVars PROVE OneCIDR'
<1>1. ASSUME NEW n \in Nodes, ChangeNode(n) PROVE OneCIDR'
  BY <1>1 DEF ChangeNode, OneCIDR
<1>2. ASSUME podCIDRs' = podCIDRs PROVE OneCIDR'
  BY <1>2 DEF OneCIDR
<1> QED BY <1>1, <1>2 DEF RoundNext, RoundStep, BeginRound, PlanRound, EndPhase, CallDelete,
     CallCreate, CallStep, Trouble, Disturbance, LateUpdate, GetAddress, allVars

LEMMA RoundInvInit == RoundInit => RoundInv
<1> SUFFICES ASSUME RoundInit PROVE RoundInv
  OBVIOUS
<1>1. TypeOK /\ OnceEverywhere
  BY TypeInit, OnceInit DEF RoundInit
<1>2. OneCIDR
  BY DEF RoundInit, OneCIDR
<1>3. PhaseOK
  BY ControllerAssumption DEF RoundInit, Init, PhaseOK, NewCall, Running, Labelled
<1> QED BY <1>1, <1>2, <1>3 DEF RoundInv

LEMMA RoundInvNext == RoundInv /\ [RoundNext]_allVars => RoundInv'
BY RoundStepIsCall, TypeNext, OnceNext, OneCIDRNext, PhaseNext DEF RoundInv

\* The routes of the nodes are the labelled ones.
LEMMA OfLabelled ==
  ASSUME NEW s, NEW t, Labelled(s) = Labelled(t), NEW n \in Nodes
  PROVE  OfNode(s, n) = OfNode(t, n)
BY NoNodeAssumption DEF Labelled, OfNode

\* A step that neither touches the routes of nodes nor adds to the plan.
LEMMA PlanStays ==
  ASSUME PlanHolds, podCIDRs' = podCIDRs, stray' = {}, Labelled(table') = Labelled(table),
         \A r \in Creations \cup Deletions : Pending(r)' => Pending(r),
         \A c \in Callers : call'[c].pc \in {"address", "update"} =>
           Labelled(call'[c].snap) = Labelled(table),
         phase' = "list" /\ call'[ListRequest].pc = "ok" =>
           call'[ListRequest].snap = Labelled(table)
  PROVE  PlanHolds' /\ \A n \in Nodes : Improves(n)
<1>1. \A n \in Nodes : OfNode(table', n) = OfNode(table, n)
  BY OfLabelled
<1>2. \A n \in Nodes : CIDRsOf(n)' = CIDRsOf(n)
  BY <1>1 DEF CIDRsOf
<1>3. ASSUME NEW n \in Nodes, NEW d \in CIDRs
      PROVE  /\ Pending(DeleteRequest(n, d))' => d \in CIDRsOf(n)' \ podCIDRs'[n]
             /\ Pending(CreateRequest(n, d))' => d \in podCIDRs'[n] \ CIDRsOf(n)'
  BY <1>2 DEF PlanHolds, Creations, Deletions
<1> QED BY <1>1, <1>3 DEF PlanHolds, Improves

\* No other call runs, and what the round has still to do is not about this one.
LEMMA UpdateAlone ==
  ASSUME RoundInv, NEW c \in Callers, UpdateTable(c), UNCHANGED roundVars
  PROVE  /\ call[c].req = c /\ phase = c.op /\ c \notin deletes \cup creates
         /\ \A r \in Requests : Pending(r)' => r \in deletes \cup creates
         /\ \A r \in Callers : call'[r].pc \notin {"address", "update"}
         /\ Pending(c)
<1>1. TypeOK /\ At(c, "update") /\ call[c].pc \in Running /\ c \in Requests
  BY ControllerAssumption DEF RoundInv, UpdateTable, At, Running
<1>2. call[c].req = c /\ phase = c.op /\ c \notin deletes \cup creates /\ Pending(c)
  BY <1>1 DEF RoundInv, PhaseOK, Pending
<1>3. OthersStay(c) /\ call'[c].pc = "ok"
  BY <1>1 DEF UpdateTable, Return, NewCall, TypeOK, OthersStay
<1>4. \A r \in Callers \ {c} : call[r].pc \notin Running
  BY <1>1 DEF TypeOK, LockOK
<1>5. \A r \in Callers : call'[r].pc \notin Running
  BY <1>3, <1>4 DEF OthersStay, Running
<1> QED BY <1>2, <1>5, ControllerAssumption DEF Pending, roundVars, Running

LEMMA CreateImproves ==
  ASSUME RoundInv, PlanHolds, NEW c \in Callers, UpdateTable(c), c.op = "create",
         UNCHANGED <<podCIDRs, roundVars>>
  PROVE  PlanHolds' /\ \A n \in Nodes : Improves(n)
<1> DEFINE n == c.node
           d == c.cidr
           x == [node |-> n, cidr |-> d, hop |-> call[c].hop]
<1>0. /\ call[c].req = c /\ phase = "create" /\ c \notin creates /\ deletes = {}
      /\ \A r \in Requests : Pending(r)' => r \in creates
      /\ \A r \in Callers : call'[r].pc \notin {"address", "update"}
      /\ Pending(c)
  BY UpdateAlone DEF RoundInv, PhaseOK, roundVars
<1>1. c \in Creations /\ c = CreateRequest(n, d) /\ n \in Nodes /\ d \in CIDRs
  BY Kinds, ControllerAssumption
<1>2. d \in podCIDRs[n] /\ d \notin CIDRsOf(n)
  BY <1>0, <1>1 DEF PlanHolds
<1>3. podCIDRs[n] = {d}
  BY <1>1, <1>2 DEF RoundInv, OneCIDR
<1>4. table' = {r \in call[c].snap : r.node # n} \cup {x} /\ stray' = stray
  BY <1>0 DEF UpdateTable, NewStaticRoutes, AddOrUpdate
<1>5. Labelled(call[c].snap) = Labelled(table)
  BY DEF PlanHolds, UpdateTable, At
<1>6. \A m \in Nodes \ {n} : OfNode(table', m) = OfNode(table, m)
  BY <1>4, <1>5, OfLabelled DEF OfNode
<1>7. OfNode(table', n) = {x}
  BY <1>4 DEF OfNode
<1>8. (\A m \in Nodes \ {n} : CIDRsOf(m)' = CIDRsOf(m)) /\ CIDRsOf(n)' = {d}
  BY <1>6, <1>7 DEF CIDRsOf
<1>9. \A m \in Nodes : Improves(m)
  BY <1>2, <1>3, <1>6, <1>8 DEF Improves, Right
<1>10. ASSUME NEW m \in Nodes, NEW e \in CIDRs, Pending(CreateRequest(m, e))'
       PROVE  e \in podCIDRs'[m] \ CIDRsOf(m)'
  <2>1. CreateRequest(m, e) \in creates
    BY <1>0, <1>10 DEF Requests
  <2>2. e \in podCIDRs[m] \ CIDRsOf(m)
    BY <2>1 DEF PlanHolds, Pending
  <2>3. m # n
    BY <1>0, <1>1, <1>3, <2>1, <2>2
  <2> QED BY <1>8, <2>2, <2>3
<1>11. ASSUME NEW m \in Nodes, NEW e \in CIDRs PROVE ~Pending(DeleteRequest(m, e))'
  <2>1. DeleteRequest(m, e) \in Deletions /\ DeleteRequest(m, e) \in Requests
    BY DEF Deletions, Requests
  <2> QED BY <1>0, <2>1, Kinds DEF RoundInv, PhaseOK
<1> QED BY <1>0, <1>4, <1>9, <1>10, <1>11 DEF PlanHolds, roundVars

LEMMA DeleteImproves ==
  ASSUME RoundInv, PlanHolds, NEW c \in Callers, UpdateTable(c), c.op = "delete",
         UNCHANGED <<podCIDRs, roundVars>>
  PROVE  PlanHolds' /\ \A n \in Nodes : Improves(n)
<1> DEFINE n == c.node
           d == c.cidr
<1>0. /\ call[c].req = c /\ phase = "delete" /\ c \notin deletes
      /\ \A r \in Requests : Pending(r)' => r \in deletes \cup creates
      /\ \A r \in Callers : call'[r].pc \notin {"address", "update"}
      /\ Pending(c)
  BY UpdateAlone
<1>1. c \in Deletions /\ c = DeleteRequest(n, d) /\ n \in Nodes /\ d \in CIDRs
  BY Kinds, ControllerAssumption
<1>2. d \notin podCIDRs[n] /\ d \in CIDRsOf(n)
  BY <1>0, <1>1 DEF PlanHolds
<1>3. \A e \in CIDRsOf(n) : e = d
  BY <1>1, <1>2, NoNodeAssumption
  DEF RoundInv, OnceEverywhere, OneEach, Labelled, CIDRsOf, OfNode
<1>4. table' = {r \in call[c].snap : r.node # n} /\ stray' = stray
  BY <1>0 DEF UpdateTable, NewStaticRoutes, Remove
<1>5. Labelled(call[c].snap) = Labelled(table)
  BY DEF PlanHolds, UpdateTable, At
<1>6. \A m \in Nodes \ {n} : OfNode(table', m) = OfNode(table, m)
  BY <1>4, <1>5, OfLabelled DEF OfNode
<1>7. OfNode(table', n) = {}
  BY <1>4 DEF OfNode
<1>8. (\A m \in Nodes \ {n} : CIDRsOf(m)' = CIDRsOf(m)) /\ CIDRsOf(n)' = {}
  BY <1>6, <1>7 DEF CIDRsOf
<1>9. \A m \in Nodes : Improves(m)
  BY <1>2, <1>6, <1>7 DEF Improves, Right
<1>10. ASSUME NEW m \in Nodes, NEW e \in CIDRs, Pending(CreateRequest(m, e))'
       PROVE  e \in podCIDRs'[m] \ CIDRsOf(m)'
  <2>1. CreateRequest(m, e) \in deletes \cup creates
    BY <1>0, <1>10 DEF Requests
  <2>2. e \in podCIDRs[m] \ CIDRsOf(m)
    BY <2>1 DEF PlanHolds, Pending
  <2> QED BY <1>8, <2>2
<1>11. ASSUME NEW m \in Nodes, NEW e \in CIDRs, Pending(DeleteRequest(m, e))'
       PROVE  e \in CIDRsOf(m)' \ podCIDRs'[m]
  <2>1. DeleteRequest(m, e) \in deletes \cup creates /\ DeleteRequest(m, e) \in Deletions
    BY <1>0, <1>11 DEF Requests, Deletions
  <2>2. e \in CIDRsOf(m) \ podCIDRs[m] /\ DeleteRequest(m, e) \in deletes
    BY <2>1, Kinds DEF PlanHolds, Pending, RoundInv, PhaseOK
  <2>3. m # n
    BY <1>0, <1>1, <1>3, <2>2
  <2> QED BY <1>8, <2>2, <2>3
<1> QED BY <1>0, <1>4, <1>9, <1>10, <1>11 DEF PlanHolds, roundVars

\* The requests made of pairs of nodes and CIDRs are as different as the pairs.
LEMMA PlannedPairs ==
  ASSUME NEW S \in SUBSET (Nodes \X CIDRs), NEW n \in Nodes, NEW d \in CIDRs
  PROVE  /\ DeleteRequest(n, d) \in {DeleteRequest(p[1], p[2]) : p \in S} => <<n, d>> \in S
         /\ CreateRequest(n, d) \in {CreateRequest(p[1], p[2]) : p \in S} => <<n, d>> \in S
         /\ CreateRequest(n, d) \notin {DeleteRequest(p[1], p[2]) : p \in S}
         /\ DeleteRequest(n, d) \notin {CreateRequest(p[1], p[2]) : p \in S}
<1>1. \A p \in S : p = <<p[1], p[2]>>
  OBVIOUS
<1>2. ASSUME NEW p \in S PROVE CreateRequest(n, d) # DeleteRequest(p[1], p[2])
                               /\ DeleteRequest(n, d) # CreateRequest(p[1], p[2])
  BY DEF CreateRequest, DeleteRequest
<1>3. ASSUME NEW p \in S, DeleteRequest(n, d) = DeleteRequest(p[1], p[2])
      PROVE  p[1] = n /\ p[2] = d
  BY <1>3 DEF DeleteRequest
<1>4. ASSUME NEW p \in S, CreateRequest(n, d) = CreateRequest(p[1], p[2])
      PROVE  p[1] = n /\ p[2] = d
  BY <1>4 DEF CreateRequest
<1>5. DeleteRequest(n, d) \in {DeleteRequest(p[1], p[2]) : p \in S} => <<n, d>> \in S
  BY <1>1, <1>3, Zenon
<1>6. CreateRequest(n, d) \in {CreateRequest(p[1], p[2]) : p \in S} => <<n, d>> \in S
  BY <1>1, <1>4, Zenon
<1> QED BY <1>2, <1>5, <1>6

\* The controller's own steps.
LEMMA RoundStepPlan ==
  ASSUME RoundInv, PlanHolds, podCIDRs' = podCIDRs, stray' = {}, RoundStep
  PROVE  PlanHolds' /\ \A n \in Nodes : Improves(n)
<1> USE ControllerAssumption
<1>0. TypeOK /\ PhaseOK /\ OneCIDR
  BY DEF RoundInv
<1>1. ASSUME NEW x \in Requests, Start(x, x), Labelled(table') = Labelled(table),
             \A r \in Creations \cup Deletions : r \in deletes' \cup creates' => Pending(r),
             x \in Creations \cup Deletions => Pending(x),
             phase' # "list" \/ x = ListRequest
      PROVE  PlanHolds' /\ \A n \in Nodes : Improves(n)
  <2>1. OthersStay(x) /\ call'[x].pc \in {"get", "err"}
    BY <1>0, <1>1, CallStarts
  <2>2. \A r \in Creations \cup Deletions : Pending(r)' => Pending(r)
    BY <1>1, <2>1, Kinds DEF OthersStay, Pending
  <2>3. \A c \in Callers : call'[c].pc \in {"address", "update"} =>
          Labelled(call'[c].snap) = Labelled(table)
    BY <2>1 DEF OthersStay, PlanHolds
  <2>4. ~(phase' = "list" /\ call'[ListRequest].pc = "ok")
    BY <1>1, <2>1
  <2> QED BY <1>1, <2>2, <2>3, <2>4, PlanStays
<1>2. CASE BeginRound
  BY <1>0, <1>1, <1>2, Kinds DEF BeginRound, Start, Pending, PhaseOK
<1>3. ASSUME NEW x \in Requests, CallDelete(x) \/ CallCreate(x)
      PROVE  PlanHolds' /\ \A n \in Nodes : Improves(n)
  BY <1>1, <1>3 DEF CallDelete, CallCreate, Start, Pending
<1>4. ASSUME UNCHANGED vars, deletes' \subseteq deletes, creates' \subseteq creates,
             phase' # "list"
      PROVE  PlanHolds' /\ \A n \in Nodes : Improves(n)
  <2>1. \A r \in Creations \cup Deletions : Pending(r)' => Pending(r)
    BY <1>4 DEF vars, Pending
  <2> QED BY <1>4, <2>1, PlanStays DEF vars, PlanHolds
<1>5. CASE EndPhase
  BY <1>4, <1>5 DEF EndPhase
<1>6. CASE PlanRound /\ call[ListRequest].pc = "err"
  BY <1>4, <1>6 DEF PlanRound
<1>7. CASE PlanRound /\ call[ListRequest].pc # "err"
  <2>1. /\ phase' = "delete" /\ UNCHANGED vars
        /\ deletes' = {DeleteRequest(p[1], p[2]) : p \in Has(call[ListRequest].snap) \ Wants}
        /\ creates' = {CreateRequest(p[1], p[2]) : p \in Wants \ Has(call[ListRequest].snap)}
        /\ phase = "list" /\ call[ListRequest].pc = "ok"
    BY <1>7 DEF PlanRound, Has, Wants
  <2>2. call[ListRequest].snap = Labelled(table)
    BY <2>1 DEF PlanHolds
  <2>3. \A n \in Nodes, d \in CIDRs : <<n, d>> \in Has(Labelled(table)) <=> d \in CIDRsOf(n)
    BY NoNodeAssumption DEF Has, Labelled, CIDRsOf, OfNode
  <2>4. \A n \in Nodes, d \in CIDRs : <<n, d>> \in Wants <=> d \in podCIDRs[n]
    BY DEF Wants
  <2>5. Has(Labelled(table)) \subseteq Nodes \X CIDRs /\ Wants \subseteq Nodes \X CIDRs
    BY <1>0, <2>1, <2>2, ListedNodes, WantsType
  <2>6. \A r \in Requests : call'[r].pc \notin Running
    BY <1>7, <2>1 DEF PlanRound, AllReturned, Returned, Running, vars
  <2>7. \A r \in Requests : Pending(r)' <=> r \in deletes' \cup creates'
    BY <2>6 DEF Pending
  <2>8. ASSUME NEW n \in Nodes, NEW d \in CIDRs
        PROVE  /\ Pending(DeleteRequest(n, d))' => d \in CIDRsOf(n) \ podCIDRs[n]
               /\ Pending(CreateRequest(n, d))' => d \in podCIDRs[n] \ CIDRsOf(n)
    <3>1. CreateRequest(n, d) \in Requests /\ DeleteRequest(n, d) \in Requests
      BY DEF Requests
    <3>2. DeleteRequest(n, d) \in deletes' \cup creates' =>
            <<n, d>> \in Has(Labelled(table)) /\ <<n, d>> \notin Wants
      BY <2>1, <2>2, <2>5, PlannedPairs
    <3>3. CreateRequest(n, d) \in deletes' \cup creates' =>
            <<n, d>> \in Wants /\ <<n, d>> \notin Has(Labelled(table))
      BY <2>1, <2>2, <2>5, PlannedPairs
    <3> QED BY <2>3, <2>4, <2>7, <3>1, <3>2, <3>3
  <2>9. \A n \in Nodes : CIDRsOf(n)' = CIDRsOf(n) /\ Improves(n)
    BY <2>1 DEF vars, CIDRsOf, OfNode, Improves
  <2>10. \A c \in Callers : call'[c].pc \in {"address", "update"} =>
           Labelled(call'[c].snap) = Labelled(table')
    BY <2>1 DEF vars, PlanHolds
  <2> QED BY <2>1, <2>8, <2>9, <2>10 DEF PlanHolds
<1> QED BY <1>2, <1>3, <1>5, <1>6, <1>7 DEF RoundStep

\* The steps of the calls.
LEMMA CallPlan ==
  ASSUME RoundInv, PlanHolds, podCIDRs' = podCIDRs, stray' = {},
         NEW c \in Callers, Step(c) \/ Fault(c), UNCHANGED roundVars
  PROVE  PlanHolds' /\ \A n \in Nodes : Improves(n)
<1> USE ControllerAssumption
<1>0. TypeOK /\ PhaseOK /\ CallOK(call[c])
  BY DEF RoundInv, TypeOK
<1>1. CASE UpdateTable(c)
  <2>1. c.op \in {"create", "delete"}
    BY <1>0, <1>1, UpdateAlone DEF UpdateTable, At, CallOK
  <2> QED BY <1>1, <2>1, CreateImproves, DeleteImproves DEF roundVars
<1>2. CASE ~UpdateTable(c)
  <2>1. OthersStay(c) /\ call[c].pc \in Running /\ call[c].req = c
    BY <1>0, CallGoesOn DEF PhaseOK
  <2>2. table' = table
    BY <1>2 DEF Step, Fault, GetTable, FindNextHop, LoseUpdate, RemoteError
  <2>3. \A r \in Creations \cup Deletions : Pending(r)' => Pending(r)
    BY <2>1, Kinds DEF OthersStay, Pending, roundVars
  <2>4. call'[c].pc \in {"address", "update"} =>
          Labelled(call'[c].snap) = Labelled(table)
    <3>1. CASE GetTable(c)
      <4>1. CASE call[c].req.op = "list"
        BY <1>0, <3>1, <4>1 DEF GetTable, Return, NewCall, TypeOK
      <4>2. CASE call[c].req.op # "list"
        BY <1>0, <3>1, <4>2, GetsTable
      <4> QED BY <4>1, <4>2
    <3>2. CASE FindNextHop(c)
      BY <1>0, <3>2 DEF FindNextHop, Return, NewCall, TypeOK, CallOK, At, PlanHolds
    <3>3. CASE Fault(c)
      BY <1>0, <3>3 DEF Fault, LoseUpdate, RemoteError, Return, NewCall, TypeOK
    <3> QED BY <1>2, <3>1, <3>2, <3>3 DEF Step
  <2>5. \A r \in Callers : call'[r].pc \in {"address", "update"} =>
          Labelled(call'[r].snap) = Labelled(table)
    BY <2>1, <2>4 DEF OthersStay, PlanHolds
  <2>6. phase' = "list" /\ call'[ListRequest].pc = "ok" =>
          call'[ListRequest].snap = Labelled(table)
    BY <1>0, <2>1, CallGoesOn, Kinds DEF OthersStay, PlanHolds, roundVars
  <2> QED BY <2>2, <2>3, <2>5, <2>6, PlanStays
<1> QED BY <1>1, <1>2

LEMMA PlanNext ==
  ASSUME RoundInv, PlanHolds, podCIDRs' = podCIDRs, stray' = {}, [RoundNext]_allVars
  PROVE  PlanHolds' /\ \A n \in Nodes : Improves(n)
<1> USE ControllerAssumption
<1>1. ASSUME SameCalls \/ UNCHANGED call, UNCHANGED roundVars,
             Labelled(table') = Labelled(table)
      PROVE  PlanHolds' /\ \A n \in Nodes : Improves(n)
  <2>1. \A r \in Requests : call'[r].pc = call[r].pc /\ call'[r].snap = call[r].snap
    BY <1>1 DEF SameCalls
  <2>2. \A r \in Creations \cup Deletions : Pending(r)' => Pending(r)
    BY <1>1, <2>1, Kinds DEF roundVars, Pending
  <2>3. phase' = "list" /\ call'[ListRequest].pc = "ok" =>
          call'[ListRequest].snap = Labelled(table)
    BY <1>1, <2>1, Kinds DEF roundVars, PlanHolds
  <2> QED BY <1>1, <2>1, <2>2, <2>3, PlanStays DEF PlanHolds
<1>2. CASE Trouble
  <2>1. ~\E n \in Nodes : ChangeNode(n)
    BY DEF ChangeNode
  <2>2. ASSUME NEW c \in Callers, Fault(c), UNCHANGED roundVars
        PROVE  PlanHolds' /\ \A n \in Nodes : Improves(n)
    BY <2>2, CallPlan
  <2>3. ASSUME NEW n \in Nodes, Readdress(n), UNCHANGED roundVars
        PROVE  PlanHolds' /\ \A m \in Nodes : Improves(m)
    BY <1>1, <2>3 DEF Readdress
  <2>4. ASSUME NEW r \in UserRoutes, UserEdit(r), UNCHANGED roundVars
        PROVE  PlanHolds' /\ \A n \in Nodes : Improves(n)
    <3>1. r.node = NoNode
      BY RouteConstantsAssumption
    <3>2. Labelled(table') = Labelled(table)
      BY <2>4, <3>1 DEF UserEdit, Labelled
    <3> QED BY <1>1, <2>4, <3>2, EditKeeps DEF RoundInv
  <2>5. ASSUME Restart, phase' = "rest", deletes' = {}, creates' = {}
        PROVE  PlanHolds' /\ \A n \in Nodes : Improves(n)
    <3>1. table' = table /\ \A c \in Callers : call'[c].pc = "err"
      BY <2>5 DEF Restart, NewCall
    <3>2. \A r \in Creations \cup Deletions : ~Pending(r)'
      BY <2>5, <3>1, Kinds DEF Pending, Running
    <3> QED BY <2>5, <3>1, <3>2, PlanStays
  <2> QED BY <1>2, <2>1, <2>2, <2>3, <2>4, <2>5 DEF Trouble, Disturbance
<1>3. CASE LateUpdate
  BY <1>3 DEF LateUpdate, PlanHolds
<1>4. CASE (\E n \in Nodes : GetAddress(n)) \/ UNCHANGED allVars
  BY <1>1, <1>4 DEF GetAddress, Readdress, allVars, vars
<1>5. CASE RoundStep
  BY <1>5, RoundStepPlan
<1>6. ASSUME NEW c \in Callers, CallStep(c) PROVE PlanHolds' /\ \A n \in Nodes : Improves(n)
  BY <1>6, CallPlan DEF CallStep
<1> QED BY <1>2, <1>3, <1>4, <1>5, <1>6 DEF RoundNext

\* As long as the nodes stay as they are and no update outlives its wait, every
\* write of every round is a step towards the routes that the nodes ask for.
THEOREM RoundsOnlyImprove == RoundSpec => RoundsImprove
<1>1. RoundInv /\ [RoundNext]_allVars =>
        [PlanHolds /\ podCIDRs' = podCIDRs /\ stray' = {} =>
           PlanHolds' /\ \A n \in Nodes : Improves(n)]_allVars
  BY PlanNext
<1> QED BY <1>1, RoundInvInit, RoundInvNext, PTL DEF RoundSpec, RoundsImprove

\* Plans hold at the begin: between two rounds, unless a lost update is out.
THEOREM PlansBegin == RoundSpec => [](phase = "rest" /\ stray = {} => PlanHolds)
<1>1. ASSUME RoundInv, phase = "rest", stray = {} PROVE PlanHolds
  <2>1. deletes = {} /\ creates = {} /\ \A r \in Requests : call[r].pc \notin Running
    BY <1>1, Kinds DEF RoundInv, PhaseOK
  <2> QED BY <1>1, <2>1, ControllerAssumption DEF PlanHolds, Pending, Requests, Running
<1> QED BY <1>1, RoundInvInit, RoundInvNext, PTL DEF RoundSpec

=============================================================================
