------------------------------ MODULE RouteTable ------------------------------
(***************************************************************************)
(* ListRoutes, CreateRoute and DeleteRoute, which the route controller     *)
(* calls from several goroutines.  There is no API for a single route: a   *)
(* call reads the table, and writes all of it back.  routeAPILock is held  *)
(* in between; a call that finds it taken does not wait, it fails.         *)
(*                                                                         *)
(* Every remote call is a step.  An update takes effect when its operation *)
(* is reported done; when the wait ends while it still runs, with an error *)
(* or with the process, it stays in `stray` and takes effect later, or     *)
(* never.                                                                  *)
(***************************************************************************)
EXTENDS Routes, FiniteSets, Naturals

CONSTANTS
  NoHop,     \* NodeAddresses found no InternalIP
  UserRoutes, \* the unlabelled routes that users have or may edit
  Callers,   \* goroutines of the route controller
  NoCaller,
  Hazards,   \* what the environment may do: see RouteHazardsAssumption
  MaxStray   \* bound: updates nobody waits for, at the same time

ASSUME RouteConstantsAssumption ==
  /\ NoCaller \notin Callers /\ NoHop \notin Hops
  /\ UserRoutes \subseteq {r \in Route : r.node = NoNode} /\ IsFiniteSet(UserRoutes)

\* "error": a remote call fails and has no effect.  "lost": the wait for an
\* update fails, the update runs on.  "crash": the process restarts, and
\* leaves running what the cloud had accepted.
\* "address": the InternalIP of a node changes, appears or disappears.
\* "user": a user edits the unlabelled routes of the table.
ASSUME RouteHazardsAssumption ==
  Hazards \subseteq {"error", "lost", "crash", "address", "user"}

VARIABLES
  table,    \* the static routes of the table in the cloud
  stray,    \* the tables that abandoned updates are going to write
  address,  \* the first InternalIP of each node, or NoHop
  lock,     \* routeAPILock: its holder, or NoCaller
  call      \* the call of each goroutine: where it is, and its locals

vars == <<table, stray, address, lock, call>>

-----------------------------------------------------------------------------
(* Calls                                                                   *)

ListRequest         == [op |-> "list",   node |-> NoNode, cidr |-> NoNode]
CreateRequest(n, d) == [op |-> "create", node |-> n, cidr |-> d]
DeleteRequest(n, d) == [op |-> "delete", node |-> n, cidr |-> d]

Requests ==
  {ListRequest} \cup {CreateRequest(n, d) : n \in Nodes, d \in CIDRs}
                \cup {DeleteRequest(n, d) : n \in Nodes, d \in CIDRs}

\* req: the arguments.  snap: the table as the call read it; of ListRoutes that
\* has returned, its answer.  hop: the next hop found.  alone: a history
\* variable, which no action reads: the call has read the table with no stray
\* update about, and no user has edited the table since.
NewCall(label, r) ==
  [pc |-> label, req |-> r, snap |-> {}, hop |-> NoHop, alone |-> FALSE]

Returned == {"ok", "err"}
Running  == {"get", "address", "update"}

At(c, label) == call[c].pc = label

\* Faulty variant of Return: the deferred Unlock is missing on errors.
KeepsLock(c, result, answer) ==
  /\ call' = [call EXCEPT ![c] = [NewCall(result, ListRequest) EXCEPT !.snap = answer]]
  /\ lock' = IF result = "ok" THEN NoCaller ELSE lock

\* Every return after TryLock runs the deferred Unlock.
Return(c, result, answer) ==
  /\ call' = [call EXCEPT ![c] = [NewCall(result, ListRequest) EXCEPT !.snap = answer]]
  /\ lock' = NoCaller

\* Faulty variant of Start: the lock is taken whether or not it is free.
TakesLock(c, r) ==
  /\ call[c].pc \in Returned
  /\ lock' = c /\ call' = [call EXCEPT ![c] = NewCall("get", r)]
  /\ UNCHANGED <<table, stray, address>>

\* TryLock, or the error "VPC route API locked".
Start(c, r) ==
  /\ call[c].pc \in Returned
  /\ \/ /\ lock = NoCaller
        /\ lock' = c /\ call' = [call EXCEPT ![c] = NewCall("get", r)]
     \/ /\ lock # NoCaller
        /\ call' = [call EXCEPT ![c] = NewCall("err", ListRequest)]
        /\ UNCHANGED lock
  /\ UNCHANGED <<table, stray, address>>

\* RouteTableSvc.Get
GetTable(c) ==
  /\ At(c, "get")
  /\ \/ /\ call[c].req.op = "list"
        /\ Return(c, "ok", Labelled(table))
     \/ /\ call[c].req.op \in {"create", "delete"}
        /\ LET label == IF call[c].req.op = "create" THEN "address" ELSE "update"
           IN  call' = [call EXCEPT ![c].pc = label, ![c].snap = table,
                                    ![c].alone = (stray = {})]
        /\ UNCHANGED lock
  /\ UNCHANGED <<table, stray, address>>

\* NodeAddresses, and the choice of the next hop.
FindNextHop(c) ==
  LET hop == address[call[c].req.node] IN
  /\ At(c, "address")
  /\ \/ hop = NoHop /\ Return(c, "err", {})   \* "could not determine InternalIP"
     \/ /\ hop # NoHop
        /\ call' = [call EXCEPT ![c].pc = "update", ![c].hop = hop]
        /\ UNCHANGED lock
  /\ UNCHANGED <<table, stray, address>>

\* The static_routes of the UpdateRouteTableRequest.
NewStaticRoutes(c) ==
  LET r == call[c].req IN
  IF r.op = "create" THEN AddOrUpdate(call[c].snap, r.node, r.cidr, call[c].hop)
                     ELSE Remove(call[c].snap, r.node)

UpdateTable(c) ==
  /\ At(c, "update")
  /\ table' = NewStaticRoutes(c)
  /\ Return(c, "ok", {})
  /\ UNCHANGED <<stray, address>>

LoseUpdate(c) ==
  /\ "lost" \in Hazards /\ At(c, "update")
  /\ Cardinality(stray) < MaxStray
  /\ stray' = stray \cup {NewStaticRoutes(c)}
  /\ Return(c, "err", {})
  /\ UNCHANGED <<table, address>>

RemoteError(c) ==
  /\ "error" \in Hazards /\ call[c].pc \in Running
  /\ Return(c, "err", {})
  /\ UNCHANGED <<table, stray, address>>

-----------------------------------------------------------------------------
(* The environment                                                         *)

\* An abandoned update ends: done, or without effect.
Land(t) ==
  /\ t \in stray
  /\ stray' = stray \ {t}
  /\ table' \in {t, table}
  /\ UNCHANGED <<address, lock, call>>

Readdress(n) ==
  /\ "address" \in Hazards
  /\ address' \in {[address EXCEPT ![n] = h] : h \in Hops \cup {NoHop}}
  /\ UNCHANGED <<table, stray, lock, call>>

UserEdit(r) ==
  /\ "user" \in Hazards
  /\ table' \in {table \cup {r}, table \ {r}}
  /\ call' = [c \in Callers |-> [call[c] EXCEPT !.alone = FALSE]]
  /\ UNCHANGED <<stray, address, lock>>

\* The update that a call is waiting for, if the API has accepted it, runs on.
Restart ==
  /\ "crash" \in Hazards
  /\ \E left \in SUBSET {NewStaticRoutes(c) : c \in {d \in Callers : At(d, "update")}} :
       /\ Cardinality(stray \cup left) <= MaxStray
       /\ stray' = stray \cup left
  /\ lock' = NoCaller
  /\ call' = [c \in Callers |-> NewCall("err", ListRequest)]
  /\ UNCHANGED <<table, address>>

-----------------------------------------------------------------------------

Init ==
  /\ table = UserRoutes
  /\ stray = {}
  /\ address \in [Nodes -> Hops]
  /\ lock = NoCaller
  /\ call = [c \in Callers |-> NewCall("ok", ListRequest)]

\* What a running call does of itself, and what goes wrong with it.
Step(c)  == GetTable(c) \/ FindNextHop(c) \/ UpdateTable(c)
Fault(c) == RemoteError(c) \/ LoseUpdate(c)

Environment ==
  \/ \E t \in stray : Land(t)
  \/ \E n \in Nodes : Readdress(n)
  \/ \E r \in UserRoutes : UserEdit(r)
  \/ Restart

Next ==
  \/ \E c \in Callers :
       \/ \E r \in Requests : Start(c, r)
       \/ Step(c) \/ Fault(c)
  \/ Environment

Spec == Init /\ [][Next]_vars

-----------------------------------------------------------------------------
(* Properties                                                              *)

CallOK(r) ==
  /\ r \in [pc : Returned \cup Running, req : Requests,
            snap : SUBSET Route, hop : Hops \cup {NoHop}, alone : BOOLEAN]
  /\ r.pc \in {"address", "update"} => r.req.op \in {"create", "delete"}
  /\ r.pc = "address" => r.req.op = "create"
  /\ r.pc = "update" /\ r.req.op = "create" => r.hop \in Hops

\* A call is between its TryLock and its Unlock exactly when it holds
\* routeAPILock (routes.go:29-33, 68-72, 118-122).
LockOK == \A c \in Callers : call[c].pc \in Running <=> lock = c

\* Type invariant: the shape of the state, and mutual exclusion.
TypeOK ==
  /\ table \subseteq Route
  /\ stray \subseteq SUBSET Route
  /\ address \in [Nodes -> Hops \cup {NoHop}]
  /\ lock \in Callers \cup {NoCaller}
  /\ call = [c \in Callers |-> call[c]] /\ \A c \in Callers : CallOK(call[c])
  /\ LockOK

\* The table that a call is about to change is the one it has read, unless a
\* stray update or a user writes it too: the invariant under which its read and
\* its write act as one step.
SnapshotFresh ==
  \A c \in Callers :
    call[c].pc \in {"address", "update"} /\ call[c].alone =>
      stray = {} /\ call[c].snap = table

\* No update is stray, or has been since a call that is about to write has read,
\* and no user has edited the table since then.
Quiet ==
  stray = {} /\ \A c \in Callers : At(c, "update") => call[c].alone

\* As long as it is quiet, CreateRoute and DeleteRoute change the table as if
\* they were indivisible, though they are called in parallel, fail, die with the
\* process, and write the whole table: no call undoes what another one did, and
\* the routes of users stay (routes.go:23).
Abstract   == INSTANCE RouteTableAbstract WITH table <- table, quiet <- Quiet
Atomically == Abstract!Spec

\* No node gets a second route, whatever fails: a new CIDR or next hop replaces
\* the old one (routes.go:182-190, 206-217).
OneRoutePerNode ==
  \A r, s \in Labelled(table) : r.node = s.node => r = s

=============================================================================
