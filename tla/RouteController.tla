--------------------------- MODULE RouteController ---------------------------
(***************************************************************************)
(* RouteTable under the route controller of Kubernetes, which is not code  *)
(* of this repository: every few seconds a round lists the routes and the  *)
(* nodes, deletes the routes that no node asks for, all at the same time,  *)
(* waits for these calls, creates the missing routes, all at the same      *)
(* time, and waits again.  A call that fails, as all those do that find    *)
(* routeAPILock taken, is left to the next round.                          *)
(*                                                                         *)
(* A goroutine is named by its request: Callers = Requests.                *)
(***************************************************************************)
EXTENDS RouteTable

CONSTANT MaxTrouble  \* bound: changes of the nodes and faults, together

ASSUME ControllerAssumption == Callers = Requests /\ MaxTrouble \in Nat

VARIABLES
  podCIDRs,  \* the CIDRs that the spec of each node asks for
  phase,     \* "rest", "list", "delete", "create"
  deletes,   \* requests of the round whose goroutines have not called yet
  creates,
  trouble    \* how much has happened of what MaxTrouble bounds

roundVars == <<phase, deletes, creates>>
allVars   == <<vars, podCIDRs, roundVars, trouble>>

AllReturned == \A c \in Callers : call[c].pc \in Returned

BeginRound ==
  /\ phase = "rest"
  /\ Start(ListRequest, ListRequest)
  /\ phase' = "list"
  /\ UNCHANGED <<podCIDRs, deletes, creates, trouble>>

\* The answer of ListRoutes against the nodes.
PlanRound ==
  LET have == {<<r.node, r.cidr>> : r \in call[ListRequest].snap}
      want == UNION {{<<n, d>> : d \in podCIDRs[n]} : n \in Nodes} IN
  /\ phase = "list" /\ AllReturned
  /\ \/ /\ call[ListRequest].pc = "err"
        /\ phase' = "rest"
        /\ UNCHANGED <<deletes, creates>>
     \/ /\ call[ListRequest].pc = "ok"
        /\ phase' = "delete"
        /\ deletes' = {DeleteRequest(p[1], p[2]) : p \in have \ want}
        /\ creates' = {CreateRequest(p[1], p[2]) : p \in want \ have}
  /\ UNCHANGED <<vars, podCIDRs, trouble>>

CallDelete(r) ==
  /\ phase = "delete" /\ r \in deletes
  /\ Start(r, r)
  /\ deletes' = deletes \ {r}
  /\ UNCHANGED <<podCIDRs, phase, creates, trouble>>

CallCreate(r) ==
  /\ phase = "create" /\ r \in creates
  /\ Start(r, r)
  /\ creates' = creates \ {r}
  /\ UNCHANGED <<podCIDRs, phase, deletes, trouble>>

\* wg.Wait
EndPhase ==
  /\ AllReturned
  /\ \/ phase = "delete" /\ deletes = {} /\ phase' = "create"
     \/ phase = "create" /\ creates = {} /\ phase' = "rest"
  /\ UNCHANGED <<vars, podCIDRs, deletes, creates, trouble>>

CallStep(c) == Step(c) /\ UNCHANGED <<podCIDRs, roundVars, trouble>>

\* A node comes, goes, or comes back with another CIDR.
ChangeNode(n) ==
  /\ podCIDRs' \in {[podCIDRs EXCEPT ![n] = S] : S \in {{}} \cup {{d} : d \in CIDRs}}
  /\ podCIDRs' # podCIDRs
  /\ UNCHANGED <<vars, roundVars>>

\* Calls fail, addresses disappear, users edit the table, the process restarts.
Disturbance ==
  \/ \E c \in Callers : Fault(c) /\ UNCHANGED <<podCIDRs, roundVars>>
  \/ /\ (\E n \in Nodes : Readdress(n)) \/ (\E r \in UserRoutes : UserEdit(r))
     /\ UNCHANGED <<podCIDRs, roundVars>>
  \/ /\ Restart
     /\ phase' = "rest" /\ deletes' = {} /\ creates' = {}
     /\ UNCHANGED podCIDRs

Trouble ==
  /\ trouble < MaxTrouble /\ trouble' = trouble + 1
  /\ (\E n \in Nodes : ChangeNode(n)) \/ Disturbance

LateUpdate ==
  /\ \E t \in stray : Land(t)
  /\ UNCHANGED <<podCIDRs, roundVars, trouble>>

\* A node that has no address gets one.
GetAddress(n) ==
  /\ address[n] = NoHop /\ Readdress(n) /\ address'[n] # NoHop
  /\ UNCHANGED <<podCIDRs, roundVars, trouble>>

RoundInit ==
  /\ Init
  /\ podCIDRs = [n \in Nodes |-> {}]
  /\ phase = "rest" /\ deletes = {} /\ creates = {} /\ trouble = 0

RoundStep ==
  \/ BeginRound \/ PlanRound \/ EndPhase
  \/ \E r \in Requests : CallDelete(r) \/ CallCreate(r)

RoundNext ==
  \/ RoundStep \/ Trouble \/ LateUpdate
  \/ \E c \in Callers : CallStep(c)
  \/ \E n \in Nodes : GetAddress(n)

\* The controller runs its loop for ever, goroutines are scheduled, remote calls
\* return, and no instance stays without an address.
RoundFairness ==
  /\ WF_allVars(BeginRound) /\ WF_allVars(PlanRound) /\ WF_allVars(EndPhase)
  /\ \A c \in Callers :
       WF_allVars(CallDelete(c)) /\ WF_allVars(CallCreate(c)) /\ WF_allVars(CallStep(c))
  /\ \A n \in Nodes : WF_allVars(GetAddress(n))

RoundSpec == RoundInit /\ [][RoundNext]_allVars /\ RoundFairness

-----------------------------------------------------------------------------
(* Properties                                                              *)

\* The node has a route for its CIDR, and no other.
CIDRsOf(n) == {r.cidr : r \in OfNode(table, n)}
Right(n)   == CIDRsOf(n) = podCIDRs[n]
Routed     == \A n \in Nodes : Right(n)

\* What the round has still to call for, and what is being called for.
Pending(r) == r \in deletes \cup creates \/ call[r].pc \in Running

\* The round has nothing to do that is done already, or that no node wants, and
\* its calls know the routes of the nodes.
PlanHolds ==
  /\ stray = {}
  /\ \A c \in Callers : call[c].pc \in {"address", "update"} =>
       Labelled(call[c].snap) = Labelled(table)
  /\ phase = "list" /\ call[ListRequest].pc = "ok" =>
       call[ListRequest].snap = Labelled(table)
  /\ \A n \in Nodes, d \in CIDRs :
       /\ Pending(DeleteRequest(n, d)) => d \in CIDRsOf(n) \ podCIDRs[n]
       /\ Pending(CreateRequest(n, d)) => d \in podCIDRs[n] \ CIDRsOf(n)

\* A step changes the routes of a node only if they are not right, and then they
\* are right, or gone.
Improves(n) ==
  OfNode(table', n) # OfNode(table, n) =>
    ~Right(n) /\ (Right(n)' \/ OfNode(table', n) = {})

\* As long as the nodes stay as they are and no update outlives its wait, a plan
\* stays true to the end of its round and all calls go in the right direction, though
\* they fail at any point, find the lock taken, delete all routes of a node and
\* write the whole table, and though the process restarts in the middle of a
\* round (routes.go:65-145, 161-220).  Between two rounds there is no plan.
RoundsImprove ==
  [][PlanHolds /\ podCIDRs' = podCIDRs /\ stray' = {} =>
       PlanHolds' /\ \A n \in Nodes : Improves(n)]_allVars

\* When nodes come and go and calls fail only so often, the routes of the nodes
\* end up right and stay so, although most calls of a round may find the lock
\* taken, and a lost update may undo what was done since.
Converges == <>[]Routed

=============================================================================
