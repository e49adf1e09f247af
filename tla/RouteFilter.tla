----------------------------- MODULE RouteFilter -----------------------------
(***************************************************************************)
(* filterStaticRoutes as the code has it, over lists of routes: a route    *)
(* whose node has a term is replaced or dropped, and what is asked for but *)
(* replaced no route is appended.  RouteTable uses the set operators of    *)
(* Routes in its place; FilterFaithful says that it may.                   *)
(***************************************************************************)
EXTENDS RouteTable, Selections, Sequences

Seqs == INSTANCE SequencesExt

AddOrUpdateTerm(n, cidr, hop) ==
  [type |-> "AddOrUpdate", node |-> n, cidr |-> cidr, hop |-> hop]
RemoveTerm(n) == [type |-> "Remove", node |-> n]

\* The terms for the node of a route, of which the first decides.
TermsOf(r, terms) ==
  Select(terms, {j \in DOMAIN terms : r.node # NoNode /\ terms[j].node = r.node})
Decided(r, terms, type) ==
  TermsOf(r, terms) # <<>> /\ TermsOf(r, terms)[1].type = type

\* The loop over the existing routes.
Kept(routes, terms) ==
  Select(routes, {i \in DOMAIN routes : ~Decided(routes[i], terms, "Remove")})
Rewritten(r, terms) ==
  LET t == TermsOf(r, terms)[1] IN
  IF Decided(r, terms, "AddOrUpdate") THEN [r EXCEPT !.cidr = t.cidr, !.hop = t.hop] ELSE r

\* Faulty variant of the next definition: nodeNamesUpdatedSet is forgotten.
AlwaysMissing(routes, terms) ==
  Select(terms, {j \in DOMAIN terms : terms[j].type = "AddOrUpdate"})

\* The terms of the final loop: nothing was there to be updated.
Missing(routes, terms) ==
  Select(terms, {j \in DOMAIN terms :
    /\ terms[j].type = "AddOrUpdate"
    /\ ~\E i \in DOMAIN routes : /\ routes[i].node = terms[j].node
                                 /\ Decided(routes[i], terms, "AddOrUpdate")})

filterStaticRoutes(routes, terms) ==
  LET kept     == Kept(routes, terms)
      missing  == Missing(routes, terms)
      added(t) == [node |-> t.node, cidr |-> t.cidr, hop |-> t.hop] IN
  [i \in DOMAIN kept |-> Rewritten(kept[i], terms)]
    \o [i \in DOMAIN missing |-> added(missing[i])]

\* The term that a call of CreateRoute or DeleteRoute gives to the filter.
Term(c) ==
  LET r == call[c].req IN
  IF r.op = "create" THEN AddOrUpdateTerm(r.node, r.cidr, call[c].hop)
                     ELSE RemoveTerm(r.node)

-----------------------------------------------------------------------------
(* Properties                                                              *)

\* The list has exactly the routes of the set, each once.
Lists(routes, S) == Seqs!ToSet(routes) = S /\ Len(routes) = Cardinality(S)

OfUsers(routes) == Select(routes, {i \in DOMAIN routes : routes[i].node = NoNode})

\* In whatever order the cloud lists the routes a call has read, the filter
\* makes of them the table that RouteTable writes, with no route twice and the
\* routes of users in the order they had (routes.go:161-220).
FilterFaithful ==
  \A c \in Callers :
    At(c, "update") =>
      \A routes \in Seqs!SetToSeqs(call[c].snap) :
        LET new == filterStaticRoutes(routes, <<Term(c)>>) IN
        Lists(new, NewStaticRoutes(c)) /\ OfUsers(new) = OfUsers(routes)

=============================================================================
