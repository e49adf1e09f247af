------------------------- MODULE TargetGroupCacheProofs -------------------------
(***************************************************************************)
(* What lastVisitedNodes may be trusted for, for all values of the         *)
(* constants and whatever fails: the sync that set it has settled its      *)
(* groups, and no later call has begun to change them and been given up.   *)
(***************************************************************************)
EXTENDS TargetGroupHistory, TargetGroupSyncProofs

-----------------------------------------------------------------------------
(* The inductive invariant                                                 *)

YandexOf(N) == {n \in N : Provider[n] = "yandex"}

\* The mapping of a call is that of the instances it has looked up.
Mapped(r) ==
  /\ DOMAIN r.found = YandexOf(DOMAIN r.nodes)
  /\ r.want = constructTgNameToTargetMap(r.found, r.nodes)

Reads(r) ==
  /\ r.pc = "waiting" => r.found = Empty
  /\ r.pc = "resolve" => DOMAIN r.found = YandexOf(DOMAIN r.nodes \ r.todo)
  /\ r.pc \in Syncing => Mapped(r)

CallsRead == \A c \in Callers : Reads(call[c])

\* A call that may have changed a group, and not yet lastVisitedNodes.
Changing == Syncing \cup {"delete", "abort", "panic"}

\* The sync memo has settled its groups, and nothing runs that it did not find.
Settled ==
  /\ inflight \subseteq memo.strays
  /\ \A g \in DOMAIN memo.want : Holds(memo, g, memo.want[g])

MemoTrue ==
  memo # NoMemo =>
    /\ cache = DOMAIN memo.nodes /\ Mapped(memo)
    /\ Settled \/ \E c \in Callers : call[c].pc \in Changing

-----------------------------------------------------------------------------
(* The mapping of a call                                                   *)

\* A call that has looked nothing up, or that has returned.
LEMMA NoCallReads == ASSUME NEW l \in Returned \cup {"waiting"} PROVE Reads(NoCall(l))
BY DEF Reads, NoCall, Returned, Syncing, Updating

\* A call goes on with its mapping.
LEMMA KeepsMapping ==
  ASSUME NEW r, NEW s, Reads(r), r.pc \in Syncing,
         s.nodes = r.nodes, s.found = r.found, s.want = r.want,
         s.pc \notin {"waiting", "resolve"}
  PROVE  Reads(s)
BY DEF Reads, Mapped

LEMMA StartReads ==
  ASSUME TypeOK, NEW c \in Callers, NEW N \in SUBSET Nodes, Start(c, N)
  PROVE  Reads(call'[c])
<1>1. call'[c].pc = "waiting" /\ call'[c].found = Empty
  BY CallFields DEF Start, NoCall
<1> QED BY <1>1 DEF Reads, Syncing, Updating

LEMMA AcquireReads ==
  ASSUME TypeOK, NEW c \in Callers, Reads(call[c]), NEW active \in BOOLEAN,
         Acquire(c, active)
  PROVE  Reads(call'[c])
<1>1. call[c].pc = "waiting" /\ call[c].found = Empty
  BY DEF Acquire, At, Reads
<1>2. CASE Return(c, "ok")
  BY <1>2, CallFields, NoCallReads DEF Return, Returned
<1>3. CASE call' = [call EXCEPT ![c].pc = "list", ![c].strays = inflight]
  <2>1. call'[c].pc = "list"
    BY <1>3, CallFields DEF IsCall
  <2> QED BY <2>1 DEF Reads, Syncing, Updating
<1>4. CASE call' = [call EXCEPT ![c].pc = "resolve", ![c].todo = DOMAIN call[c].nodes,
                                ![c].strays = inflight]
  <2>1. /\ call'[c].pc = "resolve" /\ call'[c].found = Empty
        /\ call'[c].nodes = call[c].nodes /\ call'[c].todo = DOMAIN call[c].nodes
    BY <1>1, <1>4, CallFields DEF IsCall
  <2> QED BY <2>1 DEF Reads, Syncing, Updating, Empty, YandexOf
<1> QED BY <1>2, <1>3, <1>4 DEF Acquire

LEMMA LookupReads ==
  ASSUME TypeOK, NEW c \in Callers, Reads(call[c]), NEW n, Lookup(c, n)
  PROVE  Reads(call'[c])
<1> DEFINE N    == DOMAIN call[c].nodes
           todo == call[c].todo
<1>1. /\ call[c].pc = "resolve" /\ n \in todo /\ todo \subseteq N
      /\ DOMAIN call[c].found = YandexOf(N \ todo)
  BY CallFields DEF Lookup, At, Reads, CallOK
<1>2. CASE Fail(c)
  BY <1>2, CallFields, NoCallReads DEF Fail, Return, Returned
<1>3. CASE Provider[n] = "other" /\ call' = [call EXCEPT ![c].todo = @ \ {n}]
  <2>1. /\ call'[c].pc = "resolve" /\ call'[c].nodes = call[c].nodes
        /\ call'[c].todo = todo \ {n} /\ call'[c].found = call[c].found
    BY <1>1, <1>3, CallFields DEF IsCall
  <2>2. YandexOf(N \ (todo \ {n})) = YandexOf(N \ todo)
    BY <1>3 DEF YandexOf
  <2> QED BY <1>1, <2>1, <2>2 DEF Reads, Syncing, Updating
<1>4. CASE /\ Provider[n] = "yandex"
           /\ call' = [call EXCEPT ![c].todo = @ \ {n}, ![c].found = Put(@, n, nics[n])]
  <2>1. /\ call'[c].pc = "resolve" /\ call'[c].nodes = call[c].nodes
        /\ call'[c].todo = todo \ {n} /\ call'[c].found = Put(call[c].found, n, nics[n])
    BY <1>1, <1>4, CallFields DEF IsCall
  <2>2. YandexOf(N \ (todo \ {n})) = YandexOf(N \ todo) \cup {n}
    BY <1>1, <1>4 DEF YandexOf
  <2>3. DOMAIN call'[c].found = YandexOf(N \ (todo \ {n}))
    BY <1>1, <2>1, <2>2 DEF Put
  <2> QED BY <2>1, <2>3 DEF Reads, Syncing, Updating
<1> QED BY <1>2, <1>3, <1>4 DEF Lookup

LEMMA BuildMappingReads ==
  ASSUME TypeOK, NEW c \in Callers, Reads(call[c]), BuildMapping(c)
  PROVE  Reads(call'[c])
<1> DEFINE mapping == constructTgNameToTargetMap(call[c].found, call[c].nodes)
<1>1. DOMAIN call[c].found = YandexOf(DOMAIN call[c].nodes)
  BY DEF BuildMapping, At, Reads
<1> HIDE DEF mapping
<1>2. CASE Fail(c)
  BY <1>2, CallFields, NoCallReads DEF Fail, Return, Returned
<1>3. CASE call' = [call EXCEPT ![c].pc = "panic"]
  <2>1. call'[c].pc = "panic"
    BY <1>3, CallFields DEF IsCall
  <2> QED BY <2>1 DEF Reads, Syncing, Updating
<1>4. CASE call' = [call EXCEPT ![c].pc = "next", ![c].want = mapping,
                                ![c].todo = DOMAIN mapping]
  <2>1. /\ call'[c].pc = "next" /\ call'[c].nodes = call[c].nodes
        /\ call'[c].found = call[c].found /\ call'[c].want = mapping
    BY <1>4, CallFields DEF IsCall
  <2> QED BY <1>1, <2>1 DEF Reads, Mapped, mapping
<1> QED BY <1>2, <1>3, <1>4 DEF BuildMapping, mapping

\* From its first group on, a call keeps its mapping or returns; a cleanup has
\* none.
LEMMA LaterReads ==
  ASSUME TypeOK, NEW c \in Callers, Reads(call[c]), call'[c].pc \notin Returned,
         \/ \E g \in Names : GetGroup(c, g)
         \/ CreateTG(c) \/ AddTGTargets(c) \/ RemoveTGTargets(c) \/ Recheck(c)
         \/ GetTGsByClusterName(c)
         \/ \E g \in Names : \/ RemoveTG(c, g) \/ FailRemoveTG(c, g)
                             \/ SkipRemoveTG(c, g) \/ LoseRemoveTG(c, g)
  PROVE  Reads(call'[c])
<1> DEFINE Keeps == /\ call[c].pc \in Syncing
                    /\ call'[c].nodes = call[c].nodes /\ call'[c].found = call[c].found
                    /\ call'[c].want = call[c].want
                    /\ call'[c].pc \notin {"waiting", "resolve"}
<1> USE CallFields DEF IsCall, At
<1>1. ASSUME NEW g, GetGroup(c, g) PROVE Keeps
  <2> USE DEF Syncing, Updating
  <2>0. call[c].pc = "next"
    BY <1>1 DEF GetGroup
  <2>1. CASE call' = [call EXCEPT ![c].pc = "create", ![c].cur = g]
    BY <2>0, <2>1
  <2>2. CASE call' = [call EXCEPT ![c].pc = "add", ![c].cur = g, ![c].snap = tgs[g]]
    BY <2>0, <2>2
  <2>3. CASE call' = [call EXCEPT ![c].pc = "remove", ![c].cur = g, ![c].snap = tgs[g]]
    BY <2>0, <2>3
  <2>4. CASE call' = [call EXCEPT ![c].todo = @ \ {g}]
    BY <2>0, <2>4
  <2> QED BY <1>1, <2>1, <2>2, <2>3, <2>4 DEF GetGroup
<1>2. ASSUME CreateTG(c) \/ Recheck(c) PROVE Keeps
  <2>1. CASE GroupDone(c)
    BY <1>2, <2>1 DEF CreateTG, Recheck, GroupDone, Syncing, Updating
  <2>2. CASE call' = [call EXCEPT ![c].pc = "panic"]
    BY <1>2, <2>2 DEF CreateTG, Recheck, Syncing, Updating
  <2> QED BY <1>2, <2>1, <2>2 DEF CreateTG, Recheck
<1>3. ASSUME AddTGTargets(c) \/ RemoveTGTargets(c) PROVE Keeps
  <2>1. PICK l \in {"remove", "recheck"} : call' = [call EXCEPT ![c].pc = l]
    BY <1>3 DEF AddTGTargets, RemoveTGTargets
  <2> QED BY <1>3, <2>1 DEF AddTGTargets, RemoveTGTargets, Syncing, Updating
<1>4. CASE GetTGsByClusterName(c)
  <2>1. call'[c].pc = "delete"
    BY <1>4 DEF GetTGsByClusterName
  <2> QED BY <2>1 DEF Reads, Syncing, Updating
<1>5. ASSUME NEW g, \/ RemoveTG(c, g) \/ FailRemoveTG(c, g)
                    \/ SkipRemoveTG(c, g) \/ LoseRemoveTG(c, g)
      PROVE  Reads(call'[c])
  <2>1. call'[c].pc \in {"delete", "abort"}
    BY <1>5 DEF RemoveTG, FailRemoveTG, SkipRemoveTG, LoseRemoveTG
  <2> QED BY <2>1 DEF Reads, Syncing, Updating
<1> QED BY <1>1, <1>2, <1>3, <1>4, <1>5, KeepsMapping

LEMMA ReadsNext ==
  ASSUME TypeOK, CallsRead, [Next]_vars
  PROVE  CallsRead'
<1> SUFFICES ASSUME NEW c \in Callers PROVE Reads(call'[c])
  BY DEF CallsRead, Reads, Mapped
<1>0. Reads(call[c])
  BY DEF CallsRead
<1>1. CASE call'[c] = call[c]
  BY <1>0, <1>1
<1>2. CASE Restart
  BY <1>2, NoCallReads DEF Restart, Returned
<1>3. CASE call'[c] # call[c] /\ ~Restart
  <2>1. ~ UNCHANGED vars /\ ~ Environment
    BY <1>3 DEF vars, Environment, Land, Attach, Detach, Relabel, Recreate
  <2>2. Acts(c)
    BY <1>3, <2>1, ActsOthersStay DEF Next, Acts, OthersStay
  <2>3. CASE Fail(c)
    BY <2>3, CallFields, NoCallReads DEF Fail, Return, Returned
  <2>4. CASE Commit(c) \/ CleanupEnd(c)
    BY <2>3, <2>4, CallFields, NoCallReads DEF Commit, CleanupEnd, Return, Returned
  <2>5. CASE call'[c].pc \in Returned /\ ~Fail(c) /\ Step(c) /\ ~Commit(c) /\ ~CleanupEnd(c)
    BY <2>5 DEF Reads, Returned, Syncing, Updating
  <2> QED
    BY <1>0, <2>2, <2>3, <2>4, <2>5, StartReads, AcquireReads, LookupReads,
       BuildMappingReads, LaterReads
    DEF Acts, Step, Fault, RefuseOperation, RemoteError, LoseOperation, Returned, Reads,
        Syncing, Updating
<1> QED BY <1>1, <1>2, <1>3

-----------------------------------------------------------------------------
(* What lastVisitedNodes stands for                                        *)

\* A call amid its changes goes on with them, unless it commits, is given up,
\* or ends with an empty lastVisitedNodes.
LEMMA ChangingStays ==
  ASSUME TypeOK, NEW c \in Callers, call[c].pc \in Changing, Acts(c)
  PROVE  \/ call'[c].pc \in Changing
         \/ Commits(c) \/ GivesUp(c) \/ cache' = {}
<1> USE CallFields DEF IsCall, At, Changing, Syncing, Updating
<1>1. CASE Fail(c) /\ call[c].pc # "panic"
  BY <1>1 DEF Fail, Return, NoCall, GivesUp
<1>2. CASE \/ \E N \in SUBSET Nodes : Start(c, N)
           \/ \E active \in BOOLEAN : Acquire(c, active)
           \/ \E n \in Nodes : Lookup(c, n)
           \/ BuildMapping(c) \/ GetTGsByClusterName(c)
  BY <1>2 DEF Start, Acquire, Lookup, BuildMapping, GetTGsByClusterName, Returned
<1>3. ASSUME NEW g, GetGroup(c, g) PROVE call'[c].pc \in Changing
  <2>1. CASE call' = [call EXCEPT ![c].pc = "create", ![c].cur = g]
    BY <2>1
  <2>2. CASE call' = [call EXCEPT ![c].pc = "add", ![c].cur = g, ![c].snap = tgs[g]]
    BY <2>2
  <2>3. CASE call' = [call EXCEPT ![c].pc = "remove", ![c].cur = g, ![c].snap = tgs[g]]
    BY <2>3
  <2>4. CASE call' = [call EXCEPT ![c].todo = @ \ {g}]
    BY <2>4
  <2> QED BY <1>3, <2>1, <2>2, <2>3, <2>4 DEF GetGroup
<1>4. CASE CreateTG(c) \/ Recheck(c)
  BY <1>4 DEF CreateTG, Recheck, GroupDone
<1>5. CASE AddTGTargets(c) \/ RemoveTGTargets(c)
  BY <1>5 DEF AddTGTargets, RemoveTGTargets
<1>6. CASE Commit(c)
  BY <1>6 DEF Commit, Commits, Return, NoCall
<1>7. ASSUME NEW g, \/ RemoveTG(c, g) \/ FailRemoveTG(c, g)
                    \/ SkipRemoveTG(c, g) \/ LoseRemoveTG(c, g)
      PROVE  call'[c].pc \in Changing
  BY <1>7 DEF RemoveTG, FailRemoveTG, SkipRemoveTG, LoseRemoveTG
<1>8. CASE CleanupEnd(c)
  BY <1>1, <1>8 DEF CleanupEnd
<1>9. CASE RefuseOperation(c) \/ RemoteError(c) \/ LoseOperation(c)
  BY <1>1, <1>9 DEF RefuseOperation, RemoteError, LoseOperation
<1> QED
  BY <1>2, <1>3, <1>4, <1>5, <1>6, <1>7, <1>8, <1>9 DEF Acts, Step, Fault

\* Otherwise nothing but an abandoned operation changes the cloud.
LEMMA CloudStays ==
  ASSUME TypeOK, NEW c \in Callers, call[c].pc \notin Changing, Acts(c)
  PROVE  UNCHANGED <<tgs, inflight>>
BY DEF Acts, Start, Acquire, Step, Fault, Lookup, BuildMapping, GetGroup, CreateTG,
       AddTGTargets, RemoveTGTargets, Recheck, RefuseOperation, Commit,
       GetTGsByClusterName, RemoveTG, FailRemoveTG, SkipRemoveTG, CleanupEnd,
       RemoteError, LoseOperation, LoseRemoveTG, At, Changing, Syncing, Updating, cloud

\* lastVisitedNodes changes when a sync commits, or is emptied.
LEMMA CacheStays ==
  ASSUME TypeOK, Next
  PROVE  cache' = cache \/ cache' = {} \/ \E c \in Callers : Commits(c)
<1>1. ASSUME NEW c \in Callers, Acts(c) PROVE cache' = cache \/ cache' = {} \/ Commits(c)
  <2>1. CASE Commit(c)
    BY <2>1, CallFields DEF Commit, Commits, Return, NoCall
  <2>2. CASE ~Commit(c)
    BY <1>1, <2>2
    DEF Acts, Start, Acquire, Step, Fault, Lookup, BuildMapping, GetGroup, CreateTG,
        AddTGTargets, RemoveTGTargets, Recheck, RefuseOperation,
        GetTGsByClusterName, RemoveTG, FailRemoveTG, SkipRemoveTG, CleanupEnd,
        RemoteError, LoseOperation, LoseRemoveTG, Fail
  <2> QED BY <2>1, <2>2
<1>2. Environment => cache' = cache \/ cache' = {}
  BY DEF Environment, Land, Attach, Detach, Relabel, Recreate, Restart
<1> QED BY <1>1, <1>2 DEF Next, Acts

\* An operation that the sync found running leaves its other groups alone.
LEMMA LandSettled ==
  ASSUME TypeOK, Settled, memo' = memo, NEW o \in inflight, Land(o)
  PROVE  Settled'
<1>1. inflight' \subseteq memo'.strays
  BY DEF Settled, Land, Surviving
<1>2. ASSUME NEW g \in DOMAIN memo.want, g \notin Disturbed(memo)
      PROVE  g \in DOMAIN tgs' /\ tgs'[g] = memo.want[g]
  <2>1. o \in Operations /\ o.group # g /\ g \in DOMAIN tgs /\ tgs[g] = memo.want[g]
    BY <1>2 DEF Settled, Holds, Disturbed, TypeOK, CloudOK
  <2> QED BY <2>1 DEF Land, After, Put, Drop, Operations
<1> QED BY <1>1, <1>2 DEF Settled, Holds, Disturbed

\* A sync that commits has settled the groups of its mapping.
LEMMA CommitSettled ==
  ASSUME TypeOK, CallsProgress, CallsRead, Next,
         NEW c \in Callers, Commits(c), memo' = call[c]
  PROVE  MemoTrue'
<1>1. Commit(c)
  BY OkFrom DEF Commits, At, Running, Syncing
<1>2. Progress(call[c]) /\ Reads(call[c]) /\ call[c].pc = "next" /\ call[c].todo = {}
  BY <1>1 DEF CallsProgress, CallsRead, Commit, At
<1>3. UNCHANGED cloud /\ cache' = DOMAIN memo'.nodes
  BY <1>1 DEF Commit
<1>4. Mapped(memo')
  BY <1>2 DEF Reads, Syncing
<1>5. Settled'
  BY <1>2, <1>3 DEF Progress, Settled, Holds, Disturbed, cloud, Running, Syncing
<1> QED BY <1>3, <1>4, <1>5 DEF MemoTrue, Mapped

\* Nothing is committed, given up or emptied.
LEMMA QuietStep ==
  ASSUME TypeOK, MemoTrue, Next, memo' = memo, ~Forgets,
         \A c \in Callers : ~Commits(c)
  PROVE  MemoTrue'
<1> SUFFICES ASSUME memo # NoMemo PROVE MemoTrue'
  BY DEF MemoTrue
<1>1. cache' = cache /\ cache' # {} /\ \A c \in Callers : ~GivesUp(c)
  BY CacheStays DEF Forgets
<1>2. ~Restart
  BY <1>1 DEF Restart
<1>3. cache' = DOMAIN memo'.nodes /\ Mapped(memo')
  BY <1>1 DEF MemoTrue
<1>4. CASE \E c \in Callers : call[c].pc \in Changing
  <2>1. PICK c \in Callers : call[c].pc \in Changing
    BY <1>4
  <2>2. CASE call'[c] = call[c]
    BY <1>3, <2>1, <2>2 DEF MemoTrue, Mapped
  <2>3. CASE call'[c] # call[c]
    <3>1. ~Environment
      BY <1>2, <2>3 DEF Environment, Land, Attach, Detach, Relabel, Recreate
    <3>2. Acts(c)
      BY <2>3, <3>1, ActsOthersStay DEF Next, Acts, OthersStay
    <3>3. call'[c].pc \in Changing
      BY <1>1, <2>1, <3>2, ChangingStays
    <3> QED BY <1>3, <3>3 DEF MemoTrue, Mapped
  <2> QED BY <2>2, <2>3
<1>5. CASE \A c \in Callers : call[c].pc \notin Changing
  <2>1. Settled
    BY <1>5 DEF MemoTrue
  <2>2. UNCHANGED <<tgs, inflight>> \/ \E o \in inflight : Land(o)
    <3>1. Environment => UNCHANGED <<tgs, inflight>> \/ \E o \in inflight : Land(o)
      BY <1>2 DEF Environment, Attach, Detach, Relabel, Recreate, cloud
    <3> QED BY <1>5, <3>1, CloudStays DEF Next, Acts
  <2>3. Settled'
    BY <2>1, <2>2, LandSettled DEF Settled, Holds, Disturbed
  <2> QED BY <1>3, <2>3 DEF MemoTrue, Mapped
<1> QED BY <1>4, <1>5

LEMMA MemoStep ==
  ASSUME TypeOK, CallsProgress, CallsRead, MemoTrue, [MemoNext]_<<vars, memo>>
  PROVE  MemoTrue'
<1>1. CASE UNCHANGED <<vars, memo>>
  BY <1>1 DEF vars, cloud, MemoTrue, Mapped, Settled, Holds, Disturbed
<1>2. CASE \E c \in Callers : Commits(c) /\ memo' = call[c] /\ Next
  BY <1>2, CommitSettled
<1>3. CASE memo' = NoMemo
  BY <1>3 DEF MemoTrue, NoMemo, NoCall
<1>4. CASE Next /\ memo' = memo /\ ~Forgets /\ ~ \E c \in Callers : Commits(c)
  BY <1>4, QuietStep
<1> QED BY <1>1, <1>2, <1>3, <1>4 DEF MemoNext

-----------------------------------------------------------------------------
(* The theorem                                                             *)

\* Nodes that are as the sync saw them give the mapping that it had.
LEMMA SameMapping ==
  ASSUME Mapped(memo), cache = DOMAIN memo.nodes, AsVisited
  PROVE  Wanted(cache) = memo.want
<1> DEFINE found == [n \in YandexOf(cache) |-> nics[n]]
           Of(n, f, l) == {<<<<Truncate[l[n]], i.net>>, i.target>> : i \in f[n]}
<1>1. DOMAIN memo.found = YandexOf(cache)
  BY DEF Mapped
<1>2. ASSUME NEW n \in YandexOf(cache)
      PROVE  found[n] = memo.found[n] /\ annotation[n] = memo.nodes[n]
  BY <1>2 DEF AsVisited, YandexOf
<1>3. \A n \in YandexOf(cache) : Of(n, found, annotation) = Of(n, memo.found, memo.nodes)
  BY <1>2
<1>4. Entries(found, annotation) = Entries(memo.found, memo.nodes)
  <2>1. /\ Entries(found, annotation)
             = UNION {Of(n, found, annotation) : n \in YandexOf(cache)}
        /\ Entries(memo.found, memo.nodes)
             = UNION {Of(n, memo.found, memo.nodes) : n \in YandexOf(cache)}
    BY <1>1 DEF Entries
  <2> HIDE DEF Of
  <2> QED BY <1>3, <2>1
<1>5. constructTgNameToTargetMap(found, annotation) = memo.want
  BY <1>4 DEF constructTgNameToTargetMap, Mapped
<1> QED BY <1>5 DEF Wanted, YandexOf

LEMMA HistoryInit == MemoInit => Init /\ CallsRead /\ MemoTrue
<1> SUFFICES ASSUME MemoInit PROVE CallsRead /\ MemoTrue
  BY DEF MemoInit
<1>1. \A c \in Callers : call[c] = NoCall("ok")
  BY DEF MemoInit, Init
<1> QED BY <1>1, NoCallReads DEF MemoInit, CallsRead, MemoTrue, Returned

LEMMA HistoryNext == [MemoNext]_<<vars, memo>> => [Next]_vars
BY DEF MemoNext, vars

\* A call that is skipped because its nodes are those of lastVisitedNodes would
\* have found its groups as it wants them, whatever calls, failures and restarts
\* came before it (load_balancer_tg_controller.go:112-115).
THEOREM CacheTrue == MemoSpec => []CacheTruth
<1>1. TypeOK /\ CallsRead /\ [MemoNext]_<<vars, memo>> => CallsRead'
  BY ReadsNext, HistoryNext
<1>2. TypeOK /\ CallsProgress /\ CallsRead /\ MemoTrue /\ [MemoNext]_<<vars, memo>>
        => MemoTrue'
  BY MemoStep
<1>3. TypeOK /\ MemoTrue => CacheTruth
  <2> SUFFICES ASSUME TypeOK, MemoTrue, lock = NoCaller, memo # NoMemo, AsVisited
               PROVE  \A g \in DOMAIN Wanted(cache) : Holds(memo, g, Wanted(cache)[g])
    BY DEF CacheTruth
  <2>1. \A c \in Callers : call[c].pc \notin Changing
    BY CallerAssumption DEF TypeOK, LockOK, Running, Cleaning, Changing
  <2>2. Settled /\ Mapped(memo) /\ cache = DOMAIN memo.nodes
    BY <2>1 DEF MemoTrue
  <2> QED BY <2>2, SameMapping DEF Settled
<1>4. MemoSpec => Spec
  BY HistoryInit, HistoryNext, PTL DEF MemoSpec, Spec
<1> QED
  BY <1>1, <1>2, <1>3, <1>4, HistoryInit, TypeCorrect, Progressing, PTL DEF MemoSpec

=============================================================================
