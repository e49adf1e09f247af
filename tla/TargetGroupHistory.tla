-------------------------- MODULE TargetGroupHistory --------------------------
(***************************************************************************)
(* TargetGroupSync with a history variable, which no action reads, for     *)
(* what lastVisitedNodes stands for: a sync of these nodes has been done,  *)
(* and nothing has been done since.                                        *)
(***************************************************************************)
EXTENDS TargetGroupSync

VARIABLE
  memo  \* the sync that set lastVisitedNodes, as it was when it did; none
        \* (NoMemo) when a call has since been given up amid its changes

NoMemo == NoCall("ok")

MemoInit == Init /\ memo = NoMemo

Commits(c) == At(c, "next") /\ call'[c].pc = "ok"

\* Fails, or dies with the process.
GivesUp(c) == call[c].pc \in Syncing \cup {"delete", "abort"} /\ call'[c].pc = "err"

Forgets == cache' = {} \/ \E c \in Callers : GivesUp(c)

MemoNext ==
  /\ Next
  /\ \/ \E c \in Callers : Commits(c) /\ memo' = call[c]
     \/ ~(\E c \in Callers : Commits(c)) /\ Forgets /\ memo' = NoMemo
     \/ ~(\E c \in Callers : Commits(c)) /\ ~Forgets /\ UNCHANGED memo

MemoSpec == MemoInit /\ [][MemoNext]_<<vars, memo>>

-----------------------------------------------------------------------------
(* Properties                                                              *)

\* The nodes of lastVisitedNodes are as the sync that set it saw them.
AsVisited ==
  \A n \in cache : /\ annotation[n] = memo.nodes[n]
                   /\ Provider[n] = "yandex" => nics[n] = memo.found[n]

\* synchronizeNodesWithTargetGroups skips a call whose nodes are those of
\* lastVisitedNodes (load_balancer_tg_controller.go:113), and misses nothing by
\* it: what the sync would do has been done, and still is, whatever calls,
\* failures and restarts there were before or after.  This needs nodes that are
\* as they were, and no call given up since (both are among the findings), and
\* spares groups that an operation from before the sync disturbs.
CacheTruth ==
  lock = NoCaller /\ memo # NoMemo /\ AsVisited =>
    \A g \in DOMAIN Wanted(cache) : Holds(memo, g, Wanted(cache)[g])

=============================================================================
