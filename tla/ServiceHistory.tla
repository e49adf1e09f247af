---------------------------- MODULE ServiceHistory ----------------------------
(***************************************************************************)
(* ServiceController with history variables, which no action reads: what   *)
(* is left in the cloud after the services depends on what was under way   *)
(* for them when they were deleted.                                        *)
(***************************************************************************)
EXTENDS ServiceController

VARIABLES
  late,     \* services that the node syncer was at work for, or an abandoned
            \* creation of their balancer, when they were deleted or afterwards
  swept,    \* the groups have been cleaned up, and no service has come since
  leftover  \* the groups that creations from before this cleanup may bring back

history == <<late, swept, leftover>>

HistoryInit == ServiceInit /\ late = {} /\ swept = FALSE /\ leftover = {}

\* The services that somebody may give a balancer although the worker has not
\* got them.
Underway == {work[NodeSyncer].svc} \cup {s \in Services : CreateOf(s) \in lbOps}

CleanupSucceeds(c) == call[c].pc \in {"delete", "abort"} /\ call'[c].pc = "ok"

Sweep ==
  \/ Active' # {} /\ swept' = FALSE /\ leftover' = {}
  \/ /\ Active' = {} /\ swept' = TRUE
     /\ \E c \in Callers : CleanupSucceeds(c) /\ leftover' = Reborn(call[c])
  \/ /\ Active' = {} /\ UNCHANGED <<swept, leftover>>
     /\ ~ \E c \in Callers : CleanupSucceeds(c)

HistoryNext ==
  /\ ServiceNext
  /\ late' = late \cup (Underway' \cap (Services \ Active'))
  /\ Sweep

HistorySpec == HistoryInit /\ [][HistoryNext]_<<allVars, history>>

-----------------------------------------------------------------------------
(* Properties                                                              *)

\* A balancer outlives its service only when, while this service was deleted or
\* afterwards, the node syncer was at work for it (load_balancer.go:88, 96), or a
\* creation was running that an earlier wait or process had given up (api.go:45):
\* otherwise neither crashes nor failing calls nor retries leave one behind.
OrphanOnlyLate == \A s \in Services : svc[s] = "gone" /\ lb[s] => s \in late

\* After a cleanup that no service has followed, the folder has no group of
\* the cluster, unless the node syncer worked for a deleted service
\* (load_balancer_tg_controller.go:54-58), but for groups that a creation from
\* before the cleanup brings back (api.go:45).
SweptStaysClean == swept /\ late = {} => DOMAIN tgs \cap OwnNames \subseteq leftover

=============================================================================
