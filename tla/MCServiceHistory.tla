--------------------------- MODULE MCServiceHistory ---------------------------
(* The instances of MCServiceController, with history.                     *)
EXTENDS ServiceHistory, MCServiceController

\* The process starts with a node.
MCHistoryInit == HistoryInit /\ ready = {n1}
MCHistorySpec == MCHistoryInit /\ [][HistoryNext]_<<allVars, history>>
=============================================================================
