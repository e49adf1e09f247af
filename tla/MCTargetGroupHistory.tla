-------------------------- MODULE MCTargetGroupHistory --------------------------
(* The instances of MCTargetGroupSync, with history.                       *)
EXTENDS TargetGroupHistory, MCTargetGroupSync

\* Beside that node n2 of another provider, and n3 of none yet.
MovingVM     == OneVM @@ n2 :> {{}} @@ n3 :> {{}}
MovingLabels == NoLabel @@ n2 :> {"none"} @@ n3 :> {"none"}
ThreeKinds   == OneYandex @@ n2 :> "other" @@ n3 :> ""
=================================================================================
