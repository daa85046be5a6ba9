----------------------------- MODULE MCCLIModes -----------------------------
(* One Deployment and one StatefulSet with up to two replicas each. *)
EXTENDS CLIModes, TLC

CONSTANTS web, db

KindOf == web :> "Deployment" @@ db :> "StatefulSet"
=============================================================================
