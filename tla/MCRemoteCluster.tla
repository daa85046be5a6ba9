--------------------------- MODULE MCRemoteCluster ---------------------------
(* One RemoteCluster; the bounds are in the configurations. *)
EXTENDS RemoteCluster
=============================================================================
