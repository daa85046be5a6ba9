--------------------------- MODULE MCRsyncTransfer ---------------------------
(* The bounds are in the configuration. *)
EXTENDS RsyncTransfer
=============================================================================
