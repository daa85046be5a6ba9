------------------------ MODULE MCGlobalConcurrency ------------------------
(* Three goroutines; the limits are in the configuration. *)
EXTENDS GlobalConcurrency
=============================================================================
