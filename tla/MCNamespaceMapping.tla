------------------------ MODULE MCNamespaceMapping ------------------------
(* Two ticks between runs, two retries, a backoff of at most three ticks. *)
EXTENDS NamespaceMapping
=============================================================================
