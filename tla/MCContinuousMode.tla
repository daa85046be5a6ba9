-------------------------- MODULE MCContinuousMode --------------------------
(* A loop alone, or with an informer for deployments.  Claims are only copied *)
(* by the passes. *)
EXTENDS ContinuousMode

MCSpecs == {[types |-> <<>>, background |-> TRUE],
            [types |-> <<"deployments">>, background |-> TRUE]}
MCWorkers == 1 .. MaxWorkers
=============================================================================
