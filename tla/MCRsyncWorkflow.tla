-------------------------- MODULE MCRsyncWorkflow --------------------------
(* Instances of RsyncWorkflow: each workflow in a controller pod of its own. *)
EXTENDS RsyncWorkflow, TLC

OwnPods == [w \in Workflow |-> w]

PodSymmetry == Permutations(Workflow)
=============================================================================
