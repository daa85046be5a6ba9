------------------------------- MODULE Lease -------------------------------
(***************************************************************************)
(* What a lease promises, without the record that names its owner, its     *)
(* timestamp and the calls that read and write them: whoever takes it      *)
(* finds it free, and it is free again once its holder gives it up, dies   *)
(* or lets it expire.  The lock on a PVC (RsyncWorkflow.tla) and the       *)
(* election among the agents (AgentKeys.tla) are such leases.              *)
(***************************************************************************)
CONSTANT Client

VARIABLE holders    \* the clients that may rely on the lease

Init == holders = {}

Take(c) == holders = {} /\ holders' = {c}

End == holders # {} /\ holders' = {}

Next == End \/ \E c \in Client : Take(c)

Spec == Init /\ [][Next]_holders
=============================================================================
