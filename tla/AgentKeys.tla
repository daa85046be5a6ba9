----------------------------- MODULE AgentKeys -----------------------------
(***************************************************************************)
(* The agent program (cmd/agent/main.go) on every node of a remote         *)
(* cluster: its start-up checks, the election of a leader among the agents *)
(* (pkg/agent/leader) and the SSH key secret pvc-syncer-agent-keys, which  *)
(* the leader and the controller (PushKeysToRemoteCluster) both write.     *)
(*                                                                         *)
(* An agent is three threads: main, leader.Run, and the goroutine that     *)
(* OnStartedLeading starts.  The third is not bound to the leadership it   *)
(* was started under: it uses context.Background(), and losing the lease   *)
(* does not stop it.  The secret is mounted into every agent, so no pod    *)
(* starts without it; the host keys in it come from the controller alone,  *)
(* and CreateKeySecret replaces the whole secret.  The goroutine of        *)
(* ScheduleKeyRotation lives in a context of 30 s, so it ends before its   *)
(* ticker of 24 h first fires and is no part of the state.                 *)
(*                                                                         *)
(* The lease is that of client-go's leader election, in ticks of 5 s.      *)
(***************************************************************************)
EXTENDS Integers

CONSTANTS Agent,        \* the pods of the agent DaemonSet, by name
          MaxMishaps    \* bound on killed agents and deletions of the secret

VARIABLES secret,       \* the key secret: who wrote it, and has it host keys
          main,         \* main's progress
          run,          \* leader.Run's progress
          gen,          \* the goroutine of OnStartedLeading
          lease,        \* its holder and the ticks since it was renewed
          failing,      \* an outage: API calls may fail or lose their answer
          mishaps

vars == <<secret, main, run, gen, lease, failing, mishaps>>
threads == <<main, run, gen>>

Controller == "controller"
Nobody == "nobody"

ASSUME AgentConstants ==
    /\ Controller \notin Agent /\ Nobody \notin Agent
    /\ MaxMishaps \in Nat

\* A plausible bug: the agents campaign under the name of their DaemonSet.
SharedIdentity(a) == "pvc-syncer-agent"

\* The lease names its holder by HOSTNAME: two agents never have the same, and
\* an agent that starts again has the one it had.
Identity(a) == a

LeaseDuration == 3
RenewDeadline == 2

NoSecret == [by |-> Nobody, host |-> FALSE]
Written(a) == [by |-> a, host |-> FALSE]
Pushed == [by |-> Controller, host |-> TRUE]

Exists == secret # NoSecret

-----------------------------------------------------------------------------
(* One agent. *)

\* NewServer finds the host keys and an authorized_keys file, or main exits
\* and the container is started again; InitKeySystem only looks.
Start(a) ==
    /\ main[a] = "down" /\ secret.host
    /\ main' = [main EXCEPT ![a] = "starting"]
    /\ run' = [run EXCEPT ![a] = "check"]
    /\ UNCHANGED <<secret, gen, lease, failing, mishaps>>

\* The process ends, and its threads with it.  With ReleaseOnCancel a leader
\* may still give the lease back.
Exit(a) ==
    /\ main' = [main EXCEPT ![a] = "down"]
    /\ run' = [run EXCEPT ![a] = "off"]
    /\ gen' = [gen EXCEPT ![a] = "idle"]
    /\ \/ UNCHANGED lease
       \/ run[a] = "lead" /\ lease' = [lease EXCEPT !.holder = Nobody]

\* Daemon.Start: verifySetup reads the mounted keys again; the mount may have
\* followed the secret since NewServer looked.
DaemonStart(a) ==
    /\ main[a] = "starting"
    /\ \/ main' = [main EXCEPT ![a] = "serving"] /\ UNCHANGED <<run, gen, lease>>
       \/ ~secret.host /\ Exit(a)
    /\ UNCHANGED <<secret, failing, mishaps>>

\* Run: any error of Get counts as a missing secret.
RunCheck(a) ==
    /\ run[a] = "check"
    /\ \/ Exists /\ run' = [run EXCEPT ![a] = "over"]
       \/ (~Exists \/ failing) /\ run' = [run EXCEPT ![a] = "campaign"]
    /\ UNCHANGED <<secret, main, gen, lease, failing, mishaps>>

\* tryAcquireOrRenew: a lease is free when nobody or this identity holds it,
\* or when it was not renewed for LeaseDuration.
Acquire(a) ==
    /\ run[a] = "campaign"
    /\ lease.holder \in {Nobody, Identity(a)} \/ lease.age >= LeaseDuration
    /\ lease' = [holder |-> Identity(a), age |-> 0]
    /\ run' = [run EXCEPT ![a] = "lead"]
    /\ gen' = [gen EXCEPT ![a] = "create"]
    /\ UNCHANGED <<secret, main, failing, mishaps>>

Renew(a) ==
    /\ run[a] = "lead" /\ lease.age > 0
    /\ lease' = [lease EXCEPT !.age = 0]
    /\ UNCHANGED <<secret, threads, failing, mishaps>>

\* renew gives up after RenewDeadline and, with ReleaseOnCancel, gives the lease
\* back if the call gets through; RunOrDie returns, Run returns, and the agent
\* does not campaign again.
StopLeading(a) ==
    /\ run[a] = "lead" /\ lease.age >= RenewDeadline
    /\ run' = [run EXCEPT ![a] = "over"]
    /\ lease' \in {lease, [lease EXCEPT !.holder = Nobody]}
    /\ UNCHANGED <<secret, main, gen, failing, mishaps>>

\* generateSSHKeys up to the Create of CreateKeySecret; an error is printed
\* and nothing tries again.
CreateKey(a) ==
    /\ gen[a] = "create"
    /\ \/ Exists /\ gen' = [gen EXCEPT ![a] = "update"] /\ UNCHANGED secret
       \/ ~Exists /\ secret' = Written(a) /\ gen' = [gen EXCEPT ![a] = "idle"]
       \/ failing /\ UNCHANGED secret /\ gen' = [gen EXCEPT ![a] = "idle"]
    /\ UNCHANGED <<main, run, lease, failing, mishaps>>

\* The Update after AlreadyExists: it names no version, so whatever is there
\* is replaced; a secret deleted in between is an error.
UpdateKey(a) ==
    /\ gen[a] = "update"
    /\ gen' = [gen EXCEPT ![a] = "idle"]
    /\ \/ Exists /\ secret' = Written(a)
       \/ (~Exists \/ failing) /\ UNCHANGED secret
    /\ UNCHANGED <<main, run, lease, failing, mishaps>>

-----------------------------------------------------------------------------
(* The controller, the kubelet, administrators and the clock. *)

\* A plausible bug: a secret that is there is left as it is.
PushKeysOnce ==
    /\ ~Exists /\ secret' = Pushed
    /\ UNCHANGED <<threads, lease, failing, mishaps>>

\* PushKeysToRemoteCluster, in every deployment of the agent: the secret of the
\* controller cluster replaces the data of the one found here.
PushKeys ==
    /\ secret # Pushed /\ secret' = Pushed
    /\ UNCHANGED <<threads, lease, failing, mishaps>>

Mishap == mishaps < MaxMishaps /\ mishaps' = mishaps + 1

\* An agent is killed, or gets SIGTERM and returns from main.
Kill(a) ==
    /\ main[a] # "down" /\ Mishap /\ Exit(a)
    /\ UNCHANGED <<secret, failing>>

DeleteSecret ==
    /\ Exists /\ Mishap /\ secret' = NoSecret
    /\ UNCHANGED <<threads, lease, failing>>

Outage ==
    /\ failing' = ~failing
    /\ UNCHANGED <<secret, threads, lease, mishaps>>

\* A leader that lives gives up in time: it never sleeps over its deadline, and
\* the clocks of the nodes run at the same pace, as client-go assumes.
Tick ==
    /\ lease.age < LeaseDuration
    /\ \A a \in Agent : run[a] = "lead" => lease.age < RenewDeadline
    /\ lease' = [lease EXCEPT !.age = @ + 1]
    /\ UNCHANGED <<secret, threads, failing, mishaps>>

Init ==
    /\ secret = NoSecret
    /\ main = [a \in Agent |-> "down"]
    /\ run = [a \in Agent |-> "off"]
    /\ gen = [a \in Agent |-> "idle"]
    /\ lease = [holder |-> Nobody, age |-> LeaseDuration]
    /\ failing = FALSE
    /\ mishaps = 0

AgentStep(a) ==
    \/ Start(a) \/ DaemonStart(a) \/ RunCheck(a)
    \/ Acquire(a) \/ Renew(a) \/ StopLeading(a)
    \/ CreateKey(a) \/ UpdateKey(a)

Next ==
    \/ \E a \in Agent : AgentStep(a) \/ Kill(a)
    \/ PushKeys \/ DeleteSecret \/ Outage \/ Tick

Spec == Init /\ [][Next]_vars

\* Every thread of an agent keeps running, the kubelet starts a pod that ended
\* again, and the RemoteCluster controller deploys the agent again and again.
FairSpec ==
    /\ Spec
    /\ \A a \in Agent :
         /\ WF_vars(Start(a)) /\ WF_vars(DaemonStart(a)) /\ WF_vars(RunCheck(a))
         /\ WF_vars(CreateKey(a)) /\ WF_vars(UpdateKey(a))
    /\ WF_vars(PushKeys)

-----------------------------------------------------------------------------
Leaders == {a \in Agent : run[a] = "lead"}

Election == INSTANCE Lease WITH Client <- Agent, holders <- Leaders

\* The election that Run configures implements Lease: at most one agent believes
\* that it leads, and it began when no other did.  Agents are told apart by
\* HOSTNAME, so a pod that starts again takes its own lease back and no other's;
\* a leader that cannot renew is told to stop before LeaseDuration lets another
\* one in, with the lease given back or not.
ElectionIsLease == Election!Spec

\* Whatever outages, deposed leaders that still write, and deletions did to the
\* secret, once API calls succeed it ends as the one with host keys that the
\* controller pushes, and every agent ends up serving: a leader's key, which
\* has no host keys and keeps agents from starting, does not stay.
AgentsRecover ==
    <>[]~failing => <>[](secret = Pushed /\ \A a \in Agent : main[a] = "serving")
=============================================================================
