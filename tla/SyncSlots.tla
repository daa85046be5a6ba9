----------------------------- MODULE SyncSlots -----------------------------
(***************************************************************************)
(* What a concurrency manager promises, without its semaphore, queue and   *)
(* counters: goroutines ask for a slot, at most `limit' are inside, and a  *)
(* slot given up may go straight to one that waits.                        *)
(***************************************************************************)
EXTENDS Integers, FiniteSets

CONSTANT Syncer

VARIABLES limit,    \* 0 until the manager is created, fixed from then on
          waiting, inside

vars == <<limit, waiting, inside>>

Init == limit = 0 /\ waiting = {} /\ inside = {}

Open ==
    /\ limit = 0
    /\ limit' \in Nat \ {0}
    /\ UNCHANGED <<waiting, inside>>

Ask(s) ==
    /\ limit # 0
    /\ s \notin waiting \cup inside
    /\ waiting' = waiting \cup {s}
    /\ UNCHANGED <<limit, inside>>

Enter(s) ==
    /\ s \in waiting
    /\ Cardinality(inside) < limit
    /\ waiting' = waiting \ {s}
    /\ inside' = inside \cup {s}
    /\ UNCHANGED limit

GiveUp(s) ==
    /\ s \in waiting
    /\ waiting' = waiting \ {s}
    /\ UNCHANGED <<limit, inside>>

Leave(s) ==
    /\ s \in inside
    /\ inside' = inside \ {s}
    /\ UNCHANGED <<limit, waiting>>

HandOver(s, t) ==
    /\ s \in inside /\ t \in waiting
    /\ inside' = (inside \ {s}) \cup {t}
    /\ waiting' = waiting \ {t}
    /\ UNCHANGED limit

Next ==
    \/ Open
    \/ \E s \in Syncer : Ask(s) \/ Enter(s) \/ GiveUp(s) \/ Leave(s)
    \/ \E s, t \in Syncer : HandOver(s, t)

Spec == Init /\ [][Next]_vars
=============================================================================
