-------------------------- MODULE MCClusterMapping --------------------------
(***************************************************************************)
(* Two target agents and one source.  Failure counts 0 and 1 stand for     *)
(* none and some; the delays of the second are those CalculateBackoff      *)
(* gives for every count from 1 on, one tick each, and no wait at all      *)
(* where the arithmetic has wrapped to zero or less.                       *)
(***************************************************************************)
EXTENDS ClusterMapping

\* Every answer of the clusters; links to all, some and none of the targets.
Links ==
    LET all == Target \X Source
    IN  {all, {}, {CHOOSE pair \in all : TRUE}}
FewWorlds ==
    {<<"missing", {}>>, <<"unreachable", {}>>, <<"keyless", Target \X Source>>}
        \cup {<<"ready", l>> : l \in Links}

BackoffTicks == [n \in 0..1 |-> IF n = 0 THEN {0} ELSE {0, 1}]

Ticks(ns) == {IF d <= 0 THEN 0 ELSE 1 : d \in DelaysFor(ns)}

ASSUME TicksOfCalculateBackoff ==
    BackoffTicks[0] = Ticks({0}) /\ BackoffTicks[1] = Ticks(Counts \ {0})
=============================================================================
