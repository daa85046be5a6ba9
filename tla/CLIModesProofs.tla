--------------------------- MODULE CLIModesProofs ---------------------------
(***************************************************************************)
(* Proofs about Stage, Cutover and Failback, for any workloads and counts  *)
(* and any sequence of runs, kills and failures.                           *)
(*                                                                         *)
(* The argument: a phase is through with a workload when it is no longer   *)
(* in the plan, or is the current one and has the workload behind it; what *)
(* a phase does to a workload then stays done until the run ends, because  *)
(* the phases that could undo it come earlier or belong to other modes.    *)
(***************************************************************************)
EXTENDS CLIModes, SequenceTheorems, TLAPS

ModeNames == {"Stage", "Cutover", "Failback"}
KindNames == {"Deployment", "StatefulSet"}

\* The phases of each mode; "migrate" is there on request.
PhasesOf(m) ==
    {"start", "migrate"} \cup
        CASE m = "Stage" -> {"sync", "scaleDest"}
          [] m = "Cutover" -> {"sync", "annotate", "scaleSource", "restoreDest"}
          [] m = "Failback" -> {"scaleDest", "restoreSource"}

Step == (PhasesOf("Stage") \cup PhasesOf("Cutover") \cup PhasesOf("Failback"))
            \X (KindNames \cup {"none", "pvc"})

Elements(s) == {s[i] : i \in 1..Len(s)}

\* For the same kind, phase a comes before phase b in s, which has b if it has a.
Ordered(s, a, b) ==
    \A k \in KindNames, i \in 1..Len(s) : s[i] = <<a, k>> =>
        /\ \E j \in 1..Len(s) : j > i /\ s[j] = <<b, k>>
        /\ \A j \in 1..Len(s) : s[j] = <<b, k>> => j > i

\* The order of phases that the modes rely on.
GoodPlan(m, s) ==
    /\ s \in Seq(Step)
    /\ \A p \in Elements(s) : p[1] \in PhasesOf(m)
    /\ m = "Stage" => Ordered(s, "sync", "scaleDest")
    /\ m = "Cutover" => /\ \A a \in {"sync", "annotate", "scaleSource"} :
                              Ordered(s, a, "restoreDest")
                        /\ Ordered(s, "annotate", "scaleSource")

Counts == [Workload -> Count \cup {Absent}]

\* Counts at the source and the destination, and the source's annotation.
Src(w) == replicas["source"][w]
Dst(w) == replicas["dest"][w]
Noted(w) == note["source"][w]

Types ==
    /\ replicas \in [Side -> Counts] /\ note \in [Side -> Counts]
    /\ wanted \in [Workload -> Count]
    /\ \A w \in Workload : Src(w) \in Count
    /\ mode \in ModeNames \cup {"idle"}

PlanInv ==
    /\ mode = "idle" => plan = <<>> /\ todo = {}
    /\ mode # "idle" =>
         /\ plan # <<>> /\ GoodPlan(mode, plan)
         /\ todo \subseteq {w \in Workload : Kind[w] = Head(plan)[2]}

\* The current run is through with the given phase for workload w.
Through(phase, w) ==
    \/ <<phase, Kind[w]>> \notin Elements(plan)
    \/ Head(plan) = <<phase, Kind[w]>> /\ w \notin todo

\* No annotation failed or grew stale; no call that makes or stops copies failed;
\* no call failed, and no annotation grew stale.
Calm == trouble \cap {"annotate", "stale"} = {}
Reliable == trouble \cap {"list", "sync", "scaleDest"} = {}
Faultless == trouble \subseteq {"rescale"}

\* The source's count is the one asked for until it is annotated, and then the
\* annotation is.
SourceInv ==
    Calm => \A w \in Workload : \/ Noted(w) = Absent /\ Src(w) = wanted[w]
                                \/ Noted(w) = wanted[w] /\ Src(w) \in {0, wanted[w]}

\* What the phases of Cutover have done at the source.
StopInv ==
    mode = "Cutover" => \A w \in Workload :
        /\ Calm /\ Through("annotate", w) => Noted(w) # Absent
        /\ "scaleSource" \notin trouble /\ Through("scaleSource", w) => Src(w) = 0

\* What the phases that create and stop copies have done.
CopyInv ==
    Reliable => \A w \in Workload :
        /\ mode \in {"Stage", "Cutover"} /\ ~singular /\ Through("sync", w) =>
              Dst(w) # Absent
        /\ mode \in {"Stage", "Failback"} /\ Through("scaleDest", w) => Dst(w) \in {0, Absent}

\* What the phases that restore counts have done.
RestoreInv ==
    Faultless => \A w \in Workload :
        /\ mode = "Cutover" /\ Through("restoreDest", w) => Dst(w) \in {wanted[w], Absent}
        /\ mode = "Failback" /\ Through("restoreSource", w) => Src(w) = wanted[w]

\* The successes reported.
ReportInv == SuccessMeansMoved /\ StageCopies

Inv ==
    Types /\ PlanInv /\ SourceInv /\ StopInv /\ CopyInv /\ RestoreInv /\ ReportInv

-----------------------------------------------------------------------------
(* Plans. *)

\* c is s followed by t, index by index.
Joins(c, s, t) ==
    /\ Len(s) \in Nat /\ Len(t) \in Nat /\ Len(c) = Len(s) + Len(t)
    /\ \A i \in 1..Len(s) : c[i] = s[i]
    /\ \A i \in 1..Len(t) : c[Len(s) + i] = t[i]

\* That is what concatenation does.
LEMMA ConcatJoins ==
    ASSUME NEW S, NEW s \in Seq(S), NEW t \in Seq(S)
    PROVE  s \o t \in Seq(S) /\ Joins(s \o t, s, t)
BY ConcatProperties, LenProperties DEF Joins

\* An index of the whole is one of the first or of the second part.
LEMMA JoinsIndex ==
    ASSUME NEW c, NEW s, NEW t, Joins(c, s, t), NEW i \in 1..Len(c)
    PROVE  \/ i \in 1..Len(s) /\ c[i] = s[i] /\ c[i] \in Elements(s)
           \/ i - Len(s) \in 1..Len(t) /\ c[i] = t[i - Len(s)] /\ c[i] \in Elements(t)
<1>1. CASE i <= Len(s)
  BY <1>1 DEF Joins, Elements
<1>2. CASE i > Len(s)
  <2> DEFINE j == i - Len(s)
  <2>1. j \in 1..Len(t) /\ i = Len(s) + j
    BY <1>2 DEF Joins
  <2> HIDE DEF j
  <2>2. c[i] = t[j]
    BY <2>1 DEF Joins
  <2> QED
    BY <2>1, <2>2 DEF Elements, j
<1> QED
  BY <1>1, <1>2 DEF Joins

\* The elements of the whole are those of the parts.
LEMMA JoinsElements ==
    ASSUME NEW c, NEW s, NEW t, Joins(c, s, t)
    PROVE  Elements(c) = Elements(s) \cup Elements(t)
<1>1. \A i \in 1..Len(s) : i \in 1..Len(c) /\ c[i] = s[i]
  BY DEF Joins
<1>2. \A i \in 1..Len(t) : Len(s) + i \in 1..Len(c) /\ c[Len(s) + i] = t[i]
  BY DEF Joins
<1>3. ASSUME NEW x \in Elements(c)
      PROVE  x \in Elements(s) \cup Elements(t)
  <2>1. PICK i \in 1..Len(c) : x = c[i]
    BY DEF Elements
  <2> QED
    BY <2>1, JoinsIndex
<1>4. ASSUME NEW x \in Elements(s)
      PROVE  x \in Elements(c)
  BY <1>1 DEF Elements
<1>5. ASSUME NEW x \in Elements(t)
      PROVE  x \in Elements(c)
  <2>1. PICK i \in 1..Len(t) : x = t[i]
    BY DEF Elements
  <2> QED
    BY <1>2, <2>1 DEF Elements
<1> QED
  BY <1>3, <1>4, <1>5

\* The same for concatenations.
LEMMA ConcatElements ==
    ASSUME NEW S, NEW s \in Seq(S), NEW t \in Seq(S)
    PROVE  s \o t \in Seq(S) /\ Elements(s \o t) = Elements(s) \cup Elements(t)
BY ConcatJoins, JoinsElements

\* An order within one part is that of the whole if the other has neither phase.
LEMMA OrderedFirst ==
    ASSUME NEW c, NEW s, NEW t, Joins(c, s, t), NEW a, NEW b, Ordered(s, a, b),
           \A k \in KindNames : <<a, k>> \notin Elements(t) /\ <<b, k>> \notin Elements(t)
    PROVE  Ordered(c, a, b)
<1> SUFFICES ASSUME NEW k \in KindNames, NEW i \in 1..Len(c), c[i] = <<a, k>>
             PROVE  /\ \E j \in 1..Len(c) : j > i /\ c[j] = <<b, k>>
                    /\ \A j \in 1..Len(c) : c[j] = <<b, k>> => j > i
  BY DEF Ordered
<1>0. c[i] \notin Elements(t) /\ c[i] = <<a, k>>
  OBVIOUS
<1>1. i \in 1..Len(s) /\ s[i] = <<a, k>>
  BY <1>0, JoinsIndex
<1>2. PICK j \in 1..Len(s) : j > i /\ s[j] = <<b, k>>
  BY <1>1 DEF Ordered
<1>3. j \in 1..Len(c) /\ c[j] = <<b, k>>
  BY <1>2 DEF Joins
<1>4. ASSUME NEW x \in 1..Len(c), c[x] = <<b, k>>
      PROVE  x > i
  <2>0. c[x] \notin Elements(t)
    BY <1>4
  <2>1. x \in 1..Len(s) /\ s[x] = <<b, k>>
    BY <1>4, <2>0, JoinsIndex
  <2> QED
    BY <1>1, <2>1 DEF Ordered
<1> QED
  BY <1>2, <1>3, <1>4

\* The same for an order within the second part.
LEMMA OrderedSecond ==
    ASSUME NEW c, NEW s, NEW t, Joins(c, s, t), NEW a, NEW b, Ordered(t, a, b),
           \A k \in KindNames : <<a, k>> \notin Elements(s) /\ <<b, k>> \notin Elements(s)
    PROVE  Ordered(c, a, b)
<1> SUFFICES ASSUME NEW k \in KindNames, NEW i \in 1..Len(c), c[i] = <<a, k>>
             PROVE  /\ \E j \in 1..Len(c) : j > i /\ c[j] = <<b, k>>
                    /\ \A j \in 1..Len(c) : c[j] = <<b, k>> => j > i
  BY DEF Ordered
<1> DEFINE n == Len(s)
<1>0. c[i] \notin Elements(s) /\ c[i] = <<a, k>> /\ n \in Nat
  BY DEF Joins
<1>1. i - n \in 1..Len(t) /\ t[i - n] = <<a, k>>
  BY <1>0, JoinsIndex
<1>2. PICK j \in 1..Len(t) : j > i - n /\ t[j] = <<b, k>>
  BY <1>1 DEF Ordered
<1>3. n + j \in 1..Len(c) /\ c[n + j] = <<b, k>>
  BY <1>2 DEF Joins
<1>4. ASSUME NEW x \in 1..Len(c), c[x] = <<b, k>>
      PROVE  x > i
  <2>1. c[x] \notin Elements(s)
    BY <1>4
  <2>2. c[x] \in Elements(s) \/ (x - n \in 1..Len(t) /\ c[x] = t[x - n])
    BY JoinsIndex
  <2>3. x - n \in 1..Len(t) /\ t[x - n] = <<b, k>>
    BY <1>4, <2>1, <2>2
  <2>4. \A y \in 1..Len(t) : t[y] = <<b, k>> => y > i - n
    <3> DEFINE d == i - n
    <3>1. d \in 1..Len(t) /\ t[d] = <<a, k>>
      BY <1>1
    <3> HIDE DEF d
    <3>2. \A y \in 1..Len(t) : t[y] = <<b, k>> => y > d
      BY <3>1 DEF Ordered
    <3> QED
      BY <3>2 DEF d
  <2>5. x - n > i - n
    BY <2>3, <2>4, Zenon
  <2>6. x \in Nat /\ i \in Nat
    BY <1>4
  <2> QED
    BY <1>0, <2>5, <2>6
<1>5. n + j > i
  BY <1>0, <1>1, <1>2
<1> QED
  BY <1>3, <1>4, <1>5

\* What has no b, followed by what has no a but every b.
LEMMA OrderedAcross ==
    ASSUME NEW c, NEW s, NEW t, Joins(c, s, t), NEW a, NEW b,
           \A k \in KindNames : /\ <<b, k>> \notin Elements(s)
                                /\ <<a, k>> \notin Elements(t) /\ <<b, k>> \in Elements(t)
    PROVE  Ordered(c, a, b)
<1> SUFFICES ASSUME NEW k \in KindNames, NEW i \in 1..Len(c), c[i] = <<a, k>>
             PROVE  /\ \E j \in 1..Len(c) : j > i /\ c[j] = <<b, k>>
                    /\ \A j \in 1..Len(c) : c[j] = <<b, k>> => j > i
  BY DEF Ordered
<1> DEFINE n == Len(s)
<1>0. c[i] \notin Elements(t) /\ n \in Nat
  BY DEF Joins
<1>1. i \in 1..n
  BY <1>0, JoinsIndex
<1>2. PICK j \in 1..Len(t) : t[j] = <<b, k>>
  BY DEF Elements
<1>3. n + j \in 1..Len(c) /\ c[n + j] = <<b, k>> /\ n + j > i
  BY <1>0, <1>1, <1>2 DEF Joins
<1>4. ASSUME NEW x \in 1..Len(c), c[x] = <<b, k>>
      PROVE  x > i
  <2>0. c[x] \notin Elements(s)
    BY <1>4
  <2>1. x - n \in 1..Len(t)
    BY <2>0, JoinsIndex
  <2> QED
    BY <1>0, <1>1, <2>1
<1> QED
  BY <1>3, <1>4

\* The parts the plans are made of.
LEMMA Parts ==
    /\ <<<<"start", "none">>>> \in Seq(Step)
    /\ Elements(<<<<"start", "none">>>>) = {<<"start", "none">>}
    /\ \A b \in BOOLEAN : /\ Migration(b) \in Seq(Step)
                           /\ Elements(Migration(b)) \subseteq {<<"migrate", "pvc">>}
    /\ \A m \in ModeNames : \A p \in PhasesOf(m) :
           /\ BothKinds(p) \in Seq(Step)
           /\ Elements(BothKinds(p)) = {<<p, k>> : k \in KindNames}
<1>1. /\ <<"start", "none">> \in Step /\ <<"migrate", "pvc">> \in Step
      /\ \A m \in ModeNames : \A p \in PhasesOf(m), k \in KindNames : <<p, k>> \in Step
  BY DEF Step, PhasesOf, KindNames, ModeNames
<1>2. \A x : x \in Step => <<x>> \in Seq(Step) /\ Elements(<<x>>) = {x}
  BY DEF Elements
<1>3. \A x, y : x \in Step /\ y \in Step =>
          <<x, y>> \in Seq(Step) /\ Elements(<<x, y>>) = {x, y}
  BY DEF Elements
<1>4. <<>> \in Seq(Step) /\ Elements(<<>>) = {}
  BY DEF Elements
<1>5. ASSUME NEW m \in ModeNames, NEW p \in PhasesOf(m)
      PROVE  /\ BothKinds(p) \in Seq(Step)
             /\ Elements(BothKinds(p)) = {<<p, k>> : k \in KindNames}
  <2>1. BothKinds(p) = <<<<p, "Deployment">>, <<p, "StatefulSet">>>>
    BY DEF BothKinds, Kinds
  <2> QED
    BY <1>1, <1>3, <2>1 DEF KindNames
<1> QED
  BY <1>1, <1>2, <1>4, <1>5 DEF Migration

\* A new plan: it has every phase of its mode ahead.
Fresh(m, s) ==
    /\ GoodPlan(m, s) /\ s # <<>> /\ Head(s) = <<"start", "none">>
    /\ \A phase \in PhasesOf(m) \ {"start", "migrate"}, k \in KindNames :
           <<phase, k>> \in Elements(s)

\* Every plan begins with the start of the mode.
LEMMA StartsFresh ==
    ASSUME NEW t \in Seq(Step), NEW c, c = <<<<"start", "none">>>> \o t
    PROVE  c # <<>> /\ Head(c) = <<"start", "none">>
<1> DEFINE st == <<<<"start", "none">>>>
<1>1. st \in Seq(Step) /\ Len(st) = 1 /\ st[1] = <<"start", "none">>
  BY Parts
<1> HIDE DEF st
<1>2. c \in Seq(Step) /\ Joins(c, st, t) /\ c = st \o t
  BY <1>1, ConcatJoins DEF st
<1>3. Len(c) \in Nat /\ Len(c) > 0 /\ c[1] = <<"start", "none">>
  BY <1>1, <1>2 DEF Joins
<1> QED
  BY <1>2, <1>3, EmptySeq, HeadTailProperties

\* The plan of Stage: copies are made before they are stopped.
LEMMA StagePlan ==
    ASSUME NEW b \in BOOLEAN
    PROVE  Fresh("Stage", <<<<"start", "none">>>> \o Phases("Stage", b))
<1> DEFINE st == <<<<"start", "none">>>>
           sy == BothKinds("sync")
           sd == BothKinds("scaleDest")
           m == Migration(b)
           c1 == sy \o sd
           c2 == c1 \o m
           c3 == st \o c2
<1>1. /\ st \in Seq(Step) /\ Elements(st) = {<<"start", "none">>}
      /\ sy \in Seq(Step) /\ Elements(sy) = {<<"sync", k>> : k \in KindNames}
      /\ sd \in Seq(Step) /\ Elements(sd) = {<<"scaleDest", k>> : k \in KindNames}
      /\ m \in Seq(Step) /\ Elements(m) \subseteq {<<"migrate", "pvc">>}
  BY Parts DEF ModeNames, PhasesOf
<1>2. c3 = st \o Phases("Stage", b)
  BY DEF Phases
<1> HIDE DEF st, sy, sd, m
<1>3. /\ c1 \in Seq(Step) /\ Joins(c1, sy, sd) /\ Elements(c1) = Elements(sy) \cup Elements(sd)
  BY <1>1, ConcatJoins, JoinsElements
<1> HIDE DEF c1
<1>4. /\ c2 \in Seq(Step) /\ Joins(c2, c1, m) /\ Elements(c2) = Elements(c1) \cup Elements(m)
  BY <1>1, <1>3, ConcatJoins, JoinsElements
<1> HIDE DEF c2
<1>5. /\ c3 \in Seq(Step) /\ Joins(c3, st, c2) /\ Elements(c3) = Elements(st) \cup Elements(c2)
  BY <1>1, <1>4, ConcatJoins, JoinsElements
<1> HIDE DEF c3
<1>6. \A p \in Elements(c3) : p[1] \in PhasesOf("Stage")
  BY <1>1, <1>3, <1>4, <1>5 DEF PhasesOf
<1>7. Ordered(c1, "sync", "scaleDest")
  BY <1>1, <1>3, OrderedAcross
<1>8. Ordered(c2, "sync", "scaleDest")
  BY <1>1, <1>4, <1>7, OrderedFirst
<1>9. Ordered(c3, "sync", "scaleDest")
  <2>1. \A k \in KindNames : /\ <<"sync", k>> \notin Elements(st)
                             /\ <<"scaleDest", k>> \notin Elements(st)
    BY <1>1
  <2> QED
    BY <1>5, <1>8, <2>1, OrderedSecond
<1>10. GoodPlan("Stage", c3)
  BY <1>5, <1>6, <1>9 DEF GoodPlan
<1>11. c3 # <<>> /\ Head(c3) = <<"start", "none">>
  BY <1>4, StartsFresh DEF c3, st
<1>12. \A phase \in PhasesOf("Stage") \ {"start", "migrate"}, k \in KindNames :
         <<phase, k>> \in Elements(c3)
  BY <1>1, <1>3, <1>4, <1>5 DEF PhasesOf
<1>13. Fresh("Stage", c3)
  BY <1>10, <1>11, <1>12 DEF Fresh
<1> QED
  BY <1>2, <1>13 DEF st

\* The plan of Failback.
LEMMA FailbackPlan ==
    ASSUME NEW b \in BOOLEAN
    PROVE  Fresh("Failback", <<<<"start", "none">>>> \o Phases("Failback", b))
<1> DEFINE st == <<<<"start", "none">>>>
           m == Migration(b)
           sd == BothKinds("scaleDest")
           rs == BothKinds("restoreSource")
           c1 == m \o sd
           c2 == c1 \o rs
           c3 == st \o c2
<1>1. /\ st \in Seq(Step) /\ Elements(st) = {<<"start", "none">>}
      /\ sd \in Seq(Step) /\ Elements(sd) = {<<"scaleDest", k>> : k \in KindNames}
      /\ rs \in Seq(Step) /\ Elements(rs) = {<<"restoreSource", k>> : k \in KindNames}
      /\ m \in Seq(Step) /\ Elements(m) \subseteq {<<"migrate", "pvc">>}
  BY Parts DEF ModeNames, PhasesOf
<1>2. c3 = st \o Phases("Failback", b)
  BY DEF Phases
<1> HIDE DEF st, m, sd, rs
<1>3. c1 \in Seq(Step) /\ Elements(c1) = Elements(m) \cup Elements(sd)
  BY <1>1, ConcatElements
<1> HIDE DEF c1
<1>4. c2 \in Seq(Step) /\ Elements(c2) = Elements(c1) \cup Elements(rs)
  BY <1>1, <1>3, ConcatElements
<1> HIDE DEF c2
<1>5. c3 \in Seq(Step) /\ Elements(c3) = Elements(st) \cup Elements(c2)
  BY <1>1, <1>4, ConcatElements
<1> HIDE DEF c3
<1>6. \A p \in Elements(c3) : p[1] \in PhasesOf("Failback")
  BY <1>1, <1>3, <1>4, <1>5 DEF PhasesOf
<1>7. GoodPlan("Failback", c3)
  BY <1>5, <1>6 DEF GoodPlan
<1>8. c3 # <<>> /\ Head(c3) = <<"start", "none">>
  BY <1>4, StartsFresh DEF c3, st
<1>9. \A phase \in PhasesOf("Failback") \ {"start", "migrate"}, k \in KindNames :
         <<phase, k>> \in Elements(c3)
  BY <1>1, <1>3, <1>4, <1>5 DEF PhasesOf
<1>10. Fresh("Failback", c3)
  BY <1>7, <1>8, <1>9 DEF Fresh
<1> QED
  BY <1>2, <1>10 DEF st

\* The plan of Cutover: copied, annotated, stopped at the source, then started.
LEMMA CutoverPlan ==
    ASSUME NEW b \in BOOLEAN
    PROVE  Fresh("Cutover", <<<<"start", "none">>>> \o Phases("Cutover", b))
<1> DEFINE st == <<<<"start", "none">>>>
           sy == BothKinds("sync")
           an == BothKinds("annotate")
           ss == BothKinds("scaleSource")
           rd == BothKinds("restoreDest")
           m == Migration(b)
           c1 == sy \o an
           c2 == c1 \o ss
           c3 == c2 \o rd
           c4 == c3 \o m
           c5 == st \o c4
<1>1. /\ st \in Seq(Step) /\ Elements(st) = {<<"start", "none">>}
      /\ sy \in Seq(Step) /\ Elements(sy) = {<<"sync", k>> : k \in KindNames}
      /\ an \in Seq(Step) /\ Elements(an) = {<<"annotate", k>> : k \in KindNames}
      /\ ss \in Seq(Step) /\ Elements(ss) = {<<"scaleSource", k>> : k \in KindNames}
      /\ rd \in Seq(Step) /\ Elements(rd) = {<<"restoreDest", k>> : k \in KindNames}
      /\ m \in Seq(Step) /\ Elements(m) \subseteq {<<"migrate", "pvc">>}
  BY Parts DEF ModeNames, PhasesOf
<1>2. c5 = st \o Phases("Cutover", b)
  BY DEF Phases
<1> HIDE DEF st, sy, an, ss, rd, m
<1>3. c1 \in Seq(Step) /\ Elements(c1) = Elements(sy) \cup Elements(an)
  BY <1>1, ConcatElements
<1> HIDE DEF c1
<1>4. c2 \in Seq(Step) /\ Joins(c2, c1, ss) /\ Elements(c2) = Elements(c1) \cup Elements(ss)
  BY <1>1, <1>3, ConcatJoins, JoinsElements
<1> HIDE DEF c2
<1>5. c3 \in Seq(Step) /\ Joins(c3, c2, rd) /\ Elements(c3) = Elements(c2) \cup Elements(rd)
  BY <1>1, <1>4, ConcatJoins, JoinsElements
<1> HIDE DEF c3
<1>6. c4 \in Seq(Step) /\ Joins(c4, c3, m) /\ Elements(c4) = Elements(c3) \cup Elements(m)
  BY <1>1, <1>5, ConcatJoins, JoinsElements
<1> HIDE DEF c4
<1>7. c5 \in Seq(Step) /\ Joins(c5, st, c4) /\ Elements(c5) = Elements(st) \cup Elements(c4)
  BY <1>1, <1>6, ConcatJoins, JoinsElements
<1> HIDE DEF c5
<1>8. \A p \in Elements(c5) : p[1] \in PhasesOf("Cutover")
  BY <1>1, <1>3, <1>4, <1>5, <1>6, <1>7 DEF PhasesOf
<1>9. Ordered(c3, "annotate", "scaleSource")
  <2>1. Ordered(c2, "annotate", "scaleSource")
    BY <1>1, <1>3, <1>4, OrderedAcross
  <2> QED
    BY <1>1, <1>5, <2>1, OrderedFirst
<1>10. \A a \in {"sync", "annotate", "scaleSource"} : Ordered(c3, a, "restoreDest")
  BY <1>1, <1>3, <1>4, <1>5, OrderedAcross
<1>11. ASSUME NEW a \in {"sync", "annotate", "scaleSource"},
              NEW x \in {"scaleSource", "restoreDest"}, Ordered(c3, a, x)
       PROVE  Ordered(c5, a, x)
  <2>1. \A k \in KindNames : /\ <<a, k>> \notin Elements(m) /\ <<x, k>> \notin Elements(m)
                             /\ <<a, k>> \notin Elements(st) /\ <<x, k>> \notin Elements(st)
    BY <1>1
  <2>2. Ordered(c4, a, x)
    BY <1>6, <1>11, <2>1, OrderedFirst
  <2> QED
    BY <1>7, <2>1, <2>2, OrderedSecond
<1>12. GoodPlan("Cutover", c5)
  BY <1>7, <1>8, <1>9, <1>10, <1>11 DEF GoodPlan
<1>13. c5 # <<>> /\ Head(c5) = <<"start", "none">>
  BY <1>6, StartsFresh DEF c5, st
<1>14. \A phase \in PhasesOf("Cutover") \ {"start", "migrate"}, k \in KindNames :
         <<phase, k>> \in Elements(c5)
  BY <1>1, <1>3, <1>4, <1>5, <1>6, <1>7 DEF PhasesOf
<1>15. Fresh("Cutover", c5)
  BY <1>12, <1>13, <1>14 DEF Fresh
<1> QED
  BY <1>2, <1>15 DEF st

\* A plan stays good as phases are taken off it, ...
LEMMA TailPlan ==
    ASSUME NEW m, NEW s, GoodPlan(m, s), s # <<>>
    PROVE  GoodPlan(m, Tail(s)) /\ Elements(s) = Elements(Tail(s)) \cup {Head(s)}
<1> DEFINE t == Tail(s)
<1>1. /\ s \in Seq(Step) /\ Len(s) \in Nat /\ Len(s) > 0
      /\ t \in Seq(Step) /\ Len(t) = Len(s) - 1
      /\ \A i \in 1..Len(t) : t[i] = s[i + 1]
      /\ Head(s) = s[1]
  BY HeadTailProperties, LenProperties, EmptySeq DEF GoodPlan
<1> HIDE DEF t
<1>2. Elements(s) = Elements(t) \cup {s[1]}
  <2>1. ASSUME NEW i \in 1..Len(s), i # 1
        PROVE  s[i] \in Elements(t)
    <3>1. i - 1 \in 1..Len(t) /\ t[i - 1] = s[i]
      BY <1>1, <2>1
    <3> QED
      BY <3>1 DEF Elements
  <2>2. \A i \in 1..Len(t) : t[i] \in Elements(s)
    <3>1. \A i \in 1..Len(t) : i + 1 \in 1..Len(s) /\ t[i] = s[i + 1]
      BY <1>1
    <3> QED
      BY <3>1 DEF Elements
  <2>3. s[1] \in Elements(s)
    BY <1>1 DEF Elements
  <2> QED
    BY <2>1, <2>2, <2>3 DEF Elements
<1>3. ASSUME NEW a, NEW b, Ordered(s, a, b)
      PROVE  Ordered(t, a, b)
  <2> SUFFICES ASSUME NEW k \in KindNames, NEW i \in 1..Len(t), t[i] = <<a, k>>
               PROVE  /\ \E j \in 1..Len(t) : j > i /\ t[j] = <<b, k>>
                      /\ \A j \in 1..Len(t) : t[j] = <<b, k>> => j > i
    BY DEF Ordered
  <2>1. i + 1 \in 1..Len(s) /\ s[i + 1] = <<a, k>>
    BY <1>1
  <2>2. PICK j \in 1..Len(s) : j > i + 1 /\ s[j] = <<b, k>>
    BY <1>3, <2>1 DEF Ordered
  <2>3. j - 1 \in 1..Len(t) /\ j - 1 > i /\ t[j - 1] = <<b, k>>
    BY <1>1, <2>2
  <2>4. \A x \in 1..Len(s) : s[x] = <<b, k>> => x > i + 1
    BY <1>3, <2>1 DEF Ordered
  <2>5. ASSUME NEW x \in 1..Len(t), t[x] = <<b, k>>
        PROVE  x > i
    <3>1. x + 1 \in 1..Len(s) /\ s[x + 1] = <<b, k>>
      BY <1>1, <2>5
    <3> QED
      BY <2>4, <3>1
  <2> QED
    BY <2>3, <2>5
<1> QED
  BY <1>1, <1>2, <1>3 DEF GoodPlan, t

-----------------------------------------------------------------------------
(* Where a run is. *)

\* An update belongs to the phase at the head of the plan, which is one of the
\* mode's.
LEMMA CurrentPhase ==
    ASSUME Types, PlanInv, NEW phase, NEW w, In(phase, w)
    PROVE  /\ w \in Workload /\ Kind[w] \in KindNames
           /\ mode \in ModeNames /\ phase \in PhasesOf(mode)
           /\ plan # <<>> /\ GoodPlan(mode, plan)
           /\ Head(plan) = <<phase, Kind[w]>> /\ Head(plan) \in Elements(plan)
<1>1. mode # "idle" /\ plan # <<>> /\ GoodPlan(mode, plan)
  BY DEF In, PlanInv
<1>2. w \in Workload /\ Kind[w] = Head(plan)[2] /\ Head(plan)[1] = phase
  BY <1>1 DEF In, PlanInv
<1>3. Head(plan) \in Elements(plan)
  BY <1>1, TailPlan
<1>4. Head(plan) \in Step
  BY <1>1, HeadTailProperties DEF GoodPlan
<1>5. Head(plan) = <<phase, Kind[w]>>
  BY <1>2, <1>4 DEF Step
<1>6. Kind[w] \in KindNames
  BY <1>2, CLIConstants DEF KindNames
<1>7. phase \in PhasesOf(mode)
  BY <1>1, <1>2, <1>3 DEF GoodPlan
<1> QED
  BY <1>1, <1>2, <1>3, <1>5, <1>6, <1>7 DEF Types

\* Earlier phases are through with the workload, later ones are not.
LEMMA EarlierPhase ==
    ASSUME Types, PlanInv, NEW phase, NEW w, In(phase, w), NEW a, Ordered(plan, a, phase)
    PROVE  Through(a, w)
<1>1. /\ Kind[w] \in KindNames /\ plan \in Seq(Step) /\ plan # <<>>
      /\ Head(plan) = <<phase, Kind[w]>>
  BY CurrentPhase DEF GoodPlan
<1>2. 1 \in 1..Len(plan) /\ plan[1] = <<phase, Kind[w]>>
  BY <1>1, HeadTailProperties, EmptySeq, LenProperties
<1>3. ASSUME NEW i \in 1..Len(plan), plan[i] = <<a, Kind[w]>>
      PROVE  FALSE
  BY <1>1, <1>2, <1>3 DEF Ordered
<1> QED
  BY <1>3 DEF Through, Elements

\* Later phases still have all of it ahead.
LEMMA LaterPhase ==
    ASSUME Types, PlanInv, NEW phase, NEW w, In(phase, w), NEW b, Ordered(plan, phase, b)
    PROVE  <<b, Kind[w]>> \in Elements(plan) /\ Head(plan) # <<b, Kind[w]>>
<1>1. /\ Kind[w] \in KindNames /\ plan \in Seq(Step) /\ plan # <<>>
      /\ Head(plan) = <<phase, Kind[w]>>
  BY CurrentPhase DEF GoodPlan
<1>2. 1 \in 1..Len(plan) /\ Head(plan) = plan[1] /\ plan[1] = <<phase, Kind[w]>>
  BY <1>1, HeadTailProperties, EmptySeq, LenProperties
<1>3. PICK j \in 1..Len(plan) : j > 1 /\ plan[j] = <<b, Kind[w]>>
  BY <1>1, <1>2 DEF Ordered
<1>4. plan[1] # <<b, Kind[w]>>
  <2>1. \A x \in 1..Len(plan) : plan[x] = <<b, Kind[w]>> => x > 1
    BY <1>1, <1>2 DEF Ordered
  <2> QED
    BY <1>2, <2>1
<1> QED
  BY <1>2, <1>3, <1>4 DEF Elements

\* After an update of v, only the current phase is through with more than before.
LEMMA ItemThrough ==
    ASSUME NEW v, Handled(v), NEW phase, NEW w, Through(phase, w)'
    PROVE  Through(phase, w) \/ (w = v /\ Head(plan) = <<phase, Kind[w]>>)
<1>1. plan' = plan /\ todo' = todo \ {v}
  BY DEF Handled
<1> QED
  BY <1>1 DEF Through, Elements

\* When the next phase is entered, what is not to be updated in it is through.
LEMMA PhaseThrough ==
    ASSUME GoodPlan(mode, plan), plan # <<>>, todo = {}, plan' = Tail(plan),
           NEW phase, NEW w, Through(phase, w)'
    PROVE  \/ Through(phase, w)
           \/ Head(plan') = <<phase, Kind[w]>> /\ w \notin todo'
<1>1. Elements(plan) = Elements(plan') \cup {Head(plan)}
  BY TailPlan
<1> QED
  BY <1>1 DEF Through, Elements

\* At the end of the last phase a run is through with everything.
LEMMA AllThrough ==
    ASSUME GoodPlan(mode, plan), plan # <<>>, todo = {}, Tail(plan) = <<>>, NEW phase, NEW w
    PROVE  Through(phase, w)
<1>1. Elements(plan) = Elements(<<>>) \cup {Head(plan)}
  BY TailPlan
<1>2. Elements(<<>>) = {}
  BY DEF Elements
<1> QED
  BY <1>1, <1>2 DEF Through

-----------------------------------------------------------------------------
(* What updates change. *)

Set(f, x, v, n) == [f EXCEPT ![x][v] = n]

\* Setting one count changes that count only.
LEMMA SetCount ==
    ASSUME NEW f \in [Side -> Counts], NEW x \in Side, NEW v \in Workload,
           NEW n \in Count \cup {Absent}
    PROVE  /\ Set(f, x, v, n) \in [Side -> Counts]
           /\ \A y \in Side, w \in Workload :
                 Set(f, x, v, n)[y][w] = IF y = x /\ w = v THEN n ELSE f[y][w]
<1>1. f[x] \in Counts
  OBVIOUS
<1> DEFINE r == [f[x] EXCEPT ![v] = n]
<1>2. r \in Counts /\ \A w \in Workload : r[w] = IF w = v THEN n ELSE f[x][w]
  BY <1>1 DEF Counts
<1>3. Set(f, x, v, n) = [f EXCEPT ![x] = r]
  BY DEF Set
<1> HIDE DEF r
<1> QED
  BY <1>2, <1>3

\* Facts about the constants.
LEMMA Sides == "source" \in Side /\ "dest" \in Side /\ "source" # "dest" /\ 0 \in Count
               /\ Absent \notin Count
BY CLIConstants DEF Side, Count, Absent

\* Counts and annotations are counts, or absent.
LEMMA ItemTypes ==
    ASSUME Types
    PROVE  \A w \in Workload : /\ Src(w) \in Count /\ Dst(w) \in Count \cup {Absent}
                               /\ Noted(w) \in Count \cup {Absent}
BY Sides DEF Types, Counts, Src, Dst, Noted

\* syncResources creates the copy with the source's count, if there is none.
LEMMA SyncChange ==
    ASSUME Types, NEW v \in Workload, SyncItem(v)
    PROVE  /\ replicas' \in [Side -> Counts] /\ note' \in [Side -> Counts]
           /\ \A w \in Workload :
                 /\ Src(w)' = Src(w) /\ Noted(w)' = Noted(w)
                 /\ Dst(w)' = IF w = v /\ Dst(w) = Absent THEN Src(w) ELSE Dst(w)
<1>1. CASE Dst(v) = Absent
  <2>1. /\ replicas' = Set(replicas, "dest", v, Src(v))
        /\ note' = Set(note, "dest", v, Src(v))
        /\ Src(v) \in Count \cup {Absent}
        /\ replicas \in [Side -> Counts] /\ note \in [Side -> Counts]
    BY <1>1 DEF SyncItem, Set, Src, Dst, Types
  <2>2. /\ replicas' \in [Side -> Counts]
        /\ \A y \in Side, w \in Workload :
              replicas'[y][w] = IF y = "dest" /\ w = v THEN Src(v) ELSE replicas[y][w]
    BY <2>1, Sides, SetCount
  <2>3. /\ note' \in [Side -> Counts]
        /\ \A y \in Side, w \in Workload :
              note'[y][w] = IF y = "dest" /\ w = v THEN Src(v) ELSE note[y][w]
    BY <2>1, Sides, SetCount
  <2> QED
    BY <1>1, <2>2, <2>3, Sides DEF Src, Dst, Noted
<1>2. CASE Dst(v) # Absent
  BY <1>2 DEF SyncItem, objects, Types, Src, Dst, Noted
<1> QED
  BY <1>1, <1>2

\* The other updates of counts, at side x.
LEMMA CountChange ==
    ASSUME Types, NEW v \in Workload, NEW x \in Side, NEW n \in Count \cup {Absent},
           replicas' = Set(replicas, x, v, n), note' = note
    PROVE  /\ replicas' \in [Side -> Counts] /\ note' \in [Side -> Counts]
           /\ \A w \in Workload :
                 /\ Src(w)' = IF x = "source" /\ w = v THEN n ELSE Src(w)
                 /\ Dst(w)' = IF x = "dest" /\ w = v THEN n ELSE Dst(w)
                 /\ Noted(w)' = Noted(w)
<1>1. /\ replicas' \in [Side -> Counts]
      /\ \A y \in Side, w \in Workload :
            replicas'[y][w] = IF y = x /\ w = v THEN n ELSE replicas[y][w]
  <2>1. replicas \in [Side -> Counts]
    BY DEF Types
  <2> QED
    BY <2>1, SetCount
<1> QED
  BY <1>1, Sides DEF Src, Dst, Noted, Types

\* annotateOriginalReplicas notes the count once.
LEMMA AnnotateChange ==
    ASSUME Types, NEW v \in Workload, AnnotateItem(v)
    PROVE  /\ replicas' \in [Side -> Counts] /\ note' \in [Side -> Counts]
           /\ \A w \in Workload :
                 /\ Src(w)' = Src(w) /\ Dst(w)' = Dst(w)
                 /\ Noted(w)' = IF w = v /\ Noted(w) = Absent THEN Src(w) ELSE Noted(w)
<1>1. CASE Noted(v) = Absent
  <2>1. /\ note' = Set(note, "source", v, Src(v)) /\ replicas' = replicas
        /\ Src(v) \in Count \cup {Absent}
        /\ replicas \in [Side -> Counts] /\ note \in [Side -> Counts]
    BY <1>1 DEF AnnotateItem, Set, Src, Noted, Types
  <2>2. /\ note' \in [Side -> Counts]
        /\ \A y \in Side, w \in Workload :
              note'[y][w] = IF y = "source" /\ w = v THEN Src(v) ELSE note[y][w]
    BY <2>1, Sides, SetCount
  <2> QED
    BY <1>1, <2>1, <2>2, Sides DEF Src, Dst, Noted
<1>2. CASE Noted(v) # Absent
  BY <1>2 DEF AnnotateItem, Types, Src, Dst, Noted
<1> QED
  BY <1>1, <1>2

\* Restoring takes the count from the source's annotation, if there is one.
LEMMA RestoreChange ==
    ASSUME Types, NEW v \in Workload, RestoreDestItem(v) \/ RestoreSourceItem(v)
    PROVE  /\ replicas' \in [Side -> Counts] /\ note' \in [Side -> Counts]
           /\ \A w \in Workload : Noted(w)' = Noted(w)
           /\ RestoreDestItem(v) => \A w \in Workload :
                 /\ Src(w)' = Src(w)
                 /\ Dst(w)' = IF w = v /\ Noted(w) # Absent /\ Dst(w) # Absent
                                THEN Noted(w) ELSE Dst(w)
           /\ RestoreSourceItem(v) => \A w \in Workload :
                 /\ Src(w)' = IF w = v /\ Noted(w) # Absent THEN Noted(w) ELSE Src(w)
                 /\ Dst(w)' = Dst(w)
<1>1. ASSUME RestoreDestItem(v)
      PROVE  /\ replicas' \in [Side -> Counts] /\ note' \in [Side -> Counts]
             /\ \A w \in Workload :
                   /\ Src(w)' = Src(w) /\ Noted(w)' = Noted(w)
                   /\ Dst(w)' = IF w = v /\ Noted(w) # Absent /\ Dst(w) # Absent
                                  THEN Noted(w) ELSE Dst(w)
  <2>1. CASE Noted(v) = Absent \/ Dst(v) = Absent
    BY <1>1, <2>1 DEF RestoreDestItem, Types, Src, Dst, Noted
  <2>2. CASE Noted(v) # Absent /\ Dst(v) # Absent
    <3>1. replicas' = Set(replicas, "dest", v, Noted(v)) /\ note' = note
      BY <1>1, <2>2 DEF RestoreDestItem, Set, Dst, Noted
    <3>2. Noted(v) \in Count \cup {Absent}
      BY ItemTypes
    <3> QED
      BY <2>2, <3>1, <3>2, Sides, CountChange
  <2> QED
    BY <2>1, <2>2
<1>2. ASSUME RestoreSourceItem(v)
      PROVE  /\ replicas' \in [Side -> Counts] /\ note' \in [Side -> Counts]
             /\ \A w \in Workload :
                   /\ Src(w)' = IF w = v /\ Noted(w) # Absent THEN Noted(w) ELSE Src(w)
                   /\ Dst(w)' = Dst(w) /\ Noted(w)' = Noted(w)
  <2>1. CASE Noted(v) = Absent
    BY <1>2, <2>1 DEF RestoreSourceItem, Types, Src, Dst, Noted
  <2>2. CASE Noted(v) # Absent
    <3>1. replicas' = Set(replicas, "source", v, Noted(v)) /\ note' = note
      BY <1>2, <2>2 DEF RestoreSourceItem, Set, Noted
    <3>2. Noted(v) \in Count \cup {Absent}
      BY ItemTypes
    <3> QED
      BY <2>2, <3>1, <3>2, Sides, CountChange
  <2> QED
    BY <2>1, <2>2
<1> QED
  BY <1>1, <1>2

\* Scaling down, at either side.
LEMMA ScaleChange ==
    ASSUME Types, NEW v \in Workload, NEW x \in Side, ScaleItem(x, v)
    PROVE  /\ replicas' \in [Side -> Counts] /\ note' \in [Side -> Counts]
           /\ \A w \in Workload :
                 /\ Src(w)' = IF x = "source" /\ w = v THEN 0 ELSE Src(w)
                 /\ Dst(w)' = IF x = "dest" /\ w = v THEN 0 ELSE Dst(w)
                 /\ Noted(w)' = Noted(w)
<1>1. replicas' = Set(replicas, x, v, 0) /\ note' = note
  BY DEF ScaleItem, Set
<1> QED
  BY <1>1, Sides, CountChange

\* The operator's scaling makes the new count the one that is wanted.
LEMMA UserChange ==
    ASSUME Types, NEW v \in Workload, UserScales(v)
    PROVE  /\ replicas' \in [Side -> Counts] /\ note' \in [Side -> Counts]
           /\ wanted' \in [Workload -> Count]
           /\ \A w \in Workload : /\ Src(w)' \in Count /\ Noted(w)' = Noted(w)
                                  /\ w = v => Src(w)' = wanted'[w]
                                  /\ w # v => Src(w)' = Src(w) /\ wanted'[w] = wanted[w]
<1>1. PICK n \in Count \ {0} : /\ replicas' = Set(replicas, "source", v, n)
                               /\ wanted' = [wanted EXCEPT ![v] = n] /\ note' = note
  BY DEF UserScales, Set
<1>2. /\ replicas' \in [Side -> Counts] /\ note' \in [Side -> Counts]
      /\ \A w \in Workload : Noted(w)' = Noted(w) /\ Src(w)' = IF w = v THEN n ELSE Src(w)
  BY <1>1, Sides, CountChange
<1>3. /\ wanted' \in [Workload -> Count]
      /\ \A w \in Workload : wanted'[w] = IF w = v THEN n ELSE wanted[w]
  BY <1>1 DEF Types
<1> QED
  BY <1>2, <1>3, ItemTypes

-----------------------------------------------------------------------------
(* Types and plans. *)

\* Initial states satisfy the invariant.
LEMMA InitInv == Init => Inv
<1> SUFFICES ASSUME Init PROVE Inv
  OBVIOUS
<1>1. \A w \in Workload : Src(w) = wanted[w] /\ Dst(w) = Absent /\ Noted(w) = Absent
  BY Sides DEF Init, Src, Dst, Noted
<1>2. replicas \in [Side -> Counts] /\ note \in [Side -> Counts]
  <2>1. wanted \in Counts /\ [w \in Workload |-> Absent] \in Counts
    BY DEF Init, Counts
  <2> QED
    BY <2>1 DEF Init
<1>3. Types /\ PlanInv
  BY <1>1, <1>2 DEF Init, Types, PlanInv
<1>4. mode = "idle" /\ outcome = <<"none", "none">>
  BY DEF Init
<1> QED
  BY <1>1, <1>3, <1>4 DEF Inv, SourceInv, StopInv, CopyInv, RestoreInv, ReportInv,
                          SuccessMeansMoved, StageCopies, ModeNames

\* Every step keeps the types.
LEMMA TypesStep ==
    ASSUME Types, PlanInv, [Next]_vars
    PROVE  Types'
<1>1. CASE UNCHANGED vars
  BY <1>1 DEF vars, Types, Src
<1>2. CASE \E m \in ModeNames : Run(m)
  BY <1>2 DEF Run, objects, Types, Src
<1>3. CASE NextPhase
  BY <1>3 DEF NextPhase, Enter, objects, Types, Src
<1>4. CASE ListFails
  BY <1>4 DEF ListFails, Stop, objects, Types, Src
<1>5. CASE Kill
  BY <1>5 DEF Kill, Stop, objects, Types, Src
<1>6. ASSUME NEW v \in Workload, Item(v)
      PROVE  Types'
  <2>1. wanted' = wanted /\ mode' = mode
    BY <1>6 DEF Item, SyncItem, ScaleItem, AnnotateItem, RestoreDestItem, RestoreSourceItem,
                Done, Handled
  <2>2. /\ replicas' \in [Side -> Counts] /\ note' \in [Side -> Counts]
        /\ \A w \in Workload : Src(w)' \in {Src(w), 0, Noted(w)} /\ Src(w)' # Absent
    <3>1. \A w \in Workload : Src(w) # Absent /\ 0 # Absent
      BY ItemTypes, Sides
    <3> QED
      BY <1>6, <3>1, SyncChange, ScaleChange, AnnotateChange, RestoreChange DEF Item
  <2>3. \A w \in Workload : Src(w)' \in Count
    BY <2>2, ItemTypes, Sides
  <2> QED
    BY <2>1, <2>2, <2>3 DEF Types
<1>7. ASSUME NEW v \in Workload, ItemFails(v)
      PROVE  Types'
  BY <1>7 DEF ItemFails, Handled, objects, Types, Src
<1>8. ASSUME NEW v \in Workload, UserScales(v)
      PROVE  Types'
  <2>1. mode' = mode
    BY <1>8 DEF UserScales
  <2> QED
    BY <1>8, <2>1, UserChange DEF Types
<1>9. CASE Upgrade
  BY <1>9 DEF Upgrade, objects, Types, Src
<1> QED
  BY <1>1, <1>2, <1>3, <1>4, <1>5, <1>6, <1>7, <1>8, <1>9 DEF Next, Tool, ModeNames

\* A run starts with a new plan.
LEMMA RunPlan ==
    ASSUME NEW m \in ModeNames, Run(m)
    PROVE  Fresh(m, plan')
BY StagePlan, CutoverPlan, FailbackPlan DEF Run, ModeNames

\* Every step keeps the plan in order.
LEMMA PlanStep ==
    ASSUME Types, PlanInv, [Next]_vars
    PROVE  PlanInv'
<1>1. CASE UNCHANGED vars
  <2>1. mode' = mode /\ plan' = plan /\ todo' = todo
    BY <1>1 DEF vars
  <2> QED
    BY <2>1 DEF PlanInv
<1>2. ASSUME NEW m \in ModeNames, Run(m)
      PROVE  PlanInv'
  <2>1. mode' = m /\ m # "idle" /\ todo' = {}
    BY <1>2 DEF Run, ModeNames
  <2> QED
    BY <1>2, <2>1, RunPlan DEF Fresh, PlanInv
<1>3. CASE NextPhase
  <2>1. /\ mode # "idle" /\ plan # <<>> /\ GoodPlan(mode, plan)
        /\ plan' = Tail(plan) /\ GoodPlan(mode, plan')
    BY <1>3, TailPlan DEF NextPhase, Enter, PlanInv
  <2>2. CASE plan' = <<>>
    BY <1>3, <2>1, <2>2 DEF NextPhase, Enter, PlanInv
  <2>3. CASE plan' # <<>>
    <3>1. mode' = mode /\ todo' = Items(Head(plan'))
      BY <1>3, <2>1, <2>3 DEF NextPhase, Enter
    <3>2. todo' \subseteq {w \in Workload : Kind[w] = Head(plan')[2]}
      BY <3>1 DEF Items
    <3> QED
      BY <2>1, <2>3, <3>1, <3>2 DEF PlanInv
  <2> QED
    BY <2>2, <2>3
<1>4. CASE ListFails
  <2>1. CASE plan[2][1] = "sync"
    <3>1. /\ mode # "idle" /\ plan # <<>> /\ GoodPlan(mode, plan) /\ Len(plan) > 1
          /\ plan' = Tail(plan) /\ GoodPlan(mode, plan') /\ mode' = mode /\ todo' = {}
      BY <1>4, <2>1, TailPlan DEF ListFails, PlanInv
    <3>2. plan' # <<>>
      <4>1. plan \in Seq(Step) /\ Len(plan) \in Nat
        BY <3>1, LenProperties DEF GoodPlan
      <4>2. Len(Tail(plan)) = Len(plan) - 1
        BY <3>1, <4>1, HeadTailProperties
      <4>3. Len(plan') # 0
        BY <3>1, <4>1, <4>2, SMTT(30)
      <4> QED
        BY <4>3
    <3> QED
      BY <3>1, <3>2 DEF PlanInv
  <2>2. CASE plan[2][1] # "sync"
    BY <1>4, <2>2 DEF ListFails, Stop, PlanInv
  <2> QED
    BY <2>1, <2>2
<1>5. CASE Kill
  BY <1>5 DEF Kill, Stop, PlanInv
<1>6. ASSUME NEW v \in Workload, Item(v) \/ ItemFails(v)
      PROVE  PlanInv'
  <2>1. mode' = mode /\ plan' = plan /\ todo' = todo \ {v}
    BY <1>6 DEF Item, SyncItem, ScaleItem, AnnotateItem, RestoreDestItem, RestoreSourceItem,
                Done, ItemFails, Handled
  <2> QED
    BY <2>1 DEF PlanInv
<1>7. ASSUME NEW v \in Workload, UserScales(v)
      PROVE  PlanInv'
  BY <1>7 DEF UserScales, PlanInv
<1>8. CASE Upgrade
  BY <1>8 DEF Upgrade, PlanInv
<1> QED
  BY <1>1, <1>2, <1>3, <1>4, <1>5, <1>6, <1>7, <1>8 DEF Next, Tool, ModeNames

-----------------------------------------------------------------------------
(* Updates and what the phases have done so far. *)

\* In which mode and after which phases each update happens.
LEMMA ItemContext ==
    ASSUME Types, PlanInv, NEW v \in Workload
    PROVE  /\ SyncItem(v) =>
                /\ mode \in {"Stage", "Cutover"} /\ Head(plan) = <<"sync", Kind[v]>>
                /\ mode = "Stage" => ~Through("scaleDest", v)
                /\ mode = "Cutover" => ~Through("restoreDest", v)
           /\ ScaleItem("dest", v) =>
                mode \in {"Stage", "Failback"} /\ Head(plan) = <<"scaleDest", Kind[v]>>
           /\ ScaleItem("source", v) =>
                /\ mode = "Cutover" /\ Head(plan) = <<"scaleSource", Kind[v]>>
                /\ Through("annotate", v)
           /\ AnnotateItem(v) =>
                mode = "Cutover" /\ Head(plan) = <<"annotate", Kind[v]>>
           /\ In("restoreDest", v) =>
                /\ mode = "Cutover" /\ Head(plan) = <<"restoreDest", Kind[v]>>
                /\ Through("sync", v) /\ Through("annotate", v) /\ Through("scaleSource", v)
           /\ RestoreSourceItem(v) =>
                mode = "Failback" /\ Head(plan) = <<"restoreSource", Kind[v]>>
<1>1. ASSUME NEW phase, In(phase, v)
      PROVE  /\ mode \in ModeNames /\ phase \in PhasesOf(mode) /\ GoodPlan(mode, plan)
             /\ Head(plan) = <<phase, Kind[v]>>
  BY <1>1, CurrentPhase
<1>2. ASSUME NEW m \in ModeNames
      PROVE  /\ "sync" \in PhasesOf(m) => m \in {"Stage", "Cutover"}
             /\ "scaleDest" \in PhasesOf(m) => m \in {"Stage", "Failback"}
             /\ "annotate" \in PhasesOf(m) => m = "Cutover"
             /\ "scaleSource" \in PhasesOf(m) => m = "Cutover"
             /\ "restoreDest" \in PhasesOf(m) => m = "Cutover"
             /\ "restoreSource" \in PhasesOf(m) => m = "Failback"
  BY DEF ModeNames, PhasesOf
<1>3. ASSUME SyncItem(v)
      PROVE  /\ mode \in {"Stage", "Cutover"} /\ Head(plan) = <<"sync", Kind[v]>>
             /\ mode = "Stage" => ~Through("scaleDest", v)
             /\ mode = "Cutover" => ~Through("restoreDest", v)
  <2>1. In("sync", v)
    BY <1>3 DEF SyncItem
  <2>2. /\ mode = "Stage" => Ordered(plan, "sync", "scaleDest")
        /\ mode = "Cutover" => Ordered(plan, "sync", "restoreDest")
    BY <1>1, <2>1 DEF GoodPlan
  <2> QED
    BY <1>1, <1>2, <2>1, <2>2, LaterPhase DEF Through
<1>4. ASSUME ScaleItem("dest", v)
      PROVE  mode \in {"Stage", "Failback"} /\ Head(plan) = <<"scaleDest", Kind[v]>>
  <2>1. In("scaleDest", v)
    BY <1>4 DEF ScaleItem
  <2> QED
    BY <1>1, <1>2, <2>1
<1>5. ASSUME ScaleItem("source", v)
      PROVE  /\ mode = "Cutover" /\ Head(plan) = <<"scaleSource", Kind[v]>>
             /\ Through("annotate", v)
  <2>1. In("scaleSource", v)
    BY <1>5 DEF ScaleItem
  <2>2. mode = "Cutover" /\ Ordered(plan, "annotate", "scaleSource")
    BY <1>1, <1>2, <2>1 DEF GoodPlan
  <2> QED
    BY <1>1, <2>1, <2>2, EarlierPhase
<1>6. ASSUME AnnotateItem(v)
      PROVE  mode = "Cutover" /\ Head(plan) = <<"annotate", Kind[v]>>
  BY <1>1, <1>2, <1>6 DEF AnnotateItem
<1>7. ASSUME In("restoreDest", v)
      PROVE  /\ mode = "Cutover" /\ Head(plan) = <<"restoreDest", Kind[v]>>
             /\ Through("sync", v) /\ Through("annotate", v) /\ Through("scaleSource", v)
  <2>1. mode = "Cutover"
    BY <1>1, <1>2, <1>7
  <2>2. \A a \in {"sync", "annotate", "scaleSource"} : Ordered(plan, a, "restoreDest")
    BY <1>1, <1>7, <2>1 DEF GoodPlan
  <2> QED
    BY <1>1, <1>7, <2>1, <2>2, EarlierPhase
<1>8. ASSUME RestoreSourceItem(v)
      PROVE  mode = "Failback" /\ Head(plan) = <<"restoreSource", Kind[v]>>
  BY <1>1, <1>2, <1>8 DEF RestoreSourceItem
<1> QED
  BY <1>3, <1>4, <1>5, <1>6, <1>7, <1>8

Data == SourceInv /\ StopInv /\ CopyInv /\ RestoreInv

\* An update in phase `cur' is through with v in that phase, and leaves the rest.
LEMMA DoneThrough ==
    ASSUME NEW v, Done(v), NEW cur, Head(plan) = <<cur, Kind[v]>>
    PROVE  /\ \A phase, w : Through(phase, w)' => Through(phase, w) \/ (w = v /\ phase = cur)
           /\ mode' = mode /\ wanted' = wanted /\ trouble' = trouble
<1>1. Handled(v) /\ trouble' = trouble
  BY DEF Done
<1>2. mode' = mode /\ wanted' = wanted
  BY <1>1 DEF Handled
<1>3. ASSUME NEW phase, NEW w, Through(phase, w)'
      PROVE  Through(phase, w) \/ (w = v /\ phase = cur)
  BY <1>1, <1>3, ItemThrough
<1> QED
  BY <1>1, <1>2, <1>3

\* Creating a copy undoes nothing: stopping and starting copies come later.
LEMMA SyncData ==
    ASSUME Types, PlanInv, Data, NEW v \in Workload, SyncItem(v), singular' = singular
    PROVE  Data'
<1>1. /\ mode \in {"Stage", "Cutover"} /\ Head(plan) = <<"sync", Kind[v]>>
      /\ mode = "Stage" => ~Through("scaleDest", v)
      /\ mode = "Cutover" => ~Through("restoreDest", v)
  BY ItemContext
<1>2. /\ \A phase, w : Through(phase, w)' => Through(phase, w) \/ (w = v /\ phase = "sync")
      /\ mode' = mode /\ wanted' = wanted /\ trouble' = trouble
  BY <1>1, DoneThrough DEF SyncItem
<1>3. \A w \in Workload : /\ Src(w)' = Src(w) /\ Noted(w)' = Noted(w) /\ Src(w) # Absent
                          /\ Dst(w)' = IF w = v /\ Dst(w) = Absent THEN Src(w) ELSE Dst(w)
  BY SyncChange, ItemTypes, Sides
<1>4. SourceInv' /\ StopInv'
  BY <1>2, <1>3 DEF Data, SourceInv, StopInv, Calm
<1>5. CopyInv'
  BY <1>1, <1>2, <1>3 DEF Data, CopyInv, Reliable
<1>6. RestoreInv'
  BY <1>1, <1>2, <1>3, SMTT(30) DEF Data, RestoreInv, Faultless
<1> QED
  BY <1>4, <1>5, <1>6 DEF Data

\* Stopping a copy happens in the modes that start none.
LEMMA ScaleDestData ==
    ASSUME Types, PlanInv, Data, NEW v \in Workload, ScaleItem("dest", v), singular' = singular
    PROVE  Data'
<1>1. mode \in {"Stage", "Failback"} /\ Head(plan) = <<"scaleDest", Kind[v]>>
  BY ItemContext
<1>2. /\ \A phase, w : Through(phase, w)' => Through(phase, w) \/ (w = v /\ phase = "scaleDest")
      /\ mode' = mode /\ wanted' = wanted /\ trouble' = trouble
  BY <1>1, DoneThrough DEF ScaleItem
<1>3. /\ \A w \in Workload : /\ Src(w)' = Src(w) /\ Noted(w)' = Noted(w)
                             /\ Dst(w)' = IF w = v THEN 0 ELSE Dst(w)
      /\ 0 # Absent
  BY ScaleChange, Sides
<1>4. SourceInv' /\ StopInv'
  BY <1>1, <1>2, <1>3 DEF Data, SourceInv, StopInv, Calm
<1>5. CopyInv'
  BY <1>1, <1>2, <1>3 DEF Data, CopyInv, Reliable
<1>6. RestoreInv'
  BY <1>1, <1>2, <1>3 DEF Data, RestoreInv, Faultless
<1> QED
  BY <1>4, <1>5, <1>6 DEF Data

\* Here the order matters: what is stopped has been annotated.
LEMMA ScaleSourceData ==
    ASSUME Types, PlanInv, Data, NEW v \in Workload, ScaleItem("source", v), singular' = singular
    PROVE  Data'
<1>1. /\ mode = "Cutover" /\ Head(plan) = <<"scaleSource", Kind[v]>>
      /\ Through("annotate", v)
  BY ItemContext
<1>2. /\ \A phase, w :
            Through(phase, w)' => Through(phase, w) \/ (w = v /\ phase = "scaleSource")
      /\ mode' = mode /\ wanted' = wanted /\ trouble' = trouble
  BY <1>1, DoneThrough DEF ScaleItem
<1>3. \A w \in Workload : /\ Dst(w)' = Dst(w) /\ Noted(w)' = Noted(w)
                          /\ Src(w)' = IF w = v THEN 0 ELSE Src(w)
  BY ScaleChange, Sides
<1>4. SourceInv'
  <2>1. Calm => Noted(v) # Absent
    BY <1>1 DEF Data, StopInv
  <2> QED
    BY <1>2, <1>3, <2>1 DEF Data, SourceInv, Calm
<1>5. StopInv'
  BY <1>1, <1>2, <1>3 DEF Data, StopInv, Calm
<1>6. CopyInv'
  BY <1>1, <1>2, <1>3 DEF Data, CopyInv, Reliable
<1>7. RestoreInv'
  BY <1>1, <1>2, <1>3 DEF Data, RestoreInv, Faultless
<1> QED
  BY <1>4, <1>5, <1>6, <1>7 DEF Data

\* Annotating notes the count asked for.
LEMMA AnnotateData ==
    ASSUME Types, PlanInv, Data, NEW v \in Workload, AnnotateItem(v), singular' = singular
    PROVE  Data'
<1>1. mode = "Cutover" /\ Head(plan) = <<"annotate", Kind[v]>>
  BY ItemContext
<1>2. /\ \A phase, w : Through(phase, w)' => Through(phase, w) \/ (w = v /\ phase = "annotate")
      /\ mode' = mode /\ wanted' = wanted /\ trouble' = trouble
  BY <1>1, DoneThrough DEF AnnotateItem
<1>3. \A w \in Workload : /\ Src(w)' = Src(w) /\ Dst(w)' = Dst(w) /\ Src(w) # Absent
                          /\ Noted(w)' = IF w = v /\ Noted(w) = Absent THEN Src(w) ELSE Noted(w)
  BY AnnotateChange, ItemTypes, Sides
<1>4. SourceInv' /\ StopInv'
  <2>1. \A w \in Workload : wanted[w] # Absent
    BY Sides DEF Types
  <2>2. SourceInv'
    BY <1>2, <1>3, <2>1 DEF Data, SourceInv, Calm
  <2>3. StopInv'
    BY <1>1, <1>2, <1>3 DEF Data, StopInv, Calm
  <2> QED
    BY <2>2, <2>3
<1>5. CopyInv'
  BY <1>1, <1>2, <1>3 DEF Data, CopyInv, Reliable
<1>6. RestoreInv'
  BY <1>1, <1>2, <1>3 DEF Data, RestoreInv, Faultless
<1> QED
  BY <1>4, <1>5, <1>6 DEF Data

\* What is started has been created and annotated.
LEMMA RestoreDestData ==
    ASSUME Types, PlanInv, Data, NEW v \in Workload, RestoreDestItem(v), singular' = singular
    PROVE  Data'
<1>1. /\ mode = "Cutover" /\ Head(plan) = <<"restoreDest", Kind[v]>>
      /\ Through("sync", v) /\ Through("annotate", v)
  BY ItemContext DEF RestoreDestItem
<1>2. /\ \A phase, w :
            Through(phase, w)' => Through(phase, w) \/ (w = v /\ phase = "restoreDest")
      /\ mode' = mode /\ wanted' = wanted /\ trouble' = trouble
  BY <1>1, DoneThrough DEF RestoreDestItem
<1>3. \A w \in Workload : /\ Src(w)' = Src(w) /\ Noted(w)' = Noted(w)
                          /\ Dst(w)' = IF w = v /\ Noted(w) # Absent /\ Dst(w) # Absent
                                         THEN Noted(w) ELSE Dst(w)
  BY RestoreChange
<1>4. SourceInv' /\ StopInv'
  BY <1>1, <1>2, <1>3 DEF Data, SourceInv, StopInv, Calm
<1>5. CopyInv'
  BY <1>1, <1>2, <1>3 DEF Data, CopyInv, Reliable
<1>6. RestoreInv'
  <2>1. Faultless => Dst(v)' \in {wanted[v], Absent}
    BY <1>1, <1>3 DEF Data, SourceInv, StopInv, Calm, Faultless
  <2> QED
    BY <1>1, <1>2, <1>3, <2>1 DEF Data, RestoreInv, Faultless
<1> QED
  BY <1>4, <1>5, <1>6 DEF Data

\* Failback gives the source the count asked for.
LEMMA RestoreSourceData ==
    ASSUME Types, PlanInv, Data, NEW v \in Workload, RestoreSourceItem(v), singular' = singular
    PROVE  Data'
<1>1. mode = "Failback" /\ Head(plan) = <<"restoreSource", Kind[v]>>
  BY ItemContext
<1>2. /\ \A phase, w :
            Through(phase, w)' => Through(phase, w) \/ (w = v /\ phase = "restoreSource")
      /\ mode' = mode /\ wanted' = wanted /\ trouble' = trouble
  BY <1>1, DoneThrough DEF RestoreSourceItem
<1>3. \A w \in Workload : /\ Dst(w)' = Dst(w) /\ Noted(w)' = Noted(w)
                          /\ Src(w)' = IF w = v /\ Noted(w) # Absent THEN Noted(w) ELSE Src(w)
  BY RestoreChange
<1>4. SourceInv' /\ StopInv'
  BY <1>1, <1>2, <1>3 DEF Data, SourceInv, StopInv, Calm
<1>5. CopyInv'
  BY <1>1, <1>2, <1>3 DEF Data, CopyInv, Reliable
<1>6. RestoreInv'
  <2>1. Faultless => Src(v)' = wanted[v]
    <3>1. wanted[v] # Absent
      BY Sides DEF Types
    <3> QED
      BY <1>3, <3>1 DEF Data, SourceInv, Calm, Faultless
  <2> QED
    BY <1>1, <1>2, <1>3, <2>1 DEF Data, RestoreInv, Faultless
<1> QED
  BY <1>4, <1>5, <1>6 DEF Data

-----------------------------------------------------------------------------
(* The other steps. *)

\* Every update keeps what the phases have done.
LEMMA ItemData ==
    ASSUME Types, PlanInv, Data, NEW v \in Workload, Item(v), singular' = singular
    PROVE  Data'
<1>1. CASE \E x \in Side : ScaleItem(x, v)
  BY <1>1, ScaleDestData, ScaleSourceData DEF Side
<1> QED
  BY <1>1, SyncData, AnnotateData, RestoreDestData, RestoreSourceData DEF Item

\* A new run has everything before it.
LEMMA RunData ==
    ASSUME Types, PlanInv, Data, NEW m \in ModeNames, Run(m)
    PROVE  Data'
<1>1. /\ \A w : Src(w)' = Src(w) /\ Dst(w)' = Dst(w) /\ Noted(w)' = Noted(w)
      /\ wanted' = wanted /\ trouble' = trouble /\ mode' = m
  BY DEF Run, objects, Src, Dst, Noted
<1>2. ASSUME NEW phase \in PhasesOf(m) \ {"start", "migrate"}, NEW w \in Workload
      PROVE  ~Through(phase, w)'
  <2>1. Kind[w] \in KindNames
    BY CLIConstants DEF KindNames
  <2>2. Fresh(m, plan')
    BY RunPlan
  <2>3. <<phase, Kind[w]>> \in Elements(plan')
    BY <2>1, <2>2 DEF Fresh
  <2>4. Head(plan') # <<phase, Kind[w]>>
    BY <2>2 DEF Fresh
  <2> QED
    BY <2>3, <2>4 DEF Through, Elements
<1>3. SourceInv'
  BY <1>1 DEF Data, SourceInv, Calm
<1>4. StopInv'
  BY <1>1, <1>2 DEF StopInv, PhasesOf
<1>5. CopyInv'
  BY <1>1, <1>2 DEF CopyInv, PhasesOf
<1>6. RestoreInv'
  BY <1>1, <1>2 DEF RestoreInv, PhasesOf
<1> QED
  BY <1>3, <1>4, <1>5, <1>6 DEF Data

\* A run that has ended has no phases.
LEMMA EndData ==
    ASSUME Data, UNCHANGED <<objects, wanted>>, mode' = "idle", trouble \subseteq trouble'
    PROVE  Data'
<1>1. \A w : Src(w)' = Src(w) /\ Noted(w)' = Noted(w)
  BY DEF objects, Src, Noted
<1>2. SourceInv'
  BY <1>1 DEF Data, SourceInv, Calm
<1> QED
  BY <1>2 DEF Data, StopInv, CopyInv, RestoreInv

\* Entering a phase: it lists every workload that it could have something to do for.
LEMMA PhaseData ==
    ASSUME Types, PlanInv, Data, NextPhase, Tail(plan) # <<>>, singular' = singular
    PROVE  Data'
<1>1. /\ \A w : Src(w)' = Src(w) /\ Dst(w)' = Dst(w) /\ Noted(w)' = Noted(w)
      /\ wanted' = wanted /\ trouble' = trouble /\ mode' = mode
  BY DEF NextPhase, Enter, objects, Src, Dst, Noted
<1>2. /\ mode \in ModeNames /\ plan # <<>> /\ GoodPlan(mode, plan) /\ todo = {}
      /\ plan' = Tail(plan) /\ plan' # <<>> /\ todo' = Items(Head(plan'))
  BY DEF NextPhase, Enter, PlanInv, Types
<1>3. ASSUME NEW phase, NEW w \in Workload, Through(phase, w)', ~Through(phase, w)
      PROVE  Skipped(phase) \/ replicas[Listed(phase)][w] = Absent
  <2>1. Head(plan') = <<phase, Kind[w]>> /\ w \notin todo'
    BY <1>2, <1>3, PhaseThrough
  <2>2. w \notin Items(<<phase, Kind[w]>>)
    BY <1>2, <2>1
  <2> QED
    BY <2>2 DEF Items
<1>4. ASSUME NEW phase, NEW w \in Workload, Through(phase, w)', phase # "scaleDest",
             phase = "sync" => ~singular
      PROVE  Through(phase, w)
  <2>1. ~Skipped(phase) /\ Listed(phase) = "source"
    BY <1>4 DEF Skipped, Listed
  <2> QED
    BY <1>3, <1>4, <2>1, ItemTypes, Sides DEF Src
<1>5. ASSUME NEW w \in Workload, Through("scaleDest", w)'
      PROVE  Through("scaleDest", w) \/ Dst(w) = Absent
  BY <1>3, <1>5 DEF Skipped, Listed, Dst
<1>6. SourceInv' /\ StopInv'
  BY <1>1, <1>4 DEF Data, SourceInv, StopInv, Calm
<1>7. CopyInv'
  BY <1>1, <1>4, <1>5 DEF Data, CopyInv, Reliable
<1>8. RestoreInv'
  BY <1>1, <1>4 DEF Data, RestoreInv, Faultless
<1> QED
  BY <1>6, <1>7, <1>8 DEF Data

\* A list that fails ends the run, or passes over a type to copy.
LEMMA ListData ==
    ASSUME Types, PlanInv, Data, ListFails
    PROVE  Data'
<1>1. trouble \subseteq trouble' /\ "list" \in trouble'
  BY DEF ListFails, Meets
<1>2. CASE plan[2][1] = "sync"
  <2>1. /\ \A w : Src(w)' = Src(w) /\ Noted(w)' = Noted(w)
        /\ wanted' = wanted /\ mode' = mode
    BY <1>2 DEF ListFails, objects, Src, Noted
  <2>2. /\ plan # <<>> /\ GoodPlan(mode, plan) /\ todo = {} /\ plan' = Tail(plan)
        /\ Len(plan) > 1
    BY <1>2 DEF ListFails, PlanInv
  <2>3. Head(plan') = plan[2]
    <3>1. plan \in Seq(Step) /\ Len(plan) \in Nat
      BY <2>2, LenProperties DEF GoodPlan
    <3>2. /\ Tail(plan) \in Seq(Step) /\ Len(Tail(plan)) = Len(plan) - 1
          /\ \A i \in 1..Len(Tail(plan)) : Tail(plan)[i] = plan[i + 1]
      BY <2>2, <3>1, HeadTailProperties
    <3>3. 1 \in 1..Len(Tail(plan)) /\ Tail(plan)[1] = plan[2]
      BY <2>2, <3>1, <3>2
    <3>4. Head(Tail(plan)) = Tail(plan)[1]
      BY <3>2, <3>3
    <3> QED
      BY <2>2, <3>3, <3>4
  <2>4. ASSUME NEW phase, phase # "sync", NEW w, Through(phase, w)'
        PROVE  Through(phase, w)
    <3>1. Through(phase, w) \/ Head(plan') = <<phase, Kind[w]>>
      BY <2>2, <2>4, PhaseThrough
    <3> QED
      BY <1>2, <2>3, <2>4, <3>1
  <2>5. SourceInv' /\ StopInv'
    BY <1>1, <2>1, <2>4 DEF Data, SourceInv, StopInv, Calm
  <2>6. CopyInv' /\ RestoreInv'
    BY <1>1 DEF CopyInv, RestoreInv, Reliable, Faultless
  <2> QED
    BY <2>5, <2>6 DEF Data
<1>3. CASE plan[2][1] # "sync"
  BY <1>1, <1>3, EndData DEF ListFails, Stop
<1> QED
  BY <1>2, <1>3

\* An update that is passed over takes back only what is claimed of its phase.
LEMMA FailData ==
    ASSUME Types, PlanInv, Data, NEW v \in Workload, ItemFails(v), singular' = singular
    PROVE  Data'
<1> DEFINE cur == Head(plan)[1]
<1>1. /\ \A w : Src(w)' = Src(w) /\ Dst(w)' = Dst(w) /\ Noted(w)' = Noted(w)
      /\ wanted' = wanted /\ mode' = mode /\ trouble' = trouble \cup {cur}
      /\ Handled(v) /\ In(cur, v)
  BY DEF ItemFails, Handled, Meets, objects, Src, Dst, Noted, In
<1> HIDE DEF cur
<1>2. /\ mode \in ModeNames /\ cur \in PhasesOf(mode) /\ Head(plan) = <<cur, Kind[v]>>
  BY <1>1, CurrentPhase
<1>3. cur # "rescale"
  BY <1>2 DEF ModeNames, PhasesOf
<1>4. ASSUME NEW phase, NEW w, Through(phase, w)'
      PROVE  Through(phase, w) \/ phase = cur
  BY <1>1, <1>2, <1>4, ItemThrough
<1>5. SourceInv'
  BY <1>1 DEF Data, SourceInv, Calm
<1>6. StopInv'
  BY <1>1, <1>4 DEF Data, StopInv, Calm
<1>7. CopyInv'
  BY <1>1, <1>4 DEF Data, CopyInv, Reliable
<1>8. RestoreInv'
  BY <1>1, <1>3 DEF RestoreInv, Faultless
<1> QED
  BY <1>5, <1>6, <1>7, <1>8 DEF Data

\* A rescale without an annotation changes the count that is wanted, with it the
\* annotation is stale.
LEMMA UserData ==
    ASSUME Types, PlanInv, Data, NEW v \in Workload, UserScales(v)
    PROVE  Data'
<1>1. /\ mode' = "idle" /\ trouble \subseteq trouble'
      /\ Noted(v) # Absent => "stale" \in trouble'
  BY DEF UserScales, Meets, Noted
<1>2. SourceInv'
  BY <1>1, UserChange DEF Data, SourceInv, Calm
<1> QED
  BY <1>1, <1>2 DEF Data, StopInv, CopyInv, RestoreInv

\* Every step keeps what the phases have done.
LEMMA DataStep ==
    ASSUME Types, PlanInv, Data, [Next]_vars
    PROVE  Data'
<1>1. CASE UNCHANGED vars
  <2>1. /\ \A w : Src(w)' = Src(w) /\ Dst(w)' = Dst(w) /\ Noted(w)' = Noted(w)
        /\ wanted' = wanted /\ mode' = mode /\ trouble' = trouble /\ singular' = singular
        /\ \A phase, w : Through(phase, w)' = Through(phase, w)
    BY <1>1 DEF vars, Src, Dst, Noted, Through, Elements
  <2> QED
    BY <2>1 DEF Data, SourceInv, StopInv, CopyInv, RestoreInv, Calm, Reliable, Faultless
<1>2. CASE NextPhase /\ singular' = singular
  <2>1. CASE Tail(plan) = <<>>
    BY <1>2, <2>1, EndData DEF NextPhase, Enter
  <2> QED
    BY <1>2, <2>1, PhaseData
<1>3. CASE Kill
  BY <1>3, EndData DEF Kill, Stop
<1>4. CASE Upgrade
  BY <1>4, EndData DEF Upgrade
<1> QED
  BY <1>1, <1>2, <1>3, <1>4, FailData, UserData, RunData, ListData, ItemData
  DEF Next, Tool, ModeNames

\* Success is reported where the last phase ends, and nothing changes after it
\* but by another run or by the operator, who clears the report; an upgrade of
\* the API server leaves less to claim.
LEMMA ReportStep ==
    ASSUME Inv, [Next]_vars
    PROVE  ReportInv'
<1>0. Types /\ PlanInv /\ Data /\ ReportInv
  BY DEF Inv, Data
<1>1. CASE UNCHANGED vars
  BY <1>0, <1>1 DEF vars, ReportInv, SuccessMeansMoved, StageCopies
<1>2. CASE mode' # "idle" \/ outcome'[2] # "ok"
  BY <1>2 DEF ReportInv, SuccessMeansMoved, StageCopies
<1>3. CASE NextPhase /\ Tail(plan) = <<>> /\ singular' = singular
  <2>1. /\ mode \in ModeNames /\ plan # <<>> /\ GoodPlan(mode, plan) /\ todo = {}
        /\ outcome' = <<mode, "ok">>
        /\ UNCHANGED <<replicas, wanted, trouble>>
    BY <1>0, <1>3 DEF NextPhase, Enter, objects, PlanInv, Types
  <2>2. \A phase, w : Through(phase, w)
    BY <1>3, <2>1, AllThrough
  <2>3. ASSUME NEW w \in Workload
        PROVE  /\ Faultless /\ mode = "Cutover" =>
                     /\ Src(w) = 0 /\ Dst(w) \in {wanted[w], Absent}
                     /\ ~singular => Dst(w) # Absent
               /\ Faultless /\ mode = "Failback" =>
                     Dst(w) \in {0, Absent} /\ Src(w) = wanted[w]
               /\ Reliable /\ mode = "Stage" =>
                     Dst(w) \in {0, Absent} /\ (~singular => Dst(w) # Absent)
    <3>1. Faultless => Reliable /\ "scaleSource" \notin trouble
      BY DEF Faultless, Reliable
    <3> QED
      BY <1>0, <2>2, <3>1 DEF Data, StopInv, CopyInv, RestoreInv
  <2>4. SuccessMeansMoved'
    BY <1>3, <2>1, <2>3 DEF SuccessMeansMoved, Src, Dst, Faultless
  <2>5. StageCopies'
    BY <1>3, <2>1, <2>3 DEF StageCopies, Dst, Reliable
  <2> QED
    BY <2>4, <2>5 DEF ReportInv
<1>4. CASE (\E m \in ModeNames : Run(m)) \/ (NextPhase /\ Tail(plan) # <<>>)
  <2>1. mode' # "idle"
    BY <1>4 DEF Run, NextPhase, Enter, ModeNames
  <2> QED
    BY <1>2, <2>1
<1>5. CASE ListFails \/ Kill
  <2>1. mode' # "idle" \/ outcome'[2] # "ok"
    BY <1>5 DEF ListFails, Kill, Stop
  <2> QED
    BY <1>2, <2>1
<1>6. ASSUME NEW v \in Workload, Item(v) \/ ItemFails(v)
      PROVE  mode' # "idle"
  <2>1. mode' = mode /\ v \in todo
    BY <1>6 DEF Item, SyncItem, ScaleItem, AnnotateItem, RestoreDestItem, RestoreSourceItem,
                In, Done, ItemFails, Handled
  <2> QED
    BY <1>0, <2>1 DEF PlanInv
<1>7. ASSUME NEW v \in Workload, UserScales(v)
      PROVE  outcome'[2] # "ok"
  BY <1>7 DEF UserScales
<1>8. CASE Upgrade
  BY <1>0, <1>8 DEF Upgrade, objects, ReportInv, SuccessMeansMoved, StageCopies
<1> QED
  BY <1>1, <1>2, <1>3, <1>4, <1>5, <1>6, <1>7, <1>8 DEF Next, Tool, ModeNames

-----------------------------------------------------------------------------
(* Theorems. *)

\* The invariant is inductive.
LEMMA InvHolds == Spec => []Inv
<1>1. Inv /\ [Next]_vars => Inv'
  BY TypesStep, PlanStep, DataStep, ReportStep DEF Inv, Data
<1> QED
  BY InitInv, <1>1, PTL DEF Spec

\* However Stage, Cutover and Failback are run, repeated, aborted and killed, and
\* whichever updates other than annotations fail, the count the operator asked for
\* is at the source or in its annotation, unless a workload that carries an
\* annotation was rescaled.
THEOREM KeptCounts == Spec => []CountKept
<1>1. Inv => CountKept
  BY DEF Inv, SourceInv, Calm, CountKept, Src, Noted
<1> QED
  BY <1>1, InvHolds, PTL

\* If no call failed and no annotated workload was rescaled, a Cutover or Failback
\* that reports success has stopped the one side and given the other the count
\* asked for, as far as it has the workload: with an API server that leaves
\* singularName empty it has, with any other a Cutover copies nothing.
THEOREM SuccessfulMoves == Spec => []SuccessMeansMoved
<1>1. Inv => SuccessMeansMoved
  BY DEF Inv, ReportInv
<1> QED
  BY <1>1, InvHolds, PTL

\* A Stage that reports success has stopped every copy, unless a list, a creation
\* or a scaling of copies failed, and has created every one if the API server
\* leaves singularName empty.
THEOREM SuccessfulStages == Spec => []StageCopies
<1>1. Inv => StageCopies
  BY DEF Inv, ReportInv
<1> QED
  BY <1>1, InvHolds, PTL

\* The restoreDest phase of a Cutover starts a workload at the destination only
\* if it is stopped at the source, unless an update that stops one was passed over.
THEOREM OrderedHandOver == Spec => HandOver
<1> DEFINE StepOK ==
        \A w \in Workload :
            /\ "scaleSource" \notin trouble
            /\ mode = "Cutover" /\ plan # <<>> /\ Head(plan)[1] = "restoreDest"
            /\ replicas'["dest"][w] > replicas["dest"][w]
            => replicas["source"][w] = 0
<1>1. ASSUME Inv, Next
      PROVE  StepOK
  <2> SUFFICES ASSUME NEW w \in Workload, "scaleSource" \notin trouble,
                      mode = "Cutover", Head(plan)[1] = "restoreDest", Dst(w)' > Dst(w)
               PROVE  Src(w) = 0
    BY DEF Dst, Src
  <2>0. Types /\ PlanInv /\ StopInv /\ Dst(w) \in Int
    <3>1. Types /\ PlanInv /\ StopInv
      BY <1>1 DEF Inv
    <3> QED
      BY <3>1, ItemTypes, CLIConstants DEF Count, Absent
  <2>1. Dst(w)' # Dst(w)
    BY <2>0
  <2>2. PICK v \in Workload : Item(v)
    <3>1. CASE UNCHANGED objects
      BY <2>1, <3>1 DEF objects, Dst
    <3>2. ASSUME NEW u \in Workload, UserScales(u)
          PROVE  FALSE
      BY <3>2 DEF UserScales
    <3> QED
      BY <1>1, <3>1, <3>2 DEF Next, Tool, Upgrade, Run, NextPhase, ListFails, Stop, Kill, ItemFails
  <2>3. RestoreDestItem(v)
    BY <2>2 DEF Item, SyncItem, ScaleItem, AnnotateItem, RestoreSourceItem, In
  <2>4. w = v
    BY <2>0, <2>1, <2>3, RestoreChange
  <2>5. Through("scaleSource", w)
    BY <2>0, <2>3, <2>4, ItemContext DEF RestoreDestItem
  <2> QED
    BY <2>0, <2>5 DEF StopInv
<1>2. Inv /\ [Next]_vars => [StepOK]_vars
  BY <1>1
<1> QED
  BY <1>2, InvHolds, PTL DEF Spec, HandOver
=============================================================================
