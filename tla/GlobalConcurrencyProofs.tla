----------------------- MODULE GlobalConcurrencyProofs -----------------------
(***************************************************************************)
(* Proofs about the concurrency managers, for any set of goroutines, any   *)
(* limits and any number of managers; and that each manager implements     *)
(* SyncSlots.                                                              *)
(***************************************************************************)
EXTENDS GlobalConcurrency, FiniteSetTheorems, SequenceTheorems, TLAPS

\* How many goroutines of manager m are at one of the steps in P.
At(m, P) == {s \in Syncer : gcm[s] = m /\ pc[s] \in P}
Counted(m, P) == Cardinality(At(m, P))

\* Steps between a goroutine's counting itself in as waiting, or as active, and
\* its counting itself out.
Waiting == {"acquire", "queued", "granted", "cancelled"}
Active == {"publish", "sync", "leave"}

Waiters(q) == {q[i] : i \in 1..Len(q)}
Distinct(q) == \A i, j \in 1..Len(q) : q[i] = q[j] => i = j

\* Goroutines capture a manager that exists, and work without one only where
\* they were given none.
PlaceInv ==
    \A s \in Syncer : /\ gcm[s] <= managers
                      /\ pc[s] \notin {"idle", "sync"} => gcm[s] # 0

\* The queue of a semaphore holds each goroutine that waits for it, once.
QueueInv ==
    \A m \in Manager : Distinct(queue[m]) /\ Waiters(queue[m]) = At(m, {"queued"})

\* Tokens and counters are those of the goroutines that hold or have counted.
CountInv ==
    \A m \in Manager : /\ held[m] = Counted(m, Holding)
                       /\ waitingCount[m] = Counted(m, Waiting)
                       /\ activeCount[m] = Counted(m, Active)

\* No more tokens than the limit, which is zero before the manager is created,
\* and all of them taken while somebody waits.
LimitInv ==
    \A m \in Manager : /\ limit[m] # 0 <=> m <= managers
                       /\ held[m] <= limit[m]
                       /\ queue[m] # <<>> => held[m] = limit[m]

Inv == TypeOK /\ PlaceInv /\ QueueInv /\ CountInv /\ LimitInv

-----------------------------------------------------------------------------
(* Counting goroutines. *)

One(b) == IF b THEN 1 ELSE 0

\* Adding and removing an element, as the counts below use it.
LEMMA CountChange ==
    ASSUME NEW S, IsFiniteSet(S), NEW x
    PROVE  /\ Cardinality(S \cup {x}) = Cardinality(S) + 1 - One(x \in S)
           /\ Cardinality(S \ {x}) = Cardinality(S) - One(x \in S)
<1>1. Cardinality(S) \in Nat
  BY FS_CardinalityType
<1>2. Cardinality(S \cup {x}) = IF x \in S THEN Cardinality(S) ELSE Cardinality(S) + 1
  BY FS_AddElement
<1>3. Cardinality(S \ {x}) = IF x \in S THEN Cardinality(S) - 1 ELSE Cardinality(S)
  BY FS_RemoveElement
<1> QED
  BY <1>1, <1>2, <1>3 DEF One

\* Goroutines at given steps are finitely many.
LEMMA CountedType == \A m, P : IsFiniteSet(At(m, P)) /\ Counted(m, P) \in Nat
BY ConstantsOK, FS_Subset, FS_CardinalityType DEF At, Counted

\* s goes to step p and captures manager h; s goes to p and t to r.
Moves(s, h, p) == gcm' = [gcm EXCEPT ![s] = h] /\ pc' = [pc EXCEPT ![s] = p]
BothMove(s, p, t, r) == gcm' = gcm /\ pc' = [pc EXCEPT ![s] = p, ![t] = r]

\* When one goroutine moves, the count changes by where it came from and where
\* it went.
LEMMA CountMove ==
    ASSUME TypeOK, NEW s \in Syncer, NEW h \in 0..MaxManagers, NEW p \in Steps,
           Moves(s, h, p), NEW m, NEW P
    PROVE  Counted(m, P)' =
               Counted(m, P) + One(h = m /\ p \in P) - One(gcm[s] = m /\ pc[s] \in P)
<1>1. IsFiniteSet(At(m, P)) /\ Counted(m, P) \in Nat
  BY CountedType
<1>2. CASE h = m /\ p \in P
  <2>1. At(m, P)' = At(m, P) \cup {s}
    BY <1>2 DEF At, TypeOK, Moves
  <2>2. s \in At(m, P) <=> gcm[s] = m /\ pc[s] \in P
    BY DEF At
  <2>3. Counted(m, P)' = Counted(m, P) + 1 - One(s \in At(m, P))
    BY <1>1, <2>1, CountChange DEF Counted
  <2> QED
    BY <1>1, <1>2, <2>2, <2>3 DEF One
<1>3. CASE ~(h = m /\ p \in P)
  <2>1. At(m, P)' = At(m, P) \ {s}
    BY <1>3 DEF At, TypeOK, Moves
  <2>2. s \in At(m, P) <=> gcm[s] = m /\ pc[s] \in P
    BY DEF At
  <2>3. Counted(m, P)' = Counted(m, P) - One(s \in At(m, P))
    BY <1>1, <2>1, CountChange DEF Counted
  <2> QED
    BY <1>1, <1>3, <2>2, <2>3 DEF One
<1> QED
  BY <1>2, <1>3

\* When two move within their manager, each counts for itself.
LEMMA CountHandOver ==
    ASSUME TypeOK, NEW s \in Syncer, NEW t \in Syncer, s # t,
           NEW p \in Steps, NEW r \in Steps,
           BothMove(s, p, t, r), NEW m, NEW P
    PROVE  Counted(m, P)' =
               Counted(m, P) + One(gcm[s] = m /\ p \in P) - One(gcm[s] = m /\ pc[s] \in P)
                             + One(gcm[t] = m /\ r \in P) - One(gcm[t] = m /\ pc[t] \in P)
<1> DEFINE Mid == {x \in Syncer : gcm[x] = m /\ [pc EXCEPT ![s] = p][x] \in P}
<1>1. IsFiniteSet(At(m, P)) /\ Counted(m, P) \in Nat
  BY CountedType
<1>2. IsFiniteSet(Mid) /\ Cardinality(Mid) \in Nat
  BY ConstantsOK, FS_Subset, FS_CardinalityType
<1>3. Cardinality(Mid) =
        Counted(m, P) + One(gcm[s] = m /\ p \in P) - One(gcm[s] = m /\ pc[s] \in P)
  <2>1. s \in At(m, P) <=> gcm[s] = m /\ pc[s] \in P
    BY DEF At
  <2>2. CASE gcm[s] = m /\ p \in P
    <3>1. Mid = At(m, P) \cup {s}
      BY <2>2 DEF At, TypeOK
    <3> HIDE DEF Mid
    <3>2. Cardinality(Mid) = Counted(m, P) + 1 - One(s \in At(m, P))
      BY <1>1, <3>1, CountChange DEF Counted
    <3> QED
      BY <1>1, <2>1, <2>2, <3>2 DEF One
  <2>3. CASE ~(gcm[s] = m /\ p \in P)
    <3>1. Mid = At(m, P) \ {s}
      BY <2>3 DEF At, TypeOK
    <3> HIDE DEF Mid
    <3>2. Cardinality(Mid) = Counted(m, P) - One(s \in At(m, P))
      BY <1>1, <3>1, CountChange DEF Counted
    <3> QED
      BY <1>1, <2>1, <2>3, <3>2 DEF One
  <2> QED
    BY <2>2, <2>3
<1>4. Counted(m, P)' =
        Cardinality(Mid) + One(gcm[t] = m /\ r \in P) - One(gcm[t] = m /\ pc[t] \in P)
  <2>1. t \in Mid <=> gcm[t] = m /\ pc[t] \in P
    BY DEF TypeOK
  <2>2. CASE gcm[t] = m /\ r \in P
    <3>1. At(m, P)' = Mid \cup {t}
      BY <2>2 DEF At, TypeOK, BothMove
    <3> HIDE DEF Mid
    <3>2. Counted(m, P)' = Cardinality(Mid) + 1 - One(t \in Mid)
      BY <1>2, <3>1, CountChange DEF Counted
    <3> QED
      BY <1>2, <2>1, <2>2, <3>2 DEF One
  <2>3. CASE ~(gcm[t] = m /\ r \in P)
    <3>1. At(m, P)' = Mid \ {t}
      BY <2>3 DEF At, TypeOK, BothMove
    <3> HIDE DEF Mid
    <3>2. Counted(m, P)' = Cardinality(Mid) - One(t \in Mid)
      BY <1>2, <3>1, CountChange DEF Counted
    <3> QED
      BY <1>2, <2>1, <2>3, <3>2 DEF One
  <2> QED
    BY <2>2, <2>3
<1> HIDE DEF Mid
<1> QED
  BY <1>1, <1>2, <1>3, <1>4 DEF One

-----------------------------------------------------------------------------
(* Queues. *)

\* Nobody is in an empty queue.
LEMMA EmptyLine == Distinct(<<>>) /\ Waiters(<<>>) = {}
BY DEF Distinct, Waiters

\* A queue is empty exactly when nobody waits in it.
LEMMA NobodyWaits ==
    ASSUME NEW q \in Seq(Syncer)
    PROVE  q = <<>> <=> Waiters(q) = {}
BY EmptySeq DEF Waiters

\* Joining a queue.
LEMMA AppendLine ==
    ASSUME NEW q \in Seq(Syncer), NEW s \in Syncer, Distinct(q), s \notin Waiters(q)
    PROVE  /\ Append(q, s) \in Seq(Syncer) /\ Append(q, s) # <<>>
           /\ Distinct(Append(q, s)) /\ Waiters(Append(q, s)) = Waiters(q) \cup {s}
BY DEF Distinct, Waiters

\* The first leaves a queue.
LEMMA TailLine ==
    ASSUME NEW q \in Seq(Syncer), q # <<>>, Distinct(q)
    PROVE  /\ Tail(q) \in Seq(Syncer) /\ Head(q) \in Waiters(q)
           /\ Distinct(Tail(q)) /\ Waiters(Tail(q)) = Waiters(q) \ {Head(q)}
<1> DEFINE t == Tail(q)
           n == Len(q) - 1
<1>1. n \in Nat /\ 1 \in 1..Len(q) /\ Head(q) = q[1]
  OBVIOUS
<1>2. t \in Seq(Syncer) /\ Len(t) = n /\ \A j \in 1..n : t[j] = q[j + 1]
  <2>1. /\ Tail(q) \in Seq(Syncer) /\ Len(Tail(q)) = Len(q) - 1
        /\ \A j \in 1..Len(Tail(q)) : Tail(q)[j] = q[j + 1]
    BY HeadTailProperties, Zenon
  <2> QED
    BY <2>1, Zenon
<1> HIDE DEF t
<1>3. Head(q) \in Waiters(q)
  BY <1>1 DEF Waiters
<1>4. Distinct(t)
  BY <1>1, <1>2 DEF Distinct
<1>5. ASSUME NEW j \in 1..n
      PROVE  t[j] \in Waiters(q) \ {Head(q)}
  <2>1. j + 1 \in 1..Len(q) /\ j + 1 # 1 /\ t[j] = q[j + 1]
    BY <1>1, <1>2
  <2>2. q[j + 1] # q[1]
    BY <1>1, <2>1 DEF Distinct
  <2> QED
    BY <1>1, <2>1, <2>2 DEF Waiters
<1>6. ASSUME NEW j \in 1..Len(q), q[j] # Head(q)
      PROVE  q[j] \in Waiters(t)
  <2>1. j - 1 \in 1..n /\ t[j - 1] = q[j]
    BY <1>1, <1>2, <1>6
  <2> QED
    BY <1>2, <2>1 DEF Waiters
<1>7. Waiters(t) = Waiters(q) \ {Head(q)}
  BY <1>2, <1>5, <1>6 DEF Waiters
<1> QED
  BY <1>2, <1>3, <1>4, <1>7 DEF t

\* One leaves from the middle of a queue.
LEMMA WithoutLine ==
    ASSUME NEW q \in Seq(Syncer), NEW i \in 1..Len(q), Distinct(q)
    PROVE  /\ Without(q, i) \in Seq(Syncer)
           /\ Distinct(Without(q, i)) /\ Waiters(Without(q, i)) = Waiters(q) \ {q[i]}
<1> DEFINE w == Without(q, i)
           n == Len(q) - 1
<1>1. n \in Nat /\ \A j \in 1..Len(q) : q[j] \in Syncer
  BY LenProperties
<1>2. w \in [1..n -> Syncer]
  BY <1>1 DEF Without
<1>3. w \in Seq(Syncer) /\ Len(w) = n
  BY <1>1, <1>2, SeqDef
<1>4. \A j \in 1..n : w[j] = IF j < i THEN q[j] ELSE q[j + 1]
  BY DEF Without
<1> HIDE DEF w
<1>5. Distinct(w)
  <2> SUFFICES ASSUME NEW a \in 1..n, NEW b \in 1..n, a < b PROVE w[a] # w[b]
    BY <1>1, <1>3 DEF Distinct
  <2>1. CASE b < i
    BY <1>1, <1>4, <2>1 DEF Distinct
  <2>2. CASE a < i /\ ~(b < i)
    BY <1>1, <1>4, <2>2 DEF Distinct
  <2>3. CASE ~(a < i)
    BY <1>1, <1>4, <2>3 DEF Distinct
  <2> QED
    BY <1>1, <2>1, <2>2, <2>3
<1>6. Waiters(w) \subseteq Waiters(q) \ {q[i]}
  <2> SUFFICES ASSUME NEW j \in 1..n PROVE w[j] \in Waiters(q) \ {q[i]}
    BY <1>3 DEF Waiters
  <2>1. CASE j < i
    BY <1>1, <1>4, <2>1 DEF Distinct, Waiters
  <2>2. CASE ~(j < i)
    <3>1. j + 1 \in 1..Len(q) /\ j + 1 # i /\ w[j] = q[j + 1]
      BY <1>1, <1>4, <2>2
    <3> QED
      BY <3>1 DEF Distinct, Waiters
  <2> QED
    BY <2>1, <2>2
<1>7. ASSUME NEW j \in 1..Len(q), j # i
      PROVE  q[j] \in Waiters(w)
  <2>1. CASE j < i
    BY <1>1, <1>3, <1>4, <2>1 DEF Waiters
  <2>2. CASE j > i
    <3>1. j - 1 \in 1..n /\ w[j - 1] = q[j]
      BY <1>1, <1>4, <2>2
    <3> QED
      BY <1>3, <3>1 DEF Waiters
  <2> QED
    BY <1>7, <2>1, <2>2
<1>8. Waiters(w) = Waiters(q) \ {q[i]}
  BY <1>6, <1>7 DEF Waiters
<1> QED
  BY <1>3, <1>5, <1>8 DEF w

-----------------------------------------------------------------------------
(* The initial state. *)

\* Initial states satisfy the invariant.
LEMMA InitInv == Init => Inv
<1> SUFFICES ASSUME Init PROVE Inv
  OBVIOUS
<1>1. TypeOK
  BY ConstantsOK DEF Init, TypeOK, Steps
<1>2. \A m \in Manager : \A P : "idle" \notin P => At(m, P) = {}
  BY DEF Init, At
<1>3. QueueInv
  BY <1>2, EmptyLine, ZenonT(30) DEF Init, QueueInv
<1>4. CountInv
  <2>1. \A m \in Manager : /\ Counted(m, Holding) = 0
                           /\ Counted(m, Waiting) = 0 /\ Counted(m, Active) = 0
    BY <1>2, FS_EmptySet DEF Counted, Holding, Waiting, Active
  <2> QED
    BY <2>1 DEF Init, CountInv
<1>5. PlaceInv /\ LimitInv
  BY ConstantsOK DEF Init, PlaceInv, LimitInv, Manager
<1> QED
  BY <1>1, <1>3, <1>4, <1>5 DEF Inv

-----------------------------------------------------------------------------
(* Steps of one goroutine. *)

\* A goroutine that counts, waits or holds has a manager that exists.
LEMMA OwnManager ==
    ASSUME TypeOK, PlaceInv, NEW s \in Syncer, gcm[s] # 0 \/ pc[s] \notin {"idle", "sync"}
    PROVE  gcm[s] \in Manager /\ gcm[s] <= managers
BY ConstantsOK DEF TypeOK, PlaceInv, Manager

\* A step of s that leaves its manager alone.
LEMMA CountGoto ==
    ASSUME TypeOK, NEW s \in Syncer, NEW p \in Steps, gcm' = gcm, Goto(s, p), NEW m, NEW P
    PROVE  Counted(m, P)' =
               Counted(m, P) + One(gcm[s] = m /\ p \in P) - One(gcm[s] = m /\ pc[s] \in P)
<1>1. gcm[s] \in 0..MaxManagers /\ Moves(s, gcm[s], p)
  BY DEF TypeOK, Goto, Moves
<1> QED
  BY <1>1, CountMove

\* The first in a queue waits there, for that queue's manager.
LEMMA HeadWaits ==
    ASSUME TypeOK, QueueInv, NEW m \in Manager, queue[m] # <<>>
    PROVE  /\ Head(queue[m]) \in Syncer
           /\ gcm[Head(queue[m])] = m /\ pc[Head(queue[m])] = "queued"
<1>1. queue[m] \in Seq(Syncer)
  BY DEF TypeOK
<1> QED
  BY <1>1, TailLine DEF QueueInv, At

\* Giving a token back, or passing it on, keeps the tokens counted.
LEMMA CountPassOn ==
    ASSUME TypeOK, QueueInv, CountInv, NEW s \in Syncer, NEW p \in {"cancelled", "leave"},
           pc[s] = IF p = "leave" THEN "sync" ELSE "granted", gcm[s] \in Manager,
           PassOn(s, p), UNCHANGED <<gcm, waitingCount, activeCount>>
    PROVE  CountInv'
<1> USE DEF One, Holding, Waiting, Active
<1> DEFINE n == gcm[s]
<1>1. p \in Steps /\ "granted" \in Steps
  BY DEF Steps
<1>2. CASE queue[n] = <<>>
  <2>1. Goto(s, p) /\ held' = [held EXCEPT ![n] = @ - 1]
    BY <1>2 DEF PassOn
  <2>2. ASSUME NEW m \in Manager
        PROVE  /\ Counted(m, Holding)' = Counted(m, Holding) - One(n = m)
               /\ Counted(m, Waiting)' = Counted(m, Waiting)
               /\ Counted(m, Active)' = Counted(m, Active)
    BY <1>1, <2>1, CountGoto, CountedType
  <2> QED
    BY <2>1, <2>2, SMTT(30) DEF CountInv, TypeOK
<1>3. CASE queue[n] # <<>>
  <2> DEFINE t == Head(queue[n])
  <2>1. t \in Syncer /\ gcm[t] = n /\ pc[t] = "queued" /\ t # s
    BY <1>3, HeadWaits
  <2>2. BothMove(s, p, t, "granted") /\ held' = held
    BY <1>3 DEF PassOn, BothMove
  <2> HIDE DEF t
  <2>3. ASSUME NEW m \in Manager
        PROVE  /\ Counted(m, Holding)' = Counted(m, Holding)
               /\ Counted(m, Waiting)' = Counted(m, Waiting)
               /\ Counted(m, Active)' = Counted(m, Active)
    <3>1. \A P : Counted(m, P)' =
            Counted(m, P) + One(n = m /\ p \in P) - One(n = m /\ pc[s] \in P)
                          + One(n = m /\ "granted" \in P) - One(n = m /\ "queued" \in P)
      BY <1>1, <2>1, <2>2, CountHandOver
    <3> QED
      BY <3>1, CountedType
  <2> QED
    BY <2>2, <2>3 DEF CountInv
<1> QED
  BY <1>2, <1>3

\* Every step keeps tokens and counters exact.
LEMMA CountStep ==
    ASSUME Inv, [Next]_vars
    PROVE  CountInv'
<1> USE DEF One, Holding, Waiting, Active
<1>0. TypeOK /\ PlaceInv /\ QueueInv /\ CountInv
  BY DEF Inv
<1>1. CASE (\E l \in Limits : InitGlobalConcurrencyManager(l)) \/ UNCHANGED vars
  <2>1. UNCHANGED <<held, waitingCount, activeCount, gcm, pc>>
    BY <1>1 DEF InitGlobalConcurrencyManager, vars
  <2>2. \A m, P : Counted(m, P)' = Counted(m, P)
    BY <2>1 DEF Counted, At
  <2> QED
    BY <1>0, <2>1, <2>2 DEF CountInv
<1>2. ASSUME NEW s \in Syncer, GetGlobalConcurrencyManager(s)
      PROVE  CountInv'
  <2> DEFINE p == IF managers = 0 THEN "sync" ELSE "count"
  <2>1. Moves(s, managers, p) /\ managers \in 0..MaxManagers /\ p \in Steps
    BY <1>0, <1>2 DEF GetGlobalConcurrencyManager, Goto, Moves, TypeOK, Steps
  <2>2. ASSUME NEW m \in Manager
        PROVE  /\ Counted(m, Holding)' = Counted(m, Holding)
               /\ Counted(m, Waiting)' = Counted(m, Waiting)
               /\ Counted(m, Active)' = Counted(m, Active)
    <3>1. \A P : Counted(m, P)' = Counted(m, P) + One(managers = m /\ p \in P)
                                               - One(gcm[s] = m /\ pc[s] \in P)
      BY <1>0, <2>1, CountMove
    <3>2. pc[s] = "idle" /\ (p = "count" \/ managers # m)
      BY <1>2 DEF GetGlobalConcurrencyManager, Manager
    <3> HIDE DEF p
    <3> QED
      BY <3>1, <3>2, CountedType
  <2> QED
    BY <1>0, <1>2, <2>2 DEF GetGlobalConcurrencyManager, CountInv
<1>3. ASSUME NEW s \in Syncer, CountWaiting(s)
      PROVE  CountInv'
  <2>1. ASSUME NEW m \in Manager
        PROVE  /\ Counted(m, Holding)' = Counted(m, Holding)
               /\ Counted(m, Waiting)' = Counted(m, Waiting) + One(gcm[s] = m)
               /\ Counted(m, Active)' = Counted(m, Active)
    BY <1>0, <1>3, CountGoto, CountedType, SMTT(30) DEF CountWaiting, Steps
  <2> QED
    BY <1>0, <1>3, <2>1 DEF CountWaiting, CountInv, TypeOK
<1>4. ASSUME NEW s \in Syncer, SemaphoreAcquire(s)
      PROVE  CountInv'
  <2>1. CASE held' = [held EXCEPT ![gcm[s]] = @ + 1] /\ Goto(s, "granted")
    <3>1. ASSUME NEW m \in Manager
          PROVE  /\ Counted(m, Holding)' = Counted(m, Holding) + One(gcm[s] = m)
                 /\ Counted(m, Waiting)' = Counted(m, Waiting)
                 /\ Counted(m, Active)' = Counted(m, Active)
      BY <1>0, <1>4, <2>1, CountGoto, CountedType, SMTT(30) DEF SemaphoreAcquire, Steps
    <3> QED
      BY <1>0, <1>4, <2>1, <3>1 DEF SemaphoreAcquire, CountInv, TypeOK
  <2>2. CASE held' = held /\ Goto(s, "queued")
    <3>1. ASSUME NEW m \in Manager
          PROVE  /\ Counted(m, Holding)' = Counted(m, Holding)
                 /\ Counted(m, Waiting)' = Counted(m, Waiting)
                 /\ Counted(m, Active)' = Counted(m, Active)
      BY <1>0, <1>4, <2>2, CountGoto, CountedType, SMTT(30) DEF SemaphoreAcquire, Steps
    <3> QED
      BY <1>0, <1>4, <2>2, <3>1 DEF SemaphoreAcquire, CountInv
  <2> QED
    BY <1>4, <2>1, <2>2 DEF SemaphoreAcquire
<1>5. ASSUME NEW s \in Syncer, SemaphoreCancel(s)
      PROVE  CountInv'
  <2>1. CASE pc[s] = "queued" /\ Goto(s, "cancelled") /\ held' = held
    <3>1. ASSUME NEW m \in Manager
          PROVE  /\ Counted(m, Holding)' = Counted(m, Holding)
                 /\ Counted(m, Waiting)' = Counted(m, Waiting)
                 /\ Counted(m, Active)' = Counted(m, Active)
      BY <1>0, <1>5, <2>1, CountGoto, CountedType, SMTT(30) DEF SemaphoreCancel, Steps
    <3> QED
      BY <1>0, <1>5, <2>1, <3>1 DEF SemaphoreCancel, CountInv
  <2>2. CASE pc[s] = "granted" /\ PassOn(s, "cancelled")
    <3>1. gcm[s] \in Manager
      BY <1>0, <2>2, OwnManager
    <3> QED
      BY <1>0, <1>5, <2>2, <3>1, CountPassOn DEF SemaphoreCancel
  <2> QED
    BY <1>5, <2>1, <2>2 DEF SemaphoreCancel
<1>6. ASSUME NEW s \in Syncer, CountActive(s)
      PROVE  CountInv'
  <2>1. ASSUME NEW m \in Manager
        PROVE  /\ Counted(m, Holding)' = Counted(m, Holding)
               /\ Counted(m, Waiting)' = Counted(m, Waiting) - One(gcm[s] = m)
               /\ Counted(m, Active)' = Counted(m, Active) + One(gcm[s] = m)
    BY <1>0, <1>6, CountGoto, CountedType, SMTT(30) DEF CountActive, Steps
  <2> QED
    BY <1>0, <1>6, <2>1, SMTT(30) DEF CountActive, CountInv, TypeOK
<1>7. ASSUME NEW s \in Syncer, CountCancelled(s)
      PROVE  CountInv'
  <2>1. ASSUME NEW m \in Manager
        PROVE  /\ Counted(m, Holding)' = Counted(m, Holding)
               /\ Counted(m, Waiting)' = Counted(m, Waiting) - One(gcm[s] = m)
               /\ Counted(m, Active)' = Counted(m, Active)
    BY <1>0, <1>7, CountGoto, CountedType, SMTT(30) DEF CountCancelled, Steps
  <2> QED
    BY <1>0, <1>7, <2>1 DEF CountCancelled, CountInv, TypeOK
<1>8. ASSUME NEW s \in Syncer, SetGauge(s)
      PROVE  CountInv'
  <2> DEFINE h == IF pc[s] = "publish" THEN gcm[s] ELSE 0
             p == IF pc[s] = "publish" THEN "sync" ELSE "idle"
  <2>1. Moves(s, h, p) /\ h \in 0..MaxManagers /\ p \in Steps
    BY <1>0, <1>8, ConstantsOK DEF SetGauge, Goto, Moves, TypeOK, Steps
  <2>2. ASSUME NEW m \in Manager
        PROVE  /\ Counted(m, Holding)' = Counted(m, Holding)
               /\ Counted(m, Waiting)' = Counted(m, Waiting)
               /\ Counted(m, Active)' = Counted(m, Active)
    <3>1. \A P : Counted(m, P)' = Counted(m, P) + One(h = m /\ p \in P)
                                               - One(gcm[s] = m /\ pc[s] \in P)
      BY <1>0, <2>1, CountMove
    <3>2. \/ pc[s] = "publish" /\ p = "sync" /\ h = gcm[s]
          \/ pc[s] = "unpublish" /\ p = "idle"
      BY <1>8 DEF SetGauge
    <3> HIDE DEF p, h
    <3> QED
      BY <3>1, <3>2, CountedType
  <2> QED
    BY <1>0, <1>8, <2>2 DEF SetGauge, CountInv
<1>9. ASSUME NEW s \in Syncer, Release(s)
      PROVE  CountInv'
  <2>1. CASE gcm[s] = 0
    <3>1. ASSUME NEW m \in Manager
          PROVE  /\ Counted(m, Holding)' = Counted(m, Holding)
                 /\ Counted(m, Waiting)' = Counted(m, Waiting)
                 /\ Counted(m, Active)' = Counted(m, Active)
      <4>1. gcm[s] # m
        BY <2>1 DEF Manager
      <4> QED
        BY <1>0, <1>9, <2>1, <4>1, CountGoto, CountedType, SMTT(30) DEF Release, Steps
    <3> QED
      BY <1>0, <1>9, <2>1, <3>1 DEF Release, CountInv
  <2>2. CASE gcm[s] # 0
    <3>1. gcm[s] \in Manager
      BY <1>0, <2>2, OwnManager
    <3> QED
      BY <1>0, <1>9, <2>2, <3>1, CountPassOn DEF Release
  <2> QED
    BY <2>1, <2>2
<1>10. ASSUME NEW s \in Syncer, CountLeaving(s)
       PROVE  CountInv'
  <2>1. ASSUME NEW m \in Manager
        PROVE  /\ Counted(m, Holding)' = Counted(m, Holding)
               /\ Counted(m, Waiting)' = Counted(m, Waiting)
               /\ Counted(m, Active)' = Counted(m, Active) - One(gcm[s] = m)
    BY <1>0, <1>10, CountGoto, CountedType, SMTT(30) DEF CountLeaving, Steps
  <2> QED
    BY <1>0, <1>10, <2>1 DEF CountLeaving, CountInv, TypeOK
<1> QED
  BY <1>1, <1>2, <1>3, <1>4, <1>5, <1>6, <1>7, <1>8, <1>9, <1>10 DEF Next, Run

-----------------------------------------------------------------------------
(* Types, places, queues and limits. *)

\* The tokens are typed by what they count.
LEMMA HeldType ==
    ASSUME CountInv', held' \in [Manager -> Int]
    PROVE  held' \in [Manager -> Nat]
<1>1. \A m \in Manager : held'[m] = Counted(m, Holding)'
  BY DEF CountInv
<1>2. \A m : Counted(m, Holding)' \in Nat
  <2>1. \A m : IsFiniteSet(At(m, Holding)')
    BY ConstantsOK, FS_Subset DEF At
  <2> QED
    BY <2>1, FS_CardinalityType DEF Counted
<1> QED
  BY <1>1, <1>2

\* What PassOn does to the state's shape.
LEMMA PassOnType ==
    ASSUME TypeOK, QueueInv, NEW s \in Syncer, NEW p \in Steps, gcm[s] \in Manager,
           PassOn(s, p)
    PROVE  /\ held' \in [Manager -> Int] /\ queue' \in [Manager -> Seq(Syncer)]
           /\ pc' \in [Syncer -> Steps]
<1> DEFINE n == gcm[s]
<1>1. CASE queue[n] = <<>>
  <2>1. /\ held' = [held EXCEPT ![n] = held[n] - 1]
        /\ pc' = [pc EXCEPT ![s] = p] /\ queue' = queue
    BY <1>1 DEF PassOn, Goto
  <2>2. held \in [Manager -> Int] /\ held[n] - 1 \in Int
    BY DEF TypeOK
  <2>3. held' \in [Manager -> Int]
    BY <2>1, <2>2
  <2> QED
    BY <2>1, <2>3 DEF TypeOK
<1>2. CASE queue[n] # <<>>
  <2>1. queue[n] \in Seq(Syncer)
    BY DEF TypeOK
  <2>2. Tail(queue[n]) \in Seq(Syncer) /\ Head(queue[n]) \in Syncer
    BY <1>2, <2>1, HeadTailProperties
  <2>3. "granted" \in Steps
    BY DEF Steps, Holding
  <2>4. held' = held /\ held \in [Manager -> Int]
    BY <1>2 DEF PassOn, TypeOK
  <2>5. queue' \in [Manager -> Seq(Syncer)]
    BY <1>2, <2>2 DEF PassOn, TypeOK
  <2>6. pc' \in [Syncer -> Steps]
    BY <1>2, <2>2, <2>3, ZenonT(30) DEF PassOn, TypeOK
  <2> QED
    BY <2>4, <2>5, <2>6
<1> QED
  BY <1>1, <1>2

\* Every step keeps the types.
LEMMA TypeStep ==
    ASSUME Inv, [Next]_vars
    PROVE  TypeOK'
<1>0. TypeOK /\ PlaceInv /\ QueueInv
  BY DEF Inv
<1>1. ASSUME held' \in [Manager -> Int]
      PROVE  held' \in [Manager -> Nat]
  BY <1>1, CountStep, HeldType
<1>2. ASSUME NEW l \in Limits, InitGlobalConcurrencyManager(l)
      PROVE  TypeOK'
  <2>1. managers' \in 0..MaxManagers /\ l \in Nat /\ 0 \in Int
    BY <1>0, <1>2, ConstantsOK DEF InitGlobalConcurrencyManager, TypeOK
  <2>2. limit' \in [Manager -> Nat]
    BY <1>0, <1>2, <2>1 DEF InitGlobalConcurrencyManager, TypeOK
  <2> QED
    BY <1>0, <1>2, <2>1, <2>2 DEF InitGlobalConcurrencyManager, TypeOK
<1>3. ASSUME NEW s \in Syncer, GetGlobalConcurrencyManager(s)
      PROVE  TypeOK'
  BY <1>0, <1>3 DEF GetGlobalConcurrencyManager, Goto, TypeOK, Steps, Holding
<1>4. ASSUME NEW s \in Syncer, CountWaiting(s)
      PROVE  TypeOK'
  <2>0. gcm[s] \in Manager
    BY <1>0, <1>4, OwnManager DEF CountWaiting
  <2>1. waitingCount[gcm[s]] + 1 \in Int
    BY <1>0, <2>0 DEF TypeOK
  <2>2. waitingCount' \in [Manager -> Int]
    BY <1>0, <1>4, <2>1, ZenonT(30) DEF CountWaiting, TypeOK
  <2>3. pc' \in [Syncer -> Steps]
    BY <1>0, <1>4 DEF CountWaiting, Goto, TypeOK, Steps
  <2> QED
    BY <1>0, <1>4, <2>2, <2>3 DEF CountWaiting, TypeOK
<1>5. ASSUME NEW s \in Syncer, SemaphoreAcquire(s)
      PROVE  TypeOK'
  <2>1. gcm[s] \in Manager
    BY <1>0, <1>5, OwnManager DEF SemaphoreAcquire
  <2>2. Append(queue[gcm[s]], s) \in Seq(Syncer) /\ held[gcm[s]] + 1 \in Nat
    BY <1>0, <2>1 DEF TypeOK
  <2>3. queue' \in [Manager -> Seq(Syncer)] /\ held' \in [Manager -> Nat]
    BY <1>0, <1>5, <2>2 DEF SemaphoreAcquire, TypeOK
  <2>4. pc' \in [Syncer -> Steps]
    BY <1>0, <1>5, ZenonT(30) DEF SemaphoreAcquire, Goto, TypeOK, Steps, Holding
  <2> QED
    BY <1>0, <1>5, <2>3, <2>4 DEF SemaphoreAcquire, TypeOK
<1>6. ASSUME NEW s \in Syncer, SemaphoreCancel(s)
      PROVE  TypeOK'
  <2>1. gcm[s] \in Manager
    BY <1>0, <1>6, OwnManager DEF SemaphoreCancel
  <2>2. "cancelled" \in Steps
    BY DEF Steps
  <2>3. /\ held' \in [Manager -> Int] /\ queue' \in [Manager -> Seq(Syncer)]
        /\ pc' \in [Syncer -> Steps]
    <3>1. CASE PassOn(s, "cancelled")
      BY <1>0, <2>1, <2>2, <3>1, PassOnType
    <3>2. ASSUME NEW i \in 1..Len(queue[gcm[s]]),
                 queue' = [queue EXCEPT ![gcm[s]] = Without(@, i)],
                 Goto(s, "cancelled"), held' = held
          PROVE  /\ held' \in [Manager -> Int] /\ queue' \in [Manager -> Seq(Syncer)]
                 /\ pc' \in [Syncer -> Steps]
      <4>1. Without(queue[gcm[s]], i) \in Seq(Syncer)
        BY <1>0, <2>1, WithoutLine DEF TypeOK, QueueInv
      <4> QED
        BY <1>0, <2>1, <2>2, <3>2, <4>1 DEF Goto, TypeOK
    <3> QED
      BY <1>6, <3>1, <3>2 DEF SemaphoreCancel
  <2> QED
    BY <1>0, <1>1, <1>6, <2>3, ZenonT(30) DEF SemaphoreCancel, TypeOK
<1>7. ASSUME NEW s \in Syncer, CountActive(s)
      PROVE  TypeOK'
  <2>1. gcm[s] \in Manager
    BY <1>0, <1>7, OwnManager DEF CountActive
  <2> QED
    BY <1>0, <1>7, <2>1, SMTT(30) DEF CountActive, Goto, TypeOK, Steps, Holding
<1>8. ASSUME NEW s \in Syncer, CountCancelled(s)
      PROVE  TypeOK'
  <2>1. gcm[s] \in Manager
    BY <1>0, <1>8, OwnManager DEF CountCancelled
  <2> QED
    BY <1>0, <1>8, <2>1 DEF CountCancelled, Goto, TypeOK, Steps
<1>9. ASSUME NEW s \in Syncer, SetGauge(s)
      PROVE  TypeOK'
  BY <1>0, <1>9, ConstantsOK DEF SetGauge, Goto, TypeOK, Steps, Holding
<1>10. ASSUME NEW s \in Syncer, Release(s)
       PROVE  TypeOK'
  <2>1. CASE gcm[s] = 0
    BY <1>0, <1>10, <2>1 DEF Release, Goto, TypeOK, Steps
  <2>2. CASE gcm[s] # 0
    <3>1. gcm[s] \in Manager /\ "leave" \in Steps /\ PassOn(s, "leave")
      BY <1>0, <1>10, <2>2, OwnManager DEF Release, Steps
    <3>2. /\ held' \in [Manager -> Int] /\ queue' \in [Manager -> Seq(Syncer)]
          /\ pc' \in [Syncer -> Steps]
      BY <1>0, <3>1, PassOnType
    <3> QED
      BY <1>0, <1>1, <1>10, <3>2 DEF Release, TypeOK
  <2> QED
    BY <2>1, <2>2
<1>11. ASSUME NEW s \in Syncer, CountLeaving(s)
       PROVE  TypeOK'
  <2>1. gcm[s] \in Manager
    BY <1>0, <1>11, OwnManager DEF CountLeaving
  <2> QED
    BY <1>0, <1>11, <2>1, SMTT(30) DEF CountLeaving, Goto, TypeOK, Steps
<1>12. CASE UNCHANGED vars
  BY <1>0, <1>12 DEF vars, TypeOK
<1> QED
  BY <1>2, <1>3, <1>4, <1>5, <1>6, <1>7, <1>8, <1>9, <1>10, <1>11, <1>12 DEF Next, Run

\* Every step keeps goroutines with managers that exist.
LEMMA PlaceStep ==
    ASSUME Inv, [Next]_vars
    PROVE  PlaceInv'
<1>0. TypeOK /\ PlaceInv /\ QueueInv
  BY DEF Inv
<1>1. managers \in Nat /\ \A s \in Syncer : gcm[s] \in Nat
  BY <1>0, ConstantsOK DEF TypeOK
\* Only the caller moves, or also somebody who waited.
<1>2. ASSUME NEW s \in Syncer, NEW p, gcm[s] # 0 \/ p \in {"idle", "sync"},
             gcm' = gcm, managers' = managers, PassOn(s, p), gcm[s] \in Manager
      PROVE  PlaceInv'
  <2>1. CASE queue[gcm[s]] = <<>>
    BY <1>0, <1>2, <2>1 DEF PassOn, Goto, PlaceInv, TypeOK
  <2>2. CASE queue[gcm[s]] # <<>>
    <3> DEFINE t == Head(queue[gcm[s]])
    <3>1. t \in Syncer /\ gcm[t] = gcm[s] /\ gcm[s] # 0
      BY <1>0, <1>2, <2>2, HeadWaits, ConstantsOK DEF Manager
    <3>2. pc' = [pc EXCEPT ![s] = p, ![t] = "granted"]
      BY <1>2, <2>2 DEF PassOn
    <3> HIDE DEF t
    <3> QED
      BY <1>0, <1>2, <3>1, <3>2, ZenonT(30) DEF PlaceInv, TypeOK
  <2> QED
    BY <2>1, <2>2
<1>3. CASE UNCHANGED vars \/ \E l \in Limits : InitGlobalConcurrencyManager(l)
  <2>1. UNCHANGED <<gcm, pc>> /\ managers' \in {managers, managers + 1}
    BY <1>3 DEF vars, InitGlobalConcurrencyManager
  <2> QED
    BY <1>0, <1>1, <2>1 DEF PlaceInv
<1>4. ASSUME NEW s \in Syncer, GetGlobalConcurrencyManager(s)
      PROVE  PlaceInv'
  BY <1>0, <1>1, <1>4 DEF GetGlobalConcurrencyManager, Goto, PlaceInv, TypeOK
<1>5. ASSUME NEW s \in Syncer,
             CountWaiting(s) \/ SemaphoreAcquire(s) \/ CountActive(s)
                 \/ CountCancelled(s) \/ CountLeaving(s)
      PROVE  PlaceInv'
  BY <1>0, <1>5, ZenonT(30) DEF CountWaiting, SemaphoreAcquire, CountActive, CountCancelled, CountLeaving,
                    Goto, PlaceInv, TypeOK
<1>6. ASSUME NEW s \in Syncer, SemaphoreCancel(s)
      PROVE  PlaceInv'
  <2>1. gcm[s] \in Manager /\ gcm[s] # 0 /\ gcm' = gcm /\ managers' = managers
    BY <1>0, <1>6, OwnManager, ConstantsOK DEF SemaphoreCancel, Manager
  <2>2. CASE pc[s] = "queued"
    BY <1>0, <1>6, <2>1, <2>2, ZenonT(30) DEF SemaphoreCancel, Goto, PlaceInv, TypeOK
  <2>3. CASE pc[s] = "granted"
    BY <1>2, <1>6, <2>1, <2>3 DEF SemaphoreCancel
  <2> QED
    BY <1>6, <2>2, <2>3 DEF SemaphoreCancel
<1>7. ASSUME NEW s \in Syncer, SetGauge(s)
      PROVE  PlaceInv'
  BY <1>0, <1>1, <1>7 DEF SetGauge, Goto, PlaceInv, TypeOK
<1>8. ASSUME NEW s \in Syncer, Release(s)
      PROVE  PlaceInv'
  <2>1. CASE gcm[s] = 0
    BY <1>0, <1>8, <2>1, ZenonT(30) DEF Release, Goto, PlaceInv, TypeOK
  <2>2. CASE gcm[s] # 0
    BY <1>0, <1>2, <1>8, <2>2, OwnManager DEF Release
  <2> QED
    BY <2>1, <2>2
<1> QED
  BY <1>3, <1>4, <1>5, <1>6, <1>7, <1>8 DEF Next, Run

-----------------------------------------------------------------------------
(* Who waits in which queue. *)

\* A goroutine that neither was queued nor becomes so leaves the waiters alone.
LEMMA WaitersKept ==
    ASSUME TypeOK, NEW s \in Syncer, NEW h, NEW p, Moves(s, h, p),
           pc[s] # "queued", p # "queued", NEW m
    PROVE  At(m, {"queued"})' = At(m, {"queued"})
BY DEF TypeOK, Moves, At

\* PassOn takes the one it grants out of the queue and leaves other queues alone.
LEMMA QueuePassOn ==
    ASSUME TypeOK, QueueInv, NEW s \in Syncer, NEW p \in {"cancelled", "leave"},
           pc[s] # "queued", gcm[s] \in Manager, PassOn(s, p), gcm' = gcm
    PROVE  QueueInv'
<1> DEFINE n == gcm[s]
<1>1. CASE queue[n] = <<>>
  <2>1. Moves(s, n, p) /\ queue' = queue
    BY <1>1 DEF PassOn, Goto, Moves, TypeOK
  <2>2. \A m : At(m, {"queued"})' = At(m, {"queued"})
    BY <2>1, WaitersKept
  <2> QED
    BY <2>1, <2>2 DEF QueueInv
<1>2. CASE queue[n] # <<>>
  <2> DEFINE t == Head(queue[n])
  <2>1. t \in Syncer /\ gcm[t] = n /\ pc[t] = "queued" /\ t # s
    BY <1>2, HeadWaits
  <2>2. pc' = [pc EXCEPT ![s] = p, ![t] = "granted"] /\ queue' = [queue EXCEPT ![n] = Tail(@)]
    BY <1>2 DEF PassOn
  <2>3. /\ Distinct(Tail(queue[n])) /\ Waiters(Tail(queue[n])) = Waiters(queue[n]) \ {t}
    BY <1>2, TailLine DEF TypeOK, QueueInv
  <2> HIDE DEF t
  <2>4. At(n, {"queued"})' = At(n, {"queued"}) \ {t}
    BY <2>1, <2>2 DEF At, TypeOK
  <2>5. \A m : m # n => At(m, {"queued"})' = At(m, {"queued"})
    BY <2>1, <2>2 DEF At, TypeOK
  <2>6. queue'[n] = Tail(queue[n]) /\ \A m \in Manager : m # n => queue'[m] = queue[m]
    BY <2>2 DEF TypeOK
  <2> QED
    BY <2>3, <2>4, <2>5, <2>6 DEF QueueInv
<1> QED
  BY <1>1, <1>2

\* Every step keeps the queues those of who waits.
LEMMA QueueStep ==
    ASSUME Inv, [Next]_vars
    PROVE  QueueInv'
<1>0. TypeOK /\ PlaceInv /\ QueueInv
  BY DEF Inv
<1>1. ASSUME NEW s \in Syncer, NEW h, NEW p, Moves(s, h, p),
             pc[s] # "queued", p # "queued", queue' = queue
      PROVE  QueueInv'
  <2>1. \A m : At(m, {"queued"})' = At(m, {"queued"})
    BY <1>0, <1>1, WaitersKept
  <2> QED
    BY <1>0, <1>1, <2>1 DEF QueueInv
<1>2. CASE UNCHANGED vars \/ \E l \in Limits : InitGlobalConcurrencyManager(l)
  BY <1>0, <1>2 DEF vars, InitGlobalConcurrencyManager, QueueInv, At
<1>3. ASSUME NEW s \in Syncer, GetGlobalConcurrencyManager(s)
      PROVE  QueueInv'
  <2>1. Moves(s, managers, IF managers = 0 THEN "sync" ELSE "count")
    BY <1>3 DEF GetGlobalConcurrencyManager, Goto, Moves
  <2> QED
    BY <1>1, <1>3, <2>1 DEF GetGlobalConcurrencyManager
<1>4. ASSUME NEW s \in Syncer,
             CountWaiting(s) \/ CountActive(s) \/ CountCancelled(s) \/ CountLeaving(s)
      PROVE  QueueInv'
  <2>1. PICK p \in {"acquire", "publish", "unpublish"} : Goto(s, p)
    BY <1>4 DEF CountWaiting, CountActive, CountCancelled, CountLeaving
  <2>2. Moves(s, gcm[s], p)
    BY <1>0, <1>4, <2>1 DEF CountWaiting, CountActive, CountCancelled, CountLeaving,
                            Goto, Moves, TypeOK
  <2>3. pc[s] # "queued" /\ queue' = queue
    BY <1>4 DEF CountWaiting, CountActive, CountCancelled, CountLeaving
  <2> QED
    BY <1>1, <2>1, <2>2, <2>3
<1>5. ASSUME NEW s \in Syncer, SemaphoreAcquire(s)
      PROVE  QueueInv'
  <2> DEFINE n == gcm[s]
  <2>0. n \in Manager /\ pc[s] = "acquire" /\ gcm' = gcm
    BY <1>0, <1>5, OwnManager DEF SemaphoreAcquire
  <2>1. CASE Goto(s, "granted") /\ queue' = queue
    <3>1. Moves(s, n, "granted")
      BY <1>0, <2>0, <2>1 DEF Goto, Moves, TypeOK
    <3> QED
      BY <1>1, <2>0, <2>1, <3>1
  <2>2. CASE Goto(s, "queued") /\ queue' = [queue EXCEPT ![n] = Append(@, s)]
    <3>1. queue[n] \in Seq(Syncer) /\ s \notin Waiters(queue[n])
      BY <1>0, <2>0 DEF TypeOK, QueueInv, At
    <3>2. /\ Distinct(Append(queue[n], s))
          /\ Waiters(Append(queue[n], s)) = Waiters(queue[n]) \cup {s}
      BY <1>0, <2>0, <3>1, AppendLine DEF QueueInv
    <3>3. At(n, {"queued"})' = At(n, {"queued"}) \cup {s}
      BY <1>0, <2>0, <2>2 DEF At, Goto, TypeOK
    <3>4. \A m : m # n => At(m, {"queued"})' = At(m, {"queued"})
      BY <1>0, <2>0, <2>2 DEF At, Goto, TypeOK
    <3>5. queue'[n] = Append(queue[n], s) /\ \A m \in Manager : m # n => queue'[m] = queue[m]
      BY <1>0, <2>0, <2>2 DEF TypeOK
    <3> QED
      BY <1>0, <2>0, <3>2, <3>3, <3>4, <3>5, ZenonT(30) DEF QueueInv
  <2> QED
    BY <1>5, <2>1, <2>2 DEF SemaphoreAcquire
<1>6. ASSUME NEW s \in Syncer, SemaphoreCancel(s)
      PROVE  QueueInv'
  <2> DEFINE n == gcm[s]
  <2>0. n \in Manager /\ gcm' = gcm
    BY <1>0, <1>6, OwnManager DEF SemaphoreCancel
  <2>1. CASE pc[s] = "queued"
    <3>1. PICK i \in 1..Len(queue[n]) :
              queue[n][i] = s /\ queue' = [queue EXCEPT ![n] = Without(@, i)]
      BY <1>6, <2>1 DEF SemaphoreCancel
    <3>2. /\ Distinct(Without(queue[n], i))
          /\ Waiters(Without(queue[n], i)) = Waiters(queue[n]) \ {s}
      BY <1>0, <2>0, <3>1, WithoutLine DEF TypeOK, QueueInv
    <3>3. Goto(s, "cancelled")
      BY <1>6, <2>1 DEF SemaphoreCancel
    <3>4. At(n, {"queued"})' = At(n, {"queued"}) \ {s}
      BY <1>0, <2>0, <3>3 DEF At, Goto, TypeOK
    <3>5. \A m : m # n => At(m, {"queued"})' = At(m, {"queued"})
      BY <1>0, <2>0, <3>3 DEF At, Goto, TypeOK
    <3>6. queue'[n] = Without(queue[n], i) /\ \A m \in Manager : m # n => queue'[m] = queue[m]
      BY <1>0, <2>0, <3>1 DEF TypeOK
    <3> QED
      BY <1>0, <2>0, <3>2, <3>4, <3>5, <3>6 DEF QueueInv
  <2>2. CASE pc[s] = "granted"
    BY <1>0, <1>6, <2>0, <2>2, QueuePassOn DEF SemaphoreCancel
  <2> QED
    BY <1>6, <2>1, <2>2 DEF SemaphoreCancel
<1>7. ASSUME NEW s \in Syncer, SetGauge(s)
      PROVE  QueueInv'
  <2> DEFINE h == IF pc[s] = "publish" THEN gcm[s] ELSE 0
             p == IF pc[s] = "publish" THEN "sync" ELSE "idle"
  <2>1. Moves(s, h, p) /\ p # "queued"
    BY <1>7 DEF SetGauge, Goto, Moves
  <2> HIDE DEF h, p
  <2> QED
    BY <1>1, <1>7, <2>1 DEF SetGauge
<1>8. ASSUME NEW s \in Syncer, Release(s)
      PROVE  QueueInv'
  <2>1. CASE gcm[s] = 0
    <3>1. Moves(s, gcm[s], "idle")
      BY <1>0, <1>8, <2>1 DEF Release, Goto, Moves, TypeOK
    <3> QED
      BY <1>1, <1>8, <2>1, <3>1 DEF Release
  <2>2. CASE gcm[s] # 0
    BY <1>0, <1>8, <2>2, OwnManager, QueuePassOn DEF Release
  <2> QED
    BY <2>1, <2>2
<1> QED
  BY <1>2, <1>3, <1>4, <1>5, <1>6, <1>7, <1>8 DEF Next, Run

-----------------------------------------------------------------------------
(* Limits. *)

\* A manager that does not exist yet has nobody inside and nobody waiting.
LEMMA Unused ==
    ASSUME Inv, NEW m \in Manager, m > managers
    PROVE  held[m] = 0 /\ queue[m] = <<>>
<1>1. \A P : At(m, P) = {}
  BY ConstantsOK DEF Inv, TypeOK, PlaceInv, At, Manager
<1>2. held[m] = 0
  BY <1>1, FS_EmptySet DEF Inv, CountInv, Counted
<1>3. queue[m] = <<>>
  BY <1>1, NobodyWaits DEF Inv, QueueInv, TypeOK
<1> QED
  BY <1>2, <1>3

\* A token given back makes room, and one passed on is as taken as before.
LEMMA LimitPassOn ==
    ASSUME TypeOK, LimitInv, NEW s \in Syncer, NEW p, gcm[s] \in Manager, PassOn(s, p),
           UNCHANGED <<limit, managers>>
    PROVE  LimitInv'
<1> DEFINE n == gcm[s]
<1>1. CASE queue[n] = <<>>
  <2>1. /\ queue' = queue
        /\ held'[n] = held[n] - 1 /\ \A m \in Manager : m # n => held'[m] = held[m]
    BY <1>1 DEF PassOn, TypeOK
  <2>2. \A m \in Manager : held[m] \in Nat /\ limit[m] \in Nat
    BY DEF TypeOK
  <2> QED
    BY <1>1, <2>1, <2>2 DEF LimitInv
<1>2. CASE queue[n] # <<>>
  <2>1. held' = held /\ \A m \in Manager : m # n => queue'[m] = queue[m]
    BY <1>2 DEF PassOn, TypeOK
  <2> QED
    BY <1>2, <2>1 DEF LimitInv
<1> QED
  BY <1>1, <1>2

\* Every step keeps to the limits and leaves no slot idle.
LEMMA LimitStep ==
    ASSUME Inv, [Next]_vars
    PROVE  LimitInv'
<1>0. TypeOK /\ PlaceInv /\ QueueInv /\ LimitInv
  BY DEF Inv
<1>1. /\ managers \in Nat /\ \A m \in Manager : held[m] \in Nat /\ limit[m] \in Nat
      /\ \A m \in Manager : m \in Nat \ {0}
  BY <1>0, ConstantsOK DEF TypeOK, Manager
<1>2. ASSUME NEW l \in Limits, InitGlobalConcurrencyManager(l)
      PROVE  LimitInv'
  <2> DEFINE n == managers + 1
  <2>1. n \in Manager /\ l \in Nat /\ l # 0
    BY <1>1, <1>0, <1>2, ConstantsOK DEF InitGlobalConcurrencyManager, Manager, TypeOK
  <2>2. held[n] = 0 /\ queue[n] = <<>>
    BY <1>1, <2>1, Unused
  <2>3. limit'[n] = l /\ \A m \in Manager : m # n => limit'[m] = limit[m]
    BY <1>0, <1>2, <2>1 DEF InitGlobalConcurrencyManager, TypeOK
  <2>4. managers' = n /\ held' = held /\ queue' = queue
    BY <1>2 DEF InitGlobalConcurrencyManager
  <2>5. ASSUME NEW m \in Manager
        PROVE  /\ limit'[m] # 0 <=> m <= managers'
               /\ held'[m] <= limit'[m]
               /\ queue'[m] # <<>> => held'[m] = limit'[m]
    <3>1. CASE m = n
      BY <1>1, <2>1, <2>2, <2>3, <2>4, <3>1
    <3>2. CASE m # n
      BY <1>0, <1>1, <2>3, <2>4, <3>2 DEF LimitInv
    <3> QED
      BY <3>1, <3>2
  <2> QED
    BY <2>5 DEF LimitInv
<1>3. ASSUME NEW s \in Syncer,
             \/ GetGlobalConcurrencyManager(s) \/ CountWaiting(s) \/ CountActive(s)
             \/ CountCancelled(s) \/ CountLeaving(s) \/ SetGauge(s)
      PROVE  LimitInv'
  <2>1. UNCHANGED <<managers, limit, held, queue>>
    BY <1>3 DEF GetGlobalConcurrencyManager, CountWaiting, CountActive, CountCancelled,
                CountLeaving, SetGauge
  <2> QED
    BY <1>0, <2>1 DEF LimitInv
<1>4. ASSUME NEW s \in Syncer, SemaphoreAcquire(s)
      PROVE  LimitInv'
  <2> DEFINE n == gcm[s]
  <2>0. n \in Manager /\ UNCHANGED <<managers, limit>>
    BY <1>0, <1>4, OwnManager DEF SemaphoreAcquire
  <2>1. CASE held[n] < limit[n] /\ queue[n] = <<>>
    <3>1. /\ queue' = queue
          /\ held'[n] = held[n] + 1 /\ \A m \in Manager : m # n => held'[m] = held[m]
      BY <1>0, <1>4, <2>0, <2>1 DEF SemaphoreAcquire, TypeOK
    <3> QED
      BY <1>0, <1>1, <2>0, <2>1, <3>1 DEF LimitInv
  \* Full, or with others waiting, in which case it was full already.
  <2>2. CASE ~(held[n] < limit[n] /\ queue[n] = <<>>)
    <3>1. held' = held /\ \A m \in Manager : m # n => queue'[m] = queue[m]
      BY <1>0, <1>4, <2>0, <2>2 DEF SemaphoreAcquire, TypeOK
    <3>2. held[n] = limit[n]
      BY <1>0, <1>1, <2>0, <2>2 DEF LimitInv
    <3> QED
      BY <1>0, <2>0, <3>1, <3>2 DEF LimitInv
  <2> QED
    BY <2>1, <2>2
<1>5. ASSUME NEW s \in Syncer, SemaphoreCancel(s)
      PROVE  LimitInv'
  <2> DEFINE n == gcm[s]
  <2>0. n \in Manager /\ UNCHANGED <<managers, limit>>
    BY <1>0, <1>5, OwnManager DEF SemaphoreCancel
  <2>1. CASE pc[s] = "queued"
    <3>1. /\ held' = held /\ queue[n] # <<>>
          /\ \A m \in Manager : m # n => queue'[m] = queue[m]
      BY <1>0, <1>5, <2>0, <2>1 DEF SemaphoreCancel, TypeOK
    <3> QED
      BY <1>0, <2>0, <3>1 DEF LimitInv
  <2>2. CASE pc[s] = "granted"
    BY <1>0, <1>5, <2>0, <2>2, LimitPassOn DEF SemaphoreCancel
  <2> QED
    BY <1>5, <2>1, <2>2 DEF SemaphoreCancel
<1>6. ASSUME NEW s \in Syncer, Release(s)
      PROVE  LimitInv'
  <2>1. CASE gcm[s] = 0
    BY <1>0, <1>6, <2>1 DEF Release, LimitInv
  <2>2. CASE gcm[s] # 0
    BY <1>0, <1>6, <2>2, OwnManager, LimitPassOn DEF Release
  <2> QED
    BY <2>1, <2>2
<1>7. CASE UNCHANGED vars
  BY <1>0, <1>7 DEF vars, LimitInv
<1> QED
  BY <1>2, <1>3, <1>4, <1>5, <1>6, <1>7 DEF Next, Run

-----------------------------------------------------------------------------
(* Theorems. *)

\* The invariant is inductive.
LEMMA InvHolds == Spec => []Inv
<1>1. Inv /\ [Next]_vars => Inv'
  BY CountStep, TypeStep, PlaceStep, QueueStep, LimitStep DEF Inv
<1> QED
  BY InitInv, <1>1, PTL DEF Spec

\* Type correctness: in particular a semaphore's tokens never go below zero,
\* although PassOn subtracts without looking.
THEOREM TypeCorrect == Spec => []TypeOK
<1>1. Inv => TypeOK
  BY DEF Inv
<1> QED
  BY <1>1, InvHolds, PTL

\* Acquire and Release neither leak nor invent tokens and keep every manager
\* within its limit, replaced managers included.
THEOREM ExactSlots == Spec => []SlotsExact
<1>1. Inv => SlotsExact
  <2> SUFFICES ASSUME Inv, NEW m \in 1..managers
               PROVE  held[m] = Cardinality(Inside(m)) /\ held[m] <= limit[m]
    BY DEF SlotsExact
  <2>1. m \in Manager
    BY ConstantsOK DEF Inv, TypeOK, Manager
  <2> QED
    BY <2>1 DEF Inv, CountInv, LimitInv, Counted, At, Inside
<1> QED
  BY <1>1, InvHolds, PTL

\* waitingCount and activeCount, changed in separate critical sections, count
\* those who have counted themselves in and not yet out.
THEOREM ExactCounters == Spec => []CountersExact
<1>1. Inv => CountersExact
  BY ZenonT(30) DEF Inv, CountInv, CountersExact, Counted, At, Waiting, Active
<1> QED
  BY <1>1, InvHolds, PTL

\* Nobody waits in a manager's queue while one of its slots is free.
THEOREM BusySlots == Spec => []NoIdleSlot
<1>1. Inv => NoIdleSlot
  <2> SUFFICES ASSUME Inv, NEW m \in 1..managers, queue[m] # <<>>
               PROVE  held[m] = limit[m]
    BY DEF NoIdleSlot
  <2>1. m \in Manager
    BY ConstantsOK DEF Inv, TypeOK, Manager
  <2> QED
    BY <2>1 DEF Inv, LimitInv
<1> QED
  BY <1>1, InvHolds, PTL

-----------------------------------------------------------------------------
(* Each manager implements SyncSlots. *)

\* Who asks and who is inside after s moved to step p.
LEMMA SetsMove ==
    ASSUME TypeOK, NEW s \in Syncer, NEW h, NEW p, Moves(s, h, p), NEW m
    PROVE  /\ Asking(m)' = IF h = m /\ p \in {"acquire", "queued"}
                              THEN Asking(m) \cup {s} ELSE Asking(m) \ {s}
           /\ Inside(m)' = IF h = m /\ p \in Holding
                              THEN Inside(m) \cup {s} ELSE Inside(m) \ {s}
<1>1. CASE h = m /\ p \in {"acquire", "queued"}
  BY <1>1 DEF TypeOK, Moves, Asking, Inside, Holding
<1>2. CASE h = m /\ p \in Holding
  BY <1>2 DEF TypeOK, Moves, Asking, Inside, Holding
<1>3. CASE ~(h = m /\ p \in {"acquire", "queued"}) /\ ~(h = m /\ p \in Holding)
  BY <1>3 DEF TypeOK, Moves, Asking, Inside
<1> QED
  BY <1>1, <1>2, <1>3

\* A goroutine that stays outside, or stays inside, is not seen by SyncSlots.
LEMMA Unseen ==
    ASSUME TypeOK, NEW s \in Syncer, NEW h, NEW p, Moves(s, h, p), limit' = limit, NEW m,
           s \in Asking(m) <=> h = m /\ p \in {"acquire", "queued"},
           s \in Inside(m) <=> h = m /\ p \in Holding
    PROVE  UNCHANGED Slots(m)!vars
<1>1. Asking(m)' = Asking(m) /\ Inside(m)' = Inside(m)
  BY SetsMove
<1> QED
  BY <1>1 DEF Slots!vars

\* A token given back is a Leave, one passed on a HandOver.
LEMMA PassOnSlots ==
    ASSUME TypeOK, QueueInv, NEW s \in Syncer, NEW p \in {"cancelled", "leave"},
           pc[s] \in Holding, gcm[s] \in Manager, PassOn(s, p), UNCHANGED <<gcm, limit>>,
           NEW m \in Manager
    PROVE  Slots(m)!Next \/ UNCHANGED Slots(m)!vars
<1> DEFINE n == gcm[s]
<1>1. CASE queue[n] = <<>>
  <2>1. Moves(s, n, p) /\ p \notin Holding \cup {"acquire", "queued"}
    BY <1>1 DEF PassOn, Goto, Moves, TypeOK, Holding
  <2>2. Asking(m)' = Asking(m) \ {s} /\ Inside(m)' = Inside(m) \ {s}
    BY <2>1, SetsMove
  <2>3. s \notin Asking(m) /\ (s \in Inside(m) <=> m = n)
    BY DEF Asking, Inside, Holding
  <2>4. CASE m = n
    <3>1. Slots(m)!Leave(s)
      BY <2>2, <2>3, <2>4 DEF Slots!Leave
    <3> QED
      BY <3>1 DEF Slots!Next
  <2>5. CASE m # n
    BY <2>2, <2>3, <2>5 DEF Slots!vars
  <2> QED
    BY <2>4, <2>5
<1>2. CASE queue[n] # <<>>
  <2> DEFINE t == Head(queue[n])
  <2>1. t \in Syncer /\ gcm[t] = n /\ pc[t] = "queued" /\ t # s
    BY <1>2, HeadWaits DEF Holding
  <2>2. pc' = [pc EXCEPT ![s] = p, ![t] = "granted"]
    BY <1>2 DEF PassOn
  <2> HIDE DEF t
  <2>3. CASE m = n
    <3>1. s \in Inside(m) /\ t \in Asking(m)
      BY <2>1, <2>3 DEF Inside, Asking
    <3>2. Asking(m)' = Asking(m) \ {t}
      BY <2>1, <2>2, <2>3 DEF Asking, TypeOK, Holding
    <3>3. Inside(m)' = (Inside(m) \ {s}) \cup {t}
      BY <2>1, <2>2, <2>3 DEF Inside, TypeOK, Holding
    <3>4. Slots(m)!HandOver(s, t)
      BY <3>1, <3>2, <3>3 DEF Slots!HandOver
    <3> QED
      BY <2>1, <3>4 DEF Slots!Next
  <2>4. CASE m # n
    <3>1. Asking(m)' = Asking(m) /\ Inside(m)' = Inside(m)
      BY <2>1, <2>2, <2>4 DEF Asking, Inside, TypeOK
    <3> QED
      BY <3>1 DEF Slots!vars
  <2> QED
    BY <2>3, <2>4
<1> QED
  BY <1>1, <1>2

\* Every step is a step of SyncSlots, or none, for every manager.
LEMMA SlotsStep ==
    ASSUME Inv, [Next]_vars, NEW m \in Manager
    PROVE  Slots(m)!Next \/ UNCHANGED Slots(m)!vars
<1>0. TypeOK /\ PlaceInv /\ QueueInv /\ CountInv /\ LimitInv /\ m \in Nat \ {0}
  BY ConstantsOK DEF Inv, Manager
<1>1. ASSUME NEW l \in Limits, InitGlobalConcurrencyManager(l)
      PROVE  Slots(m)!Next \/ UNCHANGED Slots(m)!vars
  <2>1. Asking(m)' = Asking(m) /\ Inside(m)' = Inside(m)
    BY <1>1 DEF InitGlobalConcurrencyManager, Asking, Inside
  <2>2. CASE m = managers + 1
    <3>1. limit[m] = 0
      BY <1>0, <2>2, ConstantsOK DEF LimitInv, TypeOK
    <3>2. limit'[m] = l /\ l \in Nat \ {0}
      BY <1>0, <1>1, <2>2, ConstantsOK DEF InitGlobalConcurrencyManager, TypeOK
    <3>3. Slots(m)!Open
      BY <2>1, <3>1, <3>2 DEF Slots!Open
    <3> QED
      BY <3>3 DEF Slots!Next
  <2>3. CASE m # managers + 1
    <3>1. limit'[m] = limit[m]
      BY <1>0, <1>1, <2>3 DEF InitGlobalConcurrencyManager, TypeOK
    <3> QED
      BY <2>1, <3>1 DEF Slots!vars
  <2> QED
    BY <2>2, <2>3
<1>2. ASSUME NEW s \in Syncer, GetGlobalConcurrencyManager(s)
      PROVE  UNCHANGED Slots(m)!vars
  <2> DEFINE p == IF managers = 0 THEN "sync" ELSE "count"
  <2>1. Moves(s, managers, p) /\ limit' = limit
    BY <1>2 DEF GetGlobalConcurrencyManager, Goto, Moves
  <2>2. s \notin Asking(m) /\ s \notin Inside(m)
    BY <1>2 DEF GetGlobalConcurrencyManager, Asking, Inside, Holding
  <2>3. ~(managers = m /\ p \in {"acquire", "queued"}) /\ ~(managers = m /\ p \in Holding)
    BY <1>0 DEF Holding
  <2> HIDE DEF p
  <2> QED
    BY <1>0, <2>1, <2>2, <2>3, Unseen
<1>3. ASSUME NEW s \in Syncer, CountWaiting(s)
      PROVE  Slots(m)!Next \/ UNCHANGED Slots(m)!vars
  <2>0. gcm[s] \in Manager /\ gcm[s] <= managers
    BY <1>0, <1>3, OwnManager DEF CountWaiting
  <2>1. Moves(s, gcm[s], "acquire") /\ limit' = limit
    BY <1>0, <1>3 DEF CountWaiting, Goto, Moves, TypeOK
  <2>2. s \notin Asking(m) /\ s \notin Inside(m)
    BY <1>3 DEF CountWaiting, Asking, Inside, Holding
  <2>3. "acquire" \notin Holding
    BY DEF Holding
  <2>4. CASE gcm[s] = m
    <3>1. Asking(m)' = Asking(m) \cup {s} /\ Inside(m)' = Inside(m)
      BY <1>0, <2>1, <2>2, <2>3, <2>4, SetsMove
    <3>2. limit[m] # 0
      BY <1>0, <2>0, <2>4 DEF LimitInv
    <3>3. Slots(m)!Ask(s)
      BY <2>1, <2>2, <3>1, <3>2 DEF Slots!Ask
    <3> QED
      BY <3>3 DEF Slots!Next
  <2>5. CASE gcm[s] # m
    BY <1>0, <2>1, <2>2, <2>5, Unseen
  <2> QED
    BY <2>4, <2>5
<1>4. ASSUME NEW s \in Syncer, SemaphoreAcquire(s)
      PROVE  Slots(m)!Next \/ UNCHANGED Slots(m)!vars
  <2>0. /\ gcm[s] \in Manager /\ limit' = limit
        /\ s \in Asking(m) <=> gcm[s] = m
        /\ s \notin Inside(m)
    BY <1>0, <1>4, OwnManager DEF SemaphoreAcquire, Asking, Inside, Holding
  <2>1. CASE held[gcm[s]] < limit[gcm[s]] /\ Goto(s, "granted")
    <3>1. Moves(s, gcm[s], "granted") /\ "granted" \in Holding
      BY <1>0, <1>4, <2>1 DEF SemaphoreAcquire, Goto, Moves, TypeOK, Holding
    <3>2. CASE gcm[s] = m
      <4>1. Asking(m)' = Asking(m) \ {s} /\ Inside(m)' = Inside(m) \cup {s}
        BY <1>0, <3>1, <3>2, SetsMove
      <4>2. held[m] = Cardinality(Inside(m))
        BY <1>0, ZenonT(30) DEF CountInv, Counted, At, Inside
      <4>3. Slots(m)!Cardinality(Inside(m)) = Cardinality(Inside(m))
        BY DEF Slots!Cardinality, Cardinality
      <4>4. Slots(m)!Enter(s)
        BY <2>0, <2>1, <3>2, <4>1, <4>2, <4>3 DEF Slots!Enter
      <4> QED
        BY <4>4 DEF Slots!Next
    <3>3. CASE gcm[s] # m
      BY <1>0, <2>0, <3>1, <3>3, Unseen
    <3> QED
      BY <3>2, <3>3
  <2>2. CASE Goto(s, "queued")
    <3>1. Moves(s, gcm[s], "queued") /\ "queued" \notin Holding
      BY <1>0, <1>4, <2>2 DEF SemaphoreAcquire, Goto, Moves, TypeOK, Holding
    <3> QED
      BY <1>0, <2>0, <3>1, Unseen
  <2> QED
    BY <1>4, <2>1, <2>2 DEF SemaphoreAcquire
<1>5. ASSUME NEW s \in Syncer, SemaphoreCancel(s)
      PROVE  Slots(m)!Next \/ UNCHANGED Slots(m)!vars
  <2>0. gcm[s] \in Manager /\ UNCHANGED <<gcm, limit>>
    BY <1>0, <1>5, OwnManager DEF SemaphoreCancel
  <2>1. CASE pc[s] = "queued"
    <3>1. Moves(s, gcm[s], "cancelled") /\ "cancelled" \notin Holding
      BY <1>0, <1>5, <2>1 DEF SemaphoreCancel, Goto, Moves, TypeOK, Holding
    <3>2. (s \in Asking(m) <=> gcm[s] = m) /\ s \notin Inside(m)
      BY <2>1 DEF Asking, Inside, Holding
    <3>3. Asking(m)' = Asking(m) \ {s} /\ Inside(m)' = Inside(m)
      BY <1>0, <3>1, <3>2, SetsMove
    <3>4. CASE gcm[s] = m
      <4>1. Slots(m)!GiveUp(s)
        BY <2>0, <3>2, <3>3, <3>4 DEF Slots!GiveUp
      <4> QED
        BY <4>1 DEF Slots!Next
    <3>5. CASE gcm[s] # m
      BY <2>0, <3>2, <3>3, <3>5 DEF Slots!vars
    <3> QED
      BY <3>4, <3>5
  <2>2. CASE pc[s] = "granted"
    <3>1. PassOn(s, "cancelled") /\ pc[s] \in Holding
      BY <1>5, <2>2 DEF SemaphoreCancel, Holding
    <3> QED
      BY <1>0, <2>0, <3>1, PassOnSlots
  <2> QED
    BY <1>5, <2>1, <2>2 DEF SemaphoreCancel
<1>6. ASSUME NEW s \in Syncer,
             CountActive(s) \/ CountCancelled(s) \/ CountLeaving(s) \/ SetGauge(s)
      PROVE  UNCHANGED Slots(m)!vars
  <2> DEFINE h == IF pc[s] = "unpublish" THEN 0 ELSE gcm[s]
             p == CASE pc[s] = "granted" -> "publish" [] pc[s] = "publish" -> "sync"
                    [] pc[s] = "unpublish" -> "idle" [] OTHER -> "unpublish"
  <2>1. Moves(s, h, p) /\ limit' = limit
    BY <1>0, <1>6, ZenonT(30) DEF CountActive, CountCancelled, CountLeaving, SetGauge, Goto, Moves, TypeOK
  <2>2. /\ s \in Asking(m) <=> h = m /\ p \in {"acquire", "queued"}
        /\ s \in Inside(m) <=> h = m /\ p \in Holding
    BY <1>0, <1>6 DEF CountActive, CountCancelled, CountLeaving, SetGauge,
                      Asking, Inside, Holding
  <2> HIDE DEF h, p
  <2> QED
    BY <1>0, <2>1, <2>2, Unseen
<1>7. ASSUME NEW s \in Syncer, Release(s)
      PROVE  Slots(m)!Next \/ UNCHANGED Slots(m)!vars
  <2>1. CASE gcm[s] = 0
    <3>1. Moves(s, 0, "idle") /\ limit' = limit
      BY <1>0, <1>7, <2>1 DEF Release, Goto, Moves, TypeOK
    <3>2. s \notin Asking(m) /\ s \notin Inside(m)
      BY <1>0, <2>1 DEF Asking, Inside
    <3> QED
      BY <1>0, <3>1, <3>2, Unseen
  <2>2. CASE gcm[s] # 0
    <3>1. gcm[s] \in Manager /\ PassOn(s, "leave") /\ pc[s] \in Holding
      BY <1>0, <1>7, <2>2, OwnManager DEF Release, Holding
    <3>2. UNCHANGED <<gcm, limit>>
      BY <1>7 DEF Release
    <3> QED
      BY <1>0, <3>1, <3>2, PassOnSlots
  <2> QED
    BY <2>1, <2>2
<1>8. CASE UNCHANGED vars
  BY <1>8 DEF vars, Slots!vars, Asking, Inside
<1> QED
  BY <1>1, <1>2, <1>3, <1>4, <1>5, <1>6, <1>7, <1>8 DEF Next, Run

\* Seen through who asks and who is inside, every manager's semaphore, queue,
\* counters and cancellations are a SyncSlots: entries stay within the limit,
\* and a slot is left, or handed straight to one who waits.
THEOREM Refinement == Spec => ManagersAreSlots
<1>1. Init => \A m \in Manager : Slots(m)!Init
  <2> SUFFICES ASSUME Init, NEW m \in Manager
               PROVE  Slots(m)!Init
    OBVIOUS
  <2>1. Asking(m) = {} /\ Inside(m) = {} /\ limit[m] = 0
    BY DEF Init, Asking, Inside, Holding
  <2> QED
    BY <2>1 DEF Slots!Init
<1>2. Inv /\ [Next]_vars =>
        [\A m \in Manager : Slots(m)!Next \/ UNCHANGED Slots(m)!vars]_vars
  BY SlotsStep
<1> QED
  BY <1>1, <1>2, InvHolds, PTL DEF Spec, ManagersAreSlots
=============================================================================
