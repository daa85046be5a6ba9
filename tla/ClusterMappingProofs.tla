------------------------ MODULE ClusterMappingProofs ------------------------
(***************************************************************************)
(* Proofs about the ClusterMapping controller, for any sets of agents, any *)
(* bound on the failure count, any delays and any periods.                 *)
(***************************************************************************)
EXTENDS ClusterMapping, WellFoundedInduction, TLAPS

Object == [paused : BOOLEAN, verify : BOOLEAN, phase : Phases,
           failures : 0..MaxFailures, attempt : Int, verified : Int]

Timer == {Never} \cup (Nat \ {0})

Types == obj \in Object /\ cache \in Object /\ timer \in Timer

\* Whether or not the stored spec is paused: it may be resumed before the cache
\* has seen the pause, and then no event follows.
WakeupInv == ~cache.paused /\ obj.phase # "Failed" => queued \/ timer # Never

Inv == Types /\ WakeupInv

-----------------------------------------------------------------------------
(* The longest delay exists. *)

\* A set of naturals that is not empty has a least element.
LEMMA LeastNatural ==
    ASSUME NEW T \in SUBSET Nat, T # {}
    PROVE  \E x \in T : \A y \in T : x <= y
<1> DEFINE R == {ss \in Nat \X Nat : ss[1] < ss[2]}
<1>1. IsWellFoundedOn(R, Nat)
  BY NatLessThanWellFounded, Zenon DEF OpToRel
<1> HIDE DEF R
<1>2. PICK x \in T : \A y \in T : <<y, x>> \notin R
  BY <1>1, WFMin
<1>3. ASSUME NEW y \in T
      PROVE  x <= y
  <2>1. y < x => <<y, x>> \in R
    BY DEF R
  <2> QED
    BY <1>2, <2>1
<1> QED
  BY <1>3

\* A bounded set of integers that is not empty has a greatest element.
LEMMA GreatestInteger ==
    ASSUME NEW S \in SUBSET Int, S # {}, NEW b \in Int, \A x \in S : x <= b
    PROVE  \E x \in S : \A y \in S : y <= x
<1> DEFINE T == {n \in Nat : b - n \in S}
<1>1. \A x \in S : b - x \in T
  OBVIOUS
<1>2. T # {} /\ T \in SUBSET Nat
  BY <1>1
<1>3. PICK n \in T : \A m \in T : n <= m
  BY <1>2, LeastNatural
<1>4. b - n \in S /\ n \in Nat
  OBVIOUS
<1>5. ASSUME NEW y \in S
      PROVE  y <= b - n
  <2>1. n <= b - y
    BY <1>1, <1>3
  <2> QED
    BY <1>4, <2>1
<1> QED
  BY <1>4, <1>5

\* The constants a timer or a status is set to have their types.
LEMMA ConstantTypes ==
    /\ LongestWait \in Int /\ Longest \in Int /\ Hour \in Int /\ Hour > 0
    /\ FailedDelay \in Int /\ FailedDelay > 0
    /\ \A n \in 0..MaxFailures : Delays[n] \in SUBSET Int
<1>1. /\ Longest \in Int /\ Hour \in Int /\ Hour > 0
      /\ FailedDelay \in Int /\ FailedDelay > 0
  BY MappingConstants DEF Longest
<1>2. \A n \in 0..MaxFailures : Delays[n] \in SUBSET (Never..Hour)
  BY MappingConstants
<1>3. LongestWait \in Int
  <2> DEFINE S == UNION {Delays[n] : n \in 0..MaxFailures}
  <2>1. S \in SUBSET Int /\ \A x \in S : x <= Hour
    BY <1>1, <1>2 DEF Never
  <2>2. 0 \in S
    BY MappingConstants
  <2>3. PICK x \in S : \A y \in S : y <= x
    BY <1>1, <2>1, <2>2, GreatestInteger
  <2>4. x \in S /\ \A n \in 0..MaxFailures : \A e \in Delays[n] : e <= x
    BY <2>3
  <2>5. LongestWait \in S
    BY <2>4 DEF LongestWait
  <2> QED
    BY <2>1, <2>5
<1> QED
  BY <1>1, <1>2, <1>3 DEF Never

-----------------------------------------------------------------------------
(* The delays of CalculateBackoff. *)

\* The seconds of the first twelve failures; after them the reference is capped.
Seconds == <<1, 2, 4, 8, 16, 32, 64, 128, 256, 512, 1024, 2048>>
Ladder ==
    [n \in Nat |-> IF n = 0 THEN 0 ELSE IF n <= 12 THEN 100 * Seconds[n] ELSE 10 * MaxDelay]

\* The equation that defines the reference, and the values it gives: they are
\* a solution of it, so the function that is defined by it exists.
LEMMA DoubledValues == \A n \in Nat : Doubled[n] = Ladder[n]
<1> DEFINE Right(f) ==
        f = [n \in Nat |-> IF n <= 1 THEN 100 * n ELSE Least(2 * f[n - 1], 10 * MaxDelay)]
<1>1. \A n \in Nat : Ladder[n] =
          IF n <= 1 THEN 100 * n ELSE Least(2 * Ladder[n - 1], 10 * MaxDelay)
  <2> SUFFICES ASSUME NEW n \in Nat
               PROVE  Ladder[n] = IF n <= 1 THEN 100 * n
                                  ELSE Least(2 * Ladder[n - 1], 10 * MaxDelay)
    OBVIOUS
  <2> USE DEF Ladder, Least, MaxDelay
  <2>1. CASE n <= 1
    BY <2>1 DEF Seconds
  <2>2. CASE n \in 2..12
    BY <2>2 DEF Seconds
  <2>3. CASE n >= 13
    BY <2>3 DEF Seconds
  <2> QED
    BY <2>1, <2>2, <2>3
<1>2. Right(Ladder)
  BY <1>1 DEF Ladder
<1>3. Doubled = CHOOSE f : Right(f)
  BY DEF Doubled
<1> HIDE DEF Right
<1>4. Right(Doubled)
  BY <1>2, <1>3
<1>5. \A n \in Nat : Doubled[n] =
          IF n <= 1 THEN 100 * n ELSE Least(2 * Doubled[n - 1], 10 * MaxDelay)
  BY <1>4 DEF Right
<1> DEFINE Wrong == {n \in Nat : Doubled[n] # Ladder[n]}
<1>6. ASSUME Wrong # {}
      PROVE  FALSE
  <2>1. PICK n \in Wrong : \A x \in Wrong : n <= x
    BY <1>6, LeastNatural
  <2>2. n \in Nat /\ Doubled[n] # Ladder[n]
    BY <2>1
  <2>3. CASE n <= 1
    BY <1>1, <1>5, <2>2, <2>3
  <2>4. CASE n >= 2
    <3>1. n - 1 \in Nat /\ Doubled[n - 1] = Ladder[n - 1]
      BY <2>1, <2>2, <2>4
    <3> QED
      BY <1>1, <1>5, <2>2, <2>4, <3>1
  <2> QED
    BY <2>2, <2>3, <2>4
<1> QED
  BY <1>6

Power(k) == 2^k

\* The powers that the shift and the width of int64 come down to.
LEMMA Shifted ==
    /\ \A n \in 1..12 : Power(n - 1) = Seconds[n]
    /\ \A k \in 12..24 : Power(k) \in Nat /\ Power(k) >= 4096
    /\ \A k \in 22..24 : Power(k) >= 4194304
<1>1. /\ Power(0) = 1 /\ Power(1) = 2 /\ Power(2) = 4 /\ Power(3) = 8 /\ Power(4) = 16
      /\ Power(5) = 32 /\ Power(6) = 64 /\ Power(7) = 128 /\ Power(8) = 256
      /\ Power(9) = 512 /\ Power(10) = 1024 /\ Power(11) = 2048
  BY DEF Power
<1>2. /\ Power(12) = 4096 /\ Power(13) = 8192 /\ Power(14) = 16384 /\ Power(15) = 32768
      /\ Power(16) = 65536 /\ Power(17) = 131072 /\ Power(18) = 262144
      /\ Power(19) = 524288 /\ Power(20) = 1048576 /\ Power(21) = 2097152
      /\ Power(22) = 4194304 /\ Power(23) = 8388608 /\ Power(24) = 16777216
  BY DEF Power
<1>3. \A n \in 1..12 : Power(n - 1) = Seconds[n]
  BY <1>1 DEF Seconds
<1>4. /\ \A k \in 12..24 : Power(k) \in Nat /\ Power(k) >= 4096
      /\ \A k \in 22..24 : Power(k) >= 4194304
  BY <1>2
<1> QED
  BY <1>3, <1>4

\* The products of the first 33 counts stay within int64.
LEMMA NoWrap ==
    ASSUME NEW k \in 21..32, NEW j \in JitterFactors
    PROVE  Wrapped(k) = Five9 /\ ~Overflows(k, j)
<1>1. Wrapped(k) = Five9
  BY DEF Wrapped
<1>2. CASE k < 30
  BY <1>1, <1>2 DEF Overflows
<1>3. CASE k \in 30..32
  <2>1. Power(54 - k) \in Nat /\ Power(54 - k) >= 4194304
    <3>1. 54 - k \in 22..24
      BY <1>3
    <3> QED
      BY <3>1, Shifted
  <2>2. Overflows(k, j) => Five9 * j >= 100 * Power(54 - k)
    BY <1>1 DEF Overflows, Power
  <2>3. ~(Five9 * j >= 100 * Power(54 - k))
    BY <2>1 DEF Five9, JitterFactors
  <2> QED
    BY <1>1, <2>2, <2>3
<1> QED
  BY <1>1, <1>2, <1>3

\* The delays CalculateBackoff may return, for every failure count: doubling up
\* to 33 failures, then also negative ones, which leave a mapping without a
\* timer, and zero from 56 failures on.  The cap that backoff_test.go expects of
\* every count from 10 on is kept up to 33.
THEOREM EveryDelay == \A n \in Nat : DelaysAre(n)
<1> SUFFICES ASSUME NEW n \in Nat, NEW j \in JitterFactors
             PROVE  /\ n <= 33 => CalculateBackoff(n, j) =
                                      {Least((Doubled[n] * j) \div 100, MaxDelay)}
                    /\ n = 35 => CalculateBackoff(n, j) = {Negative}
                    /\ n >= 56 => CalculateBackoff(n, j) = {0}
                    /\ \A d \in CalculateBackoff(n, j) : Negative <= d /\ d <= MaxDelay
  BY DEF DelaysAre
<1>r. Negative <= 0 /\ 0 <= MaxDelay /\ Negative <= MaxDelay
  BY DEF Negative, MaxDelay
<1>j. j \in Int /\ j >= 80 /\ j <= 119
  BY DEF JitterFactors
<1>1. CASE n = 0
  <2>1. Doubled[n] = 0
    BY <1>1, DoubledValues DEF Ladder
  <2>2. CalculateBackoff(n, j) = {0}
    BY <1>1 DEF CalculateBackoff
  <2> QED
    BY <1>1, <1>j, <1>r, <2>1, <2>2 DEF Least, MaxDelay
<1>2. CASE n \in 1..12
  <2> DEFINE s == Seconds[n]
  <2>1. s \in Nat
    BY <1>2 DEF Seconds
  <2>2. Doubled[n] = 100 * s
    BY <1>2, DoubledValues DEF Ladder
  <2>3. CalculateBackoff(n, j) = {Least(s * j, MaxDelay)}
    <3>1. CalculateBackoff(n, j) = {Least(Power(n - 1) * j, MaxDelay)}
      BY <1>2 DEF CalculateBackoff, Power
    <3> QED
      BY <1>2, <3>1, Shifted
  <2> HIDE DEF s
  <2>4. s * j \in Nat /\ (100 * s) * j = 100 * (s * j)
    BY <1>j, <2>1
  <2>5. (Doubled[n] * j) \div 100 = s * j
    BY <2>2, <2>4
  <2> QED
    <3> DEFINE x == s * j
    <3>0. x \in Nat
      BY <2>4
    <3> HIDE DEF x
    <3>1. Negative <= Least(x, MaxDelay) /\ Least(x, MaxDelay) <= MaxDelay
      BY <3>0 DEF Least, MaxDelay, Negative
    <3>2. n # 35 /\ ~(n >= 56)
      BY <1>2
    <3>3. \A d \in CalculateBackoff(n, j) : Negative <= d /\ d <= MaxDelay
      BY <2>3, <3>1 DEF x
    <3>4. CalculateBackoff(n, j) = {Least((Doubled[n] * j) \div 100, MaxDelay)}
      BY <2>3, <2>5
    <3> QED
      BY <3>2, <3>3, <3>4
<1>3. CASE n \in 13..33
  <2>1. Least((Doubled[n] * j) \div 100, MaxDelay) = MaxDelay
    <3>1. Doubled[n] = 300000
      BY <1>3, DoubledValues DEF Ladder, MaxDelay
    <3> QED
      BY <1>j, <3>1 DEF Least, MaxDelay
  <2>2. CASE n <= 21
    <3>1. n - 1 \in 12..20
      BY <1>3, <2>2
    <3> DEFINE p == Power(n - 1)
    <3>2. CalculateBackoff(n, j) = {Least(p * j, MaxDelay)}
      BY <1>3, <2>2 DEF CalculateBackoff, Power
    <3>3. p \in Nat /\ p >= 4096
      BY <3>1, Shifted
    <3> HIDE DEF p
    <3>4. p * j \in Int /\ p * j >= 4096 * 80
      BY <1>j, <3>3
    <3>5. Least(p * j, MaxDelay) = MaxDelay
      BY <3>4 DEF Least, MaxDelay
    <3> QED
      BY <1>3, <1>r, <2>1, <3>2, <3>5 DEF MaxDelay
  <2>3. CASE n > 21
    <3>1. n - 1 \in 21..32
      BY <1>3, <2>3
    <3>2. CalculateBackoff(n, j) = {MaxDelay}
      BY <1>3, <2>3, <3>1, NoWrap DEF CalculateBackoff, Five9
    <3> QED
      BY <1>3, <1>r, <2>1, <3>2 DEF MaxDelay
  <2> QED
    BY <1>3, <2>2, <2>3
<1>4. CASE n >= 34
  <2>1. CalculateBackoff(n, j) \subseteq {0, Negative, MaxDelay}
    BY <1>4 DEF CalculateBackoff
  <2>2. n = 35 => CalculateBackoff(n, j) = {Negative}
    <3>1. Wrapped(34) < 0
      BY DEF Wrapped, Five9
    <3> QED
      BY <3>1 DEF CalculateBackoff
  <2>3. n >= 56 => CalculateBackoff(n, j) = {0}
    <3>1. n >= 56 => Wrapped(n - 1) = 0
      BY DEF Wrapped
    <3> QED
      BY <3>1 DEF CalculateBackoff
  <2> QED
    BY <1>4, <2>1, <2>2, <2>3 DEF MaxDelay, Negative
<1> QED
  BY <1>1, <1>2, <1>3, <1>4

-----------------------------------------------------------------------------
\* Initial states satisfy the invariant.
LEMMA InitInv == Init => Inv
<1> SUFFICES ASSUME Init PROVE Inv
  OBVIOUS
<1>1. Never \in Int /\ 0 \in 0..MaxFailures
  BY MappingConstants DEF Never
<1>2. obj \in Object
  <2>1. PICK v \in BOOLEAN :
          obj = [paused |-> FALSE, verify |-> v, phase |-> "", failures |-> 0,
                 attempt |-> Never, verified |-> Never]
    BY DEF Init
  <2> QED
    BY <1>1, <2>1 DEF Object, Phases
<1> QED
  BY <1>2 DEF Init, Inv, Types, Timer, WakeupInv

\* RequeueAfter with a positive delay sets a timer; one that runs is not lost.
LEMMA AfterEffect ==
    ASSUME Types, NEW d \in Int, After(d)
    PROVE  /\ timer' \in Timer
           /\ d > 0 => timer' # Never
BY DEF Types, Timer, After, Never, Least

\* The object as stored by updateLastAttemptTimeWithRetry.
LEMMA AttemptedType ==
    ASSUME Types, NEW base \in Attempted
    PROVE  base \in Object /\ base.paused = obj.paused /\ base.phase = obj.phase
<1>1. [obj EXCEPT !.attempt = 0] \in Object
  BY DEF Types, Object
<1> QED
  BY <1>1 DEF Attempted, Types, Object

\* The object with the outcome of a connectivity test.
LEMMA VerifiedType ==
    ASSUME NEW base \in Object, NEW ok
    PROVE  [base EXCEPT !.verified = 0, !.phase = IF ok THEN "Connected" ELSE "Failed"]
               \in Object
<1> DEFINE p == IF ok THEN "Connected" ELSE "Failed"
           stamped == [base EXCEPT !.verified = 0]
<1>1. p \in Phases
  BY DEF Phases
<1>2. stamped \in Object
  BY DEF Object
<1> HIDE DEF p, stamped
<1>3. [stamped EXCEPT !.phase = p] \in Object
  BY <1>1, <1>2 DEF Object
<1> QED
  BY <1>3 DEF p, stamped

\* What every handler of a phase leaves: well-formed copies, and a wake-up unless
\* the mapping is Failed.
Handled ==
    /\ obj' \in Object /\ cache' \in Object /\ timer' \in Timer
    /\ queued' \/ timer' # Never \/ obj'.phase = "Failed"

\* A status update with RequeueAfter, whether it succeeds or loses its answer.
LEMMA UpdateAfter ==
    ASSUME Types, NEW base \in Object, NEW new \in Object, NEW d \in Int,
           d > 0 \/ new.phase = "Failed",
           updateStatusWithRetry(base, new, After(d))
    PROVE  Handled
<1>1. CASE obj' = new /\ cache' = base /\ After(d)
  BY <1>1, AfterEffect DEF Handled
<1>2. CASE obj' \in {base, new} /\ cache' \in {cache, base} /\ Again
  BY <1>2 DEF Again, Handled, Types
<1> QED
  BY <1>1, <1>2 DEF updateStatusWithRetry

\* A status update that asks to be queued at once.
LEMMA UpdateAgain ==
    ASSUME Types, NEW base \in Object, NEW new \in Object,
           updateStatusWithRetry(base, new, Again)
    PROVE  Handled
BY DEF updateStatusWithRetry, Again, Handled, Types

\* setFailedStatus: a status update that counts a failure and asks for a delay.
LEMMA SetFailed ==
    ASSUME Types, NEW base \in Object, setFailedStatus(base)
    PROVE  Handled
<1> DEFINE new == [base EXCEPT !.phase = "Failed", !.failures = Least(@ + 1, MaxFailures)]
<1>1. new \in Object /\ new.phase = "Failed"
  <2>1. Least(base.failures + 1, MaxFailures) \in 0..MaxFailures
    BY MappingConstants DEF Least, Object
  <2> QED
    BY <2>1 DEF Object, Phases
<1>2. PICK d \in Delays[cache.failures] : updateStatusWithRetry(base, new, After(d))
  BY DEF setFailedStatus
<1>3. d \in Int
  BY ConstantTypes DEF Types, Object
<1> HIDE DEF new
<1> QED
  BY <1>1, <1>2, <1>3, UpdateAfter

\* Every handler ends as Handled says.
LEMMA HandlersHandle ==
    ASSUME Types, \/ ReconcileNew \/ handlePendingPhase \/ handleConnectingPhase
                  \/ handleConnectedPhase \/ handleFailedPhase
    PROVE  Handled
<1>1. CASE ReconcileNew
  <2>1. PICK base \in Attempted :
          updateStatusWithRetry(base, [base EXCEPT !.phase = "Pending"], Again)
    BY <1>1 DEF ReconcileNew
  <2>2. base \in Object /\ [base EXCEPT !.phase = "Pending"] \in Object
    BY AttemptedType DEF Object, Phases
  <2> QED
    BY <2>1, <2>2, UpdateAgain
<1>2. CASE handlePendingPhase
  <2>1. PICK base \in Attempted :
          \/ setFailedStatus(base)
          \/ updateStatusWithRetry(base, [base EXCEPT !.phase = "Connecting"], Again)
    BY <1>2 DEF handlePendingPhase
  <2>2. base \in Object /\ [base EXCEPT !.phase = "Connecting"] \in Object
    BY AttemptedType DEF Object, Phases
  <2> QED
    BY <2>1, <2>2, SetFailed, UpdateAgain
<1>3. CASE handleConnectingPhase
  <2> DEFINE New(base, ok) ==
               [base EXCEPT !.verified = 0, !.phase = IF ok THEN "Connected" ELSE "Failed"]
             Wait(ok) == IF ok THEN Hour ELSE FailedDelay
             ok == cache.verify => verifyConnectivity
  <2>1. PICK base \in Attempted :
          \/ setFailedStatus(base)
          \/ updateStatusWithRetry(base, New(base, ok), After(Wait(ok)))
    BY <1>3 DEF handleConnectingPhase
  <2>2. base \in Object
    BY AttemptedType
  <2>3. New(base, ok) \in Object
    BY <2>2, VerifiedType
  <2>4. Wait(ok) \in Int /\ Wait(ok) > 0
    BY ConstantTypes
  <2> HIDE DEF New, Wait, ok
  <2> QED
    BY <2>1, <2>2, <2>3, <2>4, SetFailed, UpdateAfter
<1>4. CASE handleConnectedPhase
  <2> DEFINE New(base) ==
               [base EXCEPT !.verified = 0,
                            !.phase = IF verifyConnectivity THEN "Connected" ELSE "Failed"]
  <2>1. PICK base \in Attempted :
          \/ obj' = base /\ cache' \in {cache, obj} /\ After(Hour)
          \/ setFailedStatus(base)
          \/ updateStatusWithRetry(base, New(base), After(Hour))
    BY <1>4 DEF handleConnectedPhase
  <2>2. base \in Object
    BY AttemptedType
  <2>3. New(base) \in Object
    BY <2>2, VerifiedType
  <2>4. CASE obj' = base /\ cache' \in {cache, obj} /\ After(Hour)
    BY <2>2, <2>4, ConstantTypes, AfterEffect DEF Handled, Types
  <2> HIDE DEF New
  <2> QED
    BY <2>1, <2>2, <2>3, <2>4, ConstantTypes, SetFailed, UpdateAfter
<1>5. CASE handleFailedPhase
  <2>1. PICK base \in Attempted :
          updateStatusWithRetry(base, [base EXCEPT !.phase = "Pending"], After(FailedDelay))
    BY <1>5 DEF handleFailedPhase
  <2>2. base \in Object /\ [base EXCEPT !.phase = "Pending"] \in Object
    BY AttemptedType DEF Object, Phases
  <2> QED
    BY <2>1, <2>2, ConstantTypes, UpdateAfter
<1> QED
  BY <1>1, <1>2, <1>3, <1>4, <1>5

\* Time passes.
LEMMA AgedType ==
    ASSUME NEW o \in Object
    PROVE  Aged(o) \in Object /\ Aged(o).paused = o.paused /\ Aged(o).phase = o.phase
<1>1. Older(o.attempt, LongestWait) \in Int /\ Older(o.verified, Longest) \in Int
  BY ConstantTypes DEF Older, Least, Object, Never
<1> QED
  BY <1>1 DEF Aged, Object

\* Every step keeps the invariant.
LEMMA NextInv ==
    ASSUME Inv, [Next]_vars
    PROVE  Inv'
<1> USE DEF Inv
<1>1. CASE ReconcileTooSoon
  <2>1. PICK d \in Delays[cache.failures] : TooSoon(d) /\ After(d - cache.attempt)
    BY <1>1 DEF ReconcileTooSoon
  <2>2. d - cache.attempt \in Int /\ d - cache.attempt > 0
    BY <2>1, ConstantTypes DEF TooSoon, Types, Object
  <2> QED
    BY <1>1, <2>1, <2>2, AfterEffect DEF ReconcileTooSoon, Types, WakeupInv
<1>2. CASE ReconcilePaused
  BY <1>2 DEF ReconcilePaused, After, Types, WakeupInv
<1>3. CASE \/ ReconcileNew \/ handlePendingPhase \/ handleConnectingPhase
           \/ handleConnectedPhase \/ handleFailedPhase
  BY <1>3, HandlersHandle DEF Handled, Types, WakeupInv
<1>4. CASE CacheSync
  BY <1>4 DEF CacheSync, Types, Object, WakeupInv
<1>5. CASE EditSpec
  BY <1>5 DEF EditSpec, Types, Object, WakeupInv
<1>6. CASE findClusterMappings \/ WorldChanges \/ Outage \/ Restart \/ UNCHANGED vars
  BY <1>6 DEF findClusterMappings, WorldChanges, Outage, Restart, vars, Types, Timer,
     WakeupInv
<1>7. CASE Tick
  <2>1. obj' \in Object /\ cache' \in Object
        /\ cache'.paused = cache.paused /\ obj'.phase = obj.phase
    BY <1>7, AgedType DEF Tick, Types
  <2>2. timer' \in Timer /\ (timer # Never /\ timer # 1 => timer' # Never)
    BY <1>7 DEF Tick, Types, Timer, Never
  <2>3. queued \/ timer = 1 => queued'
    BY <1>7, Zenon DEF Tick
  <2> QED
    BY <2>1, <2>2, <2>3 DEF Types, WakeupInv
<1> QED
  BY <1>1, <1>2, <1>3, <1>4, <1>5, <1>6, <1>7 DEF Next, Controller, Environment, Reconcile

\* No mapping is forgotten: one that is neither paused nor Failed has a wake-up
\* coming, whatever was lost, read too early or interrupted by a restart.
THEOREM Wakeups == Spec => []NoLostWakeup
<1>1. Inv => NoLostWakeup
  BY DEF Inv, WakeupInv, NoLostWakeup
<1> QED
  BY <1>1, InitInv, NextInv, PTL DEF Spec
=============================================================================
