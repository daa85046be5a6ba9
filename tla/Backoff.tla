------------------------------ MODULE Backoff ------------------------------
(***************************************************************************)
(* util.CalculateBackoff (pkg/util/backoff.go), with the 64-bit arithmetic *)
(* the Go code computes in.  The failure count it is given only ever grows *)
(* (ClusterMapping.tla), so the large arguments are reached by waiting.    *)
(*                                                                         *)
(* A delay is in hundredths of a second.  One second is 10^9 = 5^9 * 2^9   *)
(* nanoseconds, so 2^k seconds in int64 are the low 55 - k bits of 5^9,    *)
(* read as a signed number, times 2^(k+9).                                 *)
(***************************************************************************)
EXTENDS Integers

MaxDelay == 30000
Negative == -1        \* stands for every negative duration
Five9 == 1953125

Least(a, b) == IF a < b THEN a ELSE b

\* The signed value of the bits of 5^9 that survive the shift by k.
Wrapped(k) ==
    IF k >= 55 THEN 0
    ELSE IF k <= 33 THEN Five9
    ELSE LET bits == 55 - k
             low  == Five9 % 2^bits
         IN  IF low >= 2^(bits - 1) THEN low - 2^bits ELSE low

\* Whether the jittered product leaves int64; the conversion back from
\* float64 is then up to the platform.
Overflows(k, j) == k >= 30 /\ k < 55 /\ Wrapped(k) * j >= 100 * 2^(54 - k)

\* The delays CalculateBackoff(n) may return with jitter factor j.
CalculateBackoff(n, j) ==
    IF n <= 0 THEN {0}
    ELSE LET k == n - 1
         IN  IF k <= 20 THEN {Least(2^k * j, MaxDelay)}
             ELSE IF Wrapped(k) = 0 THEN {0}
             ELSE IF Wrapped(k) < 0 THEN {Negative}
             ELSE IF Overflows(k, j) THEN {MaxDelay, Negative}
             ELSE {MaxDelay}

-----------------------------------------------------------------------------
\* One second, doubled once for every failure after the first.
Doubled[n \in Nat] ==
    IF n <= 1 THEN 100 * n ELSE Least(2 * Doubled[n - 1], 10 * MaxDelay)

\* The jitter factors in percent, and counts up to where every bit of the
\* second has been shifted out.
JitterFactors == 80..119
Counts == 0..70

\* The delays for count n: repeated doubling up to 33 failures; from there on
\* bits are lost and the cap is not kept to.  The delay is negative at 35
\* failures, zero from 56 on, and in between never more than the cap.
DelaysAre(n) ==
    \A j \in JitterFactors :
        /\ n <= 33 => CalculateBackoff(n, j) =
                          {Least((Doubled[n] * j) \div 100, MaxDelay)}
        /\ n = 35 => CalculateBackoff(n, j) = {Negative}
        /\ n >= 56 => CalculateBackoff(n, j) = {0}
        /\ \A d \in CalculateBackoff(n, j) : Negative <= d /\ d <= MaxDelay

\* Every delay CalculateBackoff can return for a count in ns.
DelaysFor(ns) == UNION {CalculateBackoff(n, j) : n \in ns, j \in JitterFactors}
=============================================================================
