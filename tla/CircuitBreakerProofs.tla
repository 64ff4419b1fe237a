------------------------ MODULE CircuitBreakerProofs ------------------------
(***************************************************************************)
(* Proofs about module CircuitBreaker, for any number of callers and any   *)
(* limits.                                                                 *)
(***************************************************************************)
EXTENDS CircuitBreaker, TLAPS

\* The counters mirror the runs of reports: failures is the current run of
\* failures while the breaker is closed, and successes is part of the current
\* run of successes while it is half-open.
BreakerInv ==
    /\ BreakerTypeOK
    /\ state = "closed" => failures = failRun /\ failRun < MaxConsecutiveFailures
    /\ state = "halfOpen" => successes <= goodRun

LEMMA BreakerInitOK == BreakerInit => BreakerInv
<1> SUFFICES ASSUME BreakerInit PROVE BreakerInv
  OBVIOUS
<1>1. cooled \in BOOLEAN /\ healthy \in BOOLEAN
  BY DEF BreakerInit
<1>2. /\ state = "closed" /\ failures = 0 /\ successes = 0 /\ failRun = 0 /\ goodRun = 0
      /\ call \in [Callers -> {"idle", "risky", "safe"}]
  BY DEF BreakerInit
<1>3. QED
  BY <1>1, <1>2, BreakerAssumption DEF BreakerInv, BreakerTypeOK

LEMMA BreakerStep == BreakerInv /\ [BreakerNext]_breakerVars => BreakerInv'
<1> SUFFICES ASSUME BreakerInv, [BreakerNext]_breakerVars PROVE BreakerInv'
  OBVIOUS
<1> USE BreakerAssumption DEF BreakerInv, BreakerTypeOK
<1>1. ASSUME NEW c \in Callers, Begin(c) PROVE BreakerInv'
  BY <1>1 DEF Begin, CheckState
<1>2. ASSUME NEW c \in Callers, ReportFailure(c) PROVE BreakerInv'
  <2>1. cooled' \in BOOLEAN /\ healthy' \in BOOLEAN
    BY <1>2 DEF ReportFailure, OnFailure
  <2>2. call' \in [Callers -> {"idle", "risky", "safe"}]
    BY <1>2 DEF ReportFailure
  <2>3. /\ goodRun' = 0
        /\ failRun' = IF failRun + 1 < MaxConsecutiveFailures THEN failRun + 1
                                                              ELSE MaxConsecutiveFailures
    BY <1>2 DEF ReportFailure, UpTo
  <2>4. \/ /\ state = "closed"
           /\ failures' = failures + 1 /\ successes' = successes
           /\ state' = IF failures + 1 >= MaxConsecutiveFailures THEN "open" ELSE "closed"
        \/ state' = "open" /\ failures' = MaxConsecutiveFailures /\ successes' = 0
        \/ state' = "open" /\ failures' = failures /\ successes' = successes
    BY <1>2 DEF ReportFailure, OnFailure, Trips
  <2>5. QED
    BY <2>1, <2>2, <2>3, <2>4
<1>3. ASSUME NEW c \in Callers, ReportSuccess(c) PROVE BreakerInv'
  BY <1>3 DEF ReportSuccess, OnSuccess, UpTo, ClosedSuccess, ProbeSuccess
<1>4. CASE ReadState
  BY <1>4 DEF ReadState, CheckState
<1>5. CASE Reset
  BY <1>5 DEF Reset
<1>6. CASE CooldownPasses
  BY <1>6 DEF CooldownPasses
<1>7. CASE Heal
  BY <1>7 DEF Heal
<1>8. CASE UNCHANGED breakerVars
  BY <1>8 DEF breakerVars
<1>9. QED
  BY <1>1, <1>2, <1>3, <1>4, <1>5, <1>6, <1>7, <1>8 DEF BreakerNext

LEMMA BreakerInvariant == BreakerSpec => []BreakerInv
BY BreakerInitOK, BreakerStep, PTL DEF BreakerSpec

\* The counters stay within their limits for any number of overlapping calls, also
\* of calls that report into another state than the one they began in: a half-open
\* breaker never has counted as many successes as would close it.
THEOREM BreakerTypeCorrect == BreakerSpec => []BreakerTypeOK
<1>1. BreakerInv => BreakerTypeOK
  BY DEF BreakerInv
<1>2. QED
  BY <1>1, BreakerInvariant, PTL

\* The breaker is never closed after MaxConsecutiveFailures failures in a row.
THEOREM ClosedIsBelowLimit == BreakerSpec => []ClosedBelowLimit
<1>1. BreakerInv => ClosedBelowLimit
  BY DEF BreakerInv, ClosedBelowLimit
<1>2. QED
  BY <1>1, BreakerInvariant, PTL

\* It opens only on a full run of failures, however the reports of concurrent
\* calls are ordered.
THEOREM TripsOnlyOnRun == BreakerSpec => TripsOnRunOfFailures
<1>1. BreakerInv /\ [BreakerNext]_breakerVars =>
         [state = "closed" /\ state' = "open" => failRun' = MaxConsecutiveFailures]_breakerVars
  <2> SUFFICES ASSUME BreakerInv, BreakerNext, state = "closed", state' = "open"
               PROVE  failRun' = MaxConsecutiveFailures
    BY DEF breakerVars
  <2> USE BreakerAssumption DEF BreakerInv, BreakerTypeOK
  <2>1. PICK c \in Callers : ReportFailure(c)
    BY DEF BreakerNext, Begin, CheckState, ReportSuccess, OnSuccess, ReadState, Reset,
       CooldownPasses, Heal, ClosedSuccess, ProbeSuccess
  <2>2. failures + 1 >= MaxConsecutiveFailures
    BY <2>1 DEF ReportFailure, OnFailure, Trips
  <2>3. QED
    BY <2>1, <2>2 DEF ReportFailure, UpTo
<1>2. QED
  BY <1>1, BreakerInvariant, PTL DEF BreakerSpec, TripsOnRunOfFailures

\* It closes only on a full run of successes, unless it is reset.
THEOREM ClosesOnlyOnRun == BreakerSpec => ClosesOnRunOfSuccesses
<1>1. BreakerInv /\ [BreakerNext]_breakerVars =>
         [state # "closed" /\ state' = "closed" =>
            Reset \/ (state = "halfOpen" /\ goodRun' = HalfOpenMaxSuccess)]_breakerVars
  <2> SUFFICES ASSUME BreakerInv, BreakerNext, state # "closed", state' = "closed", ~Reset
               PROVE  state = "halfOpen" /\ goodRun' = HalfOpenMaxSuccess
    BY DEF breakerVars
  <2> USE BreakerAssumption DEF BreakerInv, BreakerTypeOK
  <2>1. PICK c \in Callers : ReportSuccess(c)
    BY DEF BreakerNext, Begin, CheckState, ReportFailure, OnFailure, ReadState,
       CooldownPasses, Heal
  <2>2. state = "halfOpen" /\ successes + 1 >= HalfOpenMaxSuccess
    BY <2>1 DEF ReportSuccess, OnSuccess, ClosedSuccess, ProbeSuccess
  <2>3. QED
    BY <2>1, <2>2 DEF ReportSuccess, UpTo
<1>2. QED
  BY <1>1, BreakerInvariant, PTL DEF BreakerSpec, ClosesOnRunOfSuccesses

=============================================================================
