---------------------------- MODULE CircuitBreaker ----------------------------
(***************************************************************************)
(* internal/resilience/circuitbreaker.go: the breaker that ShardRouter     *)
(* puts in front of Redis and Service in front of NATS, shared by every    *)
(* goroutine of the process.                                               *)
(*                                                                         *)
(* Execute holds the mutex before the operation and again after it, not    *)
(* during it, so a call may report into another state than the one it      *)
(* began in.  Time is one bit: has the cooldown passed since the last      *)
(* reported failure?  The dependency may answer either way until it is     *)
(* healthy; a call begun after that succeeds.                              *)
(***************************************************************************)
EXTENDS Integers

CONSTANTS
    Callers,                  \* goroutines
    MaxConsecutiveFailures,   \* 5 in DefaultConfig
    HalfOpenMaxSuccess        \* 2 in DefaultConfig

\* NewCircuitBreaker replaces a limit that is not positive by its default.
ASSUME BreakerAssumption ==
    /\ MaxConsecutiveFailures \in Nat \ {0}
    /\ HalfOpenMaxSuccess \in Nat \ {0}

VARIABLES
    state,      \* "closed", "halfOpen" or "open"
    failures,
    successes,
    cooled,     \* time.Since(lastFailedAt) >= cfg.Cooldown
    call,       \* a goroutine's call: "idle", "risky" or "safe" (cannot fail)
    healthy,    \* does the dependency answer every new call?
    failRun,    \* history: failures reported in a row, capped
    goodRun     \* history: successes reported in a row, capped

breakerVars == <<state, failures, successes, cooled, call, healthy, failRun, goodRun>>

BreakerInit ==
    /\ state = "closed"
    /\ failures = 0
    /\ successes = 0
    /\ cooled = TRUE
    /\ call = [c \in Callers |-> "idle"]
    /\ healthy = FALSE
    /\ failRun = 0
    /\ goodRun = 0

UpTo(n, limit) == IF n < limit THEN n ELSE limit

-----------------------------------------------------------------------------
\* checkStateLocked, at the head of Execute and of State: an open breaker whose
\* cooldown is over goes half-open.
CheckState ==
    IF state = "open" /\ cooled
    THEN state' = "halfOpen" /\ failures' = 0 /\ successes' = 0
    ELSE UNCHANGED <<state, failures, successes>>

ReadState ==
    /\ CheckState
    /\ UNCHANGED <<cooled, call, healthy, failRun, goodRun>>

\* Execute up to fn(); an open breaker answers ErrCircuitOpen, a no-op.
Begin(c) ==
    /\ call[c] = "idle"
    /\ CheckState
    /\ state' # "open"
    /\ call' = [call EXCEPT ![c] = IF healthy THEN "safe" ELSE "risky"]
    /\ UNCHANGED <<cooled, healthy, failRun, goodRun>>

\* Mutant: the breaker trips one failure late.
TripsLate(n) == n > MaxConsecutiveFailures

Trips(n) == n >= MaxConsecutiveFailures

\* onFailureLocked: a late failure of an open breaker restarts the cooldown.
OnFailure ==
    /\ cooled' = FALSE
    /\ \/ /\ state = "closed"
          /\ failures' = failures + 1
          /\ state' = IF Trips(failures + 1) THEN "open" ELSE "closed"
          /\ UNCHANGED successes
       \/ /\ state = "halfOpen"
          /\ state' = "open"
          /\ failures' = MaxConsecutiveFailures
          /\ successes' = 0
       \/ /\ state = "open"
          /\ UNCHANGED <<state, failures, successes>>

\* Mutant: a success of a closed breaker does not start the count again.
ClosedSuccessKeeps == UNCHANGED <<state, failures, successes>>

ClosedSuccess == failures' = 0 /\ UNCHANGED <<state, successes>>

\* Mutant: the first success closes a half-open breaker.
ProbeSuccessEager == state' = "closed" /\ failures' = 0 /\ successes' = 0

\* Mutant: the successes of a half-open breaker are not counted.
ProbeSuccessForgotten == UNCHANGED <<state, failures, successes>>

ProbeSuccess ==
    IF successes + 1 >= HalfOpenMaxSuccess
    THEN state' = "closed" /\ failures' = 0 /\ successes' = 0
    ELSE successes' = successes + 1 /\ UNCHANGED <<state, failures>>

\* onSuccessLocked: a late success of an open breaker is ignored.
OnSuccess ==
    \/ state = "closed" /\ ClosedSuccess
    \/ state = "halfOpen" /\ ProbeSuccess
    \/ state = "open" /\ UNCHANGED <<state, failures, successes>>

\* Execute after fn().
ReportFailure(c) ==
    /\ call[c] = "risky"
    /\ OnFailure
    /\ call' = [call EXCEPT ![c] = "idle"]
    /\ failRun' = UpTo(failRun + 1, MaxConsecutiveFailures)
    /\ goodRun' = 0
    /\ UNCHANGED healthy

ReportSuccess(c) ==
    /\ call[c] # "idle"
    /\ OnSuccess
    /\ call' = [call EXCEPT ![c] = "idle"]
    /\ goodRun' = UpTo(goodRun + 1, HalfOpenMaxSuccess)
    /\ failRun' = 0
    /\ UNCHANGED <<cooled, healthy>>

Reset ==
    /\ state' = "closed"
    /\ failures' = 0
    /\ successes' = 0
    /\ cooled' = TRUE
    /\ failRun' = 0
    /\ UNCHANGED <<call, healthy, goodRun>>

CooldownPasses ==
    /\ ~cooled
    /\ cooled' = TRUE
    /\ UNCHANGED <<state, failures, successes, call, healthy, failRun, goodRun>>

\* The dependency recovers for good.
Heal ==
    /\ ~healthy
    /\ healthy' = TRUE
    /\ UNCHANGED <<state, failures, successes, cooled, call, failRun, goodRun>>

-----------------------------------------------------------------------------
BreakerNext ==
    \/ \E c \in Callers : Begin(c) \/ ReportFailure(c) \/ ReportSuccess(c)
    \/ ReadState \/ Reset \/ CooldownPasses \/ Heal

BreakerSpec == BreakerInit /\ [][BreakerNext]_breakerVars

\* Every call returns, time passes, and there is traffic.
BreakerFairness ==
    /\ \A c \in Callers : WF_breakerVars(Begin(c))
    /\ \A c \in Callers : WF_breakerVars(ReportFailure(c) \/ ReportSuccess(c))
    /\ WF_breakerVars(CooldownPasses)

BreakerFairSpec == BreakerSpec /\ BreakerFairness

-----------------------------------------------------------------------------
(* Properties *)

BreakerTypeOK ==
    /\ state \in {"closed", "halfOpen", "open"}
    /\ failures \in 0..MaxConsecutiveFailures
    /\ successes \in 0..(HalfOpenMaxSuccess - 1)
    /\ cooled \in BOOLEAN
    /\ call \in [Callers -> {"idle", "risky", "safe"}]
    /\ healthy \in BOOLEAN
    /\ failRun \in 0..MaxConsecutiveFailures
    /\ goodRun \in 0..HalfOpenMaxSuccess

\* A breaker is never closed after MaxConsecutiveFailures failures in a row,
\* in whatever order concurrent calls report and whatever state they began in.
ClosedBelowLimit == state = "closed" => failRun < MaxConsecutiveFailures

\* A closed breaker opens only on MaxConsecutiveFailures failures in a row:
\* failures of an earlier closed period or around a success are not added up.
TripsOnRunOfFailures ==
    [][state = "closed" /\ state' = "open" => failRun' = MaxConsecutiveFailures]_breakerVars

\* Apart from Reset, a breaker closes only from half-open and only after
\* HalfOpenMaxSuccess successes in a row, although the calls that report
\* overlap and some began before it opened.
ClosesOnRunOfSuccesses ==
    [][state # "closed" /\ state' = "closed" =>
          Reset \/ (state = "halfOpen" /\ goodRun' = HalfOpenMaxSuccess)]_breakerVars

\* Once the dependency has recovered the breaker closes and stays closed: late
\* failures of old calls re-open it or prolong the cooldown only so often.
ClosesWhenHealthy == healthy ~> [](state = "closed")

=============================================================================
