----------------------------- MODULE TokenBucket -----------------------------
(***************************************************************************)
(* One bucket of the rate limiter: token_bucket.lua, Limiter.Allow of      *)
(* internal/ratelimiter/limiter.go, and its two callers, the purchase      *)
(* middleware and the per-IP check of POST /event/{id}/queue.              *)
(*                                                                         *)
(* Time is counted in ticks, tokens in fractions, so that the script's     *)
(* floating-point refill is exact arithmetic here.  The script is atomic   *)
(* but is given the time: Allow reads the clock of its gateway and the     *)
(* script runs later.  The reference clock is the one that is furthest     *)
(* ahead; the time a call passes is up to MaxLag ticks behind it, because  *)
(* the call was slow or because its gateway's clock is.                    *)
(***************************************************************************)
EXTENDS Integers

CONSTANTS
    Capacity,      \* tokens a full bucket holds, ADMISSION_RATE
    Unit,          \* fractions in a token
    Rate,          \* fractions refilled in a tick
    Second,        \* ticks in a second
    MaxLag,        \* how far behind the time of a call may be
    BucketFaults,  \* how the script call may fail, a subset of {"err", "lost"}
    MaxSpan,       \* bound: the longest time for which requests are counted
    MaxSetback     \* bound: setbacks of last_updated in that time

\* math.ceil(a / b)
Ceil(a, b) == (a + b - 1) \div b

Full == Capacity * Unit
PerSecond == Rate * Second          \* refill_rate
FillTime == Ceil(Full, PerSecond) * Second

ASSUME BucketAssumption ==
    /\ Capacity \in Nat \ {0} /\ Unit \in Nat \ {0}
    /\ Rate \in Nat \ {0} /\ Second \in Nat \ {0}
    /\ MaxLag \in Nat /\ MaxLag <= FillTime
    /\ BucketFaults \subseteq {"err", "lost"}
    /\ MaxSpan \in Nat /\ MaxSetback \in Nat

VARIABLES
    exists,    \* does the bucket's key exist?
    tokens,    \* its field tokens
    behind,    \* how far last_updated was behind when it was written
    idle,      \* time since then
    answer,    \* what the last request got: "none", "pass" or "429"
    due,       \* ticks left of the last Retry-After, NoPromise for none
    span,      \* history: time since the counting began
    passed,    \* history: requests that used a token since then
    setback    \* history: how far last_updated was moved back since then

bucketVars == <<exists, tokens, behind, idle, answer, due, span, passed, setback>>

NoPromise == -1

Larger(a, b) == IF a > b THEN a ELSE b

\* The reference clock less last_updated.
Age == idle + behind

BucketInit ==
    /\ exists = FALSE
    /\ tokens = Full /\ behind = 0 /\ idle = 0
    /\ answer = "none" /\ due = NoPromise
    /\ span = 0 /\ passed = 0 /\ setback = 0

-----------------------------------------------------------------------------
(* token_bucket.lua *)

\* The tokens of an existing bucket when now - last is d.
Refilled(d) ==
    LET sum == tokens + Larger(0, d) * Rate IN IF sum < Full THEN sum ELSE Full

\* The tokens a call sees whose time is lag behind; a missing bucket is full.
Level(lag) == IF exists THEN Refilled(Age - lag) ELSE Full

\* Mutant: a fraction of a token is enough.
SufficesFraction(level) == level > 0

Suffices(level) == level >= Unit

\* Mutant: math.floor instead of math.ceil.
RetryAfterFloor(level) == (Unit - level) \div PerSecond

\* Seconds until the missing fraction has been refilled.
RetryAfter(level) == Ceil(Unit - level, PerSecond)

\* Mutant: an idle bucket is kept for as long as it takes to fill, no longer.
TTLOnce == FillTime

\* EXPIRE of an idle bucket.
TTL == 2 * FillTime

\* The script, by a call whose time is lag behind: last_updated becomes that
\* time, whether the bucket was written at a later one or not.
Script(lag) ==
    LET level == Level(lag) IN
    /\ exists' = TRUE
    /\ tokens' = IF Suffices(level) THEN level - Unit ELSE level
    /\ behind' = lag /\ idle' = 0
    /\ passed' = IF Suffices(level) THEN passed + 1 ELSE passed
    /\ setback' = IF exists THEN setback + Larger(0, lag - Age) ELSE setback

\* What the caller does with the verdict; an error lets a request pass (FailOpen).
Verdict(level, out) == IF out = "ok" /\ ~Suffices(level) THEN "429" ELSE "pass"

\* Limiter.Allow and its caller: 429 with Retry-After, or the request goes on.  A
\* token that somebody used voids the promise made to somebody else.
Allow(lag, out) ==
    LET level == Level(lag) IN
    /\ \/ out = "err" /\ UNCHANGED <<exists, tokens, behind, idle, passed, setback>>
       \/ out # "err" /\ Script(lag)
    /\ setback' <= MaxSetback
    /\ answer' = Verdict(level, out)
    /\ due' = IF answer' = "429" THEN Larger(0, RetryAfter(level) * Second - lag)
              ELSE IF out # "err" /\ Suffices(level) THEN NoPromise ELSE due
    /\ UNCHANGED span

-----------------------------------------------------------------------------
(* Time *)

TimePasses ==
    /\ span < MaxSpan
    /\ exists => idle < TTL
    /\ span' = span + 1
    /\ idle' = IF exists THEN idle + 1 ELSE 0
    /\ due' = IF due > 0 THEN due - 1 ELSE due
    /\ UNCHANGED <<exists, tokens, behind, answer, passed, setback>>

\* Redis drops the key when its TTL is over.
BucketExpires ==
    /\ exists /\ idle = TTL
    /\ exists' = FALSE
    /\ tokens' = Full /\ behind' = 0 /\ idle' = 0
    /\ UNCHANGED <<answer, due, span, passed, setback>>

\* The observer begins to count at any moment.
Observe ==
    /\ span' = 0 /\ passed' = 0 /\ setback' = 0
    /\ UNCHANGED <<exists, tokens, behind, idle, answer, due>>

BucketNext ==
    \/ \E lag \in 0..MaxLag, out \in {"ok"} \cup BucketFaults : Allow(lag, out)
    \/ TimePasses \/ BucketExpires \/ Observe

BucketSpec == BucketInit /\ [][BucketNext]_bucketVars

-----------------------------------------------------------------------------
(* Properties *)

BucketTypeOK ==
    /\ exists \in BOOLEAN
    /\ tokens \in 0..Full
    /\ behind \in 0..MaxLag /\ idle \in 0..TTL
    /\ answer \in {"none", "pass", "429"}
    /\ due \in Nat \cup {NoPromise}
    /\ span \in 0..MaxSpan /\ passed \in Nat /\ setback \in 0..MaxSetback

\* In any stretch of time, bursts, idle periods, evictions of the key and failing
\* calls included, no more requests use a token than a full bucket and the refill of
\* that stretch, of MaxLag and of the accumulated setback allow.  The setback is what
\* the HSET of last_updated gives away when a call carries an older time than the
\* bucket: the refill of that difference is granted twice, so late calls exceed
\* SteadyRate, by this much and no more.
WithinRate == passed * Unit <= Full + Rate * (span + MaxLag + setback)

\* Retry-After is enough: unless another request used a token meanwhile, a client
\* that waits as long as it was told finds one, whatever denied requests, late
\* calls and evictions came in between, if its retry's clock is not further behind
\* than that of the denied call.
RetryAfterIsEnough == due # NoPromise => Suffices(Level(-due))

\* README: "the backend can never sustain more than refill_rate requests/sec per
\* key".  It is exceeded when calls are late.
SteadyRate == passed * Unit <= Full + Rate * span

=============================================================================
