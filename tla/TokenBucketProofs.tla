-------------------------- MODULE TokenBucketProofs --------------------------
(***************************************************************************)
(* Theorems about module TokenBucket, for any capacity, rate and lag.      *)
(*                                                                         *)
(* WithinRate is proved with a potential: what has passed, plus what a     *)
(* call at the slowest clock would find in the bucket, is never more than  *)
(* a full bucket and the refill of the time that was counted.              *)
(***************************************************************************)
EXTENDS TokenBucket, TLAPS

Smaller(a, b) == IF a < b THEN a ELSE b

\* What the slowest clock would find, and what it has yet to catch up.
Found == Smaller(Full, tokens + Larger(0, Age - MaxLag) * Rate)
Ahead == Larger(0, MaxLag - Age) * Rate

Refill == (span + setback) * Rate

Potential ==
    IF exists THEN passed * Unit + Found <= Full + Refill + Ahead
    ELSE passed * Unit <= Refill

\* When the promised time is over, a token has been refilled.
Kept == exists /\ due # NoPromise => tokens + (Age + due) * Rate >= Unit

BucketInv == BucketTypeOK /\ Potential /\ Kept

-----------------------------------------------------------------------------
(* Arithmetic *)

\* math.ceil rounds up.
LEMMA CeilEnough ==
    ASSUME NEW a \in Int, NEW b \in Nat \ {0}
    PROVE  Ceil(a, b) \in Int /\ Ceil(a, b) * b >= a
<1> DEFINE c == a + b - 1
<1>1. c \in Int /\ c \div b \in Int /\ c % b \in 0..(b - 1) /\ c = b * (c \div b) + (c % b)
  OBVIOUS
<1>2. b * (c \div b) = (c \div b) * b
  BY <1>1
<1> QED
  BY <1>1, <1>2 DEF Ceil

\* What the constants are; in FillTime an empty bucket fills up.
LEMMA Constants ==
    /\ Full \in Nat /\ Full >= Unit /\ Unit \in Nat \ {0} /\ Rate \in Nat \ {0}
    /\ PerSecond \in Nat \ {0} /\ FillTime \in Nat /\ MaxLag \in Nat /\ MaxLag <= FillTime
    /\ Second \in Nat \ {0}
    /\ FillTime * Rate >= Full
<1> USE BucketAssumption
<1>1. Full \in Nat /\ Full >= Unit
  <2>1. Capacity - 1 \in Nat /\ (Capacity - 1) * Unit >= 0
    OBVIOUS
  <2>2. Capacity * Unit = (Capacity - 1) * Unit + Unit
    OBVIOUS
  <2> QED
    BY <2>1, <2>2 DEF Full
<1>2. PerSecond \in Nat \ {0}
  BY DEF PerSecond
<1> DEFINE k == Ceil(Full, PerSecond)
<1>3. k \in Int /\ k * PerSecond >= Full
  BY <1>1, <1>2, CeilEnough
<1>4. k \in Nat
  <2>1. ASSUME k < 0 PROVE FALSE
    <3>1. -k \in Nat \ {0} /\ (-k) * PerSecond > 0
      BY <2>1, <1>3, <1>2
    <3>2. k * PerSecond < 0
      BY <3>1, <1>2, <1>3
    <3> QED
      BY <3>2, <1>3, <1>1, <1>2
  <2> QED
    BY <2>1, <1>3
<1>5. FillTime \in Nat
  BY <1>4 DEF FillTime
<1>6. FillTime * Rate = k * PerSecond
  BY <1>4 DEF FillTime, PerSecond
<1> QED
  BY <1>1, <1>2, <1>3, <1>5, <1>6

\* Refill of a sum and of a longer time.
LEMMA RateAdd ==
    ASSUME NEW a \in Int, NEW b \in Int
    PROVE  (a + b) * Rate = a * Rate + b * Rate /\ a * Rate \in Int
BY BucketAssumption

\* More time refills more.
LEMMA RateMono ==
    ASSUME NEW a \in Int, NEW b \in Int, a <= b
    PROVE  a * Rate <= b * Rate
<1>1. b - a \in Nat /\ (b - a) * Rate >= 0
  BY BucketAssumption
<1>2. (a + (b - a)) * Rate = a * Rate + (b - a) * Rate
  BY RateAdd
<1>3. a + (b - a) = b
  OBVIOUS
<1>4. b * Rate = a * Rate + (b - a) * Rate
  BY <1>2, <1>3
<1>5. a * Rate \in Int /\ (b - a) * Rate \in Int
  BY BucketAssumption
<1> QED
  BY <1>1, <1>4, <1>5

-----------------------------------------------------------------------------
(* Type correctness *)

\* A refill is never negative.
LEMMA RateNat ==
    ASSUME NEW a \in Nat
    PROVE  a * Rate \in Nat
BY BucketAssumption

\* Whatever the time of a call, it finds between nothing and a full bucket.
LEMMA LevelType ==
    ASSUME BucketTypeOK, NEW lag \in Int
    PROVE  Level(lag) \in 0..Full
<1>1. Age - lag \in Int /\ Full \in Nat /\ tokens \in 0..Full
  BY Constants DEF BucketTypeOK, Age
<1>2. Larger(0, Age - lag) \in Nat
  BY <1>1 DEF Larger
<1>3. Larger(0, Age - lag) * Rate \in Nat
  BY <1>2, RateNat
<1> QED
  BY <1>1, <1>3 DEF Level, Refilled

\* The first request meets no bucket.
LEMMA TypeInit == BucketInit => BucketTypeOK
<1>1. TTL \in Nat
  BY Constants DEF TTL
<1>2. Full \in Nat /\ MaxLag \in Nat /\ MaxSpan \in Nat /\ MaxSetback \in Nat
  BY Constants, BucketAssumption
<1>3. /\ Full \in 0..Full /\ 0 \in 0..MaxLag /\ 0 \in 0..TTL
      /\ 0 \in 0..MaxSpan /\ 0 \in 0..MaxSetback /\ 0 \in Nat
  BY <1>1, <1>2
<1> QED
  BY <1>3 DEF BucketInit, BucketTypeOK

\* A call keeps the types, whichever way it ends.
LEMMA AllowType ==
    ASSUME BucketTypeOK, NEW lag \in 0..MaxLag, NEW out \in {"ok"} \cup BucketFaults,
           Allow(lag, out)
    PROVE  BucketTypeOK'
<1> DEFINE level == Level(lag)
<1>1. level \in 0..Full /\ lag \in Int /\ lag \in 0..MaxLag
  BY LevelType, Constants
<1>2. TTL \in Nat /\ 0 \in 0..TTL
  BY Constants DEF TTL
<1>3. Larger(0, RetryAfter(level) * Second - lag) \in Nat
  <2>1. RetryAfter(level) \in Int
    BY <1>1, Constants, CeilEnough DEF RetryAfter
  <2>2. RetryAfter(level) * Second - lag \in Int
    BY <2>1, <1>1, Constants
  <2> QED
    BY <2>2 DEF Larger
<1>4. due' \in Nat \cup {NoPromise}
  BY <1>3 DEF Allow, BucketTypeOK
<1>5. answer' \in {"none", "pass", "429"}
  BY DEF Allow, Verdict
<1>6. /\ exists' \in BOOLEAN /\ tokens' \in 0..Full /\ behind' \in 0..MaxLag
      /\ idle' \in 0..TTL /\ passed' \in Nat
  <2>1. CASE Script(lag)
    <3>1. tokens' \in 0..Full
      BY <2>1, <1>1, Constants DEF Script, Suffices
    <3> QED
      BY <2>1, <3>1, <1>1, <1>2 DEF Script, BucketTypeOK
  <2>2. CASE UNCHANGED <<exists, tokens, behind, idle, passed, setback>>
    BY <2>2 DEF BucketTypeOK
  <2> QED
    BY <2>1, <2>2 DEF Allow
<1>7. setback' \in 0..MaxSetback
  <2>1. Age \in Int /\ lag - Age \in Int
    BY <1>1, <1>2 DEF BucketTypeOK, Age
  <2>2. Larger(0, lag - Age) \in Nat
    BY <2>1 DEF Larger
  <2>3. setback' \in Nat
    BY <2>2, BucketAssumption DEF Allow, Script, BucketTypeOK
  <2> QED
    BY <2>3, BucketAssumption DEF Allow
<1>8. span' \in 0..MaxSpan
  BY DEF Allow, BucketTypeOK
<1> QED
  BY <1>4, <1>5, <1>6, <1>7, <1>8 DEF BucketTypeOK

\* Every step does.
LEMMA TypeNext ==
    ASSUME BucketTypeOK, [BucketNext]_bucketVars
    PROVE  BucketTypeOK'
<1>0. TTL \in Nat
  BY Constants DEF TTL
<1>1. CASE \E lag \in 0..MaxLag, out \in {"ok"} \cup BucketFaults : Allow(lag, out)
  BY <1>1, AllowType
<1>2. CASE TimePasses
  <2>1. idle' \in 0..TTL
    BY <1>2, <1>0 DEF TimePasses, BucketTypeOK
  <2>2. due' \in Nat \cup {NoPromise}
    BY <1>2 DEF TimePasses, BucketTypeOK, NoPromise
  <2>3. span' \in 0..MaxSpan
    BY <1>2, BucketAssumption DEF TimePasses, BucketTypeOK
  <2> QED
    BY <1>2, <2>1, <2>2, <2>3 DEF TimePasses, BucketTypeOK
<1>3. CASE BucketExpires
  <2>1. Full \in 0..Full /\ 0 \in 0..MaxLag /\ 0 \in 0..TTL
    BY <1>0, Constants
  <2> QED
    BY <1>3, <2>1 DEF BucketExpires, BucketTypeOK
<1>4. CASE Observe
  BY <1>4, BucketAssumption DEF Observe, BucketTypeOK
<1>5. CASE UNCHANGED bucketVars
  BY <1>5 DEF bucketVars, BucketTypeOK
<1> QED
  BY <1>1, <1>2, <1>3, <1>4, <1>5 DEF BucketNext

-----------------------------------------------------------------------------
(* The rate *)

\* The numbers the potential is made of.
LEMMA Numbers ==
    ASSUME BucketTypeOK
    PROVE  /\ Age \in Nat /\ tokens \in Nat /\ tokens <= Full /\ passed \in Nat
           /\ span \in Nat /\ setback \in Nat /\ passed * Unit \in Nat
           /\ (span + setback) * Rate \in Nat
<1>1. Age \in Nat
  BY Constants DEF Age, BucketTypeOK, TTL
<1>2. tokens \in Nat /\ tokens <= Full
  BY Constants DEF BucketTypeOK
<1>3. passed \in Nat /\ span \in Nat /\ setback \in Nat
  BY BucketAssumption DEF BucketTypeOK
<1>4. passed * Unit \in Nat
  BY <1>3, Constants
<1> QED
  BY <1>1, <1>2, <1>3, <1>4, RateNat

\* A call moves what it uses from the bucket to what has passed, and no clock finds
\* more than the slowest one and what that one has yet to catch up.
LEMMA ScriptPotential ==
    ASSUME BucketTypeOK, Potential, NEW lag \in 0..MaxLag, Script(lag), UNCHANGED span,
           BucketTypeOK'
    PROVE  Potential'
<1> DEFINE level == Level(lag)
           P == passed * Unit
           R == (span + setback) * Rate
<1>1. /\ Age \in Nat /\ tokens \in Nat /\ tokens <= Full /\ P \in Nat /\ R \in Nat
      /\ span \in Nat /\ setback \in Nat /\ passed \in Nat
      /\ lag \in Nat /\ lag <= MaxLag /\ MaxLag \in Nat /\ Full \in Nat /\ Unit \in Nat
  BY Numbers, Constants
<1>2. level \in 0..Full
  BY <1>1, LevelType
<1>3. passed' * Unit + tokens' = P + level
  <2>1. CASE Suffices(level)
    <3>1. passed' = passed + 1 /\ tokens' = level - Unit
      BY <2>1 DEF Script
    <3>2. (passed + 1) * Unit = P + Unit
      BY <1>1
    <3> QED
      BY <3>1, <3>2, <1>1, <1>2
  <2>2. CASE ~Suffices(level)
    BY <2>2, <1>1, <1>2 DEF Script
  <2> QED
    BY <2>1, <2>2
<1>4. Age' = lag
  BY <1>1 DEF Script, Age
<1>5. Found' = tokens' /\ Ahead' = (MaxLag - lag) * Rate /\ exists'
  <2>1. tokens' \in Nat /\ tokens' <= Full
    BY <1>1 DEF BucketTypeOK
  <2>2. Larger(0, lag - MaxLag) = 0 /\ Larger(0, MaxLag - lag) = MaxLag - lag
    BY <1>1 DEF Larger
  <2>3. 0 * Rate = 0
    BY Constants
  <2> QED
    BY <2>1, <2>2, <2>3, <1>1, <1>4 DEF Found, Ahead, Smaller, Script
<1> DEFINE m == (MaxLag - lag) * Rate
<1>6. m \in Nat
  BY <1>1, RateNat
<1>7. SUFFICES P + level <= Full + Refill' + m
  BY <1>3, <1>5, <1>7 DEF Potential
<1>8. CASE ~exists
  <2>1. Refill' = R
    BY <1>8 DEF Script, Refill
  <2>2. P <= R /\ level <= Full
    BY <1>8, <1>2, <1>1 DEF Potential, Refill
  <2> QED
    BY <2>1, <2>2, <1>1, <1>2, <1>6
<1>9. CASE exists /\ lag <= Age
  <2> DEFINE g == (Age - lag) * Rate
  <2>1. Refill' = R
    BY <1>9, <1>1 DEF Script, Refill, Larger
  <2>2. g \in Nat /\ level = (IF tokens + g < Full THEN tokens + g ELSE Full)
    <3>1. Larger(0, Age - lag) = Age - lag
      BY <1>9, <1>1 DEF Larger
    <3>2. g \in Nat
      BY <1>9, <1>1, RateNat
    <3> QED
      BY <3>1, <3>2, <1>9 DEF Level, Refilled
  <2>3. CASE MaxLag <= Age
    <3> DEFINE f == (Age - MaxLag) * Rate
    <3>1. f \in Nat
      BY <2>3, <1>1, RateNat
    <3>2. g = f + m
      <4>1. Age - lag = (Age - MaxLag) + (MaxLag - lag)
        BY <1>1
      <4> QED
        BY <4>1, <1>1, RateAdd
    <3>3. Larger(0, Age - MaxLag) = Age - MaxLag /\ Larger(0, MaxLag - Age) = 0
      BY <2>3, <1>1 DEF Larger
    <3>4. 0 * Rate = 0
      BY Constants
    <3>5. P + (IF Full < tokens + f THEN Full ELSE tokens + f) <= Full + R
      BY <1>9, <3>1, <3>3, <3>4, <1>1 DEF Potential, Found, Ahead, Refill, Smaller
    <3> HIDE DEF f, g, m, P, R, level
    <3> QED
      BY <3>1, <3>2, <3>5, <2>1, <2>2, <1>1, <1>2, <1>6
  <2>4. CASE Age < MaxLag
    <3> DEFINE a == (MaxLag - Age) * Rate
    <3>1. a \in Nat
      BY <2>4, <1>1, RateNat
    <3>2. m = g + a
      <4>1. MaxLag - lag = (Age - lag) + (MaxLag - Age)
        BY <1>1
      <4> QED
        BY <4>1, <1>1, RateAdd
    <3>3. Larger(0, Age - MaxLag) = 0 /\ Larger(0, MaxLag - Age) = MaxLag - Age
      BY <2>4, <1>1 DEF Larger
    <3>4. 0 * Rate = 0
      BY Constants
    <3>5. P + tokens <= Full + R + a
      BY <1>9, <3>1, <3>3, <3>4, <1>1 DEF Potential, Found, Ahead, Refill, Smaller
    <3> HIDE DEF a, g, m, P, R, level
    <3> QED
      BY <3>1, <3>2, <3>5, <2>1, <2>2, <1>1, <1>2, <1>6
  <2> QED
    BY <2>3, <2>4, <1>1
<1>10. CASE exists /\ Age < lag
  <2> DEFINE a == (MaxLag - Age) * Rate
             b == (lag - Age) * Rate
  <2>1. a \in Nat /\ b \in Nat
    BY <1>10, <1>1, RateNat
  <2>2. a = b + m
    <3>1. MaxLag - Age = (lag - Age) + (MaxLag - lag)
      BY <1>1
    <3> QED
      BY <3>1, <1>1, RateAdd
  <2>3. Refill' = R + b
    <3>1. span' + setback' = (span + setback) + (lag - Age)
      BY <1>10, <1>1 DEF Script, Larger
    <3> QED
      BY <3>1, <1>1, RateAdd DEF Refill
  <2>4. 0 * Rate = 0
    BY Constants
  <2>5. level = tokens
    <3>1. Larger(0, Age - lag) = 0
      BY <1>10, <1>1 DEF Larger
    <3> QED
      BY <3>1, <2>4, <1>10, <1>1 DEF Level, Refilled
  <2>6. P + tokens <= Full + R + a
    <3>1. Larger(0, Age - MaxLag) = 0 /\ Larger(0, MaxLag - Age) = MaxLag - Age
      BY <1>10, <1>1 DEF Larger
    <3> QED
      BY <1>10, <3>1, <2>1, <2>4, <1>1 DEF Potential, Found, Ahead, Refill, Smaller
  <2> HIDE DEF a, b, m, P, R, level
  <2> QED
    BY <2>1, <2>2, <2>3, <2>5, <2>6, <1>1, <1>6
<1> QED
  BY <1>8, <1>9, <1>10, <1>1

\* A tick refills the slowest clock's bucket by no more than it adds to the time.
LEMMA TickPotential ==
    ASSUME BucketTypeOK, Potential, TimePasses
    PROVE  Potential'
<1> DEFINE R == (span + setback) * Rate
           P == passed * Unit
<1>1. /\ Age \in Nat /\ tokens \in Nat /\ tokens <= Full /\ P \in Nat /\ R \in Nat
      /\ span \in Nat /\ setback \in Nat /\ MaxLag \in Nat /\ Full \in Nat /\ Rate \in Nat
  BY Numbers, Constants
<1>2. Refill' = R + Rate /\ Refill = R
  <2>1. span' + setback' = (span + setback) + 1
    BY <1>1 DEF TimePasses
  <2>2. 1 * Rate = Rate
    BY <1>1
  <2> QED
    BY <2>1, <2>2, <1>1, RateAdd DEF Refill
<1>3. CASE ~exists
  BY <1>1, <1>2, <1>3 DEF Potential, TimePasses
<1>4. CASE exists
  <2>1. Age' = Age + 1 /\ exists' /\ UNCHANGED <<tokens, passed>>
    BY <1>4, <1>1 DEF TimePasses, Age, BucketTypeOK
  <2>2. 0 * Rate = 0
    BY <1>1
  <2>3. CASE MaxLag <= Age
    <3> DEFINE f == (Age - MaxLag) * Rate
    <3>1. f \in Nat
      BY <2>3, <1>1, RateNat
    <3>2. (Age + 1 - MaxLag) * Rate = f + Rate
      <4>1. Age + 1 - MaxLag = (Age - MaxLag) + 1 /\ 1 * Rate = Rate
        BY <1>1
      <4> QED
        BY <4>1, <1>1, RateAdd
    <3>3. /\ Larger(0, Age - MaxLag) = Age - MaxLag
          /\ Larger(0, Age + 1 - MaxLag) = Age + 1 - MaxLag
          /\ Larger(0, MaxLag - Age) = 0 /\ Larger(0, MaxLag - (Age + 1)) = 0
      BY <2>3, <1>1 DEF Larger
    <3>4. P + (IF Full < tokens + f THEN Full ELSE tokens + f) <= Full + R
      BY <1>4, <3>1, <3>3, <2>2, <1>1 DEF Potential, Found, Ahead, Refill, Smaller
    <3>5. Found' = (IF Full < tokens + (f + Rate) THEN Full ELSE tokens + (f + Rate))
      BY <2>1, <3>1, <3>2, <3>3, <1>1 DEF Found, Smaller
    <3>6. Ahead' = 0
      BY <2>1, <2>2, <3>3 DEF Ahead
    <3>7. passed' * Unit = P
      BY <2>1
    <3> HIDE DEF f, P, R
    <3> QED
      BY <2>1, <3>1, <3>4, <3>5, <3>6, <3>7, <1>1, <1>2 DEF Potential
  <2>4. CASE Age < MaxLag
    <3> DEFINE a == (MaxLag - (Age + 1)) * Rate
    <3>1. a \in Nat
      BY <2>4, <1>1, RateNat
    <3>2. (MaxLag - Age) * Rate = a + Rate
      <4>1. MaxLag - Age = (MaxLag - (Age + 1)) + 1 /\ 1 * Rate = Rate
        BY <1>1
      <4> QED
        BY <4>1, <1>1, RateAdd
    <3>3. /\ Larger(0, Age - MaxLag) = 0 /\ Larger(0, Age + 1 - MaxLag) = 0
          /\ Larger(0, MaxLag - Age) = MaxLag - Age
          /\ Larger(0, MaxLag - (Age + 1)) = MaxLag - (Age + 1)
      BY <2>4, <1>1 DEF Larger
    <3>4. P + tokens <= Full + R + (a + Rate)
      BY <1>4, <3>1, <3>2, <3>3, <2>2, <1>1 DEF Potential, Found, Ahead, Refill, Smaller
    <3>5. Found' = tokens
      BY <2>1, <2>2, <3>3, <1>1 DEF Found, Smaller
    <3>6. Ahead' = a
      BY <2>1, <3>3 DEF Ahead
    <3>7. passed' * Unit = P
      BY <2>1
    <3> HIDE DEF a, P, R
    <3> QED
      BY <2>1, <3>1, <3>4, <3>5, <3>6, <3>7, <1>1, <1>2 DEF Potential
  <2> QED
    BY <2>3, <2>4, <1>1
<1> QED
  BY <1>3, <1>4

\* When the key expires, its bucket is full for the slowest clock too.
LEMMA ExpiryPotential ==
    ASSUME BucketTypeOK, Potential, BucketExpires
    PROVE  Potential'
<1> DEFINE P == passed * Unit
<1>1. /\ Age \in Nat /\ tokens \in Nat /\ P \in Nat /\ Refill \in Nat /\ MaxLag \in Nat
      /\ Full \in Nat /\ FillTime \in Nat /\ MaxLag <= FillTime /\ FillTime * Rate >= Full
  BY Numbers, Constants DEF Refill
<1>2. FillTime <= Age - MaxLag
  BY <1>1 DEF BucketExpires, Age, TTL, BucketTypeOK
<1>3. (Age - MaxLag) * Rate \in Nat /\ (Age - MaxLag) * Rate >= Full
  <2>1. FillTime * Rate <= (Age - MaxLag) * Rate
    BY <1>1, <1>2, RateMono
  <2>2. (Age - MaxLag) * Rate \in Nat /\ FillTime * Rate \in Nat
    BY <1>1, <1>2, RateNat
  <2> QED
    BY <2>1, <2>2, <1>1
<1>4. Larger(0, Age - MaxLag) = Age - MaxLag /\ Larger(0, MaxLag - Age) = 0
  BY <1>1, <1>2 DEF Larger
<1>5. Found = Full
  BY <1>1, <1>3, <1>4 DEF Found, Smaller
<1>6. Ahead = 0
  BY <1>4, Constants DEF Ahead
<1>7. P <= Refill
  <2> HIDE DEF P
  <2> QED
    BY <1>1, <1>5, <1>6 DEF Potential, BucketExpires, P
<1> QED
  BY <1>7 DEF Potential, BucketExpires, Refill

\* The count may begin in any state of the bucket.
LEMMA ObservePotential ==
    ASSUME BucketTypeOK, Observe
    PROVE  Potential'
<1>1. 0 * Rate = 0 /\ 0 * Unit = 0 /\ Full \in Nat
  BY Constants
<1>2. passed' * Unit = 0 /\ Refill' = 0
  BY <1>1 DEF Observe, Refill
<1>3. Found' = Found /\ Ahead' = Ahead
  BY DEF Observe, Found, Ahead, Age
<1>4. Found \in Int /\ Found <= Full /\ Ahead \in Nat
  <2>1. Larger(0, Age - MaxLag) \in Nat /\ Larger(0, MaxLag - Age) \in Nat
    BY Numbers, Constants DEF Larger
  <2>2. Larger(0, Age - MaxLag) * Rate \in Nat /\ Larger(0, MaxLag - Age) * Rate \in Nat
    BY <2>1, RateNat
  <2> QED
    BY <2>2, <1>1, Numbers DEF Found, Ahead, Smaller
<1> QED
  BY <1>1, <1>2, <1>3, <1>4 DEF Potential

\* The potential implies the rate limit.
LEMMA PotentialBounds ==
    ASSUME BucketTypeOK, Potential
    PROVE  WithinRate
<1> DEFINE P == passed * Unit
           R == (span + setback) * Rate
<1>1. /\ Age \in Nat /\ P \in Nat /\ R \in Nat /\ tokens \in Nat /\ MaxLag \in Nat
      /\ span \in Nat /\ setback \in Nat /\ Full \in Nat /\ Rate \in Nat
  BY Numbers, Constants
<1>2. Rate * (span + MaxLag + setback) = R + MaxLag * Rate /\ MaxLag * Rate \in Nat
  <2>1. span + MaxLag + setback = (span + setback) + MaxLag
    BY <1>1
  <2>2. Rate * (span + MaxLag + setback) = (span + MaxLag + setback) * Rate
    BY <1>1
  <2> QED
    BY <2>1, <2>2, <1>1, RateAdd, RateNat
<1>3. SUFFICES P <= Full + R + MaxLag * Rate
  BY <1>1, <1>2, <1>3 DEF WithinRate
<1>4. CASE ~exists
  BY <1>1, <1>2, <1>4 DEF Potential, Refill
<1>5. CASE exists
  <2>1. Larger(0, MaxLag - Age) \in Nat /\ Larger(0, MaxLag - Age) <= MaxLag
    BY <1>1 DEF Larger
  <2>2. Ahead \in Nat /\ Ahead <= MaxLag * Rate
    BY <2>1, <1>1, RateMono, RateNat DEF Ahead
  <2>3. Found \in Nat
    <3>1. Larger(0, Age - MaxLag) \in Nat
      BY <1>1 DEF Larger
    <3>2. Larger(0, Age - MaxLag) * Rate \in Nat
      BY <3>1, RateNat
    <3> QED
      BY <3>2, <1>1 DEF Found, Smaller
  <2>4. P + Found <= Full + R + Ahead
    BY <1>5 DEF Potential, Refill
  <2> HIDE DEF P, R
  <2> QED
    BY <2>2, <2>3, <2>4, <1>1, <1>2
<1> QED
  BY <1>4, <1>5

-----------------------------------------------------------------------------
(* Retry-After *)

\* A promise is a time that is not over yet, or just is.
LEMMA DueType ==
    ASSUME BucketTypeOK, due # NoPromise
    PROVE  due \in Nat
BY DEF BucketTypeOK

\* A denied call makes a promise that holds, or leaves one as good as it was.
LEMMA AllowKept ==
    ASSUME BucketTypeOK, Kept, NEW lag \in 0..MaxLag, NEW out \in {"ok"} \cup BucketFaults,
           Allow(lag, out), BucketTypeOK'
    PROVE  Kept'
<1> DEFINE level == Level(lag)
<1>1. /\ Age \in Nat /\ tokens \in Nat /\ tokens <= Full /\ Full >= Unit /\ Full \in Nat
      /\ Unit \in Nat /\ lag \in Nat
  BY Numbers, Constants
<1>2. level \in Nat /\ level <= Full
  BY <1>1, LevelType
<1>3. SUFFICES ASSUME exists', due' # NoPromise
               PROVE  tokens' + (Age' + due') * Rate >= Unit
  BY <1>3 DEF Kept
<1>4. CASE out = "err"
  <2>1. UNCHANGED <<exists, tokens, Age, due>>
    BY <1>4 DEF Allow, Age, Verdict
  <2> QED
    BY <2>1, <1>3 DEF Kept
<1>5. CASE out # "err" /\ Suffices(level)
  <2>1. due' = NoPromise
    BY <1>5 DEF Allow, Verdict
  <2> QED
    BY <2>1, <1>3
<1>6. CASE out # "err" /\ ~Suffices(level)
  <2>1. tokens' = level /\ Age' = lag
    BY <1>6, <1>1 DEF Allow, Script, Age
  <2>2. level < Unit
    BY <1>6, <1>1, <1>2 DEF Suffices
  <2>3. CASE out = "ok"
    <3> DEFINE k == RetryAfter(level)
               w == k * Second
    <3>1. k \in Int /\ k * PerSecond >= Unit - level
      BY <1>1, <1>2, Constants, CeilEnough DEF RetryAfter
    <3>2. w \in Int /\ w * Rate = k * PerSecond /\ w * Rate \in Int
      BY <3>1, Constants DEF PerSecond
    <3>3. due' = Larger(0, w - lag)
      BY <1>6, <2>3 DEF Allow, Verdict
    <3>4. due' \in Nat /\ w <= lag + due'
      BY <3>2, <3>3, <1>1 DEF Larger
    <3>5. w * Rate <= (lag + due') * Rate
      BY <3>2, <3>4, <1>1, RateMono
    <3>6. (lag + due') * Rate \in Nat
      BY <3>4, <1>1, RateNat
    <3> HIDE DEF w, k, level
    <3> QED
      BY <2>1, <3>1, <3>2, <3>5, <3>6, <1>1, <1>2, Constants
  <2>4. CASE out # "ok"
    <3>1. due' = due /\ due \in Nat
      BY <1>6, <2>4, <1>3, DueType DEF Allow, Verdict
    <3>2. exists
      BY <2>2, <1>1, Constants DEF Level
    <3>3. tokens + (Age + due) * Rate >= Unit
      BY <3>1, <3>2, <1>3 DEF Kept
    <3> DEFINE d == Larger(0, Age - lag)
    <3>4. d \in Nat /\ Age + due <= d + (lag + due)
      BY <3>1, <1>1 DEF Larger
    <3>5. level = tokens + d * Rate /\ d * Rate \in Nat
      <4>1. d * Rate \in Nat
        BY <3>4, RateNat
      <4> QED
        BY <4>1, <3>2, <2>2, <1>1 DEF Level, Refilled
    <3>6. (Age + due) * Rate <= (d + (lag + due)) * Rate
      BY <3>1, <3>4, <1>1, RateMono
    <3>7. (d + (lag + due)) * Rate = d * Rate + (lag + due) * Rate
      BY <3>1, <3>4, <1>1, RateAdd
    <3>8. (Age + due) * Rate \in Nat /\ (lag + due) * Rate \in Nat
      BY <3>1, <1>1, RateNat
    <3> HIDE DEF d, level
    <3> QED
      BY <2>1, <3>1, <3>3, <3>5, <3>6, <3>7, <3>8, <1>1
  <2> QED
    BY <2>3, <2>4
<1> QED
  BY <1>4, <1>5, <1>6

\* A tick takes from a promise no more than it refills.
LEMMA TickKept ==
    ASSUME BucketTypeOK, Kept, TimePasses
    PROVE  Kept'
<1>1. SUFFICES ASSUME exists', due' # NoPromise
               PROVE  tokens' + (Age' + due') * Rate >= Unit
  BY <1>1 DEF Kept
<1>2. exists /\ due # NoPromise /\ due \in Nat
  BY <1>1, DueType DEF TimePasses, NoPromise
<1>3. Age \in Nat /\ tokens \in Nat /\ Unit \in Nat
  BY Numbers, Constants
<1>4. Age' = Age + 1 /\ due' \in Nat /\ Age + due <= Age' + due' /\ tokens' = tokens
  BY <1>2, <1>3 DEF TimePasses, Age, BucketTypeOK
<1>5. (Age + due) * Rate <= (Age' + due') * Rate
  <2>1. Age + due \in Int /\ Age' + due' \in Int
    BY <1>2, <1>3, <1>4
  <2> QED
    BY <2>1, <1>4, RateMono
<1>6. (Age + due) * Rate \in Nat /\ (Age' + due') * Rate \in Nat
  BY <1>2, <1>3, <1>4, RateNat
<1>7. tokens + (Age + due) * Rate >= Unit
  BY <1>2 DEF Kept
<1> QED
  BY <1>3, <1>4, <1>5, <1>6, <1>7

\* A kept promise is a token.
LEMMA KeptSuffices ==
    ASSUME BucketTypeOK, Kept
    PROVE  RetryAfterIsEnough
<1>1. SUFFICES ASSUME due # NoPromise PROVE Suffices(Level(-due))
  BY <1>1 DEF RetryAfterIsEnough
<1>2. /\ Age \in Nat /\ tokens \in Nat /\ due \in Nat /\ Full \in Nat /\ Unit \in Nat
      /\ Full >= Unit
  BY <1>1, Numbers, Constants, DueType
<1>3. CASE ~exists
  BY <1>2, <1>3 DEF Level, Suffices
<1>4. CASE exists
  <2>1. Age - (-due) = Age + due /\ Larger(0, Age + due) = Age + due
    BY <1>2 DEF Larger
  <2>2. (Age + due) * Rate \in Nat
    BY <1>2, RateNat
  <2>3. tokens + (Age + due) * Rate >= Unit
    BY <1>1, <1>4 DEF Kept
  <2> QED
    BY <1>2, <1>4, <2>1, <2>2, <2>3 DEF Level, Refilled, Suffices
<1> QED
  BY <1>3, <1>4

-----------------------------------------------------------------------------
(* Theorems *)

\* The inductive invariant: initially,
LEMMA InvInit == BucketInit => BucketInv
<1> SUFFICES ASSUME BucketInit PROVE BucketInv
  OBVIOUS
<1>1. BucketTypeOK
  BY TypeInit
<1>2. 0 * Unit = 0 /\ (0 + 0) * Rate = 0
  BY Constants
<1>3. Potential
  BY <1>2 DEF BucketInit, Potential, Refill
<1>4. Kept
  BY DEF BucketInit, Kept
<1> QED
  BY <1>1, <1>3, <1>4 DEF BucketInv

\* and after every step,
LEMMA InvNext == BucketInv /\ [BucketNext]_bucketVars => BucketInv'
<1> SUFFICES ASSUME BucketInv, [BucketNext]_bucketVars PROVE BucketInv'
  OBVIOUS
<1>0. BucketTypeOK /\ Potential /\ Kept /\ BucketTypeOK'
  BY TypeNext DEF BucketInv
<1>1. CASE \E lag \in 0..MaxLag, out \in {"ok"} \cup BucketFaults : Allow(lag, out)
  <2>1. PICK lag \in 0..MaxLag, out \in {"ok"} \cup BucketFaults : Allow(lag, out)
    BY <1>1
  <2>2. Potential'
    <3>1. CASE Script(lag)
      BY <3>1, <2>1, <1>0, ScriptPotential DEF Allow
    <3>2. CASE UNCHANGED <<exists, tokens, behind, idle, passed, setback>>
      BY <3>2, <2>1, <1>0 DEF Allow, Potential, Found, Ahead, Refill, Age
    <3> QED
      BY <3>1, <3>2, <2>1 DEF Allow
  <2>3. Kept'
    BY <2>1, <1>0, AllowKept
  <2> QED
    BY <2>2, <2>3, <1>0 DEF BucketInv
<1>2. CASE TimePasses
  BY <1>2, <1>0, TickPotential, TickKept DEF BucketInv
<1>3. CASE BucketExpires
  <2>1. Kept'
    BY <1>3 DEF BucketExpires, Kept
  <2> QED
    BY <1>3, <1>0, <2>1, ExpiryPotential DEF BucketInv
<1>4. CASE Observe
  <2>1. Kept'
    BY <1>4, <1>0 DEF Observe, Kept, Age
  <2> QED
    BY <1>4, <1>0, <2>1, ObservePotential DEF BucketInv
<1>5. CASE UNCHANGED bucketVars
  BY <1>5, <1>0 DEF bucketVars, BucketInv, Potential, Found, Ahead, Refill, Age, Kept
<1> QED
  BY <1>1, <1>2, <1>3, <1>4, <1>5 DEF BucketNext

\* so always.
LEMMA BucketInvariant == BucketSpec => []BucketInv
BY InvInit, InvNext, PTL DEF BucketSpec

\* The bucket never holds less than nothing nor more than its capacity, and its key
\* is never older than its TTL (token_bucket.lua), for every capacity and rate.
THEOREM BucketTypeCorrect == BucketSpec => []BucketTypeOK
<1>1. BucketInv => BucketTypeOK
  BY DEF BucketInv
<1> QED
  BY <1>1, BucketInvariant, PTL

\* In any stretch of time no more requests use a token than a full bucket and the
\* refill of that stretch, of MaxLag and of the accumulated setback allow: each call
\* that carries an older time than the bucket is paid for twice, by the length of its
\* setback and no more.
THEOREM RateIsKept == BucketSpec => []WithinRate
<1>1. BucketInv => WithinRate
  BY PotentialBounds DEF BucketInv
<1> QED
  BY <1>1, BucketInvariant, PTL

\* The README's rate, a full bucket and the refill of the stretch, holds when no call
\* is late and the gateways' clocks agree; bursts, idle periods, evictions of the key
\* and failing calls do not exceed it.
THEOREM SteadyWhenOnTime ==
    ASSUME MaxLag = 0
    PROVE  BucketSpec => []SteadyRate
<1> DEFINE NoSetback == setback = 0
<1>1. BucketInit => NoSetback
  BY DEF BucketInit
<1>2. BucketInv /\ NoSetback /\ [BucketNext]_bucketVars => NoSetback'
  <2> SUFFICES ASSUME BucketInv, setback = 0, [BucketNext]_bucketVars PROVE setback' = 0
    OBVIOUS
  <2>1. behind = 0 /\ idle \in Nat
    BY Constants DEF BucketInv, BucketTypeOK
  <2>2. ASSUME NEW lag \in 0..MaxLag, NEW out, Allow(lag, out) PROVE setback' = 0
    <3>1. lag = 0 /\ Larger(0, lag - Age) = 0
      BY <2>1 DEF Larger, Age
    <3>2. setback' = setback \/ setback' = setback + Larger(0, lag - Age)
      BY <2>2 DEF Allow, Script
    <3>3. QED
      BY <3>1, <3>2
  <2>3. QED
    BY <2>2 DEF BucketNext, TimePasses, BucketExpires, Observe, bucketVars
<1>3. BucketInv /\ NoSetback => SteadyRate
  <2> SUFFICES ASSUME BucketInv, setback = 0 PROVE SteadyRate
    OBVIOUS
  <2>1. WithinRate /\ span \in Nat
    BY PotentialBounds DEF BucketInv, BucketTypeOK
  <2>2. span + MaxLag + setback = span
    BY <2>1
  <2>3. QED
    BY <2>1, <2>2 DEF WithinRate, SteadyRate
<1> HIDE DEF NoSetback
<1>4. QED
  BY <1>1, <1>2, <1>3, BucketInvariant, PTL DEF BucketSpec

\* A client that waits for the Retry-After it was given finds a token, unless
\* somebody else used one.
THEOREM RetryAfterSuffices == BucketSpec => []RetryAfterIsEnough
<1>1. BucketInv => RetryAfterIsEnough
  BY KeptSuffices DEF BucketInv
<1> QED
  BY <1>1, BucketInvariant, PTL

=============================================================================
