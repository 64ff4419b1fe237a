-------------------------- MODULE WaitingRoomProofs --------------------------
(***************************************************************************)
(* Proofs about module WaitingRoom, for any number of sessions, any        *)
(* admission rate and any kind of failure.                                 *)
(***************************************************************************)
EXTENDS WaitingRoom, FiniteSetTheorems, WellFoundedInduction, TLAPS

-----------------------------------------------------------------------------
(* Lemmas about numbers and sets *)

\* Every non-empty set of numbers has a least element: the well-foundedness of <.
LEMMA LeastNat ==
    ASSUME NEW T, T \subseteq Nat, T # {} PROVE \E x \in T : \A y \in T : x <= y
<1> DEFINE R == {ss \in Nat \X Nat : ss[1] < ss[2]}
<1>1. IsWellFoundedOn(R, Nat)
  BY NatLessThanWellFounded DEF OpToRel
<1>2. \A x, y \in Nat : y < x => <<y, x>> \in R
  OBVIOUS
<1> HIDE DEF R
<1>3. PICK x \in T : \A y \in T : ~ (<<y, x>> \in R)
  BY <1>1, WFMin
<1>4. ASSUME NEW y \in T PROVE x <= y
  <2>1. x \in Nat /\ y \in Nat
    BY <1>3
  <2>2. ~ (y < x)
    BY <1>2, <1>3, <2>1
  <2>3. QED
    BY <2>1, <2>2
<1>5. QED
  BY <1>4

\* And a bounded one has a largest.
LEMMA LargestNat ==
    ASSUME NEW n \in Nat, NEW T, T \subseteq 0..n, T # {}
    PROVE  \E x \in T : \A y \in T : y <= x
<1> DEFINE D == {n - x : x \in T}
<1>1. D \subseteq Nat /\ D # {}
  <2>1. D \subseteq Nat
    OBVIOUS
  <2>2. PICK z : z \in T
    OBVIOUS
  <2>3. n - z \in D
    BY <2>2
  <2> HIDE DEF D
  <2>4. QED
    BY <2>1, <2>3
<1>2. PICK d \in D : \A e \in D : d <= e
  <2> HIDE DEF D
  <2> QED
    BY <1>1, LeastNat
<1>3. PICK x \in T : d = n - x
  BY <1>2
<1>4. ASSUME NEW y \in T PROVE y <= x
  <2>1. n - y \in D
    OBVIOUS
  <2>2. n - x <= n - y
    BY <1>2, <1>3, <2>1
  <2>3. QED
    BY <2>2
<1>5. QED
  BY <1>4

\* Counting one session.
LEMMA CountOne ==
    ASSUME NEW s, NEW S PROVE Cardinality({s} \cap S) = IF s \in S THEN 1 ELSE 0
<1>1. CASE s \in S
  <2>1. {s} \cap S = {s}
    BY <1>1
  <2>2. QED
    BY <1>1, <2>1, FS_Singleton
<1>2. CASE s \notin S
  <2>1. {s} \cap S = {}
    BY <1>2
  <2>2. QED
    BY <1>2, <2>1, FS_EmptySet
<1>3. QED
  BY <1>1, <1>2

-----------------------------------------------------------------------------
(* Types *)

\* A join in flight has read the clock while it could still move on.
TypeInv == RoomTypeOK /\ \A s \in Sessions : stamp[s] <= MaxClock

\* The clock never goes back, and is ahead of a join's stamp when the join returns.
LEMMA LaterIsLater ==
    ASSUME TypeInv, NEW s \in Sessions, stamp[s] # 0
    PROVE  /\ Later(s) \in 1..(MaxClock + 1)
           /\ clock <= Later(s) /\ stamp[s] < Later(s)
<1>1. clock \in 1..(MaxClock + 1) /\ stamp[s] \in 0..clock /\ stamp[s] <= MaxClock
  BY DEF TypeInv, RoomTypeOK
<1>2. QED
  BY <1>1, RoomAssumption DEF Later

\* The largest score admitted so far exists.
LEMMA ServedIsLargest ==
    ASSUME TypeInv, NEW out, AdmitBatch(out)
    PROVE  /\ served' \in {served} \cup {score[s] : s \in Popped \cap hb}
           /\ served' >= served
           /\ \A s \in Popped \cap hb : served' >= score[s]
<1> DEFINE S == {served} \cup {score[s] : s \in Popped \cap hb}
<1>1. clock \in Nat /\ score \in [Sessions -> 0..clock] /\ served \in 0..clock
  BY RoomAssumption DEF TypeInv, RoomTypeOK
<1>2. Popped \subseteq Sessions
  BY DEF Popped, Waiting
<1>3. S \subseteq 0..clock /\ S # {}
  BY <1>1, <1>2
<1>4. PICK m \in S : \A x \in S : x <= m
  <2> HIDE DEF S
  <2> QED
    BY <1>1, <1>3, LargestNat
<1>5. m >= served /\ \A s \in Popped \cap hb : m >= score[s]
  BY <1>1, <1>2, <1>3, <1>4
<1>6. served' = CHOOSE x \in S : x >= served /\ \A s \in Popped \cap hb : x >= score[s]
  BY DEF AdmitBatch
<1> HIDE DEF S
<1>7. served' \in S /\ served' >= served /\ \A s \in Popped \cap hb : served' >= score[s]
  BY <1>4, <1>5, <1>6
<1>8. QED
  BY <1>7 DEF S

LEMMA RoomTypeInit == RoomInit => TypeInv
<1>1. 1 \in 1..(MaxClock + 1) /\ 0 \in 0..1 /\ 0 \in Nat /\ 0 <= MaxClock /\ 0 \in 0..MaxReseeds
  BY RoomAssumption
<1>2. QED
  BY <1>1 DEF RoomInit, TypeInv, RoomTypeOK

LEMMA RoomTypeStep == TypeInv /\ [RoomNext]_roomVars => TypeInv'
<1> SUFFICES ASSUME TypeInv, [RoomNext]_roomVars PROVE TypeInv'
  OBVIOUS
<1> USE RoomAssumption DEF TypeInv, RoomTypeOK, joinVars
<1>1. ASSUME NEW s \in Sessions, JoinStamp(s) PROVE TypeInv'
  BY <1>1 DEF JoinStamp
<1>2. ASSUME NEW s \in Sessions, NEW out, Join(s, out) PROVE TypeInv'
  <2>1. /\ clock' \in 1..(MaxClock + 1) /\ clock <= clock' /\ clock' = Later(s)
        /\ stamp[s] \in 0..clock
    BY <1>2, LaterIsLater DEF Join
  <2>2. stamp' \in [Sessions -> 0..clock'] /\ \A t \in Sessions : stamp'[t] <= MaxClock
    BY <1>2, <2>1 DEF Join
  <2>3. score' \in [Sessions -> 0..clock']
    <3>1. \A t \in Sessions : score[t] \in 0..clock'
      BY <2>1
    <3>2. Scored(s) \in 0..clock'
      BY <2>1, <3>1 DEF Scored
    <3>3. QED
      BY <1>2, <3>1, <3>2 DEF Join
  <2>4. joined' \in [Sessions -> 0..clock'] /\ draws' \in [Sessions -> Nat]
    <3>1. \A t \in Sessions : joined[t] \in 0..clock'
      BY <2>1
    <3>2. Later(s) \in 0..clock'
      BY <2>1
    <3>3. QED
      BY <1>2, <3>1, <3>2 DEF Join
  <2>5. hb' \subseteq Sessions
    BY <1>2 DEF Join
  <2>6. served' \in 0..clock' /\ UNCHANGED <<adm, status, toNotify, passes, served, reseeds>>
    BY <1>2, <2>1 DEF Join
  <2>7. QED
    BY <2>1, <2>2, <2>3, <2>4, <2>5, <2>6
<1>3. ASSUME NEW s \in Sessions, NEW out,
             StatusRank(s, out) \/ StatusAdmitted(s, out) PROVE TypeInv'
  BY <1>3 DEF StatusRank, StatusAdmitted, Ranked
<1>4. ASSUME NEW s \in Sessions, Heartbeat(s) \/ HeartbeatExpires(s) \/ AdmissionExpires(s)
      PROVE  TypeInv'
  BY <1>4 DEF Heartbeat, HeartbeatExpires, AdmissionExpires
<1>5. ASSUME NEW out, AdmitBatch(out) PROVE TypeInv'
  <2>1. Popped \subseteq Sessions
    BY DEF Popped, Waiting
  <2>2. served' \in 0..clock
    BY <1>5, <2>1, ServedIsLargest
  <2>3. score' \in [Sessions -> 0..clock]
    BY <1>5 DEF AdmitBatch
  <2>4. adm' \subseteq Sessions /\ toNotify' \subseteq Sessions
    BY <1>5, <2>1 DEF AdmitBatch
  <2>5. UNCHANGED <<hb, status, passes, reseeds, stamp, clock, joined, draws>>
    BY <1>5 DEF AdmitBatch
  <2>6. QED
    BY <2>2, <2>3, <2>4, <2>5
<1>6. ASSUME NotifyNext \/ WorkerDies PROVE TypeInv'
  BY <1>6 DEF NotifyNext, WorkerDies
<1>7. ASSUME ClearQueue PROVE TypeInv'
  BY <1>7 DEF ClearQueue
<1>8. ASSUME NEW s \in Sessions, NEW out, ConsumeAdmission(s, out) PROVE TypeInv'
  BY <1>8 DEF ConsumeAdmission, Consumed
<1>9. CASE UNCHANGED roomVars
  BY <1>9 DEF roomVars
<1> HIDE DEF TypeInv, RoomTypeOK
<1>10. QED
  BY <1>1, <1>2, <1>3, <1>4, <1>5, <1>6, <1>7, <1>8, <1>9 DEF RoomNext, RoomSteps, Tick

LEMMA RoomTypeInvariant == RoomSpec => []TypeInv
BY RoomTypeInit, RoomTypeStep, PTL DEF RoomSpec

\* Every state of the waiting room is well typed, whatever fails or dies: in
\* particular no score, stamp or admission lies in the clock's future.
THEOREM RoomTypeCorrect == RoomSpec => []RoomTypeOK
<1>1. TypeInv => RoomTypeOK
  BY DEF TypeInv
<1>2. QED
  BY <1>1, RoomTypeInvariant, PTL

-----------------------------------------------------------------------------
(* Nobody is overtaken *)

\* admit_batch.lua pops a prefix of the sorted set: whoever is left in the queue
\* is not ahead of anyone who was popped.
LEMMA PoppedIsPrefix ==
    ASSUME TypeInv, NEW s \in Waiting \ Popped, NEW t \in Popped
    PROVE  score[t] <= score[s]
<1> DEFINE Before(x) == {u \in Waiting \cap hb : Ahead(u, x)}
<1>1. s \in Sessions /\ t \in Sessions /\ \A x \in Sessions : score[x] \in Nat /\ x \in Nat
  BY RoomAssumption DEF Waiting, Popped, TypeInv, RoomTypeOK
<1>2. SUFFICES ASSUME score[s] < score[t] PROVE FALSE
  BY <1>1
<1>3. Before(s) \subseteq Before(t)
  BY <1>1, <1>2 DEF Ahead, Waiting
<1>4. IsFiniteSet(Before(t))
  BY FS_Subset, RoomAssumption DEF Waiting
<1>5. Cardinality(Before(s)) <= Cardinality(Before(t))
      /\ Cardinality(Before(s)) \in Nat /\ Cardinality(Before(t)) \in Nat
  <2> HIDE DEF Before
  <2> QED
    BY <1>3, <1>4, FS_Subset, FS_CardinalityType
<1>6. Cardinality(Before(t)) < Rate /\ ~(Cardinality(Before(s)) < Rate)
  BY DEF Popped
<1> HIDE DEF Before
<1>7. QED
  BY <1>5, <1>6, RoomAssumption

\* Why NobodyOvertaken holds: a join returns after the moment its score stands for,
\* and whoever is admitted has a score that the clock has left behind.
QueueInv ==
    /\ served < clock
    /\ \A s \in Waiting : score[s] < joined[s] /\ served < joined[s]

LEMMA QueueInit == RoomInit => QueueInv
BY DEF RoomInit, QueueInv, Waiting

\* A step that queues and admits nobody.
LEMMA QueueQuiet ==
    ASSUME TypeInv, QueueInv, UNCHANGED <<served, joined, clock>>,
           score' = score \/ score' = [s \in Sessions |-> 0]
    PROVE  QueueInv'
BY DEF QueueInv, Waiting

LEMMA QueueStep == TypeInv /\ QueueInv /\ [RoomNext]_roomVars => QueueInv'
<1> SUFFICES ASSUME TypeInv, QueueInv, [RoomNext]_roomVars PROVE QueueInv'
  OBVIOUS
<1>0. /\ clock \in Nat /\ served \in Nat
      /\ score \in [Sessions -> Nat] /\ joined \in [Sessions -> Nat]
      /\ \A s \in Sessions : joined[s] <= clock
  BY RoomAssumption DEF TypeInv, RoomTypeOK
<1> USE DEF joinVars
<1>1. ASSUME NEW s \in Sessions, NEW out, Join(s, out) PROVE QueueInv'
  <2>1. /\ Later(s) \in Nat /\ clock <= Later(s) /\ stamp[s] < Later(s)
        /\ clock' = Later(s) /\ served' = served
    BY <1>1, LaterIsLater, RoomAssumption DEF Join
  <2>2. served' < clock'
    BY <1>0, <2>1 DEF QueueInv
  <2>3. CASE UNCHANGED <<score, joined>>
    BY <2>1, <2>2, <2>3 DEF QueueInv, Waiting
  <2>4. CASE /\ s \notin Waiting
             /\ score' = [score EXCEPT ![s] = stamp[s]]
             /\ joined' = [joined EXCEPT ![s] = Later(s)]
    <3>1. score'[s] < joined'[s] /\ served < joined'[s]
      BY <1>0, <2>1, <2>2, <2>4
    <3>2. \A t \in Sessions \ {s} : score'[t] = score[t] /\ joined'[t] = joined[t]
      BY <1>0, <2>4
    <3>3. QED
      BY <2>1, <2>2, <3>1, <3>2 DEF QueueInv, Waiting
  <2>5. CASE s \in Waiting /\ UNCHANGED joined /\ score' = [score EXCEPT ![s] = score[s]]
    BY <1>0, <2>3, <2>5
  <2>6. QED
    BY <1>1, <2>3, <2>4, <2>5 DEF Join, Scored
<1>2. ASSUME NEW out, AdmitBatch(out) PROVE QueueInv'
  <2>1. UNCHANGED <<joined, clock>>
        /\ score' = [s \in Sessions |-> IF s \in Popped THEN 0 ELSE score[s]]
    BY <1>2 DEF AdmitBatch
  <2>2. served' \in {served} \cup {score[s] : s \in Popped \cap hb}
    BY <1>2, ServedIsLargest
  <2>3. Popped \subseteq Waiting /\ Waiting \subseteq Sessions
    BY DEF Popped, Waiting
  <2>4. \A t \in Popped : score[t] < clock
    BY <1>0, <2>3 DEF QueueInv
  <2>5. served' < clock'
    BY <2>1, <2>2, <2>4 DEF QueueInv
  <2>6. ASSUME NEW s \in Waiting' PROVE score'[s] < joined'[s] /\ served' < joined'[s]
    <3>1. s \in Waiting \ Popped /\ score'[s] = score[s]
      BY <2>1 DEF Waiting
    <3>2. score[s] < joined[s] /\ served < joined[s] /\ s \in Sessions
      BY <2>3, <3>1 DEF QueueInv
    <3>3. \A t \in Popped : score[t] < joined[s]
      BY <1>0, <2>3, <3>1, <3>2, PoppedIsPrefix
    <3>4. QED
      BY <2>1, <2>2, <3>1, <3>2, <3>3
  <2>7. QED
    BY <2>5, <2>6 DEF QueueInv
<1>3. ASSUME \/ \E s \in Sessions : \/ JoinStamp(s) \/ Heartbeat(s)
                                    \/ HeartbeatExpires(s) \/ AdmissionExpires(s)
             \/ \E s \in Sessions, out \in RoomOutcome :
                   StatusRank(s, out) \/ StatusAdmitted(s, out) \/ ConsumeAdmission(s, out)
             \/ NotifyNext \/ WorkerDies \/ ClearQueue \/ UNCHANGED roomVars
      PROVE  /\ UNCHANGED <<served, joined, clock>>
             /\ score' = score \/ score' = [s \in Sessions |-> 0]
  BY <1>3 DEF JoinStamp, Heartbeat, HeartbeatExpires, AdmissionExpires, StatusRank,
     StatusAdmitted, ConsumeAdmission, NotifyNext, WorkerDies, ClearQueue, roomVars
<1>4. QED
  BY <1>1, <1>2, <1>3, QueueQuiet DEF RoomNext, RoomSteps, Tick

\* "Admit next N (FIFO)", for every number of sessions, rate and interleaving of the
\* joins: nobody whose join began after the join of s had returned is admitted while
\* s is in the queue.
THEOREM NobodyIsOvertaken == RoomSpec => []NobodyOvertaken
<1>1. QueueInv => NobodyOvertaken
  BY DEF QueueInv, NobodyOvertaken
<1>2. QED
  BY <1>1, RoomTypeInvariant, QueueInit, QueueStep, PTL DEF RoomSpec

-----------------------------------------------------------------------------
(* One pass per draw *)

\* OnePassPerDraw without the cardinalities.
DrawInv ==
    \A s \in Sessions :
       passes[s] + (IF s \in Waiting THEN 1 ELSE 0) + (IF s \in adm THEN 1 ELSE 0) <= draws[s]

\* A step after which a session has no more in hand than before.
LEMMA DrawQuiet ==
    ASSUME TypeInv, DrawInv, UNCHANGED <<passes, draws>>,
           adm' \subseteq adm, Waiting' \subseteq Waiting
    PROVE  DrawInv'
<1> SUFFICES ASSUME NEW s \in Sessions
             PROVE  passes'[s] + (IF s \in Waiting' THEN 1 ELSE 0)
                     + (IF s \in adm' THEN 1 ELSE 0) <= draws'[s]
  BY DEF DrawInv
<1>1. passes[s] \in Nat /\ draws[s] \in Nat
  BY DEF TypeInv, RoomTypeOK
<1>2. QED
  BY <1>1 DEF DrawInv

LEMMA DrawStep == TypeInv /\ DrawInv /\ [RoomNext]_roomVars => DrawInv'
<1> SUFFICES ASSUME TypeInv, DrawInv, [RoomNext]_roomVars PROVE DrawInv'
  OBVIOUS
<1>0. /\ passes \in [Sessions -> Nat] /\ draws \in [Sessions -> Nat]
      /\ score \in [Sessions -> Nat] /\ stamp \in [Sessions -> Nat] /\ Sessions \subseteq Nat
  BY RoomAssumption DEF TypeInv, RoomTypeOK
<1> DEFINE Held(s) == passes[s] + (IF s \in Waiting THEN 1 ELSE 0)
                       + (IF s \in adm THEN 1 ELSE 0)
<1>a. \A s \in Sessions : Held(s) <= draws[s]
  BY DEF DrawInv
<1>b. ASSUME \A s \in Sessions : Held(s)' <= draws'[s] PROVE DrawInv'
  BY <1>b DEF DrawInv
<1> USE DEF joinVars
<1>1. ASSUME NEW s \in Sessions, NEW out, Join(s, out) PROVE DrawInv'
  <2>1. UNCHANGED <<passes, adm>>
    BY <1>1 DEF Join
  <2>2. CASE UNCHANGED <<score, draws>>
    <3>1. Waiting' = Waiting
      BY <2>2 DEF Waiting
    <3>2. QED
      BY <2>1, <2>2, <3>1, DrawQuiet
  <2>3. CASE s \notin Waiting /\ score' = [score EXCEPT ![s] = stamp[s]]
             /\ draws' = [draws EXCEPT ![s] = @ + 1]
    <3>1. Waiting' = Waiting \cup {s}
      BY <1>0, <1>1, <2>3 DEF Waiting, Join
    <3>2. ASSUME NEW t \in Sessions PROVE Held(t)' <= draws'[t]
      BY <1>0, <1>a, <2>1, <2>3, <3>1
    <3>3. QED
      BY <1>b, <3>2
  <2>4. CASE s \in Waiting /\ UNCHANGED draws /\ score' = [score EXCEPT ![s] = score[s]]
    BY <1>0, <2>2, <2>4
  <2>5. QED
    BY <1>1, <2>2, <2>3, <2>4 DEF Join, Scored
<1>2. ASSUME NEW out, AdmitBatch(out) PROVE DrawInv'
  <2>1. UNCHANGED <<passes, draws>> /\ adm' = adm \cup (Popped \cap hb)
        /\ score' = [s \in Sessions |-> IF s \in Popped THEN 0 ELSE score[s]]
    BY <1>2 DEF AdmitBatch
  <2>2. Popped \subseteq Waiting /\ Waiting' = Waiting \ Popped
    BY <2>1 DEF Popped, Waiting
  <2>3. ASSUME NEW t \in Sessions PROVE Held(t)' <= draws'[t]
    BY <1>0, <1>a, <2>1, <2>2
  <2>4. QED
    BY <1>b, <2>3
<1>3. ASSUME NEW s \in Sessions, NEW out, ConsumeAdmission(s, out) PROVE DrawInv'
  <2>1. UNCHANGED <<draws, score>>
    BY <1>3 DEF ConsumeAdmission
  <2>2. Waiting' = Waiting
    BY <2>1 DEF Waiting
  <2>3. \/ adm' \in {adm, adm \ {s}} /\ passes' = passes
        \/ s \in adm /\ adm' = adm \ {s} /\ passes' = [passes EXCEPT ![s] = @ + 1]
    BY <1>3 DEF ConsumeAdmission, Consumed, Happens
  <2>4. ASSUME NEW t \in Sessions PROVE Held(t)' <= draws'[t]
    BY <1>0, <1>a, <2>1, <2>2, <2>3
  <2>5. QED
    BY <1>b, <2>4
<1>4. ASSUME \/ \E s \in Sessions : \/ JoinStamp(s) \/ Heartbeat(s)
                                    \/ HeartbeatExpires(s) \/ AdmissionExpires(s)
             \/ \E s \in Sessions, out \in RoomOutcome :
                   StatusRank(s, out) \/ StatusAdmitted(s, out)
             \/ NotifyNext \/ WorkerDies \/ ClearQueue \/ UNCHANGED roomVars
      PROVE  DrawInv'
  <2>1. /\ UNCHANGED <<passes, draws>> /\ adm' \subseteq adm
        /\ score' = score \/ score' = [s \in Sessions |-> 0]
    BY <1>4 DEF JoinStamp, Heartbeat, HeartbeatExpires, AdmissionExpires, StatusRank,
       StatusAdmitted, NotifyNext, WorkerDies, ClearQueue, roomVars
  <2>2. Waiting' \subseteq Waiting
    BY <2>1 DEF Waiting
  <2>3. QED
    BY <2>1, <2>2, DrawQuiet
<1>5. QED
  BY <1>1, <1>2, <1>3, <1>4 DEF RoomNext, RoomSteps, Tick

LEMMA DrawInvariant == RoomSpec => []DrawInv
<1>1. RoomInit => DrawInv
  BY DEF RoomInit, DrawInv, Waiting
<1>2. QED
  BY <1>1, RoomTypeInvariant, DrawStep, PTL DEF RoomSpec

\* Joining twice, polling, retrying a consume or losing its reply buys nothing: every
\* token used was drawn for by queueing once.
THEOREM OnePassEachDraw == RoomSpec => []OnePassPerDraw
<1>1. DrawInv => OnePassPerDraw
  BY CountOne DEF DrawInv, OnePassPerDraw
<1>2. QED
  BY <1>1, DrawInvariant, PTL

=============================================================================
