----------------------------- MODULE WaitingRoom -----------------------------
(***************************************************************************)
(* The virtual waiting room of one event: internal/waitingroom (room.go,   *)
(* worker.go), its scripts admit_batch.lua and consume_admit.lua, and the  *)
(* queue endpoints of internal/router/handlers.go.                         *)
(*                                                                         *)
(* A join reads the gateway's clock and then runs one MULTI, so its score  *)
(* can be older than scores already in the sorted set, and two joins can   *)
(* have the same score (UnixNano as a float64 is a multiple of 256 ns).    *)
(* Heartbeat is one MULTI and a script is atomic: one step each.  Status   *)
(* is two calls and two steps.  A Redis call may fail without effect       *)
(* ("err") or with it ("lost"); the client then sees an error.             *)
(***************************************************************************)
EXTENDS Integers, FiniteSets

CONSTANTS
    Sessions,      \* session ids; equal scores are ordered by id
    Pollers,       \* the sessions whose GET status is followed (it only reads)
    Rate,          \* sessions admitted per tick, ADMISSION_RATE
    RoomFaults,    \* how a Redis call may fail, a subset of {"err", "lost"}
    RoomCrashes,   \* may the worker process die?
    MaxClock,      \* bound: the last moment at which a join reads the clock
    MaxReseeds     \* bound: how often seed-events is run for the event

ASSUME RoomAssumption ==
    /\ Sessions \subseteq Nat /\ IsFiniteSet(Sessions)
    /\ Pollers \subseteq Sessions
    /\ Rate \in Nat
    /\ RoomFaults \subseteq {"err", "lost"}
    /\ RoomCrashes \in BOOLEAN
    /\ MaxClock \in Nat /\ MaxReseeds \in Nat

VARIABLES
    score,      \* room:<event>:queue, 0 for a session that is not a member
    hb,         \* sessions whose room:<event>:hb:<sid> exists
    adm,        \* sessions whose room:<event>:admitted:<sid> exists
    stamp,      \* the time a join in flight has read, 0 for none
    status,     \* a session's GET status: "ranked" after its first call, then its
                \* answer, "none" if that is an error
    toNotify,   \* admitted sessions the worker has still to announce
    clock,      \* the gateway's clock, from 1
    joined,     \* history: when the join that queued s returned
    draws,      \* history: how often s entered the queue
    passes,     \* history: how often s used a token
    served,     \* history: the largest score admitted
    reseeds     \* history: how often the queue was cleared

roomVars == <<score, hb, adm, stamp, status, toNotify, clock, joined, draws, passes,
              served, reseeds>>
joinVars == <<stamp, clock, joined, draws>>

RoomOutcome == {"ok"} \cup RoomFaults
Happens(out) == out \in {"ok", "lost"}

Waiting == {s \in Sessions : score[s] # 0}

\* The order of the sorted set.
Ahead(s, t) == score[s] < score[t] \/ (score[s] = score[t] /\ s < t)

RoomInit ==
    /\ score = [s \in Sessions |-> 0]
    /\ hb = {} /\ adm = {}
    /\ stamp = [s \in Sessions |-> 0]
    /\ status = [s \in Sessions |-> "none"]
    /\ toNotify = {}
    /\ clock = 1
    /\ joined = [s \in Sessions |-> 0]
    /\ draws = [s \in Sessions |-> 0]
    /\ passes = [s \in Sessions |-> 0]
    /\ served = 0 /\ reseeds = 0

-----------------------------------------------------------------------------
(* The endpoints *)

\* Join: time.Now().
JoinStamp(s) ==
    /\ stamp[s] = 0
    /\ clock <= MaxClock
    /\ stamp' = [stamp EXCEPT ![s] = clock]
    /\ UNCHANGED <<score, hb, adm, status, toNotify, clock, joined, draws, passes,
                   served, reseeds>>

\* The clock has moved on when a round trip to Redis is over.
Later(s) == IF clock = stamp[s] THEN clock + 1 ELSE clock

\* Mutant: ZADD without NX, so that joining again replaces the score.
ScoredAgain(s) == stamp[s]

\* ZADD NX: a session that is queued keeps its score.
Scored(s) == IF s \in Waiting THEN score[s] ELSE stamp[s]

\* Join: the MULTI, SET hb and ZADD NX.
Join(s, out) ==
    /\ stamp[s] # 0
    /\ stamp' = [stamp EXCEPT ![s] = 0]
    /\ clock' = Later(s)
    /\ hb' = IF Happens(out) THEN hb \cup {s} ELSE hb
    /\ score' = IF Happens(out) THEN [score EXCEPT ![s] = Scored(s)] ELSE score
    /\ IF Happens(out) /\ s \notin Waiting
       THEN /\ joined' = [joined EXCEPT ![s] = Later(s)]
            /\ draws' = [draws EXCEPT ![s] = @ + 1]
       ELSE UNCHANGED <<joined, draws>>
    /\ UNCHANGED <<adm, status, toNotify, passes, served, reseeds>>

\* Heartbeat: SET hb; the answer is read in the same MULTI.  It does not put a
\* session that was evicted back into the queue.
Heartbeat(s) ==
    /\ hb' = hb \cup {s}
    /\ UNCHANGED <<score, adm, status, toNotify, passes, served, reseeds>>
    /\ UNCHANGED joinVars

\* Mutant: redis.Nil is returned as an answer of its own.
RankedNil(s) == IF s \in Waiting THEN "ranked" ELSE "nil"

\* A session that is not queued is told "not admitted" without a look at its
\* admission key.
Ranked(s) == IF s \in Waiting THEN "ranked" ELSE "wait"

\* Status, first call: ZRANK.
StatusRank(s, out) ==
    /\ status[s] # "ranked"
    /\ status' = [status EXCEPT ![s] = IF out = "ok" THEN Ranked(s) ELSE "none"]
    /\ UNCHANGED <<score, hb, adm, toNotify, passes, served, reseeds>>
    /\ UNCHANGED joinVars

\* Status, second call: EXISTS.
StatusAdmitted(s, out) ==
    /\ status[s] = "ranked"
    /\ status' = [status EXCEPT ![s] =
                     IF out # "ok" THEN "none" ELSE IF s \in adm THEN "admitted" ELSE "wait"]
    /\ UNCHANGED <<score, hb, adm, toNotify, passes, served, reseeds>>
    /\ UNCHANGED joinVars

\* Mutant: the token is looked at and not deleted.
ConsumedNot(s) == adm

\* The DEL of the token.
Consumed(s) == adm \ {s}

\* ConsumeAdmission: consume_admit.lua.  A lost reply burns the token.
ConsumeAdmission(s, out) ==
    /\ adm' = IF Happens(out) THEN Consumed(s) ELSE adm
    /\ passes' = IF out = "ok" /\ s \in adm THEN [passes EXCEPT ![s] = @ + 1] ELSE passes
    /\ UNCHANGED <<score, hb, status, toNotify, served, reseeds>>
    /\ UNCHANGED joinVars

-----------------------------------------------------------------------------
(* The admission worker *)

\* Mutant: a zombie at the head is left there and ends the batch.
PoppedUpToZombie ==
    {s \in Waiting \cap hb :
       LET before == {t \in Waiting : Ahead(t, s)}
       IN  before \subseteq hb /\ Cardinality(before) < Rate}

\* The members admit_batch.lua pops: it goes on while fewer than Rate live
\* sessions have been admitted, and a zombie does not count.
Popped ==
    {s \in Waiting : Cardinality({t \in Waiting \cap hb : Ahead(t, s)}) < Rate}

\* admit_batch.lua, and the list of sessions the worker is told of.
AdmitBatch(out) ==
    LET admitted == Popped \cap hb
    IN  /\ Popped # {}
        /\ score' = [s \in Sessions |-> IF s \in Popped THEN 0 ELSE score[s]]
        /\ adm' = adm \cup admitted
        /\ toNotify' = IF out = "ok" THEN admitted ELSE {}
        /\ served' = CHOOSE m \in {served} \cup {score[s] : s \in admitted} :
                        m >= served /\ \A s \in admitted : m >= score[s]
        /\ UNCHANGED <<hb, status, passes, reseeds>>
        /\ UNCHANGED joinVars

\* tickOnceForEvent: the next tick waits until this one has announced everyone.
\* A call that does not reach Redis changes nothing.
Tick ==
    /\ toNotify = {}
    /\ \E out \in RoomOutcome : Happens(out) /\ AdmitBatch(out)

\* onAdmit: publish queue.notify; an error is logged.
NotifyNext ==
    /\ \E s \in toNotify : toNotify' = toNotify \ {s}
    /\ UNCHANGED <<score, hb, adm, status, passes, served, reseeds>>
    /\ UNCHANGED joinVars

WorkerDies ==
    /\ RoomCrashes
    /\ toNotify # {}
    /\ toNotify' = {}
    /\ UNCHANGED <<score, hb, adm, status, passes, served, reseeds>>
    /\ UNCHANGED joinVars

-----------------------------------------------------------------------------
(* Keys go *)

\* seed-events deletes the queue, whoever waits in it; an error is ignored.
ClearQueue ==
    /\ reseeds < MaxReseeds
    /\ reseeds' = reseeds + 1
    /\ score' = [s \in Sessions |-> 0]
    /\ UNCHANGED <<hb, adm, status, toNotify, passes, served>>
    /\ UNCHANGED joinVars

HeartbeatExpires(s) ==
    /\ s \in hb
    /\ hb' = hb \ {s}
    /\ UNCHANGED <<score, adm, status, toNotify, passes, served, reseeds>>
    /\ UNCHANGED joinVars

AdmissionExpires(s) ==
    /\ s \in adm
    /\ adm' = adm \ {s}
    /\ UNCHANGED <<score, hb, status, toNotify, passes, served, reseeds>>
    /\ UNCHANGED joinVars

-----------------------------------------------------------------------------
\* What happens apart from the use of tokens.
RoomSteps ==
    \/ \E s \in Sessions :
          \/ JoinStamp(s) \/ Heartbeat(s) \/ HeartbeatExpires(s) \/ AdmissionExpires(s)
          \/ \E out \in RoomOutcome :
                \/ Join(s, out)
                \/ s \in Pollers /\ (StatusRank(s, out) \/ StatusAdmitted(s, out))
    \/ Tick \/ NotifyNext \/ WorkerDies \/ ClearQueue

RoomNext ==
    \/ RoomSteps
    \/ \E s \in Sessions, out \in RoomOutcome : ConsumeAdmission(s, out)

RoomSpec == RoomInit /\ [][RoomNext]_roomVars

\* The worker's ticker runs and Redis answers it now and then.
RoomFairSpec == RoomSpec /\ WF_roomVars(Tick) /\ WF_roomVars(NotifyNext)

-----------------------------------------------------------------------------
(* Properties *)

\* The clock is ahead of every stamp it has handed out.
RoomTypeOK ==
    /\ clock \in 1..(MaxClock + 1)
    /\ score \in [Sessions -> 0..clock]
    /\ hb \subseteq Sessions /\ adm \subseteq Sessions
    /\ stamp \in [Sessions -> 0..clock]
    /\ status \in [Sessions -> {"none", "ranked", "wait", "admitted"}]
    /\ toNotify \subseteq Sessions
    /\ joined \in [Sessions -> 0..clock]
    /\ draws \in [Sessions -> Nat] /\ passes \in [Sessions -> Nat]
    /\ served \in 0..clock /\ reseeds \in 0..MaxReseeds

\* README: "admit next N (FIFO)".  No session whose join began after the join of
\* s had returned is admitted while s is still in the queue (admit_batch.lua),
\* whoever joins twice, stalls in the middle of a join, lapses, is evicted or
\* comes back in between.
NobodyOvertaken == \A s \in Waiting : served < joined[s]

\* Joining, polling or retrying more often buys nothing: a session uses at most
\* one token for each time it has queued (ZADD NX, consume_admit.lua).
OnePassPerDraw ==
    \A s \in Sessions :
       passes[s] + Cardinality({s} \cap Waiting) + Cardinality({s} \cap adm) <= draws[s]

\* Once the queue is cleared for the last time, a session that waits and keeps its
\* heartbeat alive is admitted, whoever else is in front of it, alive or not
\* (tickOnceForEvent, admit_batch.lua).
AliveIsAdmitted ==
    \A s \in Sessions :
       s \in Waiting /\ reseeds = MaxReseeds ~> s \in adm \/ s \notin hb

\* room.go: "Status reports current position and whether the session was
\* admitted", so a session that holds a token is not told to wait.
StatusTellsAdmission ==
    [][\A s \in Sessions :
          status'[s] = "wait" /\ status[s] # "wait" => s \notin adm]_status

=============================================================================
