---------------------------- MODULE SeedingProofs ----------------------------
(***************************************************************************)
(* Proofs about module Seeding, for any number of orders and shards, any   *)
(* stock and any number of runs of the command: a sale that is seeded when *)
(* the last one is over sells its own stock, its latch is honest, and it   *)
(* has no more live orders than units.                                     *)
(*                                                                         *)
(* "Over" is what the model's Quiet stands for: no Place call is under way,*)
(* no event of the last sale will be delivered and none of its orders has  *)
(* a reservation that can be refunded.  Its timeouts may still be pending  *)
(* or under way.  The command itself waits for nothing, and buyers come    *)
(* while it runs.                                                          *)
(***************************************************************************)
EXTENDS Seeding, PaymentWindowProofs

seedingVars == <<vars, seedVars>>

-----------------------------------------------------------------------------
(* The orders of the last sale are done with *)

\* The Place calls begun before the counters were set have ended.
OldIdle == \A o \in old : rpc[o] = "soldOut" \/ place[o] \in {"accepted", "failed", "crashed"}

\* A late timeout or dead letter of the last sale finds nothing to refund.
OldSpent == \A o \in old : resv[o] # "RESERVED"

SeedInv ==
    /\ SysInv /\ OldIdle /\ OldSpent
    /\ old \subseteq Orders
    /\ spc \in 1..3 /\ opened \in BOOLEAN

\* The seed of a shard is a number of units, whatever the -shards flag.
LEMMA SeedValueNat ==
    ASSUME InventoryTypeOK, NEW s \in Shard PROVE SeedValue(s) \in Nat
<1>1. CASE s < SeedShards
  <2>1. Stock \div SeedShards \in Nat /\ Stock % SeedShards \in Nat /\ s \in Nat
    BY InventoryAssumption, SeedingAssumption DEF Shard
  <2>2. QED
    BY <1>1, <2>1 DEF SeedValue, SeedShare
<1>2. CASE ~(s < SeedShards)
  BY <1>2 DEF SeedValue, InventoryTypeOK
<1>3. QED
  BY <1>1, <1>2

\* What one call of the command does.
LEMMA SeedStepEffect ==
    ASSUME SeedStep, spc \in 1..3, soldout \in BOOLEAN
    PROVE  /\ spc = 1 /\ Quiet => SaleIsOver
           /\ \/ spc = 1 /\ shard' = [s \in Shard |-> SeedValue(s)] /\ old' = Begun
              \/ UNCHANGED <<shard, old>>
           /\ \/ UNCHANGED soldout
              \/ spc = 2 /\ soldout' = FALSE
           /\ \/ UNCHANGED <<row, age>>
              \/ /\ spc = 3 /\ row' = [o \in Orders |-> "none"]
                 /\ age' = [o \in Orders |-> "young"]
           /\ spc = 1 /\ spc' # 1 => old' = Begun
           /\ spc' \in 1..3 /\ opened' \in BOOLEAN
           /\ spc' = 3 => soldout' = FALSE
           /\ opened' => /\ spc = 3 /\ UNCHANGED <<shard, soldout, old>>
                         /\ row' = [o \in Orders |-> "none"]
           /\ UNCHANGED <<resv, callVars, history, placeVars, streamVars, createdAt,
                          workerVars, armed, dlqVars,
                          guard, tmsg, leader, ppc, pord, batch, notices>>
<1> DEFINE Effect ==
      /\ \/ spc = 1 /\ shard' = [s \in Shard |-> SeedValue(s)] /\ old' = Begun
         \/ UNCHANGED <<shard, old>>
      /\ \/ UNCHANGED soldout
         \/ spc = 2 /\ soldout' = FALSE
      /\ \/ UNCHANGED <<row, age>>
         \/ /\ spc = 3 /\ row' = [o \in Orders |-> "none"]
            /\ age' = [o \in Orders |-> "young"]
      /\ spc = 1 /\ spc' # 1 => old' = Begun
      /\ spc' \in 1..3 /\ opened' \in BOOLEAN
      /\ spc' = 3 => soldout' = FALSE
      /\ opened' => /\ spc = 3 /\ UNCHANGED <<shard, soldout, old>>
                    /\ row' = [o \in Orders |-> "none"]
<1>0. SeedSteps[1] = "counters" /\ SeedSteps[2] = "unlatch" /\ SeedSteps[3] = "orders"
      /\ Len(SeedSteps) = 3
  BY DEF SeedSteps
<1>1. PICK out \in {"ok"} \cup SeedFaults :
         /\ \/ Applied(out) /\ SeedEffect(SeedSteps[spc])
            \/ ~Applied(out) /\ UNCHANGED <<shard, soldout, row, age, old>>
         /\ spc' = IF out = "ok" /\ ~(spc = 3) THEN spc + 1 ELSE 1
         /\ opened' = (out = "ok" /\ spc = 3)
  BY <1>0 DEF SeedStep
<1>2. spc = 1 /\ Quiet => SaleIsOver
  BY DEF SeedStep
<1>3. UNCHANGED <<resv, callVars, history, placeVars, streamVars, createdAt,
                  workerVars, armed, dlqVars,
                  guard, tmsg, leader, ppc, pord, batch, notices>>
  BY DEF SeedStep
<1>4. opened' \in BOOLEAN
  BY <1>1
<1>a. spc' = (IF out = "ok" /\ ~(spc = 3) THEN spc + 1 ELSE 1)
  BY <1>1, Zenon
<1>b. opened' => spc = 3
  BY <1>1, Zenon
<1>5. CASE ~Applied(out)
  <2>1. out # "ok"
    BY <1>5 DEF Applied
  <2>2. UNCHANGED <<shard, soldout, row, age, old>> /\ spc' = 1 /\ ~opened'
    BY <1>1, <1>5, <2>1
  <2>3. Effect
    BY <1>4, <2>2
  <2>4. QED
    BY <1>2, <1>3, <2>3
<1>6. CASE spc = 1 /\ Applied(out)
  <2>1. SeedEffect("counters")
    BY <1>0, <1>1, <1>6
  <2>2. /\ shard' = [s \in Shard |-> SeedValue(s)] /\ old' = Begun /\ row' = row
        /\ soldout' = soldout /\ age' = age
    BY <2>1 DEF SeedEffect
  <2>3. spc' \in {1, 2} /\ ~opened'
    BY <1>a, <1>b, <1>6
  <2>4. Effect
    BY <1>4, <1>6, <2>2, <2>3
  <2>5. QED
    BY <1>2, <1>3, <2>4
<1>7. CASE spc = 2 /\ Applied(out)
  <2>1. SeedEffect("unlatch")
    BY <1>0, <1>1, <1>7
  <2>2. shard' = shard /\ old' = old /\ row' = row /\ age' = age /\ soldout' = FALSE
    BY <2>1 DEF SeedEffect
  <2>3. spc' \in {1, 3} /\ ~opened'
    BY <1>a, <1>b, <1>7
  <2>4. Effect
    BY <1>4, <1>7, <2>2, <2>3
  <2>5. QED
    BY <1>2, <1>3, <2>4
<1>8. CASE spc = 3 /\ Applied(out)
  <2>1. SeedEffect("orders")
    BY <1>0, <1>1, <1>8
  <2>2. /\ shard' = shard /\ old' = old /\ row' = [o \in Orders |-> "none"]
        /\ soldout' = soldout /\ age' = [o \in Orders |-> "young"]
    BY <2>1 DEF SeedEffect, ClearOrders
  <2>3. spc' = 1
    BY <1>1, <1>8
  <2>4. Effect
    BY <1>4, <1>8, <2>2, <2>3
  <2>5. QED
    BY <1>2, <1>3, <2>4
<1>9. spc = 1 \/ spc = 2 \/ spc = 3
  OBVIOUS
<1>10. QED
  BY <1>5, <1>6, <1>7, <1>8, <1>9, Zenon

LEMMA SeedKeepsSysInv ==
    ASSUME SysInv, SeedStep, spc \in 1..3 PROVE SysInv'
<1>0. /\ RefundInv /\ InventoryTypeOK /\ PlacementOwn /\ PlacementContract /\ AttemptsLeft
      /\ WindowOwn /\ WindowContract
  BY SysInvParts DEF RefundInv
<1>1. /\ \/ shard' = [s \in Shard |-> SeedValue(s)] \/ UNCHANGED shard
      /\ UNCHANGED soldout \/ soldout' = FALSE
      /\ row' \in {row, [o \in Orders |-> "none"]}
      /\ age' \in {age, [o \in Orders |-> "young"]}
      /\ UNCHANGED <<resv, rpc, offset, invKey, clearing, left, taken, refundedTo, refunds, place,
                     attempts, stream, delivered, createdAt, wpc, wmsg, wnew, armed, dlq, dmsg,
                     dclear, guard, tmsg, leader, ppc, pord, batch, notices>>
  BY <1>0, SeedStepEffect DEF InventoryTypeOK, callVars, history, placeVars, streamVars, workerVars, dlqVars
<1>a. \A s \in Shard : SeedValue(s) \in Nat
  BY <1>0, SeedValueNat
<1>b. shard \in [Shard -> Nat] /\ soldout \in BOOLEAN
  BY <1>0 DEF InventoryTypeOK
<1>2. shard' \in [Shard -> Nat] /\ soldout' \in BOOLEAN
  <2>1. shard' \in [Shard -> Nat]
    BY <1>1, <1>a, <1>b
  <2>2. soldout' \in BOOLEAN
    BY <1>1, <1>b, Zenon
  <2>3. QED
    BY <2>1, <2>2
<1>3. InventoryTypeOK'
  BY <1>0, <1>1, <1>2 DEF InventoryTypeOK
<1>4. \A o \in Orders : OrderInv(o)'
  BY <1>0, <1>1 DEF RefundInv, OrderInv
<1>5. row' \in [Orders -> RowState] /\ \A o \in Orders : row'[o] # "none" => row[o] # "none"
  BY <1>0, <1>1 DEF PlacementOwn, RowState
<1>6. PlacementOwn'
  BY <1>0, <1>1, <1>5 DEF PlacementOwn
<1>7. PlacementContract' /\ AttemptsLeft'
  BY <1>0, <1>1, <1>5 DEF PlacementContract, AttemptsLeft, Marked
<1>8. age' \in [Orders -> {"young", "due", "expired"}]
  BY <1>0, <1>1 DEF WindowOwn
<1>9. WindowOwn' /\ WindowContract'
  BY <1>0, <1>1, <1>8 DEF WindowOwn, WindowContract, Marked
<1>10. QED
  BY <1>3, <1>4, <1>6, <1>7, <1>9 DEF SysInv, PlaceInv, RefundInv

\* A Place call that has ended stays ended.
LEMMA OldIdleStep ==
    ASSUME SysInv, OldIdle, old \subseteq Orders, Next, UNCHANGED old
    PROVE  OldIdle'
<1>0. InventoryTypeOK /\ PlacementOwn /\ PlacementContract /\ WindowOwn
  BY SysInvParts DEF RefundInv
<1> SUFFICES ASSUME NEW q \in old
             PROVE  rpc'[q] = "soldOut" \/ place'[q] \in {"accepted", "failed", "crashed"}
  BY DEF OldIdle
<1>1. q \in Orders
  OBVIOUS
<1>2. rpc[q] = "soldOut" => rpc'[q] = "soldOut"
  <2>1. [InventoryNext]_inventoryVars
    BY StepSim DEF vars
  <2>2. ASSUME NEW o \in Orders, ProbeShard(o), rpc[q] = "soldOut" PROVE rpc'[q] = "soldOut"
    BY <1>0, <1>1, <2>2 DEF ProbeShard, NextSibling, InventoryTypeOK
  <2>3. QED
    BY <1>0, <1>1, <2>1, <2>2 DEF InventoryTypeOK, InventoryNext, inventoryVars, CheckLatch,
       LatchSoldOut, ContextEnds, MarkReserved, MarkPublished, ReservationExpires, Release,
       ClearLatch, DropClears, callVars
<1>3. place[q] \in {"accepted", "failed", "crashed"} => place'[q] = place[q]
  <2>1. place \in [Orders -> PlaceState]
    BY <1>0 DEF PlacementOwn
  <2>2. ASSUME NEW o \in Orders,
               PlaceStep(o) \/ ClientLeaves(o) \/ BackendCrash(o) \/ HoldExpires(o),
               place[q] \in {"accepted", "failed", "crashed"}
        PROVE  place'[q] = place[q]
    BY <1>1, <2>1, <2>2 DEF PlaceStep, PlaceReserve, PlaceMark, PlacePublish, PlaceRelease,
       PlaceClear, ClientLeaves, BackendCrash, Placing, HoldExpires, placementVars
  <2>3. ASSUME OrderWorker \/ AgeOut \/ DeadLetter \/ DLQWorker PROVE UNCHANGED place
    BY <2>3 DEF OrderWorker, NextMsg, InsertOrder, FlipPublished, ArmTimeout, AckOrder, AgeOut,
       DeadLetter, DLQWorker, HandleDLQMsg, DLQClear, AckDLQ, placeVars
  <2>4. ASSUME Next, ~PlacementSteps PROVE UNCHANGED place
    BY <2>4 DEF Next, Tick, Fire, GuardExpires, LeaderExpires, ProcessTimeout, ClaimGuard,
       ReadOrder, CancelOrder, TimeoutRelease, TimeoutClear, NotifyCancelled, TimeoutNextMsg,
       Reconcile, TakeLead, FetchExpired, ReconcileNext, ProcessCrash, placementVars, placeVars
  <2>5. QED
    BY <2>2, <2>3, <2>4 DEF PlacementSteps
<1>4. QED
  BY <1>2, <1>3 DEF OldIdle

\* Only a Place call that is under way marks an order RESERVED.
LEMMA OldSpentStep ==
    ASSUME SysInv, OldIdle, OldSpent, old \subseteq Orders, Next, UNCHANGED old
    PROVE  OldSpent'
<1>0. InventoryTypeOK /\ PlacementOwn /\ WindowOwn
  BY SysInvParts DEF RefundInv
<1> SUFFICES ASSUME NEW q \in old PROVE resv'[q] # "RESERVED"
  BY DEF OldSpent
<1>1. q \in Orders /\ resv[q] # "RESERVED" /\ resv \in [Orders -> ReservationState]
  BY <1>0 DEF OldSpent, InventoryTypeOK
<1>2. ASSUME NEW o \in Orders, PlaceMark(o) PROVE resv'[q] # "RESERVED"
  <2>1. place[o] = "reserve" /\ rpc[o] = "won"
    BY <1>2 DEF PlaceMark, MarkReserved
  <2>2. o # q
    BY <2>1 DEF OldIdle
  <2>3. resv' = resv \/ resv' = [resv EXCEPT ![o] = "RESERVED"]
    BY <1>2 DEF PlaceMark, MarkReserved
  <2>4. QED
    BY <1>1, <2>2, <2>3
<1>3. ASSUME UNCHANGED resv PROVE resv'[q] # "RESERVED"
  BY <1>1, <1>3
<1>4. ASSUME NEW o, NEW s, NEW out, Release(o, s, out) PROVE resv'[q] # "RESERVED"
  BY <1>1, <1>4 DEF Release, ReleaseScript
<1>5. ASSUME NEW o, NEW out, MarkPublished(o, out) PROVE resv'[q] # "RESERVED"
  BY <1>1, <1>5 DEF MarkPublished
<1>6. ASSUME NEW o \in Orders,
             PlaceStep(o) \/ ClientLeaves(o) \/ BackendCrash(o) \/ HoldExpires(o)
      PROVE  resv'[q] # "RESERVED"
  BY <1>1, <1>2, <1>3, <1>4, <1>6 DEF PlaceStep, PlaceReserve, CheckLatch, ProbeShard,
     LatchSoldOut, PlacePublish, PlaceRelease, PlaceClear, ClearLatch, ClientLeaves,
     ContextEnds, BackendCrash, DropClears, HoldExpires, ReservationExpires, redisVars,
     inventoryVars
<1>7. ASSUME OrderWorker \/ AgeOut \/ DeadLetter \/ DLQWorker PROVE resv'[q] # "RESERVED"
  BY <1>3, <1>4, <1>5, <1>7 DEF OrderWorker, NextMsg, InsertOrder, FlipPublished, ArmTimeout,
     AckOrder, AgeOut, DeadLetter, DLQWorker, HandleDLQMsg, DLQClear, ClearLatch, AckDLQ,
     inventoryVars
<1>8. ASSUME Next, ~PlacementSteps PROVE resv'[q] # "RESERVED"
  <2>1. ASSUME NEW p \in Procs, TimeoutRelease(p) PROVE resv'[q] # "RESERVED"
    BY <1>4, <2>1 DEF TimeoutRelease
  <2>2. QED
    BY <1>3, <1>8, <2>1 DEF Next, Tick, Fire, GuardExpires, LeaderExpires, ProcessTimeout,
       ClaimGuard, ReadOrder, CancelOrder, TimeoutClear, ClearLatch, NotifyCancelled,
       TimeoutNextMsg, Reconcile, TakeLead, FetchExpired, ReconcileNext, ProcessCrash,
       DropClears, redisVars, inventoryVars
<1>9. QED
  BY <1>6, <1>7, <1>8 DEF PlacementSteps

LEMMA SeedInit == SeedingInit => SeedInv
BY SysInit DEF SeedingInit, SeedInv, OldIdle, OldSpent

LEMMA SeedInvStep ==
    ASSUME Quiet = TRUE
    PROVE  SeedInv /\ [SeedingNext]_seedingVars => SeedInv'
<1> SUFFICES ASSUME SeedInv, [SeedingNext]_seedingVars PROVE SeedInv'
  OBVIOUS
<1>0. /\ SysInv /\ OldIdle /\ OldSpent /\ old \subseteq Orders
      /\ spc \in 1..3 /\ opened \in BOOLEAN
  BY DEF SeedInv
<1>1. CASE Next /\ UNCHANGED seedVars
  <2>1. UNCHANGED <<spc, opened, old>>
    BY <1>1 DEF seedVars
  <2>2. SysInv'
    BY <1>0, <1>1, SysStep
  <2>3. OldIdle'
    BY <1>0, <1>1, <2>1, OldIdleStep
  <2>4. OldSpent'
    BY <1>0, <1>1, <2>1, OldSpentStep
  <2>5. QED
    BY <1>0, <2>1, <2>2, <2>3, <2>4 DEF SeedInv
<1>2. CASE SeedStep
  <2>0. soldout \in BOOLEAN
    BY <1>0 DEF SysInv, PlaceInv, RefundInv, InventoryTypeOK
  <2>1. SysInv'
    BY <1>0, <1>2, SeedKeepsSysInv
  <2>3. spc' \in 1..3 /\ opened' \in BOOLEAN
    BY <1>0, <1>2, <2>0, SeedStepEffect
  <2>4. UNCHANGED <<rpc, place, resv>>
    BY <1>0, <1>2, <2>0, SeedStepEffect DEF callVars, placeVars
  <2>5. CASE UNCHANGED old
    BY <1>0, <2>1, <2>3, <2>4, <2>5 DEF SeedInv, OldIdle, OldSpent
  <2>6. CASE spc = 1 /\ old' = Begun
    <3>1. SaleIsOver
      BY <1>0, <1>2, <2>6, <2>0, SeedStepEffect
    <3>2. \A o \in Orders : place[o] \in PlaceState
      BY <1>0 DEF SysInv, PlaceInv, PlacementOwn
    <3>3. OldIdle' /\ OldSpent' /\ old' \subseteq Orders
      BY <2>4, <2>6, <3>1, <3>2 DEF OldIdle, OldSpent, SaleIsOver, Placing, PlaceState, Begun
    <3>4. QED
      BY <2>1, <2>3, <3>3 DEF SeedInv
  <2>7. QED
    BY <1>0, <1>2, <2>5, <2>6, <2>0, SeedStepEffect
<1>3. CASE UNCHANGED seedingVars
  <2>1. UNCHANGED vars
    BY <1>3 DEF seedingVars
  <2>2. SysInv'
    BY <1>0, <2>1, SysStep
  <2>3. UNCHANGED <<spc, opened, old, rpc, place, resv>>
    BY <1>3 DEF seedingVars, seedVars, vars, inventoryVars, placementVars
  <2>4. QED
    BY <1>0, <2>2, <2>3 DEF SeedInv, OldIdle, OldSpent
<1>4. QED
  BY <1>1, <1>2, <1>3 DEF SeedingNext

LEMMA SeedInvariant ==
    ASSUME Quiet = TRUE PROVE SeedingSpec => []SeedInv
<1>1. SeedInv /\ [SeedingNext]_seedingVars => SeedInv'
  BY SeedInvStep, Zenon
<1>2. QED
  BY <1>1, SeedInit, PTL DEF SeedingSpec, seedingVars

-----------------------------------------------------------------------------
(* Who moves the counters after the seed *)

\* Between two runs of the command only orders begun after the seed reserve or give
\* back: a release for an order of the last sale, by its timeout, by a reconciler or
\* by the DLQ worker, finds it spent.  Whatever else happens lets the counters and the
\* sweeps be, and never sets the latch.
LEMMA OnlyNewOrders ==
    ASSUME SeedInv, Next
    PROVE  \/ \E o \in Orders \ old :
                 \/ CheckLatch(o) \/ ProbeShard(o) \/ LatchSoldOut(o)
                 \/ \E s \in Shard : \E out : Release(o, s, out)
           \/ /\ UNCHANGED <<shard, taken, refundedTo, refunds, offset>>
              /\ left \subseteq left' /\ (soldout' => soldout)
              /\ \A q \in Orders : rpc'[q] = rpc[q] \/ rpc'[q] = "marked"
<1>0. /\ SysInv /\ PlaceInv /\ RefundInv /\ InventoryTypeOK /\ PlacementOwn /\ PlacementContract
      /\ WindowOwn /\ WindowContract /\ OldIdle /\ OldSpent /\ old \subseteq Orders
  BY DEF SeedInv, SysInv, PlaceInv, RefundInv
<1> DEFINE Moves == \E o \in Orders \ old :
                 \/ CheckLatch(o) \/ ProbeShard(o) \/ LatchSoldOut(o)
                 \/ \E s \in Shard : \E out : Release(o, s, out)
           Still == /\ UNCHANGED <<shard, taken, refundedTo, refunds, offset>>
                    /\ left \subseteq left' /\ (soldout' => soldout)
                    /\ \A q \in Orders : rpc'[q] = rpc[q] \/ rpc'[q] = "marked"
<1> SUFFICES Moves \/ Still
  OBVIOUS
<1>1. ASSUME NEW o \in Orders, PlaceReserve(o) PROVE Moves
  <2>1. place[o] = "reserve" /\ rpc[o] \in {"start", "probe", "latch"}
    BY <1>1 DEF PlaceReserve, CheckLatch, ProbeShard, LatchSoldOut
  <2>2. o \notin old
    BY <1>0, <2>1 DEF OldIdle
  <2>3. QED
    BY <1>1, <2>2 DEF PlaceReserve
<1>2. ASSUME NEW o \in Orders, NEW s \in Shard, NEW out, Release(o, s, out) PROVE Moves \/ Still
  <2>1. CASE o \notin old
    BY <1>2, <2>1
  <2>2. CASE o \in old
    <3>1. resv[o] # "RESERVED"
      BY <1>0, <2>2 DEF OldSpent
    <3>2. Still
      BY <1>2, <3>1 DEF Release, ReleaseScript, Compensable
    <3>3. QED
      BY <3>2
  <2>3. QED
    BY <2>1, <2>2
<1>3. ASSUME NEW o \in Orders, PlaceMark(o) PROVE Still
  BY <1>0, <1>3 DEF PlaceMark, MarkReserved, history, InventoryTypeOK
<1>4. ASSUME UNCHANGED inventoryVars PROVE Still
  BY <1>4 DEF inventoryVars
<1>5. ASSUME NEW o, NEW out, ClearLatch(o, out) PROVE Still
  BY <1>5 DEF ClearLatch, history
<1>6. ASSUME NEW S, DropClears(S) PROVE Still
  BY <1>6 DEF DropClears, redisVars, history
<1>7. ASSUME NEW o \in Orders, ReservationExpires(o) \/ ContextEnds(o) PROVE Still
  BY <1>7 DEF ReservationExpires, ContextEnds, redisVars, history, callVars
<1>8. ASSUME NEW o, NEW out, MarkPublished(o, out) PROVE Still
  BY <1>8 DEF MarkPublished, history, callVars
<1> HIDE DEF Moves, Still
<1>9. ASSUME NEW o \in Orders, PlaceRelease(o) PROVE Moves \/ Still
  <2>1. PICK out \in Reply(o) : Release(o, invKey[o], out)
    BY <1>9 DEF PlaceRelease, RefundKey
  <2>2. invKey[o] \in Shard
    BY <1>0, <1>9, WonKey DEF PlaceRelease, PlacementContract
  <2>3. QED
    BY <1>2, <2>1, <2>2
<1>10. ASSUME NEW o \in Orders,
              PlaceStep(o) \/ ClientLeaves(o) \/ BackendCrash(o) \/ HoldExpires(o)
       PROVE  Moves \/ Still
  BY <1>1, <1>3, <1>4, <1>5, <1>6, <1>7, <1>9, <1>10 DEF PlaceStep, PlacePublish, PlaceClear,
     ClientLeaves, BackendCrash, HoldExpires
<1>11. ASSUME OrderWorker \/ AgeOut \/ DeadLetter PROVE Still
  BY <1>4, <1>8, <1>11 DEF OrderWorker, NextMsg, InsertOrder, FlipPublished, ArmTimeout,
     AckOrder, AgeOut, DeadLetter
<1>12. ASSUME DLQWorker PROVE Moves \/ Still
  <2>1. CASE HandleDLQMsg
    <3>1. PICK m \in dlq, out \in Outcome : Release(m[1], invKey[m[1]], out)
      BY <2>1 DEF HandleDLQMsg, RefundKey
    <3>2. m[1] \in Orders /\ Marked(m[1])
      BY <1>0, <3>1 DEF PlacementOwn, PlacementContract, Msg
    <3>3. invKey[m[1]] \in Shard
      BY <1>0, <3>2, WonKey
    <3>4. QED
      BY <1>2, <3>1, <3>2, <3>3
  <2>2. CASE DLQClear \/ AckDLQ
    BY <1>4, <1>5, <2>2 DEF DLQClear, AckDLQ
  <2>3. QED
    BY <1>12, <2>1, <2>2 DEF DLQWorker
<1>13. ASSUME NEW p \in Procs, ProcessTimeout(p) PROVE Moves \/ Still
  <2>1. CASE TimeoutRelease(p)
    <3>1. PICK out \in Outcome : Release(pord[p], Home(pord[p]), out)
      BY <2>1 DEF TimeoutRelease
    <3>2. pord[p] \in Orders
      BY <1>0, <2>1 DEF TimeoutRelease, WindowOwn
    <3>3. Home(pord[p]) \in Shard
      BY <3>2, HomeInShard
    <3>4. QED
      BY <1>2, <3>1, <3>2, <3>3
  <2>2. CASE \/ ClaimGuard(p) \/ ReadOrder(p) \/ CancelOrder(p)
             \/ TimeoutClear(p) \/ NotifyCancelled(p)
    BY <1>4, <1>5, <2>2 DEF ClaimGuard, ReadOrder, CancelOrder, TimeoutClear, NotifyCancelled
  <2>3. QED
    BY <1>13, <2>1, <2>2 DEF ProcessTimeout
<1>14. ASSUME \/ \E o \in Orders : Tick(o) \/ Fire(o) \/ GuardExpires(o)
              \/ LeaderExpires \/ TimeoutNextMsg
              \/ \E r \in Reconcilers : Reconcile(r)
       PROVE  Still
  BY <1>4, <1>14 DEF Tick, Fire, GuardExpires, LeaderExpires, TimeoutNextMsg, Reconcile,
     TakeLead, FetchExpired, ReconcileNext
<1>15. ASSUME ProcessCrash PROVE Still
  BY <1>6, <1>15 DEF ProcessCrash
<1>16. QED
  BY <1>10, <1>11, <1>12, <1>13, <1>14, <1>15 DEF Next, PlacementSteps

-----------------------------------------------------------------------------
(* The new sale sells its own stock *)

\* The orders of this sale that took a unit from shard s, or gave one back to it.
NewTaken(s) == TakenFrom(s) \ old
NewReturned(s) == ReturnedTo(s) \ old

SinceSeed(s) ==
    shard[s] + Cardinality(NewTaken(s)) =
    SeedShare(Stock, NumShards, s) + Cardinality(NewReturned(s))

LEMMA SinceReserve ==
    ASSUME RefundInv, ConservedSinceSeed, NEW o \in Orders, o \notin old, NEW t \in Shard,
           t \notin taken[o], ReserveScript(o, t), UNCHANGED <<refundedTo, old>>
    PROVE  ConservedSinceSeed'
<1> SUFFICES ASSUME NEW s \in Shard PROVE SinceSeed(s)'
  BY DEF ConservedSinceSeed, SinceSeed, NewTaken, NewReturned
<1>0. SinceSeed(s) /\ shard \in [Shard -> Nat] /\ taken \in [Orders -> SUBSET Shard]
  BY DEF ConservedSinceSeed, SinceSeed, NewTaken, NewReturned, RefundInv, InventoryTypeOK
<1>1. NewReturned(s)' = NewReturned(s)
  BY DEF NewReturned, ReturnedTo
<1>2. Cardinality(NewTaken(s)) \in Nat /\ Cardinality(NewReturned(s)) \in Nat
  BY CountNat DEF NewTaken, NewReturned, TakenFrom, ReturnedTo
<1>3. CASE s = t
  <2>1. NewTaken(s)' = NewTaken(s) \cup {o} /\ o \notin NewTaken(s)
    BY <1>0, <1>3 DEF NewTaken, TakenFrom, ReserveScript
  <2>2. Cardinality(NewTaken(s)') = Cardinality(NewTaken(s)) + 1
    BY <2>1, OneMore DEF NewTaken, TakenFrom
  <2>3. shard'[s] = shard[s] - 1
    BY <1>0, <1>3 DEF ReserveScript
  <2>4. QED
    BY <1>0, <1>1, <1>2, <2>2, <2>3, SeedShareNat DEF SinceSeed
<1>4. CASE s # t
  <2>1. NewTaken(s)' = NewTaken(s)
    BY <1>0, <1>4 DEF NewTaken, TakenFrom, ReserveScript
  <2>2. shard'[s] = shard[s]
    BY <1>0, <1>4 DEF ReserveScript
  <2>3. QED
    BY <1>0, <1>1, <2>1, <2>2 DEF SinceSeed
<1>5. QED
  BY <1>3, <1>4

LEMMA SinceRelease ==
    ASSUME RefundInv, ConservedSinceSeed, NEW o \in Orders, o \notin old, NEW t \in Shard,
           ReleaseScript(o, t), UNCHANGED <<taken, old>>
    PROVE  ConservedSinceSeed'
<1> SUFFICES ASSUME NEW s \in Shard PROVE SinceSeed(s)'
  BY DEF ConservedSinceSeed, SinceSeed, NewTaken, NewReturned
<1>0. /\ SinceSeed(s)
      /\ shard \in [Shard -> Nat] /\ refundedTo \in [Orders -> Shard \cup {NoShard}]
      /\ refundedTo[o] = NoShard /\ NoShard \notin Shard
  <2>1. SinceSeed(s)
    BY DEF ConservedSinceSeed, SinceSeed, NewTaken, NewReturned
  <2>2. InventoryTypeOK /\ OrderInv(o) /\ resv[o] = "RESERVED"
    BY DEF RefundInv, ReleaseScript, Compensable
  <2>3. NoShard \notin Shard
    BY InventoryAssumption DEF Shard, NoShard
  <2>4. QED
    BY <2>1, <2>2, <2>3 DEF InventoryTypeOK, OrderInv
<1>1. NewTaken(s)' = NewTaken(s)
  BY DEF NewTaken, TakenFrom
<1>2. Cardinality(NewTaken(s)) \in Nat /\ Cardinality(NewReturned(s)) \in Nat
  BY CountNat DEF NewTaken, NewReturned, TakenFrom, ReturnedTo
<1>3. CASE s = t
  <2>1. /\ NewReturned(s)' = NewReturned(s) \cup {o}
        /\ o \notin NewReturned(s)
    BY <1>0, <1>3 DEF NewReturned, ReturnedTo, ReleaseScript
  <2>2. Cardinality(NewReturned(s)') = Cardinality(NewReturned(s)) + 1
    BY <2>1, OneMore DEF NewReturned, ReturnedTo
  <2>3. shard'[s] = shard[s] + 1
    BY <1>0, <1>3 DEF ReleaseScript
  <2>4. QED
    BY <1>0, <1>1, <1>2, <2>2, <2>3, SeedShareNat DEF SinceSeed
<1>4. CASE s # t
  <2>1. NewReturned(s)' = NewReturned(s)
    BY <1>0, <1>4 DEF NewReturned, ReturnedTo, ReleaseScript
  <2>2. shard'[s] = shard[s]
    BY <1>0, <1>4 DEF ReleaseScript
  <2>3. QED
    BY <1>0, <1>1, <2>1, <2>2 DEF SinceSeed
<1>5. QED
  BY <1>3, <1>4

LEMMA SinceQuiet ==
    ASSUME ConservedSinceSeed, UNCHANGED <<shard, taken, refundedTo, old>>
    PROVE  ConservedSinceSeed'
BY DEF ConservedSinceSeed, TakenFrom, ReturnedTo

LEMMA SinceStep ==
    ASSUME SeedShards = NumShards, SeedInv, ConservedSinceSeed, [SeedingNext]_seedingVars
    PROVE  ConservedSinceSeed'
<1>0. RefundInv /\ InventoryTypeOK /\ spc \in 1..3 /\ soldout \in BOOLEAN
  BY DEF SeedInv, SysInv, PlaceInv, RefundInv, InventoryTypeOK
<1>1. CASE Next /\ UNCHANGED seedVars
  <2>0. UNCHANGED old
    BY <1>1 DEF seedVars
  <2>1. ASSUME NEW o \in Orders \ old, ProbeShard(o) PROVE ConservedSinceSeed'
    <3> DEFINE s == Sibling(Home(o), offset[o])
    <3>1. s \in Shard /\ s \notin taken[o]
      BY <1>0, <2>1, HomeInShard, SiblingInShard, ProbedOnce DEF ProbeShard, InventoryTypeOK
    <3>2. UNCHANGED refundedTo /\ (ReserveScript(o, s) \/ UNCHANGED <<shard, taken>>)
      BY <2>1 DEF ProbeShard
    <3> HIDE DEF s
    <3>3. QED
      BY <1>0, <2>0, <3>1, <3>2, SinceReserve, SinceQuiet
  <2>2. ASSUME NEW o \in Orders \ old, NEW s \in Shard, NEW out, Release(o, s, out)
        PROVE  ConservedSinceSeed'
    <3>1. UNCHANGED taken /\ (ReleaseScript(o, s) \/ UNCHANGED <<shard, refundedTo>>)
      BY <2>2 DEF Release
    <3>2. QED
      BY <1>0, <2>0, <3>1, SinceRelease, SinceQuiet
  <2>3. CASE UNCHANGED <<shard, taken, refundedTo>>
    BY <2>0, <2>3, SinceQuiet
  <2>4. ASSUME NEW o, CheckLatch(o) \/ LatchSoldOut(o) PROVE UNCHANGED <<shard, taken, refundedTo>>
    BY <2>4 DEF CheckLatch, LatchSoldOut, history
  <2>5. QED
    BY <1>1, <2>1, <2>2, <2>3, <2>4, OnlyNewOrders
<1>2. CASE SeedStep
  <2>1. UNCHANGED <<taken, refundedTo, rpc>>
    BY <1>0, <1>2, SeedStepEffect DEF history, callVars
  <2>2. CASE UNCHANGED <<shard, old>>
    BY <2>1, <2>2, SinceQuiet
  <2>3. CASE shard' = [s \in Shard |-> SeedValue(s)] /\ old' = Begun
    <3> SUFFICES ASSUME NEW s \in Shard PROVE SinceSeed(s)'
      BY DEF ConservedSinceSeed, SinceSeed, NewTaken, NewReturned
    <3>1. shard'[s] = SeedShare(Stock, NumShards, s)
      BY <2>3, InventoryAssumption DEF SeedValue, Shard
    <3>2. NoShard \notin Shard /\ s # NoShard
      BY InventoryAssumption DEF Shard, NoShard
    <3>3. \A o \in Orders : rpc[o] = "start" => taken[o] = {} /\ refundedTo[o] = NoShard
      BY <1>0 DEF RefundInv, OrderInv
    <3>4. NewTaken(s)' = {} /\ NewReturned(s)' = {}
      BY <2>1, <2>3, <3>2, <3>3 DEF NewTaken, NewReturned, TakenFrom, ReturnedTo, Begun
    <3>5. QED
      BY <3>1, <3>4, FS_EmptySet, SeedShareNat DEF SinceSeed
  <2>4. QED
    BY <1>0, <1>2, <2>2, <2>3, SeedStepEffect
<1>3. CASE UNCHANGED seedingVars
  BY <1>3, SinceQuiet DEF seedingVars, vars, inventoryVars, seedVars
<1>4. QED
  BY <1>1, <1>2, <1>3 DEF SeedingNext

\* Seeded with the shards the backend uses, and when nothing of the last sale can be
\* refunded any more, a sale sells its own stock: each counter is its share, less what
\* the orders of this sale took, plus what they gave back.  Timeouts, reconcilers and
\* dead letters of the last sale may run on; the command may stop after any call and be
\* run again, on the same condition.
THEOREM SaleSellsItsStock ==
    ASSUME Quiet = TRUE, SeedShards = NumShards
    PROVE  SeedingSpec => []ConservedSinceSeed
<1>1. SeedingInit => ConservedSinceSeed
  <2> SUFFICES ASSUME SeedingInit PROVE ConservedSinceSeed
    OBVIOUS
  <2>1. ShardConserved /\ old = {}
    BY ConservedInit DEF SeedingInit, Init, PlacementInit
  <2>2. QED
    BY <2>1 DEF ConservedSinceSeed, ShardConserved
<1>2. SeedInv /\ ConservedSinceSeed /\ [SeedingNext]_seedingVars => ConservedSinceSeed'
  BY SinceStep
<1>3. SeedingSpec => []SeedInv
  BY SeedInvariant, Zenon
<1>4. QED
  BY <1>1, <1>2, <1>3, PTL DEF SeedingSpec, seedingVars

-----------------------------------------------------------------------------
(* The latch of the new sale *)

NoNewRefund == \A o \in Orders \ old : refunds[o] = 0

\* What a sweep of this sale knows.  A buyer may have been turned away by the latch
\* of the last sale, so unlike SweptEmpty this says nothing of soldOut.
SweptNew(o) ==
    /\ rpc[o] = "probe" =>
          \A k \in Shard : k < offset[o] => shard[Sibling(Home(o), k)] = 0
    /\ rpc[o] = "latch" => AllEmpty

\* Once the latch is deleted, it is honest: from the third call of the command on,
\* and for as long as its run has not been followed by another.
Unlatched == opened \/ spc = 3

\* The orders of this sale whose client is still there.
Here == Orders \ (old \cup left)

SaleInv ==
    NoNewRefund => /\ Unlatched => (soldout => AllEmpty)
                   /\ \A o \in Here : SweptNew(o)

LEMMA SalePlace ==
    ASSUME RedisFaults = {}, SeedInv, SaleInv, Next, UNCHANGED seedVars
    PROVE  SaleInv'
<1> DEFINE Honest == /\ Unlatched => (soldout => AllEmpty)
                     /\ \A o \in Here : SweptNew(o)
<1> SUFFICES ASSUME NoNewRefund' PROVE Honest'
  BY DEF SaleInv
<1>a. UNCHANGED <<spc, opened, old>> /\ (Unlatched' <=> Unlatched)
  BY DEF seedVars, Unlatched
<1>b. InventoryTypeOK /\ RefundInv /\ old \subseteq Orders
  BY DEF SeedInv, SysInv, PlaceInv, RefundInv
<1>c. ASSUME NEW o \in Orders PROVE Reply(o) = IF o \in left THEN {"err"} ELSE {"ok"}
  BY DEF Reply, Outcome
<1>1. ASSUME NEW o \in Orders \ old, NEW s \in Shard, NEW out, Release(o, s, out)
      PROVE  UNCHANGED <<shard, refunds>>
  BY <1>a, <1>b, <1>1 DEF Release, ReleaseScript, NoNewRefund, InventoryTypeOK
<1>2. NoNewRefund
  <2>1. (\E o \in Orders \ old, s \in Shard : \E out : Release(o, s, out))
        \/ UNCHANGED refunds
    BY OnlyNewOrders DEF CheckLatch, ProbeShard, LatchSoldOut, history
  <2>2. QED
    BY <1>1, <1>a, <2>1 DEF NoNewRefund
<1>3. Honest
  BY <1>2 DEF SaleInv
<1>d. ASSUME NEW q \in Orders, NEW k \in Shard PROVE Sibling(Home(q), k) \in Shard
  BY HomeInShard, SiblingInShard
<1>e. Here \subseteq Orders /\ (UNCHANGED left => Here' = Here) /\ (left \subseteq left' => Here' \subseteq Here)
  BY <1>a DEF Here
\* A step of a client who has left.
<1>f. ASSUME NEW o \in Orders, o \in left, UNCHANGED <<shard, soldout, left>>,
             \A q \in Orders \ {o} : rpc'[q] = rpc[q] /\ offset'[q] = offset[q]
      PROVE  Honest'
  <2>1. \A q \in Here' : q \in Here /\ rpc'[q] = rpc[q] /\ offset'[q] = offset[q]
    BY <1>e, <1>f DEF Here
  <2>2. \A q \in Here' : SweptNew(q)'
    BY <1>3, <1>f, <2>1 DEF SweptNew, AllEmpty, Home
  <2>3. QED
    BY <1>3, <1>a, <1>f, <2>2 DEF AllEmpty
<1>4. ASSUME NEW o \in Orders \ old, CheckLatch(o) PROVE Honest'
  <2>1. offset[o] = 0
    BY <1>b, <1>4 DEF CheckLatch, RefundInv, OrderInv
  <2>2. \A k \in Shard : ~(k < offset[o])
    BY <2>1 DEF Shard
  <2>3. /\ UNCHANGED <<shard, soldout, left, offset>> /\ rpc'[o] \in {"probe", "soldOut"}
        /\ \A q \in Orders : q # o => rpc'[q] = rpc[q]
    BY <1>b, <1>4 DEF CheckLatch, InventoryTypeOK
  <2>4. \A q \in Here : SweptNew(q)'
    BY <1>3, <1>e, <2>2, <2>3 DEF SweptNew, AllEmpty, Home
  <2>5. QED
    BY <1>3, <1>a, <1>e, <2>3, <2>4 DEF AllEmpty
<1>5. ASSUME NEW o \in Orders \ old, ProbeShard(o) PROVE Honest'
  <2> DEFINE s == Sibling(Home(o), offset[o])
  <2>0. /\ s \in Shard /\ offset[o] \in Shard /\ rpc[o] = "probe"
        /\ UNCHANGED <<soldout, left>> /\ Here' = Here
    BY <1>b, <1>d, <1>e, <1>5 DEF ProbeShard, InventoryTypeOK
  <2>a. CASE o \in left
    <3>1. NextSibling(o) /\ UNCHANGED shard
      BY <1>5, <1>c, <2>a DEF ProbeShard, Applied
    <3>2. \A q \in Orders \ {o} : rpc'[q] = rpc[q] /\ offset'[q] = offset[q]
      BY <1>b, <3>1 DEF NextSibling, InventoryTypeOK
    <3> HIDE DEF s, Honest
    <3>3. QED
      BY <1>f, <2>0, <2>a, <3>1, <3>2
  <2>b. CASE o \notin left
    <3>0. o \in Here
      BY <2>b DEF Here
    <3>1. CASE ReserveScript(o, s) /\ rpc' = [rpc EXCEPT ![o] = "won"] /\ UNCHANGED offset
      <4>1. ~AllEmpty
        BY <2>0, <3>1 DEF AllEmpty, ReserveScript, HasUnit
      <4>2. \A u \in Shard : shard[u] = 0 => shard'[u] = 0
        BY <1>b, <2>0, <3>1 DEF ReserveScript, HasUnit, InventoryTypeOK
      <4>3. \A q \in Orders : rpc'[q] = "won" \/ rpc'[q] = rpc[q]
        BY <1>b, <3>1 DEF InventoryTypeOK
      <4> HIDE DEF s
      <4>4. (Unlatched => ~soldout) /\ \A q \in Here : rpc[q] # "latch"
        BY <1>3, <4>1 DEF SweptNew
      <4>5. ASSUME NEW q \in Here PROVE SweptNew(q)'
        BY <1>3, <1>d, <1>e, <3>1, <4>2, <4>3, <4>4 DEF SweptNew, Home
      <4>6. QED
        BY <1>a, <2>0, <4>4, <4>5
    <3>2. CASE shard[s] = 0 /\ NextSibling(o) /\ UNCHANGED shard
      <4>1. \A k \in Shard : k < offset[o] => shard[Sibling(Home(o), k)] = 0
        BY <1>3, <2>0, <3>0 DEF SweptNew
      <4>2. CASE offset[o] + 1 < NumShards
        <5>1. ASSUME NEW k \in Shard, k < offset'[o] PROVE shard[Sibling(Home(o), k)] = 0
          <6>1. k < offset[o] \/ k = offset[o]
            BY <1>b, <2>0, <3>2, <4>2, <5>1
               DEF NextSibling, MoreSiblings, Shard, InventoryTypeOK
          <6>2. QED
            BY <6>1, <4>1, <3>2
        <5>2. rpc' = rpc /\ \A q \in Orders : q # o => offset'[q] = offset[q]
          BY <1>b, <3>2, <4>2 DEF NextSibling, MoreSiblings, InventoryTypeOK
        <5> HIDE DEF s
        <5>3. ASSUME NEW q \in Here PROVE SweptNew(q)'
          BY <1>3, <1>e, <2>0, <3>2, <5>1, <5>2 DEF SweptNew, AllEmpty, Home
        <5>4. QED
          BY <1>3, <1>a, <2>0, <3>2, <5>3 DEF AllEmpty
      <4>3. CASE ~(offset[o] + 1 < NumShards)
        <5>1. AllEmpty
          BY <1>b, <3>2, <4>1, <4>3, SweepComplete
        <5>2. \A q \in Orders : q # o => rpc'[q] = rpc[q]
          BY <1>b, <3>2, <4>3 DEF NextSibling, MoreSiblings, InventoryTypeOK
        <5>3. rpc'[o] = "latch" /\ offset' = offset
          BY <1>b, <3>2, <4>3 DEF NextSibling, MoreSiblings, InventoryTypeOK
        <5> HIDE DEF s
        <5>4. ASSUME NEW q \in Here PROVE SweptNew(q)'
          BY <1>3, <1>e, <3>2, <5>1, <5>2, <5>3 DEF SweptNew, AllEmpty, Home
        <5>5. QED
          BY <1>a, <2>0, <3>2, <5>1, <5>4 DEF AllEmpty
      <4>4. QED
        BY <4>2, <4>3
    <3>3. shard[s] \in Nat
      BY <1>b, <2>0 DEF InventoryTypeOK
    <3>4. QED
      BY <1>c, <1>5, <2>0, <2>b, <3>1, <3>2, <3>3 DEF ProbeShard, Applied, HasUnit, KeyWon
  <2>c. QED
    BY <2>a, <2>b
<1>6. ASSUME NEW o \in Orders \ old, LatchSoldOut(o) PROVE Honest'
  <2>1. /\ UNCHANGED <<shard, offset, left>> /\ rpc'[o] = "soldOut"
        /\ \A q \in Orders : q # o => rpc'[q] = rpc[q]
    BY <1>b, <1>6 DEF LatchSoldOut, InventoryTypeOK
  <2>2. CASE o \in left
    <3>1. UNCHANGED soldout
      BY <1>6, <1>b, <1>c, <2>2 DEF LatchSoldOut, Applied, InventoryTypeOK
    <3> HIDE DEF Honest
    <3>2. QED
      BY <1>f, <2>1, <2>2, <3>1
  <2>3. CASE o \notin left
    <3>1. AllEmpty
      BY <1>3, <1>6, <2>3 DEF LatchSoldOut, SweptNew, Here
    <3>2. \A q \in Here : SweptNew(q)'
      BY <1>3, <1>e, <2>1, <3>1 DEF SweptNew, AllEmpty, Home
    <3>3. QED
      BY <1>a, <1>e, <2>1, <3>1, <3>2 DEF AllEmpty
  <2>4. QED
    BY <2>2, <2>3
<1>7. ASSUME UNCHANGED <<shard, offset>>, left \subseteq left', soldout' => soldout,
             \A q \in Orders : rpc'[q] = rpc[q] \/ rpc'[q] = "marked"
      PROVE  Honest'
  <2>1. \A q \in Here : SweptNew(q)'
    BY <1>3, <1>e, <1>7 DEF SweptNew, AllEmpty, Home
  <2>2. QED
    BY <1>3, <1>7, <1>a, <1>e, <2>1 DEF AllEmpty
<1>8. ASSUME NEW o \in Orders \ old, NEW s \in Shard, NEW out, Release(o, s, out)
      PROVE  Honest'
  <2>1. UNCHANGED <<shard, offset, soldout, rpc, left>>
    BY <1>1, <1>8 DEF Release
  <2>2. QED
    BY <1>7, <2>1
<1> HIDE DEF Honest
<1>9. QED
  BY <1>4, <1>5, <1>6, <1>7, <1>8, OnlyNewOrders

LEMMA SaleStep ==
    ASSUME RedisFaults = {}, SeedInv, SaleInv, [SeedingNext]_seedingVars PROVE SaleInv'
<1>0. /\ RefundInv /\ InventoryTypeOK /\ spc \in 1..3 /\ soldout \in BOOLEAN
      /\ old \subseteq Orders
  BY DEF SeedInv, SysInv, PlaceInv, RefundInv, InventoryTypeOK
<1>1. CASE Next /\ UNCHANGED seedVars
  BY <1>1, SalePlace
<1>2. CASE SeedStep
  <2>1. UNCHANGED <<refunds, rpc, offset, left>>
    BY <1>0, <1>2, SeedStepEffect DEF history, callVars
  <2>2. CASE UNCHANGED <<shard, old>>
    <3>1. /\ spc' = 3 => ~soldout'
          /\ opened' => spc = 3 /\ UNCHANGED soldout
      BY <1>0, <1>2, SeedStepEffect
    <3>2. (NoNewRefund' <=> NoNewRefund) /\ (AllEmpty' <=> AllEmpty)
      BY <2>1, <2>2 DEF NoNewRefund, AllEmpty
    <3>3. Here' = Here /\ \A o \in Here : SweptNew(o) => SweptNew(o)'
      BY <2>1, <2>2, <3>2 DEF SweptNew, Home, Here
    <3>4. NoNewRefund => (Unlatched' => (soldout' => AllEmpty'))
      BY <3>1, <3>2 DEF SaleInv, Unlatched
    <3>5. QED
      BY <2>2, <3>2, <3>3, <3>4 DEF SaleInv
  <2>3. CASE spc = 1 /\ old' = Begun
    <3>a. (opened' => spc = 3) /\ (spc' = 3 => ~soldout')
      BY <1>0, <1>2, SeedStepEffect
    <3>1. ~opened' /\ (spc' = 3 => ~soldout')
      BY <2>3, <3>a
    <3>2. \A o \in Here' : rpc'[o] = "start"
      BY <2>1, <2>3 DEF Begun, Here
    <3>3. \A o \in Here' : SweptNew(o)'
      BY <3>2 DEF SweptNew
    <3>4. QED
      BY <3>1, <3>3 DEF SaleInv, Unlatched
  <2>4. QED
    BY <1>0, <1>2, <2>2, <2>3, SeedStepEffect
<1>3. CASE UNCHANGED seedingVars
  <2>1. UNCHANGED <<shard, soldout, rpc, offset, left, refunds, spc, opened, old>>
    BY <1>3 DEF seedingVars, vars, inventoryVars, seedVars
  <2>2. QED
    BY <2>1 DEF SaleInv, Unlatched, SweptNew, Here, NoNewRefund, AllEmpty, Home
<1>4. QED
  BY <1>1, <1>2, <1>3 DEF SeedingNext

\* With a healthy Redis, for every number of shards and of buyers that come while the
\* command is running: when it has ended without an error, and until the first refund
\* of the new sale, the latch is set only when there is nothing left, whatever the
\* workers still do for the last one.
THEOREM SaleIsOpen ==
    ASSUME RedisFaults = {}, Quiet = TRUE
    PROVE  SeedingSpec => []SaleOpens
<1>1. SeedingInit => SaleInv
  <2> SUFFICES ASSUME SeedingInit PROVE SaleInv
    OBVIOUS
  <2>1. ~soldout /\ \A o \in Orders : rpc[o] = "start"
    BY DEF SeedingInit, Init, PlacementInit, InventoryInit
  <2>2. QED
    BY <2>1 DEF SaleInv, SweptNew, Here
<1>2. SeedInv /\ SaleInv /\ [SeedingNext]_seedingVars => SaleInv'
  BY SaleStep
<1>3. SaleInv => SaleOpens
  BY DEF SaleInv, Unlatched, NoNewRefund, AllEmpty, SaleOpens
<1>4. SeedingSpec => []SeedInv
  BY SeedInvariant, Zenon
<1>5. QED
  BY <1>1, <1>2, <1>3, <1>4, PTL DEF SeedingSpec, seedingVars

-----------------------------------------------------------------------------
(* No oversell from one sale to the next *)

\* The rows of the last sale are cleared and no event of it will bring one back.
OldGone ==
    /\ \A m \in stream : m[1] \in old => delivered[m] = MaxDeliver
    /\ wpc # "idle" => wmsg[1] \notin old
    /\ opened => \A o \in old : row[o] = "none"

\* A row is cancelled when it has expired, and while the command runs nothing that was
\* sold since it set the counters has: the TRUNCATE hits no cancelled row of this sale.
YoungInv ==
    /\ \A o \in Orders : /\ row[o] = "none" => age[o] = "young"
                         /\ row[o] = "CANCELLED_TIMEOUT" => age[o] = "expired"
    /\ spc # 1 => \A o \in Orders \ old : age[o] = "young"

\* A Place call of the last sale publishes nothing any more, so the copies of its
\* events are the ones that had used up their deliveries.
LEMMA OldGonePlace ==
    ASSUME SeedInv, OldGone, NEW o \in Orders, UNCHANGED seedVars,
           PlaceStep(o) \/ ClientLeaves(o) \/ BackendCrash(o) \/ HoldExpires(o)
    PROVE  OldGone'
<1>0. PlacementOwn /\ PlacementContract /\ OldIdle /\ UNCHANGED <<opened, old>>
  BY DEF SeedInv, SysInv, PlaceInv, seedVars
<1>1. ASSUME UNCHANGED <<stream, delivered, wpc, wmsg, row>> PROVE OldGone'
  BY <1>0, <1>1 DEF OldGone
<1>2. CASE PlacePublish(o)
  <2>1. place[o] = "publish" /\ UNCHANGED <<delivered, wpc, wmsg, row>>
    BY <1>2 DEF PlacePublish, rowVars, workerVars
  <2>2. o \notin old
    BY <1>0, <2>1 DEF OldIdle, PlacementContract, Marked
  <2>3. stream' \in {stream, stream \cup {<<o, attempts[o] + 1>>}}
    BY <1>2 DEF PlacePublish
  <2>4. \A m \in stream' : m \in stream \/ m[1] = o
    BY <2>3
  <2>5. QED
    BY <1>0, <2>1, <2>2, <2>4 DEF OldGone
<1>3. CASE \/ PlaceReserve(o) \/ PlaceMark(o) \/ PlaceRelease(o) \/ PlaceClear(o)
           \/ ClientLeaves(o) \/ BackendCrash(o) \/ HoldExpires(o)
  <2>1. UNCHANGED <<stream, delivered, wpc, wmsg, row>>
    BY <1>3 DEF PlaceReserve, PlaceMark, PlaceRelease, PlaceClear, ClientLeaves, BackendCrash,
       HoldExpires, placementVars, streamVars, rowVars, workerVars
  <2>2. QED
    BY <1>1, <2>1
<1>4. QED
  BY <1>2, <1>3 DEF PlaceStep

LEMMA OldGoneWorker ==
    ASSUME SeedInv, OldGone, UNCHANGED seedVars, OrderWorker \/ AgeOut \/ DeadLetter \/ DLQWorker
    PROVE  OldGone'
<1>0. PlacementOwn /\ UNCHANGED <<opened, old>>
  BY DEF SeedInv, SysInv, PlaceInv, seedVars
<1> USE DEF placementVars, streamVars, rowVars, workerVars
<1>1. CASE NextMsg
  <2>1. PICK m \in stream : /\ Deliverable(m)
                            /\ delivered' = [delivered EXCEPT ![m] = @ + 1]
                            /\ wmsg' = m
    BY <1>1 DEF NextMsg
  <2>2. UNCHANGED <<stream, row>>
    BY <1>1 DEF NextMsg
  <2>3. m[1] \notin old
    <3>1. delivered[m] # MaxDeliver
      BY <1>0, <2>1, PlacementAssumption DEF Deliverable, PlacementOwn
    <3>2. QED
      BY <2>1, <3>1 DEF OldGone
  <2>4. \A n \in stream : n[1] \in old => delivered'[n] = delivered[n]
    BY <1>0, <2>1, <2>3 DEF PlacementOwn
  <2>5. QED
    BY <1>0, <2>1, <2>2, <2>3, <2>4 DEF OldGone
<1>2. CASE InsertOrder
  <2>1. /\ wmsg[1] \notin old
        /\ row' = row \/ row' = [row EXCEPT ![wmsg[1]] = "PENDING_PAYMENT"]
        /\ wpc' = "idle" \/ UNCHANGED wmsg
        /\ UNCHANGED <<stream, delivered>>
    BY <1>2 DEF InsertOrder, EndHandleOrder, OldGone
  <2>2. \A o \in old : o \in Orders
    BY DEF SeedInv
  <2>3. \A o \in old : row'[o] = row[o]
    BY <1>0, <2>1, <2>2 DEF PlacementOwn
  <2>4. QED
    BY <1>0, <2>1, <2>3 DEF OldGone
<1>3. CASE FlipPublished \/ ArmTimeout \/ AckOrder \/ AgeOut \/ DeadLetter \/ DLQWorker
  <2>1. /\ stream' \subseteq stream /\ UNCHANGED <<delivered, row>>
        /\ wpc' = "idle" \/ (wpc # "idle" /\ UNCHANGED wmsg) \/ UNCHANGED <<wpc, wmsg>>
    BY <1>3 DEF FlipPublished, ArmTimeout, AckOrder, Ackable, AgeOut, DeadLetter, DLQWorker,
       HandleDLQMsg, DLQClear, AckDLQ, EndHandleOrder
  <2>2. QED
    BY <1>0, <2>1 DEF OldGone
<1>4. QED
  BY <1>1, <1>2, <1>3 DEF OrderWorker

\* A timeout cancels a row that is there; it brings none back.
LEMMA OldGoneWindow ==
    ASSUME SeedInv, OldGone, UNCHANGED seedVars, Next, ~PlacementSteps PROVE OldGone'
<1>0. PlacementOwn /\ WindowOwn /\ UNCHANGED <<opened, old>> /\ old \subseteq Orders
  BY DEF SeedInv, SysInv, PlaceInv, seedVars
<1> USE DEF placeVars, streamVars, rowVars, workerVars, dlqVars, placementVars
<1>1. ASSUME NEW p \in Procs, CancelOrder(p) PROVE OldGone'
  <2>1. UNCHANGED <<stream, delivered, wpc, wmsg>>
    BY <1>1 DEF CancelOrder
  <2>2. \/ UNCHANGED row
        \/ /\ row[pord[p]] = "PENDING_PAYMENT"
           /\ row' = [row EXCEPT ![pord[p]] = "CANCELLED_TIMEOUT"]
    BY <1>1 DEF CancelOrder, CancelMatches
  <2>3. \A o \in old : row[o] = "none" => row'[o] = "none"
    BY <1>0, <2>2 DEF PlacementOwn
  <2>4. QED
    BY <1>0, <2>1, <2>3 DEF OldGone
<1>2. ASSUME ProcessCrash PROVE OldGone'
  <2>1. /\ wpc' = "idle" \/ UNCHANGED <<wpc, wmsg>>
        /\ UNCHANGED <<stream, delivered, row>>
    BY <1>2 DEF ProcessCrash, EndHandleOrder
  <2>2. QED
    BY <1>0, <2>1 DEF OldGone
<1>3. ASSUME UNCHANGED <<stream, delivered, wpc, wmsg, row>> PROVE OldGone'
  BY <1>0, <1>3 DEF OldGone
<1>4. ASSUME \/ \E o \in Orders : Tick(o) \/ Fire(o) \/ GuardExpires(o)
             \/ LeaderExpires \/ TimeoutNextMsg
             \/ \E r \in Reconcilers : Reconcile(r)
             \/ \E p \in Procs : \/ ClaimGuard(p) \/ ReadOrder(p) \/ TimeoutRelease(p)
                                 \/ TimeoutClear(p) \/ NotifyCancelled(p)
      PROVE  UNCHANGED <<stream, delivered, wpc, wmsg, row>>
  BY <1>4 DEF Tick, Fire, GuardExpires, LeaderExpires, TimeoutNextMsg, Reconcile, TakeLead,
     FetchExpired, ReconcileNext, ClaimGuard, ReadOrder, TimeoutRelease, TimeoutClear,
     NotifyCancelled
<1>5. QED
  BY <1>1, <1>2, <1>3, <1>4 DEF Next, ProcessTimeout

\* The order path never deletes a row, and cancels only an expired one.
LEMMA YoungStep ==
    ASSUME SeedInv, YoungInv, Next, WindowOutlastsSeed, UNCHANGED seedVars PROVE YoungInv'
<1>0. PlacementOwn /\ WindowOwn /\ UNCHANGED <<spc, old>> /\ old \subseteq Orders
  BY DEF SeedInv, SysInv, PlaceInv, seedVars
<1> DEFINE Aged == \A o \in Orders : /\ row'[o] = "none" => age'[o] = "young"
                                     /\ row'[o] = "CANCELLED_TIMEOUT" => age'[o] = "expired"
<1>a. spc' # 1 => \A o \in Orders \ old' : age'[o] = "young"
  BY <1>0 DEF YoungInv, WindowOutlastsSeed
<1>b. \A o \in Orders : /\ row[o] = "none" => age[o] = "young"
                        /\ row[o] = "CANCELLED_TIMEOUT" => age[o] = "expired"
  BY DEF YoungInv
<1> USE DEF placeVars, streamVars, rowVars, workerVars, dlqVars, placementVars
<1>1. ASSUME UNCHANGED <<row, age>> PROVE Aged
  BY <1>1, <1>b
<1>2. ASSUME NEW o \in Orders, Tick(o) PROVE Aged
  <2>1. UNCHANGED row /\ row[o] # "none" /\ age[o] # "expired"
        /\ \A q \in Orders : q # o => age'[q] = age[q]
    BY <1>0, <1>2 DEF Tick, WindowOwn
  <2>2. QED
    BY <1>b, <2>1
<1>3. ASSUME NEW p \in Procs, CancelOrder(p) PROVE Aged
  <2>1. UNCHANGED age /\ pord[p] \in Orders
    BY <1>0, <1>3 DEF CancelOrder, WindowOwn
  <2>2. UNCHANGED row \/ (/\ age[pord[p]] = "expired"
                          /\ row' = [row EXCEPT ![pord[p]] = "CANCELLED_TIMEOUT"])
    BY <1>3 DEF CancelOrder, CancelMatches
  <2>3. QED
    BY <1>0, <1>b, <2>1, <2>2 DEF PlacementOwn
<1>4. ASSUME InsertOrder, UNCHANGED windowVars PROVE Aged
  <2>1. UNCHANGED age
    BY <1>4 DEF windowVars
  <2>2. UNCHANGED row \/ row' = [row EXCEPT ![wmsg[1]] = "PENDING_PAYMENT"]
    BY <1>4 DEF InsertOrder
  <2>3. QED
    BY <1>0, <1>b, <2>1, <2>2 DEF PlacementOwn
<1>5. ASSUME PlacementSteps, UNCHANGED windowVars, ~InsertOrder PROVE UNCHANGED <<row, age>>
  <2>1. UNCHANGED age
    BY <1>5 DEF windowVars
  <2>2. UNCHANGED row
    BY <1>5 DEF PlacementSteps, PlaceStep, PlaceReserve, PlaceMark, PlacePublish, PlaceRelease,
       PlaceClear, ClientLeaves, BackendCrash, HoldExpires, OrderWorker, NextMsg, FlipPublished,
       ArmTimeout, AckOrder, AgeOut, DeadLetter, DLQWorker, HandleDLQMsg, DLQClear, AckDLQ
  <2>3. QED
    BY <2>1, <2>2
<1>6. ASSUME \/ \E o \in Orders : Fire(o) \/ GuardExpires(o)
             \/ LeaderExpires \/ TimeoutNextMsg \/ ProcessCrash
             \/ \E r \in Reconcilers : Reconcile(r)
             \/ \E p \in Procs : \/ ClaimGuard(p) \/ ReadOrder(p) \/ TimeoutRelease(p)
                                 \/ TimeoutClear(p) \/ NotifyCancelled(p)
      PROVE  UNCHANGED <<row, age>>
  BY <1>6 DEF Fire, GuardExpires, LeaderExpires, TimeoutNextMsg, ProcessCrash, Reconcile, TakeLead,
     FetchExpired, ReconcileNext, ClaimGuard, ReadOrder, TimeoutRelease, TimeoutClear,
     NotifyCancelled
<1> HIDE DEF Aged
<1>7. Aged
  BY <1>1, <1>2, <1>3, <1>4, <1>5, <1>6 DEF Next, ProcessTimeout
<1>8. QED
  BY <1>7, <1>a DEF Aged, YoungInv

\* What the proof needs of the orders of this sale, and of the ones before it.
NewInv ==
    /\ OldGone /\ YoungInv
    /\ OwnersCancelled(Orders \ old) /\ HoldInv(Orders \ old)

\* Setting the counters makes every order begun so far an old one; the sale is over,
\* so none of them has an event that will be delivered.  The TRUNCATE takes rows of
\* this sale with it, but none that was cancelled.
LEMMA NewSeed ==
    ASSUME Quiet = TRUE, SeedInv, NewInv, SeedStep
    PROVE  NewInv'
<1>0. /\ PlacementOwn /\ PlacementContract /\ WindowOwn /\ WindowContract
      /\ RefundInv /\ InventoryTypeOK
      /\ spc \in 1..3 /\ soldout \in BOOLEAN /\ old \subseteq Orders
  BY DEF SeedInv, SysInv, PlaceInv, RefundInv, InventoryTypeOK
<1>1. UNCHANGED <<stream, delivered, wpc, wmsg, place, refunds, dlq, rpc, ppc, pord>>
  BY <1>0, SeedStepEffect DEF history, callVars, placeVars, streamVars, workerVars, dlqVars
<1>2. \/ UNCHANGED <<row, age>>
      \/ /\ spc = 3 /\ row' = [o \in Orders |-> "none"]
         /\ age' = [o \in Orders |-> "young"]
  BY <1>0, SeedStepEffect
<1>3. \A o \in Orders : row'[o] # "none" => row'[o] = row[o]
  BY <1>2
<1>4. \/ spc = 1 /\ old' = Begun /\ SaleIsOver
      \/ UNCHANGED old
  BY <1>0, SeedStepEffect
\* An order that has not begun has no row, no processor and no refund.
<1>5. ASSUME NEW o \in Orders, rpc[o] = "start"
      PROVE  /\ row[o] = "none" /\ refunds[o] = 0
             /\ \A p \in Procs : ~Owns(p, o)
  BY <1>0, <1>5 DEF RefundInv, OrderInv, PlacementContract, WindowContract, Marked, Owns
\* The row of an order of this sale is not cancelled when it is truncated.
<1>6. ASSUME NEW o \in Orders \ old, spc = 3 PROVE row[o] # "CANCELLED_TIMEOUT"
  BY <1>6 DEF NewInv, YoungInv
<1>7. OldGone'
  <2>1. opened' => UNCHANGED old /\ \A o \in Orders : row'[o] = "none"
    BY <1>0, SeedStepEffect
  <2>2. opened' => \A o \in old' : row'[o] = "none"
    BY <1>0, <2>1
  <2>3. CASE UNCHANGED old
    BY <1>1, <2>2, <2>3 DEF NewInv, OldGone
  <2>4. CASE SaleIsOver
    BY <1>1, <2>2, <2>4 DEF OldGone, SaleIsOver, Exhausted
  <2>5. QED
    BY <1>4, <2>3, <2>4
<1>8. YoungInv'
  <2>1. \A o \in Orders : /\ row'[o] = "none" => age'[o] = "young"
                          /\ row'[o] = "CANCELLED_TIMEOUT" => age'[o] = "expired"
    BY <1>2 DEF NewInv, YoungInv
  <2>2. ASSUME spc' # 1, NEW o \in Orders, o \notin old' PROVE age'[o] = "young"
    <3>1. CASE old' = Begun
      BY <1>2, <1>5, <2>2, <3>1 DEF NewInv, YoungInv, Begun
    <3>2. CASE UNCHANGED old /\ spc # 1
      BY <1>2, <2>2, <3>2 DEF NewInv, YoungInv
    <3>3. CASE UNCHANGED old /\ spc = 1
      <4>1. old' = Begun
        BY <1>0, <2>2, <3>3, SeedStepEffect
      <4>2. QED
        BY <3>1, <4>1
    <3>4. QED
      BY <1>4, <3>1, <3>2, <3>3
  <2>3. QED
    BY <2>1, <2>2 DEF YoungInv
<1>9. OwnersCancelled(Orders \ old)'
  <2> SUFFICES ASSUME NEW o \in Orders, o \notin old', NEW p \in Procs, Owns(p, o)
               PROVE  row'[o] = "CANCELLED_TIMEOUT"
    BY <1>1 DEF OwnersCancelled, Owns
  <2>1. o \notin old /\ UNCHANGED old
    BY <1>4, <1>5 DEF Begun
  <2>2. row[o] = "CANCELLED_TIMEOUT"
    BY <2>1 DEF NewInv, OwnersCancelled
  <2>3. QED
    BY <1>2, <1>6, <2>1, <2>2
<1>10. HoldInv(Orders \ old)'
  <2>1. ASSUME NEW o \in Orders, o \notin old', refunds[o] > 0
        PROVE  row'[o] = "CANCELLED_TIMEOUT" \/ place[o] \in {"clear", "failed", "crashed"}
    <3>1. o \notin old /\ UNCHANGED old
      BY <1>4, <1>5, <2>1 DEF Begun
    <3>2. row[o] = "CANCELLED_TIMEOUT" \/ place[o] \in {"clear", "failed", "crashed"}
      BY <2>1, <3>1 DEF NewInv, HoldInv
    <3>3. QED
      BY <1>2, <1>6, <3>1, <3>2
  <2>2. QED
    BY <1>1, <1>3, <2>1 DEF NewInv, HoldInv
<1>11. QED
  BY <1>7, <1>8, <1>9, <1>10 DEF NewInv

LEMMA NewStep ==
    ASSUME "lost" \notin NatsFaults, DLQFed = FALSE, Quiet = TRUE
    PROVE  SeedInv /\ NewInv /\ [SeedingNext]_seedingVars => NewInv'
<1> SUFFICES ASSUME SeedInv, NewInv, [SeedingNext]_seedingVars PROVE NewInv'
  OBVIOUS
<1>0. SysInv /\ OldGone /\ YoungInv
  BY DEF SeedInv, NewInv
<1>1. CASE Next /\ WindowOutlastsSeed /\ UNCHANGED seedVars
  <2>0. UNCHANGED old
    BY <1>1 DEF seedVars
  <2>1. OldGone'
    BY <1>0, <1>1, OldGonePlace, OldGoneWorker, OldGoneWindow DEF PlacementSteps
  <2>2. YoungInv'
    BY <1>0, <1>1, YoungStep
  <2>3. PICK O \in SUBSET Orders : O = Orders \ old
    OBVIOUS
  <2>4. OwnersCancelled(O) /\ HoldInv(O)
    BY <2>3 DEF NewInv
  <2>5. OwnersCancelled(O)'
    BY <1>0, <1>1, <2>4, OwnersCancelledStep
  <2>6. HoldInv(O)'
    BY <1>0, <1>1, <2>4, HoldStep
  <2>7. O = Orders \ old'
    BY <2>0, <2>3
  <2>8. (OwnersCancelled(Orders \ old) /\ HoldInv(Orders \ old))'
    BY <2>5, <2>6, <2>7 DEF OwnersCancelled, HoldInv
  <2>9. QED
    BY <2>1, <2>2, <2>8 DEF NewInv
<1>2. CASE SeedStep
  BY <1>2, NewSeed
<1>3. CASE UNCHANGED seedingVars
  <2>1. UNCHANGED <<stream, delivered, wpc, wmsg, row, place, refunds, dlq, age, ppc, pord,
                    spc, opened, old>>
    BY <1>3 DEF seedingVars, seedVars, vars, inventoryVars, placementVars, windowVars
  <2>2. QED
    BY <2>1 DEF NewInv, HoldInv, OldGone, YoungInv, OwnersCancelled, Owns
<1>4. QED
  BY <1>1, <1>2, <1>3 DEF SeedingNext

\* The live orders are orders of this sale that hold a unit, and this sale has given
\* out no more units than its stock.
LEMMA LiveBounded ==
    ASSUME SeedInv, NewInv, ConservedSinceSeed PROVE LiveWithinStock
<1> DEFINE Live == {o \in Orders : row[o] = "PENDING_PAYMENT"}
           New == Orders \ old
<1> SUFFICES ASSUME opened PROVE Cardinality(Live) <= Stock
  BY DEF LiveWithinStock
<1>0. PlaceInv /\ RefundInv /\ InventoryTypeOK /\ New \in SUBSET Orders
  BY DEF SeedInv, SysInv, PlaceInv, RefundInv
<1>1. HoldInv(New)
  BY DEF NewInv
<1>2. \A o \in Live : o \in New
  BY DEF NewInv, OldGone
<1>3. Live \subseteq UnitsOut(New) /\ UnitsOut(New) \in SUBSET Orders
  <2>1. \A o \in Live : taken[o] # {} /\ refunds[o] = 0
    BY <1>0, <1>1, <1>2, HoldIsLive
  <2>2. QED
    BY <1>2, <2>1 DEF UnitsOut
<1>4. ASSUME NEW s \in Shard
      PROVE  Cardinality(TakenFrom(s) \cap New)
             <= SeedShare(Stock, NumShards, s) + Cardinality(ReturnedTo(s) \cap New)
  <2>1. TakenFrom(s) \cap New = NewTaken(s) /\ ReturnedTo(s) \cap New = NewReturned(s)
    BY DEF TakenFrom, ReturnedTo, NewTaken, NewReturned
  <2>2. /\ Cardinality(NewTaken(s)) \in Nat /\ Cardinality(NewReturned(s)) \in Nat
        /\ shard[s] \in Nat
    BY <1>0, CountNat DEF NewTaken, NewReturned, TakenFrom, ReturnedTo, InventoryTypeOK
  <2>3. shard[s] + Cardinality(NewTaken(s)) =
        SeedShare(Stock, NumShards, s) + Cardinality(NewReturned(s))
    BY DEF ConservedSinceSeed, NewTaken, NewReturned
  <2>4. SeedShare(Stock, NumShards, s) \in Nat
    BY SeedShareNat
  <2>5. Cardinality(NewTaken(s)) <= SeedShare(Stock, NumShards, s) + Cardinality(NewReturned(s))
    BY <2>2, <2>3, <2>4
  <2> HIDE DEF New
  <2>6. QED
    BY <2>1, <2>5
<1> HIDE DEF New, Live
<1>5. Cardinality(UnitsOut(New)) <= Stock
  BY <1>0, <1>4, OutBounded
<1>6. Cardinality(Live) <= Cardinality(UnitsOut(New))
  <2>1. IsFiniteSet(UnitsOut(New))
    BY <1>3, InventoryAssumption, FS_Subset
  <2>2. QED
    BY <1>3, <2>1, FS_Subset
<1>7. Cardinality(Live) \in Nat /\ Cardinality(UnitsOut(New)) \in Nat
  <2>1. Live \in SUBSET Orders
    BY DEF Live
  <2>2. QED
    BY <1>3, <2>1, CountNat
<1>8. QED
  BY <1>5, <1>6, <1>7, InventoryAssumption

\* Sale after sale: when the command has ended without an error, and whatever fails
\* or crashes after it, there are never more live orders than units of the new sale,
\* as long as a publish that reports an error was not stored and nothing feeds the DLQ.
\* Timeouts of both sales cancel and refund meanwhile.
THEOREM LiveNeverExceedsStock ==
    ASSUME "lost" \notin NatsFaults, DLQFed = FALSE, Quiet = TRUE, SeedShards = NumShards
    PROVE  SeedingSpec => []LiveWithinStock
<1>1. SeedingInit => NewInv
  <2> SUFFICES ASSUME SeedingInit PROVE NewInv
    OBVIOUS
  <2>1. HoldInv(Orders) /\ old = {} /\ spc = 1
    BY HoldInit DEF SeedingInit, Init
  <2>2. OldGone /\ YoungInv /\ OwnersCancelled(Orders)
    BY DEF SeedingInit, Init, PlacementInit, OldGone, YoungInv, OwnersCancelled, Owns
  <2>3. QED
    BY <2>1, <2>2 DEF NewInv
<1>2. SeedInv /\ NewInv /\ [SeedingNext]_seedingVars => NewInv'
  BY NewStep, Zenon
<1>3. SeedInv /\ NewInv /\ ConservedSinceSeed => LiveWithinStock
  BY LiveBounded
<1>4. SeedingSpec => []SeedInv /\ []ConservedSinceSeed
  BY SeedInvariant, SaleSellsItsStock, Zenon
<1>5. QED
  BY <1>1, <1>2, <1>3, <1>4, PTL DEF SeedingSpec, seedingVars

=============================================================================
