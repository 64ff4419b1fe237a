------------------------- MODULE PaymentWindowProofs -------------------------
(***************************************************************************)
(* Proofs about the whole order path, module PaymentWindow: it is well     *)
(* typed, it implements the inventory's contract (module Inventory), so    *)
(* every theorem of InventoryProofs holds of it, it cancels an order once  *)
(* and for good, and it never has more live orders than units.             *)
(***************************************************************************)
EXTENDS PaymentWindow, PlacementProofs

WindowOwn ==
    /\ age \in [Orders -> {"young", "due", "expired"}]
    /\ guard \in [Orders -> BOOLEAN]
    /\ tmsg \in [Orders -> 0..MaxDeliver]
    /\ leader \in BOOLEAN
    /\ ppc \in [Procs -> {"idle", "fetch", "guard", "get", "cas",
                          "release", "clear", "notify"}]
    /\ pord \in [Procs -> Orders \cup {NoOrder}]
    /\ \A p \in Procs : ppc[p] \notin {"idle", "fetch"} => pord[p] \in Orders
    /\ batch \in [Reconcilers -> SUBSET Orders]
    /\ notices \in [Orders -> Nat]

WindowContract ==
    /\ \A o \in Orders : tmsg[o] > 0 => Marked(o)
    /\ \A p \in Procs : ppc[p] \notin {"idle", "fetch"} => Marked(pord[p])
    /\ \A r \in Reconcilers : \A o \in batch[r] : Marked(o)

SysInv == PlaceInv /\ WindowOwn /\ WindowContract

LEMMA SysInvParts ==
    SysInv <=> /\ RefundInv
               /\ PlacementOwn /\ PlacementContract /\ AttemptsLeft
               /\ WindowOwn /\ WindowContract
BY DEF SysInv, PlaceInv

-----------------------------------------------------------------------------
(* Every step is a step of the inventory *)

\* The refinement: placing, persisting, timing out, crashing and retrying do
\* nothing to the counters that the inventory's contract does not allow.
LEMMA StepSim ==
    ASSUME SysInv, [Next]_vars PROVE [InventoryNext]_inventoryVars
<1>1. CASE PlacementSteps
  BY <1>1, PlacementStepSim DEF SysInv
<1>2. ASSUME NEW o \in Orders, Tick(o) \/ Fire(o) \/ GuardExpires(o)
      PROVE UNCHANGED inventoryVars
  BY <1>2 DEF Tick, Fire, GuardExpires
<1>3. ASSUME LeaderExpires \/ TimeoutNextMsg PROVE UNCHANGED inventoryVars
  BY <1>3 DEF LeaderExpires, TimeoutNextMsg
<1>4. ASSUME NEW p \in Procs, ProcessTimeout(p) PROVE [InventoryNext]_inventoryVars
  <2>1. ASSUME ClaimGuard(p) \/ ReadOrder(p) \/ CancelOrder(p) \/ NotifyCancelled(p)
        PROVE UNCHANGED inventoryVars
    BY <2>1 DEF ClaimGuard, ReadOrder, CancelOrder, NotifyCancelled
  <2>2. ASSUME ppc[p] \in {"release", "clear"} PROVE pord[p] \in Orders
    BY <2>2 DEF SysInv, WindowOwn
  <2>3. ASSUME TimeoutRelease(p) PROVE InventoryNext
    <3>1. pord[p] \in Orders
      BY <2>2, <2>3 DEF TimeoutRelease
    <3>2. Home(pord[p]) \in Shard
      BY <3>1, HomeInShard
    <3>3. QED
      BY <2>3, <3>1, <3>2 DEF TimeoutRelease, InventoryNext
  <2>4. ASSUME TimeoutClear(p) PROVE InventoryNext
    BY <2>2, <2>4 DEF TimeoutClear, InventoryNext
  <2>5. QED
    BY <1>4, <2>1, <2>3, <2>4 DEF ProcessTimeout
<1>5. ASSUME NEW r \in Reconcilers, Reconcile(r) PROVE UNCHANGED inventoryVars
  BY <1>5 DEF Reconcile, TakeLead, FetchExpired, ReconcileNext
<1>6. CASE ProcessCrash
  BY <1>6, DropIsInventoryStep DEF ProcessCrash
<1>7. CASE UNCHANGED vars
  BY <1>7 DEF vars
<1>8. QED
  BY <1>1, <1>2, <1>3, <1>4, <1>5, <1>6, <1>7 DEF Next

-----------------------------------------------------------------------------
(* The invariant *)

LEMMA SysInit == Init => SysInv
<1> SUFFICES ASSUME Init PROVE SysInv
  OBVIOUS
<1>1. PlaceInv
  BY PlaceInit DEF Init
<1>2. 0 \in 0..MaxDeliver /\ ~(0 > 0)
  BY PlacementAssumption
<1>3. WindowOwn
  BY <1>2 DEF Init, WindowOwn
<1>4. WindowContract
  BY <1>2 DEF Init, WindowContract
<1>5. QED
  BY <1>1, <1>3, <1>4 DEF SysInv

\* The other steps touch few of those variables.
LEMMA WindowKeepsPlacement ==
    ASSUME SysInv, Next, ~PlacementSteps, [InventoryNext]_inventoryVars
    PROVE  (PlacementOwn /\ PlacementContract /\ AttemptsLeft)'
<1> DEFINE Goal == (PlacementOwn /\ PlacementContract /\ AttemptsLeft)'
<1>0. /\ RefundInv /\ InventoryTypeOK
      /\ PlacementOwn /\ PlacementContract /\ AttemptsLeft /\ WindowOwn /\ WindowContract
  BY SysInvParts DEF RefundInv
<1>a. \A o \in Orders : Marked(o) => Marked(o)'
  BY <1>0, MarkedStays
<1>b. \A m \in Msg : m[1] \in Orders
  BY DEF Msg
<1> USE <1>0, <1>a, <1>b
    DEF PlacementOwn, PlacementContract, AttemptsLeft, RowState,
        placeVars, streamVars, rowVars, workerVars, dlqVars, placementVars
<1>1. CASE UNCHANGED placementVars
  BY <1>1
<1>2. ASSUME NEW o \in Orders, Fire(o) PROVE Goal
  BY <1>2 DEF Fire
<1>3. ASSUME NEW p \in Procs, CancelOrder(p) PROVE Goal
  <2>1. pord[p] \in Orders /\ Marked(pord[p])
    BY <1>3 DEF CancelOrder, WindowOwn, WindowContract
  <2>2. row' = row \/ row' = [row EXCEPT ![pord[p]] = "CANCELLED_TIMEOUT"]
    BY <1>3 DEF CancelOrder
  <2>3. UNCHANGED <<place, attempts, stream, delivered, createdAt, wpc, wmsg, wnew,
                    armed, dlq, dmsg, dclear>>
    BY <1>3 DEF CancelOrder
  <2>4. QED
    BY <2>1, <2>2, <2>3
<1>4. ASSUME ProcessCrash PROVE Goal
  BY <1>4 DEF ProcessCrash, EndHandleOrder
<1> HIDE DEF Goal
<1>5. QED
  BY <1>1, <1>2, <1>3, <1>4
     DEF Goal, Next, Tick, GuardExpires, LeaderExpires, ProcessTimeout, ClaimGuard,
         ReadOrder, TimeoutRelease, TimeoutClear, NotifyCancelled, TimeoutNextMsg,
         Reconcile, TakeLead, FetchExpired, ReconcileNext

\* What Return and Goto do to a processor.
LEMMA ReturnOrGoto ==
    ASSUME WindowOwn, NEW p \in Procs, pord[p] \in Orders, NEW l,
           l \in {"get", "cas", "release", "clear", "notify"},
           Return(p, TRUE) \/ Return(p, FALSE) \/ Goto(p, l)
    PROVE  /\ tmsg' \in [Orders -> 0..MaxDeliver]
           /\ \A o \in Orders : tmsg'[o] > 0 => tmsg[o] > 0
           /\ ppc' = [ppc EXCEPT ![p] = "idle"] \/ ppc' = [ppc EXCEPT ![p] = l]
           /\ pord' = pord \/ (pord' = [pord EXCEPT ![p] = NoOrder] /\ ppc'[p] = "idle")
<1>1. 0 \in 0..MaxDeliver /\ ~(0 > 0)
  BY PlacementAssumption
<1>2. QED
  BY <1>1 DEF WindowOwn, Return, Goto

LEMMA WindowOwnStep ==
    ASSUME SysInv, Next, [InventoryNext]_inventoryVars
    PROVE  (WindowOwn /\ WindowContract)'
<1> DEFINE Goal == (WindowOwn /\ WindowContract)'
<1>0. /\ RefundInv /\ InventoryTypeOK
      /\ PlacementOwn /\ PlacementContract /\ WindowOwn /\ WindowContract
  BY SysInvParts DEF RefundInv
<1>a. \A o \in Orders : Marked(o) => Marked(o)'
  BY <1>0, MarkedStays
<1> USE <1>0, <1>a
<1>1. CASE UNCHANGED windowVars
  BY <1>1 DEF windowVars, WindowOwn, WindowContract
<1>2. ASSUME NEW o \in Orders, Tick(o) PROVE Goal
  BY <1>2 DEF Tick, WindowOwn, WindowContract
<1>3. ASSUME NEW o \in Orders, Fire(o) PROVE Goal
  <2>1. Marked(o)'
    BY <1>3 DEF Fire, PlacementContract
  <2>2. MaxDeliver \in 0..MaxDeliver
    BY PlacementAssumption
  <2>3. QED
    BY <1>3, <2>1, <2>2 DEF Fire, WindowOwn, WindowContract
<1>4. ASSUME NEW o \in Orders, GuardExpires(o) PROVE Goal
  BY <1>4 DEF GuardExpires, WindowOwn, WindowContract
<1>5. ASSUME LeaderExpires PROVE Goal
  BY <1>5 DEF LeaderExpires, WindowOwn, WindowContract
<1>6. ASSUME NEW p \in Procs, ProcessTimeout(p) PROVE Goal
  <2>1. pord[p] \in Orders /\ Marked(pord[p])
    BY <1>6 DEF ProcessTimeout, ClaimGuard, ReadOrder, CancelOrder, TimeoutRelease,
       TimeoutClear, NotifyCancelled, WindowOwn, WindowContract
  <2>2. PICK l \in {"get", "cas", "release", "clear", "notify"} :
           Return(p, TRUE) \/ Return(p, FALSE) \/ Goto(p, l)
    BY <1>6 DEF ProcessTimeout, ClaimGuard, ReadOrder, CancelOrder, TimeoutRelease,
       TimeoutClear, NotifyCancelled
  <2>3. /\ tmsg' \in [Orders -> 0..MaxDeliver]
        /\ \A o \in Orders : tmsg'[o] > 0 => tmsg[o] > 0
        /\ ppc' = [ppc EXCEPT ![p] = "idle"] \/ ppc' = [ppc EXCEPT ![p] = l]
        /\ pord' = pord \/ (pord' = [pord EXCEPT ![p] = NoOrder] /\ ppc'[p] = "idle")
    BY <2>1, <2>2, ReturnOrGoto
  <2>4. guard' = guard \/ guard' = [guard EXCEPT ![pord[p]] = TRUE]
    BY <1>6 DEF ProcessTimeout, ClaimGuard, ReadOrder, CancelOrder, TimeoutRelease,
       TimeoutClear, NotifyCancelled
  <2>5. notices' = notices \/ notices' = [notices EXCEPT ![pord[p]] = @ + 1]
    BY <1>6 DEF ProcessTimeout, ClaimGuard, ReadOrder, CancelOrder, TimeoutRelease,
       TimeoutClear, NotifyCancelled
  <2>6. UNCHANGED <<age, leader, batch>>
    BY <1>6 DEF ProcessTimeout, ClaimGuard, ReadOrder, CancelOrder, TimeoutRelease,
       TimeoutClear, NotifyCancelled
  <2>7. guard' \in [Orders -> BOOLEAN]
    <3>1. guard \in [Orders -> BOOLEAN]
      BY DEF WindowOwn
    <3>2. QED
      BY <2>1, <2>4, <3>1
  <2>8. notices' \in [Orders -> Nat]
    BY <2>1, <2>5 DEF WindowOwn
  <2>9. QED
    BY <2>1, <2>3, <2>6, <2>7, <2>8 DEF WindowOwn, WindowContract
<1>7. ASSUME TimeoutNextMsg PROVE Goal
  <2>1. PICK o \in Orders : /\ tmsg[o] > 0
                            /\ tmsg' = [tmsg EXCEPT ![o] = @ - 1]
                            /\ StartProcess("timeout", o)
    BY <1>7 DEF TimeoutNextMsg, TimeoutDeliverable
  <2>2. tmsg' \in [Orders -> 0..MaxDeliver] /\ Marked(o)
        /\ \A q \in Orders : tmsg'[q] > 0 => tmsg[q] > 0
    BY <2>1, PlacementAssumption DEF WindowOwn, WindowContract
  <2>3. UNCHANGED <<age, guard, leader, batch, notices>>
    BY <1>7 DEF TimeoutNextMsg
  <2>4. QED
    BY <2>1, <2>2, <2>3 DEF WindowOwn, WindowContract, StartProcess
<1>8. ASSUME NEW r \in Reconcilers, TakeLead(r) PROVE Goal
  BY <1>8 DEF TakeLead, WindowOwn, WindowContract
<1>9. ASSUME NEW r \in Reconcilers, FetchExpired(r) PROVE Goal
  <2>1. \A o \in ExpiredOrders : o \in Orders /\ Marked(o)
    BY DEF ExpiredOrders, PlacementContract
  <2>2. QED
    BY <1>9, <2>1 DEF FetchExpired, WindowOwn, WindowContract
<1>10. ASSUME NEW r \in Reconcilers, ReconcileNext(r) PROVE Goal
  <2>1. PICK o \in batch[r] : /\ batch' = [batch EXCEPT ![r] = @ \ {o}]
                              /\ StartProcess(r, o)
    BY <1>10 DEF ReconcileNext
  <2>2. o \in Orders /\ Marked(o)
    BY <2>1 DEF WindowOwn, WindowContract
  <2>3. UNCHANGED <<age, guard, tmsg, leader, notices>>
    BY <1>10 DEF ReconcileNext
  <2>4. QED
    BY <2>1, <2>2, <2>3 DEF WindowOwn, WindowContract, StartProcess
<1>11. ASSUME ProcessCrash PROVE Goal
  BY <1>11 DEF ProcessCrash, WindowOwn, WindowContract
<1> HIDE DEF Goal
<1>12. QED
  BY <1>1, <1>2, <1>3, <1>4, <1>5, <1>6, <1>7, <1>8, <1>9, <1>10, <1>11
     DEF Goal, Next, Reconcile

LEMMA SysStep == SysInv /\ [Next]_vars => SysInv'
<1> SUFFICES ASSUME SysInv, [Next]_vars PROVE SysInv'
  OBVIOUS
<1>1. [InventoryNext]_inventoryVars
  BY StepSim
<1>2. RefundInv'
  BY <1>1, RefundStep DEF SysInv, PlaceInv
<1>3. CASE Next
  <2>1. (PlacementOwn /\ PlacementContract /\ AttemptsLeft)'
    BY <1>1, <1>3, PlacementOwnStep, WindowKeepsPlacement DEF SysInv
  <2>2. (WindowOwn /\ WindowContract)'
    BY <1>1, <1>3, WindowOwnStep
  <2>3. QED
    BY <1>2, <2>1, <2>2, SysInvParts, PTL
<1>4. CASE UNCHANGED vars
  <2>1. (PlacementOwn /\ PlacementContract /\ AttemptsLeft /\ WindowOwn /\ WindowContract)'
    BY <1>4, SysInvParts DEF vars, inventoryVars, placementVars, windowVars, PlacementOwn,
       PlacementContract, AttemptsLeft, WindowOwn, WindowContract, Marked
  <2>2. QED
    BY <1>2, <2>1, SysInvParts, PTL
<1>5. QED
  BY <1>3, <1>4

LEMMA SysInvariant == Spec => []SysInv
BY SysInit, SysStep, PTL DEF Spec

\* The whole order path is well typed for every number of orders, buyers,
\* shards, attempts, deliveries and reconcilers and every kind of failure.
THEOREM TypeCorrect == Spec => []TypeOK
<1>1. SysInv => TypeOK
  BY PlaceInvType DEF SysInv, WindowOwn, TypeOK
<1>2. QED
  BY <1>1, SysInvariant, PTL

\* The whole order path implements the inventory's contract.
THEOREM ImplementsInventory == Spec => InventorySpec
<1>1. Init => InventoryInit
  BY DEF Init, PlacementInit
<1>2. SysInv /\ [Next]_vars => [InventoryNext]_inventoryVars
  BY StepSim
<1>3. QED
  BY <1>1, <1>2, SysInvariant, PTL DEF Spec, InventorySpec

\* So, in the whole system, an order's unit is returned at most once ...
THEOREM SystemRefundsAtMostOnce == Spec => []RefundAtMostOnce
BY ImplementsInventory, RefundsAtMostOnce, PTL

\* ... and every counter is accounted for.
THEOREM SystemConservesShards == Spec => []ShardConserved
BY ImplementsInventory, ShardsConserved, PTL

\* ... and, unless a reply of Redis is lost, no order takes more than one unit.
THEOREM SystemOneUnit == Spec => []OneUnitPerOrder
BY ImplementsInventory, OneUnit, PTL

-----------------------------------------------------------------------------
(* An accepted order is not lost, in the whole system either *)

\* The payment window publishes, acknowledges and deletes nothing of orders.created.
LEMMA DurableWindow ==
    ASSUME SysInv, DurableInv, Next, ~PlacementSteps PROVE DurableInv'
<1>0. PlacementOwn /\ WindowOwn
  BY SysInvParts
<1> USE DEF placeVars, streamVars, rowVars, workerVars, dlqVars, placementVars
<1>1. ASSUME NEW p \in Procs, CancelOrder(p) PROVE DurableInv'
  <2>1. row' = row \/ row' = [row EXCEPT ![pord[p]] = "CANCELLED_TIMEOUT"]
    BY <1>1 DEF CancelOrder
  <2>2. \A o \in Orders : row[o] # "none" => row'[o] # "none"
    BY <1>0, <2>1 DEF PlacementOwn
  <2>3. UNCHANGED <<place, stream, delivered, wpc, wmsg>>
    BY <1>1 DEF CancelOrder
  <2>4. QED
    BY <1>0, <2>2, <2>3, DurableQuiet
<1>2. ASSUME ProcessCrash PROVE DurableInv'
  <2>1. /\ wpc' = "idle" \/ UNCHANGED <<wpc, wmsg>>
        /\ UNCHANGED <<place, stream, delivered, row>>
    BY <1>2 DEF ProcessCrash, EndHandleOrder
  <2>2. QED
    BY <1>0, <2>1, DurableQuiet
<1>3. ASSUME UNCHANGED <<place, stream, delivered, row, wpc, wmsg>> PROVE DurableInv'
  BY <1>0, <1>3, DurableQuiet
<1>4. ASSUME \/ \E o \in Orders : Tick(o) \/ Fire(o) \/ GuardExpires(o)
             \/ LeaderExpires \/ TimeoutNextMsg
             \/ \E r \in Reconcilers : Reconcile(r)
             \/ \E p \in Procs : \/ ClaimGuard(p) \/ ReadOrder(p) \/ TimeoutRelease(p)
                                 \/ TimeoutClear(p) \/ NotifyCancelled(p)
      PROVE  UNCHANGED <<place, stream, delivered, row, wpc, wmsg>>
  BY <1>4 DEF Tick, Fire, GuardExpires, LeaderExpires, TimeoutNextMsg, Reconcile, TakeLead,
     FetchExpired, ReconcileNext, ClaimGuard, ReadOrder, TimeoutRelease, TimeoutClear,
     NotifyCancelled
<1>5. QED
  BY <1>1, <1>2, <1>3, <1>4 DEF Next, ProcessTimeout

\* Timeouts, reconcilers and their crashes do not lose an accepted order either.
THEOREM SystemAcceptedDurable ==
    ASSUME Outage = FALSE
    PROVE  Spec => []AcceptedIsDurable
<1>1. SysInv /\ DurableInv /\ [Next]_vars => DurableInv'
  <2> SUFFICES ASSUME SysInv, DurableInv, [Next]_vars PROVE DurableInv'
    OBVIOUS
  <2>0. PlaceInv
    BY DEF SysInv
  <2>1. CASE PlacementSteps
    BY <2>0, <2>1, DurablePlace, DurableWorker, Zenon DEF PlacementSteps
  <2>2. CASE UNCHANGED vars
    <3>1. UNCHANGED <<place, stream, delivered, row, wpc, wmsg>>
      BY <2>2 DEF vars, placementVars
    <3>2. QED
      BY <2>0, <3>1, DurableQuiet DEF PlaceInv
  <2>3. QED
    BY <2>1, <2>2, DurableWindow
<1>2. Init => DurableInv
  BY DurableInit DEF Init
<1>3. DurableInv => AcceptedIsDurable
  BY DEF DurableInv
<1>4. QED
  BY <1>1, <1>2, <1>3, SysInvariant, PTL DEF Spec

-----------------------------------------------------------------------------
(* Cancelled once *)

Owns(p, o) == pord[p] = o /\ ppc[p] \in {"release", "clear", "notify"}

\* The CAS makes one processor the owner of an order's cancellation; until it
\* has published there is no notice, and the row shows CANCELLED_TIMEOUT, which
\* keeps every other processor from owning it, guard key or not.
OwnerInv ==
    \A o \in Orders :
       /\ notices[o] <= 1
       /\ notices[o] > 0 => row[o] = "CANCELLED_TIMEOUT"
       /\ \A p \in Procs : Owns(p, o) =>
             /\ row[o] = "CANCELLED_TIMEOUT"
             /\ notices[o] = 0
             /\ \A q \in Procs : Owns(q, o) => q = p

\* A cancelled row stays cancelled, whatever step is taken.
LEMMA CancelledStays ==
    ASSUME SysInv, [Next]_vars, NEW o \in Orders, row[o] = "CANCELLED_TIMEOUT"
    PROVE  row'[o] = "CANCELLED_TIMEOUT"
<1>0. row \in [Orders -> RowState]
  BY DEF SysInv, PlaceInv, PlacementOwn
<1>1. CASE InsertOrder
  BY <1>0, <1>1 DEF InsertOrder, Inserts
<1>2. ASSUME NEW p \in Procs, CancelOrder(p) PROVE row'[o] = "CANCELLED_TIMEOUT"
  BY <1>0, <1>2 DEF CancelOrder
<1>3. CASE UNCHANGED row
  BY <1>3
<1>4. CASE PlacementSteps
  BY <1>1, <1>3, <1>4
     DEF PlacementSteps, PlaceStep, PlaceReserve, PlaceMark, PlacePublish, PlaceRelease,
         PlaceClear, ClientLeaves, BackendCrash, HoldExpires, OrderWorker, NextMsg, FlipPublished,
         ArmTimeout, AckOrder, AgeOut, DeadLetter, DLQWorker, HandleDLQMsg, DLQClear, AckDLQ,
         placementVars, rowVars
<1>5. CASE Next /\ ~PlacementSteps
  BY <1>2, <1>3, <1>5
     DEF Next, Tick, Fire, GuardExpires, LeaderExpires, ProcessTimeout, ClaimGuard,
         ReadOrder, TimeoutRelease, TimeoutClear, NotifyCancelled, TimeoutNextMsg,
         Reconcile, TakeLead, FetchExpired, ReconcileNext, ProcessCrash,
         placementVars, rowVars
<1>6. QED
  BY <1>3, <1>4, <1>5 DEF vars, placementVars

LEMMA OwnerStep == SysInv /\ OwnerInv /\ [Next]_vars => OwnerInv'
<1> SUFFICES ASSUME SysInv, OwnerInv, [Next]_vars, NEW o \in Orders
             PROVE  /\ notices'[o] <= 1
                    /\ notices'[o] > 0 => row'[o] = "CANCELLED_TIMEOUT"
                    /\ \A p \in Procs : Owns(p, o)' =>
                          /\ row'[o] = "CANCELLED_TIMEOUT"
                          /\ notices'[o] = 0
                          /\ \A q \in Procs : Owns(q, o)' => q = p
  BY DEF OwnerInv
<1> DEFINE Goal == /\ notices'[o] <= 1
                   /\ notices'[o] > 0 => row'[o] = "CANCELLED_TIMEOUT"
                   /\ \A p \in Procs : Owns(p, o)' =>
                         /\ row'[o] = "CANCELLED_TIMEOUT"
                         /\ notices'[o] = 0
                         /\ \A q \in Procs : Owns(q, o)' => q = p
<1>0. WindowOwn /\ PlacementOwn
  BY SysInvParts
<1>a. row[o] = "CANCELLED_TIMEOUT" => row'[o] = "CANCELLED_TIMEOUT"
  BY CancelledStays
<1>b. /\ notices[o] <= 1
      /\ notices[o] > 0 => row[o] = "CANCELLED_TIMEOUT"
      /\ \A p \in Procs : Owns(p, o) =>
            /\ row[o] = "CANCELLED_TIMEOUT"
            /\ notices[o] = 0
            /\ \A q \in Procs : Owns(q, o) => q = p
  BY DEF OwnerInv
\* A step that makes nobody an owner and publishes nothing.
<1>1. ASSUME notices' = notices, \A p \in Procs : Owns(p, o)' => Owns(p, o) PROVE Goal
  BY <1>1, <1>a, <1>b
<1>2. ASSUME NEW p \in Procs, ClaimGuard(p) \/ ReadOrder(p) PROVE Goal
  <2>1. notices' = notices
    BY <1>2 DEF ClaimGuard, ReadOrder
  <2>2. Return(p, TRUE) \/ Return(p, FALSE) \/ Goto(p, "get") \/ Goto(p, "cas")
    BY <1>2 DEF ClaimGuard, ReadOrder
  <2>3. \A q \in Procs : Owns(q, o)' => Owns(q, o)
    BY <1>0, <2>2 DEF Owns, Return, Goto, WindowOwn
  <2>4. QED
    BY <1>1, <2>1, <2>3
<1>3. ASSUME NEW p \in Procs, CancelOrder(p) PROVE Goal
  <2>0. notices' = notices /\ ppc[p] = "cas" /\ pord[p] \in Orders
    BY <1>0, <1>3 DEF CancelOrder, WindowOwn
  <2>1. CASE Return(p, TRUE) \/ Return(p, FALSE)
    <3>1. \A q \in Procs : Owns(q, o)' => Owns(q, o)
      BY <1>0, <2>1 DEF Owns, Return, WindowOwn
    <3>2. QED
      BY <1>1, <2>0, <3>1
  <2>2. CASE /\ row[pord[p]] = "PENDING_PAYMENT"
             /\ row' = [row EXCEPT ![pord[p]] = "CANCELLED_TIMEOUT"]
             /\ Goto(p, "release")
    <3>1. CASE pord[p] # o
      <4>1. \A q \in Procs : Owns(q, o)' => Owns(q, o)
        BY <1>0, <2>2, <3>1 DEF Owns, Goto, WindowOwn
      <4>2. QED
        BY <1>1, <2>0, <4>1
    <3>2. CASE pord[p] = o
      <4>1. notices[o] = 0 /\ \A q \in Procs : ~Owns(q, o)
        BY <1>0, <1>b, <2>2, <3>2 DEF WindowOwn
      <4>2. \A q \in Procs : Owns(q, o)' => q = p
        BY <1>0, <2>2, <4>1 DEF Owns, Goto, WindowOwn
      <4>3. row'[o] = "CANCELLED_TIMEOUT"
        BY <1>0, <2>2, <3>2 DEF PlacementOwn
      <4>4. QED
        BY <2>0, <4>1, <4>2, <4>3
    <3>3. QED
      BY <3>1, <3>2
  <2>3. \/ Return(p, TRUE) \/ Return(p, FALSE)
        \/ /\ row[pord[p]] = "PENDING_PAYMENT"
           /\ row' = [row EXCEPT ![pord[p]] = "CANCELLED_TIMEOUT"]
           /\ Goto(p, "release")
    BY <1>3, Zenon DEF CancelOrder, Applied, CancelMatches
  <2> HIDE DEF Goal
  <2>4. QED
    BY <2>1, <2>2, <2>3
<1>4. ASSUME NEW p \in Procs, TimeoutRelease(p) \/ TimeoutClear(p) PROVE Goal
  <2>1. notices' = notices /\ ppc[p] \in {"release", "clear"}
    BY <1>4 DEF TimeoutRelease, TimeoutClear
  <2>2. Goto(p, "clear") \/ Goto(p, "notify")
    BY <1>4 DEF TimeoutRelease, TimeoutClear
  <2>3. \A q \in Procs : Owns(q, o)' => Owns(q, o)
    BY <1>0, <2>1, <2>2 DEF Owns, Goto, WindowOwn
  <2>4. QED
    BY <1>1, <2>1, <2>3
<1>5. ASSUME NEW p \in Procs, NotifyCancelled(p) PROVE Goal
  <2>1. /\ ppc[p] = "notify" /\ pord[p] \in Orders /\ Return(p, FALSE)
        /\ notices' = notices \/ notices' = [notices EXCEPT ![pord[p]] = @ + 1]
    BY <1>0, <1>5 DEF NotifyCancelled, WindowOwn
  <2>2. \A q \in Procs : Owns(q, o)' => Owns(q, o) /\ q # p
    BY <1>0, <2>1 DEF Owns, Return, WindowOwn
  <2>3. CASE pord[p] # o
    BY <1>0, <1>a, <1>b, <2>1, <2>2, <2>3 DEF WindowOwn
  <2>4. CASE pord[p] = o
    <3>1. Owns(p, o)
      BY <2>1, <2>4 DEF Owns
    <3>2. notices[o] = 0 /\ row[o] = "CANCELLED_TIMEOUT" /\ \A q \in Procs : Owns(q, o) => q = p
      BY <1>b, <3>1
    <3>3. notices'[o] \in {0, 1}
      BY <1>0, <2>1, <2>4, <3>2 DEF WindowOwn
    <3>4. QED
      BY <1>a, <2>2, <3>2, <3>3
  <2>5. QED
    BY <2>3, <2>4
<1>6. ASSUME TimeoutNextMsg \/ (\E r \in Reconcilers : Reconcile(r)) PROVE Goal
  <2>1. notices' = notices
    BY <1>6 DEF TimeoutNextMsg, Reconcile, TakeLead, FetchExpired, ReconcileNext
  <2>2. \A q \in Procs : ppc'[q] \in {"idle", "fetch", "guard"}
                         \/ (ppc'[q] = ppc[q] /\ pord'[q] = pord[q])
    BY <1>0, <1>6 DEF TimeoutNextMsg, Reconcile, TakeLead, FetchExpired, ReconcileNext,
       StartProcess, WindowOwn, Procs
  <2>3. QED
    BY <1>1, <2>1, <2>2 DEF Owns
<1>7. ASSUME ProcessCrash PROVE Goal
  BY <1>1, <1>7 DEF ProcessCrash, Owns
<1>8. ASSUME UNCHANGED <<ppc, pord, notices>> PROVE Goal
  BY <1>1, <1>8 DEF Owns
<1> HIDE DEF Goal
<1>9. Goal
  <2>1. CASE UNCHANGED windowVars
    <3>1. UNCHANGED <<ppc, pord, notices>>
      BY <2>1 DEF windowVars
    <3>2. QED
      BY <1>8, <3>1
  <2>2. ASSUME \/ \E q \in Orders : Tick(q) \/ Fire(q) \/ GuardExpires(q)
               \/ LeaderExpires
        PROVE  UNCHANGED <<ppc, pord, notices>>
    BY <2>2 DEF Tick, Fire, GuardExpires, LeaderExpires
  <2>3. ASSUME NEW p \in Procs, ProcessTimeout(p) PROVE Goal
    BY <1>2, <1>3, <1>4, <1>5, <2>3 DEF ProcessTimeout
  <2>4. CASE (PlacementSteps /\ UNCHANGED windowVars) \/ UNCHANGED vars
    <3>1. UNCHANGED windowVars
      BY <2>4 DEF vars, windowVars
    <3>2. QED
      BY <2>1, <3>1
  <2>5. CASE \/ \E q \in Orders : Tick(q) \/ Fire(q) \/ GuardExpires(q)
             \/ LeaderExpires
    BY <1>8, <2>2, <2>5
  <2>6. QED
    BY <1>6, <1>7, <2>3, <2>4, <2>5, Zenon DEF Next
<1>10. QED
  BY <1>9 DEF Goal

\* Whoever retries, overlaps or crashes, and even after the guard key has
\* expired, at most one orders.cancelled event is published for an order.
THEOREM CancelledAtMostOnce == Spec => []CancelledOnce
<1>1. Init => OwnerInv
  BY DEF Init, OwnerInv, Owns
<1>2. OwnerInv => CancelledOnce
  BY DEF OwnerInv, CancelledOnce
<1>3. QED
  BY <1>1, <1>2, SysInvariant, OwnerStep, PTL DEF Spec

\* No step brings a cancelled row back.
THEOREM CancellationIsFinal == Spec => CancelIsFinal
<1>1. SysInv /\ [Next]_vars =>
         [\A o \in Orders :
             row[o] = "CANCELLED_TIMEOUT" => row'[o] = "CANCELLED_TIMEOUT"]_row
  BY CancelledStays
<1>2. QED
  BY <1>1, SysInvariant, PTL DEF Spec, CancelIsFinal

-----------------------------------------------------------------------------
(* No oversell *)

\* Whoever has yet to release, clear or publish for an order of O has cancelled it.
OwnersCancelled(O) ==
    \A o \in O, p \in Procs : Owns(p, o) => row[o] = "CANCELLED_TIMEOUT"

LEMMA OwnersCancelledStep ==
    ASSUME SysInv, [Next]_vars, NEW O \in SUBSET Orders, OwnersCancelled(O)
    PROVE  OwnersCancelled(O)'
<1> SUFFICES ASSUME NEW o \in O, NEW q \in Procs, Owns(q, o)'
             PROVE  row'[o] = "CANCELLED_TIMEOUT"
  BY DEF OwnersCancelled
<1>0. o \in Orders /\ WindowOwn /\ PlacementOwn
  BY SysInvParts
<1>1. CASE Owns(q, o)
  BY <1>0, <1>1, CancelledStays DEF OwnersCancelled
<1>2. ASSUME NEW p \in Procs, CancelOrder(p) PROVE row'[o] = "CANCELLED_TIMEOUT"
  <2>1. \/ row' = [row EXCEPT ![pord[p]] = "CANCELLED_TIMEOUT"] /\ Goto(p, "release")
        \/ Return(p, TRUE) \/ Return(p, FALSE)
    BY <1>2, Zenon DEF CancelOrder, Applied
  <2>2. Return(p, TRUE) \/ Return(p, FALSE) => Owns(q, o)
    BY <1>0 DEF Owns, Return, WindowOwn
  <2>3. Goto(p, "release") => Owns(q, o) \/ pord[p] = o
    BY <1>0 DEF Owns, Goto, WindowOwn
  <2>4. QED
    BY <1>0, <1>1, <2>1, <2>2, <2>3 DEF PlacementOwn
<1>3. ASSUME NEW p \in Procs, ClaimGuard(p) \/ ReadOrder(p) PROVE Owns(q, o)
  <2>1. Return(p, TRUE) \/ Return(p, FALSE) \/ Goto(p, "get") \/ Goto(p, "cas")
    BY <1>3 DEF ClaimGuard, ReadOrder
  <2>2. QED
    BY <1>0, <2>1 DEF Owns, Return, Goto, WindowOwn
<1>4. ASSUME NEW p \in Procs, TimeoutRelease(p) \/ TimeoutClear(p) \/ NotifyCancelled(p)
      PROVE  Owns(q, o)
  <2>1. /\ ppc[p] \in {"release", "clear", "notify"}
        /\ Return(p, FALSE) \/ Goto(p, "clear") \/ Goto(p, "notify")
    BY <1>4 DEF TimeoutRelease, TimeoutClear, NotifyCancelled
  <2>2. QED
    BY <1>0, <2>1 DEF Owns, Return, Goto, WindowOwn
<1>5. ASSUME TimeoutNextMsg \/ (\E r \in Reconcilers : Reconcile(r)) PROVE Owns(q, o)
  <2>1. ppc'[q] \in {"idle", "fetch", "guard"} \/ (ppc'[q] = ppc[q] /\ pord'[q] = pord[q])
    BY <1>0, <1>5 DEF TimeoutNextMsg, Reconcile, TakeLead, FetchExpired, ReconcileNext,
       StartProcess, WindowOwn, Procs
  <2>2. QED
    BY <2>1 DEF Owns
<1>6. ASSUME ProcessCrash PROVE Owns(q, o)
  BY <1>6 DEF ProcessCrash, Owns
<1>7. ASSUME UNCHANGED <<ppc, pord>> PROVE Owns(q, o)
  BY <1>7 DEF Owns
<1>8. ASSUME \/ (PlacementSteps /\ UNCHANGED windowVars) \/ UNCHANGED vars \/ LeaderExpires
             \/ \E x \in Orders : Tick(x) \/ Fire(x) \/ GuardExpires(x)
      PROVE  UNCHANGED <<ppc, pord>>
  BY <1>8 DEF Tick, Fire, GuardExpires, LeaderExpires, vars, windowVars
<1>9. QED
  BY <1>1, <1>2, <1>3, <1>4, <1>5, <1>6, <1>7, <1>8, Zenon DEF Next, ProcessTimeout

\* The steps of the payment window: only an owner, whose order is cancelled,
\* releases.
LEMMA HoldWindow ==
    ASSUME SysInv, NEW O \in SUBSET Orders, OwnersCancelled(O), HoldInv(O), Next, ~PlacementSteps
    PROVE  HoldInv(O)'
<1>0. InventoryTypeOK /\ PlacementOwn /\ WindowOwn
  BY SysInvParts DEF RefundInv
<1> USE <1>0
    DEF HoldInv, PlacementOwn, placeVars, streamVars, rowVars, workerVars, dlqVars,
        placementVars
<1>1. ASSUME UNCHANGED <<dlq, stream, wpc, wmsg, place, row, refunds>> PROVE HoldInv(O)'
  BY <1>1
<1>2. ASSUME NEW p \in Procs, CancelOrder(p) PROVE HoldInv(O)'
  <2>1. pord[p] \in Orders
    BY <1>2 DEF CancelOrder, WindowOwn
  <2>2. row' = row \/ (row[pord[p]] = "PENDING_PAYMENT"
                       /\ row' = [row EXCEPT ![pord[p]] = "CANCELLED_TIMEOUT"])
    BY <1>2 DEF CancelOrder, CancelMatches
  <2>3. UNCHANGED <<dlq, stream, wpc, wmsg, place, refunds>>
    BY <1>2 DEF CancelOrder, inventoryVars
  <2>4. QED
    BY <2>1, <2>2, <2>3
<1>3. ASSUME NEW p \in Procs, TimeoutRelease(p) PROVE HoldInv(O)'
  <2>1. pord[p] \in Orders /\ Owns(p, pord[p])
    BY <1>3 DEF TimeoutRelease, WindowOwn, Owns
  <2>2. pord[p] \in O => row[pord[p]] = "CANCELLED_TIMEOUT"
    BY <2>1 DEF OwnersCancelled
  <2>3. \A q \in Orders : q # pord[p] => refunds'[q] = refunds[q]
    BY <1>3, <2>1, ReleaseOnly DEF TimeoutRelease
  <2>4. UNCHANGED <<dlq, stream, wpc, wmsg, place, row>>
    BY <1>3 DEF TimeoutRelease
  <2>5. QED
    BY <2>1, <2>2, <2>3, <2>4
<1>4. ASSUME ProcessCrash PROVE HoldInv(O)'
  BY <1>4 DEF ProcessCrash, EndHandleOrder, DropClears, history
<1>5. ASSUME \/ \E o \in Orders : Tick(o) \/ Fire(o) \/ GuardExpires(o)
             \/ LeaderExpires \/ TimeoutNextMsg
             \/ \E r \in Reconcilers : Reconcile(r)
             \/ \E p \in Procs : \/ ClaimGuard(p) \/ ReadOrder(p)
                                 \/ TimeoutClear(p) \/ NotifyCancelled(p)
      PROVE  UNCHANGED <<dlq, stream, wpc, wmsg, place, row, refunds>>
  BY <1>5 DEF Tick, Fire, GuardExpires, LeaderExpires, TimeoutNextMsg, Reconcile, TakeLead,
     FetchExpired, ReconcileNext, ClaimGuard, ReadOrder, TimeoutClear, ClearLatch,
     NotifyCancelled, inventoryVars, history
<1> HIDE DEF HoldInv
<1>6. QED
  BY <1>1, <1>2, <1>3, <1>4, <1>5 DEF Next, ProcessTimeout

LEMMA HoldStep ==
    ASSUME "lost" \notin NatsFaults, DLQFed = FALSE, SysInv, [Next]_vars,
           NEW O \in SUBSET Orders, OwnersCancelled(O), HoldInv(O)
    PROVE  HoldInv(O)'
<1>1. CASE PlacementSteps
  BY <1>1, HoldPlace, HoldWorker DEF PlacementSteps, SysInv
<1>2. CASE Next /\ ~PlacementSteps
  BY <1>2, HoldWindow
<1>3. CASE UNCHANGED vars
  BY <1>3 DEF vars, inventoryVars, placementVars, HoldInv
<1>4. QED
  BY <1>1, <1>2, <1>3

\* As long as a publish that fails was not stored, no retry, redelivery, crash,
\* late timeout or reconciler ever returns the unit of a live order.
THEOREM NoOversell ==
    ASSUME "lost" \notin NatsFaults, DLQFed = FALSE
    PROVE  Spec => []LiveOrderHoldsUnit
<1> DEFINE Safe == OwnersCancelled(Orders) /\ HoldInv(Orders)
<1>1. SysInv /\ Safe => LiveOrderHoldsUnit
  BY HoldIsLive DEF SysInv, LiveOrderHoldsUnit
<1>2. Init => Safe
  BY HoldInit DEF Init, OwnersCancelled, Owns
<1>3. SysInv /\ Safe /\ [Next]_vars => Safe'
  <2> SUFFICES ASSUME SysInv, Safe, [Next]_vars PROVE Safe'
    OBVIOUS
  <2>1. OwnersCancelled(Orders)'
    BY OwnersCancelledStep
  <2>2. HoldInv(Orders)'
    BY HoldStep
  <2>3. QED
    BY <2>1, <2>2
<1> HIDE DEF Safe
<1>4. QED
  BY <1>1, <1>2, <1>3, SysInvariant, PTL DEF Spec

\* ... so there are never more live orders than units were seeded: the sum over all
\* shards, for any number of shards, orders and failures.
THEOREM LiveWithinSeed ==
    ASSUME "lost" \notin NatsFaults, DLQFed = FALSE
    PROVE  Spec => [](Cardinality({o \in Orders : row[o] = "PENDING_PAYMENT"}) <= Stock)
<1> DEFINE Live == {o \in Orders : row[o] = "PENDING_PAYMENT"}
<1>1. ASSUME LiveOrderHoldsUnit, Cardinality(UnitsOut(Orders)) <= Stock
      PROVE  Cardinality(Live) <= Stock
  <2>1. /\ Live \subseteq UnitsOut(Orders)
        /\ Live \in SUBSET Orders /\ UnitsOut(Orders) \in SUBSET Orders
    BY <1>1 DEF LiveOrderHoldsUnit, UnitsOut
  <2> HIDE DEF Live
  <2>2. IsFiniteSet(UnitsOut(Orders))
    BY <2>1, InventoryAssumption, FS_Subset
  <2>3. Cardinality(Live) <= Cardinality(UnitsOut(Orders))
    BY <2>1, <2>2, FS_Subset
  <2>4. Cardinality(Live) \in Nat /\ Cardinality(UnitsOut(Orders)) \in Nat
    BY <2>1, CountNat
  <2>5. QED
    BY <1>1, <2>3, <2>4, InventoryAssumption
<1>2. Spec => []LiveOrderHoldsUnit
  BY NoOversell, Zenon
<1>3. Spec => [](Cardinality(UnitsOut(Orders)) <= Stock)
  BY ImplementsInventory, HoldersWithinStock, PTL
<1>4. QED
  BY <1>1, <1>2, <1>3, PTL

=============================================================================
