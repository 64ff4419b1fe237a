--------------------------- MODULE PlacementProofs ---------------------------
(***************************************************************************)
(* Proofs about the way of an order from checkout to row, module           *)
(* Placement: it is well typed and implements the inventory's contract; an *)
(* accepted order is not lost; a failed Place call gives its unit back,    *)
(* and to the shard it came from; a live order holds its unit.             *)
(***************************************************************************)
EXTENDS Placement, InventoryProofs

Marked(o) == rpc[o] = "marked"

\* The part of PlacementTypeOK that is about the variables of this module.
PlacementOwn ==
    /\ place \in [Orders -> PlaceState]
    /\ attempts \in [Orders -> 0..PublishAttempts]
    /\ stream \subseteq Msg
    /\ delivered \in [Msg -> 0..MaxDeliver]
    /\ row \in [Orders -> RowState]
    /\ createdAt \in [Orders -> Nat]
    /\ wpc \in {"idle", "insert", "publish", "arm", "ack"}
    /\ wmsg \in Msg \cup {NoMsg}
    /\ wpc # "idle" => wmsg \in Msg
    /\ wnew \in BOOLEAN
    /\ armed \in [Orders -> {"no", "onTime", "late"}]
    /\ dlq \subseteq Msg
    /\ dmsg \in Msg \cup {NoMsg}
    /\ dclear \subseteq Orders

\* Who may touch an order's reservation key or row: everything downstream of
\* Reserve names only orders whose Place call has issued its SET RESERVED.
PlacementContract ==
    /\ \A m \in stream \cup dlq : Marked(m[1])
    /\ \A o \in Orders :
          /\ place[o] \in {"publish", "release", "clear", "accepted", "failed"} => Marked(o)
          /\ row[o] # "none" => Marked(o)
          /\ armed[o] # "no" => Marked(o)
    /\ wpc # "idle" => Marked(wmsg[1])

\* A Place call that still publishes has attempts left.
AttemptsLeft ==
    \A o \in Orders : place[o] \in {"reserve", "publish"} => attempts[o] < PublishAttempts

PlaceInv == RefundInv /\ PlacementOwn /\ PlacementContract /\ AttemptsLeft

LEMMA PlaceInvType == PlaceInv => PlacementTypeOK
BY DEF PlaceInv, RefundInv, PlacementOwn, PlacementTypeOK

LEMMA PlaceInit == PlacementInit => PlaceInv
<1> SUFFICES ASSUME PlacementInit PROVE PlaceInv
  OBVIOUS
<1>1. RefundInv
  BY RefundInit DEF PlacementInit
<1>2. 0 \in 0..PublishAttempts /\ 0 < PublishAttempts /\ 0 \in 0..MaxDeliver
  BY PlacementAssumption
<1>3. PlacementOwn
  BY <1>2 DEF PlacementInit, PlacementOwn, PlaceState, RowState
<1>4. PlacementContract /\ AttemptsLeft
  BY <1>2 DEF PlacementInit, PlacementContract, AttemptsLeft
<1>5. QED
  BY <1>1, <1>3, <1>4 DEF PlaceInv

-----------------------------------------------------------------------------
(* Every step is a step of the inventory *)

LEMMA DropIsInventoryStep ==
    ASSUME NEW S, DropClears(S) PROVE [InventoryNext]_inventoryVars
<1>1. CASE S \cap clearing = {}
  <2>1. clearing' = clearing
    BY <1>1 DEF DropClears
  <2>2. QED
    BY <2>1 DEF DropClears, inventoryVars, redisVars, history
<1>2. CASE S \cap clearing # {}
  <2>1. DropClears(S \cap clearing)
    <3>1. clearing \ S = clearing \ (S \cap clearing)
      OBVIOUS
    <3>2. QED
      BY <3>1 DEF DropClears
  <2>2. S \cap clearing \in SUBSET clearing
    OBVIOUS
  <2>3. QED
    BY <1>2, <2>1, <2>2 DEF InventoryNext
<1>3. QED
  BY <1>1, <1>2

\* The key an order won names a shard.
LEMMA WonKey ==
    ASSUME RefundInv, NEW o \in Orders, Marked(o) PROVE invKey[o] \in Shard
BY DEF RefundInv, OrderInv, InventoryTypeOK, Marked

LEMMA MarkedStays ==
    ASSUME InventoryTypeOK, [InventoryNext]_inventoryVars, NEW o \in Orders, Marked(o)
    PROVE  Marked(o)'
<1> USE DEF Marked, InventoryTypeOK
<1>1. ASSUME NEW q \in Orders, ProbeShard(q) PROVE Marked(o)'
  BY <1>1 DEF ProbeShard, NextSibling
<1>2. QED
  BY <1>1 DEF InventoryNext, inventoryVars, CheckLatch, LatchSoldOut, ContextEnds, MarkReserved,
     MarkPublished, ReservationExpires, Release, ClearLatch, DropClears, callVars

LEMMA PlacementStepSim ==
    ASSUME PlaceInv, PlacementSteps PROVE [InventoryNext]_inventoryVars
<1>0. PlacementTypeOK /\ RefundInv /\ PlacementContract
  BY PlaceInvType DEF PlaceInv
<1>1. ASSUME NEW o \in Orders, PlaceReserve(o) PROVE InventoryNext
  BY <1>1 DEF PlaceReserve, InventoryNext
<1>2. ASSUME NEW o \in Orders, PlaceMark(o) PROVE InventoryNext
  BY <1>2 DEF PlaceMark, InventoryNext
<1>3. ASSUME NEW o \in Orders, PlacePublish(o) PROVE UNCHANGED inventoryVars
  BY <1>3 DEF PlacePublish
<1>4. ASSUME NEW o \in Orders, PlaceRelease(o) PROVE InventoryNext
  <2>1. Marked(o)
    BY <1>0, <1>4 DEF PlacementContract, PlaceRelease
  <2>2. invKey[o] \in Shard
    BY <1>0, <2>1, WonKey
  <2>3. QED
    BY <1>4, <2>2 DEF PlaceRelease, InventoryNext, AfterRelease, RefundKey
<1>5. ASSUME NEW o \in Orders, PlaceClear(o) PROVE InventoryNext
  BY <1>5 DEF PlaceClear, InventoryNext
<1>6. ASSUME NEW o \in Orders, BackendCrash(o) PROVE [InventoryNext]_inventoryVars
  BY <1>6, DropIsInventoryStep DEF BackendCrash
<1>7. ASSUME NEW o \in Orders, HoldExpires(o) PROVE InventoryNext
  BY <1>7 DEF HoldExpires, InventoryNext
<1>8. ASSUME NextMsg \/ InsertOrder \/ ArmTimeout \/ AckOrder \/ AgeOut \/ DeadLetter
      PROVE UNCHANGED inventoryVars
  BY <1>8 DEF NextMsg, InsertOrder, ArmTimeout, AckOrder, AgeOut, DeadLetter
<1>9. ASSUME FlipPublished PROVE InventoryNext
  <2>1. wmsg[1] \in Orders
    BY <1>0, <1>9 DEF FlipPublished, PlacementTypeOK, Msg
  <2>2. QED
    BY <1>9, <2>1 DEF FlipPublished, InventoryNext
<1>10. ASSUME HandleDLQMsg PROVE InventoryNext
  <2>1. PICK m \in dlq, out \in Outcome : Release(m[1], RefundKey(m[1]), out)
    BY <1>10 DEF HandleDLQMsg
  <2>2. m[1] \in Orders /\ Marked(m[1])
    BY <1>0, <2>1 DEF PlacementTypeOK, Msg, PlacementContract
  <2>3. invKey[m[1]] \in Shard
    BY <1>0, <2>2, WonKey
  <2>4. QED
    BY <2>1, <2>2, <2>3 DEF InventoryNext, RefundKey
<1>11. ASSUME DLQClear PROVE InventoryNext
  BY <1>0, <1>11 DEF DLQClear, InventoryNext, PlacementTypeOK
<1>12. ASSUME AckDLQ PROVE UNCHANGED inventoryVars
  BY <1>12 DEF AckDLQ
<1>13. ASSUME NEW o \in Orders, ClientLeaves(o) PROVE InventoryNext
  BY <1>13 DEF ClientLeaves, InventoryNext
<1>14. QED
  BY <1>1, <1>2, <1>3, <1>4, <1>5, <1>6, <1>7, <1>8, <1>9, <1>10, <1>11, <1>12, <1>13
     DEF PlacementSteps, PlaceStep, OrderWorker, DLQWorker

-----------------------------------------------------------------------------
(* The invariant *)

\* The steps of module Placement keep its own variables in order.
LEMMA PlacementOwnStep ==
    ASSUME PlaceInv, PlacementSteps, [InventoryNext]_inventoryVars
    PROVE  (PlacementOwn /\ PlacementContract /\ AttemptsLeft)'
<1> DEFINE Goal == (PlacementOwn /\ PlacementContract /\ AttemptsLeft)'
<1>0. RefundInv /\ InventoryTypeOK /\ PlacementOwn /\ PlacementContract /\ AttemptsLeft
  BY DEF PlaceInv, RefundInv
<1>a. \A o \in Orders : Marked(o) => Marked(o)'
  BY <1>0, MarkedStays
<1>b. \A m \in Msg : m[1] \in Orders
  BY DEF Msg
<1> USE <1>0, <1>a, <1>b, PlacementAssumption
    DEF PlacementOwn, PlacementContract, AttemptsLeft, PlaceState, RowState,
        placeVars, streamVars, rowVars, workerVars, dlqVars, placementVars
<1>1. ASSUME NEW o \in Orders, PlaceReserve(o) PROVE Goal
  BY <1>1 DEF PlaceReserve
<1>2. ASSUME NEW o \in Orders, PlaceMark(o) PROVE Goal
  <2>1. Marked(o)'
    BY <1>2 DEF PlaceMark, MarkReserved, Marked, InventoryTypeOK
  <2>2. QED
    BY <1>2, <2>1 DEF PlaceMark
<1>3. ASSUME NEW o \in Orders, PlacePublish(o) PROVE Goal
  <2>1. attempts[o] + 1 \in 1..PublishAttempts
    BY <1>3 DEF PlacePublish
  <2>2. <<o, attempts[o] + 1>> \in Msg /\ <<o, attempts[o] + 1>>[1] = o
    BY <2>1 DEF Msg
  <2>3. Marked(o)'
    BY <1>3 DEF PlacePublish
  <2>4. PlacementOwn'
    BY <1>3, <2>1, <2>2 DEF PlacePublish, AfterAttempt
  <2>5. PlacementContract'
    BY <1>3, <2>2, <2>3 DEF PlacePublish
  <2>6. AttemptsLeft'
    BY <1>3, <2>1 DEF PlacePublish, AfterAttempt
  <2>7. QED
    BY <2>4, <2>5, <2>6
<1>4. ASSUME NEW o \in Orders, PlaceRelease(o) PROVE Goal
  BY <1>4 DEF PlaceRelease, AfterRelease, RefundKey
<1>5. ASSUME NEW o \in Orders, PlaceClear(o) PROVE Goal
  BY <1>5 DEF PlaceClear
<1>6. ASSUME NEW o \in Orders, BackendCrash(o) PROVE Goal
  BY <1>6 DEF BackendCrash
<1>7. ASSUME NEW o \in Orders, HoldExpires(o) \/ ClientLeaves(o) PROVE Goal
  BY <1>7 DEF HoldExpires, ClientLeaves
<1>8. ASSUME NextMsg PROVE Goal
  BY <1>8 DEF NextMsg, Deliverable
<1>9. ASSUME InsertOrder PROVE Goal
  <2>1. Cardinality({q \in Orders : row[q] # "none"}) \in Nat
    BY CountNat
  <2>2. wmsg \in Msg /\ wmsg[1] \in Orders
    BY <1>9 DEF InsertOrder
  <2>3. row' = row \/ row' = [row EXCEPT ![wmsg[1]] = "PENDING_PAYMENT"]
    BY <1>9 DEF InsertOrder
  <2>4. createdAt' \in [Orders -> Nat]
    BY <1>9, <2>1, <2>2 DEF InsertOrder
  <2>5. wnew' \in BOOLEAN
    BY <1>9 DEF InsertOrder, EndHandleOrder, Inserts
  <2>6. (wpc' = "publish" /\ UNCHANGED wmsg) \/ (wpc' = "idle" /\ wmsg' = NoMsg)
    BY <1>9 DEF InsertOrder, EndHandleOrder
  <2>7. UNCHANGED <<place, attempts, stream, delivered, armed, dlq, dmsg, dclear>>
    BY <1>9 DEF InsertOrder
  <2>8. QED
    BY <1>9, <2>2, <2>3, <2>4, <2>5, <2>6, <2>7 DEF InsertOrder
<1>10. ASSUME FlipPublished PROVE Goal
  BY <1>10 DEF FlipPublished, EndHandleOrder
<1>11. ASSUME ArmTimeout PROVE Goal
  <2>1. wmsg \in Msg /\ wmsg[1] \in Orders
    BY <1>11 DEF ArmTimeout
  <2>2. QED
    BY <1>11, <2>1 DEF ArmTimeout
<1>12. ASSUME AckOrder PROVE Goal
  BY <1>12 DEF AckOrder, EndHandleOrder
<1>13. ASSUME AgeOut \/ DeadLetter PROVE Goal
  BY <1>13 DEF AgeOut, DeadLetter
<1>14. ASSUME HandleDLQMsg PROVE Goal
  BY <1>14 DEF HandleDLQMsg
<1>15. ASSUME DLQClear PROVE Goal
  BY <1>15 DEF DLQClear
<1>16. ASSUME AckDLQ PROVE Goal
  BY <1>16 DEF AckDLQ
<1> HIDE DEF Goal
<1>17. QED
  BY <1>1, <1>2, <1>3, <1>4, <1>5, <1>6, <1>7, <1>8, <1>9, <1>10, <1>11, <1>12,
     <1>13, <1>14, <1>15, <1>16
     DEF PlacementSteps, PlaceStep, OrderWorker, DLQWorker, Goal

LEMMA CrashKeepsOwn ==
    ASSUME PlaceInv, WorkerCrash
    PROVE  (PlacementOwn /\ PlacementContract /\ AttemptsLeft)'
BY DEF PlaceInv, WorkerCrash, EndHandleOrder, DropClears, PlacementOwn, PlacementContract,
   AttemptsLeft, Marked, placeVars, streamVars, rowVars

\* A step that only this module's variables and the inventory's depend on.
LEMMA PlacementSim == PlaceInv /\ [PlacementNext]_allVars => [InventoryNext]_inventoryVars
BY PlacementStepSim, DropIsInventoryStep DEF PlacementNext, WorkerCrash, allVars

LEMMA PlaceInvStep == PlaceInv /\ [PlacementNext]_allVars => PlaceInv'
<1> SUFFICES ASSUME PlaceInv, [PlacementNext]_allVars PROVE PlaceInv'
  OBVIOUS
<1>1. [InventoryNext]_inventoryVars
  BY PlacementSim
<1>2. RefundInv'
  BY <1>1, RefundStep DEF PlaceInv
<1>3. CASE PlacementNext
  BY <1>1, <1>2, <1>3, PlacementOwnStep, CrashKeepsOwn DEF PlacementNext, PlaceInv
<1>4. CASE UNCHANGED allVars
  <2>1. (PlacementOwn /\ PlacementContract /\ AttemptsLeft)'
    BY <1>4 DEF allVars, inventoryVars, placementVars, PlaceInv, PlacementOwn,
       PlacementContract, AttemptsLeft, Marked
  <2>2. QED
    BY <1>2, <2>1 DEF PlaceInv
<1>5. QED
  BY <1>3, <1>4

LEMMA PlaceInvariant == PlacementSpec => []PlaceInv
BY PlaceInit, PlaceInvStep, PTL DEF PlacementSpec

\* Every state of the placement path is well typed, for every number of orders,
\* attempts and deliveries and every kind of failure: no copy is delivered more
\* than MaxDeliver times and no Place call publishes more often than it may.
THEOREM PlacementTypeCorrect == PlacementSpec => []PlacementTypeOK
BY PlaceInvType, PlaceInvariant, PTL

\* Placing, persisting, crashing and compensating keep to the inventory's contract.
THEOREM PlacementImplementsInventory == PlacementSpec => InventorySpec
<1>1. PlacementInit => InventoryInit
  BY DEF PlacementInit
<1>2. QED
  BY <1>1, PlacementSim, PlaceInvariant, PTL DEF PlacementSpec, InventorySpec

-----------------------------------------------------------------------------
(* An accepted order is not lost *)

\* handleOrder goes beyond the INSERT only when the row is there.
HandledHasRow == wpc \in {"publish", "arm", "ack"} => row[wmsg[1]] # "none"

\* What makes AcceptedIsDurable inductive: an acknowledged copy has left a row behind.
DurableInv == AcceptedIsDurable /\ HandledHasRow

\* InsertOrder deletes no row, and handleOrder goes on only if there is one.
LEMMA InsertKeepsRows ==
    ASSUME PlacementOwn, InsertOrder
    PROVE  /\ \A o \in Orders : row[o] # "none" => row'[o] # "none"
           /\ HandledHasRow'
<1>1. wmsg \in Msg /\ wmsg[1] \in Orders /\ row \in [Orders -> RowState]
  BY DEF InsertOrder, PlacementOwn, Msg
<1>2. \A o \in Orders : row[o] # "none" => row'[o] # "none"
  BY <1>1 DEF InsertOrder
<1>3. wpc' = "publish" => wmsg' = wmsg /\ row'[wmsg[1]] # "none"
  BY <1>1 DEF InsertOrder, EndHandleOrder, Inserts, Applied
<1>4. wpc' \in {"publish", "idle"}
  BY DEF InsertOrder, EndHandleOrder
<1>5. QED
  BY <1>2, <1>3, <1>4 DEF HandledHasRow

\* A step that accepts nobody, takes nothing out of the stream and deletes no row.
LEMMA DurableQuiet ==
    ASSUME PlacementOwn, DurableInv,
           \A o \in Orders : place'[o] = "accepted" => place[o] = "accepted",
           stream \subseteq stream', UNCHANGED delivered,
           UNCHANGED <<wpc, wmsg>> \/ wpc' = "idle",
           \A o \in Orders : row[o] # "none" => row'[o] # "none"
    PROVE  DurableInv'
<1>1. \A m \in Msg : m[1] \in Orders
  BY DEF Msg
<1>2. wpc' \in {"publish", "arm", "ack"} => row'[wmsg'[1]] # "none"
  BY <1>1 DEF DurableInv, HandledHasRow, PlacementOwn
<1>3. AcceptedIsDurable'
  <2>1. SUFFICES ASSUME NEW o \in Orders, place'[o] = "accepted"
                 PROVE  row'[o] # "none" \/ UsedUp(o)' \/ \E m \in stream' : m[1] = o
    BY DEF AcceptedIsDurable
  <2>2. row[o] # "none" \/ UsedUp(o) \/ \E m \in stream : m[1] = o
    BY <2>1 DEF DurableInv, HandledHasRow, AcceptedIsDurable
  <2>3. UsedUp(o) => UsedUp(o)'
    BY DEF UsedUp
  <2>4. QED
    BY <2>2, <2>3
<1>4. QED
  BY <1>2, <1>3 DEF DurableInv, HandledHasRow

\* A copy that is taken out of the stream leaves a row or a used-up copy behind.
LEMMA DurableRemove ==
    ASSUME DurableInv, NEW m \in Msg, stream' = stream \ {m},
           row[m[1]] # "none" \/ delivered[m] = MaxDeliver,
           UNCHANGED <<place, delivered, row>>, UNCHANGED <<wpc, wmsg>> \/ wpc' = "idle"
    PROVE  DurableInv'
<1>1. SUFFICES ASSUME NEW o \in Orders, place'[o] = "accepted"
               PROVE  row'[o] # "none" \/ UsedUp(o)' \/ \E n \in stream' : n[1] = o
  BY DEF DurableInv, HandledHasRow, AcceptedIsDurable
<1>2. row[o] # "none" \/ UsedUp(o) \/ \E n \in stream : n[1] = o
  BY <1>1 DEF DurableInv, HandledHasRow, AcceptedIsDurable
<1>3. UsedUp(o) => UsedUp(o)'
  BY DEF UsedUp
<1>4. m[1] = o => row'[o] # "none" \/ UsedUp(o)'
  BY DEF UsedUp
<1>5. QED
  BY <1>2, <1>3, <1>4

LEMMA DurablePlace ==
    ASSUME PlaceInv, DurableInv, NEW o \in Orders,
           PlaceStep(o) \/ ClientLeaves(o) \/ BackendCrash(o) \/ HoldExpires(o)
    PROVE  DurableInv'
<1>0. PlacementOwn
  BY DEF PlaceInv
<1> USE DEF placeVars, streamVars, rowVars, workerVars, dlqVars, placementVars
<1>1. CASE PlacePublish(o)
  <2>1. PICK out \in {"ok"} \cup NatsFaults :
           \/ /\ stream' = IF Applied(out) THEN stream \cup {<<o, attempts[o] + 1>>}
                                           ELSE stream
              /\ place' = [place EXCEPT ![o] =
                             IF out = "ok" THEN "accepted"
                             ELSE IF attempts[o] + 1 = PublishAttempts \/ o \in left
                             THEN "release" ELSE "publish"]
           \/ /\ place' = [place EXCEPT ![o] = "release"]
              /\ UNCHANGED stream
    BY <1>1 DEF PlacePublish, AfterAttempt
  <2>2. UNCHANGED <<delivered, row, wpc, wmsg>>
    BY <1>1 DEF PlacePublish
  <2>3. stream \subseteq stream'
    BY <2>1
  <2>4. CASE place'[o] # "accepted"
    <3>1. \A q \in Orders : place'[q] = "accepted" => place[q] = "accepted"
      BY <1>0, <2>1, <2>4 DEF PlacementOwn
    <3>2. QED
      BY <1>0, <2>2, <2>3, <3>1, DurableQuiet
  <2>5. CASE place'[o] = "accepted"
    <3>1. out = "ok" /\ stream' = stream \cup {<<o, attempts[o] + 1>>}
          /\ \A q \in Orders : q # o => place'[q] = place[q]
      BY <1>0, <2>1, <2>5 DEF PlacementOwn, Applied
    <3>2. <<o, attempts[o] + 1>>[1] = o /\ <<o, attempts[o] + 1>> \in stream'
      BY <3>1
    <3>3. \A q \in Orders : UsedUp(q) => UsedUp(q)'
      BY <2>2 DEF UsedUp
    <3>4. AcceptedIsDurable'
      BY <2>2, <2>3, <3>1, <3>2, <3>3 DEF DurableInv, HandledHasRow, AcceptedIsDurable
    <3>5. QED
      BY <2>2, <3>4 DEF DurableInv, HandledHasRow
  <2>6. QED
    BY <2>4, <2>5
<1>2. CASE PlaceReserve(o) \/ HoldExpires(o) \/ ClientLeaves(o)
  BY <1>0, <1>2, DurableQuiet DEF PlaceReserve, HoldExpires, ClientLeaves
<1>3. CASE PlaceMark(o) \/ PlaceRelease(o) \/ PlaceClear(o) \/ BackendCrash(o)
  <2>1. \E l \in {"publish", "release", "clear", "failed", "crashed"} :
           place' = [place EXCEPT ![o] = l]
    BY <1>3 DEF PlaceMark, PlaceRelease, PlaceClear, BackendCrash, AfterRelease
  <2>2. \A q \in Orders : place'[q] = "accepted" => place[q] = "accepted"
    BY <1>0, <2>1 DEF PlacementOwn
  <2>3. UNCHANGED <<stream, delivered, row, wpc, wmsg>>
    BY <1>3 DEF PlaceMark, PlaceRelease, PlaceClear, BackendCrash
  <2>4. QED
    BY <1>0, <2>2, <2>3, DurableQuiet
<1>4. QED
  BY <1>1, <1>2, <1>3 DEF PlaceStep

\* As long as the worker is not away for longer than the streams keep a message.
LEMMA DurableWorker ==
    ASSUME Outage = FALSE, PlaceInv, DurableInv,
           OrderWorker \/ AgeOut \/ DeadLetter \/ DLQWorker
    PROVE  DurableInv'
<1>0. PlacementOwn
  BY DEF PlaceInv
<1>a. \A m \in Msg : m[1] \in Orders
  BY DEF Msg
<1> USE DEF placeVars, streamVars, rowVars, workerVars, dlqVars, placementVars
<1>1. CASE NextMsg
  <2>1. PICK m \in stream : /\ delivered[m] < MaxDeliver
                            /\ delivered' = [delivered EXCEPT ![m] = @ + 1]
    BY <1>1 DEF NextMsg, Deliverable
  <2>2. wpc' = "insert" /\ UNCHANGED <<place, stream, row>>
    BY <1>1 DEF NextMsg
  <2>3. \A o \in Orders : UsedUp(o) => UsedUp(o)'
    BY <1>0, <2>1, PlacementAssumption DEF UsedUp, PlacementOwn
  <2>4. QED
    BY <2>2, <2>3 DEF DurableInv, HandledHasRow, AcceptedIsDurable
<1>2. CASE InsertOrder
  <2>1. UNCHANGED <<place, stream, delivered>>
    BY <1>2 DEF InsertOrder
  <2>2. HandledHasRow' /\ \A o \in Orders : row[o] # "none" => row'[o] # "none"
    BY <1>0, <1>2, InsertKeepsRows
  <2>3. \A o \in Orders : UsedUp(o) => UsedUp(o)'
    BY <2>1 DEF UsedUp
  <2>4. AcceptedIsDurable'
    BY <2>1, <2>2, <2>3 DEF DurableInv, HandledHasRow, AcceptedIsDurable
  <2>5. QED
    BY <2>2, <2>4 DEF DurableInv, HandledHasRow
<1>3. CASE FlipPublished \/ ArmTimeout
  <2>1. UNCHANGED <<place, stream, delivered, row>>
    BY <1>3 DEF FlipPublished, ArmTimeout
  <2>2. wpc \in {"publish", "arm"} /\ (UNCHANGED wmsg \/ wpc' = "idle")
    BY <1>3 DEF FlipPublished, ArmTimeout, EndHandleOrder
  <2>3. \A o \in Orders : UsedUp(o) => UsedUp(o)'
    BY <2>1 DEF UsedUp
  <2>4. QED
    BY <2>1, <2>2, <2>3 DEF DurableInv, HandledHasRow, AcceptedIsDurable
<1>4. CASE AckOrder
  <2>1. /\ wpc = "ack" /\ wpc' = "idle" /\ wmsg \in Msg
        /\ stream' = stream \ {wmsg} \/ stream' = stream
        /\ UNCHANGED <<place, delivered, row>>
    BY <1>0, <1>4 DEF AckOrder, Ackable, EndHandleOrder, PlacementOwn
  <2>2. row[wmsg[1]] # "none"
    BY <2>1 DEF DurableInv, HandledHasRow
  <2>3. CASE stream' = stream \ {wmsg}
    BY <2>1, <2>2, <2>3, DurableRemove
  <2>4. CASE stream' = stream
    BY <1>0, <2>1, <2>4, DurableQuiet
  <2>5. QED
    BY <2>1, <2>3, <2>4
<1>5. CASE AgeOut \/ DeadLetter
  <2>1. PICK m \in stream : delivered[m] = MaxDeliver /\ stream' = stream \ {m}
    BY <1>5 DEF AgeOut, DeadLetter, Exhausted
  <2>2. m \in Msg
    BY <1>0, <2>1 DEF PlacementOwn
  <2>3. UNCHANGED <<place, delivered, row, wpc, wmsg>>
    BY <1>5 DEF AgeOut, DeadLetter
  <2>4. QED
    BY <2>1, <2>2, <2>3, DurableRemove
<1>6. CASE DLQWorker
  <2>1. UNCHANGED <<place, stream, delivered, row, wpc, wmsg>>
    BY <1>6 DEF DLQWorker, HandleDLQMsg, DLQClear, AckDLQ
  <2>2. QED
    BY <1>0, <2>1, DurableQuiet
<1>7. QED
  BY <1>1, <1>2, <1>3, <1>4, <1>5, <1>6 DEF OrderWorker

LEMMA DurableInit == PlacementInit => DurableInv
BY DEF PlacementInit, DurableInv, HandledHasRow, AcceptedIsDurable

LEMMA DurableStep ==
    ASSUME Outage = FALSE
    PROVE  PlaceInv /\ DurableInv /\ [PlacementNext]_allVars => DurableInv'
<1> SUFFICES ASSUME PlaceInv, DurableInv, [PlacementNext]_allVars PROVE DurableInv'
  OBVIOUS
<1>1. CASE PlacementSteps
  BY <1>1, DurablePlace, DurableWorker DEF PlacementSteps
<1>2. CASE WorkerCrash
  <2>1. wpc' = "idle" /\ UNCHANGED <<place, stream, delivered, row>>
    BY <1>2 DEF WorkerCrash, EndHandleOrder, placeVars, streamVars, rowVars
  <2>2. QED
    BY <2>1, DurableQuiet DEF PlaceInv
<1>3. CASE UNCHANGED allVars
  <2>1. UNCHANGED <<place, stream, delivered, row, wpc, wmsg>>
    BY <1>3 DEF allVars, placementVars
  <2>2. QED
    BY <2>1, DurableQuiet DEF PlaceInv
<1>4. QED
  BY <1>1, <1>2, <1>3 DEF PlacementNext

\* Whatever the worker fails at or dies in: an order whose id the buyer has got
\* is a row, or an event that still waits in the stream, or one that has used up
\* its MaxDeliver deliveries.
THEOREM AcceptedStaysDurable ==
    ASSUME Outage = FALSE
    PROVE  PlacementSpec => []AcceptedIsDurable
<1>1. PlaceInv /\ DurableInv /\ [PlacementNext]_allVars => DurableInv'
  BY DurableStep, Zenon
<1>2. DurableInv => AcceptedIsDurable
  BY DEF DurableInv
<1>3. QED
  BY <1>1, <1>2, PlaceInvariant, DurableInit, PTL DEF PlacementSpec

-----------------------------------------------------------------------------
(* Where a refund goes, and that a failed Place call makes one *)

\* release_stock.lua touches one order, and restores a unit only out of RESERVED.
LEMMA ReleaseEffect ==
    ASSUME RefundInv, NEW o \in Orders, NEW s, NEW out, Release(o, s, out), NEW q \in Orders
    PROVE  \/ UNCHANGED <<resv[q], refunds[q], refundedTo[q]>>
           \/ /\ q = o /\ resv[o] = "RESERVED"
              /\ refunds'[o] = 1 /\ refundedTo'[o] = s
<1>1. InventoryTypeOK /\ OrderInv(o)
  BY DEF RefundInv
<1>2. QED
  BY <1>1 DEF Release, ReleaseScript, InventoryTypeOK, OrderInv, Compensable

\* Reserve leaves the reservation keys alone, and once an order has won it is over.
LEMMA ReserveEffect ==
    ASSUME RefundInv, NEW o \in Orders, CheckLatch(o) \/ ProbeShard(o) \/ LatchSoldOut(o)
    PROVE  /\ UNCHANGED <<resv, refunds, refundedTo>>
           /\ \A q \in Orders : refunds[q] > 0 => invKey'[q] = invKey[q]
<1>1. UNCHANGED <<resv, refunds, refundedTo>>
  BY DEF CheckLatch, ProbeShard, LatchSoldOut, history
<1>2. CASE ProbeShard(o)
  <2>1. refunds[o] = 0 /\ invKey \in [Orders -> Shard \cup {NoShard}]
    BY <1>2 DEF ProbeShard, RefundInv, OrderInv, InventoryTypeOK
  <2>2. \A q \in Orders : q # o => invKey'[q] = invKey[q]
    BY <1>2, <2>1 DEF ProbeShard
  <2>3. QED
    BY <1>1, <2>1, <2>2
<1>3. CASE CheckLatch(o) \/ LatchSoldOut(o)
  BY <1>1, <1>3 DEF CheckLatch, LatchSoldOut
<1>4. QED
  BY <1>2, <1>3

LEMMA OriginStep ==
    PlaceInv /\ RefundToOrigin /\ [PlacementNext]_allVars => RefundToOrigin'
<1> SUFFICES ASSUME PlaceInv, RefundToOrigin, [PlacementNext]_allVars PROVE RefundToOrigin'
  OBVIOUS
<1>0. RefundInv /\ InventoryTypeOK /\ PlacementOwn
  BY DEF PlaceInv, RefundInv
<1>1. ASSUME NEW o \in Orders, PlaceReserve(o) PROVE RefundToOrigin'
  BY <1>0, <1>1, ReserveEffect DEF PlaceReserve, RefundToOrigin
<1>2. ASSUME NEW o \in Orders, NEW out, Release(o, invKey[o], out) PROVE RefundToOrigin'
  <2>1. UNCHANGED invKey
    BY <1>2 DEF Release
  <2>2. SUFFICES ASSUME NEW q \in Orders, refunds'[q] > 0 PROVE refundedTo'[q] = invKey[q]
    BY <2>1 DEF RefundToOrigin
  <2>3. QED
    BY <1>0, <1>2, <2>2, ReleaseEffect DEF RefundToOrigin
<1>3. ASSUME UNCHANGED <<refunds, refundedTo, invKey>> PROVE RefundToOrigin'
  BY <1>3 DEF RefundToOrigin
<1>4. ASSUME NEW o \in Orders,
             \/ PlaceMark(o) \/ PlacePublish(o) \/ PlaceClear(o)
             \/ ClientLeaves(o) \/ BackendCrash(o) \/ HoldExpires(o)
      PROVE  UNCHANGED <<refunds, refundedTo, invKey>>
  BY <1>4 DEF PlaceMark, MarkReserved, PlacePublish, PlaceClear, ClearLatch, ClientLeaves,
     ContextEnds, BackendCrash, DropClears, HoldExpires, ReservationExpires, inventoryVars, history, callVars
<1>5. ASSUME OrderWorker \/ AgeOut \/ DeadLetter \/ DLQClear \/ AckDLQ \/ WorkerCrash
      PROVE  UNCHANGED <<refunds, refundedTo, invKey>>
  BY <1>5 DEF OrderWorker, NextMsg, InsertOrder, FlipPublished, MarkPublished, ArmTimeout,
     AckOrder, AgeOut, DeadLetter, DLQClear, ClearLatch, AckDLQ, WorkerCrash, DropClears,
     inventoryVars, history, callVars
<1>6. ASSUME NEW o \in Orders, PlaceRelease(o) PROVE RefundToOrigin'
  BY <1>2, <1>6 DEF PlaceRelease, RefundKey
<1>7. ASSUME HandleDLQMsg PROVE RefundToOrigin'
  <2>1. PICK m \in dlq, out \in Outcome : Release(m[1], invKey[m[1]], out)
    BY <1>7 DEF HandleDLQMsg, RefundKey
  <2>2. m[1] \in Orders
    BY <1>0, <2>1 DEF PlacementOwn, Msg
  <2>3. QED
    BY <1>2, <2>1, <2>2
<1>8. CASE UNCHANGED allVars
  BY <1>3, <1>8 DEF allVars, inventoryVars
<1>9. QED
  BY <1>1, <1>3, <1>4, <1>5, <1>6, <1>7, <1>8
     DEF PlacementNext, PlacementSteps, PlaceStep, DLQWorker

\* Without the payment window, a unit goes back to the shard it was taken from,
\* whoever returns it, however often the call is repeated.
THEOREM RefundsGoHome == PlacementSpec => []RefundToOrigin
<1>1. PlacementInit => RefundToOrigin
  BY DEF PlacementInit, InventoryInit, RefundToOrigin
<1>2. QED
  BY <1>1, OriginStep, PlaceInvariant, PTL DEF PlacementSpec

\* With a healthy Redis a Place call that won holds a RESERVED key until it ends,
\* unless its client has left, the DLQ worker was faster or the order was persisted
\* meanwhile.
FailInv ==
    /\ HandledHasRow
    /\ \A o \in Orders :
          LET settled == refunds[o] = 1 \/ row[o] # "none" \/ o \in left IN
          /\ place[o] \in {"publish", "release"} => resv[o] = "RESERVED" \/ settled
          /\ place[o] \in {"clear", "failed"} => settled

\* A step that lets no order's situation get worse.
LEMMA FailQuiet ==
    ASSUME FailInv, HandledHasRow',
           \A o \in Orders :
              /\ row[o] # "none" => row'[o] # "none"
              /\ refunds[o] = 1 => refunds'[o] = 1
              /\ o \in left => o \in left'
              /\ place'[o] \in {"publish", "release"} =>
                    \/ resv'[o] = "RESERVED" \/ refunds'[o] = 1 \/ row'[o] # "none" \/ o \in left
                    \/ /\ place[o] \in {"publish", "release"}
                       /\ resv[o] = "RESERVED" => resv'[o] = "RESERVED"
              /\ place'[o] \in {"clear", "failed"} =>
                    \/ refunds'[o] = 1 \/ row'[o] # "none" \/ o \in left
                    \/ place[o] \in {"clear", "failed"}
    PROVE  FailInv'
BY DEF FailInv

LEMMA FailPlace ==
    ASSUME RedisFaults = {}, PlaceInv, FailInv, NEW o \in Orders,
           PlaceStep(o) \/ ClientLeaves(o) \/ BackendCrash(o) \/ HoldExpires(o)
    PROVE  FailInv'
<1>0. RefundInv /\ InventoryTypeOK /\ PlacementOwn
  BY DEF PlaceInv, RefundInv
<1> USE DEF placeVars, streamVars, rowVars, workerVars, dlqVars, placementVars
<1>1. UNCHANGED <<row, wpc, wmsg>>
  BY DEF PlaceStep, PlaceReserve, PlaceMark, PlacePublish, PlaceRelease, PlaceClear,
     ClientLeaves, BackendCrash, HoldExpires
<1>2. HandledHasRow'
  BY <1>1 DEF FailInv, HandledHasRow
<1>a. left \subseteq left'
  BY DEF PlaceStep, PlaceReserve, CheckLatch, ProbeShard, LatchSoldOut, PlaceMark, MarkReserved,
     PlacePublish, PlaceRelease, Release, PlaceClear, ClearLatch, ClientLeaves, ContextEnds,
     BackendCrash, DropClears, HoldExpires, ReservationExpires, callVars, inventoryVars
<1>b. CASE ClientLeaves(o)
  <2>1. UNCHANGED <<place, resv, refunds>>
    BY <1>b DEF ClientLeaves, ContextEnds, redisVars, history
  <2>2. QED
    BY <1>1, <1>2, <1>a, <2>1, FailQuiet
<1>3. CASE PlaceReserve(o)
  <2>1. UNCHANGED <<place, resv, refunds>>
    BY <1>0, <1>3, ReserveEffect DEF PlaceReserve
  <2>2. QED
    BY <1>1, <1>2, <1>a, <2>1, FailQuiet
<1>4. CASE PlaceMark(o)
  <2>1. PICK out \in DirectReply(o) :
           /\ MarkReserved(o, out)
           /\ place' = [place EXCEPT ![o] = IF out = "ok" THEN "publish" ELSE "release"]
    BY <1>4 DEF PlaceMark
  <2>2. o \in left \/ out = "ok"
    BY <2>1 DEF DirectReply, Reply, Outcome
  <2>3. /\ UNCHANGED refunds
        /\ resv' = resv \/ resv' = [resv EXCEPT ![o] = "RESERVED"]
        /\ out = "ok" => resv' = [resv EXCEPT ![o] = "RESERVED"]
    BY <2>1 DEF MarkReserved, history, Applied
  <2>4. resv'[o] = "RESERVED" \/ o \in left
    BY <1>0, <2>2, <2>3 DEF InventoryTypeOK
  <2>5. \A q \in Orders : q # o => place'[q] = place[q] /\ resv'[q] = resv[q]
    BY <1>0, <2>1, <2>3 DEF PlacementOwn, InventoryTypeOK
  <2>6. place'[o] \in {"publish", "release"}
    BY <1>0, <2>1 DEF PlacementOwn
  <2>7. QED
    BY <1>1, <1>2, <1>a, <2>3, <2>4, <2>5, <2>6, FailQuiet
<1>5. CASE PlacePublish(o)
  <2>1. UNCHANGED <<resv, refunds>> /\ place[o] = "publish"
        /\ \E l \in {"publish", "release", "accepted"} : place' = [place EXCEPT ![o] = l]
    BY <1>5 DEF PlacePublish, AfterAttempt, inventoryVars
  <2>2. QED
    BY <1>0, <1>1, <1>2, <1>a, <2>1, FailQuiet DEF PlacementOwn
<1>6. CASE PlaceRelease(o)
  <2>1. PICK out \in Reply(o) : /\ Release(o, RefundKey(o), out)
                                /\ place' = [place EXCEPT ![o] = AfterRelease(o, out)]
    BY <1>6 DEF PlaceRelease
  <2>2. o \in left \/ out = "ok"
    BY <2>1 DEF Reply, Outcome
  <2>3. out = "ok" /\ resv[o] = "RESERVED" => refunds'[o] = 1
    BY <1>0, <2>1 DEF Release, ReleaseScript, Compensable, Applied, RefundInv, OrderInv,
       InventoryTypeOK
  <2>4. refunds'[o] = refunds[o] \/ refunds'[o] = 1
    BY <1>0, <2>1, ReleaseEffect
  <2>5. \A q \in Orders : q # o => resv'[q] = resv[q] /\ refunds'[q] = refunds[q]
    BY <1>0, <2>1, ReleaseEffect
  <2>6. place[o] = "release"
    BY <1>6 DEF PlaceRelease
  <2>7. refunds'[o] = 1 \/ row'[o] # "none" \/ o \in left
    BY <1>1, <2>2, <2>3, <2>4, <2>6 DEF FailInv
  <2>8. \A q \in Orders : q # o => place'[q] = place[q]
    BY <1>0, <2>1 DEF PlacementOwn
  <2>9. refunds[o] = 1 => refunds'[o] = 1
    BY <2>4
  <2>10. place'[o] \in {"clear", "failed"}
    BY <1>0, <2>1 DEF PlacementOwn, AfterRelease
  <2>11. QED
    BY <1>1, <1>2, <1>a, <2>5, <2>7, <2>8, <2>9, <2>10, FailQuiet
<1>7. CASE PlaceClear(o) \/ BackendCrash(o)
  <2>1. UNCHANGED <<resv, refunds>>
    BY <1>7 DEF PlaceClear, ClearLatch, BackendCrash, DropClears, redisVars, history
  <2>2. \/ place[o] = "clear" /\ place' = [place EXCEPT ![o] = "failed"]
        \/ place' = [place EXCEPT ![o] = "crashed"]
    BY <1>7 DEF PlaceClear, BackendCrash
  <2>3. QED
    BY <1>0, <1>1, <1>2, <1>a, <2>1, <2>2, FailQuiet DEF PlacementOwn
<1>8. CASE HoldExpires(o)
  <2>1. /\ UNCHANGED <<place, refunds>> /\ place[o] \notin {"publish", "release"}
        /\ resv' = [resv EXCEPT ![o] = "NONE"]
    BY <1>8 DEF HoldExpires, ReservationExpires, history
  <2>2. QED
    BY <1>0, <1>1, <1>2, <1>a, <2>1, FailQuiet DEF InventoryTypeOK
<1>9. QED
  BY <1>b, <1>3, <1>4, <1>5, <1>6, <1>7, <1>8 DEF PlaceStep

LEMMA FailWorker ==
    ASSUME PlaceInv, FailInv, OrderWorker \/ AgeOut \/ DeadLetter \/ DLQWorker \/ WorkerCrash
    PROVE  FailInv'
<1>0. RefundInv /\ InventoryTypeOK /\ PlacementOwn
  BY DEF PlaceInv, RefundInv
<1> USE DEF placeVars, streamVars, rowVars, workerVars, dlqVars, placementVars
<1>1. UNCHANGED <<place, left>>
  BY DEF OrderWorker, NextMsg, InsertOrder, FlipPublished, MarkPublished, ArmTimeout, AckOrder,
     AgeOut, DeadLetter, DLQWorker, HandleDLQMsg, Release, DLQClear, ClearLatch, AckDLQ,
     WorkerCrash, DropClears, inventoryVars, callVars
<1>2. CASE InsertOrder
  <2>1. UNCHANGED <<resv, refunds>>
    BY <1>2 DEF InsertOrder, inventoryVars
  <2>2. QED
    BY <1>0, <1>1, <1>2, <2>1, InsertKeepsRows, FailQuiet
<1>3. CASE FlipPublished
  <2>1. wmsg[1] \in Orders /\ row[wmsg[1]] # "none"
    BY <1>0, <1>3 DEF FlipPublished, PlacementOwn, Msg, FailInv, HandledHasRow
  <2>2. UNCHANGED <<row, refunds>>
    BY <1>3 DEF FlipPublished, MarkPublished, history
  <2>3. HandledHasRow'
    BY <1>3, <2>1, <2>2 DEF FlipPublished, EndHandleOrder, HandledHasRow
  <2>4. resv' = resv \/ resv' = [resv EXCEPT ![wmsg[1]] = "PUBLISHED"]
    BY <1>3 DEF FlipPublished, MarkPublished
  <2>5. QED
    BY <1>0, <1>1, <2>1, <2>2, <2>3, <2>4, FailQuiet DEF InventoryTypeOK
<1>4. CASE HandleDLQMsg
  <2>1. PICK m \in dlq, out \in Outcome : Release(m[1], RefundKey(m[1]), out)
    BY <1>4 DEF HandleDLQMsg
  <2>2. m[1] \in Orders
    BY <1>0, <2>1 DEF PlacementOwn, Msg
  <2>3. \A q \in Orders : \/ resv'[q] = resv[q] /\ refunds'[q] = refunds[q]
                          \/ refunds'[q] = 1
    BY <1>0, <2>1, <2>2, ReleaseEffect
  <2>4. UNCHANGED <<row, wpc, wmsg>>
    BY <1>4 DEF HandleDLQMsg
  <2>5. HandledHasRow'
    BY <2>4 DEF FailInv, HandledHasRow
  <2>6. QED
    BY <1>1, <2>3, <2>4, <2>5, FailQuiet
<1>5. CASE NextMsg \/ ArmTimeout \/ AckOrder \/ AgeOut \/ DeadLetter \/ DLQClear \/ AckDLQ
           \/ WorkerCrash
  <2>1. UNCHANGED <<row, resv, refunds>>
    BY <1>5 DEF NextMsg, ArmTimeout, AckOrder, AgeOut, DeadLetter, DLQClear, ClearLatch,
       AckDLQ, WorkerCrash, DropClears, redisVars, inventoryVars, history
  <2>2. \/ UNCHANGED <<wpc, wmsg>> \/ wpc' \in {"insert", "idle"}
        \/ wpc = "arm" /\ wpc' = "ack" /\ UNCHANGED wmsg
    BY <1>5 DEF NextMsg, ArmTimeout, AckOrder, AgeOut, DeadLetter, DLQClear,
       AckDLQ, WorkerCrash, EndHandleOrder
  <2>3. HandledHasRow'
    BY <2>1, <2>2 DEF FailInv, HandledHasRow
  <2>4. QED
    BY <1>1, <2>1, <2>3, FailQuiet
<1>6. QED
  BY <1>2, <1>3, <1>4, <1>5 DEF OrderWorker, DLQWorker

\* With a healthy Redis, a Place call that fails after winning a unit has given it
\* back, or its order exists because a publish that looked failed was stored, or its
\* client has left.
THEOREM FailedPlaceIsSettled == PlacementSpec => []FailedPlaceRestores
<1>1. CASE RedisFaults # {}
  <2>1. FailedPlaceRestores
    BY <1>1 DEF FailedPlaceRestores
  <2>2. QED
    BY <2>1, PTL
<1>2. CASE RedisFaults = {}
  <2>1. PlacementInit => FailInv
    BY DEF PlacementInit, FailInv, HandledHasRow
  <2>2. PlaceInv /\ FailInv /\ [PlacementNext]_allVars => FailInv'
    <3> SUFFICES ASSUME PlaceInv, FailInv, [PlacementNext]_allVars PROVE FailInv'
      OBVIOUS
    <3>1. CASE UNCHANGED allVars
      BY <3>1 DEF allVars, inventoryVars, placementVars, FailInv, HandledHasRow
    <3>2. QED
      BY <1>2, <3>1, FailPlace, FailWorker DEF PlacementNext, PlacementSteps
  <2>3. FailInv => FailedPlaceRestores
    BY DEF FailInv, FailedPlaceRestores
  <2>4. QED
    BY <2>1, <2>2, <2>3, PlaceInvariant, PTL DEF PlacementSpec
<1>3. QED
  BY <1>1, <1>2

-----------------------------------------------------------------------------
(* No oversell: a persisted, uncancelled order still holds its unit, whatever  *)
(* fails and whoever dies, provided that a publish that reports an error was   *)
(* not stored and that nothing feeds the DLQ.                                  *)

\* Downstream of the stream there are only accepted orders, and the unit of an
\* order of O that was neither cancelled nor given up by its Place call is out.
HoldInv(O) ==
    /\ dlq = {}
    /\ \A m \in stream : place[m[1]] = "accepted"
    /\ wpc # "idle" => place[wmsg[1]] = "accepted"
    /\ \A o \in Orders : row[o] # "none" => place[o] = "accepted"
    /\ \A o \in O : refunds[o] > 0 => \/ row[o] = "CANCELLED_TIMEOUT"
                                      \/ place[o] \in {"clear", "failed", "crashed"}

LEMMA HoldInit == PlacementInit => HoldInv(Orders)
<1>1. ~(0 > 0)
  OBVIOUS
<1>2. QED
  BY <1>1 DEF PlacementInit, InventoryInit, HoldInv

\* A release for o returns no other order's unit.
LEMMA ReleaseOnly ==
    ASSUME InventoryTypeOK, NEW o \in Orders, NEW s, NEW out, Release(o, s, out),
           NEW q \in Orders, q # o
    PROVE  refunds'[q] = refunds[q]
BY DEF Release, ReleaseScript, InventoryTypeOK

\* The steps of a Place call.
LEMMA HoldPlace ==
    ASSUME "lost" \notin NatsFaults, PlaceInv, NEW O \in SUBSET Orders, HoldInv(O), NEW o \in Orders,
           PlaceStep(o) \/ ClientLeaves(o) \/ BackendCrash(o) \/ HoldExpires(o)
    PROVE  HoldInv(O)'
<1>0. InventoryTypeOK /\ PlacementOwn
  BY DEF PlaceInv, RefundInv
<1>a. \A m \in Msg : m[1] \in Orders
  BY DEF Msg
<1> USE <1>0, <1>a
    DEF HoldInv, PlacementOwn, placeVars, streamVars, rowVars, workerVars, dlqVars,
        placementVars
<1>1. CASE PlaceReserve(o)
  <2>1. UNCHANGED <<placementVars, refunds>>
    BY <1>1 DEF PlaceReserve, CheckLatch, ProbeShard, LatchSoldOut, history
  <2>2. QED
    BY <2>1
<1>2. CASE PlaceMark(o)
  <2>1. /\ place[o] = "reserve" /\ place' \in {[place EXCEPT ![o] = "publish"],
                                               [place EXCEPT ![o] = "release"]}
        /\ UNCHANGED <<dlq, stream, wpc, wmsg, row, refunds>>
    BY <1>2 DEF PlaceMark, MarkReserved, history
  <2>2. QED
    BY <2>1
<1>3. CASE PlacePublish(o)
  <2>1. PICK out \in {"ok"} \cup NatsFaults :
           \/ /\ out \in {"ok", "lost", "err"}
              /\ stream' = IF Applied(out) THEN stream \cup {<<o, attempts[o] + 1>>}
                                           ELSE stream
              /\ place' = [place EXCEPT ![o] =
                             IF out = "ok" THEN "accepted"
                             ELSE IF attempts[o] + 1 = PublishAttempts \/ o \in left
                             THEN "release" ELSE "publish"]
           \/ place' = [place EXCEPT ![o] = "release"] /\ UNCHANGED stream
    BY <1>3 DEF PlacePublish, AfterAttempt
  <2>2. place[o] = "publish" /\ UNCHANGED <<dlq, wpc, wmsg, row, refunds>>
    BY <1>3 DEF PlacePublish, inventoryVars
  <2>3. CASE out = "ok" /\ place' = [place EXCEPT ![o] = "accepted"]
             /\ stream' = stream \cup {<<o, attempts[o] + 1>>}
    BY <2>2, <2>3
  <2>4. CASE stream' = stream /\ place' \in {[place EXCEPT ![o] = "release"],
                                             [place EXCEPT ![o] = "publish"]}
    BY <2>2, <2>4
  <2>5. CASE place' = [place EXCEPT ![o] = "release"] /\ UNCHANGED stream
    BY <2>4, <2>5
  <2>6. CASE /\ out \in {"ok", "lost", "err"}
             /\ stream' = IF Applied(out) THEN stream \cup {<<o, attempts[o] + 1>>}
                                          ELSE stream
             /\ place' = [place EXCEPT ![o] =
                            IF out = "ok" THEN "accepted"
                            ELSE IF attempts[o] + 1 = PublishAttempts \/ o \in left
                            THEN "release" ELSE "publish"]
    <3>1. CASE out = "ok"
      <4>1. /\ place' = [place EXCEPT ![o] = "accepted"]
            /\ stream' = stream \cup {<<o, attempts[o] + 1>>}
        BY <2>6, <3>1 DEF Applied
      <4>2. QED
        BY <2>3, <3>1, <4>1
    <3>2. CASE out = "err"
      <4>1. stream' = stream
        BY <2>6, <3>2 DEF Applied
      <4>2. place' \in {[place EXCEPT ![o] = "release"], [place EXCEPT ![o] = "publish"]}
        BY <2>6, <3>2
      <4>3. QED
        BY <2>4, <4>1, <4>2
    <3>3. QED
      BY <2>1, <2>6, <3>1, <3>2
  <2>7. QED
    BY <2>1, <2>5, <2>6
<1>4. CASE PlaceRelease(o)
  <2>1. PICK out \in Reply(o) : Release(o, RefundKey(o), out)
    BY <1>4 DEF PlaceRelease
  <2>2. /\ place[o] = "release" /\ place' \in {[place EXCEPT ![o] = "clear"],
                                               [place EXCEPT ![o] = "failed"]}
        /\ UNCHANGED <<dlq, stream, wpc, wmsg, row>>
    BY <1>4 DEF PlaceRelease, AfterRelease, RefundKey
  <2>3. \A q \in Orders : q # o => refunds'[q] = refunds[q]
    BY <2>1, ReleaseOnly
  <2>4. QED
    BY <2>2, <2>3
<1>5. CASE PlaceClear(o)
  <2>1. /\ place[o] = "clear" /\ place' = [place EXCEPT ![o] = "failed"]
        /\ UNCHANGED <<dlq, stream, wpc, wmsg, row, refunds>>
    BY <1>5 DEF PlaceClear, ClearLatch, history
  <2>2. QED
    BY <2>1
<1>6. CASE BackendCrash(o)
  <2>1. /\ place[o] # "accepted" /\ place' = [place EXCEPT ![o] = "crashed"]
        /\ UNCHANGED <<dlq, stream, wpc, wmsg, row, refunds>>
    BY <1>6 DEF BackendCrash, Placing, DropClears, history
  <2>2. QED
    BY <2>1
<1>7. CASE HoldExpires(o) \/ ClientLeaves(o)
  <2>1. UNCHANGED <<placementVars, refunds>>
    BY <1>7 DEF HoldExpires, ReservationExpires, ClientLeaves, ContextEnds, history
  <2>2. QED
    BY <2>1
<1>8. QED
  BY <1>1, <1>2, <1>3, <1>4, <1>5, <1>6, <1>7 DEF PlaceStep

\* The steps of the order worker and of the DLQ worker.
LEMMA HoldWorker ==
    ASSUME DLQFed = FALSE, PlaceInv, NEW O \in SUBSET Orders, HoldInv(O),
           OrderWorker \/ AgeOut \/ DeadLetter \/ DLQWorker
    PROVE  HoldInv(O)'
<1>0. InventoryTypeOK /\ PlacementOwn
  BY DEF PlaceInv, RefundInv
<1>a. \A m \in Msg : m[1] \in Orders
  BY DEF Msg
<1> USE <1>0, <1>a
    DEF HoldInv, PlacementOwn, placeVars, streamVars, rowVars, workerVars, dlqVars,
        placementVars
<1>1. CASE NextMsg
  BY <1>1 DEF NextMsg, inventoryVars
<1>2. CASE InsertOrder
  <2>1. wpc # "idle" /\ wmsg[1] \in Orders /\ place[wmsg[1]] = "accepted"
    BY <1>2 DEF InsertOrder
  <2>2. row' = row \/ (row[wmsg[1]] = "none"
                       /\ row' = [row EXCEPT ![wmsg[1]] = "PENDING_PAYMENT"])
    BY <1>2 DEF InsertOrder, Inserts
  <2>3. wpc' = "idle" \/ UNCHANGED wmsg
    BY <1>2 DEF InsertOrder, EndHandleOrder
  <2>4. UNCHANGED <<dlq, stream, place, refunds>>
    BY <1>2 DEF InsertOrder, inventoryVars
  <2>5. QED
    BY <2>1, <2>2, <2>3, <2>4
<1>3. CASE FlipPublished
  BY <1>3 DEF FlipPublished, EndHandleOrder, MarkPublished, history
<1>4. CASE ArmTimeout
  BY <1>4 DEF ArmTimeout, inventoryVars
<1>5. CASE AckOrder
  BY <1>5 DEF AckOrder, EndHandleOrder, inventoryVars
<1>6. CASE AgeOut \/ DeadLetter
  BY <1>6 DEF AgeOut, DeadLetter, inventoryVars
<1>7. CASE HandleDLQMsg
  BY <1>7 DEF HandleDLQMsg
<1>8. CASE DLQClear
  BY <1>8 DEF DLQClear, ClearLatch, history
<1>9. CASE AckDLQ
  BY <1>9 DEF AckDLQ, inventoryVars
<1>10. QED
  BY <1>1, <1>2, <1>3, <1>4, <1>5, <1>6, <1>7, <1>8, <1>9 DEF OrderWorker, DLQWorker

\* A live order that is downstream of the stream holds the unit it took.
LEMMA HoldIsLive ==
    ASSUME PlaceInv, NEW O \in SUBSET Orders, HoldInv(O), NEW o \in O, row[o] = "PENDING_PAYMENT"
    PROVE  taken[o] # {} /\ refunds[o] = 0
<1>1. Marked(o) /\ place[o] = "accepted"
  BY DEF PlaceInv, PlacementContract, HoldInv
<1>2. taken[o] # {}
  BY <1>1 DEF PlaceInv, RefundInv, OrderInv, InventoryTypeOK, Marked
<1>3. ~(refunds[o] > 0) /\ refunds[o] \in Nat
  BY <1>1 DEF HoldInv, PlaceInv, RefundInv, InventoryTypeOK
<1>4. QED
  BY <1>2, <1>3

LEMMA HoldCrash ==
    ASSUME NEW O, HoldInv(O), WorkerCrash PROVE HoldInv(O)'
BY DEF WorkerCrash, HoldInv, EndHandleOrder, DropClears, history, placeVars, streamVars, rowVars

\* From checkout to row, whatever fails and whoever dies: a live order holds its
\* unit, if a publish that reports an error was not stored and nothing feeds the DLQ.
THEOREM PlacementNoOversell ==
    ASSUME "lost" \notin NatsFaults, DLQFed = FALSE
    PROVE  PlacementSpec => []LiveOrderHoldsUnit
<1>1. PlaceInv /\ HoldInv(Orders) /\ [PlacementNext]_allVars => HoldInv(Orders)'
  <2> SUFFICES ASSUME PlaceInv, HoldInv(Orders), [PlacementNext]_allVars PROVE HoldInv(Orders)'
    OBVIOUS
  <2>1. CASE PlacementNext
    BY <2>1, HoldPlace, HoldWorker, HoldCrash DEF PlacementNext, PlacementSteps
  <2>2. CASE UNCHANGED allVars
    BY <2>2 DEF allVars, inventoryVars, placementVars, HoldInv
  <2>3. QED
    BY <2>1, <2>2
<1>2. PlaceInv /\ HoldInv(Orders) => LiveOrderHoldsUnit
  BY HoldIsLive DEF LiveOrderHoldsUnit
<1>3. QED
  BY <1>1, <1>2, HoldInit, PlaceInvariant, PTL DEF PlacementSpec

=============================================================================
