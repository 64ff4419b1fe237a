------------------------------ MODULE Placement ------------------------------
(***************************************************************************)
(* From a checkout to a persisted order: Service.Place in                  *)
(* internal/order/service.go, the orders.created stream, the order worker  *)
(* of cmd/worker/main.go with InsertOrder of internal/store/store.go, and  *)
(* the DLQ worker of internal/order/dlq.go, on top of module Inventory.    *)
(*                                                                         *)
(* Each order is one Place call, running in its own goroutine; there is    *)
(* one order-worker goroutine and one DLQ goroutine.  JetStream keeps a    *)
(* published event until it is acknowledged and delivers it, in any        *)
(* order, at most MaxDeliver times.  A publish may be stored although its  *)
(* acknowledgement is lost, and Place then publishes a second copy.        *)
(***************************************************************************)
EXTENDS Inventory

CONSTANTS
    Requested,        \* the qty of the checkout request, possibly absent (0)
    PublishAttempts,  \* 3 in publish
    MaxDeliver,       \* nats.MaxDeliver(5) in the worker
    NatsFaults,       \* how a publish may fail: "err" not stored, "lost" stored
                      \* but not acknowledged, "open" natsCB refused
    StoreFaults,      \* how a Postgres call may fail: "err" or "lost"
    Crashes,          \* which processes may die: "backend", "worker"
    DLQFed,           \* does anything publish on orders.dlq?
    Outage            \* may the worker be away for longer than the streams keep
                      \* a message (MaxAge, 24 hours)?

ASSUME PlacementAssumption ==
    /\ Requested \in [Orders -> Int]
    /\ PublishAttempts \in Nat \ {0}
    /\ MaxDeliver \in Nat \ {0}
    /\ NatsFaults \subseteq {"err", "lost", "open"}
    /\ StoreFaults \subseteq {"err", "lost"}
    /\ Crashes \subseteq {"backend", "worker"}
    /\ DLQFed \in BOOLEAN
    /\ Outage \in BOOLEAN

Msg == Orders \X (1..PublishAttempts)   \* the copies of an order's event
NoMsg == <<>>

PlaceState == {"reserve", "publish", "release", "clear",
               "accepted",    \* Place returned the order id
               "failed",      \* Place returned an error after winning a unit
               "crashed"}

\* The quantity in the event and in the row; the counters move by one unit.
Qty(o) == IF Requested[o] <= 0 THEN 1 ELSE Requested[o]

RowState == {"none", "PENDING_PAYMENT", "CANCELLED_TIMEOUT"}

VARIABLES
    place,       \* where order o's Place call is, once Reserve has returned
    attempts,    \* publish attempts made
    stream,      \* stored copies that are not acknowledged
    delivered,   \* how often each copy was delivered
    row,         \* openwar.orders.status
    createdAt,   \* openwar.orders.created_at: rank of the row
    wpc,         \* the order worker: idle, or the next call of handleOrder
    wmsg,        \* the copy it handles
    wnew,        \* did this handleOrder insert the row?
    armed,       \* schedules.timeout.<o>: "no", "onTime" or "late"
    dlq,         \* messages on orders.dlq
    dmsg,        \* the one the DLQ worker has compensated and not acknowledged
    dclear       \* the orders whose latch DEL the DLQ worker still has to do

placeVars  == <<place, attempts>>
streamVars == <<stream, delivered>>
rowVars    == <<row, createdAt>>
workerVars == <<wpc, wmsg, wnew>>
dlqVars    == <<dlq, dmsg, dclear>>
placementVars == <<place, attempts, stream, delivered, row, createdAt,
                   wpc, wmsg, wnew, armed, dlq, dmsg, dclear>>

PlacementInit ==
    /\ InventoryInit
    /\ place = [o \in Orders |-> "reserve"]
    /\ attempts = [o \in Orders |-> 0]
    /\ stream = {}
    /\ delivered = [m \in Msg |-> 0]
    /\ row = [o \in Orders |-> "none"]
    /\ createdAt = [o \in Orders |-> 0]
    /\ wpc = "idle"
    /\ wmsg = NoMsg
    /\ wnew = FALSE
    /\ armed = [o \in Orders |-> "no"]
    /\ dlq = {}
    /\ dmsg = NoMsg
    /\ dclear = {}

-----------------------------------------------------------------------------
(* Service.Place *)

\* Step 1: router.Reserve; any error of it ends Place with ErrSoldOut.
PlaceReserve(o) ==
    /\ place[o] = "reserve"
    /\ CheckLatch(o) \/ ProbeShard(o) \/ LatchSoldOut(o)
    /\ UNCHANGED placementVars

\* Step 2: SET reservation:<id> RESERVED; on an error, Compensate.
PlaceMark(o) ==
    /\ place[o] = "reserve"
    /\ \E out \in DirectReply(o) :
          /\ MarkReserved(o, out)
          /\ place' = [place EXCEPT ![o] = IF out = "ok" THEN "publish" ELSE "release"]
    /\ UNCHANGED <<attempts, streamVars, rowVars, workerVars, armed, dlqVars>>

\* Mutant: the last attempt counts as failed whatever its answer.
AfterAttemptHasty(o, out) ==
    IF attempts[o] + 1 = PublishAttempts THEN "release"
    ELSE IF out = "ok" THEN "accepted" ELSE "publish"

\* Mutant: Place returns its error and forgets to compensate.
AfterAttemptNoRefund(o, out) ==
    IF out = "ok" THEN "accepted"
    ELSE IF attempts[o] + 1 = PublishAttempts THEN "failed" ELSE "publish"

\* Where Place goes after an attempt that was made: after the last one, or when
\* the request's context has ended, there is no other.
AfterAttempt(o, out) ==
    IF out = "ok" THEN "accepted"
    ELSE IF attempts[o] + 1 = PublishAttempts \/ o \in left THEN "release"
    ELSE "publish"

\* Step 3: one attempt of publish, or the reason there is none.  js.Publish does
\* not look at the context; only the back-off between two attempts does.
PlacePublish(o) ==
    /\ place[o] = "publish"
    /\ \E out \in {"ok"} \cup NatsFaults :
          \/ /\ out \in {"ok", "lost", "err"}
             /\ attempts' = [attempts EXCEPT ![o] = @ + 1]
             /\ stream' = IF Applied(out) THEN stream \cup {<<o, attempts[o] + 1>>}
                                          ELSE stream
             /\ place' = [place EXCEPT ![o] = AfterAttempt(o, out)]
          \/ /\ out = "open" /\ attempts[o] = 0
             /\ place' = [place EXCEPT ![o] = "release"]
             /\ UNCHANGED <<attempts, stream>>
          \/ /\ o \in left /\ attempts[o] > 0     \* it ended during the back-off
             /\ place' = [place EXCEPT ![o] = "release"]
             /\ UNCHANGED <<attempts, stream>>
    /\ UNCHANGED <<inventoryVars, delivered, rowVars, workerVars, armed, dlqVars>>

\* Mutant: the refund goes to the buyer's home shard.
RefundKeyHome(o) == Home(o)

\* The very key that was won, in Place and in the event the DLQ worker gets.
RefundKey(o) == invKey[o]

\* Mutant: Place calls Compensate until it has restored the unit.
AfterReleaseInsists(o, out) == IF out = "ok" /\ Compensable(o) THEN "clear" ELSE "release"

AfterRelease(o, out) == IF out = "ok" /\ Compensable(o) THEN "clear" ELSE "failed"

\* Step 4: Compensate, then the error.  Compensate gets the request's context too:
\* when it has ended, the script is not sent and the unit stays taken.
PlaceRelease(o) ==
    /\ place[o] = "release"
    /\ \E out \in Reply(o) :
          /\ Release(o, RefundKey(o), out)
          /\ place' = [place EXCEPT ![o] = AfterRelease(o, out)]
    /\ UNCHANGED <<attempts, streamVars, rowVars, workerVars, armed, dlqVars>>

PlaceClear(o) ==
    /\ place[o] = "clear"
    /\ \E out \in DirectReply(o) : ClearLatch(o, out)
    /\ place' = [place EXCEPT ![o] = "failed"]
    /\ UNCHANGED <<attempts, streamVars, rowVars, workerVars, armed, dlqVars>>

Placing(o) == place[o] \in {"reserve", "publish", "release", "clear"}

\* The client goes away while Place runs.
ClientLeaves(o) ==
    /\ Placing(o)
    /\ ContextEnds(o)
    /\ UNCHANGED placementVars

\* The backend process dies inside a Place call that has already probed.
BackendCrash(o) ==
    /\ "backend" \in Crashes
    /\ Placing(o)
    /\ rpc[o] \notin {"start", "soldOut"}
    /\ place' = [place EXCEPT ![o] = "crashed"]
    /\ DropClears(IF place[o] = "clear" THEN {o} ELSE {})
    /\ UNCHANGED <<attempts, streamVars, rowVars, workerVars, armed, dlqVars>>

\* The reservation TTL (25 min) is far longer than a Place call lasts.
HoldExpires(o) ==
    /\ place[o] \in {"accepted", "failed", "crashed"}
    /\ ReservationExpires(o)
    /\ UNCHANGED placementVars

-----------------------------------------------------------------------------
(* The order worker: NextMsg, handleOrder, Ack or Nak *)

\* The iteration ends: the message is Nak'ed or Ack'ed.
EndHandleOrder == wpc' = "idle" /\ wmsg' = NoMsg /\ wnew' = FALSE

\* Mutant: one delivery too many.
DeliverableOnceMore(m) == delivered[m] <= MaxDeliver

Deliverable(m) == delivered[m] < MaxDeliver

NextMsg ==
    /\ wpc = "idle"
    /\ \E m \in stream :
          /\ Deliverable(m)
          /\ delivered' = [delivered EXCEPT ![m] = @ + 1]
          /\ wmsg' = m
    /\ wpc' = "insert"
    /\ UNCHANGED <<inventoryVars, placeVars, stream, rowVars, wnew, armed, dlqVars>>

\* UNIQUE (user_id, event_id): one order per buyer, cancelled ones included.
BuyerHasOtherRow(o) ==
    \E q \in Orders \ {o} : Buyer[q] = Buyer[o] /\ row[q] # "none"

\* Mutant: ON CONFLICT (order_id) DO UPDATE SET status.
InsertsOrUpdates(o) == ~BuyerHasOtherRow(o)

\* Does the INSERT write a row?
Inserts(o) == row[o] = "none" /\ ~BuyerHasOtherRow(o)

\* InsertOrder: ON CONFLICT (order_id) DO NOTHING, which handleOrder treats as
\* a redelivery; a unique violation and a Postgres error are Nak'ed.
InsertOrder ==
    LET o == wmsg[1]
        fresh == Inserts(o)
    IN  /\ wpc = "insert"
        /\ \E out \in {"ok"} \cup StoreFaults :
              /\ row' = IF fresh /\ Applied(out)
                        THEN [row EXCEPT ![o] = "PENDING_PAYMENT"] ELSE row
              /\ createdAt' = IF fresh /\ Applied(out)
                              THEN [createdAt EXCEPT ![o] =
                                      Cardinality({q \in Orders : row[q] # "none"})]
                              ELSE createdAt
              /\ IF out = "ok" /\ (fresh \/ row[o] # "none")
                 THEN wpc' = "publish" /\ wnew' = fresh /\ UNCHANGED wmsg
                 ELSE EndHandleOrder
        /\ UNCHANGED <<inventoryVars, placeVars, streamVars, armed, dlqVars>>

\* Mutant: the worker renews the hold instead of disarming it.
FlipPublishedRenews ==
    /\ wpc = "publish"
    /\ resv' = [resv EXCEPT ![wmsg[1]] = "RESERVED"]
    /\ wpc' = "arm"
    /\ UNCHANGED <<shard, soldout, callVars, history, placeVars, streamVars, rowVars,
                   wmsg, wnew, armed, dlqVars>>

FlipPublished ==
    /\ wpc = "publish"
    /\ \E out \in DirectOutcome :
          /\ MarkPublished(wmsg[1], out)
          /\ IF out = "ok" THEN wpc' = "arm" /\ UNCHANGED <<wmsg, wnew>>
                           ELSE EndHandleOrder
    /\ UNCHANGED <<placeVars, streamVars, rowVars, armed, dlqVars>>

\* ArmTimeout, its retries folded into one outcome because a second schedule
\* on the same subject replaces the first; a failure is only logged.  A
\* redelivery computes a later deadline than the one in the row.
ArmTimeout ==
    /\ wpc = "arm"
    /\ \E out \in {"ok"} \cup NatsFaults :
          armed' = IF Applied(out)
                   THEN [armed EXCEPT ![wmsg[1]] = IF wnew THEN "onTime" ELSE "late"]
                   ELSE armed
    /\ wpc' = "ack"
    /\ UNCHANGED <<inventoryVars, placeVars, streamVars, rowVars, wmsg, wnew, dlqVars>>

\* Mutant: the worker acknowledges the message of a failed handleOrder too.
AckableAnyway == wpc \in {"insert", "ack"}

Ackable == wpc = "ack"

AckOrder ==
    /\ Ackable
    /\ \E out \in {"ok"} \cup (NatsFaults \cap {"err"}) :
          stream' = IF out = "ok" THEN stream \ {wmsg} ELSE stream
    /\ EndHandleOrder
    /\ UNCHANGED <<inventoryVars, placeVars, delivered, rowVars, armed, dlqVars>>

OrderWorker == NextMsg \/ InsertOrder \/ FlipPublished \/ ArmTimeout \/ AckOrder

-----------------------------------------------------------------------------
(* The DLQ worker *)

Exhausted(m) == m \in stream /\ delivered[m] = MaxDeliver

\* MaxAge of the ORDERS stream: a message that will not be delivered any more, or
\* that nobody came for in time, is dropped.
AgeOut ==
    /\ \E m \in stream :
          /\ Exhausted(m) \/ Outage
          /\ wmsg # m
          /\ stream' = stream \ {m}
    /\ UNCHANGED <<inventoryVars, placeVars, delivered, rowVars, workerVars, armed, dlqVars>>

\* Nothing in the repository publishes on orders.dlq; DLQFed stands for an
\* operator or a server rule that copies exhausted messages there.
DeadLetter ==
    /\ DLQFed
    /\ \E m \in stream :
          /\ Exhausted(m)
          /\ wmsg # m
          /\ m \notin dlq
          /\ dlq' = dlq \cup {m}
          /\ stream' = stream \ {m}
    /\ UNCHANGED <<inventoryVars, placeVars, delivered, rowVars, workerVars, armed,
                   dmsg, dclear>>

\* HandleDLQMsg: Compensate with the event's ShardKey.
HandleDLQMsg ==
    /\ dmsg = NoMsg
    /\ \E m \in dlq, out \in Outcome :
          /\ Release(m[1], RefundKey(m[1]), out)
          /\ dmsg' = m
          /\ dclear' = IF out = "ok" /\ Compensable(m[1]) THEN {m[1]} ELSE {}
    /\ UNCHANGED <<placeVars, streamVars, rowVars, workerVars, armed, dlq>>

DLQClear ==
    /\ \E o \in dclear, out \in DirectOutcome : ClearLatch(o, out)
    /\ dclear' = {}
    /\ UNCHANGED <<placeVars, streamVars, rowVars, workerVars, armed, dlq, dmsg>>

\* The message is acknowledged whatever HandleDLQMsg returned.
AckDLQ ==
    /\ dmsg # NoMsg
    /\ dclear = {}
    /\ \E out \in {"ok"} \cup (NatsFaults \cap {"err"}) :
          dlq' = IF out = "ok" THEN dlq \ {dmsg} ELSE dlq
    /\ dmsg' = NoMsg
    /\ UNCHANGED <<inventoryVars, placeVars, streamVars, rowVars, workerVars, armed, dclear>>

DLQWorker == HandleDLQMsg \/ DLQClear \/ AckDLQ

\* The worker process dies: every goroutine of it forgets what it was doing;
\* an unacknowledged copy stays in the stream.
WorkerCrash ==
    /\ "worker" \in Crashes
    /\ wpc # "idle" \/ dmsg # NoMsg
    /\ EndHandleOrder
    /\ dmsg' = NoMsg
    /\ dclear' = {}
    /\ DropClears(dclear)
    /\ UNCHANGED <<placeVars, streamVars, rowVars, armed, dlq>>

-----------------------------------------------------------------------------
PlaceStep(o) ==
    PlaceReserve(o) \/ PlaceMark(o) \/ PlacePublish(o) \/ PlaceRelease(o) \/ PlaceClear(o)

PlacementSteps ==
    \/ \E o \in Orders : PlaceStep(o) \/ ClientLeaves(o) \/ BackendCrash(o) \/ HoldExpires(o)
    \/ OrderWorker \/ AgeOut \/ DeadLetter \/ DLQWorker

PlacementNext == PlacementSteps \/ WorkerCrash

allVars == <<inventoryVars, placementVars>>

PlacementSpec == PlacementInit /\ [][PlacementNext]_allVars

\* Goroutines run: a Place call and the workers take their next step.  Nothing
\* is assumed of crashes, faults or the DLQ feed.
PlacementFairness ==
    /\ \A o \in Orders : WF_allVars(PlaceStep(o))
    /\ WF_allVars(OrderWorker)
    /\ WF_allVars(DLQWorker)

PlacementFairSpec == PlacementSpec /\ PlacementFairness

-----------------------------------------------------------------------------
(* Properties *)

PlacementTypeOK ==
    /\ InventoryTypeOK
    /\ place \in [Orders -> PlaceState]
    /\ attempts \in [Orders -> 0..PublishAttempts]
    /\ stream \subseteq Msg
    /\ delivered \in [Msg -> 0..MaxDeliver]
    /\ row \in [Orders -> RowState]
    /\ createdAt \in [Orders -> Nat]
    /\ wpc \in {"idle", "insert", "publish", "arm", "ack"}
    /\ wmsg \in Msg \cup {NoMsg}
    /\ wpc # "idle" => wmsg \in Msg
    /\ wnew \in BOOLEAN
    /\ armed \in [Orders -> {"no", "onTime", "late"}]
    /\ dlq \subseteq Msg
    /\ dmsg \in Msg \cup {NoMsg}
    /\ dclear \subseteq Orders

UsedUp(o) == \E m \in Msg : m[1] = o /\ delivered[m] = MaxDeliver

\* An order whose id was returned to the buyer is not lost: until its row exists,
\* whatever the worker does, fails at or dies in, its event stays in the stream for
\* as long as it has deliveries left.
AcceptedIsDurable ==
    \A o \in Orders :
       place[o] = "accepted" =>
          row[o] # "none" \/ UsedUp(o) \/ \E m \in stream : m[1] = o

\* A live order holds the unit it took: no Compensate gave it back.  It is
\* what "no oversell" means for one order.
LiveOrderHoldsUnit ==
    \A o \in Orders :
       row[o] = "PENDING_PAYMENT" => taken[o] # {} /\ refunds[o] = 0

\* Place and the DLQ worker return a unit to the shard it was taken from.
RefundToOrigin ==
    \A o \in Orders : refunds[o] > 0 => refundedTo[o] = invKey[o]

\* service.go: "On publish failure the stock is restored".  With a healthy Redis,
\* a Place call that fails after winning a unit has restored it, or the order is
\* live because a publish that looked failed was stored and the worker got to it
\* first.  The one exception is a client that left before Compensate was called:
\* its call is then not sent, and the unit of that order stays taken.
FailedPlaceRestores ==
    RedisFaults = {} =>
       \A o \in Orders :
          place[o] = "failed" =>
             \/ refunds[o] = 1
             \/ row[o] # "none"
             \/ o \in left

\* service.go: "On publish failure the stock is restored exactly once", without that
\* exception.  It fails: Compensate is called with the context of the request.
FailedPlaceAlwaysRestores ==
    RedisFaults = {} =>
       \A o \in Orders : place[o] = "failed" => refunds[o] = 1 \/ row[o] # "none"

\* README: when the worker cannot persist an event in MaxDeliver deliveries, the
\* message lands on ORDERS_DLQ and the same compensation restores its unit.
ExhaustedIsCompensated ==
    \A o \in Orders :
       (place[o] = "accepted" /\ row[o] = "none" /\ Exhausted(<<o, attempts[o]>>))
          ~> (refunds[o] = 1)

\* store.go: ErrRowExists covers an insert that "collides with an existing order
\* ... or the (user_id, event_id) net", and handleOrder acknowledges it.  So while
\* nothing fails, no message uses up its deliveries.
CollisionIsAcked ==
    /\ RedisFaults = {} /\ NatsFaults = {} /\ StoreFaults = {} /\ Crashes = {}
    => \A m \in stream : Exhausted(m) => wmsg = m

\* Every Place call returns.
PlaceReturns ==
    \A o \in Orders :
       <>(rpc[o] = "soldOut" \/ place[o] \in {"accepted", "failed", "crashed"})

\* An accepted order is persisted, or one of its copies used up its deliveries.
AcceptedIsPersisted ==
    \A o \in Orders :
       place[o] = "accepted" ~>
          row[o] # "none" \/ UsedUp(o)

=============================================================================
