---------------------------- MODULE PaymentWindow ----------------------------
(***************************************************************************)
(* The payment window of a persisted order: ProcessTimeout of              *)
(* internal/order/timeout.go, run by the orders.timeout consumer of        *)
(* cmd/worker/main.go and by the reconciler of                             *)
(* internal/order/reconciler.go, with CancelOrderTimeout and               *)
(* FetchExpiredOrders of internal/store/store.go, on top of module         *)
(* Placement.  It is the whole order path of the system.                   *)
(*                                                                         *)
(* Time is the age of a row: ArmTimeout rounds the deadline down to a      *)
(* second, so its schedule may fire ("due") before expires_at is reached   *)
(* ("expired").                                                            *)
(***************************************************************************)
EXTENDS Placement

CONSTANTS
    Reconcilers,   \* the reconciler goroutines, one per worker process
    BatchLimit     \* FetchExpiredOrders(ctx, 100)

ASSUME PaymentWindowAssumption ==
    /\ "timeout" \notin Reconcilers
    /\ BatchLimit \in Nat \ {0}

Procs == {"timeout"} \cup Reconcilers

NoOrder == "none"
ASSUME NoOrderAssumption == NoOrder \notin Orders

VARIABLES
    age,       \* "young", "due" (scheduled second reached), "expired"
    guard,     \* does cancel:<orderID> exist?
    tmsg,      \* deliveries left of the message on orders.timeout
    leader,    \* does reconciler:leader exist?
    ppc,       \* the next call of processor p
    pord,      \* the order it processes
    batch,     \* the rest of a reconciler's fetched orders
    notices    \* history: orders.cancelled events published for o

windowVars == <<age, guard, tmsg, leader, ppc, pord, batch, notices>>
vars == <<inventoryVars, placementVars, windowVars>>

Init ==
    /\ PlacementInit
    /\ age = [o \in Orders |-> "young"]
    /\ guard = [o \in Orders |-> FALSE]
    /\ tmsg = [o \in Orders |-> 0]
    /\ leader = FALSE
    /\ ppc = [p \in Procs |-> "idle"]
    /\ pord = [p \in Procs |-> NoOrder]
    /\ batch = [r \in Reconcilers |-> {}]
    /\ notices = [o \in Orders |-> 0]

-----------------------------------------------------------------------------
(* Time *)

Tick(o) ==
    /\ row[o] # "none"
    /\ \/ age[o] = "young" /\ age' = [age EXCEPT ![o] = "due"]
       \/ age[o] = "due" /\ age' = [age EXCEPT ![o] = "expired"]
    /\ UNCHANGED <<inventoryVars, placementVars, guard, tmsg, leader, ppc, pord, batch, notices>>

\* The JetStream schedule fires: its message goes to orders.timeout, whether the
\* row is still there or not.
Fire(o) ==
    /\ \/ armed[o] = "onTime" /\ (age[o] # "young" \/ row[o] = "none")
       \/ armed[o] = "late" /\ (age[o] = "expired" \/ row[o] = "none")
    /\ tmsg[o] = 0 /\ pord["timeout"] # o   \* after the order's previous message
    /\ armed' = [armed EXCEPT ![o] = "no"]
    /\ tmsg' = [tmsg EXCEPT ![o] = MaxDeliver]
    /\ UNCHANGED <<inventoryVars, placeVars, streamVars, rowVars, workerVars, dlqVars,
                   age, guard, leader, ppc, pord, batch, notices>>

\* Mutant: a guard key without a TTL.
GuardStays(o) ==
    /\ guard[o]
    /\ UNCHANGED vars

\* The 24 h TTL of the guard key.
GuardExpires(o) ==
    /\ guard[o]
    /\ guard' = [guard EXCEPT ![o] = FALSE]
    /\ UNCHANGED <<inventoryVars, placementVars, age, tmsg, leader, ppc, pord, batch, notices>>

\* The leader lock is never released; its TTL is half the interval.
LeaderExpires ==
    /\ leader
    /\ leader' = FALSE
    /\ UNCHANGED <<inventoryVars, placementVars, age, guard, tmsg, ppc, pord, batch, notices>>

-----------------------------------------------------------------------------
(* ProcessTimeout, by processor p *)

\* The call returns.  The timeout consumer acknowledges the message unless the
\* call failed (the Ack itself may be lost); the reconciler takes its next order.
Return(p, failed) ==
    /\ ppc' = [ppc EXCEPT ![p] = "idle"]
    /\ pord' = [pord EXCEPT ![p] = NoOrder]
    /\ \/ /\ p = "timeout" /\ ~failed
          /\ tmsg' = [tmsg EXCEPT ![pord[p]] = 0]
       \/ /\ p = "timeout" => (failed \/ "err" \in NatsFaults)
          /\ UNCHANGED tmsg

Goto(p, label) ==
    /\ ppc' = [ppc EXCEPT ![p] = label]
    /\ UNCHANGED <<pord, tmsg>>

\* SETNX cancel:<orderID>; a set guard is ErrDuplicateTimeout, which is acked.
ClaimGuard(p) ==
    LET o == pord[p] IN
    /\ ppc[p] = "guard"
    /\ \E out \in DirectOutcome :
          /\ guard' = IF Applied(out) THEN [guard EXCEPT ![o] = TRUE] ELSE guard
          /\ CASE out # "ok"  -> Return(p, TRUE)
               [] guard[o]    -> Return(p, FALSE)
               [] OTHER       -> Goto(p, "get")
    /\ UNCHANGED <<inventoryVars, placementVars, age, leader, batch, notices>>

\* GetOrder: an absent row is nothing to time out.
ReadOrder(p) ==
    /\ ppc[p] = "get"
    /\ \E out \in {"ok"} \cup StoreFaults :
          CASE out # "ok"              -> Return(p, TRUE)
            [] row[pord[p]] = "none"   -> Return(p, FALSE)
            [] OTHER                   -> Goto(p, "cas")
    /\ UNCHANGED <<inventoryVars, placementVars, age, guard, leader, batch, notices>>

\* Mutant: the UPDATE matches a row whatever its status.
CancelMatchesAny(o) == age[o] = "expired"

\* The WHERE of the UPDATE.
CancelMatches(o) == row[o] = "PENDING_PAYMENT" /\ age[o] = "expired"

\* CancelOrderTimeout: one UPDATE that matches a pending and expired row.
CancelOrder(p) ==
    LET o == pord[p]
        hit == CancelMatches(o)
    IN  /\ ppc[p] = "cas"
        /\ \E out \in {"ok"} \cup StoreFaults :
              /\ row' = IF hit /\ Applied(out)
                        THEN [row EXCEPT ![o] = "CANCELLED_TIMEOUT"] ELSE row
              /\ \/ out # "ok" /\ Return(p, TRUE)
                 \/ out = "ok" /\ hit /\ Goto(p, "release")
                 \/ out = "ok" /\ ~hit /\ Return(p, FALSE)
        /\ UNCHANGED <<inventoryVars, placeVars, streamVars, createdAt, workerVars, armed,
                       dlqVars, age, guard, leader, batch, notices>>

\* Compensate on the buyer's home shard; its error is only logged.
TimeoutRelease(p) ==
    LET o == pord[p] IN
    /\ ppc[p] = "release"
    /\ \E out \in Outcome :
          /\ Release(o, Home(o), out)
          /\ Goto(p, IF out = "ok" /\ Compensable(o) THEN "clear" ELSE "notify")
    /\ UNCHANGED <<placementVars, age, guard, leader, batch, notices>>

TimeoutClear(p) ==
    /\ ppc[p] = "clear"
    /\ \E out \in DirectOutcome : ClearLatch(pord[p], out)
    /\ Goto(p, "notify")
    /\ UNCHANGED <<placementVars, age, guard, leader, batch, notices>>

\* orders.cancelled, its error ignored.
NotifyCancelled(p) ==
    /\ ppc[p] = "notify"
    /\ \E out \in {"ok"} \cup (NatsFaults \cap {"err", "lost"}) :
          notices' = IF Applied(out) THEN [notices EXCEPT ![pord[p]] = @ + 1] ELSE notices
    /\ Return(p, FALSE)
    /\ UNCHANGED <<inventoryVars, placementVars, age, guard, leader, batch>>

ProcessTimeout(p) ==
    ClaimGuard(p) \/ ReadOrder(p) \/ CancelOrder(p)
    \/ TimeoutRelease(p) \/ TimeoutClear(p) \/ NotifyCancelled(p)

-----------------------------------------------------------------------------
(* Its two callers *)

StartProcess(p, o) ==
    /\ ppc' = [ppc EXCEPT ![p] = "guard"]
    /\ pord' = [pord EXCEPT ![p] = o]

\* Mutant: one delivery too many.
TimeoutDeliverableOnceMore(o) == tmsg[o] >= 0

TimeoutDeliverable(o) == tmsg[o] > 0

TimeoutNextMsg ==
    /\ ppc["timeout"] = "idle"
    /\ \E o \in Orders :
          /\ TimeoutDeliverable(o)
          /\ tmsg' = [tmsg EXCEPT ![o] = @ - 1]
          /\ StartProcess("timeout", o)
    /\ UNCHANGED <<inventoryVars, placementVars, age, guard, leader, batch, notices>>

\* tickOnce: SETNX reconciler:leader.  Not the leader, or an error: nothing.
TakeLead(r) ==
    /\ ppc[r] = "idle" /\ batch[r] = {}
    /\ ~leader
    /\ leader' = TRUE
    /\ \E out \in DirectOutcome \ {"err"} :
          ppc' = [ppc EXCEPT ![r] = IF out = "ok" THEN "fetch" ELSE "idle"]
    /\ UNCHANGED <<inventoryVars, placementVars, age, guard, tmsg, pord, batch, notices>>

ExpiredOrders == {o \in Orders : row[o] = "PENDING_PAYMENT" /\ age[o] = "expired"}

Older(o) == {q \in ExpiredOrders : createdAt[q] < createdAt[o]}

\* FetchExpiredOrders: the BatchLimit oldest expired orders, or an error.
FetchExpired(r) ==
    /\ ppc[r] = "fetch"
    /\ ppc' = [ppc EXCEPT ![r] = "idle"]
    /\ \E out \in {"ok"} \cup StoreFaults :
          batch' = [batch EXCEPT ![r] =
             IF out = "ok"
             THEN {o \in ExpiredOrders : Cardinality(Older(o)) < BatchLimit}
             ELSE {}]
    /\ UNCHANGED <<inventoryVars, placementVars, age, guard, tmsg, leader, pord, notices>>

\* The next order of the scan, oldest first; errors do not stop it.
ReconcileNext(r) ==
    /\ ppc[r] = "idle"
    /\ \E o \in batch[r] :
          /\ \A q \in batch[r] : createdAt[o] <= createdAt[q]
          /\ batch' = [batch EXCEPT ![r] = @ \ {o}]
          /\ StartProcess(r, o)
    /\ UNCHANGED <<inventoryVars, placementVars, age, guard, tmsg, leader, notices>>

Reconcile(r) == TakeLead(r) \/ FetchExpired(r) \/ ReconcileNext(r)

\* A worker process dies with all its goroutines: one reconciler, and the
\* consumers if they were its own.
ProcessCrash ==
    /\ "worker" \in Crashes
    /\ \E dead \in SUBSET Procs :
          /\ \A q, r \in dead \cap Reconcilers : q = r
          /\ IF "timeout" \in dead
             THEN EndHandleOrder /\ dmsg' = NoMsg /\ dclear' = {}
             ELSE UNCHANGED <<workerVars, dmsg, dclear>>
          /\ ppc' = [p \in Procs |-> IF p \in dead THEN "idle" ELSE ppc[p]]
          /\ pord' = [p \in Procs |-> IF p \in dead THEN NoOrder ELSE pord[p]]
          /\ batch' = [r \in Reconcilers |-> IF r \in dead THEN {} ELSE batch[r]]
          /\ DropClears((IF "timeout" \in dead THEN dclear ELSE {})
                        \cup {pord[p] : p \in {q \in dead : ppc[q] = "clear"}})
    /\ UNCHANGED <<placeVars, streamVars, rowVars, armed, dlq,
                   age, guard, tmsg, leader, notices>>

-----------------------------------------------------------------------------
Next ==
    \/ PlacementSteps /\ UNCHANGED windowVars
    \/ \E o \in Orders : Tick(o) \/ Fire(o) \/ GuardExpires(o)
    \/ LeaderExpires
    \/ \E p \in Procs : ProcessTimeout(p)
    \/ TimeoutNextMsg
    \/ \E r \in Reconcilers : Reconcile(r)
    \/ ProcessCrash

Spec == Init /\ [][Next]_vars

\* Goroutines run, time passes, keys with a TTL expire and the JetStream
\* schedule fires.  Nothing is assumed of faults and crashes.
Fairness ==
    /\ \A o \in Orders : WF_vars(PlaceStep(o) /\ UNCHANGED windowVars)
    /\ WF_vars(OrderWorker /\ UNCHANGED windowVars)
    /\ \A o \in Orders : WF_vars(Tick(o)) /\ WF_vars(Fire(o)) /\ WF_vars(GuardExpires(o))
    /\ WF_vars(LeaderExpires)
    /\ \A p \in Procs : WF_vars(ProcessTimeout(p))
    /\ WF_vars(TimeoutNextMsg)
    /\ \A r \in Reconcilers : WF_vars(Reconcile(r))

FairSpec == Spec /\ Fairness

-----------------------------------------------------------------------------
(* Properties *)

TypeOK ==
    /\ PlacementTypeOK
    /\ age \in [Orders -> {"young", "due", "expired"}]
    /\ guard \in [Orders -> BOOLEAN]
    /\ tmsg \in [Orders -> 0..MaxDeliver]
    /\ leader \in BOOLEAN
    /\ ppc \in [Procs -> {"idle", "fetch", "guard", "get", "cas",
                          "release", "clear", "notify"}]
    /\ pord \in [Procs -> Orders \cup {NoOrder}]
    /\ \A p \in Procs : ppc[p] \notin {"idle", "fetch"} => pord[p] \in Orders
    /\ batch \in [Reconcilers -> SUBSET Orders]
    /\ notices \in [Orders -> Nat]

\* The buyer is told of a cancellation at most once, although the message path
\* and the reconciler overlap, messages are redelivered and the guard key
\* expires: only the winner of the CAS goes on to publish orders.cancelled.
CancelledOnce == \A o \in Orders : notices[o] <= 1

\* A cancelled order stays cancelled: the redelivery of its orders.created
\* event does not bring its row back to PENDING_PAYMENT.
CancelIsFinal ==
    [][\A o \in Orders :
          row[o] = "CANCELLED_TIMEOUT" => row'[o] = "CANCELLED_TIMEOUT"]_row

\* An unpaid order is cancelled in the end, even when its schedule was lost or
\* fired a moment before expires_at.
UnpaidIsCancelled ==
    \A o \in Orders : row[o] = "PENDING_PAYMENT" ~> row[o] = "CANCELLED_TIMEOUT"

InFlight(o) == \E p \in Procs : pord[p] = o

\* README: the timeout consumer cancels the order, then "restock:
\* release_stock.lua (RESERVED->INCR->COMPENSATED)".
CancelledIsRestocked ==
    \A o \in Orders :
       row[o] = "CANCELLED_TIMEOUT" /\ ~InFlight(o) => refunds[o] = 1

\* README: what a sweep could not cancel is "retried next sweep", so a guard
\* alone never keeps an expired order from being cancelled.
GuardNeverBlocks ==
    \A o \in ExpiredOrders : guard[o] => InFlight(o)

=============================================================================
