------------------------------ MODULE Inventory ------------------------------
(***************************************************************************)
(* The sharded stock counters of one SKU: internal/inventory/router.go,    *)
(* internal/inventory/seeder.go and the two Lua scripts behind them        *)
(* (reserve_stock.lua, release_stock.lua).                                 *)
(*                                                                         *)
(* Every step is one remote call, because anything may happen between two  *)
(* of them: a Reserve call checks the sold-out latch, probes the shards    *)
(* one at a time starting at the buyer's home shard, and only then sets    *)
(* the latch; a Compensate call runs the release script and only then      *)
(* deletes the latch.  A Lua script is atomic.                             *)
(*                                                                         *)
(* A call may fail in the ways RedisFaults lists:                          *)
(*   "err"   the command did not reach Redis and the caller gets an error; *)
(*   "lost"  the command was executed and the caller gets an error;        *)
(*   "open"  the circuit breaker refused the call.                         *)
(* Place makes its calls with the context of the HTTP request, which ends  *)
(* when the client goes away: from then on go-redis returns the context's  *)
(* error without sending the command.                                      *)
(* The callers' contract is part of the specification: an order is marked  *)
(* RESERVED once, by the Place call that won its unit, and it is marked    *)
(* PUBLISHED or compensated only after that.  Module Placement and module  *)
(* PaymentWindow implement that contract.                                  *)
(***************************************************************************)
EXTENDS Integers, FiniteSets

CONSTANTS
    Orders,       \* order ids: one Place call each (the id is fresh, genOrderID)
    Users,        \* buyers
    Buyer,        \* Buyer[o]: the user who places order o
    HomeShard,    \* HomeShard[u]: fnv32a(u) % shards, the same for every call
    NumShards,    \* ShardRouter.shards
    Stock,        \* units seeded for the SKU
    RedisFaults,  \* how a Redis call may fail, a subset of {"err","lost","open"}
    Leaves        \* may a client go away while its Place call runs?

Shard == 0..(NumShards - 1)

ASSUME InventoryAssumption ==
    /\ IsFiniteSet(Orders)
    /\ NumShards \in Nat \ {0}
    /\ Stock \in Nat
    /\ Buyer \in [Orders -> Users]
    /\ HomeShard \in [Users -> Shard]
    /\ RedisFaults \subseteq {"err", "lost", "open"}
    /\ Leaves \in BOOLEAN

NoShard == -1

ReservationState == {"NONE", "RESERVED", "PUBLISHED", "COMPENSATED"}

ReserveState ==
    {"start",     \* Reserve not called yet
     "probe",     \* sweeping the shards
     "latch",     \* every shard probed in vain, latch not set yet
     "soldOut",   \* Reserve returned an error: Place answers ErrSoldOut
     "won",       \* Reserve returned the key of a shard
     "marked"}    \* Place issued SET reservation:<id> RESERVED

VARIABLES
    shard,        \* inventory:<sku>:shard:<i>
    soldout,      \* does the key soldout:<sku> exist?
    resv,         \* reservation:<orderID>, "NONE" when the key is absent
    rpc,          \* where order o's Reserve call is
    offset,       \* the loop variable of its sweep
    invKey,       \* the shard it won
    clearing,     \* orders whose Compensate restored and has yet to DEL the latch
    left,         \* orders whose request context has ended
    taken,        \* history: the shards from which a unit was taken for o
    refundedTo,   \* history: the shard a unit was last returned to for o
    refunds       \* history: how many units were returned for o

redisVars == <<shard, soldout, resv>>
callVars  == <<rpc, offset, invKey, clearing, left>>
history   == <<taken, refundedTo, refunds>>
inventoryVars == <<shard, soldout, resv, rpc, offset, invKey, clearing, left,
                   taken, refundedTo, refunds>>

Outcome == {"ok"} \cup RedisFaults              \* a call through redisCB
DirectOutcome == Outcome \ {"open"}             \* a call on rdb itself
Applied(out) == out \in {"ok", "lost"}          \* did Redis execute it?

\* A call of o's Place: once its context has ended, it is refused or not sent.
Reply(o) == IF o \in left THEN {"err"} \cup (RedisFaults \cap {"open"}) ELSE Outcome
DirectReply(o) == Reply(o) \ {"open"}

Home(o) == HomeShard[Buyer[o]]

\* (home + offset) % shards, for home and offset below shards.
Sibling(h, k) == IF h + k < NumShards THEN h + k ELSE h + k - NumShards

-----------------------------------------------------------------------------
(* Seeding *)

\* SeedPartitionedStock: base units everywhere, one more on the first rem.
SeedShare(stock, shards, i) ==
    stock \div shards + (IF i < stock % shards THEN 1 ELSE 0)

InventoryInit ==
    /\ shard = [s \in Shard |-> SeedShare(Stock, NumShards, s)]
    /\ soldout = FALSE
    /\ resv = [o \in Orders |-> "NONE"]
    /\ rpc = [o \in Orders |-> "start"]
    /\ offset = [o \in Orders |-> 0]
    /\ invKey = [o \in Orders |-> NoShard]
    /\ clearing = {}
    /\ left = {}
    /\ taken = [o \in Orders |-> {}]
    /\ refundedTo = [o \in Orders |-> NoShard]
    /\ refunds = [o \in Orders |-> 0]

-----------------------------------------------------------------------------
(* Reserve *)

\* The client of o's checkout goes away.
ContextEnds(o) ==
    /\ Leaves
    /\ rpc[o] # "soldOut"
    /\ o \notin left
    /\ left' = left \cup {o}
    /\ UNCHANGED <<redisVars, rpc, offset, invKey, clearing, history>>

\* isSoldOut: an error counts as "not sold out".
CheckLatch(o) ==
    /\ rpc[o] = "start"
    /\ \E out \in Reply(o) :
          rpc' = [rpc EXCEPT ![o] =
                     IF out = "ok" /\ soldout THEN "soldOut" ELSE "probe"]
    /\ UNCHANGED <<shard, soldout, resv, offset, invKey, clearing, left, history>>

\* Mutant: the script's "remaining < 0" test is off by one, so an empty shard sells.
HasUnitOffByOne(s) == shard[s] >= 0

HasUnit(s) == shard[s] > 0

\* reserve_stock.lua on shard s, when it takes a unit.
ReserveScript(o, s) ==
    /\ HasUnit(s)
    /\ shard' = [shard EXCEPT ![s] = @ - 1]
    /\ taken' = [taken EXCEPT ![o] = @ \cup {s}]

\* Mutant: a sweep that forgets the last sibling.
MoreSiblingsShort(o) == offset[o] + 2 < NumShards

MoreSiblings(o) == offset[o] + 1 < NumShards

\* The next iteration of the sweep, or its end.
NextSibling(o) ==
    IF MoreSiblings(o)
    THEN /\ offset' = [offset EXCEPT ![o] = @ + 1]
         /\ rpc' = rpc
    ELSE /\ rpc' = [rpc EXCEPT ![o] = "latch"]
         /\ offset' = offset

\* Mutant: the home shard's key, whichever shard sold the unit.
KeyWonHome(o, s) == Home(o)

\* The key Reserve returns when shard s sold it a unit.
KeyWon(o, s) == s

ProbeShard(o) ==
    LET s == Sibling(Home(o), offset[o]) IN
    /\ rpc[o] = "probe"
    /\ \E out \in Reply(o) :
          \/ /\ out = "ok"                       \* the script took a unit
             /\ ReserveScript(o, s)
             /\ rpc' = [rpc EXCEPT ![o] = "won"]
             /\ invKey' = [invKey EXCEPT ![o] = KeyWon(o, s)]
             /\ UNCHANGED offset
          \/ /\ out = "lost"                     \* it did, but the sweep goes on
             /\ ReserveScript(o, s)
             /\ NextSibling(o)
             /\ UNCHANGED invKey
          \/ /\ \/ out = "err"
                \/ Applied(out) /\ ~HasUnit(s)
             /\ NextSibling(o)
             /\ UNCHANGED <<shard, invKey, taken>>
          \/ /\ out = "open"                     \* ErrCircuitOpen ends the sweep
             /\ rpc' = [rpc EXCEPT ![o] = "soldOut"]
             /\ UNCHANGED <<shard, offset, invKey, taken>>
    /\ UNCHANGED <<soldout, resv, clearing, left, refundedTo, refunds>>

\* latchSoldOut, then ErrSoldOut.
LatchSoldOut(o) ==
    /\ rpc[o] = "latch"
    /\ \E out \in Reply(o) : soldout' = (soldout \/ Applied(out))
    /\ rpc' = [rpc EXCEPT ![o] = "soldOut"]
    /\ UNCHANGED <<shard, resv, offset, invKey, clearing, left, history>>

-----------------------------------------------------------------------------
(* The reservation key *)

\* Place: SET reservation:<id> RESERVED with a TTL.  The caller goes on with
\* the outcome out.
MarkReserved(o, out) ==
    /\ rpc[o] = "won"
    /\ rpc' = [rpc EXCEPT ![o] = "marked"]
    /\ resv' = IF Applied(out) THEN [resv EXCEPT ![o] = "RESERVED"] ELSE resv
    /\ UNCHANGED <<shard, soldout, offset, invKey, clearing, left, history>>

\* handleOrder: SET reservation:<id> PUBLISHED without a TTL, whatever it holds.
MarkPublished(o, out) ==
    /\ rpc[o] = "marked"
    /\ resv' = IF Applied(out) THEN [resv EXCEPT ![o] = "PUBLISHED"] ELSE resv
    /\ UNCHANGED <<shard, soldout, callVars, history>>

\* The TTL of a RESERVED key runs out: the key goes, the unit does not come back.
ReservationExpires(o) ==
    /\ resv[o] = "RESERVED"
    /\ resv' = [resv EXCEPT ![o] = "NONE"]
    /\ UNCHANGED <<shard, soldout, callVars, history>>

-----------------------------------------------------------------------------
(* Compensate *)

\* Mutant: release_stock.lua without its state guard.
CompensableAlways(o) == resv[o] # "NONE"

Compensable(o) == resv[o] = "RESERVED"

\* release_stock.lua when it restores: RESERVED -> COMPENSATING -> INCR ->
\* COMPENSATED in one script, one unit whatever the order's quantity.
ReleaseScript(o, s) ==
    /\ Compensable(o)
    /\ resv' = [resv EXCEPT ![o] = "COMPENSATED"]
    /\ shard' = [shard EXCEPT ![s] = @ + 1]
    /\ refundedTo' = [refundedTo EXCEPT ![o] = s]
    /\ refunds' = [refunds EXCEPT ![o] = @ + 1]

\* The script call of Compensate(reservation:<o>, shard s).
Release(o, s, out) ==
    /\ rpc[o] = "marked"
    /\ \/ /\ Applied(out)
          /\ ReleaseScript(o, s)
          /\ clearing' = IF out = "ok" THEN clearing \cup {o} ELSE clearing
       \/ /\ Applied(out) => ~Compensable(o)
          /\ UNCHANGED <<shard, resv, clearing, refundedTo, refunds>>
    /\ UNCHANGED <<soldout, rpc, offset, invKey, left, taken>>

\* The DEL soldout:<sku> that follows a restoring script; its error is ignored.
ClearLatch(o, out) ==
    /\ o \in clearing
    /\ clearing' = clearing \ {o}
    /\ soldout' = (soldout /\ ~Applied(out))
    /\ UNCHANGED <<shard, resv, rpc, offset, invKey, left, history>>

\* A process dies with the DEL of these orders still to do.
DropClears(S) ==
    /\ clearing' = clearing \ S
    /\ UNCHANGED <<redisVars, rpc, offset, invKey, left, history>>

-----------------------------------------------------------------------------
InventoryNext ==
    \/ \E o \in Orders :
          \/ CheckLatch(o) \/ ProbeShard(o) \/ LatchSoldOut(o) \/ ContextEnds(o)
          \/ \E out \in DirectReply(o) : MarkReserved(o, out)
          \/ \E out \in DirectOutcome : MarkPublished(o, out)
          \/ ReservationExpires(o)
          \/ \E s \in Shard, out \in Outcome \cup Reply(o) : Release(o, s, out)
          \/ \E out \in DirectOutcome \cup DirectReply(o) : ClearLatch(o, out)
    \/ \E S \in SUBSET clearing : S # {} /\ DropClears(S)

InventorySpec == InventoryInit /\ [][InventoryNext]_inventoryVars

-----------------------------------------------------------------------------
(* Properties *)

InventoryTypeOK ==
    /\ shard \in [Shard -> Nat]
    /\ soldout \in BOOLEAN
    /\ resv \in [Orders -> ReservationState]
    /\ rpc \in [Orders -> ReserveState]
    /\ offset \in [Orders -> Shard]
    /\ invKey \in [Orders -> Shard \cup {NoShard}]
    /\ clearing \subseteq Orders
    /\ left \subseteq Orders
    /\ taken \in [Orders -> SUBSET Shard]
    /\ refundedTo \in [Orders -> Shard \cup {NoShard}]
    /\ refunds \in [Orders -> Nat]

TakenFrom(s) == {o \in Orders : s \in taken[o]}
ReturnedTo(s) == {o \in Orders : refundedTo[o] = s}

\* However Place, the order worker, the timeout processor and the DLQ
\* processor interleave and retry, release_stock.lua returns at most one unit
\* for an order.
RefundAtMostOnce == \A o \in Orders : refunds[o] <= 1

\* Each counter is what was seeded there, less the orders that took a unit
\* from it, plus the orders whose unit was returned to it: no INCR or DECR of
\* any caller goes missing or is applied twice.
ShardConserved ==
    \A s \in Shard :
       shard[s] + Cardinality(TakenFrom(s)) =
       SeedShare(Stock, NumShards, s) + Cardinality(ReturnedTo(s))

\* A unit is returned only for an order that took one: Place's compensation
\* after a failed SET, a late timeout or a DLQ message never mint stock.
RefundOnlyTaken == \A o \in Orders : refunds[o] > 0 => taken[o] # {}

\* Unless replies are lost, an order takes one unit and from the shard whose
\* key Reserve returned: a sweep that wins stops.
OneUnitPerOrder ==
    "lost" \notin RedisFaults =>
       \A o \in Orders :
          taken[o] = IF invKey[o] = NoShard THEN {} ELSE {invKey[o]}

\* Until the first refund, and if no Redis call fails, the latch is honest:
\* it is set, and a buyer who is still there is turned away, only when every
\* shard is empty, although the sweep reads the shards one by one while others
\* buy and others leave.
LatchHonestBeforeRefunds ==
    /\ RedisFaults = {}
    /\ \A o \in Orders : refunds[o] = 0
    /\ soldout \/ \E o \in Orders \ left : rpc[o] \in {"latch", "soldOut"}
    => \A s \in Shard : shard[s] = 0

\* router.go: "every shard empty -> latch gate".  With no call under way, a set
\* latch means that there is nothing left to sell.
LatchMeansEmpty ==
    /\ soldout
    /\ clearing = {}
    /\ \A o \in Orders : rpc[o] \notin {"probe", "latch"}
    => \A s \in Shard : shard[s] = 0

\* Once PUBLISHED, a reservation stays PUBLISHED: nobody re-arms compensation
\* for an order the worker has persisted.
PublishedIsFinal ==
    [][\A o \in Orders : resv[o] = "PUBLISHED" => resv'[o] = "PUBLISHED"]_resv

=============================================================================
