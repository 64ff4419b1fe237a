------------------------------- MODULE Seeding -------------------------------
(***************************************************************************)
(* The command "gateway seed-events" (cmd/gateway/seed.go), which puts the *)
(* stock of the next sale into Redis and clears the orders of the last     *)
(* one, run while buyers may already be there: runSeed, seedCatalog,       *)
(* SeedPartitionedStock of internal/inventory/seeder.go and ClearOrders of *)
(* internal/store/store.go, on top of module PaymentWindow: the workers    *)
(* keep running, and may still cancel and refund orders of the last sale.  *)
(*                                                                         *)
(* The command makes its calls one after the other and gives up at the     *)
(* first error; counters, latch and orders are three of them.  It looks at *)
(* nothing that is under way.                                              *)
(***************************************************************************)
EXTENDS PaymentWindow, Sequences

CONSTANTS
    SeedShards,   \* the -shards flag, NumShards unless given
    SeedFaults,   \* how a call of the command may fail: "err" or "lost"
    MaxSeeds,     \* bound: how often the command is run
    Quiet         \* does the operator wait until the last sale is over?

ASSUME SeedingAssumption ==
    /\ SeedShards \in Nat \ {0}
    /\ SeedFaults \subseteq {"err", "lost"}
    /\ MaxSeeds \in Nat
    /\ Quiet \in BOOLEAN

VARIABLES
    spc,      \* the call the command makes next, its first when it is not running
    seeds,    \* how often it was started
    opened,   \* did its last run end without an error?
    old       \* history: the orders begun before the counters were last set

seedVars == <<spc, seeds, opened, old>>

SeedingInit ==
    /\ Init
    /\ spc = 1 /\ seeds = 0 /\ opened = TRUE /\ old = {}

Begun == {o \in Orders : rpc[o] # "start"}

\* No Place call is under way, no event will be delivered any more, and no
\* reservation is left that a compensation could still refund (the TTL of the last
\* one has run out).  Unpaid rows and timeouts under way may be left.
SaleIsOver ==
    /\ \A o \in Begun : rpc[o] = "soldOut" \/ ~Placing(o)
    /\ \A m \in stream : Exhausted(m)
    /\ wpc = "idle"
    /\ \A o \in Orders : resv[o] # "RESERVED"

\* Mutant: the latch is deleted before the counters are set.
SeedUnlatchFirst == <<"unlatch", "counters", "orders">>

\* SET of the counters, DEL of the latch, TRUNCATE of the orders.  The upserts of
\* the catalogue that follow change nothing that is modelled.
SeedSteps == <<"counters", "unlatch", "orders">>

\* Mutant: the seed is added to what is left.
SeedValueAdds(s) == shard[s] + SeedShare(Stock, SeedShards, s)

\* What the MULTI leaves in shard s; shards beyond the flag are not written.
SeedValue(s) == IF s < SeedShards THEN SeedShare(Stock, SeedShards, s) ELSE shard[s]

\* Mutant: the orders of the last sale are kept.
KeepOrders == row

ClearOrders == [o \in Orders |-> "none"]

SeedEffect(step) ==
    /\ shard' = IF step = "counters" THEN [s \in Shard |-> SeedValue(s)] ELSE shard
    /\ old' = IF step = "counters" THEN Begun ELSE old
    /\ soldout' = (soldout /\ step # "unlatch")
    /\ row' = IF step = "orders" THEN ClearOrders ELSE row
    /\ age' = IF step = "orders" THEN [o \in Orders |-> "young"] ELSE age

\* One call of the command; the first one starts it.
SeedStep ==
    LET step == SeedSteps[spc]
        last == spc = Len(SeedSteps)
    IN  /\ spc = 1 => seeds < MaxSeeds /\ (Quiet => SaleIsOver)
        /\ seeds' = IF spc = 1 THEN seeds + 1 ELSE seeds
        /\ \E out \in {"ok"} \cup SeedFaults :
              /\ \/ Applied(out) /\ SeedEffect(step)
                 \/ ~Applied(out) /\ UNCHANGED <<shard, soldout, row, age, old>>
              /\ spc' = IF out = "ok" /\ ~last THEN spc + 1 ELSE 1
              /\ opened' = (out = "ok" /\ last)
        /\ UNCHANGED <<resv, callVars, history, placeVars, streamVars, createdAt,
                       workerVars, armed, dlqVars,
                       guard, tmsg, leader, ppc, pord, batch, notices>>

\* The payment window (15 min) is far longer than the command's few calls: what
\* was sold since it set the counters does not expire before it ends.
WindowOutlastsSeed == spc # 1 => \A o \in Orders \ old : age'[o] = age[o]

SeedingNext == (Next /\ WindowOutlastsSeed /\ UNCHANGED seedVars) \/ SeedStep

SeedingSpec == SeedingInit /\ [][SeedingNext]_<<vars, seedVars>>

-----------------------------------------------------------------------------
(* Properties *)

\* seeder.go: "so that sum(shards) == stock".  The new sale sells its own stock:
\* each counter is its share, less the orders of this sale that took a unit from it,
\* plus those that gave one back, whatever the last sale left behind.
ConservedSinceSeed ==
    \A s \in Shard :
       shard[s] + Cardinality(TakenFrom(s) \ old) =
       SeedShare(Stock, NumShards, s) + Cardinality(ReturnedTo(s) \ old)

\* seeder.go: "clear sellout latch on re-run".  When the command has ended without an
\* error, and until the first refund, the latch is not set while there is stock,
\* although buyers come while the command is still running.
SaleOpens ==
    /\ opened /\ soldout
    /\ \A o \in Orders \ old : refunds[o] = 0
    => \A s \in Shard : shard[s] = 0

\* No oversell from one sale to the next: after the command, there are never more
\* live orders than units of the new sale.
LiveWithinStock ==
    opened => Cardinality({o \in Orders : row[o] = "PENDING_PAYMENT"}) <= Stock

=============================================================================
