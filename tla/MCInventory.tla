----------------------------- MODULE MCInventory -----------------------------
(***************************************************************************)
(* Small instances of module Inventory, and the ledger it implements.      *)
(***************************************************************************)
EXTENDS Inventory, FiniteSetsExt, TLC

CONSTANTS o1, o2, o3

\* Two buyers with home shard 0 and one with home shard 1, so that sweeps
\* collide and cross.
MCBuyer == (o1 :> "ann") @@ (o2 :> "bob") @@ (o3 :> "cyd")
MCHomeShard == ("ann" :> 0) @@ ("bob" :> 1) @@ ("cyd" :> 0)

\* SeedPartitionedStock splits any stock over any number of shards so that
\* the shares add up to it and differ by at most one (seeder.go:19-20).
ASSUME SeedSharesAddUp ==
    \A n \in 1..6, k \in 0..20 :
       MapThenSumSet(LAMBDA i : SeedShare(k, n, i), 0..(n - 1)) = k

-----------------------------------------------------------------------------
(* Refinement *)

TotalStock == MapThenSumSet(LAMBDA s : shard[s], Shard)
Debt == [o \in Orders |-> Cardinality(taken[o]) - refunds[o]]

Ledger == INSTANCE StockLedger WITH avail <- TotalStock, debt <- Debt

\* Whatever fails and however calls interleave, the sharded counters behave
\* as one pool that sells only what it has and takes back only what it sold:
\* an empty sweep, a lost reply, an expired hold or a refund to another shard
\* is a step of the ledger or no step at all.
LedgerSpec == Ledger!Spec

=============================================================================
