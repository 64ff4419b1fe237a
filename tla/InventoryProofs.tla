--------------------------- MODULE InventoryProofs ---------------------------
(***************************************************************************)
(* Proofs about module Inventory, for any finite set of orders, any number *)
(* of shards, any stock and any kind of Redis failure.                     *)
(***************************************************************************)
EXTENDS Inventory, FiniteSetTheorems, WellFoundedInduction, TLAPS

USE DEF NoShard, Outcome, DirectOutcome, DirectReply, ReserveState, ReservationState

-----------------------------------------------------------------------------
(* Lemmas about the operators *)

\* The share a shard is seeded with is a number of units.
LEMMA SeedShareNat ==
    ASSUME NEW s \in Shard PROVE SeedShare(Stock, NumShards, s) \in Nat
<1>1. Stock \div NumShards \in Nat
  BY InventoryAssumption
<1>2. QED
  BY <1>1, InventoryAssumption DEF SeedShare, Shard

\* A buyer's home shard, and every sibling the sweep probes, exist.
LEMMA SiblingInShard ==
    ASSUME NEW h \in Shard, NEW k \in Shard PROVE Sibling(h, k) \in Shard
BY InventoryAssumption DEF Sibling, Shard

LEMMA HomeInShard ==
    ASSUME NEW o \in Orders PROVE Home(o) \in Shard
BY InventoryAssumption DEF Home

\* A sweep probes a different shard at every offset.
LEMMA SiblingInjective ==
    ASSUME NEW h \in Shard, NEW j \in Shard, NEW k \in Shard, j # k
    PROVE  Sibling(h, j) # Sibling(h, k)
BY InventoryAssumption DEF Sibling, Shard

\* A whole sweep reaches every shard.
LEMMA SiblingOnto ==
    ASSUME NEW h \in Shard, NEW s \in Shard
    PROVE  \E k \in Shard : Sibling(h, k) = s
<1>1. CASE s >= h
  <2>1. s - h \in Shard /\ Sibling(h, s - h) = s
    BY <1>1, InventoryAssumption DEF Sibling, Shard
  <2>2. QED
    BY <2>1
<1>2. CASE s < h
  <2>1. s - h + NumShards \in Shard /\ Sibling(h, s - h + NumShards) = s
    BY <1>2, InventoryAssumption DEF Sibling, Shard
  <2>2. QED
    BY <2>1
<1>3. QED
  BY <1>1, <1>2, InventoryAssumption DEF Shard

\* Counting one more order.
LEMMA OneMore ==
    ASSUME NEW S \in SUBSET Orders, NEW o \in Orders, o \notin S
    PROVE  /\ Cardinality(S) \in Nat
           /\ Cardinality(S \cup {o}) = Cardinality(S) + 1
<1>1. IsFiniteSet(S)
  BY FS_Subset, InventoryAssumption
<1>2. QED
  BY <1>1, FS_CardinalityType, FS_AddElement

LEMMA CountNat ==
    ASSUME NEW S \in SUBSET Orders PROVE Cardinality(S) \in Nat
BY FS_Subset, FS_CardinalityType, InventoryAssumption

\* Counting two sets of orders together.
LEMMA CountUnion ==
    ASSUME NEW S \in SUBSET Orders, NEW T \in SUBSET Orders
    PROVE  /\ Cardinality(S \cup T) <= Cardinality(S) + Cardinality(T)
           /\ S \cap T = {} => Cardinality(S \cup T) = Cardinality(S) + Cardinality(T)
<1>1. IsFiniteSet(S) /\ IsFiniteSet(T)
  BY FS_Subset, InventoryAssumption
<1>2. Cardinality(S) \in Nat /\ Cardinality(T) \in Nat /\ Cardinality(S \cap T) \in Nat
  BY CountNat
<1>3. Cardinality(S \cup T) = Cardinality(S) + Cardinality(T) - Cardinality(S \cap T)
  BY <1>1, FS_Union
<1>4. S \cap T = {} => Cardinality(S \cap T) = 0
  BY FS_EmptySet
<1>5. QED
  BY <1>2, <1>3, <1>4

-----------------------------------------------------------------------------
(* Types *)

LEMMA InventoryTypeInit == InventoryInit => InventoryTypeOK
<1> SUFFICES ASSUME InventoryInit PROVE InventoryTypeOK
  OBVIOUS
<1>1. shard \in [Shard -> Nat]
  BY SeedShareNat DEF InventoryInit
<1>2. 0 \in Shard
  BY InventoryAssumption DEF Shard
<1>3. QED
  BY <1>1, <1>2 DEF InventoryInit, InventoryTypeOK

LEMMA InventoryTypeStep ==
    InventoryTypeOK /\ [InventoryNext]_inventoryVars => InventoryTypeOK'
<1> SUFFICES ASSUME InventoryTypeOK, [InventoryNext]_inventoryVars
             PROVE  InventoryTypeOK'
  OBVIOUS
<1> USE InventoryAssumption DEF InventoryTypeOK, history
<1>1. ASSUME NEW o \in Orders, CheckLatch(o) PROVE InventoryTypeOK'
  BY <1>1 DEF CheckLatch
<1>2. ASSUME NEW o \in Orders, ProbeShard(o) PROVE InventoryTypeOK'
  <2> DEFINE s == Sibling(Home(o), offset[o])
  <2>1. s \in Shard
    BY HomeInShard, SiblingInShard
  <2>2. NextSibling(o) => offset' \in [Orders -> Shard] /\ rpc' \in [Orders -> ReserveState]
    <3>1. offset[o] + 1 < NumShards => offset[o] + 1 \in Shard
      <4>1. offset[o] \in Shard
        OBVIOUS
      <4>2. QED
        BY <4>1 DEF Shard
    <3>2. QED
      BY <3>1 DEF NextSibling, MoreSiblings
  <2>3. ReserveScript(o, s) => shard' \in [Shard -> Nat] /\ taken' \in [Orders -> SUBSET Shard]
    BY <2>1 DEF ReserveScript, HasUnit
  <2> HIDE DEF s
  <2>4. QED
    BY <1>2, <2>1, <2>2, <2>3 DEF ProbeShard, s, HasUnit, KeyWon
<1>3. ASSUME NEW o \in Orders, LatchSoldOut(o) PROVE InventoryTypeOK'
  BY <1>3 DEF LatchSoldOut
<1>4. ASSUME NEW o \in Orders, NEW out, MarkReserved(o, out)
      PROVE InventoryTypeOK'
  BY <1>4 DEF MarkReserved
<1>5. ASSUME NEW o \in Orders, NEW out, MarkPublished(o, out)
      PROVE InventoryTypeOK'
  BY <1>5 DEF MarkPublished, callVars
<1>6. ASSUME NEW o \in Orders, ReservationExpires(o) PROVE InventoryTypeOK'
  BY <1>6 DEF ReservationExpires, callVars
<1>7. ASSUME NEW o \in Orders, NEW s \in Shard, NEW out, Release(o, s, out)
      PROVE InventoryTypeOK'
  BY <1>7 DEF Release, ReleaseScript
<1>8. ASSUME NEW o \in Orders, NEW out, ClearLatch(o, out) PROVE InventoryTypeOK'
  BY <1>8 DEF ClearLatch
<1>9. ASSUME NEW S \in SUBSET clearing, DropClears(S) PROVE InventoryTypeOK'
  BY <1>9 DEF DropClears, redisVars
<1>10. ASSUME NEW o \in Orders, ContextEnds(o) PROVE InventoryTypeOK'
  BY <1>10 DEF ContextEnds, redisVars
<1>11. CASE UNCHANGED inventoryVars
  BY <1>11 DEF inventoryVars
<1>12. QED
  BY <1>1, <1>2, <1>3, <1>4, <1>5, <1>6, <1>7, <1>8, <1>9, <1>10, <1>11 DEF InventoryNext

\* Every state of the inventory is well typed; in particular no counter ever
\* falls below zero, so an empty shard never sells.
THEOREM InventoryTypeCorrect == InventorySpec => []InventoryTypeOK
BY InventoryTypeInit, InventoryTypeStep, PTL DEF InventorySpec

-----------------------------------------------------------------------------
(* Refunds *)

\* What ties the refunds of an order to its Reserve call and its reservation
\* key.  RefundAtMostOnce is not inductive: it holds because a refund needs a
\* RESERVED key, the key becomes RESERVED only before the first refund, and the
\* sweep never comes back to a shard.
OrderInv(o) ==
    /\ rpc[o] = "start" => taken[o] = {}
    /\ rpc[o] = "start" => offset[o] = 0
    /\ rpc[o] = "probe" =>
          \A t \in taken[o] : \E k \in Shard : k < offset[o] /\ t = Sibling(Home(o), k)
    /\ rpc[o] \in {"won", "marked"} => invKey[o] \in taken[o]
    /\ rpc[o] # "marked" => resv[o] = "NONE" /\ refunds[o] = 0
    /\ resv[o] = "RESERVED" => refunds[o] = 0
    /\ refunds[o] \in {0, 1}
    /\ refunds[o] = 0 <=> refundedTo[o] = NoShard

RefundInv == InventoryTypeOK /\ \A o \in Orders : OrderInv(o)

\* The shard probed now was not probed before.
LEMMA ProbedOnce ==
    ASSUME NEW o \in Orders, RefundInv, rpc[o] = "probe"
    PROVE  Sibling(Home(o), offset[o]) \notin taken[o]
<1>1. Home(o) \in Shard /\ offset[o] \in Shard
  BY HomeInShard DEF RefundInv, InventoryTypeOK
<1>2. SUFFICES ASSUME NEW k \in Shard, k < offset[o],
                      Sibling(Home(o), offset[o]) = Sibling(Home(o), k)
               PROVE  FALSE
  BY DEF RefundInv, OrderInv
<1>3. k # offset[o]
  BY <1>1, <1>2 DEF Shard
<1>4. QED
  BY <1>1, <1>2, <1>3, SiblingInjective

LEMMA RefundInit == InventoryInit => RefundInv
<1> SUFFICES ASSUME InventoryInit PROVE RefundInv
  OBVIOUS
<1>1. InventoryTypeOK
  BY InventoryTypeInit
<1>2. QED
  BY <1>1 DEF InventoryInit, RefundInv, OrderInv

LEMMA RefundStep == RefundInv /\ [InventoryNext]_inventoryVars => RefundInv'
<1> SUFFICES ASSUME RefundInv, [InventoryNext]_inventoryVars PROVE RefundInv'
  OBVIOUS
<1> USE DEF history
<1>0. InventoryTypeOK /\ InventoryTypeOK'
  BY InventoryTypeStep DEF RefundInv
<1> SUFFICES ASSUME NEW q \in Orders PROVE OrderInv(q)'
  BY <1>0 DEF RefundInv
<1>a. OrderInv(q)
  BY DEF RefundInv
<1> USE <1>0 DEF InventoryTypeOK
<1>1. ASSUME NEW o \in Orders, CheckLatch(o) PROVE OrderInv(q)'
  BY <1>1, <1>a DEF CheckLatch, OrderInv
<1>2. ASSUME NEW o \in Orders, ProbeShard(o) PROVE OrderInv(q)'
  <2> DEFINE s == Sibling(Home(o), offset[o])
  <2>0. offset[o] \in Shard /\ Home(o) \in Shard /\ s \in Shard
    BY HomeInShard, SiblingInShard
  <2>a. rpc[o] = "probe" /\ UNCHANGED <<soldout, resv, clearing, refundedTo, refunds>>
    BY <1>2 DEF ProbeShard
  <2>1. CASE q # o
    <3>1. rpc'[q] = rpc[q] /\ offset'[q] = offset[q] /\ invKey'[q] = invKey[q]
          /\ taken'[q] = taken[q]
      BY <1>2, <2>1 DEF ProbeShard, NextSibling, ReserveScript
    <3>2. QED
      BY <3>1, <2>a, <1>a DEF OrderInv
  <2>2. CASE q = o
    <3>0. resv[o] = "NONE" /\ refunds[o] = 0
      BY <2>2, <2>a, <1>a DEF OrderInv
    <3> HIDE DEF s
    <3>1. CASE rpc' = [rpc EXCEPT ![o] = "won"]
      <4>1. invKey'[o] = s /\ taken'[o] = taken[o] \cup {s}
        BY <1>2, <2>0, <3>1, <2>a DEF ProbeShard, ReserveScript, NextSibling, s,
           HasUnit, KeyWon, MoreSiblings
      <4>2. QED
        BY <4>1, <3>0, <3>1, <2>2, <2>a, <1>a DEF OrderInv
    <3>2. CASE rpc' = [rpc EXCEPT ![o] = "soldOut"]
      BY <3>0, <3>2, <2>2, <2>a, <1>a DEF OrderInv
    <3>3. CASE NextSibling(o) /\ taken' \in {taken, [taken EXCEPT ![o] = @ \cup {s}]}
      <4>1. CASE rpc'[o] = "latch"
        BY <4>1, <3>0, <3>3, <2>2, <2>a, <1>a DEF OrderInv
      <4>2. CASE rpc' = rpc /\ offset' = [offset EXCEPT ![o] = @ + 1]
        <5>1. ASSUME NEW t \in taken'[o]
              PROVE \E k \in Shard : k < offset'[o] /\ t = Sibling(Home(o), k)
          <6>1. CASE t \in taken[o]
            <7>1. PICK k \in Shard : k < offset[o] /\ t = Sibling(Home(o), k)
              BY <6>1, <2>a, <2>2, <1>a DEF OrderInv
            <7>2. QED
              BY <7>1, <4>2, <2>0 DEF Shard
          <6>2. CASE t = s
            BY <6>2, <4>2, <2>0 DEF Shard, s
          <6>3. QED
            BY <5>1, <6>1, <6>2, <3>3
        <5>2. QED
          BY <5>1, <4>2, <3>0, <2>2, <2>a, <1>a DEF OrderInv, Home
      <4>3. QED
        BY <4>1, <4>2, <3>3 DEF NextSibling
    <3>4. QED
      BY <1>2, <3>1, <3>2, <3>3 DEF ProbeShard, ReserveScript, s
  <2>3. QED
    BY <2>1, <2>2
<1>3. ASSUME NEW o \in Orders, LatchSoldOut(o) PROVE OrderInv(q)'
  BY <1>3, <1>a DEF LatchSoldOut, OrderInv
<1>4. ASSUME NEW o \in Orders, NEW out, MarkReserved(o, out)
      PROVE OrderInv(q)'
  BY <1>4, <1>a DEF MarkReserved, OrderInv
<1>5. ASSUME NEW o \in Orders, NEW out, MarkPublished(o, out)
      PROVE OrderInv(q)'
  BY <1>5, <1>a DEF MarkPublished, callVars, OrderInv
<1>6. ASSUME NEW o \in Orders, ReservationExpires(o) PROVE OrderInv(q)'
  BY <1>6, <1>a DEF ReservationExpires, callVars, OrderInv
<1>7. ASSUME NEW o \in Orders, NEW s \in Shard, NEW out, Release(o, s, out)
      PROVE OrderInv(q)'
  <2>1. s # NoShard
    BY InventoryAssumption DEF Shard
  <2>2. QED
    BY <2>1, <1>7, <1>a DEF Release, ReleaseScript, OrderInv, Compensable
<1>8. ASSUME NEW o \in Orders, NEW out, ClearLatch(o, out) PROVE OrderInv(q)'
  BY <1>8, <1>a DEF ClearLatch, OrderInv
<1>9. ASSUME NEW S \in SUBSET clearing, DropClears(S) PROVE OrderInv(q)'
  BY <1>9, <1>a DEF DropClears, redisVars, OrderInv
<1>10. ASSUME NEW o \in Orders, ContextEnds(o) PROVE OrderInv(q)'
  BY <1>10, <1>a DEF ContextEnds, redisVars, OrderInv
<1>11. CASE UNCHANGED inventoryVars
  BY <1>11, <1>a DEF inventoryVars, OrderInv
<1>12. QED
  BY <1>1, <1>2, <1>3, <1>4, <1>5, <1>6, <1>7, <1>8, <1>9, <1>10, <1>11 DEF InventoryNext

LEMMA RefundInvariant == InventorySpec => []RefundInv
BY RefundInit, RefundStep, PTL DEF InventorySpec

\* For every number of orders and shards and whatever fails: release_stock.lua
\* returns at most one unit for an order.
THEOREM RefundsAtMostOnce == InventorySpec => []RefundAtMostOnce
<1>1. RefundInv => RefundAtMostOnce
  BY DEF RefundInv, OrderInv, RefundAtMostOnce
<1>2. QED
  BY <1>1, RefundInvariant, PTL

\* Only for an order that took a unit.
THEOREM RefundsOnlyTaken == InventorySpec => []RefundOnlyTaken
<1>1. RefundInv => RefundOnlyTaken
  BY DEF RefundInv, OrderInv, RefundOnlyTaken
<1>2. QED
  BY <1>1, RefundInvariant, PTL

\* Once the worker has marked an order PUBLISHED nobody arms its compensation
\* again: MarkReserved is behind it.
THEOREM PublishedStays == InventorySpec => PublishedIsFinal
<1>1. RefundInv /\ [InventoryNext]_inventoryVars =>
         [\A o \in Orders : resv[o] = "PUBLISHED" => resv'[o] = "PUBLISHED"]_resv
  <2> SUFFICES ASSUME RefundInv, [InventoryNext]_inventoryVars,
                      NEW q \in Orders, resv[q] = "PUBLISHED"
               PROVE  resv'[q] = "PUBLISHED"
    OBVIOUS
  <2>0. rpc[q] = "marked" /\ resv \in [Orders -> ReservationState]
    BY DEF RefundInv, OrderInv, InventoryTypeOK
  <2>1. ASSUME NEW o \in Orders, NEW out, MarkReserved(o, out)
        PROVE resv'[q] = "PUBLISHED"
    BY <2>0, <2>1 DEF MarkReserved
  <2>2. ASSUME NEW o \in Orders, NEW out, MarkPublished(o, out)
        PROVE resv'[q] = "PUBLISHED"
    BY <2>0, <2>2 DEF MarkPublished
  <2>3. ASSUME NEW o \in Orders, ReservationExpires(o) PROVE resv'[q] = "PUBLISHED"
    BY <2>0, <2>3 DEF ReservationExpires
  <2>4. ASSUME NEW o \in Orders, NEW s \in Shard, NEW out, Release(o, s, out)
        PROVE resv'[q] = "PUBLISHED"
    BY <2>0, <2>4 DEF Release, ReleaseScript, Compensable
  <2>5. QED
    BY <2>1, <2>2, <2>3, <2>4 DEF InventoryNext, inventoryVars, CheckLatch, ProbeShard,
       LatchSoldOut, ContextEnds, ClearLatch, DropClears, redisVars
<1>2. QED
  BY <1>1, RefundInvariant, PTL DEF InventorySpec, PublishedIsFinal

-----------------------------------------------------------------------------
(* Conservation of every counter *)

Conserved(s) ==
    shard[s] + Cardinality(TakenFrom(s)) =
    SeedShare(Stock, NumShards, s) + Cardinality(ReturnedTo(s))

LEMMA ConservedInit == InventoryInit => ShardConserved
<1> SUFFICES ASSUME InventoryInit, NEW s \in Shard PROVE Conserved(s)
  BY DEF ShardConserved, Conserved
<1>1. TakenFrom(s) = {} /\ ReturnedTo(s) = {}
  BY InventoryAssumption DEF InventoryInit, TakenFrom, ReturnedTo, Shard
<1>2. shard[s] = SeedShare(Stock, NumShards, s)
  BY DEF InventoryInit
<1>3. QED
  BY <1>1, <1>2, FS_EmptySet, SeedShareNat DEF Conserved

\* reserve_stock.lua moves one unit of one shard into the hands of an order.
LEMMA ReserveConserves ==
    ASSUME RefundInv, ShardConserved, NEW o \in Orders, NEW t \in Shard,
           t \notin taken[o], ReserveScript(o, t), UNCHANGED refundedTo
    PROVE  ShardConserved'
<1> SUFFICES ASSUME NEW s \in Shard PROVE Conserved(s)'
  BY DEF ShardConserved, Conserved
<1>0. /\ Conserved(s)
      /\ shard \in [Shard -> Nat] /\ taken \in [Orders -> SUBSET Shard]
  BY DEF ShardConserved, Conserved, RefundInv, InventoryTypeOK
<1>1. ReturnedTo(s)' = ReturnedTo(s)
  BY DEF ReturnedTo
<1>2. Cardinality(TakenFrom(s)) \in Nat /\ Cardinality(ReturnedTo(s)) \in Nat
  BY CountNat DEF TakenFrom, ReturnedTo
<1>3. CASE s = t
  <2>1. TakenFrom(s)' = TakenFrom(s) \cup {o} /\ o \notin TakenFrom(s)
    BY <1>0, <1>3 DEF TakenFrom, ReserveScript
  <2>2. Cardinality(TakenFrom(s)') = Cardinality(TakenFrom(s)) + 1
    BY <2>1, OneMore DEF TakenFrom
  <2>3. shard'[s] = shard[s] - 1
    BY <1>0, <1>3 DEF ReserveScript
  <2>4. QED
    BY <1>0, <1>1, <1>2, <2>2, <2>3, SeedShareNat DEF Conserved
<1>4. CASE s # t
  <2>1. TakenFrom(s)' = TakenFrom(s)
    BY <1>0, <1>4 DEF TakenFrom, ReserveScript
  <2>2. shard'[s] = shard[s]
    BY <1>0, <1>4 DEF ReserveScript
  <2>3. QED
    BY <1>0, <1>1, <2>1, <2>2 DEF Conserved
<1>5. QED
  BY <1>3, <1>4

\* release_stock.lua moves one unit back, to the shard it is given.
LEMMA ReleaseConserves ==
    ASSUME RefundInv, ShardConserved, NEW o \in Orders, NEW t \in Shard,
           ReleaseScript(o, t), UNCHANGED taken
    PROVE  ShardConserved'
<1> SUFFICES ASSUME NEW s \in Shard PROVE Conserved(s)'
  BY DEF ShardConserved, Conserved
<1>0. /\ Conserved(s)
      /\ shard \in [Shard -> Nat] /\ refundedTo \in [Orders -> Shard \cup {NoShard}]
      /\ refundedTo[o] = NoShard /\ NoShard \notin Shard
  BY InventoryAssumption
     DEF ShardConserved, Conserved, RefundInv, OrderInv, InventoryTypeOK, ReleaseScript, Shard,
         Compensable
<1>1. TakenFrom(s)' = TakenFrom(s)
  BY DEF TakenFrom
<1>2. Cardinality(TakenFrom(s)) \in Nat /\ Cardinality(ReturnedTo(s)) \in Nat
  BY CountNat DEF TakenFrom, ReturnedTo
<1>3. CASE s = t
  <2>1. ReturnedTo(s)' = ReturnedTo(s) \cup {o} /\ o \notin ReturnedTo(s)
    BY <1>0, <1>3 DEF ReturnedTo, ReleaseScript
  <2>2. Cardinality(ReturnedTo(s)') = Cardinality(ReturnedTo(s)) + 1
    BY <2>1, OneMore DEF ReturnedTo
  <2>3. shard'[s] = shard[s] + 1
    BY <1>0, <1>3 DEF ReleaseScript
  <2>4. QED
    BY <1>0, <1>1, <1>2, <2>2, <2>3, SeedShareNat DEF Conserved
<1>4. CASE s # t
  <2>1. ReturnedTo(s)' = ReturnedTo(s)
    BY <1>0, <1>4 DEF ReturnedTo, ReleaseScript
  <2>2. shard'[s] = shard[s]
    BY <1>0, <1>4 DEF ReleaseScript
  <2>3. QED
    BY <1>0, <1>1, <2>1, <2>2 DEF Conserved
<1>5. QED
  BY <1>3, <1>4

\* A step that touches neither the counters nor the history.
LEMMA QuietConserves ==
    ASSUME ShardConserved, UNCHANGED <<shard, taken, refundedTo>>
    PROVE  ShardConserved'
BY DEF ShardConserved, TakenFrom, ReturnedTo

LEMMA ConservedStep ==
    RefundInv /\ ShardConserved /\ [InventoryNext]_inventoryVars => ShardConserved'
<1> SUFFICES ASSUME RefundInv, ShardConserved, [InventoryNext]_inventoryVars
             PROVE  ShardConserved'
  OBVIOUS
<1>1. ASSUME NEW o \in Orders, ProbeShard(o) PROVE ShardConserved'
  <2> DEFINE s == Sibling(Home(o), offset[o])
  <2>1. s \in Shard
    BY HomeInShard, SiblingInShard DEF RefundInv, InventoryTypeOK
  <2>2. s \notin taken[o]
    BY <1>1, ProbedOnce DEF ProbeShard
  <2>3. UNCHANGED refundedTo
    BY <1>1 DEF ProbeShard
  <2>4. ReserveScript(o, s) \/ UNCHANGED <<shard, taken>>
    BY <1>1 DEF ProbeShard
  <2> HIDE DEF s
  <2>5. QED
    BY <2>1, <2>2, <2>3, <2>4, ReserveConserves, QuietConserves
<1>2. ASSUME NEW o \in Orders, NEW s \in Shard, NEW out, Release(o, s, out)
      PROVE ShardConserved'
  <2>1. UNCHANGED taken
    BY <1>2 DEF Release
  <2>2. ReleaseScript(o, s) \/ UNCHANGED <<shard, refundedTo>>
    BY <1>2 DEF Release
  <2>3. QED
    BY <2>1, <2>2, ReleaseConserves, QuietConserves
<1>3. CASE UNCHANGED <<shard, taken, refundedTo>>
  BY <1>3, QuietConserves
<1>4. QED
  BY <1>1, <1>2, <1>3 DEF InventoryNext, inventoryVars, CheckLatch, LatchSoldOut,
     ContextEnds, MarkReserved, MarkPublished, ReservationExpires, ClearLatch, DropClears,
     history, redisVars

\* For every number of orders and shards and whatever fails: no unit of any
\* counter is lost from the books or invented.
THEOREM ShardsConserved == InventorySpec => []ShardConserved
BY RefundInvariant, ConservedInit, ConservedStep, PTL DEF InventorySpec

-----------------------------------------------------------------------------
(* The sold-out latch before the first refund *)

AllEmpty == \A s \in Shard : shard[s] = 0
NoRefundYet == \A o \in Orders : refunds[o] = 0

\* What the sweep of a buyer who has not left knows: the shards it has passed are empty, and with a healthy
\* Redis and no refund they stay empty while the other buyers go on.
SweptEmpty(o) ==
    /\ rpc[o] = "probe" =>
          \A k \in Shard : k < offset[o] => shard[Sibling(Home(o), k)] = 0
    /\ rpc[o] \in {"latch", "soldOut"} => AllEmpty

LatchInv ==
    NoRefundYet => (soldout => AllEmpty) /\ \A o \in Orders \ left : SweptEmpty(o)

\* The last probe of a sweep that found nothing completes the picture.
LEMMA SweepComplete ==
    ASSUME NEW o \in Orders, InventoryTypeOK,
           ~(offset[o] + 1 < NumShards),
           \A k \in Shard : k < offset[o] => shard[Sibling(Home(o), k)] = 0,
           shard[Sibling(Home(o), offset[o])] = 0
    PROVE  AllEmpty
<1> SUFFICES ASSUME NEW s \in Shard PROVE shard[s] = 0
  BY DEF AllEmpty
<1>1. Home(o) \in Shard /\ offset[o] \in Shard
  BY HomeInShard DEF InventoryTypeOK
<1>2. PICK k \in Shard : Sibling(Home(o), k) = s
  BY <1>1, SiblingOnto
<1>3. k < offset[o] \/ k = offset[o]
  BY <1>1, InventoryAssumption DEF Shard
<1>4. QED
  BY <1>2, <1>3

LEMMA LatchStep ==
    ASSUME RedisFaults = {}, RefundInv, LatchInv, [InventoryNext]_inventoryVars
    PROVE  LatchInv'
<1> SUFFICES ASSUME NoRefundYet'
             PROVE  ((soldout => AllEmpty) /\ \A o \in Orders \ left : SweptEmpty(o))'
  BY DEF LatchInv
<1> USE DEF history
<1>0. InventoryTypeOK /\ InventoryTypeOK'
  BY InventoryTypeStep DEF RefundInv
<1>1. ASSUME NEW o \in Orders, NEW s \in Shard, NEW out, Release(o, s, out)
      PROVE UNCHANGED <<shard, refunds>>
  BY <1>0, <1>1 DEF Release, ReleaseScript, NoRefundYet, InventoryTypeOK
<1>2. NoRefundYet
  <2>1. (\E o \in Orders, s \in Shard : \E out : Release(o, s, out))
        \/ UNCHANGED refunds
    BY DEF InventoryNext, inventoryVars, CheckLatch, ProbeShard, LatchSoldOut, ContextEnds,
       MarkReserved, MarkPublished, ReservationExpires, ClearLatch, DropClears
  <2>2. QED
    BY <1>1, <2>1 DEF NoRefundYet
<1>3. (soldout => AllEmpty) /\ \A o \in Orders \ left : SweptEmpty(o)
  BY <1>2 DEF LatchInv
<1> USE <1>0 DEF InventoryTypeOK
<1>a. ASSUME NEW o \in Orders
      PROVE  Reply(o) = IF o \in left THEN {"err"} ELSE {"ok"}
  BY DEF Reply
<1>b. ASSUME NEW o \in left, UNCHANGED <<shard, soldout, left>>,
             \A q \in Orders \ {o} : rpc'[q] = rpc[q] /\ offset'[q] = offset[q]
      PROVE ((soldout => AllEmpty) /\ \A q \in Orders \ left : SweptEmpty(q))'
  BY <1>3, <1>b DEF SweptEmpty, AllEmpty, Home
<1>4. ASSUME NEW o \in Orders, CheckLatch(o)
      PROVE ((soldout => AllEmpty) /\ \A q \in Orders \ left : SweptEmpty(q))'
  <2>1. offset[o] = 0
    BY <1>4 DEF CheckLatch, RefundInv, OrderInv
  <2>2. \A k \in Shard : ~(k < offset[o])
    BY <2>1 DEF Shard
  <2>3. UNCHANGED <<shard, soldout, left, offset>> /\ (rpc'[o] = "soldOut" => soldout)
        /\ rpc'[o] \in {"probe", "soldOut"}
        /\ \A q \in Orders : q # o => rpc'[q] = rpc[q]
    BY <1>4 DEF CheckLatch
  <2>4. QED
    BY <1>3, <2>2, <2>3 DEF SweptEmpty, AllEmpty, Home
<1>5. ASSUME NEW o \in Orders, ProbeShard(o)
      PROVE ((soldout => AllEmpty) /\ \A q \in Orders \ left : SweptEmpty(q))'
  <2> DEFINE s == Sibling(Home(o), offset[o])
  <2>0. /\ s \in Shard /\ offset[o] \in Shard /\ rpc[o] = "probe"
        /\ UNCHANGED <<soldout, left>>
    BY <1>5, HomeInShard, SiblingInShard DEF ProbeShard
  <2>a. CASE o \in left
    <3>1. NextSibling(o) /\ UNCHANGED shard
      BY <1>5, <1>a, <2>a DEF ProbeShard, Applied
    <3>2. \A q \in Orders \ {o} : rpc'[q] = rpc[q] /\ offset'[q] = offset[q]
      BY <3>1 DEF NextSibling
    <3> HIDE DEF s
    <3>3. QED
      BY <1>b, <2>0, <2>a, <3>1, <3>2
  <2>b. SUFFICES ASSUME o \notin left
                 PROVE ((soldout => AllEmpty) /\ \A q \in Orders \ left : SweptEmpty(q))'
    BY <2>a
  <2>1. CASE ReserveScript(o, s) /\ rpc' = [rpc EXCEPT ![o] = "won"] /\ UNCHANGED offset
    <3>1. ~AllEmpty
      BY <2>0, <2>1 DEF AllEmpty, ReserveScript
    <3>2. \A t \in Shard : shard[t] = 0 => shard'[t] = 0
      BY <2>0, <2>1 DEF ReserveScript
    <3>3. ASSUME NEW q \in Orders, NEW k \in Shard PROVE Sibling(Home(q), k) \in Shard
      BY HomeInShard, SiblingInShard
    <3>4. \A q \in Orders : rpc'[q] = "won" \/ rpc'[q] = rpc[q]
      BY <2>1
    <3> HIDE DEF s
    <3>5. ~soldout /\ \A q \in Orders \ left : rpc[q] \notin {"latch", "soldOut"}
      BY <1>3, <3>1 DEF SweptEmpty
    <3>6. ASSUME NEW q \in Orders \ left PROVE SweptEmpty(q)'
      BY <1>3, <2>1, <3>2, <3>3, <3>4, <3>5 DEF SweptEmpty, Home
    <3>7. QED
      BY <2>0, <3>5, <3>6
  <2>2. CASE shard[s] = 0 /\ NextSibling(o) /\ UNCHANGED shard
    <3>1. \A k \in Shard : k < offset[o] => shard[Sibling(Home(o), k)] = 0
      BY <1>3, <2>0, <2>b DEF SweptEmpty
    <3>2. CASE offset[o] + 1 < NumShards
      <4>1. ASSUME NEW k \in Shard, k < offset'[o] PROVE shard[Sibling(Home(o), k)] = 0
        <5>1. k < offset[o] \/ k = offset[o]
          BY <2>0, <2>2, <3>2, <4>1 DEF NextSibling, Shard
        <5>2. QED
          BY <5>1, <3>1, <2>2
      <4>2. rpc' = rpc /\ \A q \in Orders : q # o => offset'[q] = offset[q]
        BY <2>2, <3>2 DEF NextSibling, MoreSiblings
      <4> HIDE DEF s
      <4>3. QED
        BY <1>3, <2>0, <2>2, <4>1, <4>2 DEF SweptEmpty, AllEmpty, Home
    <3>3. CASE ~(offset[o] + 1 < NumShards)
      <4>1. AllEmpty
        BY <2>2, <3>1, <3>3, SweepComplete
      <4>2. rpc' = [rpc EXCEPT ![o] = "latch"] /\ offset' = offset
        BY <2>2, <3>3 DEF NextSibling, MoreSiblings
      <4> HIDE DEF s
      <4>3. QED
        BY <1>3, <2>0, <2>2, <4>1, <4>2 DEF SweptEmpty, AllEmpty, Home
    <3>4. QED
      BY <3>2, <3>3
  <2>3. QED
    BY <1>5, <1>a, <2>0, <2>b, <2>1, <2>2 DEF ProbeShard, Applied, HasUnit, KeyWon
<1>6. ASSUME NEW o \in Orders, LatchSoldOut(o)
      PROVE ((soldout => AllEmpty) /\ \A q \in Orders \ left : SweptEmpty(q))'
  <2>1. UNCHANGED <<shard, offset, left>> /\ rpc' = [rpc EXCEPT ![o] = "soldOut"]
    BY <1>6 DEF LatchSoldOut
  <2>2. CASE o \in left
    <3>1. UNCHANGED soldout
      BY <1>6, <1>a, <2>2 DEF LatchSoldOut, Applied
    <3>2. QED
      BY <1>b, <2>1, <2>2, <3>1
  <2>3. CASE o \notin left
    <3>1. AllEmpty
      BY <1>3, <1>6, <2>3 DEF LatchSoldOut, SweptEmpty
    <3>2. QED
      BY <1>3, <2>1, <3>1 DEF SweptEmpty, AllEmpty, Home
  <2>4. QED
    BY <2>2, <2>3
<1>7. ASSUME UNCHANGED <<shard, offset>>, soldout' => soldout, left \subseteq left',
             \A q \in Orders : rpc'[q] = rpc[q] \/ rpc'[q] = "marked"
      PROVE ((soldout => AllEmpty) /\ \A q \in Orders \ left : SweptEmpty(q))'
  BY <1>3, <1>7 DEF SweptEmpty, AllEmpty, Home
<1>8. ASSUME NEW o \in Orders,
             \/ \E out : MarkReserved(o, out) \/ MarkPublished(o, out)
             \/ ReservationExpires(o) \/ ContextEnds(o)
             \/ \E s \in Shard : \E out : Release(o, s, out)
             \/ \E out : ClearLatch(o, out)
      PROVE ((soldout => AllEmpty) /\ \A q \in Orders \ left : SweptEmpty(q))'
  <2>1. UNCHANGED <<shard, offset>>
    BY <1>1, <1>8 DEF MarkReserved, MarkPublished, ReservationExpires, ContextEnds, redisVars,
       ClearLatch, callVars, Release
  <2>2. (soldout' => soldout) /\ left \subseteq left'
    BY <1>8 DEF MarkReserved, MarkPublished, ReservationExpires, ContextEnds, redisVars,
       ClearLatch, callVars, Release
  <2>3. \A q \in Orders : rpc'[q] = rpc[q] \/ rpc'[q] = "marked"
    BY <1>8 DEF MarkReserved, MarkPublished, ReservationExpires, ContextEnds, ClearLatch,
       callVars, Release
  <2>4. QED
    BY <1>7, <2>1, <2>2, <2>3
<1>9. CASE UNCHANGED <<shard, offset, soldout, rpc, left>>
  BY <1>7, <1>9
<1>10. QED
  BY <1>4, <1>5, <1>6, <1>8, <1>9
     DEF InventoryNext, inventoryVars, DropClears, redisVars

\* With a healthy Redis and before any refund, for every number of shards and
\* of interleaved buyers: a sweep that reads the counters one by one latches
\* the SKU, and turns a buyer who is still there away, only when every shard is
\* empty.
THEOREM LatchHonest ==
    ASSUME RedisFaults = {}
    PROVE  InventorySpec => []LatchHonestBeforeRefunds
<1>1. InventoryInit => LatchInv
  BY DEF InventoryInit, LatchInv, SweptEmpty, Shard
<1>2. RefundInv /\ LatchInv /\ [InventoryNext]_inventoryVars => LatchInv'
  BY LatchStep
<1>3. LatchInv => LatchHonestBeforeRefunds
  BY DEF LatchInv, LatchHonestBeforeRefunds, NoRefundYet, SweptEmpty, AllEmpty
<1>4. QED
  BY <1>1, <1>2, <1>3, RefundInvariant, PTL DEF InventorySpec

-----------------------------------------------------------------------------
(* One unit per order *)

\* A sweep that has not won has taken nothing, and one that has won has taken
\* the unit of the key it returns.
UnitInv ==
    \A o \in Orders :
       /\ rpc[o] \in {"start", "probe", "latch"} => invKey[o] = NoShard
       /\ taken[o] = IF invKey[o] = NoShard THEN {} ELSE {invKey[o]}

LEMMA UnitStep ==
    ASSUME "lost" \notin RedisFaults
    PROVE  InventoryTypeOK /\ UnitInv /\ [InventoryNext]_inventoryVars => UnitInv'
<1> SUFFICES ASSUME InventoryTypeOK, UnitInv, [InventoryNext]_inventoryVars PROVE UnitInv'
  OBVIOUS
<1> USE DEF UnitInv, InventoryTypeOK, history, callVars
<1>1. ASSUME NEW o \in Orders, CheckLatch(o) \/ LatchSoldOut(o) PROVE UnitInv'
  BY <1>1 DEF CheckLatch, LatchSoldOut
<1>2. ASSUME NEW o \in Orders, ProbeShard(o) PROVE UnitInv'
  <2> DEFINE s == Sibling(Home(o), offset[o])
  <2>1. s \in Shard /\ s # NoShard
    <3>1. s \in Shard
      BY HomeInShard, SiblingInShard
    <3>2. QED
      BY <3>1, InventoryAssumption DEF Shard
  <2>2. rpc[o] = "probe" /\ invKey[o] = NoShard /\ taken[o] = {}
    BY <1>2 DEF ProbeShard
  <2> HIDE DEF s
  <2>3. \/ /\ rpc' = [rpc EXCEPT ![o] = "won"]
           /\ invKey' = [invKey EXCEPT ![o] = s]
           /\ taken' = [taken EXCEPT ![o] = @ \cup {s}]
        \/ /\ rpc' \in {rpc, [rpc EXCEPT ![o] = "latch"], [rpc EXCEPT ![o] = "soldOut"]}
           /\ UNCHANGED <<invKey, taken>>
    BY <1>2 DEF ProbeShard, Reply, ReserveScript, NextSibling, KeyWon, s
  <2>4. CASE invKey' = [invKey EXCEPT ![o] = s]
    <3>1. rpc'[o] = "won" /\ invKey'[o] = s /\ taken'[o] = {s}
      BY <2>1, <2>2, <2>3, <2>4
    <3>2. \A q \in Orders \ {o} :
             rpc'[q] = rpc[q] /\ invKey'[q] = invKey[q] /\ taken'[q] = taken[q]
      BY <2>1, <2>2, <2>3, <2>4
    <3>3. \A q \in Orders :
             /\ rpc'[q] \in {"start", "probe", "latch"} => invKey'[q] = NoShard
             /\ taken'[q] = IF invKey'[q] = NoShard THEN {} ELSE {invKey'[q]}
      <4>1. SUFFICES ASSUME NEW q \in Orders
                     PROVE /\ rpc'[q] \in {"start", "probe", "latch"} => invKey'[q] = NoShard
                           /\ taken'[q] = IF invKey'[q] = NoShard THEN {} ELSE {invKey'[q]}
        OBVIOUS
      <4>2. CASE q = o
        BY <2>1, <3>1, <4>2
      <4>3. CASE q # o
        BY <3>2, <4>3
      <4>4. QED
        BY <4>2, <4>3
    <3>4. QED
      BY <3>3
  <2>5. CASE UNCHANGED <<invKey, taken>>
    BY <2>1, <2>2, <2>3, <2>5
  <2>6. QED
    BY <2>3, <2>4, <2>5
<1>3. ASSUME NEW o \in Orders, NEW out,
             MarkReserved(o, out) \/ MarkPublished(o, out)
      PROVE  UnitInv'
  BY <1>3 DEF MarkReserved, MarkPublished
<1>4. CASE UNCHANGED <<rpc, invKey, taken>>
  BY <1>4
<1> HIDE DEF UnitInv, InventoryTypeOK
<1>5. ASSUME NEW o \in Orders, ReservationExpires(o) \/ ContextEnds(o) PROVE UnitInv'
  BY <1>4, <1>5 DEF ReservationExpires, ContextEnds
<1>6. ASSUME NEW o \in Orders, NEW out, ClearLatch(o, out) PROVE UnitInv'
  BY <1>4, <1>6 DEF ClearLatch
<1>7. ASSUME NEW o \in Orders, NEW s \in Shard, NEW out, Release(o, s, out) PROVE UnitInv'
  BY <1>4, <1>7 DEF Release
<1>8. ASSUME NEW S \in SUBSET clearing, DropClears(S) PROVE UnitInv'
  BY <1>4, <1>8 DEF DropClears
<1>9. CASE UNCHANGED inventoryVars
  BY <1>4, <1>9 DEF inventoryVars
<1>10. QED
  BY <1>1, <1>2, <1>3, <1>5, <1>6, <1>7, <1>8, <1>9 DEF InventoryNext

\* Unless a reply is lost, an order takes exactly the unit whose key Reserve
\* returned, whatever else fails: no sweep leaks a unit.
THEOREM OneUnit == InventorySpec => []OneUnitPerOrder
<1>1. CASE "lost" \in RedisFaults
  <2>1. OneUnitPerOrder
    BY <1>1 DEF OneUnitPerOrder
  <2>2. QED
    BY <2>1, PTL
<1>2. CASE "lost" \notin RedisFaults
  <2>1. InventoryInit => UnitInv
    BY DEF InventoryInit, UnitInv
  <2>2. InventoryTypeOK /\ UnitInv /\ [InventoryNext]_inventoryVars => UnitInv'
    BY <1>2, UnitStep
  <2>3. UnitInv => OneUnitPerOrder
    BY DEF UnitInv, OneUnitPerOrder
  <2>4. QED
    BY <2>1, <2>2, <2>3, InventoryTypeCorrect, PTL DEF InventorySpec
<1>3. QED
  BY <1>1, <1>2

-----------------------------------------------------------------------------
(* No more units are out than were seeded *)

\* Every non-empty set of numbers has a least element: the well-foundedness of <.
LEMMA LeastNumber ==
    ASSUME NEW T, T \subseteq Nat, T # {} PROVE \E x \in T : \A y \in T : x <= y
<1> DEFINE R == {ss \in Nat \X Nat : ss[1] < ss[2]}
<1>1. IsWellFoundedOn(R, Nat)
  BY NatLessThanWellFounded DEF OpToRel
<1>2. \A x, y \in Nat : y < x => <<y, x>> \in R
  OBVIOUS
<1> HIDE DEF R
<1>3. PICK x \in T : \A y \in T : ~ (<<y, x>> \in R)
  BY <1>1, WFMin
<1>4. ASSUME NEW y \in T PROVE x <= y
  <2>1. x \in Nat /\ y \in Nat
    BY <1>3
  <2>2. ~ (y < x)
    BY <1>2, <1>3, <2>1
  <2>3. QED
    BY <2>1, <2>2
<1>5. QED
  BY <1>4

\* What SeedPartitionedStock puts into the first k shards.
SeededBelow(k) ==
    (Stock \div NumShards) * k + (IF k < Stock % NumShards THEN k ELSE Stock % NumShards)

\* The shares add up: nothing below shard 0, one share more for each shard, and the
\* whole stock in all of them.
LEMMA SeededBelowAdds ==
    /\ SeededBelow(0) = 0
    /\ \A k \in Shard : /\ SeededBelow(k) \in Nat
                        /\ SeededBelow(k + 1) = SeededBelow(k) + SeedShare(Stock, NumShards, k)
    /\ SeededBelow(NumShards) = Stock
<1>1. /\ Stock \div NumShards \in Nat /\ Stock % NumShards \in 0..(NumShards - 1)
      /\ Stock = NumShards * (Stock \div NumShards) + (Stock % NumShards)
  BY InventoryAssumption
<1> DEFINE q == Stock \div NumShards
           r == Stock % NumShards
<1>2. q \in Nat /\ r \in 0..(NumShards - 1) /\ Stock = NumShards * q + r
  BY <1>1
<1>3. \A k : SeededBelow(k) = q * k + (IF k < r THEN k ELSE r)
  BY DEF SeededBelow
<1>4. \A k : SeedShare(Stock, NumShards, k) = q + (IF k < r THEN 1 ELSE 0)
  BY DEF SeedShare
<1> HIDE DEF q, r
<1>5. \A k \in Nat : q * k \in Nat /\ q * (k + 1) = q * k + q
  BY <1>2
<1>6. SeededBelow(0) = 0
  BY <1>2, <1>3
<1>7. ASSUME NEW k \in Shard
      PROVE  /\ SeededBelow(k) \in Nat
             /\ SeededBelow(k + 1) = SeededBelow(k) + SeedShare(Stock, NumShards, k)
  <2>1. k \in Nat
    BY InventoryAssumption DEF Shard
  <2>2. q * k \in Nat /\ q * (k + 1) = q * k + q
    BY <1>5, <2>1
  <2>3. SeededBelow(k + 1) = q * (k + 1) + (IF k + 1 < r THEN k + 1 ELSE r)
    BY <1>3
  <2>4. SeededBelow(k) = q * k + (IF k < r THEN k ELSE r)
    BY <1>3
  <2>5. SeedShare(Stock, NumShards, k) = q + (IF k < r THEN 1 ELSE 0)
    BY <1>4
  <2>6. r \in Nat
    BY <1>2, InventoryAssumption
  <2> DEFINE p == q * k
             p2 == q * (k + 1)
  <2>7. p \in Nat /\ p2 = p + q
    BY <2>2
  <2> HIDE DEF p, p2
  <2>8. QED
    BY <1>2, <2>1, <2>3, <2>4, <2>5, <2>6, <2>7 DEF p, p2
<1>8. SeededBelow(NumShards) = Stock
  BY <1>2, <1>3, InventoryAssumption
<1>9. QED
  BY <1>6, <1>7, <1>8

\* Counted over all shards: if among the orders of O no counter has given out more
\* units than its share and what came back, then at most the stock has been given
\* out, plus what came back.  By induction on the number of shards counted.
LEMMA UnitsBounded ==
    ASSUME InventoryTypeOK, NEW O \in SUBSET Orders,
           \A s \in Shard : Cardinality(TakenFrom(s) \cap O)
                            <= SeedShare(Stock, NumShards, s) + Cardinality(ReturnedTo(s) \cap O)
    PROVE  Cardinality({o \in O : taken[o] # {}})
           <= Stock + Cardinality({o \in O : refundedTo[o] # NoShard})
<1> DEFINE T(k) == {o \in O : \E s \in taken[o] : s < k}
           R(k) == {o \in O : refundedTo[o] # NoShard /\ refundedTo[o] < k}
           Bad == {k \in 0..NumShards :
                     ~ (Cardinality(T(k)) <= SeededBelow(k) + Cardinality(R(k)))}
<1>0. /\ NumShards \in Nat \ {0} /\ Shard = 0..(NumShards - 1) /\ NoShard \notin Shard
      /\ taken \in [Orders -> SUBSET Shard] /\ refundedTo \in [Orders -> Shard \cup {NoShard}]
  BY InventoryAssumption DEF InventoryTypeOK, Shard
<1>1. ASSUME NEW k
      PROVE  /\ T(k) \in SUBSET Orders /\ R(k) \in SUBSET Orders
             /\ Cardinality(T(k)) \in Nat /\ Cardinality(R(k)) \in Nat
  <2>1. T(k) \in SUBSET Orders /\ R(k) \in SUBSET Orders
    OBVIOUS
  <2> HIDE DEF T, R
  <2>2. QED
    BY <2>1, CountNat
<1>2. Bad = {}
  <2> SUFFICES ASSUME Bad # {} PROVE FALSE
    OBVIOUS
  <2>1. Bad \subseteq Nat
    BY <1>0
  <2>2. PICK x \in Bad : \A y \in Bad : x <= y
    <3> HIDE DEF Bad
    <3> QED
      BY <2>1, LeastNumber
  <2>3. x \in 0..NumShards /\ ~ (Cardinality(T(x)) <= SeededBelow(x) + Cardinality(R(x)))
    BY <2>2
  <2>4. x # 0
    <3>1. T(0) = {} /\ R(0) = {}
      BY <1>0
    <3>2. Cardinality(T(0)) = 0 /\ Cardinality(R(0)) = 0
      BY <3>1, FS_EmptySet
    <3>3. SeededBelow(0) = 0
      BY SeededBelowAdds
    <3> HIDE DEF T, R, Bad
    <3>4. QED
      BY <2>3, <3>2, <3>3
  <2> DEFINE k == x - 1
  <2>5. k \in Shard /\ x = k + 1 /\ k \notin Bad /\ k \in 0..NumShards
    BY <1>0, <2>2, <2>3, <2>4
  <2>6. Cardinality(T(k)) <= SeededBelow(k) + Cardinality(R(k))
    BY <2>5
  <2> HIDE DEF k
  <2> DEFINE U == TakenFrom(k) \cap O
             V == ReturnedTo(k) \cap O
  <2>7. T(x) = T(k) \cup U
    BY <1>0, <2>5 DEF TakenFrom
  <2>8. R(x) = R(k) \cup V /\ R(k) \cap V = {}
    BY <1>0, <2>5 DEF ReturnedTo
  <2>9. U \in SUBSET Orders /\ V \in SUBSET Orders
    OBVIOUS
  <2>10. Cardinality(U) <= SeedShare(Stock, NumShards, k) + Cardinality(V)
    BY <2>5
  <2> HIDE DEF T, R, U, V, Bad
  <2>11. Cardinality(U) \in Nat /\ Cardinality(V) \in Nat
    BY <2>9, CountNat
  <2>12. Cardinality(T(x)) <= Cardinality(T(k)) + Cardinality(U)
    BY <1>1, <2>7, <2>9, CountUnion
  <2>13. Cardinality(R(x)) = Cardinality(R(k)) + Cardinality(V)
    BY <1>1, <2>8, <2>9, CountUnion
  <2>14. /\ SeededBelow(k) \in Nat /\ SeedShare(Stock, NumShards, k) \in Nat
         /\ SeededBelow(x) = SeededBelow(k) + SeedShare(Stock, NumShards, k)
    BY <2>5, SeededBelowAdds, SeedShareNat
  <2>15. /\ Cardinality(T(x)) \in Nat /\ Cardinality(T(k)) \in Nat
         /\ Cardinality(R(x)) \in Nat /\ Cardinality(R(k)) \in Nat
    BY <1>1
  <2>16. QED
    BY <2>3, <2>6, <2>10, <2>11, <2>12, <2>13, <2>14, <2>15
<1>3. Cardinality(T(NumShards)) <= SeededBelow(NumShards) + Cardinality(R(NumShards))
  BY <1>0, <1>2
<1>4. T(NumShards) = {o \in O : taken[o] # {}}
  BY <1>0
<1>5. R(NumShards) = {o \in O : refundedTo[o] # NoShard}
  BY <1>0
<1> HIDE DEF T, R, Bad
<1>6. QED
  BY <1>3, <1>4, <1>5, SeededBelowAdds

\* The orders of O that hold a unit.
UnitsOut(O) == {o \in O : taken[o] # {} /\ refunds[o] = 0}

LEMMA OutBounded ==
    ASSUME RefundInv, NEW O \in SUBSET Orders,
           \A s \in Shard : Cardinality(TakenFrom(s) \cap O)
                            <= SeedShare(Stock, NumShards, s) + Cardinality(ReturnedTo(s) \cap O)
    PROVE  Cardinality(UnitsOut(O)) <= Stock
<1> DEFINE T == {o \in O : taken[o] # {}}
           R == {o \in O : refundedTo[o] # NoShard}
<1>1. Cardinality(T) <= Stock + Cardinality(R)
  BY UnitsBounded DEF RefundInv
<1>2. \A o \in Orders : OrderInv(o) /\ refunds[o] \in Nat
  BY DEF RefundInv, InventoryTypeOK
<1>3. UnitsOut(O) \cup R = T /\ UnitsOut(O) \cap R = {}
  BY <1>2 DEF UnitsOut, OrderInv
<1>4. UnitsOut(O) \in SUBSET Orders /\ R \in SUBSET Orders /\ T \in SUBSET Orders
  BY DEF UnitsOut
<1> HIDE DEF T, R
<1>5. Cardinality(UnitsOut(O)) \in Nat /\ Cardinality(R) \in Nat /\ Cardinality(T) \in Nat
  BY <1>4, CountNat
<1>6. Cardinality(T) = Cardinality(UnitsOut(O)) + Cardinality(R)
  BY <1>3, <1>4, CountUnion
<1>7. QED
  BY <1>1, <1>5, <1>6, InventoryAssumption

\* Summed over all shards and whatever fails, there are never more orders that hold
\* a unit than units were seeded.
THEOREM HoldersWithinStock == InventorySpec => [](Cardinality(UnitsOut(Orders)) <= Stock)
<1>1. RefundInv /\ ShardConserved => Cardinality(UnitsOut(Orders)) <= Stock
  <2> SUFFICES ASSUME RefundInv, ShardConserved PROVE Cardinality(UnitsOut(Orders)) <= Stock
    OBVIOUS
  <2>1. ASSUME NEW s \in Shard
        PROVE  Cardinality(TakenFrom(s) \cap Orders)
               <= SeedShare(Stock, NumShards, s) + Cardinality(ReturnedTo(s) \cap Orders)
    <3>1. TakenFrom(s) \cap Orders = TakenFrom(s) /\ ReturnedTo(s) \cap Orders = ReturnedTo(s)
      BY DEF TakenFrom, ReturnedTo
    <3>2. /\ Cardinality(TakenFrom(s)) \in Nat /\ Cardinality(ReturnedTo(s)) \in Nat
          /\ shard[s] \in Nat
      BY CountNat DEF TakenFrom, ReturnedTo, RefundInv, InventoryTypeOK
    <3>3. shard[s] + Cardinality(TakenFrom(s)) =
          SeedShare(Stock, NumShards, s) + Cardinality(ReturnedTo(s))
      BY DEF ShardConserved
    <3>4. QED
      BY <3>1, <3>2, <3>3, SeedShareNat
  <2>2. QED
    BY <2>1, OutBounded
<1>2. QED
  BY <1>1, RefundInvariant, ShardsConserved, PTL

=============================================================================
