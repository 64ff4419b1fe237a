----------------------------- MODULE MCPlacement -----------------------------
(***************************************************************************)
(* Small instances of module Placement.                                    *)
(***************************************************************************)
EXTENDS Placement, FiniteSetsExt, TLC

CONSTANTS o1, o2

\* Two buyers with the same home shard, so that one of them is served by the
\* sibling.
MCBuyer == [o \in Orders |-> IF o = o1 THEN "ann" ELSE "bob"]
MCHomeShard == [u \in Users |-> 0]

\* Everybody's home is the shard that is seeded last, so that a unit is won on a
\* sibling.
MCLastShard == [u \in Users |-> NumShards - 1]

\* Two checkouts of one buyer: the second row violates (user_id, event_id).
MCSameBuyer == [o \in Orders |-> "ann"]

\* Under MCSameBuyer the two checkouts are interchangeable.
SameBuyerSymmetry == Permutations({o1, o2})

\* A checkout without a quantity, and one for two units.
MCNoQty == [o \in Orders |-> 0]
MCTwoEach == [o \in Orders |-> 2]

Live == {o \in Orders : row[o] = "PENDING_PAYMENT"}

\* README: "zero oversell".  The units of the live orders and the units still
\* for sale are no more than the units seeded.
UnitsWithinStock ==
    MapThenSumSet(Qty, Live) + MapThenSumSet(LAMBDA s : shard[s], Shard) <= Stock

=============================================================================
