------------------------------ MODULE MCSeeding ------------------------------
(***************************************************************************)
(* Small instances of module Seeding.                                      *)
(***************************************************************************)
EXTENDS Seeding, TLC

\* Every order has a buyer of its own; they share a home shard.
MCBuyer == [o \in Orders |-> o]
MCHomeShard == [u \in Users |-> 0]
MCNoQty == [o \in Orders |-> 0]

\* So they are interchangeable.
BuyerSymmetry == Permutations(Orders)

=============================================================================
