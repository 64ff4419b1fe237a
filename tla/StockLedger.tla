----------------------------- MODULE StockLedger -----------------------------
(***************************************************************************)
(* What the inventory promises, without shards, scripts, reservations or   *)
(* calls: a pool of units, from which an order takes a unit only while     *)
(* there is one, and to which a unit goes back only for an order that      *)
(* still owes one.                                                         *)
(***************************************************************************)
EXTENDS Naturals

CONSTANTS Orders, Stock

VARIABLES
    avail,   \* units for sale
    debt     \* debt[o]: units taken for o and not returned

Init ==
    /\ avail = Stock
    /\ debt = [o \in Orders |-> 0]

Take(o) ==
    /\ avail > 0
    /\ avail' = avail - 1
    /\ debt' = [debt EXCEPT ![o] = @ + 1]

Return(o) ==
    /\ debt[o] > 0
    /\ avail' = avail + 1
    /\ debt' = [debt EXCEPT ![o] = @ - 1]

Next == \E o \in Orders : Take(o) \/ Return(o)

Spec == Init /\ [][Next]_<<avail, debt>>

=============================================================================
