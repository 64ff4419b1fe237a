--------------------------- MODULE MCPaymentWindow ---------------------------
(***************************************************************************)
(* Small instances of module PaymentWindow.                                *)
(***************************************************************************)
EXTENDS PaymentWindow

CONSTANTS o1, o2

\* Two buyers with the same home shard, so that one of them is served by the
\* sibling.
MCBuyer == [o \in Orders |-> IF o = o1 THEN "ann" ELSE "bob"]
MCHomeShard == [u \in Users |-> 0]
MCNoQty == [o \in Orders |-> 0]

=============================================================================
