----------------------------- MODULE MCCheckout -----------------------------
(* Instances of Checkout: requests 1, 2, ... of one user under one key. *)
EXTENDS Checkout

\* One session, which is admitted several times.
OneSession == [r \in Requests |-> 1]

\* Requests 1 and 2 are equal, the others reuse the key with another body.
TwoBodies == [r \in Requests |-> IF r <= 2 THEN "a" ELSE "b"]

=============================================================================
