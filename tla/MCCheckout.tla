------------------------------ MODULE MCCheckout ------------------------------
(* Instances of Checkout for TLC. *)
EXTENDS Checkout

CONSTANTS q1, q2, q3, u1, u2, k1, k2

\* q1 and q2 are the same order sent twice, q3 comes from another customer.
OwnerOf == [q \in Requests |-> IF q = q3 THEN u2 ELSE u1]
TokenOf == [q \in Requests |-> IF q = q3 THEN k2 ELSE k1]
=============================================================================
