---------------------------- MODULE MCPaymentBooks -----------------------------
(* The books of a payment for TLC.  The requests are interchangeable.         *)
EXTENDS PaymentBooks, TLC

Symmetry == Permutations(Requests)
==============================================================================
