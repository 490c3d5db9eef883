--------------------------- MODULE MCPaymentEngine ---------------------------
(* The payment engine on small instances, for TLC.                                 *)
EXTENDS PaymentReconcile, TLC

(* The requests are interchangeable: no definition names one of them.         *)
Symmetry == Permutations(Requests)

(* The customer has authorized the payment and the call has returned.         *)
AuthorizedSpec == Opened({"QUOTED", "AUTHORIZED"}, "AUTHORIZED") /\ [][Next]_vars

FairAuthorizedSpec == AuthorizedSpec /\ Fairness
==============================================================================
