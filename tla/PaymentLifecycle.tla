-------------------------- MODULE PaymentLifecycle ---------------------------
(* What the engine promises its customer about one payment, with no requests, *)
(* rows or providers in it: the status moves along the edges of states.ts,    *)
(* confirming the crypto is the point of no return, and a reviewer may retry  *)
(* or write off only what was never confirmed, and refund only what was.      *)
EXTENDS PaymentStates

VARIABLES
  status,
  funded     \* the crypto leg has been confirmed at some time

Init == status = "QUOTED" /\ funded = FALSE

(* One step of the engine, off the review state.                              *)
Advance ==
  /\ status # "RECONCILIATION_REQUIRED"
  /\ \E s \in Edges[status] : status' = s /\ funded' = (funded \/ s \in PastFunding)

(* A reviewer's decision: resolveReview() only.                               *)
Resolve ==
  /\ status = "RECONCILIATION_REQUIRED"
  /\ status' \in Edges[status]
  /\ funded <=> status' = "REFUND_REQUIRED"
  /\ UNCHANGED funded

Next == Advance \/ Resolve

Spec == Init /\ [][Next]_<<status, funded>>

(* After the crypto is confirmed the payment is under way, completed, on its  *)
(* way back to the customer, refunded, or before a human: never cancelled,    *)
(* expired, failed or authorized again (states.ts:2-3).                       *)
PointOfNoReturn == funded => status \in PastFunding \cup {"RECONCILIATION_REQUIRED"}
==============================================================================
