---------------------------- MODULE PaymentStates ----------------------------
(* The state machine of a payment intent, src/engine/states.ts: its states,  *)
(* the edges a transition may follow and the states that say the crypto leg  *)
(* has been confirmed.  Constant-level only: PaymentLifecycle and            *)
(* PaymentEngine build their behaviours from it.                             *)

Edges ==
  [ CREATED                 |-> {"QUOTED", "FAILED"},
    QUOTED                  |-> {"AUTHORIZED", "EXPIRED", "FAILED"},
    AUTHORIZED              |-> {"CRYPTO_SUBMITTED", "FAILED"},
    CRYPTO_SUBMITTED        |-> {"CRYPTO_CONFIRMED", "RECONCILIATION_REQUIRED"},
    CRYPTO_CONFIRMED        |-> {"CONVERSION_PENDING", "RECONCILIATION_REQUIRED"},
    CONVERSION_PENDING      |-> {"FIAT_SETTLEMENT_PENDING", "REFUND_REQUIRED",
                                 "RECONCILIATION_REQUIRED"},
    FIAT_SETTLEMENT_PENDING |-> {"COMPLETED", "REFUND_REQUIRED",
                                 "RECONCILIATION_REQUIRED"},
    REFUND_REQUIRED         |-> {"REFUNDED", "RECONCILIATION_REQUIRED"},
    RECONCILIATION_REQUIRED |-> {"AUTHORIZED", "FAILED", "REFUND_REQUIRED"},
    COMPLETED |-> {}, EXPIRED |-> {}, FAILED |-> {}, REFUNDED |-> {} ]

States == DOMAIN Edges

Terminal == {"COMPLETED", "EXPIRED", "FAILED", "REFUNDED"}

CanTransition(from, to) == to \in Edges[from]

(* The states whose presence in the audit trail makes resolveReview() treat  *)
(* the intent as funded; reconcile.ts keeps the same list.                   *)
PastFunding == {"CRYPTO_CONFIRMED", "CONVERSION_PENDING", "FIAT_SETTLEMENT_PENDING",
                "COMPLETED", "REFUND_REQUIRED", "REFUNDED"}

(* The states cancel() accepts: no crypto has been handed to the chain yet.  *)
Cancellable == {"CREATED", "QUOTED", "AUTHORIZED"}
==============================================================================
