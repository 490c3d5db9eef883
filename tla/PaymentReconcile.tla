--------------------------- MODULE PaymentReconcile ---------------------------
(* reconcilePayment() of src/engine/reconcile.ts: what the scheduled check    *)
(* finds wrong with a payment.  It only reads, and compares rows the engine   *)
(* writes in different transactions.  Two of its checks are left out: the     *)
(* ledger balance is a matter of amounts, the dwell check one of the clock.   *)
EXTENDS PaymentEngineInv

NoChainReceipt  == status \in PastFunding /\ chainTx = {}
NoConversion    == status = "COMPLETED" /\ conversions = <<>>
NoSettlement    == status = "COMPLETED" /\ settlements = <<>>

(* The checks that fire, by name.  Every row of a leg is inserted with its    *)
(* reference, so a missing reference is a missing row.                        *)
Issues ==
  { check \in {"chain-receipt", "conversion-ref", "settlement-ref"} :
      \/ check = "chain-receipt" /\ NoChainReceipt
      \/ check = "conversion-ref" /\ NoConversion
      \/ check = "settlement-ref" /\ NoSettlement }

(* No payment past its funding is ever found without its chain record, in the *)
(* middle of a call, after a crash or after an overwritten status.            *)
ReceiptAlwaysThere == "chain-receipt" \notin Issues

(* A completed payment always has its legs on record, the ones rebuilt for an *)
(* operator included: the reconciler raises no alarm on what the engine did   *)
(* right.                                                                     *)
ReconcilerQuiet == Issues = {}
==============================================================================
