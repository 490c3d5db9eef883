----------------------- MODULE PaymentLifecycleProofs -------------------------
(* The abstract promise: confirming the crypto is the point of no return.     *)
EXTENDS PaymentLifecycle, TLAPS

(* Once funded, the payment is never again cancelled, expired, failed or      *)
(* authorized: every behaviour of the lifecycle, and so every behaviour of an *)
(* engine that implements it, stays past the funding or under review.         *)
THEOREM NoReturn == Spec => []PointOfNoReturn
<1> USE DEF PointOfNoReturn, PastFunding
<1>1. Init => PointOfNoReturn
  BY DEF Init
<1>2. PointOfNoReturn /\ [Next]_<<status, funded>> => PointOfNoReturn'
  <2>1. ASSUME PointOfNoReturn, Advance
        PROVE  PointOfNoReturn'
    <3>1. PICK s \in Edges[status] :
            status' = s /\ funded' = (funded \/ s \in PastFunding)
      BY <2>1 DEF Advance
    <3>2. status \in PastFunding => s \in PastFunding \cup {"RECONCILIATION_REQUIRED"}
      BY <3>1 DEF Edges
    <3> QED BY <2>1, <3>1, <3>2 DEF Advance
  <2>2. ASSUME PointOfNoReturn, Resolve
        PROVE  PointOfNoReturn'
    BY <2>2 DEF Resolve
  <2>3. ASSUME PointOfNoReturn, UNCHANGED <<status, funded>>
        PROVE  PointOfNoReturn'
    BY <2>3
  <2> QED BY <2>1, <2>2, <2>3 DEF Next
<1> QED BY <1>1, <1>2, PTL DEF Spec
==============================================================================
