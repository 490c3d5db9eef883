------------------------- MODULE PaymentEngineProofs -------------------------
(* Type correctness of PaymentEngine, its inductive invariant IInv, and the   *)
(* safety properties that follow, for every set of requests, every choice of  *)
(* operations and providers and every bound.                                  *)
EXTENDS PaymentEngineInv, PaymentReconcile, SequenceTheorems, TLAPS

------------------------------------------------------------------------------
(* Types.                                                                     *)

LEMMA StatesAre ==
  States = {"CREATED", "QUOTED", "AUTHORIZED", "CRYPTO_SUBMITTED", "CRYPTO_CONFIRMED",
            "CONVERSION_PENDING", "FIAT_SETTLEMENT_PENDING", "REFUND_REQUIRED",
            "RECONCILIATION_REQUIRED", "COMPLETED", "EXPIRED", "FAILED", "REFUNDED"}
BY DEF States, Edges

(* An edge leads from a state to a state.                                     *)
LEMMA EdgeToState ==
  ASSUME NEW s \in States
  PROVE  Edges[s] \subseteq States
BY StatesAre DEF Edges

LEMMA IdleType == Idle \in Request
BY DEF Idle, Request, Programs, NoState, Results

(* Setting one field of one request keeps the requests typed.                 *)
LEMMA SetField ==
  ASSUME NEW x \in [Requests -> Request], NEW r \in Requests
  PROVE  /\ \A p \in Programs : [x EXCEPT ![r].pc = p] \in [Requests -> Request]
         /\ \A s \in States : [x EXCEPT ![r].to = s] \in [Requests -> Request]
         /\ \A b \in BOOLEAN : [x EXCEPT ![r].replay = b] \in [Requests -> Request]
         /\ \A n \in Nat : /\ [x EXCEPT ![r].hash = n] \in [Requests -> Request]
                           /\ [x EXCEPT ![r].ref = n] \in [Requests -> Request]
                           /\ [x EXCEPT ![r].leg = n] \in [Requests -> Request]
                           /\ [x EXCEPT ![r].task = n] \in [Requests -> Request]
         /\ \A y \in Results : [x EXCEPT ![r].result = y] \in [Requests -> Request]
BY DEF Request

(* What a step leaves of the requests and of the mutex.                       *)
InFlight == req' \in [Requests -> Request] /\ locks' \in Requests \cup {None} /\ Targeted'

TypeInv == TypeOK /\ Targeted

(* Typed requests of which one has moved have their targets if that one has.  *)
LEMMA OneMoved ==
  ASSUME TypeInv, NEW r \in Requests, req' \in [Requests -> Request],
         \A q \in Requests \ {r} : req'[q] = req[q],
         req'[r].pc \in {"read", "commit", "review"} => req'[r].to \in States,
         locks' \in Requests \cup {None}
  PROVE  InFlight
BY DEF InFlight, TypeInv, Targeted

(* The ways a request moves that set none of its other locals.                *)
Moves(r) ==
  \/ \E p \in Programs \ {"read", "commit", "review"} : Goto(r, p) \/ Enter(r, p)
  \/ \E s \in States : Transition(r, s)
  \/ Return(r)

LEMMA MovesType ==
  ASSUME TypeInv, NEW r \in Requests, Moves(r)
  PROVE  InFlight
<1>1. req \in [Requests -> Request] /\ locks \in Requests \cup {None}
  BY DEF TypeInv, TypeOK
<1>2. ASSUME NEW p \in Programs \ {"read", "commit", "review"}, Goto(r, p)
      PROVE  InFlight
  <2>1. req' \in [Requests -> Request] /\ locks' \in Requests \cup {None}
    BY <1>1, <1>2, SetField DEF Goto
  <2>2. req'[r].pc = p /\ \A q \in Requests \ {r} : req'[q] = req[q]
    BY <1>1, <1>2 DEF Goto, Request
  <2> QED BY <2>1, <2>2, OneMoved
<1>3. ASSUME NEW p \in Programs \ {"read", "commit", "review"}, Enter(r, p)
      PROVE  InFlight
  <2>1. [Idle EXCEPT !.pc = p] \in Request /\ [Idle EXCEPT !.pc = p].pc = p
    BY IdleType DEF Request
  <2>2. req' \in [Requests -> Request] /\ locks' \in Requests \cup {None}
    BY <1>1, <1>3, <2>1 DEF Enter
  <2>3. req'[r].pc = p /\ \A q \in Requests \ {r} : req'[q] = req[q]
    BY <1>1, <1>3, <2>1 DEF Enter
  <2> QED BY <2>2, <2>3, OneMoved
<1>4. ASSUME NEW s \in States, Transition(r, s)
      PROVE  InFlight
  <2>1. [req EXCEPT ![r].pc = "read"] \in [Requests -> Request]
    BY <1>1, SetField DEF Programs
  <2>2. req' \in [Requests -> Request] /\ locks' \in Requests \cup {None}
    BY <1>1, <1>4, <2>1, SetField DEF Transition
  <2>3. req'[r].to = s /\ \A q \in Requests \ {r} : req'[q] = req[q]
    BY <1>1, <1>4 DEF Transition, Request
  <2> QED BY <2>2, <2>3, OneMoved
<1>5. CASE Return(r)
  <2>1. req' \in [Requests -> Request] /\ locks' \in Requests \cup {None}
    BY <1>1, <1>5, IdleType DEF Return
  <2>2. req'[r].pc = "idle" /\ \A q \in Requests \ {r} : req'[q] = req[q]
    BY <1>1, <1>5 DEF Return, Idle
  <2> QED BY <2>1, <2>2, OneMoved
<1> QED BY <1>2, <1>3, <1>4, <1>5 DEF Moves

LEMMA StoredType ==
  ASSUME TypeInv, UNCHANGED stored, InFlight
  PROVE  TypeInv'
BY DEF TypeInv, TypeOK, InFlight, stored, intent, books, rows, world, budget

(* Every step that only reads: it moves its request and stores nothing.       *)
LEMMA ReadOnlySteps ==
  ASSUME NEW r \in Requests,
         \/ Authorize(r) \/ Cancel(r) \/ Refund(r) \/ WaitConfirmations(r)
         \/ ResumeConversion(r) \/ RunConversionLeg(r) \/ ResumeSettlement(r)
         \/ BeginSettlement(r) \/ Poll(r) \/ CompleteSettlement(r)
         \/ WebhookLeg(r) \/ WebhookIntent(r) \/ OperatorIntent(r)
  PROVE  UNCHANGED stored /\ Moves(r)
<1> USE StatesAre DEF Moves, Programs
<1>1. CASE Authorize(r) BY <1>1 DEF Authorize
<1>2. CASE Cancel(r) BY <1>2 DEF Cancel
<1>3. CASE Refund(r) BY <1>3 DEF Refund
<1>4. CASE WaitConfirmations(r) BY <1>4 DEF WaitConfirmations
<1>5. CASE ResumeConversion(r) BY <1>5 DEF ResumeConversion
<1>6. CASE RunConversionLeg(r) BY <1>6 DEF RunConversionLeg
<1>7. CASE ResumeSettlement(r) BY <1>7 DEF ResumeSettlement
<1>8. CASE BeginSettlement(r) BY <1>8 DEF BeginSettlement
<1>9. CASE Poll(r) BY <1>9 DEF Poll
<1>10. CASE CompleteSettlement(r) BY <1>10 DEF CompleteSettlement
<1>11. CASE WebhookLeg(r) BY <1>11 DEF WebhookLeg
<1>12. CASE WebhookIntent(r) BY <1>12 DEF WebhookIntent
<1>13. CASE OperatorIntent(r) BY <1>13 DEF OperatorIntent
<1> QED BY <1>1, <1>2, <1>3, <1>4, <1>5, <1>6, <1>7, <1>8, <1>9, <1>10, <1>11,
           <1>12, <1>13

LEMMA ReadOnlyType ==
  ASSUME TypeInv, NEW r \in Requests,
         \/ Authorize(r) \/ Cancel(r) \/ Refund(r) \/ WaitConfirmations(r)
         \/ ResumeConversion(r) \/ RunConversionLeg(r) \/ ResumeSettlement(r)
         \/ BeginSettlement(r) \/ Poll(r) \/ CompleteSettlement(r)
         \/ WebhookLeg(r) \/ WebhookIntent(r) \/ OperatorIntent(r)
  PROVE  TypeInv'
BY ReadOnlySteps, MovesType, StoredType

------------------------------------------------------------------------------
(* A request that moves and sets one of its locals: to a natural number (the  *)
(* hash, a reference, a leg or a task), or to a result.                       *)
SetsNumber(r, p) ==
  \E n \in Nat :
    \/ req' = [req EXCEPT ![r].pc = p, ![r].hash = n]
    \/ req' = [req EXCEPT ![r].pc = p, ![r].ref = n]
    \/ req' = [req EXCEPT ![r].pc = p, ![r].leg = n]

LEMMA SetsNumberType ==
  ASSUME TypeInv, NEW r \in Requests, UNCHANGED locks,
         NEW p \in Programs \ {"read", "commit", "review"}, SetsNumber(r, p)
  PROVE  InFlight
<1>1. req \in [Requests -> Request] /\ locks' \in Requests \cup {None}
  BY DEF TypeInv, TypeOK
<1>2. [req EXCEPT ![r].pc = p] \in [Requests -> Request]
  BY <1>1, SetField
<1>3. req' \in [Requests -> Request]
  BY <1>2, SetField DEF SetsNumber
<1>4. req'[r].pc = p /\ \A q \in Requests \ {r} : req'[q] = req[q]
  BY <1>1 DEF SetsNumber, Request
<1> QED BY <1>1, <1>3, <1>4, OneMoved

------------------------------------------------------------------------------
(* The steps that write, one lemma each.                                      *)

LEMMA TransitionReadType ==
  ASSUME TypeInv, NEW r \in Requests, TransitionRead(r)
  PROVE  TypeInv'
<1>1. req \in [Requests -> Request] /\ locks \in Requests \cup {None}
  BY DEF TypeInv, TypeOK
<1>2. CASE req' = [req EXCEPT ![r].pc = "commit", ![r].replay = (status = req[r].to)]
           /\ UNCHANGED locks
  <2>1. [req EXCEPT ![r].pc = "commit"] \in [Requests -> Request]
    BY <1>1, SetField DEF Programs
  <2>2. req' \in [Requests -> Request]
    BY <1>2, <2>1, SetField
  <2>3. req'[r].to = req[r].to /\ \A q \in Requests \ {r} : req'[q] = req[q]
    BY <1>1, <1>2 DEF Request
  <2>4. req[r].to \in States
    BY DEF TypeInv, Targeted, TransitionRead, At
  <2> QED BY <1>1, <1>2, <2>2, <2>3, <2>4, OneMoved, StoredType DEF TransitionRead
<1>3. CASE Return(r)
  BY <1>3, MovesType, StoredType DEF Moves, TransitionRead
<1> QED BY <1>2, <1>3 DEF TransitionRead

LEMMA ContinueType ==
  ASSUME TypeInv, NEW r \in Requests, NEW s \in States, Continue(r, s)
  PROVE  InFlight
<1>1. Moves(r)
  BY StatesAre DEF Continue, Moves, Programs
<1> QED BY <1>1, MovesType

LEMMA PostEntriesType ==
  ASSUME ledger \in [Groups -> Nat], NEW s \in States, PostEntries(s)
  PROVE  ledger' \in [Groups -> Nat]
<1>1. s \in DOMAIN Posting => Posting[s] \in Groups
  BY DEF Posting, Groups
<1> QED BY <1>1 DEF PostEntries

LEMMA CompleteLegsType ==
  ASSUME settlements \in Seq([status : {"PENDING", "COMPLETED"}, ref : Nat]),
         NEW r, NEW s \in States, CompleteLegs(r, s)
  PROVE  settlements' \in Seq([status : {"PENDING", "COMPLETED"}, ref : Nat])
<1> DEFINE Leg == [status : {"PENDING", "COMPLETED"}, ref : Nat]
           row(i) == IF s = "COMPLETED" /\ settlements[i].ref = req[r].ref
                       THEN [settlements[i] EXCEPT !.status = "COMPLETED"]
                       ELSE settlements[i]
<1>1. PICK n \in Nat : DOMAIN settlements = 1..n
  BY LenProperties
<1>2. ASSUME NEW i \in 1..n
      PROVE  row(i) \in Leg
  <2>1. settlements[i] \in Leg
    BY <1>1, ElementOfSeq, LenProperties
  <2> QED BY <2>1
<1>3. settlements' = [i \in 1..n |-> row(i)]
  BY <1>1 DEF CompleteLegs
<1> HIDE DEF row
<1>4. settlements' \in [1..n -> Leg]
  BY <1>2, <1>3
<1> QED BY <1>1, <1>4, SeqDef

LEMMA TransitionCommitType ==
  ASSUME TypeInv, NEW r \in Requests, TransitionCommit(r)
  PROVE  TypeInv'
<1> DEFINE s == req[r].to
<1>1. s \in States
  BY DEF TypeInv, Targeted, TransitionCommit, At
<1>2. InFlight
  BY <1>1, ContinueType DEF TransitionCommit
<1>3. status' \in States /\ attempts' \in [States -> Nat]
  BY <1>1 DEF TypeInv, TypeOK, TransitionCommit
<1>4. ledger' \in [Groups -> Nat]
  BY <1>1, PostEntriesType DEF TypeInv, TypeOK, TransitionCommit
<1>5. settlements' \in Seq([status : {"PENDING", "COMPLETED"}, ref : Nat])
  BY <1>1, CompleteLegsType DEF TypeInv, TypeOK, TransitionCommit
<1>6. req[r].hash \in Nat
  BY DEF TypeInv, TypeOK, Request
<1>7. chainTx' \subseteq Nat
  BY <1>6 DEF TypeInv, TypeOK, TransitionCommit, RecordChainTx
<1> QED BY <1>2, <1>3, <1>4, <1>5, <1>7
        DEF TypeInv, TypeOK, InFlight, TransitionCommit, world, budget

LEMMA ExecuteType ==
  ASSUME TypeInv, NEW r \in Requests, Execute(r)
  PROVE  TypeInv'
<1>1. req \in [Requests -> Request]
  BY DEF TypeInv, TypeOK
<1>2. ASSUME NEW p \in Programs \ {"read", "commit", "review"},
             req' = [req EXCEPT ![r].pc = p]
      PROVE  InFlight
  <2>1. req' \in [Requests -> Request]
    BY <1>1, <1>2, SetField
  <2>2. req'[r].pc = p /\ \A q \in Requests \ {r} : req'[q] = req[q]
    BY <1>1, <1>2 DEF Request
  <2> QED BY <2>1, <2>2, OneMoved DEF Execute
<1>3. CASE req' = [req EXCEPT ![r].pc = "read", ![r].to = "CRYPTO_SUBMITTED"]
  <2>1. [req EXCEPT ![r].pc = "read"] \in [Requests -> Request]
    BY <1>1, SetField DEF Programs
  <2>2. req' \in [Requests -> Request]
    BY <1>3, <2>1, SetField, StatesAre
  <2>3. req'[r].to = "CRYPTO_SUBMITTED" /\ \A q \in Requests \ {r} : req'[q] = req[q]
    BY <1>1, <1>3 DEF Request
  <2>4. InFlight
    BY <2>2, <2>3, OneMoved, StatesAre DEF Execute
  <2> QED BY <2>4, StoredType DEF Execute
<1>4. CASE \E p \in {"resumeFunding", "resumeConversion", "resumeSettlement"} :
             req' = [req EXCEPT ![r].pc = p]
  BY <1>2, <1>4, StoredType DEF Execute, Programs
<1> QED BY <1>3, <1>4 DEF Execute

LEMMA BroadcastType ==
  ASSUME TypeInv, NEW r \in Requests, Broadcast(r)
  PROVE  TypeInv'
<1>1. broadcasts' \in Nat
  BY DEF TypeInv, TypeOK, Broadcast
<1>2. InFlight
  <2>1. CASE /\ req' = [req EXCEPT ![r].pc = "record", ![r].hash = broadcasts + 1]
             /\ UNCHANGED locks
    <3>1. broadcasts + 1 \in Nat
      BY DEF TypeInv, TypeOK
    <3> QED BY <2>1, <3>1, SetsNumberType DEF SetsNumber, Programs
  <2>2. CASE Transition(r, "RECONCILIATION_REQUIRED")
    BY <2>2, StatesAre, MovesType DEF Moves
  <2> QED BY <2>1, <2>2 DEF Broadcast
<1> QED BY <1>1, <1>2
        DEF TypeInv, TypeOK, InFlight, Broadcast, intent, books, rows, budget

LEMMA RecordHashType ==
  ASSUME TypeInv, NEW r \in Requests, RecordHash(r)
  PROVE  TypeInv'
<1>1. InFlight
  BY MovesType DEF RecordHash, Moves, Programs
<1>2. txHash' \in Nat
  BY DEF TypeInv, TypeOK, Request, RecordHash
<1> QED BY <1>1, <1>2
        DEF TypeInv, TypeOK, InFlight, RecordHash, intent, books, rows, world, budget

LEMMA ResumeFundingType ==
  ASSUME TypeInv, NEW r \in Requests, ResumeFunding(r)
  PROVE  TypeInv'
<1>1. CASE Transition(r, "RECONCILIATION_REQUIRED")
  BY <1>1, StatesAre, MovesType, StoredType DEF ResumeFunding, Moves
<1>2. CASE /\ req' = [req EXCEPT ![r].pc = "confirm", ![r].hash = txHash]
           /\ UNCHANGED locks
  <2>1. InFlight
    BY <1>2, SetsNumberType DEF SetsNumber, Programs, TypeInv, TypeOK
  <2> QED BY <2>1, StoredType DEF ResumeFunding
<1> QED BY <1>1, <1>2 DEF ResumeFunding

LEMMA TaskAppended ==
  ASSUME NEW k \in {"CONVERSION", "FIAT_SETTLEMENT"},
         tasks \in Seq([kind : {"CONVERSION", "FIAT_SETTLEMENT"}, result : Results])
  PROVE  Append(tasks, [kind |-> k, result |-> "none"])
           \in Seq([kind : {"CONVERSION", "FIAT_SETTLEMENT"}, result : Results])
<1>1. [kind |-> k, result |-> "none"]
        \in [kind : {"CONVERSION", "FIAT_SETTLEMENT"}, result : Results]
  BY DEF Results
<1> QED BY <1>1, AppendProperties

LEMMA OffRampExecuteType ==
  ASSUME TypeInv, NEW r \in Requests, OffRampExecute(r)
  PROVE  TypeInv'
<1>1. req \in [Requests -> Request] /\ locks \in Requests \cup {None}
  BY DEF TypeInv, TypeOK
<1>2. tasks' \in Seq([kind : {"CONVERSION", "FIAT_SETTLEMENT"}, result : Results])
  BY TaskAppended DEF TypeInv, TypeOK, OffRampExecute, FileConversion
<1>3. ASSUME NEW x \in {"full", "short"}, UNCHANGED locks,
             req' = [req EXCEPT ![r].pc = "insertConversion", ![r].result = x]
      PROVE  InFlight
  <2>1. [req EXCEPT ![r].pc = "insertConversion"] \in [Requests -> Request]
    BY <1>1, SetField DEF Programs
  <2>2. req' \in [Requests -> Request]
    BY <1>3, <2>1, SetField DEF Results
  <2>3. req'[r].pc = "insertConversion" /\ \A q \in Requests \ {r} : req'[q] = req[q]
    BY <1>1, <1>3 DEF Request
  <2> QED BY <1>1, <1>3, <2>2, <2>3, OneMoved
<1>4. ASSUME \/ Goto(r, "insertConversion") \/ Transition(r, "RECONCILIATION_REQUIRED")
      PROVE  InFlight
  BY <1>4, StatesAre, MovesType DEF Moves, Programs
<1>5. InFlight
  BY <1>3, <1>4 DEF OffRampExecute
<1> QED BY <1>2, <1>5
        DEF TypeInv, TypeOK, InFlight, OffRampExecute, intent, books, world, budget

LEMMA LegOfType ==
  ASSUME NEW x \in Results
  PROVE  LegOf(x) \in LegStatus
BY DEF LegOf, LegStatus

LEMMA InsertConversionType ==
  ASSUME TypeInv, NEW r \in Requests, InsertConversion(r)
  PROVE  TypeInv'
<1>1. LegOf(req[r].result) \in LegStatus
  BY LegOfType DEF TypeInv, TypeOK, Request
<1>2. InFlight
  <2>1. Return(r) \/ Transition(r, "RECONCILIATION_REQUIRED") \/ Enter(r, "settle")
    BY <1>1 DEF InsertConversion, LegStatus
  <2> QED BY <2>1, MovesType, StatesAre DEF Moves, Programs
<1>3. conversions' \in Seq(LegStatus)
  BY <1>1, AppendProperties DEF TypeInv, TypeOK, InsertConversion
<1> QED BY <1>2, <1>3
        DEF TypeInv, TypeOK, InFlight, InsertConversion, intent, books, world, budget

(* Reading and writing a row of a sequence of rows; a write outside the rows *)
(* changes nothing.                                                           *)
LEMMA RowRead ==
  ASSUME NEW Row, NEW x \in Seq(Row), NEW i \in DOMAIN x
  PROVE  x[i] \in Row
<1>1. i \in 1..Len(x)
  BY LenProperties
<1> QED BY <1>1, ElementOfSeq

LEMMA RowWritten ==
  ASSUME NEW Row, NEW x \in Seq(Row), NEW i, NEW y,
         i \in DOMAIN x => y \in Row
  PROVE  [x EXCEPT ![i] = y] \in Seq(Row)
<1>1. DOMAIN x = 1..Len(x)
  BY LenProperties
<1>2. CASE i \in DOMAIN x
  BY <1>1, <1>2, ExceptSeq
<1>3. CASE i \notin DOMAIN x
  <2>1. x = [j \in DOMAIN x |-> x[j]]
    BY LenProperties
  <2>2. [x EXCEPT ![i] = y] = x
    BY <1>3, <2>1
  <2> QED BY <2>2
<1> QED BY <1>2, <1>3

SettlementLeg == [status : {"PENDING", "COMPLETED"}, ref : Nat]

LEMMA FindOpenLegType ==
  ASSUME TypeInv, NEW r \in Requests, FindOpenLeg(r)
  PROVE  TypeInv'
<1>1. ASSUME NEW i \in DOMAIN settlements, UNCHANGED locks,
             req' = [req EXCEPT ![r].pc = "poll", ![r].ref = settlements[i].ref]
      PROVE  InFlight
  <2>1. settlements \in Seq(SettlementLeg)
    BY DEF TypeInv, TypeOK, SettlementLeg
  <2>2. settlements[i] \in SettlementLeg
    BY <2>1, RowRead
  <2>3. settlements[i].ref \in Nat
    BY <2>2 DEF SettlementLeg
  <2> QED BY <1>1, <2>3, SetsNumberType DEF SetsNumber, Programs
<1>2. CASE Goto(r, "createPayment")
  BY <1>2, MovesType, StoredType DEF Moves, Programs, FindOpenLeg
<1> QED BY <1>1, <1>2, StoredType DEF FindOpenLeg

LEMMA CreatePaymentType ==
  ASSUME TypeInv, NEW r \in Requests, CreatePayment(r)
  PROVE  TypeInv'
<1>1. Len(tasks) + 1 \in Nat
  BY LenProperties DEF TypeInv, TypeOK
<1>2. InFlight
  <2>1. SetsNumber(r, "insertSettlement")
    BY <1>1 DEF CreatePayment, SetsNumber
  <2> QED BY <2>1, SetsNumberType DEF Programs, CreatePayment
<1>3. tasks' \in Seq([kind : {"CONVERSION", "FIAT_SETTLEMENT"}, result : Results])
  BY TaskAppended DEF TypeInv, TypeOK, CreatePayment
<1>4. order' \in OrderStatus
  BY DEF TypeInv, TypeOK, CreatePayment, OrderStatus
<1> QED BY <1>2, <1>3, <1>4
        DEF TypeInv, TypeOK, InFlight, CreatePayment, intent, books, budget

LEMMA LegInserted ==
  ASSUME settlements \in Seq([status : {"PENDING", "COMPLETED"}, ref : Nat]), NEW n \in Nat
  PROVE  Append(settlements, [status |-> "PENDING", ref |-> n])
           \in Seq([status : {"PENDING", "COMPLETED"}, ref : Nat])
<1>1. [status |-> "PENDING", ref |-> n] \in [status : {"PENDING", "COMPLETED"}, ref : Nat]
  OBVIOUS
<1> QED BY <1>1, AppendProperties

LEMMA InsertSettlementType ==
  ASSUME TypeInv, NEW r \in Requests,
         \/ InsertSettlement(r)
         \/ OperatorSettleInsert(r)
  PROVE  TypeInv'
<1>1. req[r].ref \in Nat /\ req[r].task \in Nat
  BY DEF TypeInv, TypeOK, Request
<1>2. InFlight
  BY MovesType DEF InsertSettlement, OperatorSettleInsert, Moves, Programs
<1>3. settlements' \in Seq([status : {"PENDING", "COMPLETED"}, ref : Nat])
  BY <1>1, LegInserted DEF TypeInv, TypeOK, InsertSettlement, OperatorSettleInsert
<1> QED BY <1>2, <1>3
        DEF TypeInv, TypeOK, InFlight, InsertSettlement, OperatorSettleInsert, intent,
            books, world, budget

(* References are numbers of the provider's, or of tasks.                     *)
LEMMA ReferencesAre ==
  ASSUME TypeOK
  PROVE  References \subseteq Nat
<1>1. tasks \in Seq([kind : {"CONVERSION", "FIAT_SETTLEMENT"}, result : Results])
  BY DEF TypeOK
<1>2. DOMAIN tasks = 1 .. Len(tasks) /\ Len(tasks) \in Nat BY <1>1, LenProperties
<1> QED BY <1>2 DEF References

LEMMA WebhookType ==
  ASSUME TypeInv, NEW r \in Requests, Webhook(r)
  PROVE  TypeInv'
<1>1. InFlight
  <2>1. PICK ref \in References : req' = [req EXCEPT ![r].pc = "webhookLeg", ![r].ref = ref]
    BY DEF Webhook
  <2>2. ref \in Nat BY ReferencesAre DEF TypeInv
  <2>3. SetsNumber(r, "webhookLeg") /\ UNCHANGED locks BY <2>1, <2>2 DEF SetsNumber, Webhook
  <2> QED BY <2>3, SetsNumberType DEF Programs
<1> QED BY <1>1
        DEF TypeInv, TypeOK, InFlight, Webhook, intent, books, world, budget

LEMMA OperatorType ==
  ASSUME TypeInv, NEW r \in Requests, Operator(r)
  PROVE  TypeInv'
<1>1. req \in [Requests -> Request]
  BY DEF TypeInv, TypeOK
<1>2. tasks \in Seq([kind : {"CONVERSION", "FIAT_SETTLEMENT"}, result : Results])
  BY DEF TypeInv, TypeOK
<1>3. PICK t \in DOMAIN tasks, x \in Results :
        /\ req' = [req EXCEPT ![r].pc = "opIntent", ![r].task = t, ![r].result = x]
        /\ UNCHANGED <<stored, locks>>
  BY DEF Operator, Report
<1>4. t \in Nat
  BY <1>2, LenProperties
<1>5. [req EXCEPT ![r].pc = "opIntent"] \in [Requests -> Request]
  BY <1>1, SetField DEF Programs
<1>6. [req EXCEPT ![r].pc = "opIntent", ![r].task = t] \in [Requests -> Request]
  BY <1>4, <1>5, SetField
<1>7. req' \in [Requests -> Request]
  BY <1>3, <1>6, SetField
<1>8. req'[r].pc = "opIntent" /\ \A q \in Requests \ {r} : req'[q] = req[q]
  BY <1>1, <1>3 DEF Request
<1>9. InFlight
  BY <1>3, <1>7, <1>8, OneMoved DEF TypeInv, TypeOK
<1> QED BY <1>3, <1>9, StoredType

LEMMA MarkTaskType ==
  ASSUME TypeInv, NEW r \in Requests, MarkTask(r)
  PROVE  TypeInv'
<1> DEFINE Task == [kind : {"CONVERSION", "FIAT_SETTLEMENT"}, result : Results]
           t == req[r].task
<1>1. InFlight
  <2>1. \/ Goto(r, "opLegs") \/ Goto(r, "complete") \/ Transition(r, "REFUND_REQUIRED")
    BY DEF MarkTask
  <2> QED BY <2>1, MovesType, StatesAre DEF Moves, Programs
<1>2. tasks \in Seq(Task) /\ req[r].result \in Results
  BY DEF TypeInv, TypeOK, Request
<1>3. tasks' \in Seq(Task)
  <2>1. ASSUME t \in DOMAIN tasks
        PROVE  [tasks[t] EXCEPT !.result = req[r].result] \in Task
    <3>1. tasks[t] \in Task
      BY <1>2, <2>1, RowRead
    <3> QED BY <1>2, <3>1
  <2>2. tasks' = [tasks EXCEPT ![t] = [tasks[t] EXCEPT !.result = req[r].result]]
    BY DEF MarkTask
  <2> HIDE DEF t, Task
  <2> QED BY <1>2, <2>1, <2>2, RowWritten
<1> QED BY <1>1, <1>3
        DEF TypeInv, TypeOK, InFlight, MarkTask, intent, books, world, budget

LEMMA OperatorLegsType ==
  ASSUME TypeInv, NEW r \in Requests, OperatorLegs(r)
  PROVE  TypeInv'
<1>1. ASSUME NEW i \in DOMAIN conversions, UNCHANGED locks,
             req' = [req EXCEPT ![r].pc = "opUpdate", ![r].leg = i]
      PROVE  InFlight
  <2>1. i \in Nat
    BY LenProperties DEF TypeInv, TypeOK
  <2> QED BY <1>1, <2>1, SetsNumberType DEF SetsNumber, Programs
<1>2. CASE Goto(r, "opInsert")
  BY <1>2, MovesType, StoredType DEF Moves, Programs, OperatorLegs
<1> QED BY <1>1, <1>2, StoredType DEF OperatorLegs

LEMMA OperatorInsertType ==
  ASSUME TypeInv, NEW r \in Requests, OperatorInsert(r)
  PROVE  TypeInv'
<1>1. InFlight
  BY MovesType DEF OperatorInsert, Moves, Programs
<1>2. conversions' \in Seq(LegStatus)
  BY AppendProperties DEF TypeInv, TypeOK, OperatorInsert, LegStatus
<1> QED BY <1>1, <1>2
        DEF TypeInv, TypeOK, InFlight, OperatorInsert, intent, books, world, budget

LEMMA OperatorUpdateType ==
  ASSUME TypeInv, NEW r \in Requests, OperatorUpdate(r)
  PROVE  TypeInv'
<1>1. InFlight
  BY MovesType, StatesAre DEF OperatorUpdate, Moves, Programs
<1>2. conversions' \in Seq(LegStatus)
  <2>1. LegOf(req[r].result) \in LegStatus
    BY LegOfType DEF TypeInv, TypeOK, Request
  <2> QED BY <2>1, RowWritten DEF TypeInv, TypeOK, OperatorUpdate
<1> QED BY <1>1, <1>2
        DEF TypeInv, TypeOK, InFlight, OperatorUpdate, intent, books, world, budget

LEMMA OperatorSettleLegsType ==
  ASSUME TypeInv, NEW r \in Requests, OperatorSettleLegs(r)
  PROVE  TypeInv'
<1>1. ASSUME NEW i \in DOMAIN settlements, UNCHANGED locks,
             req' = [req EXCEPT ![r].pc = "opMark", ![r].ref = settlements[i].ref]
      PROVE  InFlight
  <2>1. settlements \in Seq(SettlementLeg)
    BY DEF TypeInv, TypeOK, SettlementLeg
  <2>2. settlements[i] \in SettlementLeg
    BY <2>1, RowRead
  <2>3. settlements[i].ref \in Nat
    BY <2>2 DEF SettlementLeg
  <2> QED BY <1>1, <2>3, SetsNumberType DEF SetsNumber, Programs
<1>2. CASE Goto(r, "opSettleInsert")
  BY <1>2, MovesType, StoredType DEF Moves, Programs, OperatorSettleLegs
<1> QED BY <1>1, <1>2, StoredType DEF OperatorSettleLegs

LEMMA ReviewType ==
  ASSUME TypeInv, NEW r \in Requests, Review(r)
  PROVE  TypeInv'
<1>1. req \in [Requests -> Request]
  BY DEF TypeInv, TypeOK
<1>2. PICK s \in Edges["RECONCILIATION_REQUIRED"] :
        req' = [req EXCEPT ![r].pc = "review", ![r].to = s]
  BY DEF Review
<1>3. s \in States
  BY EdgeToState, StatesAre
<1>4. [req EXCEPT ![r].pc = "review"] \in [Requests -> Request]
  BY <1>1, SetField DEF Programs
<1>5. req' \in [Requests -> Request]
  BY <1>2, <1>3, <1>4, SetField
<1>6. req'[r].to = s /\ \A q \in Requests \ {r} : req'[q] = req[q]
  BY <1>1, <1>2 DEF Request
<1>7. InFlight
  BY <1>3, <1>5, <1>6, OneMoved DEF Review, TypeInv, TypeOK
<1> QED BY <1>7
        DEF TypeInv, TypeOK, InFlight, Review, intent, books, rows, world

LEMMA ReviewTrailType ==
  ASSUME TypeInv, NEW r \in Requests, ReviewTrail(r)
  PROVE  TypeInv'
<1>1. req \in [Requests -> Request]
  BY DEF TypeInv, TypeOK
<1>2. CASE Goto(r, "read")
  <2>1. req' \in [Requests -> Request] /\ UNCHANGED locks
    BY <1>1, <1>2, SetField DEF Goto, Programs
  <2>2. req'[r].to = req[r].to /\ \A q \in Requests \ {r} : req'[q] = req[q]
    BY <1>1, <1>2 DEF Goto, Request
  <2>3. req[r].to \in States
    BY DEF TypeInv, Targeted, ReviewTrail, At
  <2>4. InFlight
    BY <2>1, <2>2, <2>3, OneMoved DEF TypeInv, TypeOK
  <2> QED BY <2>4, StoredType DEF ReviewTrail
<1>3. CASE Return(r)
  BY <1>3, MovesType, StoredType DEF Moves, ReviewTrail
<1> QED BY <1>2, <1>3 DEF ReviewTrail

LEMMA WorldType ==
  ASSUME TypeInv, ChainConfirms \/ ProviderSettles
  PROVE  TypeInv'
<1>1. mined' \subseteq Nat /\ order' \in OrderStatus
  <2>1. CASE ChainConfirms
    BY <2>1 DEF TypeInv, TypeOK, ChainConfirms
  <2>2. CASE ProviderSettles
    BY <2>2 DEF TypeInv, TypeOK, ProviderSettles, OrderStatus
  <2> QED BY <2>1, <2>2
<1>2. UNCHANGED <<intent, txHash, books, rows, broadcasts, budget, locks, req>>
  BY DEF ChainConfirms, ProviderSettles
<1>3. InFlight
  BY <1>2 DEF TypeInv, TypeOK, InFlight, Targeted
<1> QED BY <1>1, <1>2, <1>3
        DEF TypeInv, TypeOK, InFlight, intent, books, rows, budget

LEMMA RejectType ==
  ASSUME TypeInv, NEW r \in Requests, Reject(r)
  PROVE  TypeInv'
<1>1. InFlight
  BY MovesType DEF Reject, Moves
<1> QED BY <1>1
        DEF TypeInv, TypeOK, InFlight, Reject, intent, books, rows, world

LEMMA CrashType ==
  ASSUME TypeInv, Crash
  PROVE  TypeInv'
<1>1. InFlight
  BY IdleType DEF Crash, InFlight, Targeted, Idle
<1> QED BY <1>1
        DEF TypeInv, TypeOK, InFlight, Crash, intent, books, rows, world

------------------------------------------------------------------------------
(* Together.                                                                  *)

LEMMA OpenedType ==
  ASSUME NEW path, NEW end \in States, Opened(path, end)
  PROVE  TypeInv
<1>1. req \in [Requests -> Request] /\ Targeted
  BY IdleType DEF Opened, Targeted, Idle
<1>2. conversions \in Seq(LegStatus)
      /\ settlements \in Seq([status : {"PENDING", "COMPLETED"}, ref : Nat])
      /\ tasks \in Seq([kind : {"CONVERSION", "FIAT_SETTLEMENT"}, result : Results])
  BY EmptySeq DEF Opened
<1> QED BY <1>1, <1>2 DEF TypeInv, TypeOK, Opened, OrderStatus

LEMMA StepType ==
  ASSUME TypeInv, [Next]_vars
  PROVE  TypeInv'
<1>1. ASSUME NEW r \in Requests, Step(r)
      PROVE  TypeInv'
  BY <1>1, ReadOnlyType, TransitionReadType, TransitionCommitType, BroadcastType,
     RecordHashType, ResumeFundingType, OffRampExecuteType, InsertConversionType,
     FindOpenLegType, CreatePaymentType, InsertSettlementType, MarkTaskType,
     OperatorLegsType, OperatorInsertType, OperatorUpdateType, OperatorSettleLegsType,
     ReviewTrailType DEF Step
<1>2. ASSUME NEW r \in Requests, Call(r)
      PROVE  TypeInv'
  BY <1>2, ReadOnlyType, ExecuteType, WebhookType, OperatorType, ReviewType DEF Call
<1>3. CASE UNCHANGED vars
  BY <1>3 DEF TypeInv, TypeOK, Targeted, vars, stored, intent, books, rows, world, budget
<1> QED BY <1>1, <1>2, <1>3, WorldType, RejectType, CrashType DEF Next

(* The rows, the world and the locals of the requests keep their types, and a *)
(* request in a transition has a state to go to, whatever the calls do.       *)
THEOREM TypeCorrect == Spec => []TypeOK
<1>1. Init => TypeInv
  BY OpenedType, StatesAre DEF Init
<1>2. TypeInv /\ [Next]_vars => TypeInv'
  BY StepType
<1>3. TypeInv => TypeOK
  BY DEF TypeInv
<1> QED BY <1>1, <1>2, <1>3, PTL DEF Spec

------------------------------------------------------------------------------
(* What requests in flight rely on.                                           *)

(* The step leaves alone what the requests rely on.                           *)
Quiet == UNCHANGED <<status, attempts, broadcasts, chainTx, ledger>>

(* Only r moves, and takes no mutex from another request.                     *)
Only(r) ==
  /\ \A q \in Requests \ {r} : req'[q] = req[q]
  /\ locks' = locks \/ locks \in {r, None}

Confirmed == attempts["CRYPTO_CONFIRMED"] > 0

------------------------------------------------------------------------------
(* Steps that only move a request.                                            *)

LEMMA QuietStep ==
  ASSUME IInv, TypeInv', NEW r \in Requests, Quiet, Only(r), Relies(r)'
  PROVE  IInv'
<1>1. Rows'
  BY DEF IInv, Rows, Quiet, AuditPath, BroadcastsAuthorized, BooksFollowTrail,
         AuthorizationUnspent, FundedFirst
<1>2. ASSUME NEW q \in Requests \ {r}
      PROVE  Relies(q)'
  <2>1. Relies(q) /\ req'[q] = req[q]
    BY DEF IInv, Only
  <2>2. LockHeld(q)'
    BY <2>1, EngineAssumption DEF Relies, LockHeld, Moving, Only
  <2> QED BY <2>1, <2>2 DEF Relies, FundingOnce, CommitJustified, SpendCovered,
             KnownFunded, ReviewTarget, Quiet, Moving, At
<1> QED BY <1>1, <1>2 DEF IInv, TypeInv

(* The request arrives at p, outside any transition.                          *)
LEMMA Lands ==
  ASSUME IInv, TypeInv', NEW r \in Requests, Quiet, Only(r),
         NEW p \in Programs \ {"read", "commit", "review", "broadcast"}, req'[r].pc = p,
         p \in Exclusive => locks' = r,
         p \in {"resumeFunding", "record", "confirm"} => status # "CRYPTO_CONFIRMED",
         p \in Downstream => Confirmed
  PROVE  IInv'
<1>1. LockHeld(r)'
  BY DEF LockHeld, Moving
<1>2. FundingOnce(r)'
  BY DEF FundingOnce, Moving, Quiet, At
<1>3. CommitJustified(r)' /\ SpendCovered(r)' /\ ReviewTarget(r)'
  BY DEF CommitJustified, SpendCovered, ReviewTarget, At
<1>4. KnownFunded(r)'
  BY DEF KnownFunded, Quiet, Confirmed
<1> QED BY <1>1, <1>2, <1>3, <1>4, QuietStep DEF Relies

(* The request is about to move the payment to s.                             *)
LEMMA Heads ==
  ASSUME IInv, TypeInv', NEW r \in Requests, Quiet, Only(r), NEW s \in States,
         req'[r].pc = "read", req'[r].to = s,
         s \in {"CRYPTO_SUBMITTED", "CRYPTO_CONFIRMED", "CONVERSION_PENDING"} => locks' = r,
         s \in {"CRYPTO_SUBMITTED", "CRYPTO_CONFIRMED"} => status # "CRYPTO_CONFIRMED",
         s = "CRYPTO_SUBMITTED" => status # "CRYPTO_SUBMITTED",
         s \in AfterFunding => Confirmed
  PROVE  IInv'
<1>1. LockHeld(r)'
  BY DEF LockHeld, Moving, Exclusive
<1>2. FundingOnce(r)'
  BY DEF FundingOnce, Moving, Quiet, At
<1>3. CommitJustified(r)' /\ SpendCovered(r)' /\ ReviewTarget(r)'
  BY DEF CommitJustified, SpendCovered, ReviewTarget, At
<1>4. KnownFunded(r)'
  BY DEF KnownFunded, Quiet, Confirmed, Downstream
<1> QED BY <1>1, <1>2, <1>3, <1>4, QuietStep DEF Relies

------------------------------------------------------------------------------
(* The same for the operators that move a request.                            *)

LEMMA GotoLands ==
  ASSUME IInv, TypeInv', NEW r \in Requests, Quiet,
         NEW p \in Programs \ {"read", "commit", "review", "broadcast"},
         Goto(r, p) \/ Enter(r, p) \/ (SetsNumber(r, p) /\ UNCHANGED locks),
         p \in Exclusive => locks = r,
         p \in {"resumeFunding", "record", "confirm"} => status # "CRYPTO_CONFIRMED",
         p \in Downstream => Confirmed
  PROVE  IInv'
<1>1. req \in [Requests -> Request]
  BY DEF IInv, TypeOK
<1>2. [Idle EXCEPT !.pc = p].pc = p
  BY DEF Idle
<1>3. locks' = locks
  BY DEF Goto, Enter
<1>4. CASE Goto(r, p)
  <2>1. Only(r) /\ req'[r].pc = p
    BY <1>1, <1>3, <1>4 DEF Goto, Only, Request
  <2> QED BY <1>3, <2>1, Lands
<1>5. CASE Enter(r, p)
  <2>1. Only(r) /\ req'[r].pc = p
    BY <1>1, <1>2, <1>3, <1>5 DEF Enter, Only
  <2> QED BY <1>3, <2>1, Lands
<1>6. CASE SetsNumber(r, p)
  <2>1. Only(r) /\ req'[r].pc = p
    BY <1>1, <1>3, <1>6 DEF SetsNumber, Only, Request
  <2> QED BY <1>3, <2>1, Lands
<1> QED BY <1>4, <1>5, <1>6

LEMMA TransitionHeads ==
  ASSUME IInv, TypeInv', NEW r \in Requests, Quiet, NEW s \in States, Transition(r, s),
         s \in {"CRYPTO_SUBMITTED", "CRYPTO_CONFIRMED", "CONVERSION_PENDING"} => locks = r,
         s \in {"CRYPTO_SUBMITTED", "CRYPTO_CONFIRMED"} => status # "CRYPTO_CONFIRMED",
         s = "CRYPTO_SUBMITTED" => status # "CRYPTO_SUBMITTED",
         s \in AfterFunding => Confirmed
  PROVE  IInv'
<1>1. req \in [Requests -> Request]
  BY DEF IInv, TypeOK
<1>2. Only(r) /\ req'[r].pc = "read" /\ req'[r].to = s
  BY <1>1 DEF Transition, Only, Request
<1> QED BY <1>2, Heads DEF Transition

LEMMA ReturnLands ==
  ASSUME IInv, TypeInv', NEW r \in Requests, Quiet, Return(r)
  PROVE  IInv'
<1>1. Only(r) /\ req'[r].pc = "idle"
  BY DEF IInv, TypeOK, Return, Only, Idle
<1> QED BY <1>1, Lands DEF Programs, Exclusive, Downstream

(* What is already confirmed, seen from the status or from the trail.         *)
LEMMA AfterFundingConfirmed ==
  ASSUME IInv
  PROVE  /\ status \in AfterFunding \cup {"CRYPTO_CONFIRMED"} => Confirmed
         /\ Funded => Confirmed
BY DEF IInv, Rows, AuditPath, FundedFirst, Confirmed, Funded, PastFunding, AfterFunding

(* What a request in flight knows from where it is.                           *)
LEMMA Knows ==
  ASSUME IInv, NEW r \in Requests
  PROVE  /\ req[r].pc \in Exclusive => locks = r
         /\ req[r].pc \in {"resumeFunding", "broadcast", "record", "confirm"}
              => status # "CRYPTO_CONFIRMED"
         /\ req[r].pc \in Downstream => Confirmed
BY DEF IInv, Relies, LockHeld, FundingOnce, KnownFunded, Confirmed

------------------------------------------------------------------------------
(* The steps that read, or write rows no request relies on.                   *)

LEMMA CustomerCalls ==
  ASSUME IInv, TypeInv', NEW r \in Requests, Authorize(r) \/ Cancel(r) \/ Refund(r)
  PROVE  IInv'
<1>1. Quiet
  BY DEF Authorize, Cancel, Refund, Quiet, stored, intent, books, world
<1>2. CASE Authorize(r)
  BY <1>1, <1>2, TransitionHeads, StatesAre DEF Authorize, AfterFunding
<1>3. CASE Cancel(r)
  BY <1>1, <1>3, TransitionHeads, StatesAre DEF Cancel, AfterFunding
<1>4. CASE Refund(r)
  <2>1. Confirmed
    BY <1>4, AfterFundingConfirmed DEF Refund, AfterFunding
  <2> QED BY <1>1, <1>4, <2>1, TransitionHeads, StatesAre DEF Refund
<1> QED BY <1>2, <1>3, <1>4

LEMMA ExecuteStep ==
  ASSUME IInv, TypeInv', NEW r \in Requests, Execute(r)
  PROVE  IInv'
<1>1. Quiet
  BY DEF Execute, Quiet, stored, intent, books, world
<1>2. req \in [Requests -> Request] /\ locks = None /\ locks' = r
  BY DEF IInv, TypeOK, Execute
<1>3. CASE /\ status = "AUTHORIZED"
           /\ req' = [req EXCEPT ![r].pc = "read", ![r].to = "CRYPTO_SUBMITTED"]
  <2>1. Only(r) /\ req'[r].pc = "read" /\ req'[r].to = "CRYPTO_SUBMITTED"
    BY <1>2, <1>3 DEF Only, Request
  <2> QED BY <1>1, <1>2, <1>3, <2>1, Heads, StatesAre DEF AfterFunding
<1>4. ASSUME NEW p \in {"resumeFunding", "resumeConversion", "resumeSettlement"},
             req' = [req EXCEPT ![r].pc = p],
             p = "resumeFunding" => status # "CRYPTO_CONFIRMED",
             p # "resumeFunding" => Confirmed
      PROVE  IInv'
  <2>1. Only(r) /\ req'[r].pc = p
    BY <1>2, <1>4 DEF Only, Request
  <2> QED BY <1>1, <1>2, <1>4, <2>1, Lands DEF Programs, Downstream
<1>5. status \in {"CONVERSION_PENDING", "FIAT_SETTLEMENT_PENDING"} => Confirmed
  BY AfterFundingConfirmed DEF AfterFunding
<1> QED BY <1>3, <1>4, <1>5 DEF Execute

LEMMA FundingSteps ==
  ASSUME IInv, TypeInv', NEW r \in Requests,
         RecordHash(r) \/ ResumeFunding(r) \/ WaitConfirmations(r)
  PROVE  IInv'
<1>1. Quiet
  BY DEF RecordHash, ResumeFunding, WaitConfirmations, Quiet, stored, intent, books, world
<1>2. locks = r /\ status # "CRYPTO_CONFIRMED"
  BY Knows DEF RecordHash, ResumeFunding, WaitConfirmations, At, Exclusive
<1>3. CASE RecordHash(r)
  BY <1>1, <1>2, <1>3, GotoLands DEF RecordHash, Programs, Downstream
<1>4. CASE ResumeFunding(r)
  <2>1. CASE Transition(r, "RECONCILIATION_REQUIRED")
    BY <1>1, <2>1, TransitionHeads, StatesAre DEF AfterFunding
  <2>2. CASE /\ req' = [req EXCEPT ![r].pc = "confirm", ![r].hash = txHash]
             /\ UNCHANGED locks
    <3>1. SetsNumber(r, "confirm")
      BY <2>2 DEF SetsNumber, IInv, TypeOK
    <3> QED BY <1>1, <1>2, <2>2, <3>1, GotoLands DEF Programs, Downstream
  <2> QED BY <1>4, <2>1, <2>2 DEF ResumeFunding
<1>5. CASE WaitConfirmations(r)
  BY <1>1, <1>2, <1>5, TransitionHeads, StatesAre DEF WaitConfirmations, AfterFunding
<1> QED BY <1>3, <1>4, <1>5

LEMMA ConversionSteps ==
  ASSUME IInv, TypeInv', NEW r \in Requests,
         \/ ResumeConversion(r) \/ RunConversionLeg(r) \/ OffRampExecute(r)
         \/ InsertConversion(r) \/ ResumeSettlement(r)
  PROVE  IInv'
<1>1. Quiet
  BY DEF ResumeConversion, RunConversionLeg, OffRampExecute, InsertConversion,
         ResumeSettlement, Quiet, stored, intent, books, world
<1>2. locks = r /\ Confirmed
  BY Knows DEF ResumeConversion, RunConversionLeg, OffRampExecute, InsertConversion,
               ResumeSettlement, At, Exclusive, Downstream
<1>3. ASSUME NEW p \in {"conversion", "settle", "offRamp", "insertConversion"},
             Goto(r, p) \/ Enter(r, p)
      PROVE  IInv'
  BY <1>1, <1>2, <1>3, GotoLands DEF Programs
<1>4. ASSUME Transition(r, "RECONCILIATION_REQUIRED")
      PROVE  IInv'
  BY <1>1, <1>4, TransitionHeads, StatesAre DEF AfterFunding
<1>5. ASSUME Return(r)
      PROVE  IInv'
  BY <1>1, <1>5, ReturnLands
<1>6. CASE ResumeConversion(r)
  BY <1>3, <1>5, <1>6 DEF ResumeConversion
<1>7. CASE RunConversionLeg(r)
  BY <1>3, <1>5, <1>7 DEF RunConversionLeg
<1>8. CASE OffRampExecute(r)
  <2>1. ASSUME NEW x \in {"full", "short"}, UNCHANGED locks,
               req' = [req EXCEPT ![r].pc = "insertConversion", ![r].result = x]
        PROVE  IInv'
    <3>1. Only(r) /\ req'[r].pc = "insertConversion"
      BY <2>1 DEF Only, Request, IInv, TypeOK
    <3> QED BY <1>1, <1>2, <2>1, <3>1, Lands DEF Programs
  <2> QED BY <1>3, <1>4, <1>8, <2>1 DEF OffRampExecute
<1>9. CASE InsertConversion(r)
  <2>1. LegOf(req[r].result) \in LegStatus
    BY LegOfType DEF IInv, TypeOK, Request
  <2>2. Return(r) \/ Transition(r, "RECONCILIATION_REQUIRED") \/ Enter(r, "settle")
    BY <1>9, <2>1 DEF InsertConversion, LegStatus
  <2> QED BY <1>3, <1>4, <1>5, <2>2
<1>10. CASE ResumeSettlement(r)
  BY <1>3, <1>4, <1>10 DEF ResumeSettlement
<1> QED BY <1>6, <1>7, <1>8, <1>9, <1>10

LEMMA SettlementSteps ==
  ASSUME IInv, TypeInv', NEW r \in Requests,
         \/ BeginSettlement(r) \/ FindOpenLeg(r) \/ CreatePayment(r)
         \/ InsertSettlement(r) \/ Poll(r) \/ CompleteSettlement(r)
  PROVE  IInv'
<1>1. Quiet
  BY DEF BeginSettlement, FindOpenLeg, CreatePayment, InsertSettlement, Poll,
         CompleteSettlement, Quiet, stored, intent, books, world
<1>2. Confirmed
  BY Knows DEF BeginSettlement, FindOpenLeg, CreatePayment, InsertSettlement, Poll,
               CompleteSettlement, At, Downstream
<1>3. ASSUME NEW p \in {"settleLeg", "createPayment", "poll", "complete", "insertSettlement"},
             Goto(r, p) \/ (SetsNumber(r, p) /\ UNCHANGED locks)
      PROVE  IInv'
  BY <1>1, <1>2, <1>3, GotoLands DEF Programs, Exclusive
<1>4. ASSUME NEW s \in {"FIAT_SETTLEMENT_PENDING", "REFUND_REQUIRED",
                        "RECONCILIATION_REQUIRED", "COMPLETED"}, Transition(r, s)
      PROVE  IInv'
  BY <1>1, <1>2, <1>4, TransitionHeads, StatesAre
<1>5. ASSUME Return(r)
      PROVE  IInv'
  BY <1>1, <1>5, ReturnLands
<1>6. CASE BeginSettlement(r)
  BY <1>3, <1>4, <1>5, <1>6 DEF BeginSettlement
<1>7. CASE FindOpenLeg(r)
  <2>1. ASSUME NEW i \in DOMAIN settlements, UNCHANGED locks,
               req' = [req EXCEPT ![r].pc = "poll", ![r].ref = settlements[i].ref]
        PROVE  SetsNumber(r, "poll")
    <3>1. settlements \in Seq(SettlementLeg)
      BY DEF IInv, TypeOK, SettlementLeg
    <3>2. settlements[i] \in SettlementLeg
      BY <3>1, RowRead
    <3> QED BY <2>1, <3>2 DEF SettlementLeg, SetsNumber
  <2> QED BY <1>3, <1>7, <2>1 DEF FindOpenLeg
<1>8. CASE CreatePayment(r)
  <2>1. Len(tasks) + 1 \in Nat
    BY LenProperties DEF IInv, TypeOK
  <2> QED BY <1>3, <1>8, <2>1 DEF CreatePayment, SetsNumber
<1>9. CASE InsertSettlement(r)
  BY <1>3, <1>9 DEF InsertSettlement
<1>10. CASE Poll(r)
  BY <1>3, <1>4, <1>5, <1>10 DEF Poll
<1>11. CASE CompleteSettlement(r)
  BY <1>4, <1>5, <1>11 DEF CompleteSettlement
<1> QED BY <1>6, <1>7, <1>8, <1>9, <1>10, <1>11

LEMMA WebhookSteps ==
  ASSUME IInv, TypeInv', NEW r \in Requests, Webhook(r) \/ WebhookLeg(r) \/ WebhookIntent(r)
  PROVE  IInv'
<1>1. Quiet
  BY DEF Webhook, WebhookLeg, WebhookIntent, Quiet, stored, intent, books, world
<1>2. CASE Webhook(r)
  <2>1. SetsNumber(r, "webhookLeg") /\ UNCHANGED locks
    <3>1. PICK ref \in References : req' = [req EXCEPT ![r].pc = "webhookLeg", ![r].ref = ref]
      BY <1>2 DEF Webhook
    <3>2. ref \in Nat BY ReferencesAre DEF IInv
    <3> QED BY <1>2, <3>1, <3>2 DEF SetsNumber, Webhook
  <2> QED BY <1>1, <2>1, GotoLands DEF Programs, Exclusive, Downstream
<1>3. CASE WebhookLeg(r)
  BY <1>1, <1>3, GotoLands, ReturnLands DEF WebhookLeg, Programs, Exclusive, Downstream
<1>4. CASE WebhookIntent(r)
  <2>1. CASE status = "FIAT_SETTLEMENT_PENDING" /\ Goto(r, "complete")
    <3>1. Confirmed
      BY <2>1, AfterFundingConfirmed DEF AfterFunding
    <3> QED BY <1>1, <2>1, <3>1, GotoLands DEF Programs, Exclusive
  <2>2. CASE Return(r)
    BY <1>1, <2>2, ReturnLands
  <2> QED BY <1>4, <2>1, <2>2 DEF WebhookIntent
<1> QED BY <1>2, <1>3, <1>4

LEMMA OperatorStarts ==
  ASSUME IInv, TypeInv', NEW r \in Requests, Operator(r) \/ OperatorIntent(r)
  PROVE  IInv'
<1>1. Quiet
  BY DEF Operator, Report, OperatorIntent, Quiet, stored, intent, books, world
<1>2. CASE Operator(r)
  <2>1. PICK t \in DOMAIN tasks, x \in Results :
          /\ req' = [req EXCEPT ![r].pc = "opIntent", ![r].task = t, ![r].result = x]
          /\ UNCHANGED locks
    BY <1>2 DEF Operator, Report
  <2>2. Only(r) /\ req'[r].pc = "opIntent"
    BY <2>1 DEF Only, Request, IInv, TypeOK
  <2> QED BY <1>1, <2>2, Lands DEF Programs, Exclusive, Downstream
<1>3. CASE OperatorIntent(r)
  <2>1. ASSUME NEW p \in {"opMark", "opSettleLegs"}, Goto(r, p),
               status \in {"CONVERSION_PENDING", "FIAT_SETTLEMENT_PENDING"}
        PROVE  IInv'
    <3>1. Confirmed
      BY <2>1, AfterFundingConfirmed DEF AfterFunding
    <3> QED BY <1>1, <2>1, <3>1, GotoLands DEF Programs, Exclusive
  <2>2. CASE Return(r)
    BY <1>1, <2>2, ReturnLands
  <2> QED BY <1>3, <2>1, <2>2 DEF OperatorIntent
<1> QED BY <1>2, <1>3

LEMMA OperatorSteps ==
  ASSUME IInv, TypeInv', NEW r \in Requests,
         \/ MarkTask(r) \/ OperatorLegs(r) \/ OperatorInsert(r) \/ OperatorUpdate(r)
         \/ OperatorSettleLegs(r) \/ OperatorSettleInsert(r)
  PROVE  IInv'
<1>1. Quiet
  BY DEF MarkTask, OperatorLegs, OperatorInsert, OperatorUpdate, OperatorSettleLegs,
         OperatorSettleInsert, Quiet, stored, intent, books, world
<1>2. Confirmed
  BY Knows DEF MarkTask, OperatorLegs, OperatorInsert, OperatorUpdate,
               OperatorSettleLegs, OperatorSettleInsert, At, Downstream
<1>3. ASSUME NEW p \in {"complete", "opLegs", "opInsert", "opUpdate", "settle",
                        "opSettleInsert", "opSettleLegs", "opMark"},
             Goto(r, p) \/ Enter(r, p) \/ (SetsNumber(r, p) /\ UNCHANGED locks)
      PROVE  IInv'
  BY <1>1, <1>2, <1>3, GotoLands DEF Programs, Exclusive
<1>4. ASSUME NEW s \in {"REFUND_REQUIRED", "RECONCILIATION_REQUIRED"}, Transition(r, s)
      PROVE  IInv'
  BY <1>1, <1>2, <1>4, TransitionHeads, StatesAre
<1>5. CASE MarkTask(r)
  BY <1>3, <1>4, <1>5 DEF MarkTask
<1>6. CASE OperatorLegs(r)
  <2>1. DOMAIN conversions \subseteq Nat
    BY LenProperties DEF IInv, TypeOK
  <2> QED BY <1>3, <1>6, <2>1 DEF OperatorLegs, SetsNumber
<1>7. CASE OperatorInsert(r)
  BY <1>3, <1>7 DEF OperatorInsert
<1>8. CASE OperatorUpdate(r)
  BY <1>3, <1>4, <1>8 DEF OperatorUpdate
<1>9. CASE OperatorSettleLegs(r)
  <2>1. ASSUME NEW i \in DOMAIN settlements,
               req' = [req EXCEPT ![r].pc = "opMark", ![r].ref = settlements[i].ref]
        PROVE  SetsNumber(r, "opMark")
    <3>1. settlements \in Seq(SettlementLeg)
      BY DEF IInv, TypeOK, SettlementLeg
    <3>2. settlements[i] \in SettlementLeg
      BY <3>1, RowRead
    <3> QED BY <2>1, <3>2 DEF SettlementLeg, SetsNumber
  <2> QED BY <1>3, <1>9, <2>1 DEF OperatorSettleLegs
<1>10. CASE OperatorSettleInsert(r)
  BY <1>3, <1>10 DEF OperatorSettleInsert
<1> QED BY <1>5, <1>6, <1>7, <1>8, <1>9, <1>10

LEMMA ReviewSteps ==
  ASSUME IInv, TypeInv', NEW r \in Requests, Review(r) \/ ReviewTrail(r)
  PROVE  IInv'
<1>1. Quiet
  BY DEF Review, ReviewTrail, Quiet, stored, intent, books, world
<1>2. CASE Review(r)
  <2>1. PICK s \in Edges["RECONCILIATION_REQUIRED"] :
          req' = [req EXCEPT ![r].pc = "review", ![r].to = s] /\ UNCHANGED locks
    BY <1>2 DEF Review
  <2>2. Only(r) /\ req'[r].pc = "review" /\ req'[r].to = s
    BY <2>1 DEF Only, Request, IInv, TypeOK
  <2>3. Relies(r)'
    BY <2>1, <2>2 DEF Relies, LockHeld, FundingOnce, CommitJustified, SpendCovered,
       KnownFunded, ReviewTarget, Moving, At, Exclusive, Downstream, CanTransition
  <2> QED BY <1>1, <2>2, <2>3, QuietStep
<1>3. CASE ReviewTrail(r)
  <2>1. CASE Goto(r, "read") /\ (Funded <=> (req[r].to = "REFUND_REQUIRED"))
    <3>1. Only(r) /\ req'[r].pc = "read" /\ req'[r].to = req[r].to
      BY <2>1 DEF Goto, Only, Request, IInv, TypeOK
    <3>2. req[r].to \in {"AUTHORIZED", "FAILED", "REFUND_REQUIRED"}
      BY <1>3 DEF ReviewTrail, IInv, Relies, ReviewTarget, CanTransition, Edges
    <3>3. req[r].to = "REFUND_REQUIRED" => Confirmed
      BY <2>1, AfterFundingConfirmed
    <3> QED BY <1>1, <3>1, <3>2, <3>3, Heads, StatesAre DEF AfterFunding
  <2>2. CASE Return(r)
    BY <1>1, <2>2, ReturnLands
  <2> QED BY <1>3, <2>1, <2>2 DEF ReviewTrail
<1> QED BY <1>2, <1>3

LEMMA Failures ==
  ASSUME IInv, TypeInv',
         \/ ChainConfirms \/ ProviderSettles \/ Crash
         \/ \E r \in Requests : Reject(r)
  PROVE  IInv'
<1>1. Quiet
  BY DEF ChainConfirms, ProviderSettles, Crash, Reject, Quiet, intent, books, world
<1>2. Rows'
  BY <1>1 DEF IInv, Rows, Quiet, AuditPath, BroadcastsAuthorized, BooksFollowTrail,
         AuthorizationUnspent, FundedFirst
<1>3. CASE ChainConfirms \/ ProviderSettles
  <2>1. UNCHANGED <<req, locks>>
    BY <1>3 DEF ChainConfirms, ProviderSettles
  <2>2. \A r \in Requests : Relies(r)'
    BY <1>1, <2>1 DEF IInv, Quiet, Relies, LockHeld, FundingOnce, CommitJustified,
       SpendCovered, KnownFunded, ReviewTarget, Moving, At
  <2> QED BY <1>2, <2>2 DEF IInv, TypeInv
<1>4. CASE Crash
  <2>1. \A r \in Requests : req'[r].pc = "idle"
    BY <1>4 DEF Crash, Idle
  <2>2. \A r \in Requests : Relies(r)'
    BY <2>1 DEF Relies, LockHeld, FundingOnce, CommitJustified, SpendCovered,
       KnownFunded, ReviewTarget, Moving, At, Exclusive, Downstream
  <2> QED BY <1>2, <2>2 DEF IInv, TypeInv
<1>5. CASE \E r \in Requests : Reject(r)
  BY <1>1, <1>5, ReturnLands DEF Reject
<1> QED BY <1>3, <1>4, <1>5

------------------------------------------------------------------------------
(* The steps the money depends on.                                            *)

LEMMA BroadcastStep ==
  ASSUME IInv, TypeInv', NEW r \in Requests, Broadcast(r)
  PROVE  IInv'
<1>1. /\ UNCHANGED <<status, attempts, chainTx, ledger>>
      /\ broadcasts \in Nat /\ broadcasts' \in {broadcasts, broadcasts + 1}
      /\ attempts \in [States -> Nat] /\ req \in [Requests -> Request]
  BY DEF Broadcast, intent, books, IInv, TypeOK
<1>2. /\ locks = r /\ status # "CRYPTO_CONFIRMED"
      /\ broadcasts < attempts["CRYPTO_SUBMITTED"]
  BY Knows DEF Broadcast, At, Exclusive, IInv, Relies, SpendCovered
<1>3. Rows'
  <2>1. attempts["CRYPTO_SUBMITTED"] \in Nat
    BY <1>1, StatesAre
  <2>2. BroadcastsAuthorized'
    BY <1>1, <1>2, <2>1 DEF IInv, Rows, BroadcastsAuthorized
  <2> QED BY <1>1, <2>2 DEF IInv, Rows, AuditPath, BooksFollowTrail,
             AuthorizationUnspent, FundedFirst
<1>4. /\ Only(r) /\ locks' = locks
      /\ \/ req'[r].pc = "record"
         \/ req'[r].pc = "read" /\ req'[r].to = "RECONCILIATION_REQUIRED"
  BY <1>1 DEF Broadcast, Transition, Only, Request
<1>5. Relies(r)'
  BY <1>1, <1>2, <1>4 DEF Relies, LockHeld, FundingOnce, CommitJustified, SpendCovered,
     KnownFunded, ReviewTarget, Moving, At, Exclusive, Downstream, AfterFunding
<1>6. ASSUME NEW q \in Requests \ {r}
      PROVE  Relies(q)'
  <2>1. Relies(q) /\ req'[q] = req[q]
    BY <1>4 DEF IInv, Only
  <2>2. ~ At(q, "broadcast")
    BY <1>2, <2>1 DEF Relies, LockHeld, At, Exclusive
  <2> QED BY <1>1, <1>4, <2>1, <2>2 DEF Relies, LockHeld, FundingOnce, CommitJustified,
             SpendCovered, KnownFunded, ReviewTarget, Moving, At
<1> QED BY <1>3, <1>5, <1>6 DEF IInv, TypeInv

(* The transaction's decision: what it has read justifies what it will write. *)
LEMMA TransitionReadStep ==
  ASSUME IInv, TypeInv', NEW r \in Requests, TransitionRead(r)
  PROVE  IInv'
<1> DEFINE s == req[r].to
<1>1. Quiet
  BY DEF TransitionRead, Quiet, stored, intent, books, world
<1>2. CASE Return(r)
  BY <1>1, <1>2, ReturnLands
<1>3. CASE /\ status = s \/ CanTransition(status, s)
           /\ req' = [req EXCEPT ![r].pc = "commit", ![r].replay = (status = s)]
           /\ UNCHANGED locks
  <2>1. /\ Only(r) /\ req'[r].pc = "commit" /\ req'[r].to = s
        /\ req'[r].replay = (status = s)
    BY <1>3 DEF Only, Request, IInv, TypeOK
  <2>2. s \in States /\ status \in States /\ attempts[status] > 0
    BY DEF TransitionRead, At, IInv, Targeted, TypeOK, Rows, AuditPath
  <2>3. /\ LockHeld(r)
        /\ s = "CRYPTO_CONFIRMED" \/ s = "CRYPTO_SUBMITTED" => status # "CRYPTO_CONFIRMED"
        /\ s = "CRYPTO_SUBMITTED" => status # "CRYPTO_SUBMITTED"
        /\ s \in AfterFunding => Confirmed
    BY DEF TransitionRead, At, IInv, Relies, FundingOnce, KnownFunded, Moving, Confirmed
  <2>4. LockHeld(r)'
    BY <1>3, <2>1, <2>3 DEF TransitionRead, At, LockHeld, Moving, Exclusive
  <2>5. FundingOnce(r)'
    BY <1>1, <2>1, <2>3 DEF FundingOnce, Moving, At, Quiet
  <2>6. CommitJustified(r)'
    BY <1>1, <1>3, <2>1, <2>2 DEF CommitJustified, At, Quiet
  <2>7. SpendCovered(r)'
    <3>1. s = "CRYPTO_SUBMITTED" => status = "AUTHORIZED"
      BY <1>3, <2>2, <2>3, StatesAre DEF CanTransition, Edges
    <3> QED BY <1>1, <2>1, <3>1
            DEF SpendCovered, At, Quiet, IInv, Rows, AuthorizationUnspent
  <2>8. KnownFunded(r)' /\ ReviewTarget(r)'
    BY <1>1, <2>1, <2>3 DEF KnownFunded, ReviewTarget, At, Quiet, Downstream, Confirmed
  <2> QED BY <1>1, <2>1, <2>4, <2>5, <2>6, <2>7, <2>8, QuietStep DEF Relies
<1> QED BY <1>2, <1>3 DEF TransitionRead

(* Where the caller of a transition to s goes on, in terms of its program     *)
(* counter alone.                                                             *)
LEMMA ContinueTo ==
  ASSUME req \in [Requests -> Request], NEW r \in Requests, NEW s \in States, Continue(r, s)
  PROVE  /\ Only(r)
         /\ s \in {"CRYPTO_SUBMITTED", "CRYPTO_CONFIRMED", "CONVERSION_PENDING"}
              => locks' = locks
         /\ s = "CRYPTO_SUBMITTED" => req'[r].pc = "broadcast"
         /\ s = "CRYPTO_CONFIRMED" =>
              req'[r].pc = "read" /\ req'[r].to = "CONVERSION_PENDING"
         /\ s = "CONVERSION_PENDING" => req'[r].pc = "conversion"
         /\ s = "FIAT_SETTLEMENT_PENDING" => req'[r].pc = "settleLeg"
         /\ s \notin {"CRYPTO_SUBMITTED", "CRYPTO_CONFIRMED", "CONVERSION_PENDING",
                      "FIAT_SETTLEMENT_PENDING"} => req'[r].pc = "idle"
<1>1. ASSUME NEW p \in {"broadcast", "conversion", "settleLeg"}, Enter(r, p)
      PROVE  Only(r) /\ req'[r].pc = p /\ locks' = locks
  <2>1. [Idle EXCEPT !.pc = p].pc = p
    BY DEF Idle
  <2> QED BY <1>1, <2>1 DEF Enter, Only
<1>2. ASSUME Transition(r, "CONVERSION_PENDING")
      PROVE  Only(r) /\ req'[r].pc = "read" /\ req'[r].to = "CONVERSION_PENDING"
             /\ locks' = locks
  BY <1>2 DEF Transition, Only, Request
<1>3. ASSUME Return(r)
      PROVE  Only(r) /\ req'[r].pc = "idle"
  BY <1>3 DEF Return, Only, Idle
<1>4. /\ s = "CRYPTO_SUBMITTED" => Enter(r, "broadcast")
      /\ s = "CRYPTO_CONFIRMED" => Transition(r, "CONVERSION_PENDING")
      /\ s = "CONVERSION_PENDING" => Enter(r, "conversion")
      /\ s = "FIAT_SETTLEMENT_PENDING" => Enter(r, "settleLeg")
      /\ s \notin {"CRYPTO_SUBMITTED", "CRYPTO_CONFIRMED", "CONVERSION_PENDING",
                   "FIAT_SETTLEMENT_PENDING"} => Return(r)
  BY DEF Continue
<1> QED BY <1>1, <1>2, <1>3, <1>4

(* What the commit of a transition to s writes, row by row.                   *)
Writes(r, s) ==
  /\ s \in States /\ broadcasts' = broadcasts
  /\ req[r].replay => UNCHANGED <<status, attempts>>
  /\ ~ req[r].replay =>
       /\ status' = s /\ attempts'[s] = attempts[s] + 1
       /\ \A t \in States \ {s} : attempts'[t] = attempts[t]
  /\ \A t \in States : attempts[t] \in Nat /\ attempts'[t] \in Nat
                        /\ attempts'[t] >= attempts[t]
  /\ \A g \in Groups : ledger[g] \in Nat
  /\ ledger'["funding"] = ledger["funding"] + (IF s = "CRYPTO_CONFIRMED" THEN 1 ELSE 0)
  /\ ledger'["settlement"] = ledger["settlement"] + (IF s = "COMPLETED" THEN 1 ELSE 0)
  /\ ledger'["refund"] = ledger["refund"] + (IF s = "REFUNDED" THEN 1 ELSE 0)
  /\ chainTx' = IF s = "CRYPTO_CONFIRMED" THEN chainTx \cup {req[r].hash} ELSE chainTx

LEMMA CommitWrites ==
  ASSUME IInv, NEW r \in Requests, TransitionCommit(r)
  PROVE  Writes(r, req[r].to)
<1> DEFINE s == req[r].to
<1>1. s \in States /\ attempts \in [States -> Nat] /\ ledger \in [Groups -> Nat]
  BY DEF TransitionCommit, At, IInv, Targeted, TypeOK
<1>2. broadcasts' = broadcasts
  BY DEF TransitionCommit, world
<1>3. /\ status' = IF req[r].replay THEN status ELSE s
      /\ attempts' = IF req[r].replay THEN attempts ELSE [attempts EXCEPT ![s] = @ + 1]
      /\ PostEntries(s) /\ RecordChainTx(r, s)
  BY DEF TransitionCommit
<1> HIDE DEF s
<1>4. /\ ledger'["funding"] =
           ledger["funding"] + (IF s = "CRYPTO_CONFIRMED" THEN 1 ELSE 0)
      /\ ledger'["settlement"] =
           ledger["settlement"] + (IF s = "COMPLETED" THEN 1 ELSE 0)
      /\ ledger'["refund"] = ledger["refund"] + (IF s = "REFUNDED" THEN 1 ELSE 0)
  BY <1>1, <1>3 DEF PostEntries, Posting, Groups
<1>5. \A t \in States : attempts[t] \in Nat /\ attempts'[t] \in Nat
                       /\ attempts'[t] >= attempts[t]
  BY <1>1, <1>3
<1>6. ~ req[r].replay => /\ status' = s /\ attempts'[s] = attempts[s] + 1
                         /\ \A t \in States \ {s} : attempts'[t] = attempts[t]
  BY <1>1, <1>3
<1>7. chainTx' = IF s = "CRYPTO_CONFIRMED" THEN chainTx \cup {req[r].hash} ELSE chainTx
  BY <1>3 DEF RecordChainTx
<1> QED BY <1>1, <1>2, <1>3, <1>4, <1>5, <1>6, <1>7 DEF s, Writes

LEMMA CommitRows ==
  ASSUME IInv, NEW r \in Requests, TransitionCommit(r)
  PROVE  Rows'
<1> DEFINE s == req[r].to
<1>1. Writes(r, s) /\ At(r, "commit")
  BY CommitWrites DEF TransitionCommit
<1>2. Relies(r)
  BY DEF IInv
<1>3. s = "CRYPTO_CONFIRMED" \/ s = "CRYPTO_SUBMITTED" => ~ req[r].replay
  BY <1>1, <1>2 DEF Relies, FundingOnce
<1>4. AuditPath'
  <2>1. /\ req[r].replay => attempts[s] > 0
        /\ ~ req[r].replay => \E p \in States : attempts[p] > 0 /\ CanTransition(p, s)
    BY <1>1, <1>2 DEF Relies, CommitJustified
  <2>2. status \in States
    BY DEF IInv, TypeOK
  <2> HIDE DEF s
  <2>3. attempts'[status'] > 0
    BY <1>1, <2>2 DEF Writes, IInv, Rows, AuditPath
  <2>4. ASSUME NEW t \in States \ {"QUOTED"}, attempts'[t] > 0
        PROVE  \E p \in States : attempts'[p] > 0 /\ CanTransition(p, t)
    <3>1. \E p \in States : attempts[p] > 0 /\ CanTransition(p, t)
      BY <1>1, <2>1, <2>4 DEF Writes, IInv, Rows, AuditPath
    <3> QED BY <1>1, <3>1 DEF Writes
  <2> QED BY <2>3, <2>4 DEF AuditPath
<1>5. BroadcastsAuthorized'
  <2>1. s = "CRYPTO_SUBMITTED" => attempts["CRYPTO_SUBMITTED"] < attempts["AUTHORIZED"]
    BY <1>1, <1>2 DEF Relies, SpendCovered
  <2>2. broadcasts \in Nat
    BY DEF IInv, TypeOK
  <2> HIDE DEF s
  <2> QED BY <1>1, <2>1, <2>2, StatesAre DEF Writes, IInv, Rows, BroadcastsAuthorized
<1>6. BooksFollowTrail'
  <2>1. req[r].replay => attempts[s] > 0
    BY <1>1, <1>2 DEF Relies, CommitJustified
  <2> HIDE DEF s
  <2>2. ledger'["funding"] = attempts'["CRYPTO_CONFIRMED"]
    BY <1>1, <1>3, StatesAre DEF Writes, Groups, IInv, Rows, BooksFollowTrail
  <2>3. (chainTx' # {}) <=> (ledger'["funding"] > 0)
    BY <1>1 DEF Writes, Groups, IInv, Rows, BooksFollowTrail
  <2>4. (ledger'["settlement"] > 0) <=> (attempts'["COMPLETED"] > 0)
    BY <1>1, <2>1, StatesAre DEF Writes, Groups, IInv, Rows, BooksFollowTrail
  <2>5. (ledger'["refund"] > 0) <=> (attempts'["REFUNDED"] > 0)
    BY <1>1, <2>1, StatesAre DEF Writes, Groups, IInv, Rows, BooksFollowTrail
  <2> QED BY <2>2, <2>3, <2>4, <2>5 DEF BooksFollowTrail
<1>7. AuthorizationUnspent'
  BY <1>1, StatesAre DEF Writes, IInv, Rows, AuthorizationUnspent, BroadcastsAuthorized
<1>8. FundedFirst'
  <2>1. s \in AfterFunding => attempts["CRYPTO_CONFIRMED"] > 0
    BY <1>1, <1>2 DEF Relies, KnownFunded, At
  <2> HIDE DEF s
  <2>2. AfterFunding \subseteq States
    BY StatesAre DEF AfterFunding
  <2> QED BY <1>1, <2>1, <2>2, StatesAre DEF Writes, IInv, Rows, FundedFirst
<1> QED BY <1>4, <1>5, <1>6, <1>7, <1>8 DEF Rows

LEMMA CommitStep ==
  ASSUME IInv, TypeInv', NEW r \in Requests, TransitionCommit(r)
  PROVE  IInv'
<1> DEFINE s == req[r].to
           Held == {"CRYPTO_SUBMITTED", "CRYPTO_CONFIRMED", "CONVERSION_PENDING"}
<1>1. Writes(r, s) /\ At(r, "commit") /\ Continue(r, s)
  BY CommitWrites DEF TransitionCommit
<1>2. /\ Relies(r) /\ req \in [Requests -> Request]
      /\ s \in Held => locks = r
      /\ s \in {"CRYPTO_SUBMITTED", "CRYPTO_CONFIRMED"} => ~ req[r].replay
      /\ s \in AfterFunding => Confirmed
  BY <1>1 DEF IInv, TypeOK, Relies, LockHeld, FundingOnce, KnownFunded, Moving, At, Confirmed
<1>3. /\ Only(r) /\ (s \in Held => locks' = r)
      /\ s = "CRYPTO_SUBMITTED" => req'[r].pc = "broadcast"
      /\ s = "CRYPTO_CONFIRMED" => req'[r].pc = "read" /\ req'[r].to = "CONVERSION_PENDING"
      /\ s = "CONVERSION_PENDING" => req'[r].pc = "conversion"
      /\ s = "FIAT_SETTLEMENT_PENDING" => req'[r].pc = "settleLeg"
      /\ s \notin Held \cup {"FIAT_SETTLEMENT_PENDING"} => req'[r].pc = "idle"
  BY <1>1, <1>2, ContinueTo DEF Writes
<1>4. Rows'
  BY CommitRows
<1>5. Confirmed => Confirmed'
  BY <1>1, StatesAre DEF Writes, Confirmed
<1>6. Relies(r)'
  <2>1. CASE s = "CRYPTO_SUBMITTED"
    <3>1. status' = "CRYPTO_SUBMITTED" /\ broadcasts' < attempts'["CRYPTO_SUBMITTED"]
      <4>1. broadcasts \in Nat /\ broadcasts <= attempts["CRYPTO_SUBMITTED"]
        BY DEF IInv, TypeOK, Rows, BroadcastsAuthorized
      <4> QED BY <1>1, <1>2, <2>1, <4>1, StatesAre DEF Writes
    <3> QED BY <1>3, <2>1, <3>1 DEF Relies, LockHeld, FundingOnce, CommitJustified,
               SpendCovered, KnownFunded, ReviewTarget, Moving, At, Exclusive, Downstream
  <2>2. CASE s = "CRYPTO_CONFIRMED"
    <3>1. Confirmed'
      BY <1>1, <1>2, <2>2, StatesAre DEF Writes, Confirmed
    <3> QED BY <1>3, <2>2, <3>1 DEF Relies, LockHeld, FundingOnce, CommitJustified,
               SpendCovered, KnownFunded, ReviewTarget, Moving, At, Exclusive, Downstream,
               Confirmed
  <2>3. CASE s \in {"CONVERSION_PENDING", "FIAT_SETTLEMENT_PENDING"}
    <3>1. Confirmed'
      BY <1>2, <1>5, <2>3 DEF AfterFunding
    <3> QED BY <1>3, <2>3, <3>1 DEF Relies, LockHeld, FundingOnce, CommitJustified,
               SpendCovered, KnownFunded, ReviewTarget, Moving, At, Exclusive, Downstream,
               Confirmed
  <2>4. CASE s \notin Held \cup {"FIAT_SETTLEMENT_PENDING"}
    BY <1>3, <2>4 DEF Relies, LockHeld, FundingOnce, CommitJustified,
       SpendCovered, KnownFunded, ReviewTarget, Moving, At, Exclusive, Downstream
  <2> QED BY <2>1, <2>2, <2>3, <2>4
<1>7. ASSUME NEW q \in Requests \ {r}
      PROVE  Relies(q)'
  <2>1. Relies(q) /\ req'[q] = req[q]
    BY <1>3 DEF IInv, Only
  <2>2. LockHeld(q)'
    BY <1>3, <2>1, EngineAssumption DEF Relies, LockHeld, Moving, Only
  <2>3. locks = q => s \notin Held /\ ~ (status' # status /\ status' \in Held)
    BY <1>1, <1>2 DEF Writes
  <2>4. FundingOnce(q)'
    <3>1. \/ req[q].pc \in {"resumeFunding", "broadcast", "record", "confirm"}
          \/ Moving(q, "CRYPTO_SUBMITTED") \/ Moving(q, "CRYPTO_CONFIRMED")
          => locks = q
      BY <2>1 DEF Relies, LockHeld, Exclusive
    <3> QED BY <2>1, <2>3, <3>1 DEF Relies, FundingOnce, Moving, At
  <2>5. CommitJustified(q)'
    <3>1. At(q, "commit") => req[q].to \in States
      BY DEF IInv, Targeted, At
    <3> QED BY <1>1, <2>1, <3>1 DEF Relies, CommitJustified, At, Writes
  <2>6. SpendCovered(q)'
    <3>1. At(q, "broadcast") \/ (At(q, "commit") /\ req[q].to = "CRYPTO_SUBMITTED")
            => locks = q
      BY <2>1 DEF Relies, LockHeld, Exclusive, Moving, At
    <3>2. s # "CRYPTO_SUBMITTED" =>
            attempts'["CRYPTO_SUBMITTED"] = attempts["CRYPTO_SUBMITTED"]
      BY <1>1, StatesAre DEF Writes
    <3>3. /\ broadcasts \in Nat /\ broadcasts' = broadcasts
          /\ attempts["AUTHORIZED"] \in Nat /\ attempts'["AUTHORIZED"] \in Nat
          /\ attempts["CRYPTO_SUBMITTED"] \in Nat
          /\ attempts'["AUTHORIZED"] >= attempts["AUTHORIZED"]
      BY <1>1, StatesAre DEF Writes, IInv, TypeOK
    <3> HIDE DEF s
    <3> QED BY <2>1, <2>3, <3>1, <3>2, <3>3 DEF Relies, SpendCovered, At
  <2>7. KnownFunded(q)' /\ ReviewTarget(q)'
    BY <1>5, <2>1 DEF Relies, KnownFunded, ReviewTarget, Confirmed, At
  <2> QED BY <2>2, <2>4, <2>5, <2>6, <2>7 DEF Relies
<1> QED BY <1>4, <1>6, <1>7 DEF IInv, TypeInv

------------------------------------------------------------------------------
(* Together.                                                                  *)

LEMMA InitInvariant ==
  ASSUME Init
  PROVE  IInv
<1>1. TypeInv
  BY OpenedType, StatesAre DEF Init
<1>2. /\ status = "QUOTED" /\ broadcasts = 0 /\ chainTx = {}
      /\ attempts["QUOTED"] = 1 /\ \A s \in States \ {"QUOTED"} : attempts[s] = 0
      /\ \A g \in Groups : ledger[g] = 0
      /\ \A r \in Requests : req[r].pc = "idle"
  BY StatesAre DEF Init, Opened, Idle
<1>3. AuditPath /\ BroadcastsAuthorized /\ AuthorizationUnspent
  BY <1>2, StatesAre DEF AuditPath, BroadcastsAuthorized, AuthorizationUnspent
<1>4. BooksFollowTrail
  BY <1>2, StatesAre DEF BooksFollowTrail, Groups
<1>5. FundedFirst
  BY <1>2, StatesAre DEF FundedFirst, AfterFunding
<1>6. \A r \in Requests : Relies(r)
  BY <1>2 DEF Relies, LockHeld, FundingOnce, CommitJustified, SpendCovered, KnownFunded,
     ReviewTarget, Moving, At, Exclusive, Downstream
<1> QED BY <1>1, <1>3, <1>4, <1>5, <1>6 DEF IInv, TypeInv, Rows

LEMMA NextInvariant ==
  ASSUME IInv, [Next]_vars
  PROVE  IInv'
<1>1. TypeInv'
  BY StepType DEF IInv, TypeInv
<1>2. ASSUME NEW r \in Requests, Step(r)
      PROVE  IInv'
  BY <1>1, <1>2, TransitionReadStep, CommitStep, BroadcastStep, FundingSteps,
     ConversionSteps, SettlementSteps, WebhookSteps, OperatorStarts, OperatorSteps,
     ReviewSteps DEF Step
<1>3. ASSUME NEW r \in Requests, Call(r)
      PROVE  IInv'
  BY <1>1, <1>3, CustomerCalls, ExecuteStep, WebhookSteps, OperatorStarts, ReviewSteps
     DEF Call
<1>4. CASE UNCHANGED vars
  BY <1>4 DEF IInv, TypeOK, Targeted, Rows, AuditPath, BroadcastsAuthorized,
     BooksFollowTrail, AuthorizationUnspent, FundedFirst, Relies, LockHeld, FundingOnce,
     CommitJustified, SpendCovered, KnownFunded, ReviewTarget, Moving, At, vars, stored,
     intent, books, rows, world, budget
<1> QED BY <1>1, <1>2, <1>3, <1>4, Failures DEF Next

(* The invariant itself: what the rows say of each other and what each        *)
(* request in flight may rely on hold in every reachable state.               *)
THEOREM Invariance == Spec => []IInv
<1>1. Init => IInv
  BY InitInvariant
<1>2. IInv /\ [Next]_vars => IInv'
  BY NextInvariant
<1> QED BY <1>1, <1>2, PTL DEF Spec

(* Whatever updates concurrent requests lose, every state of the audit trail  *)
(* has a legal predecessor in it and the current status is one of them.       *)
THEOREM AuditPathAlways == Spec => []AuditPath
<1>1. IInv => AuditPath
  BY DEF IInv, Rows
<1> QED BY <1>1, Invariance, PTL

(* However many calls, crashes and retries there are, the transfers sent are  *)
(* no more than the submissions persisted before them, nor than the payment's *)
(* authorizations.                                                            *)
THEOREM BroadcastsAuthorizedAlways == Spec => []BroadcastsAuthorized
<1>1. IInv => BroadcastsAuthorized
  BY DEF IInv, Rows
<1> QED BY <1>1, Invariance, PTL

(* The entries of the ledger and the chain record always agree with the audit *)
(* trail, replays and lost updates included.                                  *)
THEOREM BooksFollowTrailAlways == Spec => []BooksFollowTrail
<1>1. IInv => BooksFollowTrail
  BY DEF IInv, Rows
<1> QED BY <1>1, Invariance, PTL

(* No interleaving pays the merchant, or the customer back, before the crypto *)
(* is booked as received.                                                     *)
THEOREM PaidOutOnlyIfFundedAlways == Spec => []PaidOutOnlyIfFunded
<1>1. IInv => PaidOutOnlyIfFunded
  <2>1. ASSUME IInv, attempts["COMPLETED"] > 0 \/ attempts["REFUNDED"] > 0
        PROVE  attempts["CRYPTO_CONFIRMED"] > 0
    BY <2>1 DEF IInv, Rows, FundedFirst, AfterFunding
  <2> QED BY <2>1 DEF IInv, Rows, BooksFollowTrail, PaidOutOnlyIfFunded
<1> QED BY <1>1, Invariance, PTL

(* The reconciler's chain-receipt check never fires: whatever status a lost   *)
(* update leaves, a payment past its funding has its chain record.            *)
THEOREM ReceiptAlways == Spec => []ReceiptAlwaysThere
<1>1. IInv => ReceiptAlwaysThere
  <2> SUFFICES ASSUME IInv, status \in PastFunding PROVE chainTx # {}
    BY DEF ReceiptAlwaysThere, Issues, NoChainReceipt
  <2>1. attempts[status] > 0 /\ status \in States
    BY DEF IInv, Rows, AuditPath, TypeOK
  <2>2. attempts["CRYPTO_CONFIRMED"] > 0
    BY <2>1 DEF IInv, Rows, FundedFirst, AfterFunding, PastFunding
  <2> QED BY <2>2 DEF IInv, Rows, BooksFollowTrail
<1> QED BY <1>1, Invariance, PTL
==============================================================================
