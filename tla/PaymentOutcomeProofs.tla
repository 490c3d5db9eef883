------------------------- MODULE PaymentOutcomeProofs -------------------------
(* How a payment of PaymentEngine ends.  In every interleaving: what is       *)
(* completed has its legs, and with automatic providers the end agrees with   *)
(* the order, as far as the events received were the provider's own.  With    *)
(* one call at a time: the engine implements the lifecycle, posts everything  *)
(* once and keeps every report.                                               *)
EXTENDS PaymentEngineProofs, FiniteSetTheorems

(* Only r moves.                                                              *)
Others(r) == \A q \in Requests \ {r} : req'[q] = req[q]

LEMMA Moved ==
  ASSUME req \in [Requests -> Request], NEW r \in Requests
  PROVE  /\ \A p : Goto(r, p) =>
              /\ Others(r) /\ req'[r].pc = p /\ req'[r].to = req[r].to
              /\ req'[r].task = req[r].task /\ req'[r].result = req[r].result
         /\ \A p : Enter(r, p) => Others(r) /\ req'[r].pc = p
         /\ \A s : Transition(r, s) => Others(r) /\ req'[r].pc = "read" /\ req'[r].to = s
         /\ Return(r) => Others(r) /\ req'[r].pc = "idle"
<1>1. ASSUME NEW p, Goto(r, p)
      PROVE  /\ Others(r) /\ req'[r].pc = p /\ req'[r].to = req[r].to
             /\ req'[r].task = req[r].task /\ req'[r].result = req[r].result
  BY <1>1 DEF Goto, Others, Request
<1>2. ASSUME NEW p, Enter(r, p)
      PROVE  Others(r) /\ req'[r].pc = p
  BY <1>2 DEF Enter, Idle, Others
<1>3. ASSUME NEW s, Transition(r, s)
      PROVE  Others(r) /\ req'[r].pc = "read" /\ req'[r].to = s
  BY <1>3 DEF Transition, Others, Request
<1>4. ASSUME Return(r)
      PROVE  Others(r) /\ req'[r].pc = "idle"
  BY <1>4 DEF Return, Idle, Others
<1> QED BY <1>1, <1>2, <1>3, <1>4

------------------------------------------------------------------------------
(* The legs.  Rows stay, a settled order stands, reviews are counted up.      *)

RowsGrow ==
  /\ DOMAIN tasks \subseteq DOMAIN tasks'
  /\ \A t \in DOMAIN tasks : tasks'[t].kind = tasks[t].kind
  /\ conversions # <<>> => conversions' # <<>>
  /\ settlements # <<>> => settlements' # <<>>
  /\ order \in {"COMPLETED", "FAILED"} => order' = order
  /\ reviews' = 0 => reviews = 0
  /\ reviews > 0 => reviews' > 0

Grows == RowsGrow /\ events \subseteq events'

LegRelies(r) == TaskKnown(r) /\ SettlesConverted(r) /\ CompletesSettled(r) /\ KnowsOrder(r)

LEMMA LegsStep ==
  ASSUME LegsInv, Grows, NEW r \in Requests, Others(r), LegsOfTrail', TasksOfManual',
         LegRelies(r)'
  PROVE  LegsInv'
<1>1. ASSUME NEW q \in Requests, q # r
      PROVE  LegRelies(q)'
  <2>1. LegRelies(q) /\ req'[q] = req[q] BY <1>1 DEF LegsInv, LegRelies, Others
  <2>2. TaskKnown(q)' BY <2>1 DEF LegRelies, TaskKnown, Grows, RowsGrow
  <2>3. \A k : ReportsOn(q, k)' => ReportsOn(q, k)
    BY <2>1 DEF LegRelies, TaskKnown, ReportsOn, OperatorPrograms, Grows, RowsGrow, At
  <2>4. SettlesConverted(q)' BY <2>1, <2>3 DEF LegRelies, SettlesConverted, Moving, Grows, RowsGrow
  <2>5. CompletesSettled(q)' BY <2>1, <2>3 DEF LegRelies, CompletesSettled, Moving, Grows, RowsGrow
  <2>6. Vouched' => Vouched BY DEF Grows, RowsGrow, Vouched
  <2>7. KnowsOrder(q)' BY <2>1, <2>6 DEF LegRelies, KnowsOrder, Moving, At, Grows, RowsGrow
  <2> QED BY <2>2, <2>4, <2>5, <2>7 DEF LegRelies
<1> QED BY <1>1 DEF LegsInv, LegRelies

LEMMA TrailKept ==
  ASSUME LegsInv, Grows, UNCHANGED attempts
  PROVE  LegsOfTrail'
<1>1. Vouched' => Vouched BY DEF Grows, RowsGrow, Vouched
<1> QED BY <1>1 DEF LegsInv, LegsOfTrail, Grows, RowsGrow

(* The request arrives at p, in no transition, and knows what p relies on.    *)
Converted == {"settle", "settleLeg", "createPayment", "insertSettlement", "poll",
              "complete", "opUpdate", "opSettleLegs", "opSettleInsert"}

LEMMA LegLands ==
  ASSUME LegsInv, Grows, UNCHANGED attempts, TasksOfManual', NEW r \in Requests, Others(r),
         NEW p, req'[r].pc = p, p \notin {"read", "commit", "review", "opMark"},
         p \in OperatorPrograms => req'[r].task \in DOMAIN tasks',
         p \in Converted => conversions' # <<>>,
         p \in {"poll", "complete", "webhookIntent"} => settlements' # <<>>,
         p \in {"webhookLeg", "webhookIntent"} /\ Vouched' => order' = "COMPLETED",
         p = "complete" /\ Payment = "auto" /\ Vouched' => order' = "COMPLETED"
  PROVE  LegsInv'
<1>1. TaskKnown(r)' BY DEF TaskKnown
<1>2. SettlesConverted(r)' BY DEF SettlesConverted, Converted, Moving, ReportsOn, At
<1>3. CompletesSettled(r)' BY DEF CompletesSettled, Moving, ReportsOn, At
<1>4. KnowsOrder(r)' BY DEF KnowsOrder, Moving, At
<1> QED BY <1>1, <1>2, <1>3, <1>4, TrailKept, LegsStep DEF LegRelies

(* The request is about to move the payment to s.                             *)
LEMMA LegHeads ==
  ASSUME LegsInv, Grows, UNCHANGED attempts, TasksOfManual', NEW r \in Requests, Others(r),
         NEW s, req'[r].pc \in {"read", "commit"}, req'[r].to = s,
         s \in {"FIAT_SETTLEMENT_PENDING", "COMPLETED"} => conversions' # <<>>,
         s = "COMPLETED" => settlements' # <<>>,
         s = "COMPLETED" /\ Payment = "auto" /\ Vouched' => order' = "COMPLETED",
         s \in {"REFUND_REQUIRED", "REFUNDED"} /\ Payment = "auto" /\ OffRamp = "auto"
           /\ reviews' = 0 => order' = "FAILED"
  PROVE  LegsInv'
<1>1. TaskKnown(r)' BY DEF TaskKnown, OperatorPrograms
<1>2. SettlesConverted(r)' BY DEF SettlesConverted, Moving, ReportsOn, At
<1>3. CompletesSettled(r)' BY DEF CompletesSettled, Moving, ReportsOn, At
<1>4. KnowsOrder(r)' BY DEF KnowsOrder, Moving, At
<1> QED BY <1>1, <1>2, <1>3, <1>4, TrailKept, LegsStep DEF LegRelies

(* A step that writes no row.                                                 *)
LEMMA StoredKept ==
  ASSUME LegsInv, UNCHANGED stored
  PROVE  /\ Grows /\ RowsGrow /\ TasksOfManual'
         /\ UNCHANGED <<status, attempts, txHash, chainTx, ledger, conversions, settlements,
                        tasks, events, broadcasts, mined, order, faults, reviews>>
<1>1. UNCHANGED <<status, attempts, txHash, chainTx, ledger, conversions, settlements,
                  tasks, events, broadcasts, mined, order, faults, reviews>>
  BY DEF stored, intent, books, rows, world, budget
<1>2. Grows BY <1>1 DEF Grows, RowsGrow
<1>3. TasksOfManual' BY <1>1 DEF LegsInv, TasksOfManual
<1> QED BY <1>1, <1>2, <1>3 DEF Grows

(* Where a reading step lands, by the operators that move a request.          *)
Simple == {"idle", "resumeFunding", "broadcast", "record", "confirm", "resumeConversion",
           "conversion", "offRamp", "insertConversion", "resumeSettlement"}

LEMMA ReadsSimple ==
  ASSUME LegsInv, Grows, UNCHANGED attempts, TasksOfManual', NEW r \in Requests, Others(r),
         req'[r].pc \in Simple
  PROVE  LegsInv'
BY LegLands DEF Simple, OperatorPrograms, Converted

LEMMA HeadsSimple ==
  ASSUME LegsInv, Grows, UNCHANGED attempts, TasksOfManual', req \in [Requests -> Request],
         NEW r \in Requests, NEW s, Transition(r, s),
         s \notin {"FIAT_SETTLEMENT_PENDING", "COMPLETED", "REFUND_REQUIRED", "REFUNDED"}
  PROVE  LegsInv'
BY Moved, LegHeads

LEMMA CustomerLegs ==
  ASSUME IInv, LegsInv, NEW r \in Requests,
         Authorize(r) \/ Cancel(r) \/ Refund(r) \/ Execute(r)
  PROVE  LegsInv'
<1>1. req \in [Requests -> Request] BY DEF IInv, TypeOK
<1>2. /\ Grows /\ TasksOfManual'
      /\ UNCHANGED <<status, attempts, conversions, settlements, tasks, order, reviews>>
  BY StoredKept DEF Authorize, Cancel, Refund, Execute
<1>3. CASE Authorize(r) \/ Cancel(r) BY <1>1, <1>2, <1>3, HeadsSimple DEF Authorize, Cancel
<1>4. CASE Refund(r)
  <2>1. attempts["REFUND_REQUIRED"] > 0 BY <1>4 DEF IInv, Rows, AuditPath, Refund
  <2>2. Payment = "auto" /\ OffRamp = "auto" /\ reviews = 0 => order = "FAILED"
    BY <2>1 DEF LegsInv, LegsOfTrail
  <2>3. Others(r) /\ req'[r].pc = "read" /\ req'[r].to = "REFUNDED" BY <1>1, <1>4, Moved DEF Refund
  <2> QED BY <1>2, <2>2, <2>3, LegHeads
<1>5. CASE Execute(r)
  <2>1. \/ req' = [req EXCEPT ![r].pc = "read", ![r].to = "CRYPTO_SUBMITTED"]
        \/ \E p \in {"resumeFunding", "resumeConversion", "resumeSettlement"} :
             req' = [req EXCEPT ![r].pc = p]
    BY <1>5 DEF Execute
  <2>2. CASE req' = [req EXCEPT ![r].pc = "read", ![r].to = "CRYPTO_SUBMITTED"]
    <3>1. Others(r) /\ req'[r].pc = "read" /\ req'[r].to = "CRYPTO_SUBMITTED"
      BY <1>1, <2>2 DEF Others, Request
    <3> QED BY <1>2, <3>1, LegHeads
  <2>3. ASSUME NEW p \in {"resumeFunding", "resumeConversion", "resumeSettlement"},
               req' = [req EXCEPT ![r].pc = p]
        PROVE  LegsInv'
    <3>1. Others(r) /\ req'[r].pc = p BY <1>1, <2>3 DEF Others, Request
    <3> QED BY <1>2, <3>1, ReadsSimple DEF Simple
  <2> QED BY <2>1, <2>2, <2>3
<1> QED BY <1>3, <1>4, <1>5

LEMMA FundingLegs ==
  ASSUME IInv, LegsInv, NEW r \in Requests,
         Broadcast(r) \/ RecordHash(r) \/ ResumeFunding(r) \/ WaitConfirmations(r)
  PROVE  LegsInv'
<1>1. req \in [Requests -> Request] BY DEF IInv, TypeOK
<1>2. /\ UNCHANGED <<attempts, events, conversions, settlements, tasks, order, reviews>>
  BY DEF Broadcast, RecordHash, ResumeFunding, WaitConfirmations, stored, intent, rows, world, budget
<1>3. Grows /\ TasksOfManual' BY <1>2 DEF Grows, RowsGrow, LegsInv, TasksOfManual
<1>4. \/ Transition(r, "RECONCILIATION_REQUIRED") \/ Transition(r, "CRYPTO_CONFIRMED")
      \/ Others(r) /\ req'[r].pc \in Simple
  <2>1. CASE Broadcast(r) BY <1>1, <2>1 DEF Broadcast, Others, Simple, Request
  <2>2. CASE RecordHash(r) BY <1>1, <2>2, Moved DEF RecordHash, Simple
  <2>3. CASE ResumeFunding(r) BY <1>1, <2>3 DEF ResumeFunding, Others, Simple, Request
  <2>4. CASE WaitConfirmations(r) BY <2>4 DEF WaitConfirmations
  <2> QED BY <2>1, <2>2, <2>3, <2>4
<1> QED BY <1>1, <1>2, <1>3, <1>4, HeadsSimple, ReadsSimple

LEMMA ConversionLegs ==
  ASSUME IInv, LegsInv, NEW r \in Requests,
         ResumeConversion(r) \/ RunConversionLeg(r) \/ ResumeSettlement(r)
  PROVE  LegsInv'
<1>1. req \in [Requests -> Request] BY DEF IInv, TypeOK
<1>2. /\ Grows /\ TasksOfManual'
      /\ UNCHANGED <<attempts, events, conversions, settlements, tasks, order, reviews>>
  BY StoredKept DEF ResumeConversion, RunConversionLeg, ResumeSettlement
<1>3. \/ Return(r) \/ Goto(r, "conversion") \/ Goto(r, "offRamp")
      \/ Goto(r, "settle") /\ conversions # <<>>
      \/ Transition(r, "RECONCILIATION_REQUIRED")
  BY DEF ResumeConversion, RunConversionLeg, ResumeSettlement, Holds
<1>4. CASE Goto(r, "settle") /\ conversions # <<>>
  <2>1. Others(r) /\ req'[r].pc = "settle" BY <1>1, <1>4, Moved
  <2> QED BY <1>2, <1>4, <2>1, LegLands DEF OperatorPrograms, Converted
<1>5. CASE Return(r) \/ Goto(r, "conversion") \/ Goto(r, "offRamp")
  <2>1. Others(r) /\ req'[r].pc \in Simple BY <1>1, <1>5, Moved DEF Simple
  <2> QED BY <1>2, <2>1, ReadsSimple
<1> QED BY <1>1, <1>2, <1>3, <1>4, <1>5, HeadsSimple

(* Filing a task leaves those before it.                                      *)
LEMMA TaskFiled ==
  ASSUME IInv, NEW k \in {"CONVERSION", "FIAT_SETTLEMENT"},
         tasks' = Append(tasks, [kind |-> k, result |-> "none"])
  PROVE  /\ DOMAIN tasks \subseteq DOMAIN tasks'
         /\ \A t \in DOMAIN tasks : tasks'[t] = tasks[t]
         /\ \A t \in DOMAIN tasks' \ DOMAIN tasks :
              t = Len(tasks) + 1 /\ tasks'[t].kind = k /\ tasks'[t].result = "none"
         /\ Len(tasks) + 1 \in DOMAIN tasks' \ DOMAIN tasks
<1> DEFINE Task == [kind : {"CONVERSION", "FIAT_SETTLEMENT"}, result : Results]
           x == [kind |-> k, result |-> "none"]
<1>1. tasks \in Seq(Task) /\ x \in Task /\ x.kind = k /\ x.result = "none"
  BY DEF IInv, TypeOK, Results
<1>2. tasks' = Append(tasks, x) OBVIOUS
<1> HIDE DEF x, Task
<1>3. /\ tasks' \in Seq(Task) /\ Len(tasks') = Len(tasks) + 1
      /\ \A i \in 1 .. Len(tasks) : tasks'[i] = tasks[i]
      /\ tasks'[Len(tasks) + 1] = x
  BY <1>1, <1>2, AppendProperties
<1>4. /\ Len(tasks) \in Nat /\ DOMAIN tasks = 1 .. Len(tasks)
      /\ DOMAIN tasks' = 1 .. Len(tasks) + 1
  BY <1>1, <1>3, LenProperties
<1> QED BY <1>1, <1>3, <1>4

(* The off-ramp's answer, or task, and the row it becomes.                    *)
LEMMA OffRampLegs ==
  ASSUME IInv, LegsInv, NEW r \in Requests, OffRampExecute(r)
  PROVE  LegsInv'
<1>1. req \in [Requests -> Request] BY DEF IInv, TypeOK
<1>2. UNCHANGED <<attempts, events, conversions, settlements, order, reviews>>
  BY DEF OffRampExecute, intent, world, budget
<1>3. \/ UNCHANGED tasks
      \/ OffRamp = "manual" /\ tasks' = FileConversion
  BY DEF OffRampExecute
<1>4. Grows /\ TasksOfManual'
  BY <1>2, <1>3, TaskFiled DEF Grows, RowsGrow, LegsInv, TasksOfManual, FileConversion
<1>5. CASE Transition(r, "RECONCILIATION_REQUIRED") BY <1>1, <1>2, <1>4, <1>5, HeadsSimple
<1>6. CASE \/ \E x \in {"full", "short"} :
                req' = [req EXCEPT ![r].pc = "insertConversion", ![r].result = x]
           \/ Goto(r, "insertConversion")
  <2>1. Others(r) /\ req'[r].pc \in Simple BY <1>1, <1>6, Moved DEF Simple, Others, Request
  <2> QED BY <1>2, <1>4, <2>1, ReadsSimple
<1> QED BY <1>5, <1>6 DEF OffRampExecute

LEMMA InsertConversionLegs ==
  ASSUME IInv, LegsInv, NEW r \in Requests, InsertConversion(r)
  PROVE  LegsInv'
<1>1. req \in [Requests -> Request] BY DEF IInv, TypeOK
<1>2. UNCHANGED <<attempts, events, settlements, tasks, order, reviews>>
  BY DEF InsertConversion, intent, world, budget
<1>3. LegOf(req[r].result) \in LegStatus BY LegOfType DEF IInv, TypeOK, Request
<1>4. conversions' # <<>>
  <2>1. conversions \in Seq(LegStatus) BY DEF IInv, TypeOK
  <2> QED BY <1>3, <2>1, AppendProperties DEF InsertConversion
<1>5. Grows /\ TasksOfManual' BY <1>2, <1>4 DEF Grows, RowsGrow, LegsInv, TasksOfManual
<1>6. Return(r) \/ Transition(r, "RECONCILIATION_REQUIRED") \/ Enter(r, "settle")
  BY <1>3 DEF InsertConversion, LegStatus
<1>7. CASE Enter(r, "settle")
  <2>1. Others(r) /\ req'[r].pc = "settle" BY <1>1, <1>7, Moved
  <2> QED BY <1>2, <1>4, <1>5, <2>1, LegLands DEF OperatorPrograms, Converted
<1>8. CASE Return(r)
  <2>1. Others(r) /\ req'[r].pc \in Simple BY <1>1, <1>8, Moved DEF Simple
  <2> QED BY <1>2, <1>5, <2>1, ReadsSimple
<1> QED BY <1>1, <1>2, <1>5, <1>6, <1>7, <1>8, HeadsSimple

(* A status of the trail has the rows the trail has.                          *)
LEMMA StatusLegs ==
  ASSUME IInv, LegsInv
  PROVE  /\ attempts[status] > 0
         /\ status = "FIAT_SETTLEMENT_PENDING" => conversions # <<>>
BY DEF IInv, Rows, AuditPath, LegsInv, LegsOfTrail

LEMMA BeginLegs ==
  ASSUME IInv, LegsInv, NEW r \in Requests, BeginSettlement(r) \/ FindOpenLeg(r)
  PROVE  LegsInv'
<1>1. req \in [Requests -> Request] BY DEF IInv, TypeOK
<1>2. /\ Grows /\ TasksOfManual'
      /\ UNCHANGED <<attempts, events, conversions, settlements, tasks, order, reviews>>
  BY StoredKept DEF BeginSettlement, FindOpenLeg
<1>3. conversions # <<>>
  BY DEF BeginSettlement, FindOpenLeg, At, LegsInv, SettlesConverted
<1>4. \/ Return(r) \/ Transition(r, "FIAT_SETTLEMENT_PENDING")
      \/ Goto(r, "settleLeg") \/ Goto(r, "createPayment")
      \/ /\ settlements # <<>>
         /\ \E n : req' = [req EXCEPT ![r].pc = "poll", ![r].ref = n]
  BY DEF BeginSettlement, FindOpenLeg
<1>5. CASE Transition(r, "FIAT_SETTLEMENT_PENDING")
  <2>1. Others(r) /\ req'[r].pc = "read" /\ req'[r].to = "FIAT_SETTLEMENT_PENDING"
    BY <1>1, <1>5, Moved
  <2> QED BY <1>2, <1>3, <2>1, LegHeads
<1>6. ASSUME NEW p \in {"idle", "settleLeg", "createPayment", "poll"},
             Others(r), req'[r].pc = p, p = "poll" => settlements # <<>>
      PROVE  LegsInv'
  BY <1>2, <1>3, <1>6, LegLands DEF OperatorPrograms
<1>7. CASE /\ settlements # <<>>
           /\ \E n : req' = [req EXCEPT ![r].pc = "poll", ![r].ref = n]
  <2>1. Others(r) /\ req'[r].pc = "poll" BY <1>1, <1>7 DEF Others, Request
  <2> QED BY <1>6, <1>7, <2>1
<1>8. CASE Return(r) \/ Goto(r, "settleLeg") \/ Goto(r, "createPayment")
  <2>1. Others(r) /\ req'[r].pc \in {"idle", "settleLeg", "createPayment"} BY <1>1, <1>8, Moved
  <2> QED BY <1>6, <2>1
<1> QED BY <1>4, <1>5, <1>7, <1>8

LEMMA CreatePaymentLegs ==
  ASSUME IInv, LegsInv, NEW r \in Requests, CreatePayment(r)
  PROVE  LegsInv'
<1>1. req \in [Requests -> Request] BY DEF IInv, TypeOK
<1>2. UNCHANGED <<attempts, events, conversions, settlements, reviews>>
  BY DEF CreatePayment, intent, budget
<1>3. conversions # <<>> BY DEF CreatePayment, At, LegsInv, SettlesConverted
<1>4. \/ /\ Payment = "auto" /\ UNCHANGED tasks
         /\ order' = IF order = "none" THEN "PENDING" ELSE order
      \/ /\ Payment = "manual" /\ UNCHANGED order
         /\ tasks' = Append(tasks, [kind |-> "FIAT_SETTLEMENT", result |-> "none"])
  BY DEF CreatePayment
<1>5. Grows /\ TasksOfManual'
  BY <1>2, <1>4, TaskFiled DEF Grows, RowsGrow, LegsInv, TasksOfManual
<1>6. \E n : req' = [req EXCEPT ![r].pc = "insertSettlement", ![r].ref = n]
  BY DEF CreatePayment
<1>7. Others(r) /\ req'[r].pc = "insertSettlement" BY <1>1, <1>6 DEF Others, Request
<1> QED BY <1>2, <1>3, <1>5, <1>7, LegLands DEF OperatorPrograms

(* One more row is a row.                                                     *)
LEMMA NewRow ==
  ASSUME IInv, NEW n \in Nat,
         settlements' = Append(settlements, [status |-> "PENDING", ref |-> n])
  PROVE  settlements' # <<>>
<1> DEFINE leg == [status |-> "PENDING", ref |-> n]
<1>1. settlements \in Seq(SettlementLeg) /\ leg \in SettlementLeg
  BY DEF IInv, TypeOK, SettlementLeg
<1> HIDE DEF leg
<1>2. settlements' = Append(settlements, leg) BY DEF leg
<1> QED BY <1>1, <1>2, AppendProperties

LEMMA InsertSettlementLegs ==
  ASSUME IInv, LegsInv, NEW r \in Requests, InsertSettlement(r)
  PROVE  LegsInv'
<1>1. req \in [Requests -> Request] BY DEF IInv, TypeOK
<1>2. UNCHANGED <<attempts, events, conversions, tasks, order, reviews>>
  BY DEF InsertSettlement, intent, world, budget
<1>3. conversions # <<>> BY DEF InsertSettlement, At, LegsInv, SettlesConverted
<1>4. settlements' # <<>> BY <1>1, NewRow DEF InsertSettlement, Request
<1>5. Grows /\ TasksOfManual' BY <1>2, <1>4 DEF Grows, RowsGrow, LegsInv, TasksOfManual
<1>6. Others(r) /\ req'[r].pc = "poll" BY <1>1, Moved DEF InsertSettlement
<1> QED BY <1>2, <1>3, <1>4, <1>5, <1>6, LegLands DEF OperatorPrograms

(* The poll knows what the provider says of the order; the completion what    *)
(* the poll, the webhook or the operator has said.                            *)
LEMMA PollLegs ==
  ASSUME IInv, LegsInv, NEW r \in Requests, Poll(r) \/ CompleteSettlement(r)
  PROVE  LegsInv'
<1>1. req \in [Requests -> Request] BY DEF IInv, TypeOK
<1>2. /\ Grows /\ TasksOfManual'
      /\ UNCHANGED <<attempts, events, conversions, settlements, tasks, order, reviews>>
  BY StoredKept DEF Poll, CompleteSettlement
<1>3. conversions # <<>> /\ settlements # <<>>
  BY DEF Poll, CompleteSettlement, At, LegsInv, SettlesConverted, CompletesSettled
<1>4. CASE Poll(r)
  <2>1. \/ Goto(r, "complete") /\ (Payment = "auto" => order = "COMPLETED")
        \/ Transition(r, "REFUND_REQUIRED") /\ (Payment = "auto" => order = "FAILED")
        \/ Return(r) \/ Transition(r, "RECONCILIATION_REQUIRED")
    BY <1>4 DEF Poll, Observed
  <2>2. CASE Goto(r, "complete") /\ (Payment = "auto" => order = "COMPLETED")
    <3>1. Others(r) /\ req'[r].pc = "complete" BY <1>1, <2>2, Moved
    <3> QED BY <1>2, <1>3, <2>2, <3>1, LegLands DEF OperatorPrograms
  <2>3. CASE Transition(r, "REFUND_REQUIRED") /\ (Payment = "auto" => order = "FAILED")
    <3>1. Others(r) /\ req'[r].pc = "read" /\ req'[r].to = "REFUND_REQUIRED"
      BY <1>1, <2>3, Moved
    <3> QED BY <1>2, <2>3, <3>1, LegHeads
  <2>4. CASE Return(r)
    <3>1. Others(r) /\ req'[r].pc \in Simple BY <1>1, <2>4, Moved DEF Simple
    <3> QED BY <1>2, <3>1, ReadsSimple
  <2> QED BY <1>1, <1>2, <2>1, <2>2, <2>3, <2>4, HeadsSimple
<1>5. CASE CompleteSettlement(r)
  <2>1. Vouched /\ Payment = "auto" => order = "COMPLETED"
    BY <1>5 DEF CompleteSettlement, At, LegsInv, KnowsOrder
  <2>2. CASE Return(r)
    <3>1. Others(r) /\ req'[r].pc \in Simple BY <1>1, <2>2, Moved DEF Simple
    <3> QED BY <1>2, <3>1, ReadsSimple
  <2>3. CASE Transition(r, "COMPLETED")
    <3>1. Others(r) /\ req'[r].pc = "read" /\ req'[r].to = "COMPLETED" BY <1>1, <2>3, Moved
    <3>2. Vouched' => Vouched BY <1>2 DEF Vouched
    <3> QED BY <1>2, <1>3, <2>1, <3>1, <3>2, LegHeads
  <2> QED BY <1>5, <2>2, <2>3 DEF CompleteSettlement
<1> QED BY <1>4, <1>5

LEMMA WebhookLegs ==
  ASSUME IInv, LegsInv, NEW r \in Requests, Webhook(r) \/ WebhookLeg(r) \/ WebhookIntent(r)
  PROVE  LegsInv'
<1>1. req \in [Requests -> Request] BY DEF IInv, TypeOK
<1>2. UNCHANGED <<attempts, conversions, settlements, tasks, order, reviews>>
  BY DEF Webhook, WebhookLeg, WebhookIntent, stored, intent, rows, world, budget
<1>3. events \subseteq events' BY DEF Webhook, WebhookLeg, WebhookIntent, stored, rows
<1>4. Grows /\ TasksOfManual' BY <1>2, <1>3 DEF Grows, RowsGrow, LegsInv, TasksOfManual
<1>5. Vouched' => order = "COMPLETED"
  <2>1. CASE Webhook(r)
    <3>1. PICK e \in Events \ events :
            (e \in Genuine => order = "COMPLETED") /\ events' = events \cup {e}
      BY <2>1 DEF Webhook
    <3> QED BY <3>1 DEF Vouched
  <2>2. CASE WebhookLeg(r) \/ WebhookIntent(r)
    BY <1>4, <2>2 DEF WebhookLeg, WebhookIntent, At, LegsInv, KnowsOrder, Grows, RowsGrow, Vouched
  <2> QED BY <2>1, <2>2
<1>6. CASE Return(r)
  <2>1. Others(r) /\ req'[r].pc \in Simple BY <1>1, <1>6, Moved DEF Simple
  <2> QED BY <1>2, <1>4, <2>1, ReadsSimple
<1>7. CASE Goto(r, "webhookIntent") /\ settlements # <<>>
  <2>1. Others(r) /\ req'[r].pc = "webhookIntent" BY <1>1, <1>7, Moved
  <2> QED BY <1>2, <1>4, <1>5, <1>7, <2>1, LegLands DEF OperatorPrograms, Converted
<1>8. CASE WebhookIntent(r) /\ Goto(r, "complete") /\ conversions # <<>>
  <2>1. settlements # <<>> BY <1>8 DEF WebhookIntent, At, LegsInv, CompletesSettled
  <2>2. Others(r) /\ req'[r].pc = "complete" BY <1>1, <1>8, Moved
  <2> QED BY <1>2, <1>4, <1>5, <1>8, <2>1, <2>2, LegLands DEF OperatorPrograms
<1>9. CASE Webhook(r)
  <2>1. PICK ref \in References : req' = [req EXCEPT ![r].pc = "webhookLeg", ![r].ref = ref]
    BY <1>9 DEF Webhook
  <2>2. Others(r) /\ req'[r].pc = "webhookLeg" BY <1>1, <2>1 DEF Others, Request
  <2> QED BY <1>2, <1>4, <1>5, <2>2, LegLands DEF OperatorPrograms, Converted
<1>10. CASE WebhookLeg(r)
  <2>1. Return(r) \/ (Goto(r, "webhookIntent") /\ \E i : i \in DOMAIN settlements)
    BY <1>10 DEF WebhookLeg
  <2>2. (\E i : i \in DOMAIN settlements) => settlements # <<>> OBVIOUS
  <2> QED BY <1>6, <1>7, <2>1, <2>2
<1>11. CASE WebhookIntent(r) BY <1>6, <1>8, <1>11 DEF WebhookIntent
<1> QED BY <1>9, <1>10, <1>11

(* The operator's report, from the task it names to the rows it settles.      *)
LEMMA ReportLegs ==
  ASSUME IInv, LegsInv, NEW r \in Requests, Operator(r)
  PROVE  LegsInv'
<1>1. req \in [Requests -> Request] BY DEF IInv, TypeOK
<1>2. /\ Grows /\ TasksOfManual'
      /\ UNCHANGED <<attempts, events, conversions, settlements, tasks, order, reviews>>
  BY StoredKept DEF Operator, Report
<1>3. PICK t \in DOMAIN tasks, x \in Results :
        req' = [req EXCEPT ![r].pc = "opIntent", ![r].task = t, ![r].result = x]
  BY DEF Operator, Report
<1>4. Others(r) /\ req'[r].pc = "opIntent" /\ req'[r].task = t
  BY <1>1, <1>3 DEF Others, Request
<1> QED BY <1>2, <1>3, <1>4, LegLands DEF Converted

(* It marks the task: one of a settlement only when there are rows for it.    *)
LEMMA LegMarks ==
  ASSUME LegsInv, Grows, UNCHANGED attempts, TasksOfManual', UNCHANGED tasks,
         NEW r \in Requests, Others(r), req'[r].pc = "opMark",
         req'[r].task = req[r].task, req'[r].result = req[r].result,
         req[r].task \in DOMAIN tasks,
         tasks[req[r].task].kind = "FIAT_SETTLEMENT" =>
           conversions # <<>> /\ (req[r].result # "failed" => settlements # <<>>)
  PROVE  LegsInv'
<1>1. TaskKnown(r)' BY DEF TaskKnown
<1>2. SettlesConverted(r)' BY DEF SettlesConverted, Moving, ReportsOn, At, Grows, RowsGrow
<1>3. CompletesSettled(r)' BY DEF CompletesSettled, Moving, ReportsOn, At, Grows, RowsGrow
<1>4. KnowsOrder(r)' BY DEF KnowsOrder, Moving, At
<1> QED BY <1>1, <1>2, <1>3, <1>4, TrailKept, LegsStep DEF LegRelies

LEMMA OperatorReads ==
  ASSUME IInv, LegsInv, NEW r \in Requests,
         OperatorIntent(r) \/ OperatorLegs(r) \/ OperatorSettleLegs(r)
  PROVE  LegsInv'
<1>1. req \in [Requests -> Request] BY DEF IInv, TypeOK
<1>2. /\ Grows /\ TasksOfManual'
      /\ UNCHANGED <<attempts, events, conversions, settlements, tasks, order, reviews>>
  BY StoredKept DEF OperatorIntent, OperatorLegs, OperatorSettleLegs
<1>3. req[r].task \in DOMAIN tasks
  BY DEF OperatorIntent, OperatorLegs, OperatorSettleLegs, At, LegsInv, TaskKnown, OperatorPrograms
<1>4. CASE OperatorIntent(r)
  <2>1. \/ Return(r)
        \/ Goto(r, "opMark") /\ tasks[req[r].task].kind = "CONVERSION"
        \/ Goto(r, "opMark") /\ status = "FIAT_SETTLEMENT_PENDING" /\ req[r].result = "failed"
        \/ Goto(r, "opSettleLegs") /\ status = "FIAT_SETTLEMENT_PENDING"
    BY <1>4 DEF OperatorIntent
  <2>2. CASE Return(r)
    <3>1. Others(r) /\ req'[r].pc \in Simple BY <1>1, <2>2, Moved DEF Simple
    <3> QED BY <1>2, <3>1, ReadsSimple
  <2>3. CASE Goto(r, "opMark") /\ (tasks[req[r].task].kind = "FIAT_SETTLEMENT" =>
                                     conversions # <<>> /\ req[r].result = "failed")
    <3>1. /\ Others(r) /\ req'[r].pc = "opMark" /\ req'[r].task = req[r].task
          /\ req'[r].result = req[r].result
      BY <1>1, <2>3, Moved
    <3> QED BY <1>2, <1>3, <2>3, <3>1, LegMarks
  <2>4. CASE Goto(r, "opSettleLegs") /\ conversions # <<>>
    <3>1. Others(r) /\ req'[r].pc = "opSettleLegs" /\ req'[r].task = req[r].task
      BY <1>1, <2>4, Moved
    <3> QED BY <1>2, <1>3, <2>4, <3>1, LegLands
  <2> QED BY <2>1, <2>2, <2>3, <2>4, StatusLegs
<1>5. CASE OperatorLegs(r)
  <2>1. CASE Goto(r, "opInsert")
    <3>1. Others(r) /\ req'[r].pc = "opInsert" /\ req'[r].task = req[r].task
      BY <1>1, <2>1, Moved
    <3> QED BY <1>2, <1>3, <3>1, LegLands DEF Converted
  <2>2. ASSUME NEW i \in DOMAIN conversions,
               req' = [req EXCEPT ![r].pc = "opUpdate", ![r].leg = i]
        PROVE  LegsInv'
    <3>1. Others(r) /\ req'[r].pc = "opUpdate" /\ req'[r].task = req[r].task
      BY <1>1, <2>2 DEF Others, Request
    <3>2. conversions # <<>> BY <2>2
    <3> QED BY <1>2, <1>3, <3>1, <3>2, LegLands
  <2> QED BY <1>5, <2>1, <2>2 DEF OperatorLegs
<1>6. CASE OperatorSettleLegs(r)
  <2>1. conversions # <<>> BY <1>6 DEF OperatorSettleLegs, At, LegsInv, SettlesConverted
  <2>2. CASE Goto(r, "opSettleInsert")
    <3>1. Others(r) /\ req'[r].pc = "opSettleInsert" /\ req'[r].task = req[r].task
      BY <1>1, <2>2, Moved
    <3> QED BY <1>2, <1>3, <2>1, <3>1, LegLands
  <2>3. ASSUME NEW i \in DOMAIN settlements,
               req' = [req EXCEPT ![r].pc = "opMark", ![r].ref = settlements[i].ref]
        PROVE  LegsInv'
    <3>1. /\ Others(r) /\ req'[r].pc = "opMark" /\ req'[r].task = req[r].task
          /\ req'[r].result = req[r].result
      BY <1>1, <2>3 DEF Others, Request
    <3>2. settlements # <<>> BY <2>3
    <3> QED BY <1>2, <1>3, <2>1, <3>1, <3>2, LegMarks
  <2> QED BY <1>6, <2>2, <2>3 DEF OperatorSettleLegs
<1> QED BY <1>4, <1>5, <1>6

LEMMA OperatorWrites ==
  ASSUME IInv, LegsInv, NEW r \in Requests,
         OperatorInsert(r) \/ OperatorUpdate(r) \/ OperatorSettleInsert(r)
  PROVE  LegsInv'
<1>1. req \in [Requests -> Request] /\ conversions \in Seq(LegStatus) BY DEF IInv, TypeOK
<1>2. UNCHANGED <<attempts, events, tasks, order, reviews>>
  BY DEF OperatorInsert, OperatorUpdate, OperatorSettleInsert, intent, world, budget
<1>3. req[r].task \in DOMAIN tasks
  BY DEF OperatorInsert, OperatorUpdate, OperatorSettleInsert, At, LegsInv, TaskKnown, OperatorPrograms
<1>4. CASE OperatorInsert(r)
  <2>1. conversions' # <<>> /\ UNCHANGED settlements
    BY <1>1, <1>4, AppendProperties DEF OperatorInsert, LegStatus
  <2>2. Grows /\ TasksOfManual' BY <1>2, <2>1 DEF Grows, RowsGrow, LegsInv, TasksOfManual
  <2>3. Others(r) /\ req'[r].pc = "opLegs" /\ req'[r].task = req[r].task
    BY <1>1, <1>4, Moved DEF OperatorInsert
  <2> QED BY <1>2, <1>3, <2>2, <2>3, LegLands DEF Converted
<1>5. CASE OperatorUpdate(r)
  <2>1. conversions # <<>> BY <1>5 DEF OperatorUpdate, At, LegsInv, SettlesConverted
  <2>2. conversions' # <<>> /\ UNCHANGED settlements
    <3>1. DOMAIN conversions' = DOMAIN conversions BY <1>5 DEF OperatorUpdate
    <3>2. DOMAIN conversions = 1 .. Len(conversions) /\ Len(conversions) \in Nat \ {0}
      BY <1>1, <2>1, LenProperties, EmptySeq
    <3> QED BY <1>5, <3>1, <3>2 DEF OperatorUpdate
  <2>3. Grows /\ TasksOfManual' BY <1>2, <2>2 DEF Grows, RowsGrow, LegsInv, TasksOfManual
  <2>4. CASE Transition(r, "RECONCILIATION_REQUIRED")
    BY <1>1, <1>2, <2>3, <2>4, HeadsSimple
  <2>5. CASE Enter(r, "settle")
    <3>1. Others(r) /\ req'[r].pc = "settle" BY <1>1, <2>5, Moved
    <3> QED BY <1>2, <2>2, <2>3, <3>1, LegLands DEF OperatorPrograms
  <2> QED BY <1>5, <2>4, <2>5 DEF OperatorUpdate
<1>6. CASE OperatorSettleInsert(r)
  <2>1. conversions # <<>> BY <1>6 DEF OperatorSettleInsert, At, LegsInv, SettlesConverted
  <2>2. settlements' # <<>> /\ UNCHANGED conversions
    BY <1>1, <1>6, NewRow DEF OperatorSettleInsert, Request
  <2>3. Grows /\ TasksOfManual' BY <1>2, <2>2 DEF Grows, RowsGrow, LegsInv, TasksOfManual
  <2>4. Others(r) /\ req'[r].pc = "opSettleLegs" /\ req'[r].task = req[r].task
    BY <1>1, <1>6, Moved DEF OperatorSettleInsert
  <2> QED BY <1>2, <1>3, <2>1, <2>2, <2>3, <2>4, LegLands
<1> QED BY <1>4, <1>5, <1>6

(* Marking a task sets its result and nothing else of the tasks.              *)
LEMMA TaskMarked ==
  ASSUME IInv, LegsInv, NEW r \in Requests, MarkTask(r)
  PROVE  /\ req[r].task \in DOMAIN tasks /\ DOMAIN tasks' = DOMAIN tasks
         /\ tasks'[req[r].task].kind = tasks[req[r].task].kind
         /\ tasks'[req[r].task].result = req[r].result
         /\ \A t \in DOMAIN tasks : t # req[r].task => tasks'[t] = tasks[t]
<1> DEFINE Task == [kind : {"CONVERSION", "FIAT_SETTLEMENT"}, result : Results]
           t == req[r].task
<1>1. t \in DOMAIN tasks BY DEF MarkTask, At, LegsInv, TaskKnown, OperatorPrograms
<1>2. tasks \in Seq(Task) BY DEF IInv, TypeOK
<1>3. tasks[t] \in Task BY <1>1, <1>2, RowRead
<1>4. DOMAIN tasks = 1 .. Len(tasks) BY <1>2, LenProperties
<1>5. tasks' = [tasks EXCEPT ![t].result = req[r].result] BY DEF MarkTask
<1> HIDE DEF t
<1>6. /\ DOMAIN tasks' = DOMAIN tasks
      /\ tasks'[t] = [tasks[t] EXCEPT !.result = req[r].result]
      /\ \A u \in DOMAIN tasks : u # t => tasks'[u] = tasks[u]
  BY <1>1, <1>5
<1>7. tasks'[t].kind = tasks[t].kind /\ tasks'[t].result = req[r].result BY <1>3, <1>6
<1> QED BY <1>1, <1>6, <1>7 DEF t

LEMMA MarkLegs ==
  ASSUME IInv, LegsInv, NEW r \in Requests, MarkTask(r)
  PROVE  LegsInv'
<1>1. req \in [Requests -> Request] BY DEF IInv, TypeOK
<1>2. UNCHANGED <<attempts, events, conversions, settlements, order, reviews>>
  BY DEF MarkTask, intent, world, budget
<1>3. \A t \in DOMAIN tasks : tasks'[t].kind = tasks[t].kind BY TaskMarked
<1>4. Grows /\ TasksOfManual' BY <1>2, <1>3, TaskMarked DEF Grows, RowsGrow, LegsInv, TasksOfManual
<1>5. req[r].task \in DOMAIN tasks /\ req[r].task \in DOMAIN tasks' BY TaskMarked
<1>6. tasks[req[r].task].kind \in {"CONVERSION", "FIAT_SETTLEMENT"}
  <2> DEFINE Task == [kind : {"CONVERSION", "FIAT_SETTLEMENT"}, result : Results]
  <2>1. tasks \in Seq(Task) BY DEF IInv, TypeOK
  <2>2. tasks[req[r].task] \in Task BY <1>5, <2>1, RowRead
  <2> QED BY <2>2
<1>7. CASE req[r].result = "failed"
  <2>1. Transition(r, "REFUND_REQUIRED") BY <1>7 DEF MarkTask
  <2>2. Others(r) /\ req'[r].pc = "read" /\ req'[r].to = "REFUND_REQUIRED" BY <1>1, <2>1, Moved
  <2>3. ~ (Payment = "auto" /\ OffRamp = "auto") BY <1>5, <1>6 DEF LegsInv, TasksOfManual
  <2> QED BY <1>2, <1>4, <2>2, <2>3, LegHeads
<1>8. CASE req[r].result # "failed" /\ tasks[req[r].task].kind = "CONVERSION"
  <2>1. Goto(r, "opLegs") BY <1>8 DEF MarkTask
  <2>2. Others(r) /\ req'[r].pc = "opLegs" /\ req'[r].task = req[r].task BY <1>1, <2>1, Moved
  <2> QED BY <1>2, <1>4, <1>5, <2>2, LegLands DEF Converted
<1>9. CASE req[r].result # "failed" /\ tasks[req[r].task].kind = "FIAT_SETTLEMENT"
  <2>1. Goto(r, "complete") BY <1>9 DEF MarkTask
  <2>2. Others(r) /\ req'[r].pc = "complete" BY <1>1, <2>1, Moved
  <2>3. ReportsOn(r, "FIAT_SETTLEMENT") BY <1>9 DEF MarkTask, ReportsOn
  <2>4. conversions # <<>> /\ settlements # <<>>
    BY <1>9, <2>3 DEF LegsInv, SettlesConverted, CompletesSettled
  <2>5. Payment # "auto" BY <1>5, <1>9 DEF LegsInv, TasksOfManual
  <2> QED BY <1>2, <1>4, <2>2, <2>4, <2>5, LegLands DEF OperatorPrograms
<1> QED BY <1>6, <1>7, <1>8, <1>9

LEMMA ReviewLegs ==
  ASSUME IInv, LegsInv, NEW r \in Requests, Review(r) \/ ReviewTrail(r)
  PROVE  LegsInv'
<1>1. req \in [Requests -> Request] /\ reviews \in Nat BY DEF IInv, TypeOK
<1>2. UNCHANGED <<attempts, events, conversions, settlements, tasks, order>>
  BY DEF Review, ReviewTrail, stored, intent, rows, world
<1>3. reviews' > 0
  BY <1>1 DEF Review, ReviewTrail, stored, budget, At, LegsInv, KnowsOrder
<1>4. Grows /\ TasksOfManual' BY <1>2, <1>3 DEF Grows, RowsGrow, LegsInv, TasksOfManual
<1>5. CASE Review(r)
  <2>1. Others(r) /\ req'[r].pc = "review" BY <1>1, <1>5 DEF Review, Others, Request
  <2>2. TaskKnown(r)' BY <2>1 DEF TaskKnown, OperatorPrograms
  <2>3. SettlesConverted(r)' /\ CompletesSettled(r)'
    BY <2>1 DEF SettlesConverted, CompletesSettled, Moving, ReportsOn, At
  <2>4. KnowsOrder(r)' BY <1>3, <2>1 DEF KnowsOrder, Moving, At
  <2> QED BY <1>2, <1>4, <2>1, <2>2, <2>3, <2>4, TrailKept, LegsStep DEF LegRelies
<1>6. CASE ReviewTrail(r) /\ Goto(r, "read")
  <2>1. /\ Others(r) /\ req'[r].pc = "read" /\ req'[r].to = req[r].to
        /\ req[r].to \notin {"FIAT_SETTLEMENT_PENDING", "COMPLETED", "REFUNDED"}
    <3>1. req[r].to \in Edges["RECONCILIATION_REQUIRED"]
      BY <1>6 DEF ReviewTrail, At, IInv, Relies, ReviewTarget, CanTransition
    <3> QED BY <1>1, <1>6, <3>1, Moved DEF Edges
  <2> QED BY <1>2, <1>3, <1>4, <2>1, LegHeads
<1>7. CASE Return(r)
  <2>1. Others(r) /\ req'[r].pc \in Simple BY <1>1, <1>7, Moved DEF Simple
  <2> QED BY <1>2, <1>4, <2>1, ReadsSimple
<1> QED BY <1>5, <1>6, <1>7 DEF ReviewTrail

LEMMA ReadLegs ==
  ASSUME IInv, LegsInv, NEW r \in Requests, TransitionRead(r)
  PROVE  LegsInv'
<1>1. req \in [Requests -> Request] BY DEF IInv, TypeOK
<1>2. /\ Grows /\ TasksOfManual'
      /\ UNCHANGED <<attempts, events, conversions, settlements, tasks, order, reviews>>
  BY StoredKept DEF TransitionRead
<1>3. CASE Return(r)
  <2>1. Others(r) /\ req'[r].pc \in Simple BY <1>1, <1>3, Moved DEF Simple
  <2> QED BY <1>2, <2>1, ReadsSimple
<1>4. CASE \E b : req' = [req EXCEPT ![r].pc = "commit", ![r].replay = b]
  <2> DEFINE s == req[r].to
  <2>1. Others(r) /\ req'[r].pc = "commit" /\ req'[r].to = s
    BY <1>1, <1>4 DEF Others, Request
  <2>2. Moving(r, s) BY DEF TransitionRead, At, Moving
  <2> HIDE DEF s
  <2>3. /\ s \in {"FIAT_SETTLEMENT_PENDING", "COMPLETED"} => conversions # <<>>
        /\ s = "COMPLETED" => settlements # <<>>
        /\ s = "COMPLETED" /\ Payment = "auto" /\ Vouched => order = "COMPLETED"
        /\ s \in {"REFUND_REQUIRED", "REFUNDED"} /\ Payment = "auto" /\ OffRamp = "auto"
             /\ reviews = 0 => order = "FAILED"
    BY <2>2 DEF LegsInv, SettlesConverted, CompletesSettled, KnowsOrder
  <2>4. Vouched' => Vouched BY <1>2 DEF Vouched
  <2> QED BY <1>2, <2>1, <2>3, <2>4, LegHeads
<1> QED BY <1>3, <1>4 DEF TransitionRead

LEMMA CommitLegs ==
  ASSUME IInv, LegsInv, NEW r \in Requests, TransitionCommit(r)
  PROVE  LegsInv'
<1> DEFINE s == req[r].to
<1>1. req \in [Requests -> Request] /\ s \in States /\ Moving(r, s)
  BY DEF IInv, TypeOK, TransitionCommit, At, Targeted, Moving
<1>2. Writes(r, s) /\ Continue(r, s) BY CommitWrites DEF TransitionCommit
<1>3. UNCHANGED <<conversions, tasks, events, order, reviews>>
  BY DEF TransitionCommit, world, budget
<1>4. settlements # <<>> <=> settlements' # <<>>
  <2>1. DOMAIN settlements' = DOMAIN settlements BY DEF TransitionCommit, CompleteLegs
  <2>2. settlements \in Seq(SettlementLeg) BY DEF IInv, TypeOK, SettlementLeg
  <2>3. DOMAIN settlements = 1 .. Len(settlements) /\ Len(settlements) \in Nat
    BY <2>2, LenProperties
  <2>4. CASE settlements = <<>>
    <3>1. settlements' = [i \in {} |-> settlements'[i]]
      BY <2>1, <2>4 DEF TransitionCommit, CompleteLegs
    <3> QED BY <2>4, <3>1
  <2>5. CASE settlements # <<>>
    <3>1. Len(settlements) # 0 BY <2>2, <2>5, EmptySeq
    <3>2. 1 \in DOMAIN settlements' BY <2>1, <2>3, <3>1
    <3> QED BY <2>5, <3>2
  <2> QED BY <2>4, <2>5
<1>5. Grows /\ TasksOfManual' BY <1>3, <1>4 DEF Grows, RowsGrow, LegsInv, TasksOfManual
<1> HIDE DEF s
<1>6. /\ s \in {"FIAT_SETTLEMENT_PENDING", "COMPLETED"} => conversions # <<>>
      /\ s = "COMPLETED" => settlements # <<>>
      /\ s = "COMPLETED" /\ Payment = "auto" /\ Vouched => order = "COMPLETED"
      /\ s \in {"REFUND_REQUIRED", "REFUNDED"} /\ Payment = "auto" /\ OffRamp = "auto"
           /\ reviews = 0 => order = "FAILED"
  BY <1>1 DEF LegsInv, SettlesConverted, CompletesSettled, KnowsOrder
<1>7. LegsOfTrail'
  <2>1. \A t \in States : t # s => (attempts'[t] > 0 => attempts[t] > 0) BY <1>2 DEF Writes
  <2>2. Vouched' => Vouched BY <1>5 DEF Grows, RowsGrow, Vouched
  <2> QED BY <1>3, <1>4, <1>6, <2>1, <2>2, StatesAre DEF LegsInv, LegsOfTrail
<1>8. /\ Others(r)
      /\ \/ req'[r].pc \in {"idle", "broadcast", "conversion"}
         \/ req'[r].pc = "settleLeg" /\ s = "FIAT_SETTLEMENT_PENDING"
         \/ req'[r].pc = "read" /\ req'[r].to = "CONVERSION_PENDING"
  BY <1>1, <1>2, ContinueTo DEF Only, Others
<1>9. TaskKnown(r)' BY <1>8 DEF TaskKnown, OperatorPrograms
<1>10. SettlesConverted(r)' BY <1>3, <1>6, <1>8 DEF SettlesConverted, Moving, ReportsOn, At
<1>11. CompletesSettled(r)' /\ KnowsOrder(r)'
  BY <1>8 DEF CompletesSettled, KnowsOrder, Moving, ReportsOn, At
<1> QED BY <1>5, <1>7, <1>8, <1>9, <1>10, <1>11, LegsStep DEF LegRelies

LEMMA WorldLegs ==
  ASSUME IInv, LegsInv, ChainConfirms \/ ProviderSettles \/ UNCHANGED vars
  PROVE  LegsInv'
<1>1. /\ UNCHANGED <<attempts, events, conversions, settlements, tasks, reviews, req>>
      /\ order \in {"COMPLETED", "FAILED"} => order' = order
  BY DEF ChainConfirms, ProviderSettles, vars, stored, intent, rows, world, budget
<1>2. Grows /\ TasksOfManual' BY <1>1 DEF Grows, RowsGrow, LegsInv, TasksOfManual
<1>3. ASSUME NEW r \in Requests PROVE LegsInv'
  <2>1. LegRelies(r)'
    BY <1>1 DEF LegsInv, LegRelies, TaskKnown, SettlesConverted, CompletesSettled, KnowsOrder,
       ReportsOn, Moving, At, Vouched
  <2>2. Others(r) BY <1>1 DEF Others
  <2> QED BY <1>1, <1>2, <2>1, <2>2, TrailKept, LegsStep
<1>4. CASE Requests = {} BY <1>1, <1>2, <1>4, TrailKept DEF LegsInv
<1> QED BY <1>3, <1>4

LEMMA FailureLegs ==
  ASSUME IInv, LegsInv, Crash \/ \E r \in Requests : Reject(r)
  PROVE  LegsInv'
<1>1. UNCHANGED <<attempts, events, conversions, settlements, tasks, order, reviews>>
  BY DEF Crash, Reject, intent, rows, world
<1>2. Grows /\ TasksOfManual' BY <1>1 DEF Grows, RowsGrow, LegsInv, TasksOfManual
<1>3. ASSUME NEW r \in Requests, Reject(r) PROVE LegsInv'
  <2>1. Others(r) /\ req'[r].pc \in Simple BY <1>3, Moved DEF Reject, Simple, IInv, TypeOK
  <2> QED BY <1>1, <1>2, <2>1, ReadsSimple
<1>4. CASE Crash
  <2>1. ASSUME NEW r \in Requests PROVE LegRelies(r)'
    <3>1. req'[r].pc = "idle" BY <1>4 DEF Crash, Idle
    <3> QED BY <3>1 DEF LegRelies, TaskKnown, SettlesConverted, CompletesSettled, KnowsOrder,
            ReportsOn, Moving, At, OperatorPrograms
  <2> QED BY <1>1, <1>2, <2>1, TrailKept DEF LegsInv, LegRelies
<1> QED BY <1>3, <1>4

LEMMA InitLegs ==
  ASSUME Init
  PROVE  LegsInv
<1>1. /\ attempts["FIAT_SETTLEMENT_PENDING"] = 0 /\ attempts["COMPLETED"] = 0
      /\ attempts["REFUND_REQUIRED"] = 0 /\ attempts["REFUNDED"] = 0 /\ tasks = <<>>
      /\ \A r \in Requests : req[r].pc = "idle"
  BY StatesAre DEF Init, Opened, Idle
<1>2. LegsOfTrail /\ TasksOfManual BY <1>1 DEF LegsOfTrail, TasksOfManual
<1>3. \A r \in Requests : LegRelies(r)
  BY <1>1 DEF LegRelies, TaskKnown, SettlesConverted, CompletesSettled, KnowsOrder,
     ReportsOn, Moving, At, OperatorPrograms
<1> QED BY <1>2, <1>3 DEF LegsInv, LegRelies

LEMMA NextLegs ==
  ASSUME IInv, LegsInv, [Next]_vars
  PROVE  LegsInv'
<1>1. ASSUME NEW r \in Requests, Step(r)
      PROVE  LegsInv'
  BY <1>1, ReadLegs, CommitLegs, FundingLegs, ConversionLegs, OffRampLegs,
     InsertConversionLegs, BeginLegs, CreatePaymentLegs, InsertSettlementLegs, PollLegs,
     WebhookLegs, MarkLegs, OperatorReads, OperatorWrites, ReviewLegs DEF Step
<1>2. ASSUME NEW r \in Requests, Call(r)
      PROVE  LegsInv'
  BY <1>2, CustomerLegs, WebhookLegs, ReportLegs, ReviewLegs DEF Call
<1> QED BY <1>1, <1>2, WorldLegs, FailureLegs DEF Next

(* In every interleaving the legs follow the trail: what has settled has been *)
(* converted, what is completed has a settlement, and an order of an          *)
(* automatic provider decides how the payment ends, unless somebody else has  *)
(* posted an event (Vouched).                                                 *)
THEOREM LegsInvariance == Spec => []EngineInv
<1>1. Init => EngineInv BY InitInvariant, InitLegs DEF EngineInv
<1>2. EngineInv /\ [Next]_vars => EngineInv' BY NextInvariant, NextLegs DEF EngineInv
<1> QED BY <1>1, <1>2, PTL DEF Spec

(* The reconciler never raises one of its row checks, in any interleaving of  *)
(* calls, crashes and reviews: receipt, conversion and settlement are on      *)
(* record whenever the status says so.                                        *)
THEOREM ReconcilerQuietAlways == Spec => []ReconcilerQuiet
<1>1. EngineInv => ReconcilerQuiet
  <2> SUFFICES ASSUME IInv, LegsInv PROVE Issues = {}
    BY DEF EngineInv, ReconcilerQuiet
  <2>1. ~ NoChainReceipt
    <3>1. attempts[status] > 0 /\ status \in States BY DEF IInv, Rows, AuditPath, TypeOK
    <3>2. status \in PastFunding => attempts["CRYPTO_CONFIRMED"] > 0
      BY <3>1 DEF IInv, Rows, FundedFirst, AfterFunding, PastFunding
    <3> QED BY <3>2 DEF IInv, Rows, BooksFollowTrail, NoChainReceipt
  <2>2. ~ NoConversion /\ ~ NoSettlement
    BY StatusLegs DEF LegsInv, LegsOfTrail, NoConversion, NoSettlement
  <2> QED BY <2>1, <2>2 DEF Issues
<1> QED BY <1>1, LegsInvariance, PTL

(* With an automatic settlement provider, as long as every event received was *)
(* its own, a payment is COMPLETED only if its order was paid, whatever polls, *)
(* webhooks and operators overlap.  Without that premise it is false: neither  *)
(* a signature nor the provider is asked before an event is believed.         *)
THEOREM CompletedMeansPaidAutomatic ==
  ASSUME Payment = "auto"
  PROVE  Spec => []CompletedMeansPaid
<1>1. EngineInv => CompletedMeansPaid
  BY DEF EngineInv, LegsInv, LegsOfTrail, CompletedMeansPaid
<1> QED BY <1>1, LegsInvariance, PTL

(* With automatic providers on both legs nobody is refunded for a merchant    *)
(* who was paid, unless a reviewer decides it.                                *)
THEOREM NotPaidAndRefundedAutomatic ==
  ASSUME Payment = "auto", OffRamp = "auto"
  PROVE  Spec => []NotPaidAndRefunded
<1>1. EngineInv => NotPaidAndRefunded
  <2> SUFFICES ASSUME IInv, LegsInv, ledger["refund"] > 0, reviews = 0
               PROVE  order # "COMPLETED" /\ PaidTasks = {}
    BY DEF EngineInv, NotPaidAndRefunded
  <2>1. attempts["REFUNDED"] > 0 BY DEF IInv, Rows, BooksFollowTrail
  <2>2. order = "FAILED" BY <2>1 DEF LegsInv, LegsOfTrail
  <2>3. PaidTasks = {} BY DEF LegsInv, TasksOfManual, PaidTasks
  <2> QED BY <2>2, <2>3
<1> QED BY <1>1, LegsInvariance, PTL

------------------------------------------------------------------------------
(* One call at a time.                                                        *)

OneRelies(r) == SeesStatus(r) /\ Lawful(r) /\ Reviewed(r) /\ Agrees(r)

TrailSame == UNCHANGED <<status, attempts, ledger, reviews>>

LEMMA OneStep ==
  ASSUME OneCall, OneCallInv, TrailSame, NEW r \in Requests, OneRelies(r)'
  PROVE  OneCallInv'
<1>1. OneTrail' /\ PostedOnce' BY DEF OneCallInv, OneTrail, Funded, PostedOnce, TrailSame
<1>2. \A q \in Requests : OneRelies(q)' BY DEF OneCall
<1> QED BY <1>1, <1>2 DEF OneCallInv, OneRelies

(* The call arrives at p, in no transition and with no report to keep to.     *)
OneLanding(p, s) ==
  /\ p \in {"resumeFunding", "broadcast", "record", "confirm"} => s = "CRYPTO_SUBMITTED"
  /\ p \in {"resumeConversion", "conversion", "offRamp", "insertConversion",
            "opLegs", "opInsert", "opUpdate"} => s = "CONVERSION_PENDING"
  /\ p \in {"resumeSettlement", "settleLeg", "createPayment", "insertSettlement", "poll",
            "complete", "opSettleLegs", "opSettleInsert"} => s = "FIAT_SETTLEMENT_PENDING"
  /\ p = "settle" => s \in {"CONVERSION_PENDING", "FIAT_SETTLEMENT_PENDING"}

Reporting == {"opIntent", "opMark", "opSettleLegs", "opSettleInsert"}

LEMMA OneLands ==
  ASSUME OneCall, OneCallInv, TrailSame, NEW r \in Requests, NEW p, req'[r].pc = p,
         p \notin {"read", "commit", "review"} \cup Reporting, OneLanding(p, status)
  PROVE  OneCallInv'
<1>1. SeesStatus(r)' BY DEF SeesStatus, OneLanding, ReportsOn, At, TrailSame, Reporting
<1>2. Lawful(r)' /\ Reviewed(r)' /\ Agrees(r)'
  BY DEF Lawful, Reviewed, Agrees, Moving, At, Reporting
<1> QED BY <1>1, <1>2, OneStep DEF OneRelies

(* The call goes on with a report that agrees with its task.                  *)
LEMMA OneReports ==
  ASSUME OneCall, OneCallInv, TrailSame, NEW r \in Requests, NEW p \in Reporting,
         req'[r].pc = p, OneLanding(p, status),
         p = "opMark" /\ tasks'[req'[r].task].kind = "CONVERSION" => status = "CONVERSION_PENDING",
         p = "opMark" /\ tasks'[req'[r].task].kind = "FIAT_SETTLEMENT" =>
           status = "FIAT_SETTLEMENT_PENDING",
         tasks'[req'[r].task].result \in {"none", req'[r].result}
  PROVE  OneCallInv'
<1>1. SeesStatus(r)' BY DEF SeesStatus, OneLanding, ReportsOn, At, TrailSame, Reporting
<1>2. Lawful(r)' /\ Reviewed(r)' /\ Agrees(r)'
  BY DEF Lawful, Reviewed, Agrees, Moving, At, Reporting
<1> QED BY <1>1, <1>2, OneStep DEF OneRelies

(* The call is about to follow the edge to s.                                 *)
LEMMA OneHeads ==
  ASSUME OneCall, OneCallInv, TrailSame, req \in [Requests -> Request], NEW r \in Requests,
         NEW s, Transition(r, s), CanTransition(status, s),
         status # "RECONCILIATION_REQUIRED", s = "AUTHORIZED" => attempts["AUTHORIZED"] <= reviews
  PROVE  OneCallInv'
<1>1. req'[r].pc = "read" /\ req'[r].to = s BY Moved
<1>2. SeesStatus(r)' BY <1>1 DEF SeesStatus, ReportsOn, At
<1>3. Lawful(r)' BY <1>1 DEF Lawful, At, TrailSame
<1>4. Reviewed(r)' /\ Agrees(r)' BY <1>1 DEF Reviewed, Agrees, Moving, At, TrailSame
<1> QED BY <1>2, <1>3, <1>4, OneStep DEF OneRelies

(* What the call of a step knows of the payment, and which edges that opens.  *)
LEMMA OneKnows ==
  ASSUME OneCallInv, NEW r \in Requests
  PROVE  SeesStatus(r) /\ Lawful(r) /\ Reviewed(r) /\ Agrees(r)
BY DEF OneCallInv

LEMMA OneCustomer ==
  ASSUME IInv, OneCall, OneCallInv, NEW r \in Requests,
         Authorize(r) \/ Cancel(r) \/ Refund(r) \/ Execute(r)
  PROVE  OneCallInv'
<1>1. req \in [Requests -> Request] /\ reviews \in Nat BY DEF IInv, TypeOK
<1>2. TrailSame
  BY DEF Authorize, Cancel, Refund, Execute, stored, intent, books, budget, TrailSame
<1>3. CASE Authorize(r)
  <2>1. attempts["AUTHORIZED"] <= reviews BY <1>1, <1>3 DEF Authorize, OneCallInv, OneTrail
  <2> QED BY <1>1, <1>2, <1>3, <2>1, OneHeads DEF Authorize, CanTransition, Edges
<1>4. CASE Cancel(r) BY <1>1, <1>2, <1>4, OneHeads DEF Cancel, Cancellable, CanTransition, Edges
<1>5. CASE Refund(r) BY <1>1, <1>2, <1>5, OneHeads DEF Refund, CanTransition, Edges
<1>6. CASE Execute(r)
  <2>1. CASE /\ status = "AUTHORIZED"
             /\ req' = [req EXCEPT ![r].pc = "read", ![r].to = "CRYPTO_SUBMITTED"]
    <3>1. req'[r].pc = "read" /\ req'[r].to = "CRYPTO_SUBMITTED" BY <1>1, <2>1 DEF Request
    <3>2. SeesStatus(r)' /\ Agrees(r)' /\ Reviewed(r)'
      BY <3>1 DEF SeesStatus, ReportsOn, Agrees, Reviewed, Moving, At
    <3>3. Lawful(r)' BY <1>2, <2>1, <3>1 DEF Lawful, At, TrailSame, CanTransition, Edges
    <3> QED BY <1>2, <3>2, <3>3, OneStep DEF OneRelies
  <2>2. ASSUME NEW p \in {"resumeFunding", "resumeConversion", "resumeSettlement"},
               req' = [req EXCEPT ![r].pc = p], OneLanding(p, status)
        PROVE  OneCallInv'
    <3>1. req'[r].pc = p BY <1>1, <2>2 DEF Request
    <3> QED BY <1>2, <2>2, <3>1, OneLands DEF Reporting
  <2> QED BY <1>6, <2>1, <2>2 DEF Execute, OneLanding
<1> QED BY <1>3, <1>4, <1>5, <1>6

LEMMA OneFunding ==
  ASSUME IInv, OneCall, OneCallInv, NEW r \in Requests,
         Broadcast(r) \/ RecordHash(r) \/ ResumeFunding(r) \/ WaitConfirmations(r)
  PROVE  OneCallInv'
<1>1. req \in [Requests -> Request] BY DEF IInv, TypeOK
<1>2. TrailSame
  BY DEF Broadcast, RecordHash, ResumeFunding, WaitConfirmations, stored, intent, books, budget,
         TrailSame
<1>3. status = "CRYPTO_SUBMITTED"
  BY OneKnows DEF Broadcast, RecordHash, ResumeFunding, WaitConfirmations, SeesStatus, At
<1>4. \/ Transition(r, "RECONCILIATION_REQUIRED") \/ Transition(r, "CRYPTO_CONFIRMED")
      \/ req'[r].pc \in {"record", "confirm"}
  <2>1. CASE Broadcast(r) BY <1>1, <2>1 DEF Broadcast, Request
  <2>2. CASE RecordHash(r) BY <1>1, <2>2, Moved DEF RecordHash
  <2>3. CASE ResumeFunding(r) BY <1>1, <2>3 DEF ResumeFunding, Request
  <2>4. CASE WaitConfirmations(r) BY <2>4 DEF WaitConfirmations
  <2> QED BY <2>1, <2>2, <2>3, <2>4
<1>5. CASE req'[r].pc \in {"record", "confirm"}
  BY <1>2, <1>3, <1>5, OneLands DEF OneLanding, Reporting
<1> QED BY <1>1, <1>2, <1>3, <1>4, <1>5, OneHeads DEF CanTransition, Edges

LEMMA OneConversion ==
  ASSUME IInv, OneCall, OneCallInv, NEW r \in Requests,
         \/ ResumeConversion(r) \/ RunConversionLeg(r) \/ OffRampExecute(r)
         \/ InsertConversion(r) \/ ResumeSettlement(r)
  PROVE  OneCallInv'
<1>1. req \in [Requests -> Request] BY DEF IInv, TypeOK
<1>2. TrailSame
  BY DEF ResumeConversion, RunConversionLeg, OffRampExecute, InsertConversion, ResumeSettlement,
         stored, intent, books, budget, TrailSame
<1>3. status \in {"CONVERSION_PENDING", "FIAT_SETTLEMENT_PENDING"}
  BY OneKnows DEF ResumeConversion, RunConversionLeg, OffRampExecute, InsertConversion,
     ResumeSettlement, SeesStatus, At
<1>4. \/ Transition(r, "RECONCILIATION_REQUIRED")
      \/ req'[r].pc \in {"idle", "settle"}
      \/ status = "CONVERSION_PENDING" /\ req'[r].pc \in {"conversion", "offRamp", "insertConversion"}
  <2>1. CASE ResumeConversion(r) \/ RunConversionLeg(r)
    <3>1. status = "CONVERSION_PENDING"
      BY <2>1, OneKnows DEF ResumeConversion, RunConversionLeg, SeesStatus, At
    <3> QED BY <1>1, <2>1, <3>1, Moved DEF ResumeConversion, RunConversionLeg
  <2>2. CASE OffRampExecute(r)
    <3>1. status = "CONVERSION_PENDING" BY <2>2, OneKnows DEF OffRampExecute, SeesStatus, At
    <3>2. \/ Transition(r, "RECONCILIATION_REQUIRED") \/ Goto(r, "insertConversion")
          \/ \E x : req' = [req EXCEPT ![r].pc = "insertConversion", ![r].result = x]
      BY <2>2 DEF OffRampExecute
    <3> QED BY <1>1, <3>1, <3>2, Moved DEF Request
  <2>3. CASE InsertConversion(r)
    <3>1. LegOf(req[r].result) \in LegStatus BY <1>1, LegOfType DEF Request
    <3>2. Return(r) \/ Transition(r, "RECONCILIATION_REQUIRED") \/ Enter(r, "settle")
      BY <2>3, <3>1 DEF InsertConversion, LegStatus
    <3> QED BY <1>1, <3>2, Moved
  <2>4. CASE ResumeSettlement(r) BY <1>1, <2>4, Moved DEF ResumeSettlement
  <2> QED BY <2>1, <2>2, <2>3, <2>4
<1>5. ASSUME NEW p \in {"idle", "settle", "conversion", "offRamp", "insertConversion"},
             req'[r].pc = p, p \notin {"idle", "settle"} => status = "CONVERSION_PENDING"
      PROVE  OneCallInv'
  BY <1>2, <1>3, <1>5, OneLands DEF OneLanding, Reporting
<1> QED BY <1>1, <1>2, <1>3, <1>4, <1>5, OneHeads DEF CanTransition, Edges

LEMMA OneSettlement ==
  ASSUME IInv, OneCall, OneCallInv, NEW r \in Requests,
         \/ BeginSettlement(r) \/ FindOpenLeg(r) \/ CreatePayment(r)
         \/ InsertSettlement(r) \/ Poll(r) \/ CompleteSettlement(r)
  PROVE  OneCallInv'
<1>1. req \in [Requests -> Request] BY DEF IInv, TypeOK
<1>2. TrailSame
  BY DEF BeginSettlement, FindOpenLeg, CreatePayment, InsertSettlement, Poll, CompleteSettlement,
         stored, intent, books, budget, TrailSame
<1>3. ASSUME NEW p \in {"idle", "settleLeg", "createPayment", "insertSettlement", "poll",
                        "complete"},
             req'[r].pc = p, p # "idle" => status = "FIAT_SETTLEMENT_PENDING"
      PROVE  OneCallInv'
  BY <1>2, <1>3, OneLands DEF OneLanding, Reporting
<1>4. CASE BeginSettlement(r)
  <2>1. status \in {"CONVERSION_PENDING", "FIAT_SETTLEMENT_PENDING"}
    BY <1>4, OneKnows DEF BeginSettlement, SeesStatus, At
  <2>2. CASE status = "CONVERSION_PENDING"
    <3>1. Transition(r, "FIAT_SETTLEMENT_PENDING") BY <1>4, <2>2 DEF BeginSettlement
    <3> QED BY <1>1, <1>2, <2>2, <3>1, OneHeads DEF CanTransition, Edges
  <2>3. CASE status = "FIAT_SETTLEMENT_PENDING"
    <3>1. req'[r].pc = "settleLeg" BY <1>1, <1>4, <2>3, Moved DEF BeginSettlement
    <3> QED BY <1>3, <2>3, <3>1
  <2> QED BY <2>1, <2>2, <2>3
<1>5. CASE FindOpenLeg(r) \/ CreatePayment(r) \/ InsertSettlement(r)
  <2>1. status = "FIAT_SETTLEMENT_PENDING"
    BY <1>5, OneKnows DEF FindOpenLeg, CreatePayment, InsertSettlement, SeesStatus, At
  <2>2. \/ Goto(r, "createPayment") \/ Goto(r, "poll")
        \/ \E n : req' = [req EXCEPT ![r].pc = "poll", ![r].ref = n]
        \/ \E n : req' = [req EXCEPT ![r].pc = "insertSettlement", ![r].ref = n]
    BY <1>5 DEF FindOpenLeg, CreatePayment, InsertSettlement
  <2>3. req'[r].pc \in {"createPayment", "poll", "insertSettlement"}
    BY <1>1, <2>2, Moved DEF Request
  <2> QED BY <1>3, <2>1, <2>3
<1>6. CASE Poll(r) \/ CompleteSettlement(r)
  <2>1. status = "FIAT_SETTLEMENT_PENDING"
    BY <1>6, OneKnows DEF Poll, CompleteSettlement, SeesStatus, At
  <2>2. \/ Transition(r, "REFUND_REQUIRED") \/ Transition(r, "RECONCILIATION_REQUIRED")
        \/ Transition(r, "COMPLETED") \/ req'[r].pc \in {"idle", "complete"}
    BY <1>1, <1>6, Moved DEF Poll, CompleteSettlement
  <2> QED BY <1>1, <1>2, <1>3, <2>1, <2>2, OneHeads DEF CanTransition, Edges
<1> QED BY <1>4, <1>5, <1>6

LEMMA OneWebhook ==
  ASSUME IInv, OneCall, OneCallInv, NEW r \in Requests,
         Webhook(r) \/ WebhookLeg(r) \/ WebhookIntent(r)
  PROVE  OneCallInv'
<1>1. req \in [Requests -> Request] BY DEF IInv, TypeOK
<1>2. TrailSame
  BY DEF Webhook, WebhookLeg, WebhookIntent, stored, intent, books, budget, TrailSame
<1>3. \/ \E n : req' = [req EXCEPT ![r].pc = "webhookLeg", ![r].ref = n]
      \/ Goto(r, "webhookIntent") \/ Return(r)
      \/ (status = "FIAT_SETTLEMENT_PENDING" /\ Goto(r, "complete"))
  BY DEF Webhook, WebhookLeg, WebhookIntent
<1>4. \/ req'[r].pc \in {"webhookLeg", "webhookIntent", "idle"}
      \/ (status = "FIAT_SETTLEMENT_PENDING" /\ req'[r].pc = "complete")
  BY <1>1, <1>3, Moved DEF Request
<1> QED BY <1>2, <1>4, OneLands DEF OneLanding, Reporting

LEMMA OneOperatorReads ==
  ASSUME IInv, OneCall, OneCallInv, TasksInv, NEW r \in Requests,
         Operator(r) \/ OperatorIntent(r) \/ OperatorLegs(r) \/ OperatorSettleLegs(r)
  PROVE  OneCallInv'
<1>1. req \in [Requests -> Request] BY DEF IInv, TypeOK
<1>2. TrailSame /\ UNCHANGED tasks
  BY DEF Operator, Report, OperatorIntent, OperatorLegs, OperatorSettleLegs, stored, intent,
         books, rows, budget, TrailSame
<1>3. CASE Operator(r)
  <2>1. PICK t \in DOMAIN tasks, x \in Results :
          /\ tasks[t].result \in {"none", x}
          /\ req' = [req EXCEPT ![r].pc = "opIntent", ![r].task = t, ![r].result = x]
    BY <1>3 DEF Operator, Report
  <2>2. req'[r].pc = "opIntent" /\ req'[r].task = t /\ req'[r].result = x
    BY <1>1, <2>1 DEF Request
  <2> QED BY <1>2, <2>1, <2>2, OneReports DEF OneLanding, Reporting
<1>4. CASE OperatorIntent(r)
  <2>1. tasks[req[r].task].result \in {"none", req[r].result}
    BY <1>4, OneKnows DEF OperatorIntent, Agrees, At
  <2>2. \/ Return(r)
        \/ /\ Goto(r, "opMark") /\ tasks[req[r].task].kind = "CONVERSION"
           /\ status = "CONVERSION_PENDING"
        \/ /\ Goto(r, "opMark") /\ tasks[req[r].task].kind = "FIAT_SETTLEMENT"
           /\ status = "FIAT_SETTLEMENT_PENDING"
        \/ Goto(r, "opSettleLegs") /\ status = "FIAT_SETTLEMENT_PENDING"
    BY <1>4 DEF OperatorIntent
  <2>3. CASE Return(r)
    <3>1. req'[r].pc = "idle" BY <1>1, <2>3, Moved
    <3> QED BY <1>2, <3>1, OneLands DEF OneLanding, Reporting
  <2>4. ASSUME NEW p \in {"opMark", "opSettleLegs"}, Goto(r, p), OneLanding(p, status),
               p = "opMark" /\ tasks[req[r].task].kind = "CONVERSION" =>
                 status = "CONVERSION_PENDING",
               p = "opMark" /\ tasks[req[r].task].kind = "FIAT_SETTLEMENT" =>
                 status = "FIAT_SETTLEMENT_PENDING"
        PROVE  OneCallInv'
    <3>1. req'[r].pc = p /\ req'[r].task = req[r].task /\ req'[r].result = req[r].result
      BY <1>1, <2>4, Moved
    <3> QED BY <1>2, <2>1, <2>4, <3>1, OneReports DEF Reporting
  <2> QED BY <2>2, <2>3, <2>4 DEF OneLanding
<1>5. CASE OperatorLegs(r)
  <2>1. status = "CONVERSION_PENDING" BY <1>5, OneKnows DEF OperatorLegs, SeesStatus, At
  <2>2. req'[r].pc \in {"opInsert", "opUpdate"} BY <1>1, <1>5 DEF OperatorLegs, Goto, Request
  <2> QED BY <1>2, <2>1, <2>2, OneLands DEF OneLanding, Reporting
<1>6. CASE OperatorSettleLegs(r)
  <2>1. /\ status = "FIAT_SETTLEMENT_PENDING"
        /\ tasks[req[r].task].result \in {"none", req[r].result}
        /\ tasks[req[r].task].kind = "FIAT_SETTLEMENT"
    BY <1>6, OneKnows DEF OperatorSettleLegs, SeesStatus, Agrees, At, TasksInv, SettlesTasks, TasksOf
  <2>2. /\ req'[r].pc \in {"opSettleInsert", "opMark"} /\ req'[r].task = req[r].task
        /\ req'[r].result = req[r].result
    BY <1>1, <1>6 DEF OperatorSettleLegs, Goto, Request
  <2> QED BY <1>2, <2>1, <2>2, OneReports DEF OneLanding, Reporting
<1> QED BY <1>3, <1>4, <1>5, <1>6

LEMMA OneOperatorWrites ==
  ASSUME IInv, LegsInv, OneCall, OneCallInv, NEW r \in Requests,
         MarkTask(r) \/ OperatorInsert(r) \/ OperatorUpdate(r) \/ OperatorSettleInsert(r)
  PROVE  OneCallInv'
<1>1. req \in [Requests -> Request] BY DEF IInv, TypeOK
<1>2. TrailSame
  BY DEF MarkTask, OperatorInsert, OperatorUpdate, OperatorSettleInsert, intent, books, budget,
         TrailSame
<1>3. CASE MarkTask(r)
  <2>1. /\ tasks[req[r].task].kind \in {"CONVERSION", "FIAT_SETTLEMENT"}
        /\ req[r].task \in DOMAIN tasks
    <3> DEFINE Task == [kind : {"CONVERSION", "FIAT_SETTLEMENT"}, result : Results]
    <3>1. req[r].task \in DOMAIN tasks BY <1>3, TaskMarked
    <3>2. tasks \in Seq(Task) BY DEF IInv, TypeOK
    <3>3. tasks[req[r].task] \in Task BY <3>1, <3>2, RowRead
    <3> QED BY <3>1, <3>3
  <2>2. /\ tasks[req[r].task].kind = "CONVERSION" => status = "CONVERSION_PENDING"
        /\ tasks[req[r].task].kind = "FIAT_SETTLEMENT" => status = "FIAT_SETTLEMENT_PENDING"
    BY <1>3, OneKnows DEF MarkTask, SeesStatus, ReportsOn
  <2>3. \/ Transition(r, "REFUND_REQUIRED")
        \/ Goto(r, "opLegs") /\ tasks[req[r].task].kind = "CONVERSION"
        \/ Goto(r, "complete") /\ tasks[req[r].task].kind = "FIAT_SETTLEMENT"
    BY <1>3, <2>1 DEF MarkTask
  <2>4. \/ Transition(r, "REFUND_REQUIRED")
        \/ /\ req'[r].pc \in {"opLegs", "complete"} /\ OneLanding(req'[r].pc, status)
    BY <1>1, <2>2, <2>3, Moved DEF OneLanding
  <2> QED BY <1>1, <1>2, <2>1, <2>2, <2>4, OneHeads, OneLands DEF CanTransition, Edges, Reporting
<1>4. CASE OperatorInsert(r)
  <2>1. status = "CONVERSION_PENDING" BY <1>4, OneKnows DEF OperatorInsert, SeesStatus, At
  <2>2. req'[r].pc = "opLegs" BY <1>1, <1>4, Moved DEF OperatorInsert
  <2> QED BY <1>2, <2>1, <2>2, OneLands DEF OneLanding, Reporting
<1>5. CASE OperatorUpdate(r)
  <2>1. status = "CONVERSION_PENDING" BY <1>5, OneKnows DEF OperatorUpdate, SeesStatus, At
  <2>2. Transition(r, "RECONCILIATION_REQUIRED") \/ req'[r].pc = "settle"
    BY <1>1, <1>5, Moved DEF OperatorUpdate
  <2> QED BY <1>1, <1>2, <2>1, <2>2, OneHeads, OneLands
      DEF CanTransition, Edges, OneLanding, Reporting
<1>6. CASE OperatorSettleInsert(r)
  <2>1. /\ status = "FIAT_SETTLEMENT_PENDING" /\ UNCHANGED tasks
        /\ tasks[req[r].task].result \in {"none", req[r].result}
    BY <1>6, OneKnows DEF OperatorSettleInsert, SeesStatus, Agrees, At
  <2>2. /\ req'[r].pc = "opSettleLegs" /\ req'[r].task = req[r].task
        /\ req'[r].result = req[r].result
    BY <1>1, <1>6, Moved DEF OperatorSettleInsert
  <2> QED BY <1>2, <2>1, <2>2, OneReports DEF OneLanding, Reporting
<1> QED BY <1>3, <1>4, <1>5, <1>6

(* A reviewer pays for one more authorization, and decides by the trail.      *)
LEMMA OneReview ==
  ASSUME IInv, LegsInv, OneCall, OneCallInv, NEW r \in Requests, Review(r) \/ ReviewTrail(r)
  PROVE  OneCallInv'
<1>1. req \in [Requests -> Request] /\ reviews \in Nat /\ attempts["AUTHORIZED"] \in Nat
  BY StatesAre DEF IInv, TypeOK
<1>2. CASE Review(r)
  <2>1. /\ UNCHANGED <<status, attempts, ledger>> /\ reviews' = reviews + 1
        /\ status = "RECONCILIATION_REQUIRED" /\ req'[r].pc = "review"
    BY <1>1, <1>2 DEF Review, intent, books, Request
  <2>2. OneTrail' /\ PostedOnce' /\ attempts'["AUTHORIZED"] <= reviews'
    BY <1>1, <2>1 DEF OneCallInv, OneTrail, Funded, PostedOnce
  <2>3. OneRelies(r)'
    BY <2>1, <2>2 DEF OneRelies, SeesStatus, Lawful, Reviewed, Agrees, ReportsOn, Moving, At
  <2> QED BY <2>2, <2>3 DEF OneCallInv, OneRelies, OneCall
<1>3. CASE ReviewTrail(r)
  <2>1. TrailSame BY <1>3 DEF ReviewTrail, stored, intent, books, budget, TrailSame
  <2>2. CASE Return(r)
    <3>1. req'[r].pc = "idle" BY <1>1, <2>2, Moved
    <3> QED BY <2>1, <3>1, OneLands DEF OneLanding, Reporting
  <2>3. CASE Goto(r, "read") /\ (Funded <=> req[r].to = "REFUND_REQUIRED")
    <3>1. req'[r].pc = "read" /\ req'[r].to = req[r].to BY <1>1, <2>3, Moved
    <3>2. /\ status = "RECONCILIATION_REQUIRED" /\ reviews > 0
          /\ CanTransition(status, req[r].to) /\ attempts["AUTHORIZED"] <= reviews
      BY <1>3, OneKnows DEF ReviewTrail, SeesStatus, Reviewed, LegsInv, KnowsOrder,
         IInv, Relies, ReviewTarget, At
    <3>3. Funded' <=> Funded BY <2>1 DEF Funded, TrailSame
    <3>4. Lawful(r)' BY <2>1, <2>3, <3>1, <3>2, <3>3 DEF Lawful, At, TrailSame
    <3>5. SeesStatus(r)' /\ Agrees(r)' BY <3>1 DEF SeesStatus, Agrees, ReportsOn, At
    <3>6. Reviewed(r)' BY <2>1, <3>1, <3>2 DEF Reviewed, Moving, At, TrailSame
    <3> QED BY <2>1, <3>4, <3>5, <3>6, OneStep DEF OneRelies
  <2> QED BY <1>3, <2>2, <2>3 DEF ReviewTrail
<1> QED BY <1>2, <1>3

(* The transition still finds the status its call has seen.                   *)
LEMMA OneRead ==
  ASSUME IInv, OneCall, OneCallInv, NEW r \in Requests, TransitionRead(r)
  PROVE  OneCallInv'
<1>1. req \in [Requests -> Request] BY DEF IInv, TypeOK
<1>2. TrailSame BY DEF TransitionRead, stored, intent, books, budget, TrailSame
<1>3. CASE Return(r)
  <2>1. req'[r].pc = "idle" BY <1>1, <1>3, Moved
  <2> QED BY <1>2, <2>1, OneLands DEF OneLanding, Reporting
<1>4. CASE req' = [req EXCEPT ![r].pc = "commit", ![r].replay = (status = req[r].to)]
  <2>1. /\ CanTransition(status, req[r].to) /\ At(r, "read")
        /\ status = "RECONCILIATION_REQUIRED" =>
             reviews > 0 /\ (Funded <=> req[r].to = "REFUND_REQUIRED")
        /\ req[r].to = "AUTHORIZED" => attempts["AUTHORIZED"] <= reviews
    BY OneKnows DEF TransitionRead, Lawful, Reviewed, Moving, At
  <2>2. status # req[r].to
    <3>1. status \in States BY DEF IInv, TypeOK
    <3> QED BY <2>1, <3>1, StatesAre DEF CanTransition, Edges
  <2>3. req'[r].pc = "commit" /\ req'[r].to = req[r].to /\ ~ req'[r].replay
    BY <1>1, <1>4, <2>2 DEF Request
  <2>4. Funded' <=> Funded BY <1>2 DEF Funded, TrailSame
  <2>5. Lawful(r)' BY <1>2, <2>1, <2>3, <2>4 DEF Lawful, At, TrailSame
  <2>6. SeesStatus(r)' /\ Agrees(r)' BY <2>3 DEF SeesStatus, Agrees, ReportsOn, At
  <2>7. Reviewed(r)' BY <1>2, <2>1, <2>3 DEF Reviewed, Moving, At, TrailSame
  <2> QED BY <1>2, <2>5, <2>6, <2>7, OneStep DEF OneRelies
<1> QED BY <1>3, <1>4 DEF TransitionRead

(* What a commit does to the trail of a payment nobody else moves.            *)
LEMMA OneCommits ==
  ASSUME IInv, OneCallInv, NEW r \in Requests, TransitionCommit(r)
  PROVE  LET s == req[r].to IN
         /\ Writes(r, s) /\ ~ req[r].replay /\ status' = s /\ s \in States /\ status \in States
         /\ attempts'[s] = attempts[s] + 1
         /\ \A t \in States \ {s} : attempts'[t] = attempts[t]
         /\ CanTransition(status, s)
         /\ status = "RECONCILIATION_REQUIRED" =>
              reviews > 0 /\ (Funded <=> s = "REFUND_REQUIRED")
         /\ s = "AUTHORIZED" => attempts["AUTHORIZED"] <= reviews
         /\ Funded' <=> (Funded \/ s \in PastFunding)
         /\ reviews' = reviews
<1> DEFINE s == req[r].to
<1>1. Writes(r, s) BY CommitWrites
<1>2. ~ req[r].replay BY OneKnows DEF TransitionCommit, Lawful
<1>3. /\ status' = s /\ s \in States /\ attempts'[s] = attempts[s] + 1
      /\ \A t \in States : attempts[t] \in Nat
      /\ \A t \in States \ {s} : attempts'[t] = attempts[t]
  BY <1>1, <1>2 DEF Writes
<1>4. /\ CanTransition(status, s)
      /\ status = "RECONCILIATION_REQUIRED" =>
           reviews > 0 /\ (Funded <=> s = "REFUND_REQUIRED")
      /\ s = "AUTHORIZED" => attempts["AUTHORIZED"] <= reviews
  BY OneKnows DEF TransitionCommit, Lawful, Reviewed, Moving, At
<1>5. PastFunding \subseteq States BY StatesAre DEF PastFunding
<1> HIDE DEF s
<1>6. Funded' <=> (Funded \/ s \in PastFunding) BY <1>3, <1>5 DEF Funded
<1>7. reviews' = reviews /\ status \in States
  BY DEF TransitionCommit, budget, IInv, TypeOK
<1> QED BY <1>1, <1>2, <1>3, <1>4, <1>6, <1>7 DEF s

LEMMA OneCommit ==
  ASSUME IInv, OneCall, OneCallInv, NEW r \in Requests, TransitionCommit(r)
  PROVE  OneCallInv'
<1> DEFINE s == req[r].to
<1>1. /\ Writes(r, s) /\ status' = s /\ s \in States /\ status \in States
      /\ attempts'[s] = attempts[s] + 1
      /\ \A t \in States \ {s} : attempts'[t] = attempts[t]
      /\ CanTransition(status, s)
      /\ status = "RECONCILIATION_REQUIRED" =>
           reviews > 0 /\ (Funded <=> s = "REFUND_REQUIRED")
      /\ s = "AUTHORIZED" => attempts["AUTHORIZED"] <= reviews
      /\ Funded' <=> (Funded \/ s \in PastFunding)
      /\ reviews' = reviews
  BY OneCommits
<1>2. /\ req \in [Requests -> Request] /\ Continue(r, s) /\ reviews \in Nat
      /\ \A t \in States : attempts[t] \in Nat
  BY DEF TransitionCommit, IInv, TypeOK
<1> HIDE DEF s
<1>3. OneTrail BY DEF OneCallInv
<1>4. OneTrail'
  <2>1. Funded' => status' \in PastFunding \cup {"RECONCILIATION_REQUIRED"}
    <3>1. status \in PastFunding => s \in PastFunding \cup {"RECONCILIATION_REQUIRED"}
      BY <1>1 DEF PastFunding, CanTransition, Edges
    <3> QED BY <1>1, <1>3, <3>1 DEF OneTrail, PastFunding
  <2>2. status' \in {"CREATED", "QUOTED"} => attempts'["AUTHORIZED"] = 0
    <3>1. s \in {"CREATED", "QUOTED"} => status = "CREATED"
      BY <1>1, StatesAre DEF CanTransition, Edges
    <3> QED BY <1>1, <1>3, <3>1, StatesAre DEF OneTrail
  <2>3. attempts'["AUTHORIZED"] <= 1 + reviews'
    BY <1>1, <1>2, <1>3, StatesAre DEF OneTrail
  <2>4. status' \in {"CREATED", "QUOTED", "AUTHORIZED", "FAILED", "EXPIRED"} /\ reviews' = 0 =>
          attempts'["CRYPTO_SUBMITTED"] = 0
    <3>1. s \in {"CREATED", "QUOTED", "AUTHORIZED", "FAILED", "EXPIRED"} =>
            status \in {"CREATED", "QUOTED", "AUTHORIZED", "RECONCILIATION_REQUIRED"}
      BY <1>1, StatesAre DEF CanTransition, Edges
    <3> QED BY <1>1, <1>2, <1>3, <3>1, StatesAre DEF OneTrail
  <2>5. \A t \in {"COMPLETED", "REFUNDED"} : attempts'[t] > 0 => status' = t
    <3>1. status \notin {"COMPLETED", "REFUNDED"} BY <1>1 DEF CanTransition, Edges
    <3> QED BY <1>1, <1>3, <3>1, StatesAre DEF OneTrail
  <2> QED BY <2>1, <2>2, <2>3, <2>4, <2>5 DEF OneTrail
<1>5. PostedOnce'
  <2>1. status \notin {"COMPLETED", "REFUNDED"} BY <1>1 DEF CanTransition, Edges
  <2>2. attempts["COMPLETED"] = 0 /\ attempts["REFUNDED"] = 0
    BY <1>2, <1>3, <2>1, StatesAre DEF OneTrail
  <2>3. ledger["settlement"] = 0 /\ ledger["refund"] = 0
    BY <1>1, <2>2 DEF IInv, Rows, BooksFollowTrail, Writes, Groups
  <2>4. s = "CRYPTO_CONFIRMED" => ledger["funding"] = 0
    <3>1. s = "CRYPTO_CONFIRMED" => status = "CRYPTO_SUBMITTED"
      BY <1>1, StatesAre DEF CanTransition, Edges
    <3>2. s = "CRYPTO_CONFIRMED" => ~ Funded BY <1>3, <3>1 DEF OneTrail, PastFunding
    <3>3. ~ Funded => attempts["CRYPTO_CONFIRMED"] = 0
      BY <1>2, StatesAre DEF Funded, PastFunding
    <3> QED BY <3>2, <3>3 DEF IInv, Rows, BooksFollowTrail
  <2>5. PostedOnce BY DEF OneCallInv
  <2>6. \A g \in Groups : ledger'[g] \in {0, 1} \/ ledger'[g] = ledger[g]
    BY <1>1, <2>3, <2>4 DEF Writes, Groups
  <2> QED BY <2>5, <2>6, <1>1 DEF PostedOnce, Writes
<1>6. /\ Only(r)
      /\ \/ req'[r].pc = "broadcast" /\ s = "CRYPTO_SUBMITTED"
         \/ req'[r].pc = "conversion" /\ s = "CONVERSION_PENDING"
         \/ req'[r].pc = "settleLeg" /\ s = "FIAT_SETTLEMENT_PENDING"
         \/ /\ req'[r].pc = "read" /\ req'[r].to = "CONVERSION_PENDING"
            /\ s = "CRYPTO_CONFIRMED"
         \/ req'[r].pc = "idle"
  BY <1>1, <1>2, ContinueTo
<1>7. OneRelies(r)'
  <2>1. SeesStatus(r)' BY <1>1, <1>6 DEF SeesStatus, ReportsOn, At
  <2>2. Lawful(r)' BY <1>1, <1>6 DEF Lawful, At, CanTransition, Edges
  <2>3. Reviewed(r)' /\ Agrees(r)' BY <1>6 DEF Reviewed, Agrees, Moving, At
  <2> QED BY <2>1, <2>2, <2>3 DEF OneRelies
<1> QED BY <1>4, <1>5, <1>7 DEF OneCallInv, OneRelies, OneCall

LEMMA OneWorld ==
  ASSUME OneCall, OneCallInv, ChainConfirms \/ ProviderSettles \/ UNCHANGED vars
  PROVE  OneCallInv'
<1>1. TrailSame /\ UNCHANGED <<req, tasks>>
  BY DEF ChainConfirms, ProviderSettles, vars, stored, intent, books, rows, budget, TrailSame
<1>2. OneTrail' /\ PostedOnce'
  BY <1>1 DEF OneCallInv, OneTrail, Funded, PostedOnce, TrailSame
<1>3. \A r \in Requests : OneRelies(r)'
  BY <1>1 DEF OneCallInv, OneRelies, SeesStatus, Lawful, Reviewed, Agrees, ReportsOn, Moving,
     At, Funded, TrailSame
<1> QED BY <1>2, <1>3 DEF OneCallInv, OneRelies

LEMMA OneFailure ==
  ASSUME IInv, OneCall, OneCallInv, Crash \/ \E r \in Requests : Reject(r)
  PROVE  OneCallInv'
<1>1. TrailSame BY DEF Crash, Reject, intent, books, TrailSame
<1>2. ASSUME NEW r \in Requests, Reject(r) PROVE OneCallInv'
  <2>1. req'[r].pc = "idle" BY <1>2, Moved DEF Reject, IInv, TypeOK
  <2> QED BY <1>1, <2>1, OneLands DEF OneLanding, Reporting
<1>3. CASE Crash
  <2>1. ASSUME NEW r \in Requests PROVE OneCallInv'
    <3>1. req'[r].pc = "idle" BY <1>3 DEF Crash, Idle
    <3> QED BY <1>1, <3>1, OneLands DEF OneLanding, Reporting
  <2> QED BY <1>3, <2>1 DEF Crash
<1> QED BY <1>2, <1>3

LEMMA OneInit ==
  ASSUME Init
  PROVE  OneCallInv
<1>1. /\ status = "QUOTED" /\ reviews = 0
      /\ \A s \in States \ {"QUOTED"} : attempts[s] = 0
      /\ \A g \in Groups : ledger[g] = 0
      /\ \A r \in Requests : req[r].pc = "idle"
  BY StatesAre DEF Init, Opened, Idle
<1>2. ~ Funded BY <1>1, StatesAre DEF Funded, PastFunding
<1>3. OneTrail BY <1>1, <1>2, StatesAre DEF OneTrail
<1>4. PostedOnce BY <1>1 DEF PostedOnce
<1>5. \A r \in Requests : OneRelies(r)
  BY <1>1 DEF OneRelies, SeesStatus, Lawful, Reviewed, Agrees, ReportsOn, Moving, At
<1> QED BY <1>3, <1>4, <1>5 DEF OneCallInv, OneRelies

------------------------------------------------------------------------------
(* The tasks behind a manual settlement, with one call at a time.             *)

TaskRows ==
  /\ Payment = "manual" => order = "none"
  /\ \A t \in TasksOf("FIAT_SETTLEMENT") : tasks[t].result # "short"
  /\ Payment = "manual" =>
       \A i \in DOMAIN settlements : settlements[i].ref \in TasksOf("FIAT_SETTLEMENT")
  /\ Vouched /\ Payment = "manual" /\ attempts["COMPLETED"] > 0 => PaidTasks # {}

LEMMA TaskRowsKept ==
  ASSUME TasksInv, events \subseteq events', UNCHANGED <<tasks, settlements, order, attempts>>
  PROVE  TaskRows' /\ PaidTasks' = PaidTasks /\ \A k : TasksOf(k)' = TasksOf(k)
BY DEF TasksInv, TaskRows, TasksOf, PaidTasks, Vouched

(* The call arrives where it relies on no task.                               *)
LEMMA TaskLands ==
  ASSUME OneCall, TaskRows', NEW r \in Requests,
         \/ req'[r].pc \notin {"insertSettlement", "poll", "complete", "read", "commit"}
                              \cup OperatorPrograms
         \/ req'[r].pc \in {"read", "commit"} /\ req'[r].to # "COMPLETED"
  PROVE  TasksInv'
<1>1. SettlesTasks(r)' BY DEF SettlesTasks, OperatorPrograms, Moving, At
<1> QED BY <1>1 DEF TasksInv, TaskRows, OneCall

(* The call goes on with the report it has.                                   *)
LEMMA TaskReports ==
  ASSUME OneCall, TaskRows', NEW r \in Requests, req'[r].pc \in OperatorPrograms,
         req'[r].pc \in {"opSettleLegs", "opSettleInsert"} =>
           req'[r].task \in TasksOf("FIAT_SETTLEMENT")',
         req'[r].result # "none",
         req'[r].result = "short" => req'[r].task \in TasksOf("CONVERSION")'
  PROVE  TasksInv'
<1>1. SettlesTasks(r)' BY DEF SettlesTasks, OperatorPrograms, Moving, At
<1> QED BY <1>1 DEF TasksInv, TaskRows, OneCall

(* The call is about to complete what was reported paid.                      *)
LEMMA TaskCompletes ==
  ASSUME OneCall, TaskRows', NEW r \in Requests,
         req'[r].pc = "complete" \/ (req'[r].pc \in {"read", "commit"} /\ req'[r].to = "COMPLETED"),
         Vouched' /\ Payment = "manual" => PaidTasks' # {}
  PROVE  TasksInv'
<1>1. SettlesTasks(r)' BY DEF SettlesTasks, OperatorPrograms, Moving, At
<1> QED BY <1>1 DEF TasksInv, TaskRows, OneCall

(* The call is about to use a reference of its settlement.                    *)
LEMMA TaskPolls ==
  ASSUME OneCall, TaskRows', NEW r \in Requests,
         req'[r].pc \in {"insertSettlement", "poll"},
         Payment = "manual" => req'[r].ref \in TasksOf("FIAT_SETTLEMENT")'
  PROVE  TasksInv'
<1>1. SettlesTasks(r)' BY DEF SettlesTasks, OperatorPrograms, Moving, At
<1> QED BY <1>1 DEF TasksInv, TaskRows, OneCall

LEMMA TasksCustomer ==
  ASSUME IInv, OneCall, TasksInv, NEW r \in Requests,
         Authorize(r) \/ Cancel(r) \/ Refund(r) \/ Execute(r)
  PROVE  TasksInv'
<1>1. req \in [Requests -> Request] BY DEF IInv, TypeOK
<1>2. TaskRows'
  BY TaskRowsKept DEF Authorize, Cancel, Refund, Execute, stored, intent, rows, world
<1>3. \/ Transition(r, "AUTHORIZED") \/ Transition(r, "EXPIRED") \/ Transition(r, "FAILED")
      \/ Transition(r, "REFUNDED")
      \/ req' = [req EXCEPT ![r].pc = "read", ![r].to = "CRYPTO_SUBMITTED"]
      \/ \E p \in {"resumeFunding", "resumeConversion", "resumeSettlement"} :
           req' = [req EXCEPT ![r].pc = p]
  BY DEF Authorize, Cancel, Refund, Execute
<1>4. \/ req'[r].pc = "read" /\ req'[r].to # "COMPLETED"
      \/ req'[r].pc \in {"resumeFunding", "resumeConversion", "resumeSettlement"}
  BY <1>1, <1>3, Moved DEF Request
<1> QED BY <1>2, <1>4, TaskLands DEF OperatorPrograms

LEMMA TasksFunding ==
  ASSUME IInv, OneCall, TasksInv, NEW r \in Requests,
         Broadcast(r) \/ RecordHash(r) \/ ResumeFunding(r) \/ WaitConfirmations(r)
  PROVE  TasksInv'
<1>1. req \in [Requests -> Request] BY DEF IInv, TypeOK
<1>2. TaskRows'
  BY TaskRowsKept DEF Broadcast, RecordHash, ResumeFunding, WaitConfirmations, stored, intent,
     rows, world
<1>3. \/ Transition(r, "RECONCILIATION_REQUIRED") \/ Transition(r, "CRYPTO_CONFIRMED")
      \/ req'[r].pc \in {"record", "confirm"}
  <2>1. CASE Broadcast(r) BY <1>1, <2>1 DEF Broadcast, Request
  <2>2. CASE RecordHash(r) BY <1>1, <2>2, Moved DEF RecordHash
  <2>3. CASE ResumeFunding(r) BY <1>1, <2>3 DEF ResumeFunding, Request
  <2>4. CASE WaitConfirmations(r) BY <2>4 DEF WaitConfirmations
  <2> QED BY <2>1, <2>2, <2>3, <2>4
<1> QED BY <1>1, <1>2, <1>3, Moved, TaskLands DEF OperatorPrograms

LEMMA TasksConversion ==
  ASSUME IInv, OneCall, TasksInv, NEW r \in Requests,
         ResumeConversion(r) \/ RunConversionLeg(r) \/ InsertConversion(r) \/ ResumeSettlement(r)
  PROVE  TasksInv'
<1>1. req \in [Requests -> Request] BY DEF IInv, TypeOK
<1>2. TaskRows'
  BY TaskRowsKept DEF ResumeConversion, RunConversionLeg, InsertConversion, ResumeSettlement,
     stored, intent, rows, world
<1>3. \/ Return(r) \/ Transition(r, "RECONCILIATION_REQUIRED") \/ Enter(r, "settle")
      \/ Goto(r, "conversion") \/ Goto(r, "settle") \/ Goto(r, "offRamp")
  <2>1. CASE InsertConversion(r)
    <3>1. LegOf(req[r].result) \in LegStatus BY <1>1, LegOfType DEF Request
    <3> QED BY <2>1, <3>1 DEF InsertConversion, LegStatus
  <2>2. CASE ResumeConversion(r) \/ RunConversionLeg(r) \/ ResumeSettlement(r)
    BY <2>2 DEF ResumeConversion, RunConversionLeg, ResumeSettlement
  <2> QED BY <2>1, <2>2
<1>4. \/ req'[r].pc = "read" /\ req'[r].to = "RECONCILIATION_REQUIRED"
      \/ req'[r].pc \in {"idle", "settle", "conversion", "offRamp"}
  BY <1>1, <1>3, Moved
<1> QED BY <1>2, <1>4, TaskLands DEF OperatorPrograms

(* A further task of the off-ramp is none of the settlement's.                *)
LEMMA TasksOffRamp ==
  ASSUME IInv, OneCall, TasksInv, NEW r \in Requests, OffRampExecute(r)
  PROVE  TasksInv'
<1>1. req \in [Requests -> Request] BY DEF IInv, TypeOK
<1>2. UNCHANGED <<settlements, events, order, attempts>> BY DEF OffRampExecute, intent, world
<1>3. CASE UNCHANGED tasks
  <2>1. TaskRows' BY <1>2, <1>3, TaskRowsKept
  <2>2. \/ Transition(r, "RECONCILIATION_REQUIRED") \/ Goto(r, "insertConversion")
        \/ \E x : req' = [req EXCEPT ![r].pc = "insertConversion", ![r].result = x]
    BY DEF OffRampExecute
  <2>3. \/ req'[r].pc = "read" /\ req'[r].to = "RECONCILIATION_REQUIRED"
        \/ req'[r].pc = "insertConversion"
    BY <1>1, <2>2, Moved DEF Request
  <2> QED BY <2>1, <2>3, TaskLands DEF OperatorPrograms
<1>4. CASE tasks' = FileConversion
  <2>1. /\ TasksOf("FIAT_SETTLEMENT")' = TasksOf("FIAT_SETTLEMENT")
        /\ PaidTasks' = PaidTasks
        /\ \A t \in TasksOf("FIAT_SETTLEMENT") : tasks'[t] = tasks[t]
    BY <1>4, TaskFiled DEF FileConversion, TasksOf, PaidTasks
  <2>2. TaskRows' BY <1>2, <2>1 DEF TasksInv, TaskRows, Vouched
  <2>3. \/ Transition(r, "RECONCILIATION_REQUIRED") \/ Goto(r, "insertConversion")
        \/ \E x : req' = [req EXCEPT ![r].pc = "insertConversion", ![r].result = x]
    BY DEF OffRampExecute
  <2>4. \/ req'[r].pc = "read" /\ req'[r].to = "RECONCILIATION_REQUIRED"
        \/ req'[r].pc = "insertConversion"
    BY <1>1, <2>3, Moved DEF Request
  <2> QED BY <2>2, <2>4, TaskLands DEF OperatorPrograms
<1> QED BY <1>3, <1>4 DEF OffRampExecute

(* A payment finds its open leg, or files the task of a new one.              *)
LEMMA TasksBegin ==
  ASSUME IInv, OneCall, TasksInv, NEW r \in Requests, BeginSettlement(r) \/ FindOpenLeg(r)
  PROVE  TasksInv'
<1>1. req \in [Requests -> Request] BY DEF IInv, TypeOK
<1>2. TaskRows' /\ UNCHANGED <<tasks, settlements>>
  BY TaskRowsKept DEF BeginSettlement, FindOpenLeg, stored, intent, rows, world
<1>3. \/ Return(r) \/ Transition(r, "FIAT_SETTLEMENT_PENDING")
      \/ Goto(r, "settleLeg") \/ Goto(r, "createPayment")
      \/ \E i \in DOMAIN settlements :
           req' = [req EXCEPT ![r].pc = "poll", ![r].ref = settlements[i].ref]
  BY DEF BeginSettlement, FindOpenLeg
<1>4. ASSUME NEW i \in DOMAIN settlements,
             req' = [req EXCEPT ![r].pc = "poll", ![r].ref = settlements[i].ref]
      PROVE  TasksInv'
  <2>1. req'[r].pc = "poll" /\ req'[r].ref = settlements[i].ref BY <1>1, <1>4 DEF Request
  <2>2. Payment = "manual" => settlements[i].ref \in TasksOf("FIAT_SETTLEMENT")'
    BY <1>2 DEF TaskRows
  <2> QED BY <1>2, <2>1, <2>2, TaskPolls
<1>5. CASE \/ Return(r) \/ Transition(r, "FIAT_SETTLEMENT_PENDING")
           \/ Goto(r, "settleLeg") \/ Goto(r, "createPayment")
  <2>1. \/ req'[r].pc = "read" /\ req'[r].to = "FIAT_SETTLEMENT_PENDING"
        \/ req'[r].pc \in {"idle", "settleLeg", "createPayment"}
    BY <1>1, <1>5, Moved
  <2> QED BY <1>2, <2>1, TaskLands DEF OperatorPrograms
<1> QED BY <1>3, <1>4, <1>5

LEMMA TasksCreate ==
  ASSUME IInv, OneCall, TasksInv, NEW r \in Requests, CreatePayment(r)
  PROVE  TasksInv'
<1>1. req \in [Requests -> Request] BY DEF IInv, TypeOK
<1>2. UNCHANGED <<settlements, events, attempts>> BY DEF CreatePayment, intent
<1>3. CASE Payment = "auto"
  <2>1. UNCHANGED tasks /\ req' = [req EXCEPT ![r].pc = "insertSettlement", ![r].ref = 1]
    BY <1>3 DEF CreatePayment
  <2>2. TaskRows' BY <1>2, <1>3, <2>1 DEF TasksInv, TaskRows, TasksOf
  <2>3. req'[r].pc = "insertSettlement" BY <1>1, <2>1 DEF Request
  <2> QED BY <1>3, <2>2, <2>3, TaskPolls
<1>4. CASE Payment = "manual"
  <2>1. /\ tasks' = Append(tasks, [kind |-> "FIAT_SETTLEMENT", result |-> "none"])
        /\ req' = [req EXCEPT ![r].pc = "insertSettlement", ![r].ref = Len(tasks) + 1]
        /\ UNCHANGED order
    BY <1>4 DEF CreatePayment
  <2>2. /\ TasksOf("FIAT_SETTLEMENT")' = TasksOf("FIAT_SETTLEMENT") \cup {Len(tasks) + 1}
        /\ PaidTasks' = PaidTasks
        /\ \A t \in TasksOf("FIAT_SETTLEMENT") : tasks'[t] = tasks[t]
        /\ tasks'[Len(tasks) + 1].result = "none"
    BY <2>1, TaskFiled DEF TasksOf, PaidTasks
  <2>3. TaskRows' BY <1>2, <2>1, <2>2 DEF TasksInv, TaskRows, Vouched
  <2>4. req'[r].pc = "insertSettlement" /\ req'[r].ref = Len(tasks) + 1
    BY <1>1, <2>1 DEF Request
  <2> QED BY <2>2, <2>3, <2>4, TaskPolls
<1> QED BY <1>3, <1>4, EngineAssumption

(* One more settlement row, for a reference n: the others keep theirs.        *)
LEMMA RowAdded ==
  ASSUME IInv, NEW n \in Nat,
         settlements' = Append(settlements, [status |-> "PENDING", ref |-> n])
  PROVE  \A i \in DOMAIN settlements' :
           \/ settlements'[i].ref = n /\ settlements'[i].status = "PENDING"
           \/ i \in DOMAIN settlements /\ settlements'[i] = settlements[i]
<1> DEFINE leg == [status |-> "PENDING", ref |-> n]
<1>1. /\ settlements \in Seq(SettlementLeg) /\ leg \in SettlementLeg
      /\ leg.ref = n /\ leg.status = "PENDING"
  BY DEF IInv, TypeOK, SettlementLeg
<1> HIDE DEF leg
<1>2. /\ settlements' \in Seq(SettlementLeg) /\ Len(settlements') = Len(settlements) + 1
      /\ \A i \in 1 .. Len(settlements) : settlements'[i] = settlements[i]
      /\ settlements'[Len(settlements) + 1] = leg
  BY <1>1, AppendProperties DEF leg
<1>3. /\ Len(settlements) \in Nat /\ DOMAIN settlements = 1 .. Len(settlements)
      /\ DOMAIN settlements' = 1 .. Len(settlements) + 1
  BY <1>1, <1>2, LenProperties
<1> QED BY <1>1, <1>2, <1>3

LEMMA RowRefers ==
  ASSUME IInv, TasksInv, NEW n \in Nat, UNCHANGED <<tasks, events, order, attempts>>,
         settlements' = Append(settlements, [status |-> "PENDING", ref |-> n]),
         Payment = "manual" => n \in TasksOf("FIAT_SETTLEMENT")
  PROVE  TaskRows'
<1>1. TasksOf("FIAT_SETTLEMENT")' = TasksOf("FIAT_SETTLEMENT") /\ PaidTasks' = PaidTasks
  BY DEF TasksOf, PaidTasks
<1>2. ASSUME Payment = "manual", NEW i \in DOMAIN settlements'
      PROVE  settlements'[i].ref \in TasksOf("FIAT_SETTLEMENT")
  BY <1>2, RowAdded DEF TasksInv
<1> QED BY <1>1, <1>2 DEF TasksInv, TaskRows, Vouched

LEMMA TasksInsert ==
  ASSUME IInv, OneCall, TasksInv, NEW r \in Requests,
         InsertSettlement(r) \/ OperatorSettleInsert(r)
  PROVE  TasksInv'
<1>1. req \in [Requests -> Request] /\ req[r].ref \in Nat /\ req[r].task \in Nat
  BY DEF IInv, TypeOK, Request
<1>2. UNCHANGED <<tasks, events, order, attempts>>
  BY DEF InsertSettlement, OperatorSettleInsert, intent, world
<1>3. \A k : TasksOf(k)' = TasksOf(k) BY <1>2 DEF TasksOf
<1>4. CASE InsertSettlement(r)
  <2>1. Payment = "manual" => req[r].ref \in TasksOf("FIAT_SETTLEMENT")
    BY <1>4 DEF InsertSettlement, TasksInv, SettlesTasks, At
  <2>2. req'[r].pc = "poll" /\ req'[r].ref = req[r].ref
    BY <1>1, <1>4 DEF InsertSettlement, Goto, Request
  <2>3. TaskRows' BY <1>1, <1>2, <1>4, <2>1, RowRefers DEF InsertSettlement
  <2> QED BY <1>3, <2>1, <2>2, <2>3, TaskPolls
<1>5. CASE OperatorSettleInsert(r)
  <2>1. /\ req[r].task \in TasksOf("FIAT_SETTLEMENT") /\ req[r].result # "none"
        /\ req[r].result = "short" => req[r].task \in TasksOf("CONVERSION")
    BY <1>5 DEF OperatorSettleInsert, TasksInv, SettlesTasks, At, OperatorPrograms
  <2>2. req'[r].pc = "opSettleLegs" /\ req'[r].task = req[r].task /\ req'[r].result = req[r].result
    BY <1>1, <1>5, Moved DEF OperatorSettleInsert
  <2>3. TaskRows' BY <1>1, <1>2, <1>5, <2>1, RowRefers DEF OperatorSettleInsert
  <2> QED BY <1>3, <2>1, <2>2, <2>3, TaskReports DEF OperatorPrograms
<1> QED BY <1>4, <1>5

(* A task reported neither open, failed nor short was reported paid.          *)
LEMMA TaskPaid ==
  ASSUME IInv, TasksInv, NEW t \in TasksOf("FIAT_SETTLEMENT"),
         tasks[t].result \notin {"none", "failed"}
  PROVE  t \in PaidTasks
<1> DEFINE Task == [kind : {"CONVERSION", "FIAT_SETTLEMENT"}, result : Results]
<1>1. t \in DOMAIN tasks /\ tasks[t].kind = "FIAT_SETTLEMENT" BY DEF TasksOf
<1>2. tasks \in Seq(Task) BY DEF IInv, TypeOK
<1>3. tasks[t] \in Task BY <1>1, <1>2, RowRead
<1>4. tasks[t].result \in Results BY <1>3
<1>5. tasks[t].result # "short" BY DEF TasksInv
<1> QED BY <1>1, <1>4, <1>5 DEF PaidTasks, Results

LEMMA TasksPoll ==
  ASSUME IInv, OneCall, TasksInv, NEW r \in Requests, Poll(r) \/ CompleteSettlement(r)
  PROVE  TasksInv'
<1>1. req \in [Requests -> Request] BY DEF IInv, TypeOK
<1>2. TaskRows' /\ PaidTasks' = PaidTasks
  BY TaskRowsKept DEF Poll, CompleteSettlement, stored, intent, rows, world
<1>3. CASE Poll(r)
  <2>1. CASE Observed(req[r].ref) = "COMPLETED" /\ Goto(r, "complete")
    <3>1. Payment = "manual" => PaidTasks # {}
      <4>1. Payment = "manual" => req[r].ref \in TasksOf("FIAT_SETTLEMENT")
        BY <1>3 DEF Poll, TasksInv, SettlesTasks, At
      <4>2. Payment = "manual" => tasks[req[r].ref].result \notin {"none", "failed"}
        BY <2>1 DEF Observed
      <4> QED BY <4>1, <4>2, TaskPaid
    <3>2. req'[r].pc = "complete" BY <1>1, <2>1, Moved
    <3> QED BY <1>2, <3>1, <3>2, TaskCompletes
  <2>2. CASE \/ Transition(r, "REFUND_REQUIRED") \/ Transition(r, "RECONCILIATION_REQUIRED")
             \/ Return(r)
    <3>1. \/ req'[r].pc = "read" /\ req'[r].to # "COMPLETED"
          \/ req'[r].pc = "idle"
      BY <1>1, <2>2, Moved
    <3> QED BY <1>2, <3>1, TaskLands DEF OperatorPrograms
  <2> QED BY <1>3, <2>1, <2>2 DEF Poll
<1>4. CASE CompleteSettlement(r)
  <2>1. Vouched' => Vouched BY <1>4 DEF CompleteSettlement, stored, rows, Vouched
  <2>3. Vouched' /\ Payment = "manual" => PaidTasks # {}
    BY <1>4, <2>1 DEF CompleteSettlement, TasksInv, SettlesTasks, At
  <2>2. req'[r].pc = "idle" \/ (req'[r].pc = "read" /\ req'[r].to = "COMPLETED")
    BY <1>1, <1>4, Moved DEF CompleteSettlement
  <2> QED BY <1>2, <2>2, <2>3, TaskLands, TaskCompletes DEF OperatorPrograms
<1> QED BY <1>3, <1>4

(* A webhook the provider vouches for is of an order, which a manual provider *)
(* never has.                                                                 *)
LEMMA TasksWebhook ==
  ASSUME IInv, LegsInv, OneCall, TasksInv, NEW r \in Requests,
         Webhook(r) \/ WebhookLeg(r) \/ WebhookIntent(r)
  PROVE  TasksInv'
<1>1. req \in [Requests -> Request] BY DEF IInv, TypeOK
<1>2. /\ UNCHANGED <<tasks, settlements, order, attempts>> /\ events \subseteq events'
      /\ WebhookLeg(r) \/ WebhookIntent(r) => UNCHANGED events
  BY DEF Webhook, WebhookLeg, WebhookIntent, stored, intent, rows, world
<1>3. TaskRows' BY <1>2, TaskRowsKept
<1>4. \/ \E n : req' = [req EXCEPT ![r].pc = "webhookLeg", ![r].ref = n]
      \/ Goto(r, "webhookIntent")
      \/ WebhookIntent(r) /\ Goto(r, "complete")
      \/ Return(r)
  BY DEF Webhook, WebhookLeg, WebhookIntent
<1>5. CASE WebhookIntent(r) /\ Goto(r, "complete")
  <2>1. Vouched => order = "COMPLETED"
    BY <1>5 DEF WebhookIntent, At, LegsInv, KnowsOrder
  <2>2. Vouched' => Vouched BY <1>2 DEF Vouched
  <2>3. req'[r].pc = "complete" BY <1>1, <1>5, Moved
  <2>4. ~ (Vouched' /\ Payment = "manual") BY <2>1, <2>2 DEF TasksInv
  <2> QED BY <1>3, <2>3, <2>4, TaskCompletes
<1>6. CASE \/ \E n : req' = [req EXCEPT ![r].pc = "webhookLeg", ![r].ref = n]
           \/ Goto(r, "webhookIntent") \/ Return(r)
  <2>1. req'[r].pc \in {"webhookLeg", "webhookIntent", "idle"} BY <1>1, <1>6, Moved DEF Request
  <2> QED BY <1>3, <2>1, TaskLands DEF OperatorPrograms
<1> QED BY <1>4, <1>5, <1>6

LEMMA TasksReport ==
  ASSUME IInv, OneCall, TasksInv, NEW r \in Requests, Operator(r)
  PROVE  TasksInv'
<1>1. req \in [Requests -> Request] BY DEF IInv, TypeOK
<1>2. TaskRows' /\ UNCHANGED tasks
  BY TaskRowsKept DEF Operator, Report, stored, intent, rows, world
<1>3. PICK t \in DOMAIN tasks, x \in Results \ {"none"} :
        /\ x = "short" => tasks[t].kind = "CONVERSION"
        /\ req' = [req EXCEPT ![r].pc = "opIntent", ![r].task = t, ![r].result = x]
  BY DEF Operator, Report
<1>4. req'[r].pc = "opIntent" /\ req'[r].task = t /\ req'[r].result = x
  BY <1>1, <1>3 DEF Request
<1>5. x = "short" => t \in TasksOf("CONVERSION")' BY <1>2, <1>3 DEF TasksOf
<1> QED BY <1>2, <1>4, <1>5, TaskReports DEF OperatorPrograms

LEMMA TasksOperator ==
  ASSUME IInv, LegsInv, OneCall, TasksInv, NEW r \in Requests,
         \/ OperatorIntent(r) \/ OperatorLegs(r) \/ OperatorInsert(r)
         \/ OperatorUpdate(r) \/ OperatorSettleLegs(r)
  PROVE  TasksInv'
<1>1. req \in [Requests -> Request] BY DEF IInv, TypeOK
<1>2. TaskRows' /\ (\A k : TasksOf(k)' = TasksOf(k))
  BY TaskRowsKept DEF OperatorIntent, OperatorLegs, OperatorInsert, OperatorUpdate,
     OperatorSettleLegs, stored, intent, rows, world
<1>3. /\ req[r].task \in DOMAIN tasks /\ req[r].result # "none"
      /\ req[r].result = "short" => req[r].task \in TasksOf("CONVERSION")
  BY DEF OperatorIntent, OperatorLegs, OperatorInsert, OperatorUpdate, OperatorSettleLegs, At,
     TasksInv, SettlesTasks, LegsInv, TaskKnown, OperatorPrograms
<1>4. ASSUME NEW p \in OperatorPrograms, req'[r].pc = p, req'[r].task = req[r].task,
             req'[r].result = req[r].result,
             p \in {"opSettleLegs", "opSettleInsert"} =>
               req[r].task \in TasksOf("FIAT_SETTLEMENT")
      PROVE  TasksInv'
  BY <1>2, <1>3, <1>4, TaskReports
<1>5. CASE OperatorIntent(r)
  <2>1. \/ Return(r) \/ Goto(r, "opMark")
        \/ Goto(r, "opSettleLegs") /\ tasks[req[r].task].kind = "FIAT_SETTLEMENT"
    BY <1>5 DEF OperatorIntent
  <2>2. \/ req'[r].pc = "idle"
        \/ /\ req'[r].task = req[r].task /\ req'[r].result = req[r].result
           /\ \/ req'[r].pc = "opMark"
              \/ req'[r].pc = "opSettleLegs" /\ req[r].task \in TasksOf("FIAT_SETTLEMENT")
    BY <1>1, <1>3, <2>1, Moved DEF TasksOf
  <2> QED BY <1>2, <1>4, <2>2, TaskLands DEF OperatorPrograms
<1>6. CASE OperatorLegs(r) \/ OperatorInsert(r)
  <2>1. /\ req'[r].pc \in {"opInsert", "opUpdate", "opLegs"} /\ req'[r].task = req[r].task
        /\ req'[r].result = req[r].result
    BY <1>1, <1>6 DEF OperatorLegs, OperatorInsert, Goto, Request
  <2> QED BY <1>4, <2>1 DEF OperatorPrograms
<1>7. CASE OperatorUpdate(r)
  <2>1. \/ req'[r].pc = "settle"
        \/ req'[r].pc = "read" /\ req'[r].to = "RECONCILIATION_REQUIRED"
    BY <1>1, <1>7, Moved DEF OperatorUpdate
  <2> QED BY <1>2, <2>1, TaskLands DEF OperatorPrograms
<1>8. CASE OperatorSettleLegs(r)
  <2>1. /\ req'[r].pc \in {"opSettleInsert", "opMark"} /\ req'[r].task = req[r].task
        /\ req'[r].result = req[r].result
    BY <1>1, <1>8 DEF OperatorSettleLegs, Goto, Request
  <2>2. req[r].task \in TasksOf("FIAT_SETTLEMENT")
    BY <1>8 DEF OperatorSettleLegs, At, TasksInv, SettlesTasks
  <2> QED BY <1>4, <2>1, <2>2 DEF OperatorPrograms
<1> QED BY <1>5, <1>6, <1>7, <1>8

(* A report never takes a paid task back, and a settlement's is never short.  *)
LEMMA TasksMark ==
  ASSUME IInv, LegsInv, OneCallInv, OneCall, TasksInv, NEW r \in Requests, MarkTask(r)
  PROVE  TasksInv'
<1> DEFINE t == req[r].task
           x == req[r].result
<1>1. req \in [Requests -> Request] /\ x \in Results BY DEF IInv, TypeOK, Request
<1>2. UNCHANGED <<settlements, events, order, attempts>> BY DEF MarkTask, intent, world
<1>3. /\ t \in DOMAIN tasks /\ tasks'[t].kind = tasks[t].kind /\ tasks'[t].result = x
      /\ DOMAIN tasks' = DOMAIN tasks /\ \A u \in DOMAIN tasks : u # t => tasks'[u] = tasks[u]
  BY TaskMarked
<1>4. tasks[t].result \in {"none", x} BY OneKnows DEF MarkTask, Agrees, At
<1>5. x # "none" /\ (x = "short" => t \in TasksOf("CONVERSION"))
  BY DEF MarkTask, At, TasksInv, SettlesTasks, OperatorPrograms
<1>6. /\ Goto(r, "complete") => tasks[t].kind = "FIAT_SETTLEMENT" /\ x = "full"
      /\ \/ Transition(r, "REFUND_REQUIRED") \/ Goto(r, "opLegs") \/ Goto(r, "complete")
      /\ Goto(r, "opLegs") => tasks[t].kind = "CONVERSION"
  <2> DEFINE Task == [kind : {"CONVERSION", "FIAT_SETTLEMENT"}, result : Results]
  <2>1. tasks \in Seq(Task) BY DEF IInv, TypeOK
  <2>2. tasks[t] \in Task BY <1>3, <2>1, RowRead
  <2>3. tasks[t].kind \in {"CONVERSION", "FIAT_SETTLEMENT"} BY <2>2
  <2>4. CASE x = "failed"
    <3>1. Transition(r, "REFUND_REQUIRED") BY <2>4 DEF MarkTask
    <3>2. req'[r].pc = "read" BY <1>1, <3>1, Moved
    <3>3. ~ Goto(r, "complete") /\ ~ Goto(r, "opLegs") BY <1>1, <3>2, Moved
    <3> QED BY <3>1, <3>3
  <2>5. CASE x # "failed" /\ tasks[t].kind = "CONVERSION"
    <3>1. Goto(r, "opLegs") BY <2>5 DEF MarkTask
    <3>2. req'[r].pc = "opLegs" BY <1>1, <3>1, Moved
    <3>3. ~ Goto(r, "complete") BY <1>1, <3>2, Moved
    <3> QED BY <2>5, <3>1, <3>3
  <2>6. CASE x # "failed" /\ tasks[t].kind = "FIAT_SETTLEMENT"
    <3>1. Goto(r, "complete") BY <2>6 DEF MarkTask
    <3>2. req'[r].pc = "complete" BY <1>1, <3>1, Moved
    <3>3. ~ Goto(r, "opLegs") BY <1>1, <3>2, Moved
    <3>4. x = "full" BY <1>1, <1>5, <2>6 DEF Results, TasksOf
    <3> QED BY <2>6, <3>1, <3>3, <3>4
  <2> QED BY <2>3, <2>4, <2>5, <2>6
<1> HIDE DEF t, x
<1>7. \A k : TasksOf(k)' = TasksOf(k) BY <1>3 DEF TasksOf
<1>8. PaidTasks \subseteq PaidTasks' BY <1>3, <1>4 DEF PaidTasks
<1>9. TaskRows'
  <2>1. \A u \in TasksOf("FIAT_SETTLEMENT") : tasks'[u].result # "short"
    BY <1>3, <1>5 DEF TasksOf, TasksInv
  <2> QED BY <1>2, <1>7, <1>8, <2>1 DEF TasksInv, TaskRows, Vouched
<1>10. CASE Transition(r, "REFUND_REQUIRED")
  <2>1. req'[r].pc = "read" /\ req'[r].to = "REFUND_REQUIRED" BY <1>1, <1>10, Moved
  <2> QED BY <1>9, <2>1, TaskLands
<1>11. CASE Goto(r, "opLegs")
  <2>1. req'[r].pc = "opLegs" /\ req'[r].task = t /\ req'[r].result = x
    BY <1>1, <1>11, Moved DEF t, x
  <2> QED BY <1>5, <1>7, <1>9, <2>1, TaskReports DEF OperatorPrograms
<1>12. CASE Goto(r, "complete")
  <2>1. t \in PaidTasks' BY <1>3, <1>6, <1>12 DEF PaidTasks
  <2>2. req'[r].pc = "complete" BY <1>1, <1>12, Moved
  <2> QED BY <1>9, <2>1, <2>2, TaskCompletes
<1> QED BY <1>6, <1>10, <1>11, <1>12

LEMMA TasksReview ==
  ASSUME IInv, OneCall, TasksInv, NEW r \in Requests, Review(r) \/ ReviewTrail(r)
  PROVE  TasksInv'
<1>1. req \in [Requests -> Request] BY DEF IInv, TypeOK
<1>2. TaskRows' BY TaskRowsKept DEF Review, ReviewTrail, stored, intent, rows, world
<1>3. CASE Review(r)
  <2>1. req'[r].pc = "review" BY <1>1, <1>3 DEF Review, Request
  <2> QED BY <1>2, <2>1, TaskLands DEF OperatorPrograms
<1>4. CASE ReviewTrail(r)
  <2>1. req[r].to \in Edges["RECONCILIATION_REQUIRED"]
    BY <1>4 DEF ReviewTrail, At, IInv, Relies, ReviewTarget, CanTransition
  <2>2. \/ req'[r].pc = "read" /\ req'[r].to = req[r].to
        \/ req'[r].pc = "idle"
    BY <1>1, <1>4, Moved DEF ReviewTrail
  <2> QED BY <1>2, <2>1, <2>2, TaskLands DEF Edges, OperatorPrograms
<1> QED BY <1>3, <1>4

LEMMA TasksRead ==
  ASSUME IInv, OneCall, TasksInv, NEW r \in Requests, TransitionRead(r)
  PROVE  TasksInv'
<1>1. req \in [Requests -> Request] BY DEF IInv, TypeOK
<1>2. TaskRows' /\ PaidTasks' = PaidTasks
  BY TaskRowsKept DEF TransitionRead, stored, intent, rows, world
<1>3. req[r].to = "COMPLETED" /\ Vouched' /\ Payment = "manual" => PaidTasks # {}
  <2>1. Vouched' => Vouched BY DEF TransitionRead, stored, rows, Vouched
  <2> QED BY <2>1 DEF TransitionRead, TasksInv, SettlesTasks, Moving, At
<1>4. \/ req'[r].pc = "idle"
      \/ req'[r].pc = "commit" /\ req'[r].to = req[r].to
  <2>1. \/ Return(r) \/ \E b : req' = [req EXCEPT ![r].pc = "commit", ![r].replay = b]
    BY DEF TransitionRead
  <2> QED BY <1>1, <2>1, Moved DEF Request
<1> QED BY <1>2, <1>3, <1>4, TaskLands, TaskCompletes DEF OperatorPrograms

LEMMA TasksCommit ==
  ASSUME IInv, OneCall, TasksInv, NEW r \in Requests, TransitionCommit(r)
  PROVE  TasksInv'
<1> DEFINE s == req[r].to
<1>1. req \in [Requests -> Request] /\ s \in States BY CommitWrites DEF IInv, TypeOK, Writes
<1>2. Writes(r, s) /\ Continue(r, s) BY CommitWrites DEF TransitionCommit
<1>3. UNCHANGED <<tasks, events, order>> BY DEF TransitionCommit, world
<1>4. s = "COMPLETED" /\ Vouched /\ Payment = "manual" => PaidTasks # {}
  BY DEF TransitionCommit, TasksInv, SettlesTasks, Moving, At
<1>5. /\ DOMAIN settlements' = DOMAIN settlements
      /\ \A i \in DOMAIN settlements : settlements'[i].ref = settlements[i].ref
  <2>1. /\ DOMAIN settlements' = DOMAIN settlements
        /\ \A i \in DOMAIN settlements :
             settlements'[i] \in {settlements[i], [settlements[i] EXCEPT !.status = "COMPLETED"]}
    BY DEF TransitionCommit, CompleteLegs
  <2>2. settlements \in Seq(SettlementLeg) BY DEF IInv, TypeOK, SettlementLeg
  <2>3. \A i \in DOMAIN settlements : settlements[i] \in SettlementLeg BY <2>2, RowRead
  <2> QED BY <2>1, <2>3 DEF SettlementLeg
<1> HIDE DEF s
<1>6. TaskRows'
  <2>1. TasksOf("FIAT_SETTLEMENT")' = TasksOf("FIAT_SETTLEMENT") /\ PaidTasks' = PaidTasks
    BY <1>3 DEF TasksOf, PaidTasks
  <2>2. attempts'["COMPLETED"] > 0 => attempts["COMPLETED"] > 0 \/ s = "COMPLETED"
    BY <1>2, StatesAre DEF Writes
  <2> QED BY <1>3, <1>4, <1>5, <2>1, <2>2 DEF TasksInv, TaskRows, Vouched
<1>7. \/ req'[r].pc \in {"broadcast", "conversion", "settleLeg", "idle"}
      \/ req'[r].pc = "read" /\ req'[r].to = "CONVERSION_PENDING"
  BY <1>1, <1>2, ContinueTo
<1> QED BY <1>6, <1>7, TaskLands DEF OperatorPrograms

LEMMA TasksWorld ==
  ASSUME TasksInv, ChainConfirms \/ ProviderSettles \/ UNCHANGED vars
  PROVE  TasksInv'
<1>1. /\ UNCHANGED <<attempts, events, settlements, tasks, req>>
      /\ Payment = "manual" => order' = order
  BY DEF ChainConfirms, ProviderSettles, vars, stored, intent, rows, world, TasksInv
<1> QED BY <1>1 DEF TasksInv, SettlesTasks, TasksOf, PaidTasks, Moving, At, Vouched

LEMMA TasksFailure ==
  ASSUME IInv, OneCall, TasksInv, Crash \/ \E r \in Requests : Reject(r)
  PROVE  TasksInv'
<1>1. TaskRows' BY TaskRowsKept DEF Crash, Reject, intent, rows, world
<1>2. ASSUME NEW r \in Requests, Reject(r) PROVE TasksInv'
  <2>1. req'[r].pc = "idle" BY <1>2, Moved DEF Reject, IInv, TypeOK
  <2> QED BY <1>1, <2>1, TaskLands DEF OperatorPrograms
<1>3. CASE Crash
  <2>1. ASSUME NEW r \in Requests PROVE TasksInv'
    <3>1. req'[r].pc = "idle" BY <1>3 DEF Crash, Idle
    <3> QED BY <1>1, <3>1, TaskLands DEF OperatorPrograms
  <2> QED BY <1>3, <2>1 DEF Crash
<1> QED BY <1>2, <1>3

LEMMA TasksInit ==
  ASSUME Init
  PROVE  TasksInv
<1>1. /\ tasks = <<>> /\ settlements = <<>> /\ order = "none" /\ attempts["COMPLETED"] = 0
      /\ \A r \in Requests : req[r].pc = "idle"
  BY StatesAre DEF Init, Opened, Idle
<1> QED BY <1>1 DEF TasksInv, SettlesTasks, TasksOf, Moving, At, OperatorPrograms

------------------------------------------------------------------------------
(* One call at a time, together.                                              *)

LEMMA NextOne ==
  ASSUME OneCall, OneInv, [Next]_vars
  PROVE  OneInv'
<1> USE DEF OneInv, EngineInv
<1>1. IInv' /\ LegsInv' BY NextInvariant, NextLegs
<1>2. ASSUME NEW r \in Requests, Step(r) PROVE OneCallInv'
  BY <1>2, OneRead, OneCommit, OneFunding, OneConversion, OneSettlement, OneWebhook,
     OneOperatorReads, OneOperatorWrites, OneReview DEF Step
<1>3. ASSUME NEW r \in Requests, Call(r) PROVE OneCallInv'
  BY <1>3, OneCustomer, OneWebhook, OneOperatorReads, OneReview DEF Call
<1>4. ASSUME NEW r \in Requests, Step(r) PROVE TasksInv'
  BY <1>4, TasksRead, TasksCommit, TasksFunding, TasksConversion, TasksOffRamp, TasksBegin,
     TasksCreate, TasksInsert, TasksPoll, TasksWebhook, TasksOperator, TasksMark,
     TasksReview DEF Step
<1>5. ASSUME NEW r \in Requests, Call(r) PROVE TasksInv'
  BY <1>5, TasksCustomer, TasksWebhook, TasksReport, TasksReview DEF Call
<1> QED BY <1>1, <1>2, <1>3, <1>4, <1>5, OneWorld, OneFailure, TasksWorld, TasksFailure DEF Next

(* With one call at a time nothing moves the payment under a call: it finds   *)
(* the status it has seen, each transition follows an edge, and every report  *)
(* agrees with what its task already says.                                    *)
THEOREM OneCallInvariance ==
  ASSUME OneCall
  PROVE  Spec => []OneInv
<1>1. Init => OneInv BY InitInvariant, InitLegs, OneInit, TasksInit DEF OneInv, EngineInv
<1>2. OneInv /\ [Next]_vars => OneInv' BY NextOne
<1> QED BY <1>1, <1>2, PTL DEF Spec

(* With one call at a time every group of entries is posted at most once,     *)
(* whatever crashes, is retried or is reviewed.                               *)
THEOREM PostedOnceOneCall ==
  ASSUME OneCall
  PROVE  Spec => []PostedOnce
<1>1. OneInv => PostedOnce BY DEF OneInv, OneCallInv
<1> QED BY <1>1, OneCallInvariance, PTL

(* With one call at a time each transfer after the first was paid for with a  *)
(* reviewer's decision.                                                       *)
THEOREM RebroadcastOnlyByReviewOneCall ==
  ASSUME OneCall
  PROVE  Spec => []RebroadcastOnlyByReview
<1>1. OneInv => RebroadcastOnlyByReview
  <2> SUFFICES ASSUME OneInv PROVE broadcasts <= 1 + reviews
    BY DEF RebroadcastOnlyByReview
  <2>1. broadcasts <= attempts["CRYPTO_SUBMITTED"]
        /\ attempts["CRYPTO_SUBMITTED"] <= attempts["AUTHORIZED"]
    BY DEF OneInv, EngineInv, IInv, Rows, BroadcastsAuthorized
  <2>2. attempts["AUTHORIZED"] <= 1 + reviews BY DEF OneInv, OneCallInv, OneTrail
  <2>3. /\ broadcasts \in Nat /\ reviews \in Nat /\ attempts["AUTHORIZED"] \in Nat
        /\ attempts["CRYPTO_SUBMITTED"] \in Nat
    BY StatesAre DEF OneInv, EngineInv, IInv, TypeOK
  <2> QED BY <2>1, <2>2, <2>3
<1> QED BY <1>1, OneCallInvariance, PTL

(* With one call at a time a payment that failed or expired without a         *)
(* reviewer has sent nothing to the chain.                                    *)
THEOREM CheapEndsSentNothingOneCall ==
  ASSUME OneCall
  PROVE  Spec => []CheapEndsSentNothing
<1>1. OneInv => CheapEndsSentNothing
  <2> SUFFICES ASSUME OneInv, status \in {"FAILED", "EXPIRED"}, reviews = 0
               PROVE  broadcasts = 0
    BY DEF CheapEndsSentNothing
  <2>1. attempts["CRYPTO_SUBMITTED"] = 0 BY DEF OneInv, OneCallInv, OneTrail
  <2>2. broadcasts \in Nat /\ broadcasts <= attempts["CRYPTO_SUBMITTED"]
    BY DEF OneInv, EngineInv, IInv, TypeOK, Rows, BroadcastsAuthorized
  <2> QED BY <2>1, <2>2
<1> QED BY <1>1, OneCallInvariance, PTL

(* With one call at a time, as long as every event received was the           *)
(* provider's own, a payment is COMPLETED only if the merchant was paid, by   *)
(* the order of an automatic provider or as the operator reports.             *)
THEOREM CompletedMeansPaidOneCall ==
  ASSUME OneCall
  PROVE  Spec => []CompletedMeansPaid
<1>1. OneInv => CompletedMeansPaid
  BY EngineAssumption DEF OneInv, EngineInv, LegsInv, LegsOfTrail, TasksInv, CompletedMeansPaid
<1> QED BY <1>1, OneCallInvariance, PTL

(* Only the operator's report changes a task on record.                       *)
LEMMA TasksStay ==
  ASSUME IInv, [Next]_vars, \A r \in Requests : ~ MarkTask(r)
  PROVE  \A t \in DOMAIN tasks : tasks'[t] = tasks[t]
<1>1. ASSUME NEW r \in Requests, OffRampExecute(r) \/ CreatePayment(r)
      PROVE  \/ UNCHANGED tasks
             \/ \E k \in {"CONVERSION", "FIAT_SETTLEMENT"} :
                  tasks' = Append(tasks, [kind |-> k, result |-> "none"])
  BY <1>1 DEF OffRampExecute, CreatePayment, FileConversion
<1>2. ASSUME NEW r \in Requests, Step(r) \/ Call(r) \/ Reject(r),
             ~ (OffRampExecute(r) \/ CreatePayment(r))
      PROVE  UNCHANGED tasks
  <2>1. CASE Call(r) \/ Reject(r)
    BY <2>1 DEF Call, Reject, Authorize, Cancel, Execute, Refund, Webhook, Operator, Report,
       Review, stored, rows
  <2>2. CASE Step(r)
    BY <1>2, <2>2 DEF Step, TransitionRead, TransitionCommit, Broadcast, RecordHash,
       ResumeFunding, WaitConfirmations, ResumeConversion, RunConversionLeg, InsertConversion,
       ResumeSettlement, BeginSettlement, FindOpenLeg, InsertSettlement, Poll,
       CompleteSettlement, WebhookLeg, WebhookIntent, OperatorIntent, OperatorLegs,
       OperatorInsert, OperatorUpdate, OperatorSettleLegs, OperatorSettleInsert, ReviewTrail,
       stored, rows
  <2> QED BY <1>2, <2>1, <2>2
<1>3. ASSUME ChainConfirms \/ ProviderSettles \/ Crash \/ UNCHANGED vars
      PROVE  UNCHANGED tasks
  BY <1>3 DEF ChainConfirms, ProviderSettles, Crash, vars, stored, rows
<1>4. \/ UNCHANGED tasks
      \/ \E k \in {"CONVERSION", "FIAT_SETTLEMENT"} :
           tasks' = Append(tasks, [kind |-> k, result |-> "none"])
  BY <1>1, <1>2, <1>3 DEF Next
<1> QED BY <1>4, TaskFiled

(* With one call at a time what the operator has reported on a task stands,   *)
(* whatever is retried, lost or filed again.                                  *)
THEOREM ReportsStandOneCall ==
  ASSUME OneCall
  PROVE  Spec => ReportsStand
<1>1. OneInv /\ [Next]_vars =>
        [\A t \in DOMAIN tasks : tasks[t].result # "none" => tasks'[t] = tasks[t]]_tasks
  <2> SUFFICES ASSUME OneInv, [Next]_vars, NEW t \in DOMAIN tasks, tasks[t].result # "none"
               PROVE  tasks'[t] = tasks[t]
    OBVIOUS
  <2>1. ASSUME NEW r \in Requests, MarkTask(r) PROVE tasks'[t] = tasks[t]
    <3> DEFINE Task == [kind : {"CONVERSION", "FIAT_SETTLEMENT"}, result : Results]
    <3>1. CASE t # req[r].task BY <2>1, <3>1, TaskMarked DEF OneInv, EngineInv
    <3>2. CASE t = req[r].task
      <4>1. tasks[t].result = req[r].result
        BY <2>1, <3>2, OneKnows DEF OneInv, MarkTask, Agrees, At
      <4>2. tasks'[t] = [tasks[t] EXCEPT !.result = tasks[t].result]
        BY <2>1, <3>2, <4>1 DEF MarkTask
      <4>3. tasks[t] \in Task
        <5>1. tasks \in Seq(Task) BY DEF OneInv, EngineInv, IInv, TypeOK
        <5> QED BY <5>1, RowRead
      <4>4. \A v \in Task : [v EXCEPT !.result = v.result] = v OBVIOUS
      <4> QED BY <4>2, <4>3, <4>4
    <3> QED BY <3>1, <3>2
  <2>2. CASE \A r \in Requests : ~ MarkTask(r) BY <2>2, TasksStay DEF OneInv, EngineInv
  <2> QED BY <2>1, <2>2
<1> QED BY <1>1, OneCallInvariance, PTL DEF Spec, ReportsStand

(* So the confirmation of the crypto is the engine's point of no return: a    *)
(* payment once confirmed is never cancelled, expired, failed or authorized   *)
(* again (states.ts:2-3).                                                     *)
THEOREM NoReturnOneCall ==
  ASSUME OneCall
  PROVE  Spec => []Lifecycle!PointOfNoReturn
<1>1. OneInv => Lifecycle!PointOfNoReturn
  BY DEF OneInv, OneCallInv, OneTrail, Lifecycle!PointOfNoReturn, Lifecycle!PastFunding, PastFunding
<1> QED BY <1>1, OneCallInvariance, PTL

(* Only a commit moves the payment.                                           *)
LEMMA IntentStays ==
  ASSUME [Next]_vars, \A r \in Requests : ~ TransitionCommit(r)
  PROVE  UNCHANGED <<status, attempts>>
<1>1. ASSUME NEW r \in Requests, Call(r) \/ Reject(r)
      PROVE  UNCHANGED <<status, attempts>>
  BY <1>1 DEF Call, Reject, Authorize, Cancel, Execute, Refund, Webhook, Operator, Report,
     Review, stored, intent
<1>2. ASSUME NEW r \in Requests, Step(r)
      PROVE  UNCHANGED <<status, attempts>>
  BY <1>2 DEF Step, TransitionRead, Broadcast, RecordHash, ResumeFunding, WaitConfirmations,
     ResumeConversion, RunConversionLeg, OffRampExecute, InsertConversion, ResumeSettlement,
     BeginSettlement, FindOpenLeg, CreatePayment, InsertSettlement, Poll, CompleteSettlement,
     WebhookLeg, WebhookIntent, OperatorIntent, MarkTask, OperatorLegs, OperatorInsert,
     OperatorUpdate, OperatorSettleLegs, OperatorSettleInsert, ReviewTrail, stored, intent
<1>3. ASSUME ChainConfirms \/ ProviderSettles \/ Crash \/ UNCHANGED vars
      PROVE  UNCHANGED <<status, attempts>>
  BY <1>3 DEF ChainConfirms, ProviderSettles, Crash, vars, stored, intent
<1> QED BY <1>1, <1>2, <1>3 DEF Next

(* With one call at a time the engine implements the lifecycle: it starts in  *)
(* a quote, and each of its steps advances the payment along an edge,         *)
(* resolves a review by the trail, or changes nothing its customer sees.      *)
THEOREM ImplementsLifecycleOneCall ==
  ASSUME OneCall
  PROVE  Spec => ImplementsLifecycle
<1>1. Init => Lifecycle!Init
  BY StatesAre DEF Init, Opened, Lifecycle!Init, Funded, PastFunding
<1>2. OneInv /\ [Next]_vars => [Lifecycle!Next]_<<status, Funded>>
  <2> SUFFICES ASSUME OneInv, [Next]_vars
               PROVE  Lifecycle!Next \/ UNCHANGED <<status, Funded>>
    OBVIOUS
  <2>1. ASSUME NEW r \in Requests, TransitionCommit(r) PROVE Lifecycle!Next
    <3> DEFINE s == req[r].to
    <3>1. /\ status' = s /\ CanTransition(status, s)
          /\ status = "RECONCILIATION_REQUIRED" => (Funded <=> s = "REFUND_REQUIRED")
          /\ Funded' <=> (Funded \/ s \in PastFunding)
      BY <2>1, OneCommits DEF OneInv, EngineInv
    <3> HIDE DEF s
    <3>2. Funded \in BOOLEAN /\ Funded' \in BOOLEAN BY DEF Funded
    <3>3. CASE status # "RECONCILIATION_REQUIRED"
      <4>1. Lifecycle!Advance
        BY <3>1, <3>2, <3>3 DEF Lifecycle!Advance, CanTransition, Lifecycle!Edges, Edges,
           Lifecycle!PastFunding, PastFunding
      <4> QED BY <4>1 DEF Lifecycle!Next
    <3>4. CASE status = "RECONCILIATION_REQUIRED"
      <4>1. s \in {"AUTHORIZED", "FAILED", "REFUND_REQUIRED"}
        BY <3>1, <3>4 DEF CanTransition, Edges
      <4>2. Funded' = Funded BY <3>1, <3>2, <3>4, <4>1 DEF PastFunding
      <4>3. Lifecycle!Resolve
        BY <3>1, <3>4, <4>2 DEF Lifecycle!Resolve, CanTransition, Lifecycle!Edges, Edges
      <4> QED BY <4>3 DEF Lifecycle!Next
    <3> QED BY <3>3, <3>4
  <2>2. CASE \A r \in Requests : ~ TransitionCommit(r)
    <3>1. UNCHANGED <<status, attempts>> BY <2>2, IntentStays
    <3>2. Funded' = Funded BY <3>1 DEF Funded
    <3> QED BY <3>1, <3>2
  <2> QED BY <2>1, <2>2
<1> QED BY <1>1, <1>2, OneCallInvariance, PTL
    DEF Spec, ImplementsLifecycle, Lifecycle!Spec

------------------------------------------------------------------------------
(* The tasks filed, with one call at a time.                                  *)

Kinds == {"CONVERSION", "FIAT_SETTLEMENT"}

LEMMA TasksCounted ==
  ASSUME IInv, NEW k
  PROVE  IsFiniteSet(TasksOf(k)) /\ Cardinality(TasksOf(k)) \in Nat
<1> DEFINE Task == [kind : {"CONVERSION", "FIAT_SETTLEMENT"}, result : Results]
<1>1. tasks \in Seq(Task) BY DEF IInv, TypeOK
<1>2. DOMAIN tasks = 1 .. Len(tasks) /\ Len(tasks) \in Nat BY <1>1, LenProperties
<1>3. IsFiniteSet(DOMAIN tasks) BY <1>2, FS_Interval
<1>4. TasksOf(k) \subseteq DOMAIN tasks BY DEF TasksOf
<1>5. IsFiniteSet(TasksOf(k)) BY <1>3, <1>4, FS_Subset
<1> QED BY <1>5, FS_CardinalityType

LEMMA OneMoreTask ==
  ASSUME IInv, NEW k \in Kinds, tasks' = Append(tasks, [kind |-> k, result |-> "none"])
  PROVE  /\ Cardinality(TasksOf(k)') = Cardinality(TasksOf(k)) + 1
         /\ \A j \in Kinds \ {k} : TasksOf(j)' = TasksOf(j)
<1>1. /\ TasksOf(k)' = TasksOf(k) \cup {Len(tasks) + 1}
      /\ Len(tasks) + 1 \notin TasksOf(k)
      /\ \A j \in Kinds \ {k} : TasksOf(j)' = TasksOf(j)
  BY TaskFiled DEF TasksOf, Kinds
<1>2. IsFiniteSet(TasksOf(k)) BY TasksCounted
<1> HIDE DEF Kinds
<1>3. Cardinality(TasksOf(k) \cup {Len(tasks) + 1}) = Cardinality(TasksOf(k)) + 1
  BY <1>1, <1>2, FS_AddElement
<1> QED BY <1>1, <1>3

AllPending == \A i \in DOMAIN settlements : settlements[i].status = "PENDING"

(* A step that files nothing and leaves the trail alone.                      *)
LEMMA FiledStays ==
  ASSUME OneCall, FiledInv, NEW r \in Requests, UNCHANGED <<status, attempts, faults>>,
         \A k \in Kinds : TasksOf(k)' = TasksOf(k), RowsGrow, AllPending => AllPending',
         Filing(r, "CONVERSION") => Filing(r, "CONVERSION")' \/ conversions' # <<>>,
         Filing(r, "FIAT_SETTLEMENT") => Filing(r, "FIAT_SETTLEMENT")' \/ settlements' # <<>>,
         req'[r].pc = "offRamp" => conversions' = <<>>,
         req'[r].pc = "createPayment" => settlements' = <<>>
  PROVE  FiledInv'
<1>1. \A k \in Kinds : Unfiled(k)' => Unfiled(k)
  <2>1. Unfiled("CONVERSION")' => Unfiled("CONVERSION") BY DEF Unfiled, RowsGrow, OneCall
  <2>2. Unfiled("FIAT_SETTLEMENT")' => Unfiled("FIAT_SETTLEMENT") BY DEF Unfiled, RowsGrow, OneCall
  <2> QED BY <2>1, <2>2 DEF Kinds
<1>2. Funded' <=> Funded BY DEF Funded
<1>3. \A k \in Kinds : /\ ~ Funded' => TasksOf(k)' = {}
                       /\ Unfiled(k)' => Cardinality(TasksOf(k)') <= faults'
                       /\ Cardinality(TasksOf(k)') <= 1 + faults'
  BY <1>1, <1>2 DEF FiledInv, RefiledOnlyAfterFaults, Kinds
<1>4. status' \in {"CRYPTO_CONFIRMED", "CONVERSION_PENDING"} => TasksOf("FIAT_SETTLEMENT")' = {}
  BY DEF FiledInv, Kinds
<1>5. attempts'["COMPLETED"] = 0 => AllPending' BY DEF FiledInv, AllPending
<1>6. \A q \in Requests : /\ At(q, "offRamp")' => conversions' = <<>>
                          /\ At(q, "createPayment")' => settlements' = <<>>
  BY DEF OneCall, At
<1> QED BY <1>3, <1>4, <1>5, <1>6 DEF FiledInv, RefiledOnlyAfterFaults, Kinds, AllPending

(* Most steps do not even touch a leg.                                        *)
LEMMA FiledQuiet ==
  ASSUME OneCall, FiledInv, NEW r \in Requests,
         UNCHANGED <<status, attempts, faults, conversions, settlements, tasks, order>>,
         reviews' >= reviews, reviews \in Nat, reviews' \in Nat,
         req[r].pc \notin {"insertConversion", "insertSettlement", "read", "commit"},
         req'[r].pc = "offRamp" => conversions = <<>>,
         req'[r].pc = "createPayment" => settlements = <<>>
  PROVE  FiledInv'
<1>1. RowsGrow BY DEF RowsGrow
<1>2. AllPending => AllPending' BY DEF AllPending
<1>3. ~ Filing(r, "CONVERSION") /\ ~ Filing(r, "FIAT_SETTLEMENT") BY DEF Filing, Moving, At
<1>4. \A k \in Kinds : TasksOf(k)' = TasksOf(k) BY DEF TasksOf
<1> QED BY <1>1, <1>2, <1>3, <1>4, FiledStays

LEMMA FiledCalls ==
  ASSUME IInv, OneCall, FiledInv, NEW r \in Requests, Call(r)
  PROVE  FiledInv'
<1>1. req \in [Requests -> Request] /\ reviews \in Nat BY DEF IInv, TypeOK
<1>2. /\ UNCHANGED <<status, attempts, faults, conversions, settlements, tasks>>
      /\ reviews' \in {reviews, reviews + 1} /\ req[r].pc = "idle"
  BY DEF Call, Authorize, Cancel, Execute, Refund, Webhook, Operator, Report, Review, Free, At,
     stored, intent, rows, world, budget
<1>3. UNCHANGED order
  BY DEF Call, Authorize, Cancel, Execute, Refund, Webhook, Operator, Report, Review,
     stored, world
<1>4. req'[r].pc \notin {"offRamp", "createPayment"}
  <2>1. CASE Authorize(r) \/ Cancel(r) \/ Refund(r)
    <3>1. \E s : Transition(r, s) BY <2>1 DEF Authorize, Cancel, Refund
    <3> QED BY <1>1, <3>1, Moved
  <2>2. CASE Execute(r)
    <3>1. req'[r].pc \in {"read", "resumeFunding", "resumeConversion", "resumeSettlement"}
      BY <1>1, <2>2 DEF Execute, Request
    <3> QED BY <3>1
  <2>3. CASE Webhook(r)
    <3>1. req'[r].pc = "webhookLeg" BY <1>1, <2>3 DEF Webhook, Request
    <3> QED BY <3>1
  <2>4. CASE Operator(r)
    <3>1. req'[r].pc = "opIntent" BY <1>1, <2>4 DEF Operator, Report, Request
    <3> QED BY <3>1
  <2>5. CASE Review(r)
    <3>1. req'[r].pc = "review" BY <1>1, <2>5 DEF Review, Request
    <3> QED BY <3>1
  <2> QED BY <2>1, <2>2, <2>3, <2>4, <2>5 DEF Call
<1> QED BY <1>1, <1>2, <1>3, <1>4, FiledQuiet

(* A step that reads the rows, or the chain, and goes on.                     *)
LEMMA FiledReads ==
  ASSUME IInv, LegsInv, OneCall, FiledInv, NEW r \in Requests,
         \/ ResumeFunding(r) \/ WaitConfirmations(r) \/ ResumeConversion(r)
         \/ RunConversionLeg(r) \/ ResumeSettlement(r) \/ BeginSettlement(r)
         \/ Poll(r) \/ CompleteSettlement(r) \/ WebhookLeg(r) \/ WebhookIntent(r)
         \/ OperatorIntent(r) \/ OperatorLegs(r) \/ OperatorSettleLegs(r) \/ ReviewTrail(r)
  PROVE  FiledInv'
<1>1. req \in [Requests -> Request] /\ reviews \in Nat BY DEF IInv, TypeOK
<1>2. UNCHANGED stored
  BY DEF ResumeFunding, WaitConfirmations, ResumeConversion, RunConversionLeg, ResumeSettlement,
     BeginSettlement, Poll, CompleteSettlement, WebhookLeg, WebhookIntent, OperatorIntent,
     OperatorLegs, OperatorSettleLegs, ReviewTrail
<1>3. req[r].pc \notin {"insertConversion", "insertSettlement", "read", "commit"}
  BY DEF ResumeFunding, WaitConfirmations, ResumeConversion, RunConversionLeg, ResumeSettlement,
     BeginSettlement, Poll, CompleteSettlement, WebhookLeg, WebhookIntent, OperatorIntent,
     OperatorLegs, OperatorSettleLegs, ReviewTrail, At
<1>4. \/ req'[r].pc \notin {"offRamp", "createPayment"}
      \/ req'[r].pc = "offRamp" /\ conversions = <<>>
  <2>1. CASE ResumeFunding(r)
    <3>1. \/ \E s : Transition(r, s)
          \/ req' = [req EXCEPT ![r].pc = "confirm", ![r].hash = txHash]
      BY <2>1 DEF ResumeFunding
    <3>2. req'[r].pc \in {"read", "confirm"} BY <1>1, <3>1, Moved DEF Request
    <3> QED BY <3>2
  <2>2. CASE WaitConfirmations(r)
    <3>1. \E s : Transition(r, s) BY <2>2 DEF WaitConfirmations
    <3> QED BY <1>1, <3>1, Moved
  <2>3. CASE ResumeConversion(r)
    <3>1. Return(r) \/ Goto(r, "conversion") BY <2>3 DEF ResumeConversion
    <3> QED BY <1>1, <3>1, Moved
  <2>4. CASE RunConversionLeg(r)
    <3>1. Goto(r, "settle") \/ Return(r) \/ (Goto(r, "offRamp") /\ conversions = <<>>)
      BY <2>4 DEF RunConversionLeg
    <3> QED BY <1>1, <3>1, Moved
  <2>5. CASE ResumeSettlement(r)
    <3>1. Goto(r, "settle") \/ \E s : Transition(r, s) BY <2>5 DEF ResumeSettlement
    <3> QED BY <1>1, <3>1, Moved
  <2>6. CASE BeginSettlement(r)
    <3>1. (\E s : Transition(r, s)) \/ Goto(r, "settleLeg") \/ Return(r)
      BY <2>6 DEF BeginSettlement
    <3> QED BY <1>1, <3>1, Moved
  <2>7. CASE Poll(r) \/ CompleteSettlement(r)
    <3>1. (\E s : Transition(r, s)) \/ Goto(r, "complete") \/ Return(r)
      BY <2>7 DEF Poll, CompleteSettlement
    <3> QED BY <1>1, <3>1, Moved
  <2>8. CASE WebhookLeg(r) \/ WebhookIntent(r)
    <3>1. Goto(r, "webhookIntent") \/ Goto(r, "complete") \/ Return(r)
      BY <2>8 DEF WebhookLeg, WebhookIntent
    <3> QED BY <1>1, <3>1, Moved
  <2>9. CASE OperatorIntent(r)
    <3>1. Goto(r, "opMark") \/ Goto(r, "opSettleLegs") \/ Return(r)
      BY <2>9 DEF OperatorIntent
    <3> QED BY <1>1, <3>1, Moved
  <2>10. CASE OperatorLegs(r)
    <3>1. req'[r].pc \in {"opInsert", "opUpdate"}
      BY <1>1, <2>10 DEF OperatorLegs, Goto, Request
    <3> QED BY <3>1
  <2>11. CASE OperatorSettleLegs(r)
    <3>1. req'[r].pc \in {"opSettleInsert", "opMark"}
      BY <1>1, <2>11 DEF OperatorSettleLegs, Goto, Request
    <3> QED BY <3>1
  <2>12. CASE ReviewTrail(r)
    <3>1. Goto(r, "read") \/ Return(r) BY <2>12 DEF ReviewTrail
    <3> QED BY <1>1, <3>1, Moved
  <2> QED BY <2>1, <2>2, <2>3, <2>4, <2>5, <2>6, <2>7, <2>8, <2>9, <2>10, <2>11, <2>12
<1> QED BY <1>1, <1>2, <1>3, <1>4, StoredKept, FiledQuiet

LEMMA FiledFunding ==
  ASSUME IInv, OneCall, FiledInv, NEW r \in Requests, Broadcast(r) \/ RecordHash(r)
  PROVE  FiledInv'
<1>1. req \in [Requests -> Request] /\ reviews \in Nat BY DEF IInv, TypeOK
<1>2. /\ UNCHANGED <<status, attempts, faults, conversions, settlements, tasks, order, reviews>>
      /\ req[r].pc \in {"broadcast", "record"}
  BY DEF Broadcast, RecordHash, At, intent, rows, world, budget
<1>3. req'[r].pc \in {"record", "read", "confirm"}
  <2>1. \/ req' = [req EXCEPT ![r].pc = "record", ![r].hash = broadcasts + 1]
        \/ Transition(r, "RECONCILIATION_REQUIRED") \/ Goto(r, "confirm")
    BY DEF Broadcast, RecordHash
  <2> QED BY <1>1, <2>1, Moved DEF Request
<1> QED BY <1>1, <1>2, <1>3, FiledQuiet

(* As long as nothing is completed every settlement leg is open, so the search *)
(* for an open one fails only if there is no leg at all.                      *)
LEMMA FiledSearch ==
  ASSUME IInv, LegsInv, OneCallInv, OneCall, FiledInv, NEW r \in Requests, FindOpenLeg(r)
  PROVE  FiledInv'
<1>1. req \in [Requests -> Request] /\ reviews \in Nat /\ attempts \in [States -> Nat]
  BY DEF IInv, TypeOK
<1>2. status = "FIAT_SETTLEMENT_PENDING" BY DEF FindOpenLeg, At, OneCallInv, SeesStatus
<1>3. AllPending BY <1>1, <1>2, StatesAre DEF OneCallInv, OneTrail, FiledInv, AllPending
<1>4. req'[r].pc = "createPayment" => settlements = <<>>
  <2>1. CASE \E n : req' = [req EXCEPT ![r].pc = "poll", ![r].ref = n]
    BY <1>1, <2>1 DEF Request
  <2>2. CASE \A i \in DOMAIN settlements : settlements[i].status # "PENDING"
    <3>1. DOMAIN settlements = {} BY <1>3, <2>2 DEF AllPending
    <3>2. settlements \in Seq(SettlementLeg) BY DEF IInv, TypeOK, SettlementLeg
    <3>3. Len(settlements) = 0 BY <3>1, <3>2, LenProperties
    <3> QED BY <3>2, <3>3, EmptySeq
  <2> QED BY <2>1, <2>2 DEF FindOpenLeg
<1>5. req'[r].pc # "offRamp"
  <2>1. (\E n : req' = [req EXCEPT ![r].pc = "poll", ![r].ref = n]) \/ Goto(r, "createPayment")
    BY DEF FindOpenLeg
  <2> QED BY <1>1, <2>1, Moved DEF Request
<1> QED BY <1>1, <1>4, <1>5, StoredKept, FiledQuiet DEF FindOpenLeg, At

(* A row inserted or reported on: the task before it has found its leg.       *)
LEMMA FiledConversions ==
  ASSUME IInv, LegsInv, OneCall, FiledInv, NEW r \in Requests,
         InsertConversion(r) \/ OperatorInsert(r) \/ OperatorUpdate(r)
  PROVE  FiledInv'
<1>1. req \in [Requests -> Request] /\ conversions \in Seq(LegStatus)
      /\ LegOf(req[r].result) \in LegStatus /\ "PENDING" \in LegStatus
  BY LegOfType DEF IInv, TypeOK, Request, LegStatus
<1>2. UNCHANGED <<status, attempts, faults, settlements, tasks, order, reviews>>
  BY DEF InsertConversion, OperatorInsert, OperatorUpdate, intent, world, budget
<1>3. conversions' # <<>>
  <2>1. CASE InsertConversion(r) BY <1>1, <2>1, AppendProperties DEF InsertConversion
  <2>2. CASE OperatorInsert(r) BY <1>1, <2>2, AppendProperties DEF OperatorInsert
  <2>3. CASE OperatorUpdate(r)
    <3>1. conversions # <<>> BY <2>3 DEF OperatorUpdate, At, LegsInv, SettlesConverted
    <3>2. DOMAIN conversions' = DOMAIN conversions BY <2>3 DEF OperatorUpdate
    <3>3. DOMAIN conversions = 1 .. Len(conversions) /\ Len(conversions) \in Nat \ {0}
      BY <1>1, <3>1, LenProperties, EmptySeq
    <3> QED BY <3>2, <3>3
  <2> QED BY <2>1, <2>2, <2>3
<1>4. RowsGrow /\ (AllPending => AllPending') BY <1>2, <1>3 DEF RowsGrow, AllPending
<1>5. \A k \in Kinds : TasksOf(k)' = TasksOf(k) BY <1>2 DEF TasksOf
<1>6. ~ Filing(r, "FIAT_SETTLEMENT")
  BY DEF Filing, InsertConversion, OperatorInsert, OperatorUpdate, At
<1>7. req'[r].pc \notin {"offRamp", "createPayment"}
  <2>1. \/ Return(r) \/ Transition(r, "RECONCILIATION_REQUIRED") \/ Enter(r, "settle")
        \/ Goto(r, "opLegs")
    BY <1>1 DEF InsertConversion, OperatorInsert, OperatorUpdate, LegStatus
  <2> QED BY <1>1, <2>1, Moved
<1> QED BY <1>2, <1>3, <1>4, <1>5, <1>6, <1>7, FiledStays

LEMMA FiledSettlements ==
  ASSUME IInv, OneCall, FiledInv, NEW r \in Requests,
         InsertSettlement(r) \/ OperatorSettleInsert(r)
  PROVE  FiledInv'
<1>1. req \in [Requests -> Request] /\ req[r].ref \in Nat /\ req[r].task \in Nat
  BY DEF IInv, TypeOK, Request
<1>2. UNCHANGED <<status, attempts, faults, conversions, tasks, order, reviews>>
  BY DEF InsertSettlement, OperatorSettleInsert, intent, world, budget
<1>3. PICK n \in Nat : settlements' = Append(settlements, [status |-> "PENDING", ref |-> n])
  BY <1>1 DEF InsertSettlement, OperatorSettleInsert
<1>4. settlements' # <<>> BY <1>3, NewRow
<1>5. AllPending => AllPending' BY <1>3, RowAdded DEF AllPending
<1>6. RowsGrow BY <1>2, <1>4 DEF RowsGrow
<1>7. \A k \in Kinds : TasksOf(k)' = TasksOf(k) BY <1>2 DEF TasksOf
<1>8. ~ Filing(r, "CONVERSION")
  BY DEF Filing, InsertSettlement, OperatorSettleInsert, At, Moving
<1>9. req'[r].pc \in {"poll", "opSettleLegs"}
  BY <1>1, Moved DEF InsertSettlement, OperatorSettleInsert
<1> QED BY <1>2, <1>4, <1>5, <1>6, <1>7, <1>8, <1>9, FiledStays

LEMMA FiledMark ==
  ASSUME IInv, LegsInv, OneCall, FiledInv, NEW r \in Requests, MarkTask(r)
  PROVE  FiledInv'
<1>1. req \in [Requests -> Request] BY DEF IInv, TypeOK
<1>2. UNCHANGED <<status, attempts, faults, conversions, settlements, order, reviews>>
  BY DEF MarkTask, intent, world, budget
<1>3. /\ DOMAIN tasks' = DOMAIN tasks
      /\ \A t \in DOMAIN tasks : tasks'[t].kind = tasks[t].kind
  BY TaskMarked
<1>4. \A k \in Kinds : TasksOf(k)' = TasksOf(k) BY <1>3 DEF TasksOf
<1>5. RowsGrow /\ (AllPending => AllPending') BY <1>2, <1>3 DEF RowsGrow, AllPending
<1>6. ~ Filing(r, "CONVERSION") /\ ~ Filing(r, "FIAT_SETTLEMENT")
  BY DEF Filing, MarkTask, At, Moving
<1>7. req'[r].pc \in {"read", "opLegs", "complete"}
  <2>1. Transition(r, "REFUND_REQUIRED") \/ Goto(r, "opLegs") \/ Goto(r, "complete")
    BY DEF MarkTask
  <2> QED BY <1>1, <2>1, Moved
<1> QED BY <1>2, <1>4, <1>5, <1>6, <1>7, FiledStays

(* Filing a task uses up the leg's turn: now a row follows, or a review.      *)
LEMMA FiledTask ==
  ASSUME IInv, OneCall, FiledInv, NEW r \in Requests, NEW k \in Kinds,
         tasks' = Append(tasks, [kind |-> k, result |-> "none"]),
         UNCHANGED <<status, attempts, faults, conversions, settlements>>,
         Unfiled(k), Funded, Filing(r, k)',
         req'[r].pc \notin {"offRamp", "createPayment"}
  PROVE  FiledInv'
<1>1. /\ Cardinality(TasksOf(k)') = Cardinality(TasksOf(k)) + 1
      /\ \A j \in Kinds \ {k} : TasksOf(j)' = TasksOf(j)
  BY OneMoreTask
<1>2. faults \in Nat /\ Cardinality(TasksOf(k)) \in Nat BY TasksCounted DEF IInv, TypeOK
<1>3. Cardinality(TasksOf(k)) <= faults BY DEF FiledInv, Kinds
<1>4. \A j \in Kinds : ~ Unfiled(j)'
  <2>1. ~ Unfiled(k)' BY DEF Unfiled
  <2>2. ASSUME NEW j \in Kinds \ {k} PROVE ~ Unfiled(j)' BY <2>2 DEF Unfiled, Kinds
  <2> QED BY <2>1, <2>2
<1>5. \A j \in Kinds : Cardinality(TasksOf(j)') <= 1 + faults'
  <2>1. ASSUME NEW j \in Kinds \ {k} PROVE Cardinality(TasksOf(j)') <= 1 + faults'
    BY <1>1, <2>1 DEF FiledInv, RefiledOnlyAfterFaults, Kinds
  <2> QED BY <1>1, <1>2, <1>3, <2>1
<1>6. Funded' BY DEF Funded
<1>7. status' \in {"CRYPTO_CONFIRMED", "CONVERSION_PENDING"} => TasksOf("FIAT_SETTLEMENT")' = {}
  <2>1. status \in {"CRYPTO_CONFIRMED", "CONVERSION_PENDING"} => k = "CONVERSION"
    BY DEF Unfiled, Kinds
  <2> QED BY <1>1, <2>1 DEF FiledInv, Kinds
<1>8. attempts'["COMPLETED"] = 0 => AllPending' BY DEF FiledInv, AllPending
<1>9. \A q \in Requests : ~ At(q, "offRamp")' /\ ~ At(q, "createPayment")' BY DEF OneCall, At
<1> QED BY <1>4, <1>5, <1>6, <1>7, <1>8, <1>9 DEF FiledInv, RefiledOnlyAfterFaults, Kinds, AllPending

LEMMA FiledOffRamp ==
  ASSUME IInv, OneCallInv, OneCall, FiledInv, NEW r \in Requests, OffRampExecute(r)
  PROVE  FiledInv'
<1>1. req \in [Requests -> Request] /\ attempts \in [States -> Nat] BY DEF IInv, TypeOK
<1>2. UNCHANGED <<status, attempts, faults, conversions, settlements, order, reviews>>
  BY DEF OffRampExecute, intent, world, budget
<1>3. /\ status = "CONVERSION_PENDING" /\ conversions = <<>> /\ Funded
      /\ ~ Filing(r, "CONVERSION") /\ ~ Filing(r, "FIAT_SETTLEMENT")
  BY DEF OffRampExecute, At, OneCallInv, SeesStatus, FiledInv, Filing, Moving,
     IInv, Relies, KnownFunded, Downstream, Funded, PastFunding
<1>4. /\ req'[r].pc \in {"insertConversion", "read"}
      /\ req'[r].pc = "read" => req'[r].to = "RECONCILIATION_REQUIRED"
  <2>1. CASE Transition(r, "RECONCILIATION_REQUIRED") BY <1>1, <2>1, Moved
  <2>2. CASE \/ \E x \in {"full", "short"} :
                  req' = [req EXCEPT ![r].pc = "insertConversion", ![r].result = x]
             \/ Goto(r, "insertConversion")
    <3>1. req'[r].pc = "insertConversion" BY <1>1, <2>2, Moved DEF Request
    <3> QED BY <3>1
  <2> QED BY <2>1, <2>2 DEF OffRampExecute
<1>5. CASE UNCHANGED tasks
  <2>1. \A k \in Kinds : TasksOf(k)' = TasksOf(k) BY <1>5 DEF TasksOf
  <2>2. RowsGrow /\ (AllPending => AllPending') BY <1>2, <1>5 DEF RowsGrow, AllPending
  <2> QED BY <1>2, <1>3, <1>4, <2>1, <2>2, FiledStays
<1>6. CASE tasks' = FileConversion
  <2>1. Unfiled("CONVERSION") BY <1>3 DEF Unfiled, OneCall
  <2>2. Filing(r, "CONVERSION")' BY <1>4 DEF Filing, Moving, At
  <2>3. tasks' = Append(tasks, [kind |-> "CONVERSION", result |-> "none"])
    BY <1>6 DEF FileConversion
  <2> QED BY <1>2, <1>3, <1>4, <2>1, <2>2, <2>3, FiledTask DEF Kinds
<1> QED BY <1>5, <1>6 DEF OffRampExecute

LEMMA FiledCreate ==
  ASSUME IInv, OneCallInv, OneCall, FiledInv, NEW r \in Requests, CreatePayment(r)
  PROVE  FiledInv'
<1>1. req \in [Requests -> Request] /\ attempts \in [States -> Nat] BY DEF IInv, TypeOK
<1>2. UNCHANGED <<status, attempts, faults, conversions, settlements, reviews>>
  BY DEF CreatePayment, intent, budget
<1>3. /\ status = "FIAT_SETTLEMENT_PENDING" /\ settlements = <<>> /\ Funded
      /\ ~ Filing(r, "CONVERSION") /\ ~ Filing(r, "FIAT_SETTLEMENT")
  BY DEF CreatePayment, At, OneCallInv, SeesStatus, FiledInv, Filing, Moving,
     IInv, Relies, KnownFunded, Downstream, Funded, PastFunding
<1>4. req'[r].pc = "insertSettlement"
  <2>1. \E n : req' = [req EXCEPT ![r].pc = "insertSettlement", ![r].ref = n]
    BY DEF CreatePayment
  <2> QED BY <1>1, <2>1 DEF Request
<1>5. CASE UNCHANGED tasks /\ order' = IF order = "none" THEN "PENDING" ELSE order
  <2>1. \A k \in Kinds : TasksOf(k)' = TasksOf(k) BY <1>5 DEF TasksOf
  <2>2. RowsGrow /\ (AllPending => AllPending') BY <1>2, <1>5 DEF RowsGrow, AllPending
  <2> QED BY <1>2, <1>3, <1>4, <2>1, <2>2, FiledStays
<1>6. CASE tasks' = Append(tasks, [kind |-> "FIAT_SETTLEMENT", result |-> "none"])
  <2>1. Unfiled("FIAT_SETTLEMENT") BY <1>3 DEF Unfiled, OneCall
  <2>2. Filing(r, "FIAT_SETTLEMENT")' BY <1>4 DEF Filing, At
  <2> QED BY <1>2, <1>3, <1>4, <1>6, <2>1, <2>2, FiledTask DEF Kinds
<1> QED BY <1>5, <1>6 DEF CreatePayment

LEMMA FiledRead ==
  ASSUME IInv, LegsInv, OneCallInv, OneCall, FiledInv, NEW r \in Requests, TransitionRead(r)
  PROVE  FiledInv'
<1>1. req \in [Requests -> Request] BY DEF IInv, TypeOK
<1>2. CanTransition(status, req[r].to) /\ At(r, "read")
  BY OneKnows DEF TransitionRead, Lawful, At
<1>3. req' = [req EXCEPT ![r].pc = "commit", ![r].replay = (status = req[r].to)]
  BY <1>2 DEF TransitionRead
<1>4. req'[r].pc = "commit" /\ req'[r].to = req[r].to BY <1>1, <1>3 DEF Request
<1>5. /\ RowsGrow
      /\ UNCHANGED <<status, attempts, faults, conversions, settlements, tasks>>
  BY StoredKept DEF TransitionRead
<1>6. (\A k \in Kinds : TasksOf(k)' = TasksOf(k)) /\ (AllPending => AllPending')
  BY <1>5 DEF TasksOf, AllPending
<1>7. /\ Filing(r, "CONVERSION") => Filing(r, "CONVERSION")'
      /\ ~ Filing(r, "FIAT_SETTLEMENT")
  BY <1>2, <1>4 DEF Filing, Moving, At
<1> QED BY <1>4, <1>5, <1>6, <1>7, FiledStays

(* A leg gets its turn once, by the transition that opens it.                 *)
LEMMA FiledCommit ==
  ASSUME IInv, OneCallInv, OneCall, FiledInv, NEW r \in Requests, TransitionCommit(r)
  PROVE  FiledInv'
<1> DEFINE s == req[r].to
<1>1. /\ status' = s /\ s \in States /\ status \in States
      /\ attempts'[s] = attempts[s] + 1
      /\ \A t \in States \ {s} : attempts'[t] = attempts[t]
      /\ CanTransition(status, s) /\ (Funded' <=> (Funded \/ s \in PastFunding))
  BY OneCommits
<1>2. /\ req \in [Requests -> Request] /\ Continue(r, s) /\ At(r, "commit")
      /\ \A t \in States : attempts[t] \in Nat
      /\ UNCHANGED <<tasks, conversions, faults>> /\ CompleteLegs(r, s)
      /\ faults \in Nat
  BY DEF TransitionCommit, budget, IInv, TypeOK
<1> HIDE DEF s
<1>3. (\A k : TasksOf(k)' = TasksOf(k)) BY <1>2 DEF TasksOf
<1>4. \A k \in Kinds : Cardinality(TasksOf(k)) \in Nat BY TasksCounted
<1>5. /\ s = "CRYPTO_CONFIRMED" => status = "CRYPTO_SUBMITTED"
      /\ s = "CONVERSION_PENDING" => status = "CRYPTO_CONFIRMED"
      /\ s = "FIAT_SETTLEMENT_PENDING" => status = "CONVERSION_PENDING"
  BY <1>1, StatesAre DEF CanTransition, Edges
<1>6. s = "CRYPTO_CONFIRMED" => \A k \in Kinds : TasksOf(k) = {}
  BY <1>5 DEF OneCallInv, OneTrail, PastFunding, FiledInv, Kinds
<1>7. Unfiled("CONVERSION")' => Cardinality(TasksOf("CONVERSION")) <= faults
  <2>1. CASE s = "CRYPTO_CONFIRMED"
    <3>1. TasksOf("CONVERSION") = {} BY <1>6, <2>1 DEF Kinds
    <3>2. Cardinality(TasksOf("CONVERSION")) = 0 BY <3>1, FS_EmptySet
    <3> QED BY <1>2, <3>2
  <2>2. CASE s = "CONVERSION_PENDING" /\ conversions = <<>>
    <3>1. ~ Filing(r, "CONVERSION") BY <1>2, <2>2 DEF Filing, Moving, At, s
    <3>2. Unfiled("CONVERSION") BY <1>5, <2>2, <3>1 DEF Unfiled, OneCall
    <3> QED BY <3>2 DEF FiledInv
  <2> QED BY <1>1, <1>2, <2>1, <2>2 DEF Unfiled
<1>8. Unfiled("FIAT_SETTLEMENT")' => Cardinality(TasksOf("FIAT_SETTLEMENT")) <= faults
  <2>1. s = "FIAT_SETTLEMENT_PENDING" => TasksOf("FIAT_SETTLEMENT") = {}
    BY <1>5 DEF FiledInv
  <2>2. TasksOf("FIAT_SETTLEMENT") = {} => Cardinality(TasksOf("FIAT_SETTLEMENT")) = 0
    BY FS_EmptySet
  <2>3. Unfiled("FIAT_SETTLEMENT")' => s = "FIAT_SETTLEMENT_PENDING" BY <1>1 DEF Unfiled
  <2> QED BY <1>2, <2>1, <2>2, <2>3
<1>9. status' \in {"CRYPTO_CONFIRMED", "CONVERSION_PENDING"} => TasksOf("FIAT_SETTLEMENT")' = {}
  BY <1>1, <1>3, <1>5, <1>6 DEF FiledInv, Kinds
<1>10. attempts'["COMPLETED"] = 0 => AllPending'
  <2>1. SUFFICES ASSUME attempts'["COMPLETED"] = 0 PROVE AllPending'
    OBVIOUS
  <2>2. s # "COMPLETED" /\ attempts["COMPLETED"] = 0 BY <1>1, <1>2, <2>1, StatesAre
  <2>3. /\ DOMAIN settlements' = DOMAIN settlements
        /\ \A i \in DOMAIN settlements : settlements'[i] = settlements[i]
    BY <1>2, <2>2 DEF CompleteLegs
  <2> QED BY <2>2, <2>3 DEF FiledInv, AllPending
<1>11. req'[r].pc \in {"broadcast", "conversion", "settleLeg", "idle", "read"}
  BY <1>1, <1>2, ContinueTo
<1>12. \A q \in Requests : ~ At(q, "offRamp")' /\ ~ At(q, "createPayment")'
  BY <1>11 DEF OneCall, At
<1>13. \A k \in Kinds : /\ ~ Funded' => TasksOf(k)' = {}
                        /\ Unfiled(k)' => Cardinality(TasksOf(k)') <= faults'
                        /\ Cardinality(TasksOf(k)') <= 1 + faults'
  <2>1. \A k \in Kinds : Cardinality(TasksOf(k)) <= 1 + faults /\ (~ Funded => TasksOf(k) = {})
    BY DEF FiledInv, RefiledOnlyAfterFaults, Kinds
  <2> QED BY <1>1, <1>2, <1>3, <1>7, <1>8, <2>1 DEF Kinds
<1> QED BY <1>9, <1>10, <1>12, <1>13 DEF FiledInv, RefiledOnlyAfterFaults, Kinds, AllPending

LEMMA FiledWorld ==
  ASSUME FiledInv, ChainConfirms \/ ProviderSettles \/ UNCHANGED vars
  PROVE  FiledInv'
<1>1. UNCHANGED <<status, attempts, faults, conversions, settlements, tasks, req>>
  BY DEF ChainConfirms, ProviderSettles, vars, stored, intent, rows, budget
<1>2. /\ \A k : TasksOf(k)' = TasksOf(k) /\ (Unfiled(k)' <=> Unfiled(k))
      /\ Funded' <=> Funded
  BY <1>1 DEF TasksOf, Unfiled, Filing, Moving, At, Funded
<1> QED BY <1>1, <1>2 DEF FiledInv, RefiledOnlyAfterFaults, At

(* A fault pays for the next task of each kind.                               *)
LEMMA FiledFailure ==
  ASSUME IInv, OneCall, FiledInv, Crash \/ \E r \in Requests : Reject(r)
  PROVE  FiledInv'
<1>1. /\ UNCHANGED <<status, attempts, conversions, settlements, tasks>>
      /\ faults' = faults + 1 /\ faults \in Nat
  BY DEF Crash, Reject, intent, rows, IInv, TypeOK
<1>2. (\A k : TasksOf(k)' = TasksOf(k)) /\ (Funded' <=> Funded)
  BY <1>1 DEF TasksOf, Funded
<1>3. \A q \in Requests : ~ At(q, "offRamp")' /\ ~ At(q, "createPayment")'
  <2>1. CASE Crash BY <2>1 DEF Crash, At, Idle
  <2>2. ASSUME NEW r \in Requests, Reject(r)
        PROVE  \A q \in Requests : ~ At(q, "offRamp")' /\ ~ At(q, "createPayment")'
    <3>1. req'[r].pc = "idle" BY <2>2, Moved DEF Reject, IInv, TypeOK
    <3> QED BY <3>1 DEF OneCall, At
  <2> QED BY <2>1, <2>2
<1>4. \A k \in Kinds : Cardinality(TasksOf(k)) <= 1 + faults /\ Cardinality(TasksOf(k)) \in Nat
  BY TasksCounted DEF FiledInv, RefiledOnlyAfterFaults, Kinds
<1>5. \A k \in Kinds : /\ ~ Funded' => TasksOf(k)' = {}
                       /\ Cardinality(TasksOf(k)') <= faults'
                       /\ Cardinality(TasksOf(k)') <= 1 + faults'
  BY <1>1, <1>2, <1>4 DEF FiledInv, Kinds
<1> QED BY <1>1, <1>2, <1>3, <1>5 DEF FiledInv, RefiledOnlyAfterFaults, Kinds

LEMMA FiledInit ==
  ASSUME Init
  PROVE  FiledInv
<1>1. /\ tasks = <<>> /\ settlements = <<>> /\ status = "QUOTED" /\ faults = 0
      /\ \A r \in Requests : req[r].pc = "idle"
  BY DEF Init, Opened, Idle
<1>2. \A k : TasksOf(k) = {} BY <1>1 DEF TasksOf
<1>3. \A k : Cardinality(TasksOf(k)) = 0 BY <1>2, FS_EmptySet
<1> QED BY <1>1, <1>2, <1>3 DEF FiledInv, RefiledOnlyAfterFaults, Unfiled, At

(* "retries must never double-file operator tasks": with one call at a time   *)
(* each task of a kind after the first is paid for with a crash or a failed   *)
(* insert.                                                                    *)
THEOREM RefiledOnlyAfterFaultsOneCall ==
  ASSUME OneCall
  PROVE  Spec => []RefiledOnlyAfterFaults
<1>1. Init => FiledInv BY FiledInit
<1>2. OneInv /\ FiledInv /\ [Next]_vars => FiledInv'
  <2> SUFFICES ASSUME OneInv, FiledInv, [Next]_vars PROVE FiledInv'
    OBVIOUS
  <2>1. IInv /\ LegsInv /\ OneCallInv BY DEF OneInv, EngineInv
  <2>2. ASSUME NEW r \in Requests, Step(r) PROVE FiledInv'
    BY <2>1, <2>2, FiledRead, FiledCommit, FiledFunding, FiledReads, FiledOffRamp,
       FiledConversions, FiledSearch, FiledCreate, FiledSettlements, FiledMark DEF Step
  <2>3. ASSUME NEW r \in Requests, Call(r) PROVE FiledInv' BY <2>1, <2>3, FiledCalls
  <2> QED BY <2>1, <2>2, <2>3, FiledWorld, FiledFailure DEF Next
<1>3. FiledInv => RefiledOnlyAfterFaults BY DEF FiledInv
<1> QED BY <1>1, <1>2, <1>3, OneCallInvariance, PTL DEF Spec
==============================================================================
