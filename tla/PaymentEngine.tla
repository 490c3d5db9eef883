---------------------------- MODULE PaymentEngine ----------------------------
(* The payment engine of src/engine/service.ts over src/engine/store.ts, for  *)
(* one payment (every query of the engine is by payment id).                  *)
(*                                                                            *)
(* A request is one call of an exported operation.  It is cut at the awaits   *)
(* where another request, the providers or a crash can come in between: each  *)
(* action below is the code from one such await to the next.  A transition is *)
(* two of them, because it is a READ COMMITTED transaction that selects the   *)
(* status, decides, and later updates it by id without looking again:         *)
(* TransitionRead and TransitionCommit.  A call the code refuses at once      *)
(* (404, 409) reads and changes nothing and is not a step.                    *)
EXTENDS PaymentStates, Naturals, Sequences, FiniteSets

CONSTANTS
  Requests,     \* the calls that may be in flight at once
  None,         \* no request
  Operations,   \* the operations the requests call
  OffRamp,      \* "auto": the off-ramp answers; "manual": it files a task
  Payment,      \* the same of the settlement provider
  Events,       \* the ids of the settlement.completed events that may be posted
  Genuine,      \* those of them the provider sends
  Kept,         \* the results whose reports read back from jsonb as they were sent
  MaxFaults,    \* bound: process crashes and rejected awaits
  MaxReviews    \* bound: review decisions taken by a human

AllOperations == {"authorize", "cancel", "execute", "refund", "webhook",
                  "operator", "resolve"}

ASSUME EngineAssumption ==
  /\ None \notin Requests
  /\ Operations \subseteq AllOperations
  /\ OffRamp \in {"auto", "manual"} /\ Payment \in {"auto", "manual"}
  /\ Genuine \subseteq Events
  /\ MaxFaults \in Nat /\ MaxReviews \in Nat

VARIABLES
  status,       \* payment_intents.status
  attempts,     \* payment_attempts: how many rows each state has
  txHash,       \* the hash on the CRYPTO_SUBMITTED attempts, 0 if none
  chainTx,      \* blockchain_transactions: the hashes recorded as CONFIRMED
  ledger,       \* ledger_entries: how often each group of entries is posted
  conversions,  \* conversions: the statuses of the rows
  settlements,  \* fiat_settlements: [status, ref]
  tasks,        \* operator_tasks: [kind, result], result "none" is PENDING
  events,       \* webhook_events: the settlement.completed events received
  broadcasts,   \* the chain: transfers sent, numbered from 1
  mined,        \* the chain: transfers with enough confirmations
  order,        \* the automatic settlement provider: the order it has for the payment
  locks,        \* the request that holds the per-payment mutex
  req,          \* the requests in flight
  faults, reviews

intent == <<status, attempts>>
books  == <<chainTx, ledger>>
rows   == <<conversions, settlements, tasks, events>>
world  == <<broadcasts, mined, order>>
budget == <<faults, reviews>>
stored == <<intent, txHash, books, rows, world, budget>>
vars   == <<stored, locks, req>>

Programs == {"idle", "read", "commit", "resumeFunding", "broadcast", "record", "confirm",
             "resumeConversion", "conversion", "offRamp", "insertConversion",
             "resumeSettlement", "settle", "settleLeg", "createPayment",
             "insertSettlement", "poll", "complete", "webhookLeg", "webhookIntent",
             "opIntent", "opMark", "opLegs", "opInsert", "opUpdate", "opSettleLegs",
             "opSettleInsert", "review"}
Results  == {"none", "full", "short", "failed"}
LegStatus  == {"PENDING", "PARTIAL", "COMPLETED"}
OrderStatus == {"none", "PENDING", "COMPLETED", "FAILED"}
Groups   == {"funding", "settlement", "refund"}
NoState  == "-"

(* pc: the await the request is at; to: the target of its transition;        *)
(* replay: the transaction found the status already there; the others are    *)
(* the handler's local variables of the same name.                           *)
Request == [pc : Programs, to : States \cup {NoState}, replay : BOOLEAN,
            hash : Nat, ref : Nat, leg : Nat, task : Nat, result : Results]

Idle == [pc |-> "idle", to |-> NoState, replay |-> FALSE, hash |-> 0, ref |-> 0,
         leg |-> 0, task |-> 0, result |-> "none"]

(* A payment that went through the states of path and is at its end, with no  *)
(* leg begun.                                                                 *)
Opened(path, end) ==
  /\ status = end
  /\ attempts = [s \in States |-> IF s \in path THEN 1 ELSE 0]
  /\ txHash = 0 /\ chainTx = {}
  /\ ledger = [g \in Groups |-> 0]
  /\ conversions = <<>> /\ settlements = <<>> /\ tasks = <<>> /\ events = {}
  /\ broadcasts = 0 /\ mined = {} /\ order = "none"
  /\ locks = None
  /\ req = [r \in Requests |-> Idle]
  /\ faults = 0 /\ reviews = 0

(* Right after createQuote(): CREATED and QUOTED in one transaction.          *)
Init == Opened({"QUOTED"}, "QUOTED")

------------------------------------------------------------------------------
(* How a request moves.                                                       *)

At(r, p) == req[r].pc = p
Free(r, op) == At(r, "idle") /\ op \in Operations

Goto(r, p)       == req' = [req EXCEPT ![r].pc = p] /\ UNCHANGED locks
Transition(r, s) == req' = [req EXCEPT ![r].pc = "read", ![r].to = s] /\ UNCHANGED locks

(* The same, when the handler needs none of its locals any more.              *)
Enter(r, p) == req' = [req EXCEPT ![r] = [Idle EXCEPT !.pc = p]] /\ UNCHANGED locks

(* Slip: an exit of execute() that forgets the mutex.                         *)
ReturnLocked(r) == req' = [req EXCEPT ![r] = Idle] /\ UNCHANGED locks

(* The call ends, normally or by an exception; execute() unlocks in finally.  *)
Return(r) ==
  /\ req' = [req EXCEPT ![r] = Idle]
  /\ locks' = IF locks = r THEN None ELSE locks

Holds(legs, s) == \E i \in DOMAIN legs : legs[i] = s

(* resolveReview() looks at the newest twenty attempts only.  It sees as much: *)
(* whatever follows a confirmation is past it or a review, and a review that  *)
(* finds it moves to REFUND_REQUIRED, which is past it again.  Only calls     *)
(* that have read the status before the confirmation add others after it, at  *)
(* most four attempts each until the next review; it would take five of them. *)
Funded == \E s \in PastFunding : attempts[s] > 0

------------------------------------------------------------------------------
(* transitionWith(): read, decide, write.                                     *)

(* Slip: the merchant's entries are posted when the settlement starts.        *)
PostingEarly == [CRYPTO_CONFIRMED |-> "funding", FIAT_SETTLEMENT_PENDING |-> "settlement",
                 REFUNDED |-> "refund"]

(* What the transaction of a transition to a state posts besides the status:  *)
(* confirmFunding(), completeSettlement() and refund() are its callers.       *)
Posting == [CRYPTO_CONFIRMED |-> "funding", COMPLETED |-> "settlement",
            REFUNDED |-> "refund"]

(* completeSettlement() updates the settlement row first: a second one for    *)
(* the same reference waits on the row lock until the first has committed.    *)
RowUnlocked(r) ==
  req[r].to = "COMPLETED" =>
    \A q \in Requests \ {r} :
      ~ (At(q, "commit") /\ req[q].to = "COMPLETED" /\ req[q].ref = req[r].ref)

(* Select the status.  The same status is a replay; an edge that does not     *)
(* exist throws InvalidTransition and rolls everything back.                  *)
TransitionRead(r) ==
  /\ At(r, "read") /\ RowUnlocked(r)
  /\ \/ /\ status = req[r].to \/ CanTransition(status, req[r].to)
        /\ req' = [req EXCEPT ![r].pc = "commit", ![r].replay = (status = req[r].to)]
        /\ UNCHANGED locks
     \/ /\ status # req[r].to /\ ~ CanTransition(status, req[r].to)
        /\ Return(r)
  /\ UNCHANGED stored

PostEntries(s) ==
  ledger' = IF s \in DOMAIN Posting THEN [ledger EXCEPT ![Posting[s]] = @ + 1] ELSE ledger

RecordChainTx(r, s) ==
  chainTx' = IF s = "CRYPTO_CONFIRMED" THEN chainTx \cup {req[r].hash} ELSE chainTx

CompleteLegs(r, s) ==
  settlements' = [i \in DOMAIN settlements |->
    IF s = "COMPLETED" /\ settlements[i].ref = req[r].ref
      THEN [settlements[i] EXCEPT !.status = "COMPLETED"] ELSE settlements[i]]

(* What the caller of the transition does next; every other target is its     *)
(* caller's last act.                                                         *)
Continue(r, s) ==
  CASE s = "CRYPTO_SUBMITTED"        -> Enter(r, "broadcast")
    [] s = "CRYPTO_CONFIRMED"        -> Transition(r, "CONVERSION_PENDING")
    [] s = "CONVERSION_PENDING"      -> Enter(r, "conversion")
    [] s = "FIAT_SETTLEMENT_PENDING" -> Enter(r, "settleLeg")
    [] OTHER                         -> Return(r)

(* Slip: the attempt records the state left, not the state entered.           *)
TransitionCommitFrom(r) ==
  LET s == req[r].to IN
  /\ At(r, "commit")
  /\ status' = IF req[r].replay THEN status ELSE s
  /\ attempts' = IF req[r].replay THEN attempts ELSE [attempts EXCEPT ![status] = @ + 1]
  /\ PostEntries(s) /\ RecordChainTx(r, s) /\ CompleteLegs(r, s)
  /\ Continue(r, s)
  /\ UNCHANGED <<txHash, conversions, tasks, events, world, budget>>

(* Insert the attempt, update the status by id and commit, with the entries   *)
(* posted in the same transaction.  A replay writes no attempt and no status, *)
(* but what its transaction posts is committed all the same.                  *)
TransitionCommit(r) ==
  LET s == req[r].to IN
  /\ At(r, "commit")
  /\ status' = IF req[r].replay THEN status ELSE s
  /\ attempts' = IF req[r].replay THEN attempts ELSE [attempts EXCEPT ![s] = @ + 1]
  /\ PostEntries(s) /\ RecordChainTx(r, s) /\ CompleteLegs(r, s)
  /\ Continue(r, s)
  /\ UNCHANGED <<txHash, conversions, tasks, events, world, budget>>

------------------------------------------------------------------------------
(* The customer's calls.                                                      *)

(* The quote may have expired by the time authorize() looks at the clock.     *)
Authorize(r) ==
  /\ Free(r, "authorize") /\ status = "QUOTED"
  /\ Transition(r, "AUTHORIZED") \/ Transition(r, "EXPIRED")
  /\ UNCHANGED stored

Cancel(r) ==
  /\ Free(r, "cancel") /\ status \in Cancellable
  /\ Transition(r, "FAILED")
  /\ UNCHANGED stored

(* Slips: a broadcast without the mutex, and one before it is persisted.      *)
ExecuteUnlocked(r) ==
  /\ Free(r, "execute") /\ status = "AUTHORIZED"
  /\ req' = [req EXCEPT ![r].pc = "read", ![r].to = "CRYPTO_SUBMITTED"]
  /\ UNCHANGED <<stored, locks>>

ExecuteBroadcastFirst(r) ==
  /\ Free(r, "execute") /\ locks = None /\ status = "AUTHORIZED"
  /\ locks' = r
  /\ req' = [req EXCEPT ![r].pc = "broadcast"]
  /\ UNCHANGED stored

(* withPaymentLock() and the dispatch on the status.  A waiter has no effect  *)
(* before it holds the lock, so the call arrives when it gets it.             *)
Execute(r) ==
  /\ Free(r, "execute") /\ locks = None
  /\ locks' = r
  /\ \/ /\ status = "AUTHORIZED"
        /\ req' = [req EXCEPT ![r].pc = "read", ![r].to = "CRYPTO_SUBMITTED"]
     \/ /\ status = "CRYPTO_SUBMITTED"
        /\ req' = [req EXCEPT ![r].pc = "resumeFunding"]
     \/ /\ status = "CONVERSION_PENDING"
        /\ req' = [req EXCEPT ![r].pc = "resumeConversion"]
     \/ /\ status = "FIAT_SETTLEMENT_PENDING"
        /\ req' = [req EXCEPT ![r].pc = "resumeSettlement"]
  /\ UNCHANGED stored

(* Slip: a refund that is not refused once it is done.                        *)
RefundAgain(r) ==
  /\ Free(r, "refund") /\ status \in {"REFUND_REQUIRED", "REFUNDED"}
  /\ Transition(r, "REFUNDED")
  /\ UNCHANGED stored

Refund(r) ==
  /\ Free(r, "refund") /\ status = "REFUND_REQUIRED"
  /\ Transition(r, "REFUNDED")
  /\ UNCHANGED stored

------------------------------------------------------------------------------
(* The funding leg.                                                           *)

(* The broadcast throws with the transfer sent or not: outcome unknown.       *)
Broadcast(r) ==
  /\ At(r, "broadcast")
  /\ \/ /\ broadcasts' = broadcasts + 1
        /\ req' = [req EXCEPT ![r].pc = "record", ![r].hash = broadcasts + 1]
        /\ UNCHANGED locks
     \/ /\ broadcasts' \in {broadcasts, broadcasts + 1}
        /\ Transition(r, "RECONCILIATION_REQUIRED")
  /\ UNCHANGED <<intent, txHash, books, rows, mined, order, budget>>

(* The update reaches every CRYPTO_SUBMITTED attempt of the payment.          *)
RecordHash(r) ==
  /\ At(r, "record")
  /\ txHash' = req[r].hash
  /\ Goto(r, "confirm")
  /\ UNCHANGED <<intent, books, rows, world, budget>>

(* Slip: a broadcast whose hash was not recorded is sent again.               *)
ResumeFundingResend(r) ==
  /\ At(r, "resumeFunding")
  /\ IF txHash = 0 THEN Goto(r, "broadcast") ELSE Goto(r, "confirm")
  /\ UNCHANGED stored

(* The resume looks at the newest twenty attempts only: of more than those it *)
(* may miss the one that has the hash.                                        *)
LatestHash ==
  {txHash} \cup IF Cardinality({a \in States \X (1..20) : a[2] <= attempts[a[1]]}) > 20
                 THEN {0} ELSE {}

ResumeFunding(r) ==
  /\ At(r, "resumeFunding")
  /\ \/ 0 \in LatestHash /\ Transition(r, "RECONCILIATION_REQUIRED")
     \/ /\ txHash # 0
        /\ req' = [req EXCEPT ![r].pc = "confirm", ![r].hash = txHash]
        /\ UNCHANGED locks
  /\ UNCHANGED stored

(* waitConfirmations() answers with enough confirmations or times out, then   *)
(* confirmFunding() or the review.                                            *)
WaitConfirmations(r) ==
  /\ At(r, "confirm")
  /\ \/ req[r].hash \in mined /\ Transition(r, "CRYPTO_CONFIRMED")
     \/ req[r].hash \notin mined /\ Transition(r, "RECONCILIATION_REQUIRED")
  /\ UNCHANGED stored

------------------------------------------------------------------------------
(* The conversion leg.                                                        *)

(* A PENDING or PARTIAL leg is operator-owned.                                *)
ResumeConversion(r) ==
  /\ At(r, "resumeConversion")
  /\ IF conversions # <<>> /\ ~ Holds(conversions, "COMPLETED")
       THEN Return(r) ELSE Goto(r, "conversion")
  /\ UNCHANGED stored

RunConversionLeg(r) ==
  /\ At(r, "conversion")
  /\ \/ Holds(conversions, "COMPLETED") /\ Goto(r, "settle")
     \/ conversions = <<>> /\ Goto(r, "offRamp")
     \/ conversions # <<>> /\ ~ Holds(conversions, "COMPLETED") /\ Return(r)
  /\ UNCHANGED stored

(* offRamp.execute(): automatic, it converts the whole amount or falls short; *)
(* manual, it files a task; or it throws, with the effect or without.         *)
FileConversion == Append(tasks, [kind |-> "CONVERSION", result |-> "none"])

OffRampExecute(r) ==
  /\ At(r, "offRamp")
  /\ \/ /\ OffRamp = "auto"
        /\ \E x \in {"full", "short"} :
             req' = [req EXCEPT ![r].pc = "insertConversion", ![r].result = x]
        /\ UNCHANGED <<tasks, locks>>
     \/ /\ OffRamp = "manual"
        /\ tasks' = FileConversion
        /\ Goto(r, "insertConversion")
     \/ /\ tasks' \in {tasks} \cup (IF OffRamp = "manual" THEN {FileConversion} ELSE {})
        /\ Transition(r, "RECONCILIATION_REQUIRED")
  /\ UNCHANGED <<intent, txHash, books, conversions, settlements, events, world, budget>>

LegOf(result) == CASE result = "none"  -> "PENDING"
                   [] result = "short" -> "PARTIAL"
                   [] OTHER            -> "COMPLETED"

InsertConversion(r) ==
  LET leg == LegOf(req[r].result) IN
  /\ At(r, "insertConversion")
  /\ conversions' = Append(conversions, leg)
  /\ CASE leg = "PENDING"   -> Return(r)
       [] leg = "PARTIAL"   -> Transition(r, "RECONCILIATION_REQUIRED")
       [] leg = "COMPLETED" -> Enter(r, "settle")
  /\ UNCHANGED <<intent, txHash, books, settlements, tasks, events, world, budget>>

------------------------------------------------------------------------------
(* The settlement leg.                                                        *)

ResumeSettlement(r) ==
  /\ At(r, "resumeSettlement")
  /\ IF Holds(conversions, "COMPLETED")
       THEN Goto(r, "settle") ELSE Transition(r, "RECONCILIATION_REQUIRED")
  /\ UNCHANGED stored

(* beginSettlement(): its second look at the status ...                       *)
BeginSettlement(r) ==
  /\ At(r, "settle")
  /\ CASE status = "CONVERSION_PENDING"      -> Transition(r, "FIAT_SETTLEMENT_PENDING")
       [] status = "FIAT_SETTLEMENT_PENDING" -> Goto(r, "settleLeg")
       [] OTHER                              -> Return(r)
  /\ UNCHANGED stored

(* Slip: a re-entry does not look for the open leg.                           *)
FindOpenLegAnew(r) == At(r, "settleLeg") /\ Goto(r, "createPayment") /\ UNCHANGED stored

(* ... the search for an open leg ...                                         *)
FindOpenLeg(r) ==
  /\ At(r, "settleLeg")
  /\ \/ \E i \in DOMAIN settlements :
          /\ settlements[i].status = "PENDING"
          /\ req' = [req EXCEPT ![r].pc = "poll", ![r].ref = settlements[i].ref]
          /\ UNCHANGED locks
     \/ /\ \A i \in DOMAIN settlements : settlements[i].status # "PENDING"
        /\ Goto(r, "createPayment")
  /\ UNCHANGED stored

(* ... and, without one, an order or a task, and its row.  An automatic       *)
(* provider derives the reference from the payment id and so knows the order  *)
(* again; the manual one files a new task each time.                          *)
CreatePayment(r) ==
  /\ At(r, "createPayment")
  /\ \/ /\ Payment = "auto"
        /\ order' = IF order = "none" THEN "PENDING" ELSE order
        /\ req' = [req EXCEPT ![r].pc = "insertSettlement", ![r].ref = 1]
        /\ UNCHANGED tasks
     \/ /\ Payment = "manual"
        /\ tasks' = Append(tasks, [kind |-> "FIAT_SETTLEMENT", result |-> "none"])
        /\ req' = [req EXCEPT ![r].pc = "insertSettlement", ![r].ref = Len(tasks) + 1]
        /\ UNCHANGED order
  /\ UNCHANGED <<intent, txHash, books, conversions, settlements, events,
                 broadcasts, mined, locks, budget>>

InsertSettlement(r) ==
  /\ At(r, "insertSettlement")
  /\ settlements' = Append(settlements, [status |-> "PENDING", ref |-> req[r].ref])
  /\ Goto(r, "poll")
  /\ UNCHANGED <<intent, txHash, books, conversions, tasks, events, world, budget>>

(* What getPayment() answers: the order of the automatic provider, the task   *)
(* behind a manual reference.                                                 *)
Observed(ref) ==
  IF Payment = "auto" THEN order
  ELSE CASE tasks[ref].result = "none"   -> "PENDING"
         [] tasks[ref].result = "failed" -> "FAILED"
         [] OTHER                        -> "COMPLETED"

(* Slips: an order still PENDING is taken for paid, or for lost.              *)
PollPaid(r) ==
  /\ At(r, "poll") /\ Observed(req[r].ref) # "FAILED"
  /\ Goto(r, "complete")
  /\ UNCHANGED stored

PollLost(r) ==
  /\ At(r, "poll") /\ Observed(req[r].ref) # "COMPLETED"
  /\ Transition(r, "REFUND_REQUIRED")
  /\ UNCHANGED stored

(* A PENDING answer is polled again a few times and then left for the webhook *)
(* or the operator; an automatic provider may also time out.                  *)
Poll(r) ==
  /\ At(r, "poll")
  /\ \/ Observed(req[r].ref) = "COMPLETED" /\ Goto(r, "complete")
     \/ Observed(req[r].ref) = "FAILED" /\ Transition(r, "REFUND_REQUIRED")
     \/ Observed(req[r].ref) = "PENDING" /\ Return(r)
     \/ Payment = "auto" /\ Transition(r, "RECONCILIATION_REQUIRED")
  /\ UNCHANGED stored

(* completeSettlement() looks once more; its transaction decides.             *)
CompleteSettlement(r) ==
  /\ At(r, "complete")
  /\ IF status = "COMPLETED" THEN Return(r) ELSE Transition(r, "COMPLETED")
  /\ UNCHANGED stored

------------------------------------------------------------------------------
(* handleWebhook() of a settlement.completed.  Nobody asks who has sent it, or *)
(* the provider whether it is so: only an event of the provider's own is sure *)
(* to be of an order it has paid.                                             *)

(* The references settlement rows have: an automatic provider derives one     *)
(* from the payment, the manual one has a task's.                             *)
References == IF Payment = "auto" THEN {1} ELSE DOMAIN tasks

(* The event row first; a redelivery finds it and is a no-op.                 *)
Webhook(r) ==
  /\ Free(r, "webhook")
  /\ \E e \in Events \ events :
       /\ e \in Genuine => order = "COMPLETED"
       /\ events' = events \cup {e}
  /\ \E ref \in References :
       req' = [req EXCEPT ![r].pc = "webhookLeg", ![r].ref = ref]
  /\ UNCHANGED <<intent, txHash, books, conversions, settlements, tasks, world, budget, locks>>

(* Some one row of that reference, which must still be open.                  *)
WebhookLeg(r) ==
  /\ At(r, "webhookLeg")
  /\ \/ \E i \in DOMAIN settlements :
          /\ settlements[i].ref = req[r].ref
          /\ IF settlements[i].status = "PENDING" THEN Goto(r, "webhookIntent") ELSE Return(r)
     \/ (\A i \in DOMAIN settlements : settlements[i].ref # req[r].ref) /\ Return(r)
  /\ UNCHANGED stored

WebhookIntent(r) ==
  /\ At(r, "webhookIntent")
  /\ IF status = "FIAT_SETTLEMENT_PENDING" /\ conversions # <<>>
       THEN Goto(r, "complete") ELSE Return(r)
  /\ UNCHANGED stored

------------------------------------------------------------------------------
(* completeOperatorTask().                                                    *)

(* Slip: a done task accepts no report at all, not even the same one.         *)
ReportOnce(r, t) ==
  /\ Free(r, "operator") /\ t \in DOMAIN tasks /\ tasks[t].result = "none"
  /\ \E x \in Results \ {"none"} :
       /\ x = "short" => tasks[t].kind = "CONVERSION"
       /\ req' = [req EXCEPT ![r].pc = "opIntent", ![r].task = t, ![r].result = x]
  /\ UNCHANGED <<stored, locks>>

(* Slip: a done task accepts any report.                                      *)
ReportAny(r, t) ==
  /\ Free(r, "operator") /\ t \in DOMAIN tasks
  /\ \E x \in Results \ {"none"} :
       /\ x = "short" => tasks[t].kind = "CONVERSION"
       /\ req' = [req EXCEPT ![r].pc = "opIntent", ![r].task = t, ![r].result = x]
  /\ UNCHANGED <<stored, locks>>

(* A done task only accepts the same report again, and recognises it by its   *)
(* text: jsonb reorders keys, so a report with a note or a proof comes back   *)
(* as another text and is refused.  A refused call is no step, so one form of *)
(* report for each result is enough.                                          *)
Report(r, t) ==
  /\ Free(r, "operator") /\ t \in DOMAIN tasks
  /\ \E x \in Results \ {"none"} :
       /\ tasks[t].result = "none" \/ (tasks[t].result = x /\ x \in Kept)
       /\ x = "short" => tasks[t].kind = "CONVERSION"
       /\ req' = [req EXCEPT ![r].pc = "opIntent", ![r].task = t, ![r].result = x]
  /\ UNCHANGED <<stored, locks>>

Operator(r) == \E t \in DOMAIN tasks : Report(r, t)

OperatorIntent(r) ==
  LET kind == tasks[req[r].task].kind IN
  /\ At(r, "opIntent")
  /\ CASE kind = "CONVERSION" /\ status = "CONVERSION_PENDING" -> Goto(r, "opMark")
       [] kind = "FIAT_SETTLEMENT" /\ status = "FIAT_SETTLEMENT_PENDING" ->
            Goto(r, IF req[r].result = "failed" THEN "opMark" ELSE "opSettleLegs")
       [] OTHER -> Return(r)
  /\ UNCHANGED stored

(* markTask() by id, whatever the task has become since it was read.          *)
MarkTask(r) ==
  LET t == req[r].task IN
  /\ At(r, "opMark")
  /\ tasks' = [tasks EXCEPT ![t].result = req[r].result]
  /\ CASE req[r].result = "failed"     -> Transition(r, "REFUND_REQUIRED")
       [] req[r].result # "failed" /\ tasks[t].kind = "CONVERSION" -> Goto(r, "opLegs")
       [] OTHER                        -> Goto(r, "complete")
  /\ UNCHANGED <<intent, txHash, books, conversions, settlements, events, world, budget>>

(* The leg the report is booked on: a PENDING one, else the first returned.   *)
OperatorLegs(r) ==
  /\ At(r, "opLegs")
  /\ \/ conversions = <<>> /\ Goto(r, "opInsert")
     \/ \E i \in DOMAIN conversions :
          /\ conversions[i] = "PENDING" \/ ~ Holds(conversions, "PENDING")
          /\ req' = [req EXCEPT ![r].pc = "opUpdate", ![r].leg = i]
          /\ UNCHANGED locks
  /\ UNCHANGED stored

(* The task was filed but its row never landed: rebuild it, then look again.  *)
OperatorInsert(r) ==
  /\ At(r, "opInsert")
  /\ conversions' = Append(conversions, "PENDING")
  /\ Goto(r, "opLegs")
  /\ UNCHANGED <<intent, txHash, books, settlements, tasks, events, world, budget>>

OperatorUpdate(r) ==
  /\ At(r, "opUpdate")
  /\ conversions' = [conversions EXCEPT ![req[r].leg] = LegOf(req[r].result)]
  /\ IF req[r].result = "short"
       THEN Transition(r, "RECONCILIATION_REQUIRED") ELSE Enter(r, "settle")
  /\ UNCHANGED <<intent, txHash, books, settlements, tasks, events, world, budget>>

(* Slip: a missing settlement row is not rebuilt.                             *)
OperatorSettleLegsMissing(r) ==
  /\ At(r, "opSettleLegs")
  /\ req' = [req EXCEPT ![r].pc = "opMark", ![r].ref = req[r].task]
  /\ UNCHANGED <<stored, locks>>

OperatorSettleLegs(r) ==
  /\ At(r, "opSettleLegs")
  /\ \/ settlements = <<>> /\ Goto(r, "opSettleInsert")
     \/ \E i \in DOMAIN settlements :
          /\ \/ settlements[i].status = "PENDING"
             \/ \A j \in DOMAIN settlements : settlements[j].status # "PENDING"
          /\ req' = [req EXCEPT ![r].pc = "opMark", ![r].ref = settlements[i].ref]
          /\ UNCHANGED locks
  /\ UNCHANGED stored

OperatorSettleInsert(r) ==
  /\ At(r, "opSettleInsert")
  /\ settlements' = Append(settlements, [status |-> "PENDING", ref |-> req[r].task])
  /\ Goto(r, "opSettleLegs")
  /\ UNCHANGED <<intent, txHash, books, conversions, tasks, events, world, budget>>

------------------------------------------------------------------------------
(* resolveReview(): the status, then the trail, then the transition.          *)

Review(r) ==
  /\ Free(r, "resolve") /\ status = "RECONCILIATION_REQUIRED" /\ reviews < MaxReviews
  /\ reviews' = reviews + 1
  /\ \E s \in Edges["RECONCILIATION_REQUIRED"] :
       req' = [req EXCEPT ![r].pc = "review", ![r].to = s]
  /\ UNCHANGED <<intent, txHash, books, rows, world, faults, locks>>

(* Slip: the reviewer's choice is not held against the trail.                 *)
ReviewTrailUnchecked(r) == At(r, "review") /\ Goto(r, "read") /\ UNCHANGED stored

ReviewTrail(r) ==
  /\ At(r, "review")
  /\ IF Funded <=> (req[r].to = "REFUND_REQUIRED")
       THEN Goto(r, "read") ELSE Return(r)
  /\ UNCHANGED stored

------------------------------------------------------------------------------
(* The world, failures and the specification.                                 *)

ChainConfirms ==
  /\ \E h \in (1..broadcasts) \ mined : mined' = mined \cup {h}
  /\ UNCHANGED <<intent, txHash, books, rows, broadcasts, order, budget, locks, req>>

ProviderSettles ==
  /\ order = "PENDING" /\ order' \in {"COMPLETED", "FAILED"}
  /\ UNCHANGED <<intent, txHash, books, rows, broadcasts, mined, budget, locks, req>>

(* An await rejects: the database or a provider.  The two provider calls that *)
(* are caught have their own branch.                                          *)
Reject(r) ==
  /\ req[r].pc \notin {"idle", "broadcast", "offRamp"}
  /\ faults < MaxFaults /\ faults' = faults + 1
  /\ Return(r)
  /\ UNCHANGED <<intent, txHash, books, rows, world, reviews>>

(* The process restarts: the requests and the in-memory mutex are gone.       *)
Crash ==
  /\ \E r \in Requests : ~ At(r, "idle")
  /\ faults < MaxFaults /\ faults' = faults + 1
  /\ req' = [r \in Requests |-> Idle] /\ locks' = None
  /\ UNCHANGED <<intent, txHash, books, rows, world, reviews>>

(* One await of a call in flight.                                             *)
Step(r) ==
  \/ TransitionRead(r) \/ TransitionCommit(r)
  \/ Broadcast(r) \/ RecordHash(r) \/ ResumeFunding(r) \/ WaitConfirmations(r)
  \/ ResumeConversion(r) \/ RunConversionLeg(r) \/ OffRampExecute(r) \/ InsertConversion(r)
  \/ ResumeSettlement(r) \/ BeginSettlement(r) \/ FindOpenLeg(r) \/ CreatePayment(r)
  \/ InsertSettlement(r) \/ Poll(r) \/ CompleteSettlement(r)
  \/ WebhookLeg(r) \/ WebhookIntent(r)
  \/ OperatorIntent(r) \/ MarkTask(r) \/ OperatorLegs(r) \/ OperatorInsert(r)
  \/ OperatorUpdate(r) \/ OperatorSettleLegs(r) \/ OperatorSettleInsert(r)
  \/ ReviewTrail(r)

Call(r) ==
  \/ Authorize(r) \/ Cancel(r) \/ Execute(r) \/ Refund(r)
  \/ Webhook(r) \/ Operator(r) \/ Review(r)

Next ==
  \/ \E r \in Requests : Step(r) \/ Call(r) \/ Reject(r)
  \/ ChainConfirms \/ ProviderSettles \/ Crash

Spec == Init /\ [][Next]_vars

(* A call in flight goes on; a provider settles its order one day; execute() *)
(* is called again, and the operator reports each task again, as long as that *)
(* is not refused.  A slot of Requests is only ever briefly taken, hence SF.  *)
Fairness ==
  /\ \A r \in Requests : WF_vars(Step(r)) /\ SF_vars(Execute(r))
  /\ \A t \in 1..(2 + MaxFaults) : SF_vars(\E r \in Requests : Report(r, t))
  /\ WF_vars(ProviderSettles)

FairSpec == Spec /\ Fairness

------------------------------------------------------------------------------
(* Properties.                                                                *)

(* Types of every variable: the rows, the world and the requests' locals.     *)
TypeOK ==
  /\ status \in States /\ attempts \in [States -> Nat] /\ txHash \in Nat
  /\ chainTx \subseteq Nat /\ ledger \in [Groups -> Nat]
  /\ conversions \in Seq(LegStatus)
  /\ settlements \in Seq([status : {"PENDING", "COMPLETED"}, ref : Nat])
  /\ tasks \in Seq([kind : {"CONVERSION", "FIAT_SETTLEMENT"}, result : Results])
  /\ events \subseteq Events
  /\ broadcasts \in Nat /\ mined \subseteq Nat /\ order \in OrderStatus
  /\ locks \in Requests \cup {None}
  /\ req \in [Requests -> Request]
  /\ faults \in Nat /\ reviews \in Nat

(* Whatever updates get lost between concurrent requests, the audit trail     *)
(* explains itself: every state it records has a legal predecessor in it, and *)
(* the current status is one it records (payment_attempts, store.ts).         *)
AuditPath ==
  /\ attempts[status] > 0
  /\ \A s \in States \ {"QUOTED"} : attempts[s] > 0 =>
       \E p \in States : attempts[p] > 0 /\ CanTransition(p, s)

(* A transfer is sent only on an attempt persisted before it, and each such   *)
(* attempt uses up an authorization of its own: a double tap, a retry or a    *)
(* restart alone never sends a second one (execute(), withPaymentLock).       *)
BroadcastsAuthorized ==
  /\ broadcasts <= attempts["CRYPTO_SUBMITTED"]
  /\ attempts["CRYPTO_SUBMITTED"] <= attempts["AUTHORIZED"]

(* The books agree with the trail: the funding entries and the chain record   *)
(* are committed with CRYPTO_CONFIRMED, once each time, and the settlement    *)
(* and refund entries never without their state, nor the state without them.  *)
BooksFollowTrail ==
  /\ ledger["funding"] = attempts["CRYPTO_CONFIRMED"]
  /\ (chainTx # {}) <=> (ledger["funding"] > 0)
  /\ (ledger["settlement"] > 0) <=> (attempts["COMPLETED"] > 0)
  /\ (ledger["refund"] > 0) <=> (attempts["REFUNDED"] > 0)

(* No interleaving of the customer, the operator, the webhook and a reviewer  *)
(* pays out, to the merchant or back to the customer, on a payment whose      *)
(* crypto was never booked as received.                                       *)
PaidOutOnlyIfFunded ==
  ledger["settlement"] > 0 \/ ledger["refund"] > 0 => ledger["funding"] > 0

(* The settlement tasks the operator reports as paid.                         *)
PaidTasks == {t \in DOMAIN tasks : tasks[t].kind = "FIAT_SETTLEMENT" /\ tasks[t].result = "full"}

(* The payment is never reported COMPLETED, by a poll, a webhook or the       *)
(* operator, unless the merchant was paid, as long as every event received    *)
(* was the provider's own (handleWebhook() takes any at its word).            *)
Vouched == events \subseteq Genuine

CompletedMeansPaid ==
  attempts["COMPLETED"] > 0 /\ Vouched => order = "COMPLETED" \/ PaidTasks # {}

(* Without a reviewer, the customer is never refunded for a merchant who was  *)
(* paid.                                                                      *)
NotPaidAndRefunded ==
  ledger["refund"] > 0 /\ reviews = 0 => order # "COMPLETED" /\ PaidTasks = {}

(* refund() is for "crypto left the wallet but the merchant will not be paid" *)
(* (service.ts:453): the ledger never pays both of them.                      *)
NeverPaidBothWays == ledger["settlement"] = 0 \/ ledger["refund"] = 0

(* Each group of entries is posted at most once (completeSettlement(): "ledger *)
(* rows are posted exactly once").                                            *)
PostedOnce == \A g \in Groups : ledger[g] <= 1

(* At most one transfer is sent unless a human reviewer has re-authorized the *)
(* payment: execute() resumes by polling the recorded hash.                   *)
RebroadcastOnlyByReview == broadcasts <= 1 + reviews

(* A payment that ended cheaply, without a reviewer, sent nothing.            *)
CheapEndsSentNothing ==
  status \in {"FAILED", "EXPIRED"} /\ reviews = 0 => broadcasts = 0

(* "retries must never double-file operator tasks" (runConversionLeg()): with *)
(* one call at a time a retry files a task once more only after a crash or a  *)
(* failed insert has separated the task before from its leg.                  *)
TasksOf(kind) == {t \in DOMAIN tasks : tasks[t].kind = kind}

RefiledOnlyAfterFaults ==
  \A kind \in {"CONVERSION", "FIAT_SETTLEMENT"} : Cardinality(TasksOf(kind)) <= 1 + faults

(* What the operator has once reported on a task stands, whatever is retried  *)
(* or lost: "conflicting reports on a done task are rejected"                 *)
(* (completeOperatorTask()).                                                  *)
ReportsStand ==
  [][\A t \in DOMAIN tasks : tasks[t].result # "none" => tasks'[t] = tasks[t]]_tasks

(* "a crash between ""task marked done"" and ""intent advanced"" heals on     *)
(* retry" (completeOperatorTask()): with an operator who repeats a report     *)
(* that did not get through, no manual leg waits for ever.                    *)
ReportsHeal ==
  \A s \in {"CONVERSION_PENDING", "FIAT_SETTLEMENT_PENDING"} : status = s ~> status # s

(* So it is as long as what is on record are reports a retry is recognised by. *)
OperatorHeals ==
  [](\A t \in DOMAIN tasks : tasks[t].result \in {"none"} \cup Kept) => ReportsHeal

(* As long as execute() is called again, neither a settlement nor a recorded  *)
(* broadcast waits for ever: resumeFunding() and resumeSettlement() end in    *)
(* progress, a refund or a review.                                            *)
ResumesHeal ==
  \A s \in {"CRYPTO_SUBMITTED", "FIAT_SETTLEMENT_PENDING"} : status = s ~> status # s

(* "There is no state in which the system has taken the user's crypto and     *)
(* simply stopped": neither right after the confirmation nor during an        *)
(* automatic conversion, as long as execute() is called again.                *)
NeverSimplyStopped ==
  \A s \in {"CRYPTO_CONFIRMED", "CONVERSION_PENDING"} : status = s ~> status # s

(* The payment as its customer sees it.                                       *)
Lifecycle == INSTANCE PaymentLifecycle WITH funded <- Funded

(* Every step of the engine is a step of the lifecycle or changes nothing in  *)
(* it: edges only, no way back over the point of no return, reviews gated.    *)
ImplementsLifecycle == Lifecycle!Spec
==============================================================================
