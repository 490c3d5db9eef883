-------------------------- MODULE PaymentEngineInv ---------------------------
(* The inductive invariant behind the safety properties of PaymentEngine that *)
(* hold whatever the operations do to each other: what the rows say of each   *)
(* other, and what each request in flight may rely on.                        *)
EXTENDS PaymentEngine

Moving(r, s) == req[r].pc \in {"read", "commit"} /\ req[r].to = s

(* A request inside a transition, or about to enter one, has a target.        *)
Targeted == \A r \in Requests :
  req[r].pc \in {"read", "commit", "review"} => req[r].to \in States

------------------------------------------------------------------------------
(* What a request in flight may rely on.                                      *)

(* What execute() does before it shares code with the operator.               *)
Exclusive == {"resumeFunding", "broadcast", "record", "confirm", "resumeConversion",
              "conversion", "offRamp", "insertConversion", "resumeSettlement"}

(* The mutex covers that part of execute(), so at most one request is there.  *)
LockHeld(r) ==
  \/ req[r].pc \in Exclusive
  \/ Moving(r, "CRYPTO_SUBMITTED")
  \/ Moving(r, "CRYPTO_CONFIRMED")
  \/ Moving(r, "CONVERSION_PENDING")
  => locks = r

(* Before its confirmation the funding leg never finds the intent confirmed,  *)
(* nor submitted before its submission: its two transitions are no replays.   *)
FundingOnce(r) ==
  /\ \/ req[r].pc \in {"resumeFunding", "broadcast", "record", "confirm"}
     \/ Moving(r, "CRYPTO_SUBMITTED")
     \/ Moving(r, "CRYPTO_CONFIRMED")
     => status # "CRYPTO_CONFIRMED"
  /\ Moving(r, "CRYPTO_SUBMITTED") => status # "CRYPTO_SUBMITTED"
  /\ At(r, "commit") /\ req[r].to \in {"CRYPTO_SUBMITTED", "CRYPTO_CONFIRMED"}
       => ~ req[r].replay

(* A commit either replays a state of the trail or follows an edge from one.  *)
CommitJustified(r) ==
  At(r, "commit") =>
    \/ req[r].replay /\ attempts[req[r].to] > 0
    \/ ~ req[r].replay /\ \E p \in States : attempts[p] > 0 /\ CanTransition(p, req[r].to)

(* A submission about to be committed has an authorization left for it, and a *)
(* broadcast about to be sent has a submission left for it.                   *)
SpendCovered(r) ==
  /\ At(r, "broadcast") => broadcasts < attempts["CRYPTO_SUBMITTED"]
  /\ At(r, "commit") /\ req[r].to = "CRYPTO_SUBMITTED"
       => attempts["CRYPTO_SUBMITTED"] < attempts["AUTHORIZED"]

(* The code behind the confirmation, and the targets it moves to.             *)
Downstream == {"resumeConversion", "conversion", "offRamp", "insertConversion",
               "resumeSettlement", "settle", "settleLeg", "createPayment",
               "insertSettlement", "poll", "complete", "opMark", "opLegs", "opInsert",
               "opUpdate", "opSettleLegs", "opSettleInsert"}
AfterFunding == {"CONVERSION_PENDING", "FIAT_SETTLEMENT_PENDING", "COMPLETED",
                 "REFUND_REQUIRED", "REFUNDED"}

(* No request is in there without a confirmation.                             *)
KnownFunded(r) ==
  \/ req[r].pc \in Downstream
  \/ req[r].pc \in {"read", "commit"} /\ req[r].to \in AfterFunding
  => attempts["CRYPTO_CONFIRMED"] > 0

(* A reviewer's request goes where a review may go.                           *)
ReviewTarget(r) == At(r, "review") => CanTransition("RECONCILIATION_REQUIRED", req[r].to)

Relies(r) ==
  /\ LockHeld(r) /\ FundingOnce(r) /\ CommitJustified(r) /\ SpendCovered(r)
  /\ KnownFunded(r) /\ ReviewTarget(r)

------------------------------------------------------------------------------
(* What the rows say of each other.                                           *)

(* Besides the properties themselves: the authorization of the current state  *)
(* is not spent yet, and the trail is never past a confirmation it lacks.     *)
AuthorizationUnspent ==
  status = "AUTHORIZED" => attempts["CRYPTO_SUBMITTED"] < attempts["AUTHORIZED"]

FundedFirst ==
  \A s \in AfterFunding : attempts[s] > 0 => attempts["CRYPTO_CONFIRMED"] > 0

Rows ==
  AuditPath /\ BroadcastsAuthorized /\ BooksFollowTrail /\ AuthorizationUnspent /\ FundedFirst

(* The conjunction is inductive; each property of Rows, and                   *)
(* PaidOutOnlyIfFunded, follows from it.                                      *)
IInv == TypeOK /\ Targeted /\ Rows /\ \A r \in Requests : Relies(r)

------------------------------------------------------------------------------
(* The legs behind the intent, in every interleaving: rows are only ever      *)
(* added, so what a request has once seen of them stays.                      *)

OperatorPrograms == {"opIntent", "opMark", "opLegs", "opInsert", "opUpdate",
                     "opSettleLegs", "opSettleInsert"}

ReportsOn(r, kind) == At(r, "opMark") /\ tasks[req[r].task].kind = kind

(* An operator's report is of a task on record.                               *)
TaskKnown(r) == req[r].pc \in OperatorPrograms => req[r].task \in DOMAIN tasks

(* Nothing is settled before there is a conversion row, nor completed before  *)
(* there is a settlement row.                                                 *)
SettlesConverted(r) ==
  \/ req[r].pc \in {"settle", "settleLeg", "createPayment", "insertSettlement", "poll",
                    "complete", "opUpdate", "opSettleLegs", "opSettleInsert"}
  \/ Moving(r, "FIAT_SETTLEMENT_PENDING") \/ Moving(r, "COMPLETED")
  \/ ReportsOn(r, "FIAT_SETTLEMENT")
  => conversions # <<>>

CompletesSettled(r) ==
  \/ req[r].pc \in {"poll", "complete", "webhookIntent"}
  \/ Moving(r, "COMPLETED")
  \/ ReportsOn(r, "FIAT_SETTLEMENT") /\ req[r].result # "failed"
  => settlements # <<>>

(* While every event is the provider's own, a webhook is of a paid order, and *)
(* with an automatic provider a completion is too; a refund no reviewer has   *)
(* asked for is of a failed one.                                              *)
KnowsOrder(r) ==
  /\ Vouched /\ req[r].pc \in {"webhookLeg", "webhookIntent"} => order = "COMPLETED"
  /\ Vouched /\ Payment = "auto" /\ (At(r, "complete") \/ Moving(r, "COMPLETED")) =>
       order = "COMPLETED"
  /\ Payment = "auto" /\ OffRamp = "auto" /\ reviews = 0
       /\ (Moving(r, "REFUND_REQUIRED") \/ Moving(r, "REFUNDED")) => order = "FAILED"
  /\ At(r, "review") => reviews > 0

LegsOfTrail ==
  /\ attempts["FIAT_SETTLEMENT_PENDING"] > 0 => conversions # <<>>
  /\ attempts["COMPLETED"] > 0 => conversions # <<>> /\ settlements # <<>>
  /\ Vouched /\ Payment = "auto" /\ attempts["COMPLETED"] > 0 => order = "COMPLETED"
  /\ Payment = "auto" /\ OffRamp = "auto" /\ reviews = 0
       /\ (attempts["REFUND_REQUIRED"] > 0 \/ attempts["REFUNDED"] > 0) => order = "FAILED"

(* An automatic provider files no task.                                       *)
TasksOfManual ==
  \A t \in DOMAIN tasks :
    /\ Payment = "auto" => tasks[t].kind = "CONVERSION"
    /\ OffRamp = "auto" => tasks[t].kind = "FIAT_SETTLEMENT"

LegsInv ==
  /\ LegsOfTrail /\ TasksOfManual
  /\ \A r \in Requests :
       TaskKnown(r) /\ SettlesConverted(r) /\ CompletesSettled(r) /\ KnowsOrder(r)

(* Both together are inductive in every interleaving.                         *)
EngineInv == IInv /\ LegsInv

------------------------------------------------------------------------------
(* One call at a time: nothing moves the payment under a call, so each of its *)
(* transitions is the lifecycle's.                                            *)

OneCall == \A q, r \in Requests : q = r

(* The status a request has seen is still the payment's.                      *)
SeesStatus(r) ==
  /\ req[r].pc \in {"resumeFunding", "broadcast", "record", "confirm"} =>
       status = "CRYPTO_SUBMITTED"
  /\ req[r].pc \in {"resumeConversion", "conversion", "offRamp", "insertConversion",
                    "opLegs", "opInsert", "opUpdate"} => status = "CONVERSION_PENDING"
  /\ req[r].pc \in {"resumeSettlement", "settleLeg", "createPayment", "insertSettlement",
                    "poll", "complete", "opSettleLegs", "opSettleInsert"} =>
       status = "FIAT_SETTLEMENT_PENDING"
  /\ At(r, "settle") => status \in {"CONVERSION_PENDING", "FIAT_SETTLEMENT_PENDING"}
  /\ ReportsOn(r, "CONVERSION") => status = "CONVERSION_PENDING"
  /\ ReportsOn(r, "FIAT_SETTLEMENT") => status = "FIAT_SETTLEMENT_PENDING"
  /\ At(r, "review") => status = "RECONCILIATION_REQUIRED"

(* Its transition follows an edge and is no replay; out of a review it goes   *)
(* where the trail allows.                                                    *)
Lawful(r) ==
  /\ req[r].pc \in {"read", "commit"} =>
       /\ CanTransition(status, req[r].to)
       /\ status = "RECONCILIATION_REQUIRED" =>
            reviews > 0 /\ (Funded <=> req[r].to = "REFUND_REQUIRED")
  /\ At(r, "commit") => ~ req[r].replay

(* A further authorization is paid for with a review.                         *)
Reviewed(r) ==
  At(r, "review") \/ Moving(r, "AUTHORIZED") => attempts["AUTHORIZED"] <= reviews

(* The report agrees with what has been reported on its task.                 *)
Agrees(r) ==
  req[r].pc \in {"opIntent", "opMark", "opSettleLegs", "opSettleInsert"} =>
    tasks[req[r].task].result \in {"none", req[r].result}

OneTrail ==
  /\ Funded => status \in PastFunding \cup {"RECONCILIATION_REQUIRED"}
  /\ status \in {"CREATED", "QUOTED"} => attempts["AUTHORIZED"] = 0
  /\ attempts["AUTHORIZED"] <= 1 + reviews
  /\ status \in {"CREATED", "QUOTED", "AUTHORIZED", "FAILED", "EXPIRED"} /\ reviews = 0 =>
       attempts["CRYPTO_SUBMITTED"] = 0
  /\ \A s \in {"COMPLETED", "REFUNDED"} : attempts[s] > 0 => status = s

OneCallInv ==
  /\ OneTrail /\ PostedOnce
  /\ \A r \in Requests : SeesStatus(r) /\ Lawful(r) /\ Reviewed(r) /\ Agrees(r)

(* With a manual provider a settlement's reference is a task of its own kind, *)
(* such a task is never reported short, and what completes was reported paid. *)
SettlesTasks(r) ==
  /\ Payment = "manual" /\ req[r].pc \in {"insertSettlement", "poll"} =>
       req[r].ref \in TasksOf("FIAT_SETTLEMENT")
  /\ req[r].pc \in {"opSettleLegs", "opSettleInsert"} => req[r].task \in TasksOf("FIAT_SETTLEMENT")
  /\ req[r].pc \in OperatorPrograms =>
       /\ req[r].result # "none"
       /\ req[r].result = "short" => req[r].task \in TasksOf("CONVERSION")
  /\ Vouched /\ Payment = "manual" /\ (At(r, "complete") \/ Moving(r, "COMPLETED")) =>
       PaidTasks # {}

TasksInv ==
  /\ Payment = "manual" => order = "none"
  /\ \A t \in TasksOf("FIAT_SETTLEMENT") : tasks[t].result # "short"
  /\ Payment = "manual" =>
       \A i \in DOMAIN settlements : settlements[i].ref \in TasksOf("FIAT_SETTLEMENT")
  /\ Vouched /\ Payment = "manual" /\ attempts["COMPLETED"] > 0 => PaidTasks # {}
  /\ \A r \in Requests : SettlesTasks(r)

(* What separates a task from its row is a fault: until then the next task of *)
(* a kind is filed by the call that inserts its row or gives the leg up.      *)
Filing(r, kind) ==
  IF kind = "CONVERSION"
    THEN At(r, "insertConversion") \/ Moving(r, "RECONCILIATION_REQUIRED")
    ELSE At(r, "insertSettlement")

Unfiled(kind) ==
  /\ IF kind = "CONVERSION"
       THEN status \in {"CRYPTO_CONFIRMED", "CONVERSION_PENDING"} /\ conversions = <<>>
       ELSE status = "FIAT_SETTLEMENT_PENDING" /\ settlements = <<>>
  /\ \A r \in Requests : ~ Filing(r, kind)

FiledInv ==
  /\ RefiledOnlyAfterFaults
  /\ \A kind \in {"CONVERSION", "FIAT_SETTLEMENT"} :
       /\ ~ Funded => TasksOf(kind) = {}
       /\ Unfiled(kind) => Cardinality(TasksOf(kind)) <= faults
  /\ status \in {"CRYPTO_CONFIRMED", "CONVERSION_PENDING"} => TasksOf("FIAT_SETTLEMENT") = {}
  /\ attempts["COMPLETED"] = 0 => \A i \in DOMAIN settlements : settlements[i].status = "PENDING"
  /\ \A r \in Requests : /\ At(r, "offRamp") => conversions = <<>>
                         /\ At(r, "createPayment") => settlements = <<>>

(* With one call at a time everything together is inductive.                  *)
OneInv == EngineInv /\ OneCallInv /\ TasksInv
==============================================================================
