----------------------------- MODULE PaymentBooks ------------------------------
(* The money of one payment from its broadcast on: what its quote holds, what *)
(* the conversion brings, and the ledger entries of src/engine/service.ts,    *)
(* posted by src/engine/ledger.ts.  Calls of execute(), reports, webhooks,    *)
(* reviews and refunds overlap; every action is what one of them does between *)
(* two awaits at which an amount, a row or the status is read or written, and *)
(* a transition is two of them, as in src/engine/store.ts.  What touches no   *)
(* amount is left to PaymentEngine: the funding with its calls, and which     *)
(* settlement leg is found (there may be one whenever settlement has begun).  *)
EXTENDS QuoteMath, PaymentStates, Sequences

CONSTANTS
  Requests,
  Fiats,        \* the fiat amounts quoted
  Refs,         \* the reference rates, at the quote and at the conversion
  Reports,      \* the fiat amounts operators report
  Costs,        \* the refund costs operators report
  FeeIdr,       \* engineConfig.feeIdr
  DefaultCost,  \* refund()'s cost if none is given
  MaxTasks      \* bound: conversion tasks filed

ASSUME BooksAssumption ==
  /\ Fiats \subseteq Nat \ {0} /\ Refs \subseteq Nat \ {0} /\ Reports \subseteq Nat
  /\ \A ref \in Refs : QuotedRate(ref) > 0
  /\ FeeIdr \in Nat /\ DefaultCost \in Nat /\ Costs \subseteq Nat /\ MaxTasks \in Nat

VARIABLES
  offRamp,      \* the off-ramp wired at the start
  quote,        \* its row: [fiat, rate, held]
  status,       \* of the intent
  convs,        \* conversions
  tasks,        \* the conversion tasks' results
  call,         \* what each request is about to do, with what it has read
  usdc, idr,    \* ledger_entries: debit less credit of each account
  refused,      \* for the properties: the moves whose postings have thrown
  posted,       \* for the properties: the transactions that have posted
  refilled,     \* for the properties: a row was filled over with other amounts
  lost          \* for the properties: a transition overwrote a status it may not follow

vars == <<offRamp, quote, status, convs, tasks, call, usdc, idr, refused, posted, refilled, lost>>
rows  == <<convs, tasks, refilled>>
books == <<usdc, idr, refused, posted, lost>>

Accounts == {"user:crypto", "provider:conversion", "merchant:fiat", "fees", "spread"}
Empty    == [a \in Accounts |-> 0]
Net(b)   == b["user:crypto"] + b["provider:conversion"] + b["merchant:fiat"]
              + b["fees"] + b["spread"]

Quote  == [fiat : Nat, rate : Nat, held : Nat]
Result == [status : {"PENDING", "FAILED", "COMPLETED"}, fiat : Nat, rate : Nat]
Row    == [status : {"PENDING", "PARTIAL", "COMPLETED"}, fiat : Nat, rate : Nat]
Open   == [status |-> "PENDING", fiat |-> 0, rate |-> 0]

(* A call: its next step, an amount and a rate it has, the task or row it     *)
(* works on, the transition it is in with the status that was read, and if it *)
(* holds the mutex.                                                           *)
Idle == [at |-> "-", amount |-> 0, rate |-> 0, on |-> 0, to |-> "-", seen |-> "-", locked |-> FALSE]

Init ==
  /\ offRamp \in {"mock", "faulty", "manual"}
  /\ \E fiat \in Fiats, ref \in Refs :
       quote = [fiat |-> fiat, rate |-> QuotedRate(ref), held |-> Total(fiat, QuotedRate(ref))]
  /\ status = "CRYPTO_SUBMITTED"
  /\ convs = <<>> /\ tasks = <<>> /\ call = [r \in Requests |-> Idle]
  /\ usdc = Empty /\ idr = Empty /\ refused = {} /\ posted = [COMPLETED |-> 0, REFUNDED |-> 0]
  /\ refilled = FALSE /\ lost = FALSE

At(r, step)    == call[r].at = step
Goes(r, step)  == call' = [call EXCEPT ![r].at = step]
Locks(r, step) == call' = [call EXCEPT ![r].at = step, ![r].locked = TRUE]
Returns(r)     == call' = [call EXCEPT ![r] = Idle]

(* It goes on with an amount and nothing else that it has read.               *)
Takes(r, step, amount) ==
  call' = [call EXCEPT ![r] = [Idle EXCEPT !.at = step, !.amount = amount, !.locked = call[r].locked]]

(* A step that writes nothing.                                                *)
Looks == UNCHANGED <<offRamp, quote, status, rows, books>>

------------------------------------------------------------------------------
(* The ledger.                                                                *)

Plus(b, p) == [a \in Accounts |-> b[a] + p[a]]

(* postEntries(): no leg is negative and each currency nets to zero.          *)
Postable(legs, entries) == (\A amount \in legs : amount >= 0) /\ Net(entries) = 0

Size(n) == IF n < 0 THEN - n ELSE n

Funding == [Empty EXCEPT !["provider:conversion"] = quote.held, !["user:crypto"] = - quote.held]

(* Slip: the fee has no counterpart.                                          *)
SettlementFeeApart(drift) ==
  [Empty EXCEPT !["merchant:fiat"] = quote.fiat,
                !["provider:conversion"] = - quote.fiat + drift,
                !["fees"] = - FeeIdr, !["spread"] = - drift]

(* completeSettlement()'s legs: the merchant, the fee and the drift, which is *)
(* what the conversion brought less what was promised.                        *)
Settlement(drift) ==
  [Empty EXCEPT !["merchant:fiat"] = quote.fiat,
                !["provider:conversion"] = - quote.fiat + FeeIdr + drift,
                !["fees"] = - FeeIdr, !["spread"] = - drift]

(* Slip: the cost stays with the provider as well.                            *)
RepaymentCostKept(cost) ==
  [Empty EXCEPT !["user:crypto"] = quote.held - cost,
                !["provider:conversion"] = cost - quote.held]

(* refund()'s legs: all that was held, less the cost.                         *)
Repayment(cost) ==
  [Empty EXCEPT !["user:crypto"] = quote.held - cost, !["fees"] = cost,
                !["provider:conversion"] = - quote.held]

------------------------------------------------------------------------------
(* Transitions.                                                               *)

(* transitionWith() reads the status: the one asked for is a replay, and a    *)
(* move the table does not have throws.                                       *)
Reads(r, to) ==
  IF status = to \/ to \in Edges[status]
    THEN call' = [call EXCEPT ![r].at = "commit", ![r].to = to, ![r].seen = status]
    ELSE Returns(r)

Posts(to) == posted' = IF to \in DOMAIN posted THEN [posted EXCEPT ![to] = @ + 1] ELSE posted

(* Its transaction commits: the update goes by the id, whatever the status is *)
(* by now, and a replay leaves it; what was posted before is posted.  Two     *)
(* settlements may be of two legs, so neither waits for the other's.          *)
Commit(r) ==
  LET c == call[r] IN
  /\ At(r, "commit")
  /\ status' = IF c.seen = c.to THEN status ELSE c.to
  /\ usdc' = IF c.to = "REFUNDED" THEN Plus(usdc, Repayment(c.amount)) ELSE usdc
  /\ idr' = IF c.to = "COMPLETED" THEN Plus(idr, Settlement(c.amount - quote.fiat)) ELSE idr
  /\ Posts(c.to)
  /\ lost' = (lost \/ (status' \notin Edges[status] \cup {status}))
  /\ IF c.to = "FIAT_SETTLEMENT_PENDING" THEN Takes(r, "poll", c.amount) ELSE Returns(r)
  /\ UNCHANGED <<offRamp, quote, rows, refused>>

(* Nobody but the execute() that funds the payment has anything to do before  *)
(* its conversion is pending: its two transitions are a step each.            *)
Fund ==
  /\ status = "CRYPTO_SUBMITTED" /\ status' = "CRYPTO_CONFIRMED"
  /\ Postable({quote.held}, Funding) /\ usdc' = Plus(usdc, Funding)
  /\ UNCHANGED <<offRamp, quote, rows, call, idr, refused, posted, lost>>

StartConversion ==
  /\ status = "CRYPTO_CONFIRMED" /\ status' = "CONVERSION_PENDING"
  /\ UNCHANGED <<offRamp, quote, rows, call, books>>

(* completeSettlement() looks at the status before it posts.                  *)
LookBeforeSettling(r) ==
  /\ At(r, "look") /\ Looks
  /\ IF status = "COMPLETED" THEN Returns(r) ELSE Goes(r, "complete")

(* Postings that throw end the call.                                          *)
PostsOrThrows(r, legs, entries, to) ==
  IF Postable(legs, entries) THEN Reads(r, to) /\ UNCHANGED refused
                             ELSE Returns(r) /\ refused' = refused \cup {to}

CompleteSettlement(r) ==
  LET drift == call[r].amount - quote.fiat IN
  /\ At(r, "complete")
  /\ PostsOrThrows(r, {quote.fiat, FeeIdr, Size(drift)}, Settlement(drift), "COMPLETED")
  /\ UNCHANGED <<offRamp, quote, status, rows, usdc, idr, posted, lost>>

(* refund() does the same, with the cost it is asked to keep.                 *)
AskRefund(r) ==
  /\ At(r, "-") /\ status = "REFUND_REQUIRED" /\ Looks
  /\ \E cost \in Costs \cup {DefaultCost} : Takes(r, "refund", cost)

Refund(r) ==
  LET cost == call[r].amount IN
  /\ At(r, "refund")
  /\ PostsOrThrows(r, {quote.held - cost, cost, quote.held}, Repayment(cost), "REFUNDED")
  /\ UNCHANGED <<offRamp, quote, status, rows, usdc, idr, posted, lost>>

(* An await of a call rejects, or the process that serves it is gone.         *)
Fail(r) == ~ At(r, "-") /\ Returns(r) /\ Looks

------------------------------------------------------------------------------
(* execute() and its resumes.                                                 *)

(* withPaymentLock(): one execute() at a time reads the status.               *)
Execute(r) ==
  /\ At(r, "-") /\ \A q \in Requests : ~ call[q].locked
  /\ \/ status = "CONVERSION_PENDING" /\ Locks(r, "find")
     \/ status = "FIAT_SETTLEMENT_PENDING" /\ Locks(r, "resume")
  /\ Looks

Done(i) == convs[i].status = "COMPLETED"

(* runConversionLeg() finds the rows: settle with what is done, leave what is *)
(* an operator's, or ask the off-ramp.                                        *)
FindConversion(r) ==
  /\ At(r, "find") /\ Looks
  /\ \/ convs = <<>> /\ Goes(r, "convert")
     \/ \E i \in DOMAIN convs : Done(i) /\ Takes(r, "settle", convs[i].fiat)
     \/ convs # <<>> /\ (\A i \in DOMAIN convs : ~ Done(i)) /\ Returns(r)

(* resumeSettlement() does too.                                               *)
ResumeSettlement(r) ==
  /\ At(r, "resume") /\ Looks
  /\ \/ \E i \in DOMAIN convs : Done(i) /\ Takes(r, "settle", convs[i].fiat)
     \/ (\A i \in DOMAIN convs : ~ Done(i)) /\ Goes(r, "review")

(* The mock sells at the rate of the day, the faulty one is short by one.     *)
Brings(rate) ==
  IF offRamp = "mock" THEN Proceeds(quote.held, rate) ELSE quote.fiat - 1

(* Slip: a short conversion is done.                                          *)
FillShort(fiat, rate) == [status |-> "COMPLETED", fiat |-> fiat, rate |-> rate]

Fill(fiat, rate) ==
  [status |-> IF fiat < quote.fiat THEN "PARTIAL" ELSE "COMPLETED", fiat |-> fiat, rate |-> rate]

(* Slip: a short conversion is settled like any other.                        *)
SettlesShort(r, fiat) == Takes(r, "settle", fiat)

(* A short conversion is reviewed, any other settled.                         *)
Settles(r, fiat) ==
  IF fiat < quote.fiat THEN Takes(r, "review", 0) ELSE Takes(r, "settle", fiat)

Convert(r) ==
  /\ At(r, "convert") /\ offRamp # "manual"
  /\ \E rate \in Refs : convs' = Append(convs, Fill(Brings(rate), rate)) /\ Settles(r, Brings(rate))
  /\ UNCHANGED <<offRamp, quote, status, tasks, refilled, books>>

(* The manual off-ramp files a task, then its leg is opened.                  *)
FileTask(r) ==
  /\ At(r, "convert") /\ offRamp = "manual" /\ Len(tasks) < MaxTasks
  /\ tasks' = Append(tasks, Open) /\ Goes(r, "open")
  /\ UNCHANGED <<offRamp, quote, status, convs, refilled, books>>

OpenConversion(r) ==
  /\ At(r, "open") /\ convs' = Append(convs, Open) /\ Returns(r)
  /\ UNCHANGED <<offRamp, quote, status, tasks, refilled, books>>

(* An off-ramp that fails, a short conversion or a poll that times out.       *)
Review(r) ==
  /\ At(r, "convert") \/ At(r, "review") \/ At(r, "poll")
  /\ Reads(r, "RECONCILIATION_REQUIRED") /\ Looks

(* beginSettlement() starts or takes up the settlement.                       *)
BeginSettlement(r) ==
  /\ At(r, "settle") /\ Looks
  /\ \/ status = "CONVERSION_PENDING" /\ Reads(r, "FIAT_SETTLEMENT_PENDING")
     \/ status = "FIAT_SETTLEMENT_PENDING" /\ Goes(r, "poll")
     \/ status \notin {"CONVERSION_PENDING", "FIAT_SETTLEMENT_PENDING"} /\ Returns(r)

(* getPayment() says COMPLETED or FAILED; while it says neither the call just *)
(* ends (Fail).                                                               *)
PollCompleted(r) == At(r, "poll") /\ Goes(r, "look") /\ Looks
PollFailed(r)    == At(r, "poll") /\ Reads(r, "REFUND_REQUIRED") /\ Looks

------------------------------------------------------------------------------
(* The webhook and the operator.                                              *)

(* Slip: what was promised is booked as brought.                              *)
SomePromise == {quote.fiat}

(* The fiat of any one row, in no order; a leg not yet filled has none and    *)
(* counts for what was promised.                                              *)
SomeFiat == {IF convs[i].status = "PENDING" THEN quote.fiat ELSE convs[i].fiat : i \in DOMAIN convs}

(* A settlement's webhook or an operator's word reads the status, ...         *)
ReportSettled(r) ==
  /\ At(r, "-") /\ status = "FIAT_SETTLEMENT_PENDING" /\ Looks
  /\ Goes(r, "webhook") \/ Goes(r, "paid")

(* ... then the rows; without one the webhook is dropped, and the operator's  *)
(* word counts for what was promised.                                         *)
ReadConversion(r) ==
  /\ Looks
  /\ \/ (At(r, "webhook") \/ At(r, "paid")) /\ \E fiat \in SomeFiat : Takes(r, "look", fiat)
     \/ At(r, "webhook") /\ convs = <<>> /\ Returns(r)
     \/ At(r, "paid") /\ convs = <<>> /\ Takes(r, "look", quote.fiat)

Failed == [Open EXCEPT !.status = "FAILED"]

(* The report of a failed leg; of a conversion its task is marked first.      *)
ReportFailed(r) ==
  /\ At(r, "-") /\ Looks
  /\ \/ status = "FIAT_SETTLEMENT_PENDING" /\ Goes(r, "fail")
     \/ /\ status = "CONVERSION_PENDING"
        /\ \E i \in DOMAIN tasks :
             /\ tasks[i] \in {Open, Failed}
             /\ call' = [call EXCEPT ![r].at = "markFailed", ![r].on = i]

MarkFailed(r) ==
  /\ At(r, "markFailed") /\ tasks' = [tasks EXCEPT ![call[r].on] = Failed] /\ Takes(r, "fail", 0)
  /\ UNCHANGED <<offRamp, quote, status, convs, refilled, books>>

(* resolveReview() of a funded payment.                                       *)
ResolveRefund(r) ==
  At(r, "-") /\ status = "RECONCILIATION_REQUIRED" /\ Goes(r, "fail") /\ Looks

RequireRefund(r) == At(r, "fail") /\ Reads(r, "REFUND_REQUIRED") /\ Looks

(* completeOperatorTask() on a conversion task: a result once given is only   *)
(* accepted again.                                                            *)
TakeReport(r) ==
  /\ At(r, "-") /\ status = "CONVERSION_PENDING" /\ Looks
  /\ \E i \in DOMAIN tasks, fiat \in Reports, rate \in Refs :
       /\ tasks[i] \in {Open, [status |-> "COMPLETED", fiat |-> fiat, rate |-> rate]}
       /\ call' = [call EXCEPT ![r].at = "mark", ![r].amount = fiat, ![r].rate = rate, ![r].on = i]

MarkTask(r) ==
  LET result == [status |-> "COMPLETED", fiat |-> call[r].amount, rate |-> call[r].rate] IN
  /\ At(r, "mark") /\ tasks' = [tasks EXCEPT ![call[r].on] = result]
  /\ call' = [call EXCEPT ![r].at = "row", ![r].on = 0]
  /\ UNCHANGED <<offRamp, quote, status, convs, refilled, books>>

(* The rows a report may fill: an open one goes before the others.            *)
Fillable ==
  LET open == {i \in DOMAIN convs : convs[i].status = "PENDING"}
  IN  IF open # {} THEN open ELSE DOMAIN convs

(* It selects the row to fill; if there is none it will insert one.           *)
FindRow(r) ==
  /\ At(r, "row") /\ Looks
  /\ \/ convs = <<>> /\ Goes(r, "insert")
     \/ \E i \in Fillable : call' = [call EXCEPT ![r].at = "fill", ![r].on = i]

InsertRow(r) ==
  /\ At(r, "insert") /\ convs' = Append(convs, Open) /\ Goes(r, "row")
  /\ UNCHANGED <<offRamp, quote, status, tasks, refilled, books>>

(* The update goes by the row's id, whatever has filled it since.             *)
FillRow(r) ==
  LET row    == call[r].on
      filled == Fill(call[r].amount, call[r].rate)
  IN
  /\ At(r, "fill") /\ convs' = [convs EXCEPT ![row] = filled]
  /\ refilled' = (refilled \/ convs[row] \notin {Open, filled})
  /\ Settles(r, call[r].amount)
  /\ UNCHANGED <<offRamp, quote, status, tasks, books>>

Next ==
  \/ Fund \/ StartConversion
  \/ \E r \in Requests :
       \/ Commit(r) \/ LookBeforeSettling(r) \/ CompleteSettlement(r) \/ AskRefund(r) \/ Refund(r)
       \/ Fail(r) \/ Execute(r) \/ FindConversion(r) \/ ResumeSettlement(r) \/ Convert(r)
       \/ FileTask(r) \/ OpenConversion(r) \/ Review(r) \/ BeginSettlement(r)
       \/ PollCompleted(r) \/ PollFailed(r) \/ ReportSettled(r) \/ ReadConversion(r)
       \/ ReportFailed(r) \/ MarkFailed(r) \/ ResolveRefund(r) \/ RequireRefund(r)
       \/ TakeReport(r) \/ MarkTask(r) \/ FindRow(r) \/ InsertRow(r) \/ FillRow(r)

Spec == Init /\ [][Next]_vars

------------------------------------------------------------------------------
(* Properties.                                                                *)

Steps == {"-", "commit", "look", "complete", "refund", "find", "resume", "convert", "open",
          "review", "settle", "poll", "webhook", "paid", "fail", "markFailed",
          "mark", "row", "insert", "fill"}
Call  == [at : Steps, amount : Nat, rate : Nat, on : Nat, to : States \cup {"-"},
          seen : States \cup {"-"}, locked : BOOLEAN]

(* Types: rows, results and ledger entries are amounts.                       *)
TypeOK ==
  /\ offRamp \in {"mock", "faulty", "manual"} /\ quote \in Quote /\ status \in States
  /\ convs \in Seq(Row) /\ tasks \in Seq(Result) /\ call \in [Requests -> Call]
  /\ usdc \in [Accounts -> Int] /\ idr \in [Accounts -> Int] /\ refused \subseteq States
  /\ posted \in [{"COMPLETED", "REFUNDED"} -> Nat]
  /\ refilled \in BOOLEAN /\ lost \in BOOLEAN

(* "Every payment balances to zero per currency" (ledger.ts:1-2), and says    *)
(* where the money is, however often settlement and refund get posted by      *)
(* calls that overlap: what the customer sold is the provider's until a       *)
(* refund leaves him out of pocket by its cost and no more, the merchant has  *)
(* the promised fiat once for each settlement, and a payment that reads       *)
(* COMPLETED or REFUNDED has been posted as such.  Until a transition has     *)
(* overwritten a status that it may not follow (store.ts:36-65), the status   *)
(* also tells all: nobody is paid both ways, nor is one paid and the other    *)
(* on record.                                                                 *)
Balanced == Net(usdc) = 0 /\ Net(idr) = 0
Sold     == IF status = "CRYPTO_SUBMITTED" THEN 0 ELSE quote.held
Returned == posted["REFUNDED"] * quote.held

MoneyAccounted ==
  /\ Balanced
  /\ idr["merchant:fiat"] = posted["COMPLETED"] * quote.fiat
  /\ usdc["provider:conversion"] = Sold - Returned
  /\ usdc["fees"] \in 0 .. Returned
  /\ \A end \in DOMAIN posted : /\ status = end => posted[end] > 0
                                /\ posted[end] > 0 /\ ~ lost => status = end

(* postEntries() throws in nobody's way: a settlement can always be booked,   *)
(* and a refund is refused only when the cost an operator names is more than  *)
(* was held.                                                                  *)
OnlyOverchargeRefused ==
  /\ refused \subseteq {"REFUNDED"}
  /\ refused # {} => \E cost \in Costs : cost > quote.held

(* There is another conversion than the one that was found sufficient: a      *)
(* second row, or other amounts reported over those of the first.             *)
ConvertedTwice == Len(convs) > 1 \/ refilled

(* No loss is booked: a conversion that brought too little goes to a human    *)
(* first.  Only with a second row, after a task filed or a row inserted       *)
(* twice, or with a second report that overlapped the first, can a webhook,   *)
(* report or poll settle by another amount than the one found sufficient.     *)
LossTakesTwoConversions == idr["spread"] > 0 => ConvertedTwice

(* scripts/report.ts: the executed rate less the quoted one, of all micros    *)
(* sold, with the fee's worth at the quoted rate, is what the founder is left *)
(* with, to a rupiah for each rounding.                                       *)
ReportedSpread(row) == quote.held * (row.rate - quote.rate)
Surplus(row)        == row.fiat - quote.fiat

SpreadTellsSurplus ==
  \A i \in DOMAIN convs :
    Done(i) /\ convs[i].fiat = Proceeds(quote.held, convs[i].rate) =>
      ReportedSpread(convs[i]) + FeeMicros * quote.rate - Surplus(convs[i]) * Micro * Micro
        \in 1 - quote.rate .. Micro * Micro - 1

(* The ledger's income is that of the conversion on record, whether the poll, *)
(* the webhook or the operator settles, before or after a crash, and above    *)
(* what is left by the flat fee, which the micros sold have already paid.     *)
IncomeExceedsSurplusByFee ==
  posted["COMPLETED"] = 1 /\ ~ ConvertedTwice =>
    \A i \in DOMAIN convs : - idr["fees"] - idr["spread"] = Surplus(convs[i]) + FeeIdr

------------------------------------------------------------------------------
(* The inductive invariant.                                                   *)

(* The quote is one createQuote() makes.                                      *)
Quoted ==
  /\ quote.fiat > 0 /\ quote.rate > 0
  /\ quote.held = Total(quote.fiat, quote.rate)

(* No call has begun, nor row been written, before the conversion is pending. *)
Started ==
  status \in {"CRYPTO_SUBMITTED", "CRYPTO_CONFIRMED"} =>
    convs = <<>> /\ \A r \in Requests : At(r, "-")

(* A refund in progress has the cost it was asked with, and its transaction   *)
(* none above what is held.                                                   *)
Costed ==
  \A r \in Requests :
    /\ At(r, "refund") => call[r].amount \in Costs \cup {DefaultCost}
    /\ At(r, "commit") /\ call[r].to = "REFUNDED" => call[r].amount <= quote.held

(* The moves that transactions make; unless a status got lost, the end that   *)
(* one of them replays is still there.                                        *)
Moving ==
  \A r \in Requests :
    At(r, "commit") =>
      /\ call[r].to \in {"RECONCILIATION_REQUIRED", "FIAT_SETTLEMENT_PENDING", "REFUND_REQUIRED",
                         "COMPLETED", "REFUNDED"}
      /\ ~ lost /\ call[r].seen = call[r].to /\ call[r].to \in DOMAIN posted => status = call[r].to

(* A report's row and task are there.                                         *)
Placed ==
  \A r \in Requests :
    /\ At(r, "mark") \/ At(r, "markFailed") => call[r].on \in DOMAIN tasks
    /\ At(r, "fill") => call[r].on \in DOMAIN convs

(* A conversion that is done has brought what was promised.                   *)
Sufficient == \A i \in DOMAIN convs : Done(i) => convs[i].fiat >= quote.fiat

(* While there is one conversion, whoever settles does so with its fiat.      *)
Settling(r) ==
  \/ At(r, "settle") \/ At(r, "poll") \/ At(r, "look") \/ At(r, "complete")
  \/ At(r, "commit") /\ call[r].to \in {"FIAT_SETTLEMENT_PENDING", "COMPLETED"}

OneConversion ==
  ~ ConvertedTwice =>
    /\ status \in {"FIAT_SETTLEMENT_PENDING", "COMPLETED"} => convs # <<>> /\ Done(1)
    /\ \A r \in Requests :
         /\ At(r, "webhook") \/ At(r, "paid") => convs # <<>> /\ Done(1)
         /\ Settling(r) => convs # <<>> /\ Done(1) /\ call[r].amount = convs[1].fiat

(* What the settlement has booked besides the merchant's fiat.                *)
Booked ==
  /\ posted["COMPLETED"] = 0 => idr["fees"] = 0 /\ idr["spread"] = 0
  /\ ~ ConvertedTwice => idr["spread"] <= 0
  /\ ~ ConvertedTwice /\ posted["COMPLETED"] > 0 => convs # <<>> /\ Done(1)
  /\ ~ ConvertedTwice /\ posted["COMPLETED"] = 1 =>
       idr["fees"] = - FeeIdr /\ idr["spread"] = quote.fiat - convs[1].fiat

(* Only a refund's postings have thrown, and only over its cost.              *)
Refusals ==
  /\ refused \subseteq {"REFUNDED"}
  /\ refused # {} => \E cost \in Costs \cup {DefaultCost} : cost > quote.held

BooksInv ==
  /\ TypeOK /\ Quoted /\ Started /\ Costed /\ Moving /\ Placed /\ Sufficient /\ OneConversion
  /\ MoneyAccounted /\ Booked /\ Refusals
==============================================================================
