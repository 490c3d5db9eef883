---------------------------- MODULE ScanPageProofs ----------------------------
(* What the scan page shows and asks for belongs to one code, for every set   *)
(* of codes, amounts, payments and calls in flight, whatever a code reads as; *)
(* what is read spells the code; and codes one symbol apart do not both read. *)
EXTENDS ScanPage, SequenceTheorems, FiniteSetTheorems, WellFoundedInduction, TLAPS

LEMMA StatesAre ==
  States = {"CREATED", "QUOTED", "AUTHORIZED", "CRYPTO_SUBMITTED", "CRYPTO_CONFIRMED",
            "CONVERSION_PENDING", "FIAT_SETTLEMENT_PENDING", "REFUND_REQUIRED",
            "RECONCILIATION_REQUIRED", "COMPLETED", "EXPIRED", "FAILED", "REFUNDED"}
BY DEF States, Edges

LEMMA EdgeToState ==
  ASSUME NEW s \in States
  PROVE  Edges[s] \subseteq States
BY StatesAre DEF Edges

LEMMA NothingType ==
  /\ NoCode \in Code /\ ~ NoCode.ok /\ NoAmount \in AmountSet
  /\ Idle \in CallSet /\ CallInv(Idle) /\ Idle.id = 0 /\ Idle.step = "-" /\ Idle.at = "-"
<1>1. NoCode \in Code /\ ~ NoCode.ok /\ NoAmount \in AmountSet
  BY DEF NoCode, Refused, Code, NoAmount, AmountSet
<1>2. Idle \in CallSet
  BY <1>1 DEF Idle, CallSet
<1> QED BY <1>1, <1>2 DEF Idle, CallInv

Steps == {"parse", "quote", "authorize", "execute", "refresh", "cancel"}

(* What is asked for, with one or two of its parts filled in.                 *)
LEMMA AsksType ==
  ASSUME NEW step \in Steps
  PROVE  /\ Asks(step) \in CallSet
         /\ Asks(step).step = step /\ Asks(step).at = "sent" /\ Asks(step).id = 0
         /\ Asks(step).amount = NoAmount /\ Asks(step).code = NoCode
<1>1. Asks(step) \in CallSet
  BY NothingType DEF Asks, CallSet, Steps
<1> QED BY <1>1 DEF Asks, Idle

LEMMA FieldSet ==
  ASSUME NEW call \in CallSet
  PROVE  /\ \A c \in Codes : [call EXCEPT !.payload = c] \in CallSet
         /\ \A c \in Code, a \in AmountSet : [call EXCEPT !.code = c, !.amount = a] \in CallSet
         /\ \A n \in Nat : [call EXCEPT !.id = n] \in CallSet
         /\ \A a \in {"sent", "served", "answered", "failed"} : [call EXCEPT !.at = a] \in CallSet
         /\ \A c \in Code : [call EXCEPT !.at = "answered", !.code = c] \in CallSet
         /\ \A n \in Nat, x \in States \cup {"none"} :
              [call EXCEPT !.at = "answered", !.id = n, !.status = x] \in CallSet
<1>1. \A c \in Codes : [call EXCEPT !.payload = c] \in CallSet
  BY DEF CallSet
<1>2. \A c \in Code, a \in AmountSet : [call EXCEPT !.code = c, !.amount = a] \in CallSet
  BY DEF CallSet
<1>3. \A n \in Nat : [call EXCEPT !.id = n] \in CallSet
  BY DEF CallSet
<1>4. \A a \in {"sent", "served", "answered", "failed"} : [call EXCEPT !.at = a] \in CallSet
  BY DEF CallSet
<1>5. \A c \in Code : [call EXCEPT !.at = "answered", !.code = c] \in CallSet
  BY DEF CallSet
<1>6. \A n \in Nat, x \in States \cup {"none"} :
        [call EXCEPT !.at = "answered", !.id = n, !.status = x] \in CallSet
  BY DEF CallSet
<1> QED BY <1>1, <1>2, <1>3, <1>4, <1>5, <1>6

------------------------------------------------------------------------------
(* Steps of the server.                                                       *)

(* The server's payments grow, and keep their codes and amounts.              *)
Grow ==
  /\ payments' \in Seq(PaymentSet) /\ Len(payments) <= Len(payments')
  /\ \A i \in 1 .. Len(payments) :
       payments'[i].code = payments[i].code /\ payments'[i].amount = payments[i].amount
  /\ AmountOfItsCode' /\ expired' \subseteq DOMAIN payments'

LEMMA GrowShown ==
  ASSUME ScanInv, Grow, parsed' = parsed, NEW n \in 0 .. Len(payments), BelongsToCode(n)
  PROVE  n # 0 => payments'[n].code = parsed'
BY DEF BelongsToCode, Grow

(* A call in flight goes on, or comes to nothing.                             *)
LEMMA ReplyStep ==
  ASSUME ScanInv, Grow, NEW s \in Slots, NEW call \in CallSet, CallInv(call),
         calls[s].step # "-", calls' = [calls EXCEPT ![s] = call],
         UNCHANGED <<camera, page, overlapped>>,
         \/ busy' = busy
         \/ busy' = FALSE /\ call = Idle,
         call.id <= Len(payments'),
         overlapped \/ (call.id # 0 => payments'[call.id].code = parsed),
         overlapped \/ (call.step = "quote" /\ call.at = "sent" => call.code = parsed)
  PROVE  ScanInv'
<1>1. /\ calls' \in [Slots -> CallSet] /\ calls'[s] = call
      /\ \A t \in Slots \ {s} : calls'[t] = calls[t]
  BY DEF ScanInv, TypeOK
<1>2. TypeOK'
  <2>1. \A t \in Slots : calls'[t].id <= Len(payments')
    BY <1>1 DEF ScanInv, TypeOK, Grow, CallSet
  <2>2. {quote', payment'.id} \subseteq 0 .. Len(payments')
    BY DEF ScanInv, TypeOK, Grow, page
  <2> QED BY <1>1, <2>1, <2>2 DEF ScanInv, TypeOK, Grow, page
<1>3. \A t \in Slots : CallInv(calls'[t])
  BY <1>1 DEF ScanInv
<1>4. ASSUME ~ overlapped
      PROVE  Alone'
  <2>1. Alone
    BY <1>4 DEF ScanInv
  <2>2. InFlight' \subseteq InFlight /\ InFlight \subseteq {s}
    BY <1>1, <2>1 DEF Alone, InFlight
  <2>3. call = Idle => InFlight' = {}
    BY <1>1, <2>2, NothingType DEF InFlight
  <2>4. InFlight' # {} => busy'
    BY <2>1, <2>2, <2>3 DEF Alone
  <2>5. \A u, t \in InFlight' : u = t
    BY <2>2
  <2>6. ShowsOneMerchant'
    BY <2>1, GrowShown DEF Alone, ShowsOneMerchant, BelongsToCode, ScanInv, TypeOK, page, Grow
  <2>7. ASSUME NEW t \in Slots
        PROVE  AboutShown(calls[t])'
    <3>1. CASE t = s
      BY <1>1, <1>4, <3>1 DEF AboutShown, BelongsToCode, page
    <3>2. CASE t # s
      <4>1. calls'[t] = calls[t] /\ AboutShown(calls[t])
        BY <1>1, <2>1, <3>2 DEF Alone
      <4>2. calls[t].id \in 0 .. Len(payments)
        BY DEF ScanInv, TypeOK, CallSet
      <4> QED BY <4>1, <4>2 DEF AboutShown, BelongsToCode, page, Grow
    <3> QED BY <3>1, <3>2
  <2> QED BY <2>4, <2>5, <2>6, <2>7 DEF Alone
<1>5. (amount = NoAmount \/ amount.of = parsed)'
  BY DEF ScanInv, page
<1> QED BY <1>2, <1>3, <1>4, <1>5 DEF ScanInv, Grow

(* Steps that change the server's payments only.                              *)
LEMMA PaymentsStep ==
  ASSUME ScanInv, Grow, UNCHANGED <<camera, page, busy, calls, overlapped>>
  PROVE  ScanInv'
<1>1. TypeOK'
  BY DEF ScanInv, TypeOK, Grow, page, CallSet
<1>2. ASSUME Alone
      PROVE  Alone'
  <2>1. ShowsOneMerchant'
    BY <1>2 DEF Alone, ShowsOneMerchant, BelongsToCode, ScanInv, TypeOK, page, Grow
  <2>2. ASSUME NEW t \in Slots
        PROVE  AboutShown(calls[t])'
    <3>1. AboutShown(calls[t]) /\ calls[t].id \in 0 .. Len(payments)
      BY <1>2 DEF Alone, ScanInv, TypeOK, CallSet
    <3> QED BY <3>1 DEF AboutShown, BelongsToCode, page, Grow
  <2> QED BY <1>2, <2>1, <2>2 DEF Alone, InFlight
<1> QED BY <1>1, <1>2 DEF ScanInv, Grow, page

LEMMA SamePayments ==
  ASSUME ScanInv, payments' = payments, expired' \subseteq DOMAIN payments
  PROVE  Grow
BY DEF ScanInv, TypeOK, Grow, AmountOfItsCode

(* One payment has its status moved.                                          *)
LEMMA StatusMoves ==
  ASSUME ScanInv, NEW i \in 1 .. Len(payments), NEW x \in States, expired' = expired,
         payments' = [payments EXCEPT ![i].status = x]
  PROVE  Grow /\ Len(payments') = Len(payments)
<1>1. payments \in Seq(PaymentSet) /\ payments[i] \in PaymentSet
  BY ElementOfSeq DEF ScanInv, TypeOK
<1> DEFINE row == [payments[i] EXCEPT !.status = x]
<1>2. row \in PaymentSet /\ row.code = payments[i].code /\ row.amount = payments[i].amount
  BY <1>1 DEF PaymentSet
<1>3. payments' = [payments EXCEPT ![i] = row]
  OBVIOUS
<1> HIDE DEF row
<1>4. payments' \in Seq(PaymentSet) /\ Len(payments') = Len(payments) /\ DOMAIN payments' = DOMAIN payments
  BY <1>1, <1>2, <1>3, ExceptSeq
<1>5. \A j \in 1 .. Len(payments) :
        payments'[j].code = payments[j].code /\ payments'[j].amount = payments[j].amount
  BY <1>1, <1>2, <1>3
<1>6. DOMAIN payments = 1 .. Len(payments)
  BY <1>1
<1> QED BY <1>4, <1>5, <1>6 DEF Grow, ScanInv, TypeOK, AmountOfItsCode

(* One more payment is made, of a code and its amount.                        *)
LEMMA PaymentAdded ==
  ASSUME ScanInv, NEW c \in Code, NEW a \in AmountSet, a.of = c, expired' = expired,
         payments' = Append(payments, [code |-> c, amount |-> a, status |-> "QUOTED"])
  PROVE  Grow /\ Len(payments') = Len(payments) + 1 /\ payments'[Len(payments) + 1].code = c
<1> DEFINE row == [code |-> c, amount |-> a, status |-> "QUOTED"]
<1>1. row \in PaymentSet /\ row.code = c /\ row.amount = a
  BY StatesAre DEF PaymentSet
<1>2. payments \in Seq(PaymentSet) /\ DOMAIN payments = 1 .. Len(payments) /\ Len(payments) \in Nat
  BY DEF ScanInv, TypeOK
<1> HIDE DEF row
<1>3. payments' = Append(payments, row)
  BY DEF row
<1>4. /\ payments' \in Seq(PaymentSet) /\ Len(payments') = Len(payments) + 1
      /\ \A j \in 1 .. Len(payments) : payments'[j] = payments[j]
      /\ payments'[Len(payments) + 1] = row /\ DOMAIN payments' = 1 .. Len(payments) + 1
  BY <1>1, <1>2, <1>3, AppendProperties
<1> QED BY <1>1, <1>2, <1>4 DEF Grow, ScanInv, TypeOK, AmountOfItsCode

------------------------------------------------------------------------------
(* The routes.                                                                *)

LEMMA InSteps ==
  ASSUME ScanInv, NEW s \in Slots, calls[s].step # "-"
  PROVE  calls[s].step \in Steps
BY DEF ScanInv, TypeOK, CallSet, Steps

LEMMA LiveCall ==
  ASSUME ScanInv, NEW s \in Slots, calls[s].at \in {"sent", "served", "answered", "failed"}
  PROVE  calls[s].step \in Steps
BY NothingType, InSteps DEF ScanInv, CallInv

(* What a refusal and an answer are.                                          *)
LEMMA RefuseIs ==
  ASSUME ScanInv, NEW s \in Slots, calls[s].step \in Steps
  PROVE  /\ Refuse(s) \in CallSet /\ CallInv(Refuse(s))
         /\ Refuse(s).id = 0 /\ Refuse(s).at = "failed" /\ Refuse(s).step = calls[s].step
<1>1. Refuse(s) \in CallSet
  BY AsksType, FieldSet DEF Refuse
<1>2. Refuse(s).id = 0 /\ Refuse(s).at = "failed" /\ Refuse(s).step = calls[s].step
  BY AsksType DEF Refuse, CallSet
<1> QED BY <1>1, <1>2 DEF CallInv, Steps

LEMMA AnswerIs ==
  ASSUME ScanInv, NEW s \in Slots, calls[s].step \in Steps \ {"parse"},
         NEW n \in Nat \ {0}, NEW x \in States \cup {"none"}
  PROVE  /\ Answer(s, n, x) \in CallSet /\ CallInv(Answer(s, n, x))
         /\ Answer(s, n, x).id = n /\ Answer(s, n, x).at = "answered"
         /\ Answer(s, n, x).step = calls[s].step
<1>1. Answer(s, n, x) \in CallSet
  BY AsksType, FieldSet DEF Answer
<1>2. Answer(s, n, x).id = n /\ Answer(s, n, x).at = "answered" /\ Answer(s, n, x).step = calls[s].step
  BY AsksType DEF Answer, CallSet
<1> QED BY <1>1, <1>2 DEF CallInv, Steps

(* A call about a payment names one on record, the shown code's if the call   *)
(* is alone.                                                                  *)
LEMMA OfPayment ==
  ASSUME ScanInv, NEW s \in Slots, calls[s].at # "failed",
         calls[s].step \in {"authorize", "execute", "refresh", "cancel"}
  PROVE  /\ calls[s].id \in 1 .. Len(payments) /\ Status(s) \in States
         /\ overlapped \/ payments[calls[s].id].code = parsed
<1>1. calls[s].id \in Nat /\ calls[s].id <= Len(payments) /\ calls[s].id # 0 /\ Len(payments) \in Nat
  BY DEF ScanInv, TypeOK, CallInv, CallSet
<1>2. payments[calls[s].id] \in PaymentSet
  BY <1>1, ElementOfSeq DEF ScanInv, TypeOK
<1> QED BY <1>1, <1>2 DEF ScanInv, Alone, AboutShown, BelongsToCode, PaymentSet, Status

LEMMA RefuseStep ==
  ASSUME ScanInv, Grow, NEW s \in Slots, calls[s].step \in Steps, Reply(s, Refuse(s))
  PROVE  ScanInv'
<1>1. PICK call \in CallSet : call = Refuse(s)
  BY RefuseIs
<1>2. Len(payments') \in Nat
  BY LenProperties DEF Grow
<1>3. /\ CallInv(call) /\ call.id = 0 /\ call.id <= Len(payments')
      /\ ~ (call.step = "quote" /\ call.at = "sent")
      /\ calls[s].step # "-" /\ calls' = [calls EXCEPT ![s] = call]
      /\ UNCHANGED <<camera, page, overlapped>> /\ busy' = busy
  BY <1>1, <1>2, RefuseIs DEF Reply, Steps
<1> QED BY <1>3, ReplyStep

LEMMA AnswerStep ==
  ASSUME ScanInv, Grow, NEW s \in Slots, calls[s].at # "failed",
         calls[s].step \in {"authorize", "execute", "refresh", "cancel"},
         NEW x \in States \cup {"none"}, Reply(s, Answer(s, calls[s].id, x))
  PROVE  ScanInv'
<1>1. /\ calls[s].id \in 1 .. Len(payments)
      /\ overlapped \/ payments[calls[s].id].code = parsed
  BY OfPayment
<1>2. /\ Len(payments) \in Nat /\ Len(payments') \in Nat /\ Len(payments) <= Len(payments')
      /\ payments'[calls[s].id].code = payments[calls[s].id].code
  BY <1>1, LenProperties DEF Grow, ScanInv, TypeOK
<1>3. PICK call \in CallSet : call = Answer(s, calls[s].id, x)
  BY <1>1, AnswerIs DEF Steps
<1>4. /\ CallInv(call) /\ call.id = calls[s].id /\ call.at = "answered" /\ call.step = calls[s].step
  BY <1>1, <1>3, AnswerIs DEF Steps
<1>5. /\ call.id <= Len(payments')
      /\ overlapped \/ payments'[call.id].code = parsed
      /\ ~ (call.step = "quote" /\ call.at = "sent")
      /\ calls[s].step # "-" /\ calls' = [calls EXCEPT ![s] = call]
      /\ UNCHANGED <<camera, page, overlapped>> /\ busy' = busy
  BY <1>1, <1>2, <1>3, <1>4 DEF Reply
<1> QED BY <1>4, <1>5, ReplyStep

LEMMA ServeStep ==
  ASSUME ScanInv, NEW s \in Slots, Serve(s)
  PROVE  ScanInv'
<1>1. CASE ServeParse(s)
  <2>1. Grow /\ calls[s].step = "parse" /\ calls[s].step \in Steps
    BY <1>1, SamePayments DEF ServeParse, Sent, Reply, ScanInv, TypeOK, Steps
  <2> DEFINE c == calls[s].payload
  <2>2. CASE Reads[c].ok
    <3>1. c \in Codes /\ Reads[c] \in Readable
      BY <1>1, <2>2 DEF ServeParse, Sent, ScanInv, CallInv, Readable
    <3>2. PICK call \in CallSet : call = [Asks("parse") EXCEPT !.at = "answered", !.code = Reads[c]]
      BY <3>1, AsksType, FieldSet DEF Steps, Code
    <3>3. CallInv(call) /\ call.id = 0 /\ call.at = "answered" /\ call.step = "parse"
      <4>1. /\ call.id = 0 /\ call.at = "answered" /\ call.step = "parse"
            /\ call.code = Reads[c]
        BY <3>2, AsksType DEF Steps, CallSet
      <4> QED BY <3>1, <4>1 DEF CallInv
    <3>4. Len(payments') \in Nat
      BY <2>1, LenProperties DEF Grow
    <3>5. /\ call.id <= Len(payments')
          /\ ~ (call.step = "quote" /\ call.at = "sent")
          /\ calls[s].step # "-" /\ calls' = [calls EXCEPT ![s] = call]
          /\ UNCHANGED <<camera, page, overlapped>> /\ busy' = busy
      BY <1>1, <2>1, <2>2, <3>2, <3>3, <3>4 DEF ServeParse, Reply
    <3> QED BY <2>1, <3>3, <3>5, ReplyStep
  <2>3. CASE ~ Reads[c].ok
    BY <1>1, <2>1, <2>3, RefuseStep DEF ServeParse
  <2> QED BY <2>2, <2>3
<1>2. CASE ServeQuote(s)
  <2>1. calls[s].step = "quote" /\ calls[s].step \in Steps /\ calls[s].at = "sent" /\ expired' = expired
    BY <1>2 DEF ServeQuote, Sent, Steps
  <2>2. CASE Reply(s, Refuse(s)) /\ UNCHANGED payments
    BY <2>1, <2>2, SamePayments, RefuseStep DEF ScanInv, TypeOK
  <2>3. ASSUME payments' = Append(payments, [code |-> calls[s].code, amount |-> calls[s].amount, status |-> "QUOTED"]),
               Reply(s, Answer(s, Len(payments) + 1, "none"))
        PROVE  ScanInv'
    <3>1. /\ calls[s].code \in Code /\ calls[s].amount \in AmountSet
          /\ calls[s].amount.of = calls[s].code /\ Len(payments) \in Nat
      BY <2>1 DEF ScanInv, TypeOK, CallSet, CallInv
    <3>2. Grow /\ Len(payments') = Len(payments) + 1 /\ payments'[Len(payments) + 1].code = calls[s].code
      BY <2>1, <2>3, <3>1, PaymentAdded
    <3>3. PICK call \in CallSet : call = Answer(s, Len(payments) + 1, "none")
      BY <2>1, <3>1, AnswerIs DEF Steps
    <3>4. CallInv(call) /\ call.id = Len(payments) + 1 /\ call.at = "answered" /\ call.step = "quote"
      BY <2>1, <3>1, <3>3, AnswerIs DEF Steps
    <3>5. overlapped \/ calls[s].code = parsed
      BY <2>1 DEF ScanInv, Alone, AboutShown
    <3>6. /\ call.id <= Len(payments')
          /\ overlapped \/ payments'[call.id].code = parsed
          /\ ~ (call.step = "quote" /\ call.at = "sent")
          /\ calls[s].step # "-" /\ calls' = [calls EXCEPT ![s] = call]
          /\ UNCHANGED <<camera, page, overlapped>> /\ busy' = busy
      BY <2>1, <2>3, <3>1, <3>2, <3>3, <3>4, <3>5 DEF Reply
    <3> QED BY <3>2, <3>4, <3>6, ReplyStep
  <2> QED BY <1>2, <2>2, <2>3 DEF ServeQuote
<1>3. CASE ServeAuthorize(s)
  <2>1. /\ calls[s].step = "authorize" /\ calls[s].at = "sent" /\ expired' = expired
        /\ calls[s].step \in Steps
    BY <1>3 DEF ServeAuthorize, Sent, Steps
  <2>2. calls[s].id \in 1 .. Len(payments)
    BY <2>1, OfPayment
  <2>3. ASSUME payments' = payments \/ \E x \in States : Becomes(s, x)
        PROVE  Grow
    BY <2>1, <2>2, <2>3, SamePayments, StatusMoves DEF Becomes, ScanInv, TypeOK
  <2>4. Grow
    BY <1>3, <2>3, StatesAre DEF ServeAuthorize
  <2>5. Reply(s, Answer(s, calls[s].id, "none")) \/ Reply(s, Refuse(s))
    BY <1>3 DEF ServeAuthorize
  <2> QED BY <2>1, <2>4, <2>5, RefuseStep, AnswerStep
<1>4. CASE ServeExecute(s)
  <2>1. calls[s].step = "execute" /\ calls[s].at = "sent" /\ expired' = expired
    BY <1>4 DEF ServeExecute, Sent
  <2>2. /\ calls[s].id \in 1 .. Len(payments)
        /\ overlapped \/ payments[calls[s].id].code = parsed
    BY <2>1, OfPayment
  <2>3. Grow
    BY <1>4, <2>1, <2>2, SamePayments, StatusMoves, StatesAre DEF ServeExecute, Becomes, ScanInv, TypeOK
  <2>4. PICK call \in CallSet : call = [calls[s] EXCEPT !.at = "served"]
    BY FieldSet DEF ScanInv, TypeOK
  <2>5. CallInv(call) /\ call.id = calls[s].id /\ call.at = "served" /\ call.step = "execute"
    <3>1. calls[s] \in CallSet
      BY DEF ScanInv, TypeOK
    <3>2. call.id = calls[s].id /\ call.at = "served" /\ call.step = "execute"
      BY <2>1, <2>4, <3>1 DEF CallSet
    <3> QED BY <2>2, <3>2 DEF CallInv
  <2>6. /\ call.id <= Len(payments')
        /\ overlapped \/ payments'[call.id].code = parsed
        /\ ~ (call.step = "quote" /\ call.at = "sent")
        /\ calls[s].step # "-" /\ calls' = [calls EXCEPT ![s] = call]
        /\ UNCHANGED <<camera, page, overlapped>> /\ busy' = busy
    <3>1. Len(payments) \in Nat /\ Len(payments') \in Nat
      BY <2>3, LenProperties DEF Grow, ScanInv, TypeOK
    <3> QED BY <1>4, <2>1, <2>2, <2>3, <2>4, <2>5, <3>1 DEF Grow, Reply, ServeExecute
  <2> QED BY <2>3, <2>5, <2>6, ReplyStep
<1>5. CASE ExecuteRefused(s)
  <2>1. Grow /\ calls[s].step \in Steps
    BY <1>5, SamePayments DEF ExecuteRefused, Sent, Steps, ScanInv, TypeOK
  <2> QED BY <1>5, <2>1, RefuseStep DEF ExecuteRefused
<1>6. CASE Executed(s)
  <2>1. Grow /\ calls[s].step = "execute" /\ calls[s].at = "served"
    BY <1>6, SamePayments DEF Executed, ScanInv, TypeOK, CallInv
  <2>2. Status(s) \in States
    BY <2>1, OfPayment
  <2> QED BY <1>6, <2>1, <2>2, AnswerStep DEF Executed
<1>7. CASE ServeRefresh(s)
  <2>1. Grow /\ calls[s].step = "refresh" /\ calls[s].at = "sent"
    BY <1>7, SamePayments DEF ServeRefresh, Sent, ScanInv, TypeOK
  <2>2. Status(s) \in States
    BY <2>1, OfPayment
  <2> QED BY <1>7, <2>1, <2>2, AnswerStep DEF ServeRefresh
<1>8. CASE ServeCancel(s)
  <2>1. /\ calls[s].step = "cancel" /\ calls[s].at = "sent" /\ expired' = expired
        /\ calls[s].step \in Steps
    BY <1>8 DEF ServeCancel, Sent, Steps
  <2>2. calls[s].id \in 1 .. Len(payments)
    BY <2>1, OfPayment
  <2>3. Grow
    BY <1>8, <2>1, <2>2, SamePayments, StatusMoves, StatesAre DEF ServeCancel, Becomes, ScanInv, TypeOK
  <2>4. Reply(s, Answer(s, calls[s].id, "FAILED")) \/ Reply(s, Refuse(s))
    BY <1>8 DEF ServeCancel
  <2> QED BY <2>1, <2>3, <2>4, StatesAre, RefuseStep, AnswerStep
<1> QED BY <1>1, <1>2, <1>3, <1>4, <1>5, <1>6, <1>7, <1>8 DEF Serve

------------------------------------------------------------------------------
(* The page.                                                                  *)

(* A button is tapped: if the calls have not overlapped there is none.        *)
LEMMA ButtonStep ==
  ASSUME ScanInv, NEW call \in CallSet, CallInv(call), call.id = 0 \/ call.id \in 1 .. Len(payments),
         call.step # "-",
         Button(call), overlapped \/ (call.id # 0 => payments[call.id].code = parsed),
         overlapped \/ (call.step = "quote" /\ call.at = "sent" => call.code = parsed)
  PROVE  ScanInv'
<1> DEFINE d == Min(Slots \ InFlight)
<1>1. /\ calls' = [calls EXCEPT ![d] = call] /\ busy' = TRUE /\ ~ busy
      /\ UNCHANGED <<payments, expired, camera, page, overlapped>>
  BY DEF Run, Button
<1> HIDE DEF d
<1>2. calls' \in [Slots -> CallSet] /\ \A s \in Slots : calls'[s] = IF s = d THEN call ELSE calls[s]
  BY <1>1 DEF ScanInv, TypeOK
<1>3. Grow
  BY <1>1, SamePayments DEF ScanInv, TypeOK
<1>4. \A s \in Slots : CallInv(calls'[s])
  BY <1>2 DEF ScanInv
<1>5. TypeOK'
  <2>1. Len(payments) \in Nat /\ \A s \in Slots : calls'[s].id <= Len(payments)
    BY <1>2, LenProperties DEF ScanInv, TypeOK
  <2> QED BY <1>1, <1>2, <2>1 DEF ScanInv, TypeOK, page
<1>6. ASSUME ~ overlapped
      PROVE  Alone'
  <2>1. Alone /\ InFlight = {}
    BY <1>1, <1>6 DEF ScanInv, Alone
  <2>2. \A s, t \in InFlight' : s = t
    BY <1>2, <2>1 DEF InFlight
  <2>3. ShowsOneMerchant'
    BY <1>1, <2>1 DEF Alone, ShowsOneMerchant, BelongsToCode, page
  <2>4. ASSUME NEW s \in Slots
        PROVE  AboutShown(calls[s])'
    <3>1. AboutShown(calls[s])
      BY <2>1 DEF Alone
    <3> QED BY <1>1, <1>2, <1>6, <3>1 DEF AboutShown, BelongsToCode, page
  <2> QED BY <1>1, <2>2, <2>3, <2>4 DEF Alone
<1> QED BY <1>1, <1>3, <1>4, <1>5, <1>6 DEF ScanInv, Grow, page

(* What the page asks the parser.                                             *)
LEMMA ParseCall ==
  ASSUME NEW c \in Codes, NEW call, call = [Asks("parse") EXCEPT !.payload = c]
  PROVE  call \in CallSet /\ CallInv(call) /\ call.id = 0 /\ call.step = "parse" /\ call.at = "sent"
<1>1. call \in CallSet
  BY AsksType, FieldSet DEF Steps
<1>2. call.id = 0 /\ call.step = "parse" /\ call.at = "sent" /\ call.payload = c
  BY AsksType DEF Steps, CallSet
<1> QED BY <1>1, <1>2 DEF CallInv

(* What it asks about a payment.                                              *)
AskAbout(step, n) == [Asks(step) EXCEPT !.id = n]

LEMMA PaymentCall ==
  ASSUME NEW step \in {"authorize", "refresh", "cancel"}, NEW n \in Nat \ {0}
  PROVE  /\ AskAbout(step, n) \in CallSet /\ CallInv(AskAbout(step, n))
         /\ AskAbout(step, n).id = n /\ AskAbout(step, n).step = step
<1>1. AskAbout(step, n) \in CallSet
  BY AsksType, FieldSet DEF Steps, AskAbout
<1>2. AskAbout(step, n).id = n /\ AskAbout(step, n).step = step /\ AskAbout(step, n).at = "sent"
  BY AsksType DEF Steps, CallSet, AskAbout
<1> QED BY <1>1, <1>2 DEF CallInv

LEMMA PressStep ==
  ASSUME ScanInv, PressParse \/ PressQuote \/ PressPay \/ PressRefresh \/ PressCancel
  PROVE  ScanInv'
<1>0. Len(payments) \in Nat /\ payment.id \in 0 .. Len(payments) /\ quote \in 0 .. Len(payments)
  BY LenProperties DEF ScanInv, TypeOK
<1>1. CASE PressParse
  <2>1. PICK c \in Codes : Button([Asks("parse") EXCEPT !.payload = c])
    BY <1>1, ScanAssumption DEF PressParse
  <2>2. PICK call : call = [Asks("parse") EXCEPT !.payload = c]
    OBVIOUS
  <2> QED BY <2>1, <2>2, ParseCall, ButtonStep
<1>2. CASE PressQuote
  <2>1. PICK call : call = [Asks("quote") EXCEPT !.code = parsed, !.amount = amount]
    OBVIOUS
  <2>2. call \in CallSet
    BY <2>1, AsksType, FieldSet DEF Steps, ScanInv, TypeOK
  <2>3. /\ call.id = 0 /\ call.step = "quote" /\ call.at = "sent"
        /\ call.code = parsed /\ call.amount = amount
    BY <2>1, AsksType DEF Steps, CallSet
  <2>4. Button(call) /\ amount.of = parsed
    BY <1>2, <2>1 DEF PressQuote, CanQuote, ScanInv
  <2>5. CallInv(call)
    BY <2>3, <2>4 DEF CallInv
  <2> QED BY <2>2, <2>3, <2>4, <2>5, ButtonStep
<1>3. CASE PressPay
  <2>1. PICK call : call = AskAbout("authorize", quote)
    OBVIOUS
  <2>2. quote \in 1 .. Len(payments) /\ Button(call)
    BY <1>0, <1>3, <2>1 DEF PressPay, CanPay, AskAbout
  <2>3. overlapped \/ payments[quote].code = parsed
    BY <2>2 DEF ScanInv, Alone, ShowsOneMerchant, BelongsToCode
  <2>4. call \in CallSet /\ CallInv(call) /\ call.id = quote /\ call.step = "authorize"
    <3>1. quote \in Nat \ {0}
      BY <1>0, <2>2
    <3> QED BY <2>1, <3>1, PaymentCall
  <2> QED BY <2>2, <2>3, <2>4, ButtonStep
<1>4. CASE PressRefresh \/ PressCancel
  <2>1. PICK step \in {"refresh", "cancel"} :
          CanFollow /\ Button([Asks(step) EXCEPT !.id = payment.id])
    BY <1>4 DEF PressRefresh, PressCancel
  <2>2. PICK call : call = AskAbout(step, payment.id)
    OBVIOUS
  <2>3. payment.id \in 1 .. Len(payments) /\ Button(call)
    BY <1>0, <2>1, <2>2 DEF CanFollow, AskAbout
  <2>4. overlapped \/ payments[payment.id].code = parsed
    BY <2>3 DEF ScanInv, Alone, ShowsOneMerchant, BelongsToCode
  <2>5. call \in CallSet /\ CallInv(call) /\ call.id = payment.id /\ call.step = step
    <3>1. payment.id \in Nat \ {0} /\ step \in {"authorize", "refresh", "cancel"}
      BY <1>0, <2>3
    <3> QED BY <2>2, <3>1, PaymentCall
  <2> QED BY <2>3, <2>4, <2>5, ButtonStep
<1> QED BY <1>1, <1>2, <1>3, <1>4

(* The camera reads a code, alone or into another call.                       *)
LEMMA CameraStep ==
  ASSUME ScanInv, CameraReads
  PROVE  ScanInv'
<1>1. PICK c \in Codes : Run([Asks("parse") EXCEPT !.payload = c])
  BY ScanAssumption DEF CameraReads
<1>2. PICK call : call = [Asks("parse") EXCEPT !.payload = c]
  OBVIOUS
<1>3. call \in CallSet /\ CallInv(call) /\ call.id = 0 /\ call.step = "parse"
  BY <1>2, ParseCall
<1> DEFINE d == Min(Slots \ InFlight)
<1>4. /\ calls' = [calls EXCEPT ![d] = call] /\ busy' = TRUE
      /\ UNCHANGED <<payments, expired, page>>
      /\ camera' = FALSE /\ overlapped' = (overlapped \/ InFlight # {})
  BY <1>1, <1>2 DEF Run, CameraReads
<1> HIDE DEF d
<1>5. calls' \in [Slots -> CallSet] /\ \A s \in Slots : calls'[s] = IF s = d THEN call ELSE calls[s]
  BY <1>3, <1>4 DEF ScanInv, TypeOK
<1>6. TypeOK'
  <2>1. Len(payments) \in Nat /\ \A s \in Slots : calls'[s].id <= Len(payments)
    BY <1>3, <1>5, LenProperties DEF ScanInv, TypeOK
  <2> QED BY <1>4, <1>5, <2>1 DEF ScanInv, TypeOK, page
<1>7. ASSUME ~ overlapped'
      PROVE  Alone'
  <2>1. Alone /\ InFlight = {}
    BY <1>4, <1>7 DEF ScanInv, TypeOK
  <2>2. \A s, t \in InFlight' : s = t
    BY <1>5, <2>1 DEF InFlight
  <2>3. ShowsOneMerchant'
    BY <1>4, <2>1 DEF Alone, ShowsOneMerchant, BelongsToCode, page
  <2>4. ASSUME NEW s \in Slots
        PROVE  AboutShown(calls[s])'
    <3>1. AboutShown(calls[s])
      BY <2>1 DEF Alone
    <3> QED BY <1>3, <1>4, <1>5, <3>1 DEF AboutShown, BelongsToCode, page
  <2> QED BY <1>4, <2>2, <2>3, <2>4 DEF Alone
<1>8. \A s \in Slots : CallInv(calls'[s])
  BY <1>3, <1>5 DEF ScanInv
<1> QED BY <1>4, <1>6, <1>7, <1>8 DEF ScanInv, AmountOfItsCode, page

(* The other steps of the page, of the engine and of the clock.               *)
LEMMA OtherSteps ==
  ASSUME ScanInv, SwitchCamera \/ TypeAmount \/ TimerFires \/ Engine \/ QuoteRunsOut
  PROVE  ScanInv'
<1>1. CASE SwitchCamera
  <2>1. TypeOK'
    BY <1>1 DEF SwitchCamera, ScanInv, TypeOK, page
  <2>2. Alone => Alone'
    BY <1>1 DEF SwitchCamera, Alone, InFlight, ShowsOneMerchant, BelongsToCode, AboutShown, page
  <2> QED BY <1>1, <2>1, <2>2 DEF SwitchCamera, ScanInv, AmountOfItsCode, page
<1>2. CASE TypeAmount
  <2>1. PICK a \in Amounts : amount' = [value |-> a, of |-> parsed]
    BY <1>2 DEF TypeAmount
  <2>2. amount' \in AmountSet /\ amount'.of = parsed
    BY <2>1 DEF AmountSet, ScanInv, TypeOK
  <2>3. TypeOK'
    BY <1>2, <2>2 DEF TypeAmount, ScanInv, TypeOK
  <2>4. Alone => Alone'
    BY <1>2 DEF TypeAmount, Alone, InFlight, ShowsOneMerchant, BelongsToCode, AboutShown
  <2> QED BY <1>2, <2>2, <2>3, <2>4 DEF TypeAmount, ScanInv, AmountOfItsCode
<1>3. CASE TimerFires
  <2>1. TypeOK'
    BY <1>3 DEF TimerFires, ScanInv, TypeOK
  <2>2. Alone => Alone'
    BY <1>3 DEF TimerFires, Alone, InFlight, ShowsOneMerchant, BelongsToCode, AboutShown
  <2> QED BY <1>3, <2>1, <2>2 DEF TimerFires, ScanInv, AmountOfItsCode
<1>4. CASE Engine
  <2>0. PICK i \in DOMAIN payments : \E to \in Edges[payments[i].status] :
          payments' = [payments EXCEPT ![i].status = to]
    BY <1>4 DEF Engine
  <2>1. PICK to \in Edges[payments[i].status] : payments' = [payments EXCEPT ![i].status = to]
    BY <2>0
  <2>2. i \in 1 .. Len(payments) /\ payments[i] \in PaymentSet
    BY LenProperties, ElementOfSeq DEF ScanInv, TypeOK
  <2>3. to \in States
    BY <2>1, <2>2, EdgeToState DEF PaymentSet
  <2>4. Grow
    BY <1>4, <2>1, <2>2, <2>3, StatusMoves DEF Engine
  <2> QED BY <1>4, <2>4, PaymentsStep DEF Engine
<1>5. CASE QuoteRunsOut
  <2>1. payments' = payments /\ expired' \subseteq DOMAIN payments
    BY <1>5 DEF QuoteRunsOut, ScanInv, TypeOK
  <2> QED BY <1>5, <2>1, SamePayments, PaymentsStep DEF QuoteRunsOut
<1> QED BY <1>1, <1>2, <1>3, <1>4, <1>5

------------------------------------------------------------------------------
(* The replies.                                                               *)

(* A run comes to its end: what it shows instead is a payment of the shown    *)
(* code, if no call has overlapped it.                                        *)
LEMMA FinishStep ==
  ASSUME ScanInv, NEW s \in Slots, NEW step \in Steps \ {"parse"}, Finish(s, step),
         UNCHANGED <<parsed, amount>>, quoteExpired' \in BOOLEAN,
         payment' \in [id : Nat, status : States \cup {"none"}],
         {quote', payment'.id} \subseteq {quote, payment.id, calls[s].id}
  PROVE  ScanInv'
<1>1. /\ calls[s].step = step /\ calls' = [calls EXCEPT ![s] = Idle] /\ busy' = FALSE
      /\ overlapped' = overlapped /\ UNCHANGED <<camera, payments, expired>>
  BY DEF Finish, ScanInv, TypeOK
<1>2. calls' \in [Slots -> CallSet] /\ \A t \in Slots : calls'[t] = IF t = s THEN Idle ELSE calls[t]
  BY <1>1, NothingType DEF ScanInv, TypeOK
<1>3. Len(payments) \in Nat /\ calls[s].id \in 0 .. Len(payments)
  BY LenProperties DEF ScanInv, TypeOK, CallSet
<1>4. TypeOK'
  <2>1. \A t \in Slots : calls'[t].id <= Len(payments)
    BY <1>2, <1>3, NothingType DEF ScanInv, TypeOK
  <2> QED BY <1>1, <1>2, <1>3, <2>1 DEF ScanInv, TypeOK
<1>5. \A t \in Slots : CallInv(calls'[t])
  BY <1>2, NothingType DEF ScanInv
<1>6. ASSUME ~ overlapped
      PROVE  Alone'
  <2>1. Alone
    BY <1>6 DEF ScanInv
  <2>2. InFlight' = {}
    BY <1>1, <1>2, <2>1, NothingType DEF Alone, InFlight, Steps
  <2>3. \A n \in {quote, payment.id, calls[s].id} : n # 0 => payments[n].code = parsed
    BY <2>1 DEF Alone, ShowsOneMerchant, AboutShown, BelongsToCode
  <2>4. ShowsOneMerchant'
    BY <1>1, <2>3 DEF ShowsOneMerchant, BelongsToCode
  <2>5. ASSUME NEW t \in Slots
        PROVE  AboutShown(calls[t])'
    <3>1. AboutShown(calls[t])
      BY <2>1 DEF Alone
    <3> QED BY <1>1, <1>2, <3>1, NothingType DEF AboutShown, BelongsToCode
  <2> QED BY <2>2, <2>4, <2>5 DEF Alone
<1> QED BY <1>1, <1>4, <1>5, <1>6 DEF ScanInv, AmountOfItsCode

(* A code has been read: the page starts afresh.                              *)
LEMMA ParsedStep ==
  ASSUME ScanInv, NEW s \in Slots, Parsed(s)
  PROVE  ScanInv'
<1>1. /\ calls[s].step = "parse" /\ calls[s].at = "answered"
      /\ calls' = [calls EXCEPT ![s] = Idle] /\ busy' = FALSE
      /\ overlapped' = (overlapped /\ InFlight # {s}) /\ UNCHANGED <<camera, payments, expired>>
      /\ parsed' = calls[s].code /\ quote' = 0 /\ quoteExpired' = FALSE /\ payment' = NoPayment
  BY DEF Parsed, Finish, ScanInv, TypeOK
<1>2. calls' \in [Slots -> CallSet] /\ \A t \in Slots : calls'[t] = IF t = s THEN Idle ELSE calls[t]
  BY <1>1, NothingType DEF ScanInv, TypeOK
<1>3. Len(payments) \in Nat /\ parsed' \in Readable
  BY <1>1, LenProperties DEF ScanInv, TypeOK, CallInv
<1>4. amount' \in AmountSet /\ (amount' = NoAmount \/ amount'.of = parsed')
  <2>1. CASE calls[s].code.next = "confirm"
    <3>1. amount' = [value |-> parsed'.amount, of |-> parsed']
      BY <1>1, <2>1 DEF Parsed
    <3> QED BY <1>3, <3>1 DEF AmountSet, Code
  <2>2. CASE calls[s].code.next # "confirm"
    BY <2>2, NothingType DEF Parsed
  <2> QED BY <2>1, <2>2
<1>5. payment' \in [id : Nat, status : States \cup {"none"}] /\ payment'.id = 0
  BY <1>1 DEF NoPayment
<1>6. TypeOK'
  <2>1. \A t \in Slots : calls'[t].id <= Len(payments)
    BY <1>2, <1>3, NothingType DEF ScanInv, TypeOK
  <2>2. {quote', payment'.id} \subseteq 0 .. Len(payments')
    BY <1>1, <1>3, <1>5
  <2>3. {camera', quoteExpired', busy', overlapped'} \subseteq BOOLEAN
    BY <1>1 DEF ScanInv, TypeOK
  <2>4. payments' \in Seq(PaymentSet) /\ expired' \subseteq DOMAIN payments' /\ parsed' \in Code
    BY <1>1, <1>3 DEF ScanInv, TypeOK, Code
  <2> QED BY <1>1, <1>2, <1>4, <1>5, <2>1, <2>2, <2>3, <2>4 DEF TypeOK
<1>7. \A t \in Slots : CallInv(calls'[t])
  BY <1>2, NothingType DEF ScanInv
<1>8. ASSUME ~ overlapped'
      PROVE  Alone'
  <2>1. InFlight \subseteq {s}
    BY <1>1, <1>8 DEF ScanInv, TypeOK, Alone, InFlight
  <2>2. \A t \in Slots : calls'[t] = Idle
    BY <1>2, <2>1 DEF InFlight, ScanInv, CallInv
  <2>3. InFlight' = {}
    BY <2>2, NothingType DEF InFlight
  <2> QED BY <1>1, <1>5, <2>2, <2>3, NothingType
      DEF Alone, ShowsOneMerchant, AboutShown, BelongsToCode
<1> QED BY <1>1, <1>4, <1>6, <1>7, <1>8 DEF ScanInv, AmountOfItsCode

LEMMA TakeStep ==
  ASSUME ScanInv, NEW s \in Slots, Lose(s) \/ TakeReply(s)
  PROVE  ScanInv'
<1>1. CASE Lose(s)
  <2>1. Grow /\ calls[s].step \in Steps
    BY <1>1, SamePayments, LiveCall DEF Lose, ScanInv, TypeOK
  <2> QED BY <1>1, <2>1, RefuseStep DEF Lose
<1>2. CASE Parsed(s)
  BY <1>2, ParsedStep
<1>3. CASE Quoted(s)
  <2>1. calls[s].id \in Nat /\ Finish(s, "quote")
    BY <1>3 DEF Quoted, ScanInv, TypeOK, CallSet
  <2> QED BY <1>3, <2>1, FinishStep DEF Quoted, Steps, ScanInv, TypeOK
<1>4. CASE Authorized(s)
  <2>1. /\ Grow /\ calls[s].step = "authorize" /\ calls[s].at = "answered"
        /\ Len(payments) \in Nat /\ payments' = payments
    BY <1>4, SamePayments, LenProperties DEF Authorized, ScanInv, TypeOK
  <2>2. /\ calls[s].id \in 1 .. Len(payments)
        /\ overlapped \/ payments[calls[s].id].code = parsed
    BY <2>1, OfPayment
  <2>3. PICK call : call = [Asks("execute") EXCEPT !.id = calls[s].id]
    OBVIOUS
  <2>4. call \in CallSet
    <3>1. Asks("execute") \in CallSet /\ calls[s].id \in Nat
      BY <2>1, <2>2, AsksType DEF Steps
    <3> QED BY <2>3, <3>1, FieldSet
  <2>5. call.id = calls[s].id /\ call.step = "execute" /\ call.at = "sent"
    BY <2>3, AsksType DEF Steps, CallSet
  <2>6. CallInv(call)
    BY <2>2, <2>5 DEF CallInv
  <2>7. /\ calls[s].step # "-" /\ calls' = [calls EXCEPT ![s] = call]
        /\ UNCHANGED <<camera, page, overlapped>> /\ busy' = busy
        /\ call.id <= Len(payments')
        /\ overlapped \/ payments'[call.id].code = parsed
        /\ ~ (call.step = "quote" /\ call.at = "sent")
    BY <1>4, <2>1, <2>2, <2>3, <2>5 DEF Authorized, Reply
  <2> QED BY <2>1, <2>4, <2>6, <2>7, ReplyStep
<1>5. CASE Shows(s)
  <2>1. PICK step \in Steps \ {"parse"} : Finish(s, step)
    BY <1>5 DEF Shows, Steps
  <2>2. payment' \in [id : Nat, status : States \cup {"none"}] /\ payment'.id = calls[s].id
    BY <1>5 DEF Shows, ScanInv, TypeOK, CallSet
  <2> QED BY <1>5, <2>1, <2>2, FinishStep DEF Shows, ScanInv, TypeOK
<1>6. CASE Failed(s)
  <2>1. Grow /\ calls[s].step # "-"
    BY <1>6, SamePayments, LiveCall DEF Failed, Steps, ScanInv, TypeOK
  <2>2. PICK call \in CallSet : call = Idle
    BY NothingType
  <2>3. /\ CallInv(call) /\ call.id = 0 /\ call.step = "-"
        /\ calls' = [calls EXCEPT ![s] = call] /\ busy' = FALSE
        /\ UNCHANGED <<camera, page, overlapped>> /\ call.id <= Len(payments')
    <3>1. Len(payments') \in Nat
      BY <2>1, LenProperties DEF Grow
    <3> QED BY <1>6, <2>2, <3>1, NothingType DEF Failed
  <2> QED BY <2>1, <2>2, <2>3, ReplyStep
<1> QED BY <1>1, <1>2, <1>3, <1>4, <1>5, <1>6 DEF TakeReply

------------------------------------------------------------------------------
(* The results.                                                               *)

LEMMA InitScan == Init => ScanInv
<1> SUFFICES ASSUME Init
             PROVE  ScanInv
  OBVIOUS
<1>1. payments \in Seq(PaymentSet) /\ Len(payments) = 0 /\ DOMAIN payments = {}
  BY EmptySeq, LenProperties DEF Init
<1>2. TypeOK
  <2>1. payment \in [id : Nat, status : States \cup {"none"}] /\ {quote, payment.id} \subseteq {0}
    BY DEF Init, NoPayment
  <2>2. calls \in [Slots -> CallSet] /\ \A s \in Slots : calls[s].id <= 0
    BY NothingType DEF Init
  <2>3. 0 \in 0 .. Len(payments) /\ expired \subseteq DOMAIN payments
    BY <1>1 DEF Init
  <2>4. parsed \in Code /\ amount \in AmountSet
    BY NothingType DEF Init
  <2> QED BY <1>1, <2>1, <2>2, <2>3, <2>4 DEF Init, TypeOK
<1>3. InFlight = {} /\ \A s \in Slots : calls[s] = Idle
  BY NothingType DEF Init, InFlight
<1> QED BY <1>1, <1>2, <1>3, NothingType
    DEF Init, ScanInv, Alone, ShowsOneMerchant, AboutShown, BelongsToCode, AmountOfItsCode, NoPayment

LEMMA ScanStep == ScanInv /\ [Next]_vars => ScanInv'
<1> SUFFICES ASSUME ScanInv, [Next]_vars
             PROVE  ScanInv'
  OBVIOUS
<1>1. CASE PressParse \/ PressQuote \/ PressPay \/ PressRefresh \/ PressCancel
  BY <1>1, PressStep
<1>2. CASE CameraReads
  BY <1>2, CameraStep
<1>3. CASE SwitchCamera \/ TypeAmount \/ TimerFires \/ Engine \/ QuoteRunsOut
  BY <1>3, OtherSteps
<1>4. CASE \E s \in Slots : Serve(s) \/ Lose(s) \/ TakeReply(s)
  BY <1>4, ServeStep, TakeStep
<1>5. CASE UNCHANGED vars
  <2>1. Grow
    BY <1>5, SamePayments DEF vars, ScanInv, TypeOK
  <2> QED BY <1>5, <2>1, PaymentsStep DEF vars
<1> QED BY <1>1, <1>2, <1>3, <1>4, <1>5 DEF Next

(* The page, its calls and the payments keep their types; a call about a      *)
(* payment names one on record, and while no code is read during a call it is *)
(* about the code that is shown.                                              *)
THEOREM ScanInvariance == Spec => []ScanInv
BY InitScan, ScanStep, PTL DEF Spec

(* No quote is asked for with the amount of another code, overlapped or not.  *)
THEOREM AmountOfItsCodeAlways == Spec => []AmountOfItsCode
<1>1. ScanInv => AmountOfItsCode
  BY DEF ScanInv
<1> QED BY <1>1, ScanInvariance, PTL

(* Unless the camera read a code during a call, the quote and the payment     *)
(* under a merchant's name are this merchant's.                               *)
THEOREM OneMerchantAlways == Spec => []OneMerchantUnlessOverlapped
<1>1. ScanInv => OneMerchantUnlessOverlapped
  BY DEF ScanInv, Alone, OneMerchantUnlessOverlapped
<1> QED BY <1>1, ScanInvariance, PTL

(* With the same exception no button starts a call while another is under way.*)
THEOREM OneCallAlways == Spec => []OneCallUnlessOverlapped
<1>1. ScanInv => OneCallUnlessOverlapped
  <2> SUFFICES ASSUME ScanInv, ~ overlapped
               PROVE  Cardinality(InFlight) <= 1
    BY DEF OneCallUnlessOverlapped
  <2>1. CASE InFlight = {}
    BY <2>1, FS_EmptySet
  <2>2. ASSUME NEW s \in InFlight
        PROVE  Cardinality(InFlight) <= 1
    <3>1. InFlight = {s}
      BY DEF ScanInv, Alone
    <3>2. Cardinality(InFlight) = 1
      BY <3>1, FS_Singleton
    <3> QED BY <3>2
  <2> QED BY <2>1, <2>2
<1> QED BY <1>1, ScanInvariance, PTL
------------------------------------------------------------------------------
(* Reading a payload.  The recursive functions of QrisParse exist: the least  *)
(* distance from the end at which one did not would have one made from the    *)
(* one before it.                                                             *)

LEMMA Least ==
  ASSUME NEW B \in SUBSET Nat, B # {}
  PROVE  \E m \in B : \A k \in B : m <= k
<1>1. PICK m \in B : \A k \in B : ~ (<<k, m>> \in OpToRel(<, Nat))
  BY NatLessThanWellFounded, WFMin
<1>2. \A k \in B : ~ (k < m)
  BY <1>1 DEF OpToRel
<1> QED BY <1>2

Text  == Seq(Word)
Field == [id : Word, value : Text]

(* What parseTLVs() makes of a text from place i on, once g has read what     *)
(* follows.                                                                   *)
Cell(s, i, g) ==
  IF i = Len(s) + 1 THEN [ok |-> TRUE, fields |-> <<>>]
  ELSE IF \/ i + 1 > Len(s) \/ ~ {s[i], s[i + 1]} \subseteq TwoDigits
          \/ i + 2 + s[i + 1] > Len(s) + 1 THEN Refused
  ELSE LET rest == g[i + 2 + s[i + 1]] IN
       IF ~ rest.ok THEN Refused
       ELSE [ok |-> TRUE, fields |->
               <<[id |-> s[i], value |-> SubSeq(s, i + 2, i + 1 + s[i + 1])]>> \o rest.fields]

WalkRule(s, j, g) == g = [i \in j .. Len(s) + 1 |-> Cell(s, i, g)]

LEMMA CellLocal ==
  ASSUME NEW s, Len(s) \in Nat, NEW i \in 1 .. Len(s) + 1, NEW g, NEW h,
         \A k \in i + 1 .. Len(s) + 1 : g[k] = h[k]
  PROVE  Cell(s, i, g) = Cell(s, i, h)
<1>1. CASE \/ i = Len(s) + 1
           \/ i + 1 > Len(s) \/ ~ {s[i], s[i + 1]} \subseteq TwoDigits
           \/ i + 2 + s[i + 1] > Len(s) + 1
  BY <1>1 DEF Cell
<1>2. CASE ~ (\/ i = Len(s) + 1
              \/ i + 1 > Len(s) \/ ~ {s[i], s[i + 1]} \subseteq TwoDigits
              \/ i + 2 + s[i + 1] > Len(s) + 1)
  <2>0. s[i + 1] \in 0 .. 99 /\ ~ (i + 2 + s[i + 1] > Len(s) + 1)
    BY <1>2 DEF TwoDigits
  <2>1. i + 2 + s[i + 1] \in i + 1 .. Len(s) + 1
    <3>1. PICK n : n = s[i + 1]
      OBVIOUS
    <3>3. n \in 0 .. 99 /\ ~ (i + 2 + n > Len(s) + 1) /\ i \in Int /\ i >= 1
      BY <2>0, <3>1
    <3>2. i + 2 + n \in i + 1 .. Len(s) + 1
      <4>1. PICK e \in Nat : e = Len(s)
        OBVIOUS
      <4>2. i + 2 + n \in i + 1 .. e + 1
        BY <3>3, <4>1
      <4> QED BY <4>1, <4>2
    <3> QED BY <3>1, <3>2
  <2>2. g[i + 2 + s[i + 1]] = h[i + 2 + s[i + 1]]
    BY <2>1
  <2> QED BY <1>2, <2>2 DEF Cell
<1> QED BY <1>1, <1>2

LEMMA WalkExists ==
  ASSUME NEW s, Len(s) \in Nat
  PROVE  \E g : WalkRule(s, 1, g)
<1> DEFINE end == Len(s) + 1
           B == {k \in Nat : k <= Len(s) /\ ~ \E g : WalkRule(s, end - k, g)}
<1>1. ASSUME B # {}
      PROVE  FALSE
  <2>1. PICK k \in B : \A l \in B : k <= l
    <3> HIDE DEF B
    <3> QED BY <1>1, Least DEF B
  <2> DEFINE j == end - k
  <2>2. j \in 1 .. end
    BY <2>1
  <2>3. CASE k = 0
    <3> DEFINE h == [i \in j .. end |-> Cell(s, i, <<>>)]
    <3>1. j = end
      BY <2>1, <2>3
    <3>2. \A i \in j .. end : Cell(s, i, <<>>) = Cell(s, i, h)
      <4> SUFFICES ASSUME NEW i \in j .. end
                   PROVE  Cell(s, i, <<>>) = Cell(s, i, h)
        OBVIOUS
      <4>1. i = Len(s) + 1
        BY <3>1
      <4> HIDE DEF h, j
      <4> QED BY <4>1 DEF Cell
    <3>3. h = [i \in j .. end |-> Cell(s, i, h)]
      BY <3>2
    <3> QED BY <2>1, <3>3 DEF WalkRule
  <2>4. CASE k # 0
    <3>1. k - 1 \in Nat /\ k - 1 <= Len(s) /\ k - 1 \notin B /\ end - (k - 1) = j + 1
      BY <2>1, <2>4
    <3>2. PICK g : WalkRule(s, j + 1, g)
      BY <3>1
    <3> DEFINE h == [i \in j .. end |-> IF i = j THEN Cell(s, j, g) ELSE g[i]]
    <3>3. \A i \in j + 1 .. end : g[i] = Cell(s, i, g)
      BY <3>2 DEF WalkRule
    <3>4. \A i \in j .. end : h[i] = Cell(s, i, h)
      <4> SUFFICES ASSUME NEW i \in j .. end
                   PROVE  h[i] = Cell(s, i, h)
        OBVIOUS
      <4> HIDE DEF j
      <4>0. j \in Int /\ i \in 1 .. end /\ (i = j \/ i \in j + 1 .. end)
        BY <2>2
      <4>1. h[i] = Cell(s, i, g)
        BY <3>3, <4>0
      <4>2. \A l \in i + 1 .. end : g[l] = h[l]
        <5> SUFFICES ASSUME NEW l \in i + 1 .. end
                     PROVE  g[l] = h[l]
          OBVIOUS
        <5>1. l \in j .. end /\ l # j
          BY <4>0
        <5> QED BY <5>1
      <4> HIDE DEF h
      <4> QED BY <4>0, <4>1, <4>2, CellLocal
    <3>5. h = [i \in j .. end |-> Cell(s, i, h)]
      BY <3>4
    <3> QED BY <2>1, <3>5 DEF WalkRule
  <2> QED BY <2>3, <2>4
<1>2. Len(s) \in Nat /\ Len(s) <= Len(s) /\ end - Len(s) = 1
  OBVIOUS
<1> QED BY <1>1, <1>2

LEMMA ParseIsWalk ==
  ASSUME NEW s, Len(s) \in Nat
  PROVE  \E g : WalkRule(s, 1, g) /\ ParseTLVs(s) = g[1]
<1> DEFINE walk == CHOOSE g : WalkRule(s, 1, g)
<1>1. ParseTLVs(s) = walk[1]
  BY DEF ParseTLVs, WalkRule, Cell
<1>2. WalkRule(s, 1, walk)
  BY WalkExists
<1> QED BY <1>1, <1>2

(* What Encode makes of the fields from place i on.                           *)
FromRule(f, j, g) ==
  g = [i \in j .. Len(f) + 1 |->
         IF i = Len(f) + 1 THEN <<>>
         ELSE <<f[i].id, Len(f[i].value)>> \o f[i].value \o g[i + 1]]

LEMMA FromExists ==
  ASSUME NEW f, Len(f) \in Nat
  PROVE  \E g : FromRule(f, 1, g)
<1> DEFINE end == Len(f) + 1
           B == {k \in Nat : k <= Len(f) /\ ~ \E g : FromRule(f, end - k, g)}
           one(i) == <<f[i].id, Len(f[i].value)>> \o f[i].value
<1>1. ASSUME B # {}
      PROVE  FALSE
  <2>1. PICK k \in B : \A l \in B : k <= l
    <3> HIDE DEF B
    <3> QED BY <1>1, Least DEF B
  <2> DEFINE j == end - k
  <2>2. j \in 1 .. end
    BY <2>1
  <2>3. CASE k = 0
    <3>1. FromRule(f, end, [i \in end .. end |-> <<>>])
      BY DEF FromRule
    <3> QED BY <2>1, <2>3, <3>1
  <2>4. CASE k # 0
    <3>1. k - 1 \in Nat /\ k - 1 <= Len(f) /\ k - 1 \notin B /\ end - (k - 1) = j + 1 /\ j # end
      BY <2>1, <2>4
    <3>2. PICK g : FromRule(f, j + 1, g)
      BY <3>1
    <3> DEFINE h == [i \in j .. end |-> IF i = j THEN one(j) \o g[j + 1] ELSE g[i]]
    <3> HIDE DEF one
    <3>3. \A i \in j + 1 .. end : g[i] = IF i = end THEN <<>> ELSE one(i) \o g[i + 1]
      BY <3>2 DEF FromRule, one
    <3>4. \A i \in j .. end : h[i] = IF i = end THEN <<>> ELSE one(i) \o h[i + 1]
      <4> SUFFICES ASSUME NEW i \in j .. end
                   PROVE  h[i] = IF i = end THEN <<>> ELSE one(i) \o h[i + 1]
        OBVIOUS
      <4>0. j # end
        BY <3>1
      <4> HIDE DEF j
      <4>1. CASE i = j
        <5>1. j + 1 \in j .. end /\ j + 1 # j
          BY <2>2, <4>0
        <5> QED BY <4>0, <4>1, <5>1
      <4>2. CASE i # j
        <5>1. i \in j + 1 .. end
          BY <2>2, <4>2
        <5>2. i # end => i + 1 \in j .. end /\ i + 1 # j
          BY <2>2, <5>1
        <5>3. h[i] = g[i] /\ (i # end => h[i + 1] = g[i + 1])
          BY <4>2, <5>2
        <5> HIDE DEF h
        <5> QED BY <3>3, <5>1, <5>3
      <4> QED BY <4>1, <4>2
    <3>5. h = [i \in j .. end |-> IF i = end THEN <<>> ELSE one(i) \o h[i + 1]]
      BY <3>4
    <3> HIDE DEF h
    <3>6. FromRule(f, j, h)
      BY <3>5 DEF FromRule, one
    <3> QED BY <2>1, <3>6
  <2> QED BY <2>3, <2>4
<1>2. Len(f) \in Nat /\ Len(f) <= Len(f) /\ end - Len(f) = 1
  OBVIOUS
<1> QED BY <1>1, <1>2

LEMMA EncodeIsFrom ==
  ASSUME NEW f, Len(f) \in Nat
  PROVE  \E g : FromRule(f, 1, g) /\ Encode(f) = g[1]
<1> DEFINE from == CHOOSE g : FromRule(f, 1, g)
<1>1. Encode(f) = from[1]
  BY DEF Encode, FromRule
<1>2. FromRule(f, 1, from)
  BY FromExists
<1> QED BY <1>1, <1>2

LEMMA EncodeEmpty == Encode(<<>>) = <<>>
<1>1. Len(<<>>) = 0
  OBVIOUS
<1>2. PICK g : FromRule(<<>>, 1, g) /\ Encode(<<>>) = g[1]
  BY <1>1, EncodeIsFrom
<1> QED BY <1>1, <1>2 DEF FromRule

(* A field in front of others is encoded in front of them.                    *)
LEMMA EncodeCons ==
  ASSUME NEW x \in Field, NEW r \in Seq(Field)
  PROVE  Encode(<<x>> \o r) = <<x.id, Len(x.value)>> \o x.value \o Encode(r)
<1> DEFINE c == <<x>> \o r
           n == Len(r) + 1
<1>1. /\ Len(r) \in Nat /\ Len(c) = n /\ c[1] = x
      /\ \A i \in 1 .. Len(r) : c[i + 1] = r[i]
  BY LenProperties
<1> HIDE DEF c
<1>2. PICK g : FromRule(c, 1, g) /\ Encode(c) = g[1]
  BY <1>1, EncodeIsFrom
<1>3. PICK h : FromRule(r, 1, h) /\ Encode(r) = h[1]
  BY <1>1, EncodeIsFrom
<1> DEFINE one(f) == <<f.id, Len(f.value)>> \o f.value
<1>4. \A i \in 1 .. n + 1 : g[i] = IF i = n + 1 THEN <<>> ELSE one(c[i]) \o g[i + 1]
  BY <1>1, <1>2 DEF FromRule
<1>5. \A i \in 1 .. n : h[i] = IF i = n THEN <<>> ELSE one(r[i]) \o h[i + 1]
  BY <1>1, <1>3 DEF FromRule
<1> HIDE DEF one
<1>6. \A i \in 1 .. n : g[i + 1] = h[i]
  <2> DEFINE B == {k \in Nat : k <= Len(r) /\ g[(n - k) + 1] # h[n - k]}
  <2>1. ASSUME B # {}
        PROVE  FALSE
    <3>1. PICK k \in B : \A l \in B : k <= l
      <4> HIDE DEF B
      <4> QED BY <2>1, Least DEF B
    <3>2. k # 0
      BY <1>1, <1>4, <1>5, <3>1
    <3> DEFINE i == n - k
    <3>3. i \in 1 .. Len(r) /\ i + 1 \in 1 .. n /\ n - (k - 1) = i + 1 /\ k - 1 \in Nat /\ k - 1 <= Len(r)
      BY <1>1, <3>1, <3>2
    <3>4. g[(i + 1) + 1] = h[i + 1]
      BY <3>1, <3>3
    <3>5. c[i + 1] = r[i]
      BY <1>1, <3>3
    <3> HIDE DEF n
    <3>6. g[i + 1] = one(c[i + 1]) \o g[(i + 1) + 1] /\ h[i] = one(r[i]) \o h[i + 1]
      <4>1. i + 1 \in 1 .. n + 1 /\ i + 1 # n + 1 /\ i \in 1 .. n /\ i # n
        BY <1>1, <3>3 DEF n
      <4> HIDE DEF i
      <4> QED BY <1>4, <1>5, <4>1
    <3> QED BY <3>1, <3>4, <3>5, <3>6
  <2> SUFFICES ASSUME NEW i \in 1 .. n
               PROVE  g[i + 1] = h[i]
    OBVIOUS
  <2>2. n - i \in Nat /\ n - i <= Len(r) /\ n - (n - i) = i
    BY <1>1
  <2> QED BY <2>1, <2>2
<1>7. g[1] = one(x) \o g[2] /\ g[2] = h[1]
  <2>1. 1 \in 1 .. n + 1 /\ 1 # n + 1 /\ 1 \in 1 .. n /\ 1 + 1 = 2
    BY <1>1
  <2> HIDE DEF n
  <2> QED BY <1>1, <1>4, <1>6, <2>1
<1> QED BY <1>2, <1>3, <1>7 DEF c, one

(* What has been read from a place on spells the text from that place on.     *)
LEMMA WalkSpells ==
  ASSUME NEW s \in Text, NEW g, WalkRule(s, 1, g)
  PROVE  \A i \in 1 .. Len(s) + 1 :
           g[i].ok => g[i].fields \in Seq(Field) /\ Encode(g[i].fields) = SubSeq(s, i, Len(s))
<1> DEFINE end == Len(s) + 1
           Spells(i) == g[i].ok => g[i].fields \in Seq(Field) /\ Encode(g[i].fields) = SubSeq(s, i, Len(s))
           B == {k \in Nat : k <= Len(s) /\ ~ Spells(end - k)}
<1>0. Len(s) \in Nat
  BY LenProperties DEF Text
<1>1. ASSUME B # {}
      PROVE  FALSE
  <2>1. PICK k \in B : \A l \in B : k <= l
    <3> HIDE DEF B
    <3> QED BY <1>1, Least DEF B
  <2> DEFINE i == end - k
  <2>2. i \in 1 .. end /\ \A j \in i + 1 .. end : Spells(j)
    <3>1. i \in 1 .. end
      BY <1>0, <2>1
    <3> SUFFICES ASSUME NEW j \in i + 1 .. end
                 PROVE  Spells(j)
      BY <3>1
    <3>2. end - j \in Nat /\ end - j <= Len(s) /\ end - j < k /\ end - (end - j) = j
      BY <1>0, <2>1
    <3>3. end - j \notin B
      BY <1>0, <2>1, <3>2
    <3> HIDE DEF Spells
    <3> QED BY <3>2, <3>3
  <2>3. ~ Spells(i)
    BY <2>1
  <2> HIDE DEF i, B
  <2>4. g[i] = Cell(s, i, g)
    BY <2>2 DEF WalkRule
  <2>5. CASE i = end
    <3>1. g[i].fields = <<>>
      BY <2>4, <2>5 DEF Cell
    <3>2. SubSeq(s, end, Len(s)) = <<>>
      BY <1>0 DEF Text
    <3>3. <<>> \in Seq(Field)
      BY EmptySeq
    <3> QED BY <2>3, <2>5, <3>1, <3>2, <3>3, EncodeEmpty
  <2>6. CASE i # end
    <3> DEFINE n == s[i + 1]
               next == i + 2 + n
               x == [id |-> s[i], value |-> SubSeq(s, i + 2, i + 1 + n)]
    <3>1. g[i].ok
      BY <2>3
    <3>2. /\ ~ (i + 1 > Len(s)) /\ {s[i], n} \subseteq TwoDigits /\ ~ (next > end)
          /\ g[next].ok /\ g[i].fields = <<x>> \o g[next].fields
      <4>1. ~ Refused.ok
        BY DEF Refused
      <4> QED BY <2>4, <2>6, <3>1, <4>1 DEF Cell
    <3>3. n \in 0 .. 99 /\ s[i] \in 0 .. 99 /\ i \in 1 .. Len(s) /\ i + 1 \in 1 .. Len(s)
          /\ next \in i + 1 .. end
      <4>1. n \in 0 .. 99 /\ s[i] \in 0 .. 99
        BY <3>2 DEF TwoDigits
      <4> HIDE DEF n
      <4> QED BY <1>0, <2>2, <2>6, <3>2, <4>1
    <3>4. g[next].fields \in Seq(Field) /\ Encode(g[next].fields) = SubSeq(s, next, Len(s))
      BY <2>2, <3>2, <3>3
    <3> HIDE DEF Spells
    <3>5. SubSeq(s, i + 2, i + 1 + n) \in Text /\ Len(SubSeq(s, i + 2, i + 1 + n)) = n
      <4> HIDE DEF n
      <4>1. i + 1 + n \in i + 1 .. Len(s)
        BY <1>0, <2>2, <3>2, <3>3
      <4> DEFINE m == i + 2
                 o == i + 1 + n
      <4>2. m \in Int /\ o \in Int /\ (IF m <= o THEN o - m + 1 ELSE 0) = n
            /\ \A l \in m .. o : l \in 1 .. Len(s)
        BY <1>0, <2>2, <3>3, <4>1
      <4>3. \A l \in m .. o : s[l] \in Word
        BY <4>2, ElementOfSeq DEF Text
      <4> HIDE DEF m, o
      <4>4. SubSeq(s, m, o) \in Text /\ Len(SubSeq(s, m, o)) = n
        BY <4>2, <4>3, SubSeqProperties DEF Text
      <4> QED BY <4>4 DEF m, o
    <3>6. x \in Field
      BY <1>0, <3>3, <3>5 DEF Field, Text
    <3>7. <<x>> \o g[next].fields \in Seq(Field)
      BY <3>4, <3>6
    <3>8. Encode(g[i].fields) = <<x.id, Len(x.value)>> \o x.value \o SubSeq(s, next, Len(s))
      BY <3>2, <3>4, <3>6, EncodeCons
    <3>9. <<s[i], n>> \o SubSeq(s, i + 2, i + 1 + n) \o SubSeq(s, next, Len(s)) = SubSeq(s, i, Len(s))
      <4> DEFINE a == i + 1
                 b == i + 1 + n
      <4>1. SubSeq(s, i, a) = <<s[i], n>>
        <5> HIDE DEF n
        <5>1. i \in Int /\ a \in Int /\ i <= a /\ a - i + 1 = 2 /\ i + 1 - 1 = i /\ i + 2 - 1 = a
              /\ \A l \in i .. a : l \in 1 .. Len(s)
          BY <1>0, <3>3
        <5>2. \A l \in i .. a : s[l] \in Word
          BY <5>1, ElementOfSeq DEF Text
        <5> HIDE DEF a
        <5>3. /\ SubSeq(s, i, a) \in Seq(Word) /\ Len(SubSeq(s, i, a)) = 2
              /\ SubSeq(s, i, a)[1] = s[i] /\ SubSeq(s, i, a)[2] = s[a]
          BY <5>1, <5>2, SubSeqProperties
        <5>4. SubSeq(s, i, a) = <<s[i], s[a]>>
          <6> DEFINE two == <<s[i], s[a]>>
          <6>1. two \in Seq(Word) /\ Len(two) = 2 /\ two[1] = s[i] /\ two[2] = s[a]
            BY <5>1, <5>2
          <6>2. \A l \in 1 .. 2 : SubSeq(s, i, a)[l] = two[l]
            BY <5>3, <6>1
          <6> HIDE DEF two
          <6>3. SubSeq(s, i, a) = two
            BY <5>3, <6>1, <6>2, SeqEqual
          <6> QED BY <6>3 DEF two
        <5> QED BY <5>4 DEF n, a
      <4>2. i \in 1 .. Len(s) + 1 /\ a \in i - 1 .. Len(s) /\ b \in a .. Len(s) /\ b \in i - 1 .. Len(s)
            /\ Len(s) \in b .. Len(s) /\ a + 1 = i + 2 /\ b + 1 = next
        <5> HIDE DEF n
        <5> QED BY <1>0, <2>2, <3>2, <3>3
      <4> HIDE DEF a, b
      <4>3. SubSeq(s, i, a) \o SubSeq(s, a + 1, b) = SubSeq(s, i, b)
        BY <4>2, ConcatAdjacentSubSeq DEF Text
      <4>4. SubSeq(s, i, b) \o SubSeq(s, b + 1, Len(s)) = SubSeq(s, i, Len(s))
        BY <4>2, ConcatAdjacentSubSeq DEF Text
      <4>5. (<<s[i], n>> \o SubSeq(s, i + 2, b)) \o SubSeq(s, next, Len(s)) = SubSeq(s, i, Len(s))
        BY <4>1, <4>2, <4>3, <4>4
      <4> QED BY <4>5 DEF b
    <3> QED BY <2>3, <3>2, <3>5, <3>7, <3>8, <3>9 DEF Spells
  <2> QED BY <2>5, <2>6
<1>2. ASSUME NEW i \in 1 .. end
      PROVE  Spells(i)
  <2>1. end - i \in Nat /\ end - i <= Len(s) /\ end - (end - i) = i
    BY <1>0
  <2> HIDE DEF Spells
  <2> QED BY <1>1, <2>1
<1> QED BY <1>2

(* parseTLVs() loses, adds and reorders nothing, for every text of symbols.   *)
THEOREM ReadingSpells ==
  ASSUME NEW s \in Seq(Word), ParseTLVs(s).ok
  PROVE  ParseTLVs(s).fields \in Seq(Field) /\ Encode(ParseTLVs(s).fields) = s
<1>1. Len(s) \in Nat
  BY LenProperties
<1>2. PICK g : WalkRule(s, 1, g) /\ ParseTLVs(s) = g[1]
  BY <1>1, ParseIsWalk
<1>3. SubSeq(s, 1, Len(s)) = s
  BY SubSeqFull
<1>4. 1 \in 1 .. Len(s) + 1
  BY <1>1
<1> QED BY <1>2, <1>3, <1>4, WalkSpells DEF Text

------------------------------------------------------------------------------
(* The checksum.  The exclusive or is commutative, stays within its width and *)
(* gives back what it was made of, at each width from the one below.          *)

(* The numbers below k, and that the model's intervals are such sets.         *)
Below(k) == {n \in Nat : n < k}

LEMMA IntervalIs ==
  \A m \in Nat : 0 .. m - 1 = Below(m)
BY DEF Below

LEMMA WordIs == Word = Below(256 * 256)
<1>1. 256 * 256 \in Nat
  OBVIOUS
<1> QED BY <1>1, IntervalIs, Zenon DEF Word

LEMMA SymbolIs == Symbol = Below(256)
<1>1. 256 \in Nat /\ 255 = 256 - 1
  OBVIOUS
<1>2. Symbol = 0 .. 256 - 1
  BY <1>1, Zenon DEF Symbol
<1> QED BY <1>1, <1>2, IntervalIs, Zenon

LEMMA Even ==
  ASSUME NEW x \in Nat, NEW k \in Nat
  PROVE  (x + 2 * k) % 2 = x % 2
BY SMT

LEMMA Xor2Facts ==
  /\ \A a, b \in Below(4) : Xor2(a, b) \in Below(4) /\ Xor2(a, b) = Xor2(b, a) /\ Xor2(a, b) % 2 = (a + b) % 2
  /\ \A a, b, c \in Below(4) : Xor2(a, b) = Xor2(c, b) => a = c
<1>1. \A a, b \in Below(4) : Xor2(a, b) \in Below(4) /\ Xor2(a, b) = Xor2(b, a) /\ Xor2(a, b) % 2 = (a + b) % 2
  BY DEF Xor2, Below
<1>2. \A a, b, c \in Below(4) : Xor2(a, b) = Xor2(c, b) => a = c
  BY DEF Xor2, Below
<1> QED BY <1>1, <1>2

LEMMA Join4 ==
  ASSUME NEW x \in Below(4), NEW y \in Below(4)
  PROVE  /\ x + 4 * y \in Below(16) /\ (x + 4 * y) % 2 = x % 2
         /\ \A u, v \in Below(4) : x + 4 * y = u + 4 * v => x = u /\ y = v
<1>1. x + 4 * y \in Below(16) /\ x + 4 * y = x + 2 * (2 * y)
  BY DEF Below
<1>2. (x + 2 * (2 * y)) % 2 = x % 2
  <2>1. x \in Nat /\ 2 * y \in Nat
    BY DEF Below
  <2> QED BY <2>1, Even
<1>3. \A u, v \in Below(4) : x + 4 * y = u + 4 * v => x = u /\ y = v
  BY DEF Below
<1> QED BY <1>1, <1>2, <1>3

LEMMA Split4 ==
  ASSUME NEW a \in Below(16)
  PROVE  a % 4 \in Below(4) /\ a \div 4 \in Below(4) /\ a = (a % 4) + 4 * (a \div 4)
BY DEF Below

LEMMA Xor4Facts ==
  /\ \A a, b \in Below(16) : Xor4(a, b) \in Below(16) /\ Xor4(a, b) = Xor4(b, a) /\ Xor4(a, b) % 2 = (a + b) % 2
  /\ \A a, b, c \in Below(16) : Xor4(a, b) = Xor4(c, b) => a = c
<1>1. ASSUME NEW a \in Below(16), NEW b \in Below(16)
      PROVE  Xor4(a, b) \in Below(16) /\ Xor4(a, b) = Xor4(b, a) /\ Xor4(a, b) % 2 = (a + b) % 2
  <2>1. PICK p, q, u, v \in Below(4) :
          p = a % 4 /\ q = b % 4 /\ u = a \div 4 /\ v = b \div 4 /\ a = p + 4 * u /\ b = q + 4 * v
    BY Split4
  <2>2. PICK x, y \in Below(4) : x = Xor2(p, q) /\ y = Xor2(u, v)
    BY Xor2Facts
  <2>3. x = Xor2(q, p) /\ y = Xor2(v, u) /\ x % 2 = (p + q) % 2
    BY <2>2, Xor2Facts
  <2>4. Xor4(a, b) = x + 4 * y /\ Xor4(b, a) = x + 4 * y
    <3>1. /\ Xor4(a, b) = Xor2(a % 4, b % 4) + 4 * Xor2(a \div 4, b \div 4)
          /\ Xor4(b, a) = Xor2(b % 4, a % 4) + 4 * Xor2(b \div 4, a \div 4)
      BY DEF Xor4
    <3> QED BY <2>1, <2>2, <2>3, <3>1
  <2>5. (a + b) % 2 = (p + q) % 2
    <3>1. a + b = (p + q) + 2 * (2 * (u + v)) /\ p + q \in Nat /\ 2 * (u + v) \in Nat
      BY <2>1 DEF Below
    <3> QED BY <3>1, Even
  <2> QED BY <2>2, <2>3, <2>4, <2>5, Join4
<1>2. ASSUME NEW a \in Below(16), NEW b \in Below(16), NEW c \in Below(16), Xor4(a, b) = Xor4(c, b)
      PROVE  a = c
  <2>1. PICK p, q, u, v \in Below(4) :
          p = a % 4 /\ q = b % 4 /\ u = a \div 4 /\ v = b \div 4 /\ a = p + 4 * u
    BY Split4
  <2>2. PICK r, w \in Below(4) : r = c % 4 /\ w = c \div 4 /\ c = r + 4 * w
    BY Split4
  <2>3. PICK x, y, s, t \in Below(4) :
          x = Xor2(p, q) /\ y = Xor2(u, v) /\ s = Xor2(r, q) /\ t = Xor2(w, v)
    BY Xor2Facts
  <2>4. x + 4 * y = s + 4 * t
    <3>1. Xor4(a, b) = x + 4 * y
      <4>1. Xor4(a, b) = Xor2(a % 4, b % 4) + 4 * Xor2(a \div 4, b \div 4)
        BY DEF Xor4
      <4> QED BY <2>1, <2>3, <4>1
    <3>2. Xor4(c, b) = s + 4 * t
      <4>1. Xor4(c, b) = Xor2(c % 4, b % 4) + 4 * Xor2(c \div 4, b \div 4)
        BY DEF Xor4
      <4> QED BY <2>1, <2>2, <2>3, <4>1
    <3> QED BY <1>2, <3>1, <3>2
  <2>5. x = s /\ y = t
    BY <2>4, Join4
  <2>6. p = r /\ u = w
    BY <2>1, <2>2, <2>3, <2>5, Xor2Facts
  <2> QED BY <2>1, <2>2, <2>6
<1> QED BY <1>1, <1>2

LEMMA Join8 ==
  ASSUME NEW x \in Below(16), NEW y \in Below(16)
  PROVE  /\ x + 16 * y \in Below(256) /\ (x + 16 * y) % 2 = x % 2
         /\ \A u, v \in Below(16) : x + 16 * y = u + 16 * v => x = u /\ y = v
<1>1. x + 16 * y \in Below(256) /\ x + 16 * y = x + 2 * (8 * y)
  BY DEF Below
<1>2. (x + 2 * (8 * y)) % 2 = x % 2
  <2>1. x \in Nat /\ 8 * y \in Nat
    BY DEF Below
  <2> QED BY <2>1, Even
<1>3. \A u, v \in Below(16) : x + 16 * y = u + 16 * v => x = u /\ y = v
  BY DEF Below
<1> QED BY <1>1, <1>2, <1>3

LEMMA Split8 ==
  ASSUME NEW a \in Below(256)
  PROVE  a % 16 \in Below(16) /\ a \div 16 \in Below(16) /\ a = (a % 16) + 16 * (a \div 16)
BY DEF Below

LEMMA Xor8Facts ==
  /\ \A a, b \in Below(256) : Xor8(a, b) \in Below(256) /\ Xor8(a, b) = Xor8(b, a) /\ Xor8(a, b) % 2 = (a + b) % 2
  /\ \A a, b, c \in Below(256) : Xor8(a, b) = Xor8(c, b) => a = c
<1>1. ASSUME NEW a \in Below(256), NEW b \in Below(256)
      PROVE  Xor8(a, b) \in Below(256) /\ Xor8(a, b) = Xor8(b, a) /\ Xor8(a, b) % 2 = (a + b) % 2
  <2>1. PICK p, q, u, v \in Below(16) :
          p = a % 16 /\ q = b % 16 /\ u = a \div 16 /\ v = b \div 16 /\ a = p + 16 * u /\ b = q + 16 * v
    BY Split8
  <2>2. PICK x, y \in Below(16) : x = Xor4(p, q) /\ y = Xor4(u, v)
    BY Xor4Facts
  <2>3. x = Xor4(q, p) /\ y = Xor4(v, u) /\ x % 2 = (p + q) % 2
    BY <2>2, Xor4Facts
  <2>4. Xor8(a, b) = x + 16 * y /\ Xor8(b, a) = x + 16 * y
    <3>1. /\ Xor8(a, b) = Xor4(a % 16, b % 16) + 16 * Xor4(a \div 16, b \div 16)
          /\ Xor8(b, a) = Xor4(b % 16, a % 16) + 16 * Xor4(b \div 16, a \div 16)
      BY DEF Xor8
    <3> QED BY <2>1, <2>2, <2>3, <3>1
  <2>5. (a + b) % 2 = (p + q) % 2
    <3>1. a + b = (p + q) + 2 * (8 * (u + v)) /\ p + q \in Nat /\ 8 * (u + v) \in Nat
      BY <2>1 DEF Below
    <3> QED BY <3>1, Even
  <2> QED BY <2>2, <2>3, <2>4, <2>5, Join8
<1>2. ASSUME NEW a \in Below(256), NEW b \in Below(256), NEW c \in Below(256), Xor8(a, b) = Xor8(c, b)
      PROVE  a = c
  <2>1. PICK p, q, u, v \in Below(16) :
          p = a % 16 /\ q = b % 16 /\ u = a \div 16 /\ v = b \div 16 /\ a = p + 16 * u
    BY Split8
  <2>2. PICK r, w \in Below(16) : r = c % 16 /\ w = c \div 16 /\ c = r + 16 * w
    BY Split8
  <2>3. PICK x, y, s, t \in Below(16) :
          x = Xor4(p, q) /\ y = Xor4(u, v) /\ s = Xor4(r, q) /\ t = Xor4(w, v)
    BY Xor4Facts
  <2>4. x + 16 * y = s + 16 * t
    <3>1. Xor8(a, b) = x + 16 * y
      <4>1. Xor8(a, b) = Xor4(a % 16, b % 16) + 16 * Xor4(a \div 16, b \div 16)
        BY DEF Xor8
      <4> QED BY <2>1, <2>3, <4>1
    <3>2. Xor8(c, b) = s + 16 * t
      <4>1. Xor8(c, b) = Xor4(c % 16, b % 16) + 16 * Xor4(c \div 16, b \div 16)
        BY DEF Xor8
      <4> QED BY <2>1, <2>2, <2>3, <4>1
    <3> QED BY <1>2, <3>1, <3>2
  <2>5. x = s /\ y = t
    BY <2>4, Join8
  <2>6. p = r /\ u = w
    BY <2>1, <2>2, <2>3, <2>5, Xor4Facts
  <2> QED BY <2>1, <2>2, <2>6
<1> QED BY <1>1, <1>2

LEMMA Join16 ==
  ASSUME NEW x \in Below(256), NEW y \in Below(256)
  PROVE  /\ x + 256 * y \in Word /\ (x + 256 * y) % 2 = x % 2
         /\ \A u, v \in Below(256) : x + 256 * y = u + 256 * v => x = u /\ y = v
<1>1. x + 256 * y \in Word /\ x + 256 * y = x + 2 * (128 * y)
  BY WordIs DEF Below
<1>2. (x + 2 * (128 * y)) % 2 = x % 2
  <2>1. x \in Nat /\ 128 * y \in Nat
    BY DEF Below
  <2> QED BY <2>1, Even
<1>3. \A u, v \in Below(256) : x + 256 * y = u + 256 * v => x = u /\ y = v
  BY DEF Below
<1> QED BY <1>1, <1>2, <1>3

LEMMA Split16 ==
  ASSUME NEW a \in Word
  PROVE  a % 256 \in Below(256) /\ a \div 256 \in Below(256) /\ a = (a % 256) + 256 * (a \div 256)
BY WordIs DEF Below

LEMMA Xor16Facts ==
  /\ \A a, b \in Word : Xor16(a, b) \in Word /\ Xor16(a, b) = Xor16(b, a) /\ Xor16(a, b) % 2 = (a + b) % 2
  /\ \A a, b, c \in Word : Xor16(a, b) = Xor16(c, b) => a = c
<1>1. ASSUME NEW a \in Word, NEW b \in Word
      PROVE  Xor16(a, b) \in Word /\ Xor16(a, b) = Xor16(b, a) /\ Xor16(a, b) % 2 = (a + b) % 2
  <2>1. PICK p, q, u, v \in Below(256) :
          p = a % 256 /\ q = b % 256 /\ u = a \div 256 /\ v = b \div 256 /\ a = p + 256 * u /\ b = q + 256 * v
    BY Split16
  <2>2. PICK x, y \in Below(256) : x = Xor8(p, q) /\ y = Xor8(u, v)
    BY Xor8Facts
  <2>3. x = Xor8(q, p) /\ y = Xor8(v, u) /\ x % 2 = (p + q) % 2
    BY <2>2, Xor8Facts
  <2>4. Xor16(a, b) = x + 256 * y /\ Xor16(b, a) = x + 256 * y
    <3>1. /\ Xor16(a, b) = Xor8(a % 256, b % 256) + 256 * Xor8(a \div 256, b \div 256)
          /\ Xor16(b, a) = Xor8(b % 256, a % 256) + 256 * Xor8(b \div 256, a \div 256)
      BY DEF Xor16
    <3> QED BY <2>1, <2>2, <2>3, <3>1
  <2>5. (a + b) % 2 = (p + q) % 2
    <3>1. a + b = (p + q) + 2 * (128 * (u + v)) /\ p + q \in Nat /\ 128 * (u + v) \in Nat
      BY <2>1 DEF Below
    <3> QED BY <3>1, Even
  <2> QED BY <2>2, <2>3, <2>4, <2>5, Join16
<1>2. ASSUME NEW a \in Word, NEW b \in Word, NEW c \in Word, Xor16(a, b) = Xor16(c, b)
      PROVE  a = c
  <2>1. PICK p, q, u, v \in Below(256) :
          p = a % 256 /\ q = b % 256 /\ u = a \div 256 /\ v = b \div 256 /\ a = p + 256 * u
    BY Split16
  <2>2. PICK r, w \in Below(256) : r = c % 256 /\ w = c \div 256 /\ c = r + 256 * w
    BY Split16
  <2>3. PICK x, y, s, t \in Below(256) :
          x = Xor8(p, q) /\ y = Xor8(u, v) /\ s = Xor8(r, q) /\ t = Xor8(w, v)
    BY Xor8Facts
  <2>4. x + 256 * y = s + 256 * t
    <3>1. Xor16(a, b) = x + 256 * y
      <4>1. Xor16(a, b) = Xor8(a % 256, b % 256) + 256 * Xor8(a \div 256, b \div 256)
        BY DEF Xor16
      <4> QED BY <2>1, <2>3, <4>1
    <3>2. Xor16(c, b) = s + 256 * t
      <4>1. Xor16(c, b) = Xor8(c % 256, b % 256) + 256 * Xor8(c \div 256, b \div 256)
        BY DEF Xor16
      <4> QED BY <2>1, <2>2, <2>3, <4>1
    <3> QED BY <1>2, <3>1, <3>2
  <2>5. x = s /\ y = t
    BY <2>4, Join16
  <2>6. p = r /\ u = w
    BY <2>1, <2>2, <2>3, <2>5, Xor8Facts
  <2> QED BY <2>1, <2>2, <2>6
<1> QED BY <1>1, <1>2

(* A shift of the inner loop can be undone: a result is odd if and only if a  *)
(* one was shifted out.                                                       *)
LEMMA ShiftFacts ==
  /\ \A c \in Word : Shift(c) \in Word
  /\ \A c, d \in Word : Shift(c) = Shift(d) => c = d
<1> DEFINE low(c) == 2 * c - 256 * 256
<1>1. Polynomial \in Word /\ Polynomial \in Nat /\ Polynomial % 2 = 1
  BY WordIs DEF Polynomial, Below
<1>2. ASSUME NEW c \in Word, c < 128 * 256
      PROVE  Shift(c) = 2 * c /\ Shift(c) \in Word /\ Shift(c) % 2 = 0
  <2>1. Shift(c) = 2 * c /\ 2 * c \in Word
    BY <1>2, WordIs DEF Shift, Below
  <2>2. c \in Nat /\ (0 + 2 * c) % 2 = 0 % 2 /\ 0 + 2 * c = 2 * c
    BY Even, WordIs DEF Below
  <2> QED BY <2>1, <2>2
<1>3. ASSUME NEW c \in Word, c >= 128 * 256
      PROVE  Shift(c) = Xor16(low(c), Polynomial) /\ low(c) \in Word /\ Shift(c) \in Word /\ Shift(c) % 2 = 1
  <2>1. Shift(c) = Xor16(low(c), Polynomial)
    BY <1>3 DEF Shift
  <2>2. low(c) \in Word
    BY <1>3, WordIs DEF Below
  <2>3. PICK k \in Nat : low(c) = 2 * k
    <3>1. c - 128 * 256 \in Nat /\ low(c) = 2 * (c - 128 * 256)
      BY <1>3, WordIs DEF Below
    <3> QED BY <3>1
  <2> HIDE DEF low
  <2>4. Shift(c) \in Word /\ Shift(c) % 2 = (low(c) + Polynomial) % 2
    <3>1. PICK e \in Word : e = low(c)
      BY <2>2
    <3>2. Xor16(e, Polynomial) \in Word
      BY <1>1, Xor16Facts
    <3>3. Xor16(e, Polynomial) % 2 = (e + Polynomial) % 2
      BY <1>1, Xor16Facts
    <3> QED BY <2>1, <3>1, <3>2, <3>3
  <2>5. low(c) + Polynomial = Polynomial + 2 * k
    BY <1>1, <2>3
  <2> QED BY <1>1, <2>1, <2>2, <2>4, <2>5, Even
<1> HIDE DEF low
<1>4. ASSUME NEW c \in Word, NEW d \in Word, Shift(c) = Shift(d)
      PROVE  c = d
  <2>1. CASE c >= 128 * 256 /\ d >= 128 * 256
    <3>1. PICK e, f \in Word : e = low(c) /\ f = low(d)
      BY <1>3, <2>1
    <3>2. Xor16(e, Polynomial) = Xor16(f, Polynomial)
      BY <1>3, <1>4, <2>1, <3>1
    <3>3. e = f
      BY <1>1, <3>2, Xor16Facts
    <3> QED BY <3>1, <3>3, WordIs DEF low, Below
  <2>2. CASE c < 128 * 256 /\ d < 128 * 256
    <3>1. 2 * c = 2 * d
      BY <1>2, <1>4, <2>2
    <3> QED BY <3>1, WordIs DEF Below
  <2>3. CASE c >= 128 * 256 /\ d < 128 * 256
    <3>1. Shift(c) % 2 = 1 /\ Shift(d) % 2 = 0
      BY <1>2, <1>3, <2>3
    <3> QED BY <1>4, <3>1
  <2>4. CASE c < 128 * 256 /\ d >= 128 * 256
    <3>1. Shift(c) % 2 = 0 /\ Shift(d) % 2 = 1
      BY <1>2, <1>3, <2>4
    <3> QED BY <1>4, <3>1
  <2>5. c \in Nat /\ d \in Nat
    BY WordIs DEF Below
  <2> QED BY <2>1, <2>2, <2>3, <2>4, <2>5
<1>5. \A c \in Word : Shift(c) \in Word
  <2>1. \A c \in Word : c < 128 * 256 \/ c >= 128 * 256
    BY WordIs DEF Below
  <2> QED BY <1>2, <1>3, <2>1
<1> QED BY <1>4, <1>5

LEMMA ShiftsFacts ==
  /\ \A c \in Word : Shifts(c) \in Word
  /\ \A c, d \in Word : Shifts(c) = Shifts(d) => c = d
<1> DEFINE shift == [c \in Word |-> Shift(c)]
           two(c)  == shift[shift[c]]
           four(c) == two(two(c))
<1>1. \A c \in Word : Shifts(c) = four(four(c))
  BY DEF Shifts
<1>2. \A c \in Word : shift[c] = Shift(c)
  OBVIOUS
<1> HIDE DEF shift
<1>3. /\ \A c \in Word : shift[c] \in Word
      /\ \A c, d \in Word : shift[c] = shift[d] => c = d
  BY <1>2, ShiftFacts
<1>4. /\ \A c \in Word : two(c) \in Word
      /\ \A c, d \in Word : two(c) = two(d) => c = d
  BY <1>3
<1> HIDE DEF two
<1>5. /\ \A c \in Word : four(c) \in Word
      /\ \A c, d \in Word : four(c) = four(d) => c = d
  BY <1>4
<1> HIDE DEF four
<1> QED BY <1>1, <1>5

(* Taking a symbol in loses neither the checksum so far nor the symbol.       *)
LEMMA TakingFacts ==
  ASSUME NEW c \in Word, NEW d \in Word, NEW x \in Symbol, NEW y \in Symbol
  PROVE  /\ Taking(x)[c] \in Word
         /\ Taking(x)[c] = Taking(x)[d] => c = d
         /\ Taking(x)[c] = Taking(y)[c] => x = y
<1> DEFINE in(e, z) == Xor16(e, 256 * z)
<1>1. 256 * x \in Word /\ 256 * y \in Word
  BY WordIs, SymbolIs DEF Below
<1>2. in(c, x) \in Word /\ in(d, x) \in Word /\ in(c, y) \in Word
  BY <1>1, Xor16Facts
<1>3. in(c, x) = in(d, x) => c = d
  BY <1>1, Xor16Facts
<1>4. in(c, x) = in(c, y) => x = y
  <2>1. in(c, x) = Xor16(256 * x, c) /\ in(c, y) = Xor16(256 * y, c)
    BY <1>1, Xor16Facts
  <2>2. in(c, x) = in(c, y) => 256 * x = 256 * y
    BY <1>1, <2>1, Xor16Facts
  <2> QED BY <2>2, SymbolIs DEF Below
<1>5. Taking(x)[c] = Shifts(in(c, x)) /\ Taking(x)[d] = Shifts(in(d, x)) /\ Taking(y)[c] = Shifts(in(c, y))
  BY DEF Taking
<1> HIDE DEF in
<1> QED BY <1>2, <1>3, <1>4, <1>5, ShiftsFacts

AfterRule(s, j, g) == g = [i \in 0 .. j |-> IF i = 0 THEN 256 * 256 - 1 ELSE Taking(s[i])[g[i - 1]]]

LEMMA AfterExists ==
  ASSUME NEW s, NEW j \in Nat
  PROVE  \E g : AfterRule(s, j, g)
<1> DEFINE B == {i \in Nat : ~ \E g : AfterRule(s, i, g)}
<1> SUFFICES ASSUME B # {}
             PROVE  FALSE
  OBVIOUS
<1>1. PICK i \in B : \A k \in B : i <= k
  <2> HIDE DEF B
  <2> QED BY Least DEF B
<1>2. CASE i = 0
  <2>1. AfterRule(s, 0, [k \in 0 .. 0 |-> 256 * 256 - 1])
    BY DEF AfterRule
  <2> QED BY <1>1, <1>2, <2>1
<1>3. CASE i # 0
  <2>1. i - 1 \in Nat /\ i - 1 \notin B
    BY <1>1, <1>3
  <2>2. PICK g : AfterRule(s, i - 1, g)
    BY <2>1
  <2> DEFINE h == [k \in 0 .. i |-> IF k = i THEN Taking(s[i])[g[i - 1]] ELSE g[k]]
  <2>3. AfterRule(s, i, h)
    <3>1. \A k \in 0 .. i - 1 : g[k] = IF k = 0 THEN 256 * 256 - 1 ELSE Taking(s[k])[g[k - 1]]
      BY <2>2 DEF AfterRule
    <3>2. \A k \in 0 .. i : h[k] = IF k = 0 THEN 256 * 256 - 1 ELSE Taking(s[k])[h[k - 1]]
      BY <1>3, <2>1, <3>1
    <3> QED BY <3>2 DEF AfterRule
  <2> QED BY <1>1, <2>3
<1> QED BY <1>2, <1>3

(* The checksums of the beginnings of a text.                                 *)
LEMMA CrcIsAfter ==
  ASSUME NEW s \in Seq(Symbol)
  PROVE  \E g : /\ Crc16(s) = g[Len(s)] /\ g[0] = 256 * 256 - 1
                /\ \A i \in 1 .. Len(s) : g[i] = Taking(s[i])[g[i - 1]]
                /\ \A i \in 0 .. Len(s) : g[i] \in Word
<1> DEFINE after == CHOOSE f : AfterRule(s, Len(s), f)
<1>0. Len(s) \in Nat
  BY LenProperties
<1>1. Crc16(s) = after[Len(s)]
  BY DEF Crc16, AfterRule
<1>2. AfterRule(s, Len(s), after)
  BY <1>0, AfterExists
<1> HIDE DEF after
<1>3. after[0] = 256 * 256 - 1 /\ \A i \in 1 .. Len(s) : after[i] = Taking(s[i])[after[i - 1]]
  BY <1>0, <1>2 DEF AfterRule
<1>4. \A i \in 0 .. Len(s) : after[i] \in Word
  <2> DEFINE B == {i \in Nat : i <= Len(s) /\ after[i] \notin Word}
  <2> SUFFICES ASSUME B # {}
               PROVE  FALSE
    BY <1>0
  <2>1. PICK i \in B : \A k \in B : i <= k
    <3> HIDE DEF B
    <3> QED BY Least DEF B
  <2>2. i # 0
    <3>1. 256 * 256 - 1 \in Word
      BY WordIs DEF Below
    <3> QED BY <1>3, <2>1, <3>1
  <2>3. i \in 1 .. Len(s) /\ after[i - 1] \in Word
    BY <1>0, <2>1, <2>2
  <2>4. s[i] \in Symbol
    BY <2>3, ElementOfSeq
  <2>5. after[i] \in Word
    BY <1>3, <2>3, <2>4, TakingFacts
  <2> QED BY <2>1, <2>5
<1> QED BY <1>1, <1>3, <1>4

(* Texts that differ in one symbol have different checksums, for every text,  *)
(* place and symbol: up to that place the two checksums agree, from there on  *)
(* they do not.                                                               *)
THEOREM OneDifferenceShows ==
  ASSUME NEW s \in Seq(Symbol), NEW t \in Seq(Symbol), Len(s) = Len(t),
         NEW p \in 1 .. Len(s), s[p] # t[p], \A i \in 1 .. Len(s) : i # p => s[i] = t[i]
  PROVE  Crc16(s) # Crc16(t)
<1> DEFINE n == Len(s)
<1>0. n \in Nat /\ \A i \in 1 .. n : s[i] \in Symbol /\ t[i] \in Symbol
  BY LenProperties, ElementOfSeq
<1>1. PICK g : /\ Crc16(s) = g[n] /\ g[0] = 256 * 256 - 1
               /\ \A i \in 1 .. n : g[i] = Taking(s[i])[g[i - 1]]
               /\ \A i \in 0 .. n : g[i] \in Word
  BY CrcIsAfter
<1>2. PICK h : /\ Crc16(t) = h[n] /\ h[0] = 256 * 256 - 1
               /\ \A i \in 1 .. n : h[i] = Taking(t[i])[h[i - 1]]
               /\ \A i \in 0 .. n : h[i] \in Word
  BY CrcIsAfter
<1> HIDE DEF n
<1>3. \A i \in 0 .. n : (g[i] = h[i]) <=> i < p
  <2> DEFINE B == {i \in Nat : i <= n /\ ~ ((g[i] = h[i]) <=> i < p)}
  <2> SUFFICES ASSUME B # {}
               PROVE  FALSE
    BY <1>0
  <2>1. PICK i \in B : \A k \in B : i <= k
    <3> HIDE DEF B
    <3> QED BY Least DEF B
  <2>2. p \in 1 .. n
    BY DEF n
  <2>3. i # 0
    BY <1>1, <1>2, <2>1, <2>2
  <2>4. i \in 1 .. n /\ i - 1 \in 0 .. n /\ ((g[i - 1] = h[i - 1]) <=> i - 1 < p)
    BY <1>0, <2>1, <2>3
  <2>5. /\ g[i] = Taking(s[i])[g[i - 1]] /\ h[i] = Taking(t[i])[h[i - 1]]
        /\ s[i] \in Symbol /\ t[i] \in Symbol /\ g[i - 1] \in Word /\ h[i - 1] \in Word
    BY <1>0, <1>1, <1>2, <2>4
  <2>6. CASE i < p
    <3>1. s[i] = t[i] /\ g[i - 1] = h[i - 1]
      BY <2>2, <2>4, <2>6 DEF n
    <3> QED BY <2>1, <2>5, <2>6, <3>1
  <2>7. CASE i = p
    <3>1. s[i] # t[i] /\ g[i - 1] = h[i - 1]
      BY <2>2, <2>4, <2>7
    <3>2. g[i] # h[i]
      BY <2>5, <3>1, TakingFacts
    <3> QED BY <2>1, <2>2, <2>7, <3>2
  <2>8. CASE i > p
    <3>1. s[i] = t[i] /\ g[i - 1] # h[i - 1]
      BY <2>2, <2>4, <2>8 DEF n
    <3>2. g[i] # h[i]
      BY <2>5, <3>1, TakingFacts
    <3> QED BY <2>1, <2>2, <2>4, <2>8, <3>2
  <2> QED BY <2>2, <2>4, <2>6, <2>7, <2>8
<1>4. n \in 0 .. n /\ ~ (n < p)
  BY <1>0 DEF n
<1> QED BY <1>1, <1>2, <1>3, <1>4

(* A code that reads ends with the checksum of what comes before.             *)
LEMMA ReadsSealed ==
  ASSUME NEW c, ParseQris(c).ok
  PROVE  Last(c) = Crc16(Front(c))
<1>1. Refused.ok = FALSE
  BY DEF Refused
<1>2. CASE ~ Checksum(c, ParseTLVs(c).fields)
  <2>1. ParseQris(c) = Refused
    BY <1>2 DEF ParseQris
  <2> QED BY <1>1, <2>1
<1>3. CASE Checksum(c, ParseTLVs(c).fields)
  BY <1>3 DEF Checksum
<1> QED BY <1>2, <1>3

(* Two sealed codes of one length are never one symbol apart.                 *)
LEMMA SealedApart ==
  ASSUME NEW c \in Codes, NEW d \in Codes, Len(d) = Len(c),
         Last(c) = Crc16(Front(c)), Last(d) = Crc16(Front(d))
  PROVE  Differences(c, d) # 1
<1> DEFINE D == {i \in DOMAIN c : c[i] # d[i]}
           n == Len(c)
<1> SUFFICES ASSUME Cardinality(D) = 1
             PROVE  FALSE
  BY DEF Differences
<1>1. /\ c \in Seq(Word) /\ c # <<>> /\ Front(c) \in Seq(Symbol)
      /\ d \in Seq(Word) /\ Front(d) \in Seq(Symbol)
  BY ScanAssumption
<1>2. n \in Nat /\ n # 0 /\ DOMAIN c = 1 .. n
  BY <1>1, EmptySeq, LenProperties
<1>3. PICK p : D = {p}
  <2>1. IsFiniteSet(1 .. n)
    BY <1>2, FS_Interval
  <2>2. IsFiniteSet(D)
    BY <1>2, <2>1, FS_Subset
  <2> QED BY <2>2, FS_Singleton
<1>4. p \in 1 .. n /\ c[p] # d[p] /\ \A i \in 1 .. n : i # p => c[i] = d[i]
  BY <1>2, <1>3
<1> DEFINE f == Front(c)
           g == Front(d)
           m == n - 1
<1>5. /\ Len(f) = m /\ \A i \in 1 .. m : f[i] = c[i]
      /\ Len(g) = m /\ \A i \in 1 .. m : g[i] = d[i]
  <2>1. \A i \in 1 .. m : c[i] \in Word /\ d[i] \in Word
    BY <1>1, <1>2, ElementOfSeq
  <2>2. m \in Nat
    BY <1>2
  <2>3. f = SubSeq(c, 1, m) /\ g = SubSeq(d, 1, m)
    BY DEF Front
  <2> HIDE DEF f, g, m
  <2>4. 1 <= m + 1 /\ m - 1 + 1 = m /\ \A i \in 1 .. m : 1 + i - 1 = i
    BY <2>2
  <2> QED BY <2>1, <2>2, <2>3, <2>4, SubSeqProperties
<1>6. c[n] = Crc16(f) /\ d[n] = Crc16(g) /\ m \in Nat /\ m + 1 = n
  BY <1>2 DEF Last
<1> HIDE DEF D, n, f, g, m
<1>7. f \in Seq(Symbol) /\ g \in Seq(Symbol)
  BY <1>1 DEF f, g
<1>8. CASE p = n
  <2>1. \A i \in 1 .. m : f[i] = g[i]
    BY <1>4, <1>5, <1>6, <1>8
  <2>2. f = g
    BY <1>5, <1>7, <2>1, SeqEqual
  <2> QED BY <1>4, <1>6, <1>8, <2>2
<1>9. CASE p # n
  <2>1. p \in 1 .. m /\ n # p /\ n \in 1 .. n
    BY <1>4, <1>6, <1>9
  <2>2. f[p] # g[p] /\ \A i \in 1 .. m : i # p => f[i] = g[i]
    BY <1>4, <1>5, <1>6, <2>1
  <2>3. Crc16(f) # Crc16(g)
    BY <1>5, <1>7, <2>1, <2>2, OneDifferenceShows
  <2>4. c[n] = d[n]
    BY <1>4, <2>1
  <2> QED BY <1>6, <2>3, <2>4
<1> QED BY <1>8, <1>9

------------------------------------------------------------------------------
LEMMA BeingRead == ScanInv => Reading \subseteq Codes
BY DEF ScanInv, CallInv, Reading, Sent

(* The fields of every payload on its way to the parser spell the payload.    *)
THEOREM FieldsSpellPayloadAlways == Spec => []FieldsSpellPayload
<1>1. \A c \in Codes : Spelt[c]
  <2>1. \A c \in Codes : c \in Seq(Word)
    BY ScanAssumption
  <2>2. \A c \in Codes : ParseTLVs(c).ok => Encode(ParseTLVs(c).fields) = c
    BY <2>1, ReadingSpells
  <2> QED BY <2>2 DEF Spelt
<1>2. ScanInv => FieldsSpellPayload
  BY <1>1, BeingRead DEF FieldsSpellPayload
<1> QED BY <1>2, ScanInvariance, PTL

(* No payload on its way to the parser, with one symbol changed, is another   *)
(* code that reads.                                                           *)
THEOREM DamageRefusedAlways == Spec => []DamageRefused
<1>1. \A c \in Codes : ~ Mistaken[c]
  <2>1. ASSUME NEW c \in Codes, NEW d \in Codes, Reads[c].ok, Reads[d].ok, Len(d) = Len(c)
        PROVE  Differences(c, d) # 1
    <3>1. ParseQris(c).ok /\ ParseQris(d).ok
      BY <2>1 DEF Reads
    <3> QED BY <2>1, <3>1, ReadsSealed, SealedApart
  <2> QED BY <2>1 DEF Mistaken
<1>2. ScanInv => DamageRefused
  BY <1>1, BeingRead DEF DamageRefused
<1> QED BY <1>2, ScanInvariance, PTL
==============================================================================
