-------------------------- MODULE PaymentBooksProofs ---------------------------
(* BooksInv is an inductive invariant of the books of a payment, for every    *)
(* set of requests, amounts, rates, reports and costs, whatever calls and     *)
(* transactions overlap.                                                      *)
EXTENDS PaymentBooks, QuoteMathProofs, SequenceTheorems

(* What the invariant says of one call, and what it says of the rest.         *)
MoveTargets == {"RECONCILIATION_REQUIRED", "FIAT_SETTLEMENT_PENDING", "REFUND_REQUIRED",
                "COMPLETED", "REFUNDED"}

Begun == status \notin {"CRYPTO_SUBMITTED", "CRYPTO_CONFIRMED"}

(* The one conversion there is, if there is one, brought this amount.         *)
FirstDone     == ~ ConvertedTwice => convs # <<>> /\ Done(1)
Brought(fiat) == ~ ConvertedTwice => convs # <<>> /\ Done(1) /\ fiat = convs[1].fiat

SoundMove(c) ==
  /\ c.to \in MoveTargets
  /\ ~ lost /\ c.seen = c.to /\ c.to \in {"COMPLETED", "REFUNDED"} => status = c.to
  /\ c.to = "REFUNDED" => c.amount <= quote.held
  /\ c.to \in {"FIAT_SETTLEMENT_PENDING", "COMPLETED"} => Brought(c.amount)

Sound(c) ==
  /\ c.at # "-" => Begun
  /\ c.at = "refund" => c.amount \in Costs \cup {DefaultCost}
  /\ c.at \in {"mark", "markFailed"} => c.on \in DOMAIN tasks
  /\ c.at = "fill" => c.on \in DOMAIN convs
  /\ c.at \in {"webhook", "paid"} => FirstDone
  /\ c.at \in {"settle", "poll", "look", "complete"} => Brought(c.amount)
  /\ c.at = "commit" => SoundMove(c)

Settled == status \in {"FIAT_SETTLEMENT_PENDING", "COMPLETED"} => FirstDone

Rest ==
  /\ TypeOK /\ Quoted /\ (Begun \/ convs = <<>>) /\ Sufficient /\ Settled
  /\ MoneyAccounted /\ Booked /\ Refusals

LEMMA Split == BooksInv <=> Rest /\ \A q \in Requests : Sound(call[q])
<1>1. TypeOK => DOMAIN posted = {"COMPLETED", "REFUNDED"} BY DEF TypeOK
<1>2. ASSUME BooksInv PROVE Rest /\ \A q \in Requests : Sound(call[q])
  <2> USE <1>1, <1>2 DEF BooksInv
  <2>1. Rest
    BY DEF Rest, Started, Begun, Settled, FirstDone, OneConversion
  <2>2. ASSUME NEW q \in Requests PROVE Sound(call[q])
    <3>1. call[q].at # "-" => Begun BY DEF Started, At, Begun
    <3>2. call[q].at = "refund" => call[q].amount \in Costs \cup {DefaultCost} BY DEF Costed, At
    <3>3. /\ call[q].at \in {"mark", "markFailed"} => call[q].on \in DOMAIN tasks
          /\ call[q].at = "fill" => call[q].on \in DOMAIN convs
      BY DEF Placed, At
    <3>4. /\ call[q].at \in {"webhook", "paid"} => FirstDone
          /\ call[q].at \in {"settle", "poll", "look", "complete"} => Brought(call[q].amount)
      BY DEF OneConversion, FirstDone, Brought, Settling, At
    <3>5. call[q].at = "commit" => SoundMove(call[q])
      BY DEF Moving, Costed, OneConversion, Settling, At, SoundMove, MoveTargets, Brought
    <3> QED BY <3>1, <3>2, <3>3, <3>4, <3>5 DEF Sound
  <2> QED BY <2>1, <2>2
<1>3. ASSUME Rest, \A q \in Requests : Sound(call[q]) PROVE BooksInv
  <2> USE <1>1, <1>3 DEF Rest
  <2>1. Started BY DEF Sound, Started, Begun, At
  <2>2. Costed BY DEF Sound, SoundMove, Costed, At
  <2>3. Moving BY DEF Sound, SoundMove, MoveTargets, Moving, At
  <2>4. Placed BY DEF Sound, Placed, At
  <2>5. OneConversion
    BY DEF Sound, SoundMove, Settled, FirstDone, Brought, OneConversion, Settling, At
  <2> QED BY <2>1, <2>2, <2>3, <2>4, <2>5 DEF BooksInv
<1> QED BY <1>2, <1>3

LEMMA SplitNext == BooksInv' <=> Rest' /\ \A q \in Requests : Sound(call[q])'
<1>1. BooksInv' <=> (Rest /\ \A q \in Requests : Sound(call[q]))' BY Split, PTL
<1> QED BY <1>1

(* What a request is about to do next.                                        *)
LEMMA IdleType == Idle \in Call /\ Idle.at = "-"
BY DEF Idle, Call, Steps

LEMMA GoesTo ==
  ASSUME TypeOK, NEW r \in Requests, NEW step \in Steps, Goes(r, step) \/ Locks(r, step)
  PROVE  \E c \in Call : /\ call' = [call EXCEPT ![r] = c] /\ c.at = step
                         /\ c.amount = call[r].amount /\ c.rate = call[r].rate /\ c.on = call[r].on
<1>1. call[r] \in Call BY DEF TypeOK
<1>2. CASE Goes(r, step)
  <2> DEFINE c == [call[r] EXCEPT !.at = step]
  <2>1. c \in Call BY <1>1 DEF Call
  <2>2. call' = [call EXCEPT ![r] = c] BY <1>2 DEF Goes
  <2> QED BY <1>1, <2>1, <2>2 DEF Call
<1>3. CASE Locks(r, step)
  <2> DEFINE c == [call[r] EXCEPT !.at = step, !.locked = TRUE]
  <2>1. c \in Call BY <1>1 DEF Call
  <2>2. call' = [call EXCEPT ![r] = c] BY <1>3 DEF Locks
  <2> QED BY <1>1, <2>1, <2>2 DEF Call
<1> QED BY <1>2, <1>3

LEMMA ReturnsTo ==
  ASSUME NEW r \in Requests, Returns(r)
  PROVE  \E c \in Call : call' = [call EXCEPT ![r] = c] /\ c.at = "-"
BY IdleType DEF Returns

LEMMA TakesTo ==
  ASSUME TypeOK, NEW r \in Requests, NEW step \in Steps, NEW amount \in Nat, Takes(r, step, amount)
  PROVE  \E c \in Call : call' = [call EXCEPT ![r] = c] /\ c.at = step /\ c.amount = amount
<1>1. call[r] \in Call BY DEF TypeOK
<1> DEFINE c == [Idle EXCEPT !.at = step, !.amount = amount, !.locked = call[r].locked]
<1>2. c \in Call BY <1>1 DEF Call, Idle
<1>3. call' = [call EXCEPT ![r] = c] BY DEF Takes
<1>4. c.at = step /\ c.amount = amount BY DEF Idle
<1> QED BY <1>2, <1>3, <1>4

(* A step of one request that writes nothing.                                 *)
LEMMA LookStep ==
  ASSUME BooksInv, NEW r \in Requests, NEW c \in Call, call' = [call EXCEPT ![r] = c], Looks,
         Sound(c)
  PROVE  BooksInv'
<1> USE DEF Looks, rows, books
<1>1. Rest /\ \A q \in Requests : Sound(call[q]) BY Split
<1>2. \A q \in Requests : call'[q] = IF q = r THEN c ELSE call[q] BY <1>1 DEF Rest, TypeOK
<1>3. TypeOK' BY <1>1 DEF Rest, TypeOK
<1>4. Quoted' /\ (Begun \/ convs = <<>>)' /\ Refusals'
  BY <1>1 DEF Rest, Quoted, Begun, Refusals
<1>5. Sufficient' /\ Settled' /\ Booked'
  BY <1>1 DEF Rest, Sufficient, Done, Settled, FirstDone, ConvertedTwice, Booked
<1>6. MoneyAccounted'
  BY <1>1 DEF Rest, MoneyAccounted, Balanced, Net, Sold, Returned
<1>7. ASSUME NEW q \in Requests PROVE Sound(call[q])'
  <2>1. Sound(call'[q]) BY <1>1, <1>2
  <2> QED BY <2>1
        DEF Sound, SoundMove, Begun, FirstDone, Brought, ConvertedTwice, Done
<1> QED BY <1>3, <1>4, <1>5, <1>6, <1>7, SplitNext DEF Rest

(* A step that returns, for whatever reason.                                  *)
LEMMA ReturnStep ==
  ASSUME BooksInv, NEW r \in Requests, Returns(r), Looks
  PROVE  BooksInv'
<1> PICK c \in Call : call' = [call EXCEPT ![r] = c] /\ c.at = "-" BY ReturnsTo
<1>1. Sound(c) BY DEF Sound
<1> QED BY <1>1, LookStep

(* Its next step is one that needs nothing but a conversion to have begun.    *)
LEMMA GoStep ==
  ASSUME BooksInv, NEW r \in Requests, NEW step \in Steps, Goes(r, step) \/ Locks(r, step), Looks,
         Begun, step \notin {"refund", "mark", "markFailed", "fill", "commit"},
         step \in {"webhook", "paid"} => FirstDone,
         step \in {"settle", "poll", "look", "complete"} => Brought(call[r].amount)
  PROVE  BooksInv'
<1>1. TypeOK BY DEF BooksInv
<1> PICK c \in Call : /\ call' = [call EXCEPT ![r] = c] /\ c.at = step /\ c.amount = call[r].amount
  BY <1>1, GoesTo
<1>2. Sound(c) BY DEF Sound
<1> QED BY <1>2, LookStep

LEMMA TakeStep ==
  ASSUME BooksInv, NEW r \in Requests, NEW step \in Steps, NEW amount \in Nat,
         Takes(r, step, amount), Looks,
         Begun, step \notin {"mark", "markFailed", "fill", "commit"},
         step = "refund" => amount \in Costs \cup {DefaultCost},
         step \in {"webhook", "paid"} => FirstDone,
         step \in {"settle", "poll", "look", "complete"} => Brought(amount)
  PROVE  BooksInv'
<1>1. TypeOK BY DEF BooksInv
<1> PICK c \in Call : call' = [call EXCEPT ![r] = c] /\ c.at = step /\ c.amount = amount
  BY <1>1, TakesTo
<1>2. Sound(c) BY DEF Sound
<1> QED BY <1>2, LookStep

(* A transition that has read the status.                                     *)
LEMMA StateNames ==
  States = {"CREATED", "QUOTED", "AUTHORIZED", "CRYPTO_SUBMITTED", "CRYPTO_CONFIRMED",
            "CONVERSION_PENDING", "FIAT_SETTLEMENT_PENDING", "REFUND_REQUIRED",
            "RECONCILIATION_REQUIRED", "COMPLETED", "EXPIRED", "FAILED", "REFUNDED"}
BY DEF States, Edges

LEMMA ReadStep ==
  ASSUME BooksInv, NEW r \in Requests, Begun, NEW to \in MoveTargets, Reads(r, to), Looks,
         to = "REFUNDED" => call[r].amount <= quote.held,
         to \in {"FIAT_SETTLEMENT_PENDING", "COMPLETED"} => Brought(call[r].amount)
  PROVE  BooksInv'
<1>1. call[r] \in Call /\ status \in States BY DEF BooksInv, TypeOK
<1>2. CASE Returns(r) BY <1>2, ReturnStep
<1>3. CASE ~ Returns(r)
  <2> DEFINE c == [call[r] EXCEPT !.at = "commit", !.to = to, !.seen = status]
  <2>1. call' = [call EXCEPT ![r] = c] BY <1>3 DEF Reads
  <2>2. c \in Call
    <3>1. to \in States \cup {"-"} /\ "commit" \in Steps BY StateNames DEF Steps, MoveTargets
    <3> QED BY <1>1, <3>1 DEF Call
  <2>3. c.at = "commit" /\ c.to = to /\ c.seen = status /\ c.amount = call[r].amount BY <1>1 DEF Call
  <2> HIDE DEF c
  <2>4. Sound(c) BY <2>3 DEF Sound, SoundMove
  <2> QED BY <2>1, <2>2, <2>4, LookStep
<1> QED BY <1>2, <1>3

(* What the invariant says of the call that takes a step.                     *)
LEMMA OwnCall ==
  ASSUME BooksInv, NEW r \in Requests
  PROVE  /\ TypeOK /\ Sound(call[r]) /\ call[r] \in Call /\ call[r].amount \in Nat
         /\ quote.fiat \in Nat /\ quote.held \in Nat
BY Split DEF BooksInv, TypeOK, Call, Quote

------------------------------------------------------------------------------
(* The steps that look and go on.                                             *)

(* Rows are numbered from one; the one conversion is the first of them.       *)
LEMMA RowType ==
  ASSUME TypeOK, NEW i \in DOMAIN convs
  PROVE  /\ i \in 1 .. Len(convs) /\ Len(convs) \in Nat
         /\ convs[i] \in Row /\ convs[i].fiat \in Nat
<1>1. convs \in Seq(Row) BY DEF TypeOK
<1>2. DOMAIN convs = 1 .. Len(convs) /\ Len(convs) \in Nat BY <1>1
<1>3. convs[i] \in Row BY <1>1, <1>2
<1> QED BY <1>2, <1>3 DEF Row

LEMMA OneRow ==
  ASSUME TypeOK, ~ ConvertedTwice, NEW i \in DOMAIN convs
  PROVE  i = 1 /\ convs # <<>>
BY RowType DEF ConvertedTwice

LEMMA DoneRow ==
  ASSUME BooksInv, NEW i \in DOMAIN convs, Done(i)
  PROVE  convs[i].fiat \in Nat /\ Brought(convs[i].fiat)
BY OwnCall, RowType, OneRow DEF Brought, BooksInv

LEMMA ExecuteStep ==
  ASSUME BooksInv, NEW r \in Requests, Execute(r)
  PROVE  BooksInv'
<1>1. "find" \in Steps /\ "resume" \in Steps BY DEF Steps
<1>2. CASE status = "CONVERSION_PENDING" /\ Locks(r, "find")
  BY <1>1, <1>2, GoStep DEF Execute, Begun
<1>3. CASE status = "FIAT_SETTLEMENT_PENDING" /\ Locks(r, "resume")
  BY <1>1, <1>3, GoStep DEF Execute, Begun
<1> QED BY <1>2, <1>3 DEF Execute

LEMMA FindStep ==
  ASSUME BooksInv, NEW r \in Requests, FindConversion(r) \/ ResumeSettlement(r)
  PROVE  BooksInv'
<1>1. Begun /\ Looks BY OwnCall DEF FindConversion, ResumeSettlement, At, Sound
<1>2. "convert" \in Steps /\ "settle" \in Steps /\ "review" \in Steps BY DEF Steps
<1>3. CASE Goes(r, "convert") \/ Goes(r, "review") BY <1>1, <1>2, <1>3, GoStep
<1>4. ASSUME NEW i \in DOMAIN convs, Done(i), Takes(r, "settle", convs[i].fiat) PROVE BooksInv'
  <2>1. convs[i].fiat \in Nat /\ Brought(convs[i].fiat) BY <1>4, DoneRow
  <2> QED BY <1>1, <1>2, <1>4, <2>1, TakeStep
<1>5. CASE Returns(r) BY <1>1, <1>5, ReturnStep
<1> QED BY <1>3, <1>4, <1>5 DEF FindConversion, ResumeSettlement

LEMMA ReviewStep ==
  ASSUME BooksInv, NEW r \in Requests, Review(r) \/ PollFailed(r) \/ RequireRefund(r)
  PROVE  BooksInv'
<1>1. Begun /\ Looks BY OwnCall DEF Review, PollFailed, RequireRefund, At, Sound
<1>2. Reads(r, "RECONCILIATION_REQUIRED") \/ Reads(r, "REFUND_REQUIRED")
  BY DEF Review, PollFailed, RequireRefund
<1>3. "RECONCILIATION_REQUIRED" \in MoveTargets /\ "REFUND_REQUIRED" \in MoveTargets
  BY DEF MoveTargets
<1> QED BY <1>1, <1>2, <1>3, ReadStep

LEMMA BeginSettlementStep ==
  ASSUME BooksInv, NEW r \in Requests, BeginSettlement(r)
  PROVE  BooksInv'
<1>1. Begun /\ Looks /\ Brought(call[r].amount) BY OwnCall DEF BeginSettlement, At, Sound
<1>2. "FIAT_SETTLEMENT_PENDING" \in MoveTargets /\ "poll" \in Steps BY DEF MoveTargets, Steps
<1>3. CASE Reads(r, "FIAT_SETTLEMENT_PENDING") BY <1>1, <1>2, <1>3, ReadStep
<1>4. CASE Goes(r, "poll") BY <1>1, <1>2, <1>4, GoStep
<1>5. CASE Returns(r) BY <1>1, <1>5, ReturnStep
<1> QED BY <1>3, <1>4, <1>5 DEF BeginSettlement

LEMMA LookBeforeStep ==
  ASSUME BooksInv, NEW r \in Requests, PollCompleted(r) \/ LookBeforeSettling(r)
  PROVE  BooksInv'
<1>1. Begun /\ Looks /\ Brought(call[r].amount)
  BY OwnCall DEF PollCompleted, LookBeforeSettling, At, Sound
<1>2. "look" \in Steps /\ "complete" \in Steps BY DEF Steps
<1>3. CASE Goes(r, "look") \/ Goes(r, "complete") BY <1>1, <1>2, <1>3, GoStep
<1>4. CASE Returns(r) BY <1>1, <1>4, ReturnStep
<1> QED BY <1>3, <1>4 DEF PollCompleted, LookBeforeSettling

LEMMA ReportSettledStep ==
  ASSUME BooksInv, NEW r \in Requests, ReportSettled(r)
  PROVE  BooksInv'
<1>1. Begun /\ Looks /\ FirstDone BY Split DEF ReportSettled, Begun, Rest, Settled
<1>2. "webhook" \in Steps /\ "paid" \in Steps BY DEF Steps
<1> QED BY <1>1, <1>2, GoStep DEF ReportSettled

(* Whatever row the webhook or the operator's report finds, it is the one     *)
(* conversion's if there is one.                                              *)
LEMMA ReadConversionStep ==
  ASSUME BooksInv, NEW r \in Requests, ReadConversion(r)
  PROVE  BooksInv'
<1>1. Begun /\ Looks /\ FirstDone /\ "look" \in Steps
  BY OwnCall DEF ReadConversion, At, Sound, Steps
<1>2. CASE Returns(r) BY <1>1, <1>2, ReturnStep
<1>3. ASSUME NEW fiat \in SomeFiat, Takes(r, "look", fiat) PROVE BooksInv'
  <2> PICK i \in DOMAIN convs :
        fiat = IF convs[i].status = "PENDING" THEN quote.fiat ELSE convs[i].fiat
    BY <1>3 DEF SomeFiat
  <2>1. fiat \in Nat BY OwnCall, RowType
  <2>2. Brought(fiat) BY <1>1, OwnCall, OneRow DEF FirstDone, Brought, Done
  <2> QED BY <1>1, <1>3, <2>1, <2>2, TakeStep
<1>4. CASE convs = <<>> /\ Takes(r, "look", quote.fiat)
  <2>1. Brought(quote.fiat) BY <1>1, <1>4 DEF FirstDone, Brought
  <2> QED BY <1>1, <1>4, <2>1, OwnCall, TakeStep
<1> QED BY <1>2, <1>3, <1>4 DEF ReadConversion

LEMMA AskRefundStep ==
  ASSUME BooksInv, NEW r \in Requests, AskRefund(r)
  PROVE  BooksInv'
<1>1. Begun /\ Looks /\ "refund" \in Steps BY DEF AskRefund, Begun, Steps
<1>2. PICK cost \in Costs \cup {DefaultCost} : Takes(r, "refund", cost) BY DEF AskRefund
<1>3. cost \in Nat BY BooksAssumption
<1> QED BY <1>1, <1>2, <1>3, TakeStep

LEMMA ReportFailedStep ==
  ASSUME BooksInv, NEW r \in Requests, ReportFailed(r) \/ ResolveRefund(r)
  PROVE  BooksInv'
<1>1. Begun /\ Looks /\ "fail" \in Steps BY DEF ReportFailed, ResolveRefund, Begun, Steps
<1>2. CASE Goes(r, "fail") BY <1>1, <1>2, GoStep
<1>3. ASSUME NEW i \in DOMAIN tasks, call' = [call EXCEPT ![r].at = "markFailed", ![r].on = i]
      PROVE  BooksInv'
  <2> DEFINE c == [call[r] EXCEPT !.at = "markFailed", !.on = i]
  <2>1. call[r] \in Call /\ i \in Nat BY OwnCall, LenProperties DEF TypeOK
  <2>2. c \in Call /\ c.at = "markFailed" /\ c.on = i BY <2>1 DEF Call, Steps
  <2>3. call' = [call EXCEPT ![r] = c] BY <1>3
  <2> HIDE DEF c
  <2>4. Sound(c) BY <1>1, <2>2 DEF Sound
  <2> QED BY <1>1, <2>2, <2>3, <2>4, LookStep
<1> QED BY <1>2, <1>3 DEF ReportFailed, ResolveRefund

LEMMA TakeReportStep ==
  ASSUME BooksInv, NEW r \in Requests, TakeReport(r)
  PROVE  BooksInv'
<1>1. Begun /\ Looks BY DEF TakeReport, Begun
<1>2. PICK i \in DOMAIN tasks, fiat \in Reports, rate \in Refs :
        call' = [call EXCEPT ![r].at = "mark", ![r].amount = fiat, ![r].rate = rate, ![r].on = i]
  BY DEF TakeReport
<1> DEFINE c == [call[r] EXCEPT !.at = "mark", !.amount = fiat, !.rate = rate, !.on = i]
<1>3. call[r] \in Call /\ i \in Nat /\ fiat \in Nat /\ rate \in Nat
  BY OwnCall, LenProperties, BooksAssumption DEF TypeOK
<1>4. c \in Call /\ c.at = "mark" /\ c.on = i BY <1>3 DEF Call, Steps
<1>5. call' = [call EXCEPT ![r] = c] BY <1>2
<1> HIDE DEF c
<1>6. Sound(c) BY <1>1, <1>4 DEF Sound
<1> QED BY <1>1, <1>4, <1>5, <1>6, LookStep

LEMMA FindRowStep ==
  ASSUME BooksInv, NEW r \in Requests, FindRow(r)
  PROVE  BooksInv'
<1>1. Begun /\ Looks /\ "insert" \in Steps BY OwnCall DEF FindRow, At, Sound, Steps
<1>2. CASE Goes(r, "insert") BY <1>1, <1>2, GoStep
<1>3. ASSUME NEW i \in Fillable, call' = [call EXCEPT ![r].at = "fill", ![r].on = i]
      PROVE  BooksInv'
  <2> DEFINE c == [call[r] EXCEPT !.at = "fill", !.on = i]
  <2>1. i \in DOMAIN convs BY DEF Fillable
  <2>2. call[r] \in Call /\ i \in Nat BY <2>1, OwnCall, RowType
  <2>3. c \in Call /\ c.at = "fill" /\ c.on = i BY <2>2 DEF Call, Steps
  <2>4. call' = [call EXCEPT ![r] = c] BY <1>3
  <2> HIDE DEF c
  <2>5. Sound(c) BY <1>1, <2>1, <2>3 DEF Sound
  <2> QED BY <1>1, <2>3, <2>4, <2>5, LookStep
<1> QED BY <1>2, <1>3 DEF FindRow

------------------------------------------------------------------------------
(* The steps that write rows or tasks.                                        *)

(* Rows only get more and keep what is done while there is one conversion.    *)
LEMMA RowStep ==
  ASSUME BooksInv, NEW r \in Requests, NEW c \in Call, call' = [call EXCEPT ![r] = c],
         UNCHANGED <<offRamp, quote, status, books>>, Begun,
         convs' \in Seq(Row), tasks' \in Seq(Result), refilled' \in BOOLEAN, Sufficient',
         DOMAIN convs \subseteq DOMAIN convs', DOMAIN tasks \subseteq DOMAIN tasks',
         ~ ConvertedTwice' => ~ ConvertedTwice,
         ~ ConvertedTwice' /\ convs # <<>> /\ Done(1) =>
           convs' # <<>> /\ Done(1)' /\ convs'[1].fiat = convs[1].fiat,
         Sound(c)'
  PROVE  BooksInv'
<1> USE DEF books
<1>1. Rest /\ \A q \in Requests : Sound(call[q]) BY Split
<1>2. \A q \in Requests : call'[q] = IF q = r THEN c ELSE call[q] BY <1>1 DEF Rest, TypeOK
<1>3. TypeOK' BY <1>1 DEF Rest, TypeOK
<1>4. Quoted' /\ (Begun \/ convs = <<>>)' /\ Refusals'
  BY <1>1 DEF Rest, Quoted, Begun, Refusals
<1>5. FirstDone => FirstDone' BY DEF FirstDone
<1>6. \A amount : Brought(amount) => Brought(amount)' BY DEF Brought
<1>7. Settled' BY <1>1, <1>5 DEF Rest, Settled
<1>8. Booked' BY <1>1 DEF Rest, Booked
<1>9. MoneyAccounted'
  BY <1>1 DEF Rest, MoneyAccounted, Balanced, Net, Sold, Returned
<1>10. ASSUME NEW q \in Requests PROVE Sound(call[q])'
  <2>1. CASE q = r
    <3>1. call'[q] = c BY <1>2, <2>1
    <3> QED BY <3>1 DEF Sound, SoundMove, Brought
  <2>2. CASE q # r
    <3>1. Sound(call[q]) /\ call'[q] = call[q] BY <1>1, <1>2, <2>2
    <3>2. Begun' BY DEF Begun
    <3>3. SoundMove(call[q]) => SoundMove(call[q])' BY <1>6, <3>1 DEF SoundMove
    <3> QED BY <1>5, <1>6, <3>1, <3>2, <3>3 DEF Sound
  <2> QED BY <2>1, <2>2
<1> QED BY <1>1, <1>3, <1>4, <1>7, <1>8, <1>9, <1>10, SplitNext DEF Rest

LEMMA FillType ==
  ASSUME quote.fiat \in Nat, NEW fiat \in Nat, NEW rate \in Nat
  PROVE  /\ Fill(fiat, rate) \in Row /\ Fill(fiat, rate).fiat = fiat
         /\ Fill(fiat, rate).status \in {"PARTIAL", "COMPLETED"}
         /\ Fill(fiat, rate).status = "PARTIAL" <=> fiat < quote.fiat
BY DEF Fill, Row

LEMMA AppendRow ==
  ASSUME NEW S, NEW seq \in Seq(S), NEW row \in S
  PROVE  /\ Append(seq, row) \in Seq(S) /\ Append(seq, row) # <<>>
         /\ Len(Append(seq, row)) = Len(seq) + 1 /\ Len(seq) \in Nat
         /\ DOMAIN Append(seq, row) = 1 .. Len(seq) + 1 /\ DOMAIN seq = 1 .. Len(seq)
         /\ \A i \in DOMAIN seq : Append(seq, row)[i] = seq[i]
         /\ Append(seq, row)[Len(seq) + 1] = row
         /\ Len(seq) = 0 => seq = <<>>
<1>1. /\ Append(seq, row) \in Seq(S) /\ Append(seq, row) # <<>>
      /\ Len(Append(seq, row)) = Len(seq) + 1
      /\ \A i \in 1 .. Len(seq) : Append(seq, row)[i] = seq[i]
      /\ Append(seq, row)[Len(seq) + 1] = row
  BY AppendProperties
<1>2. Len(seq) \in Nat /\ DOMAIN seq = 1 .. Len(seq) BY LenProperties
<1>3. DOMAIN Append(seq, row) = 1 .. Len(seq) + 1 BY <1>1, LenProperties
<1>4. Len(seq) = 0 => seq = <<>> BY EmptySeq
<1> QED BY <1>1, <1>2, <1>3, <1>4

(* A row more: the rows before it still bring enough if they are done, and if *)
(* it is the one conversion it is the first of them.                          *)
LEMMA MoreRows ==
  ASSUME BooksInv, NEW row \in Row, row.status = "COMPLETED" => row.fiat >= quote.fiat,
         convs' = Append(convs, row), quote' = quote, refilled' = refilled
  PROVE  /\ convs' \in Seq(Row) /\ Sufficient' /\ DOMAIN convs \subseteq DOMAIN convs'
         /\ ~ ConvertedTwice' => ~ ConvertedTwice /\ convs = <<>> /\ convs'[1] = row /\ convs' # <<>>
<1>1. convs \in Seq(Row) BY DEF BooksInv, TypeOK
<1>2. Sufficient' BY <1>1, AppendRow DEF BooksInv, Sufficient, Done
<1>3. ASSUME ~ ConvertedTwice'
      PROVE  ~ ConvertedTwice /\ convs = <<>> /\ convs'[1] = row
  <2>1. Len(convs) \in Nat /\ Len(convs) + 1 <= 1 /\ ~ refilled
    BY <1>1, <1>3, AppendRow DEF ConvertedTwice
  <2>2. Len(convs) = 0 BY <2>1
  <2> QED BY <1>1, <2>1, <2>2, AppendRow DEF ConvertedTwice
<1>4. convs' \in Seq(Row) /\ convs' # <<>> BY <1>1, AppendRow
<1>5. DOMAIN convs \subseteq DOMAIN convs'
  <2>1. /\ DOMAIN convs = 1 .. Len(convs) /\ DOMAIN convs' = 1 .. Len(convs) + 1
        /\ Len(convs) \in Nat
    BY <1>1, AppendRow
  <2> QED BY <2>1
<1> QED BY <1>2, <1>3, <1>4, <1>5

LEMMA BringsType ==
  ASSUME BooksInv, NEW rate \in Refs
  PROVE  rate \in Nat /\ quote.fiat \in Nat /\ Brings(rate) \in Nat
<1>1. rate \in Nat /\ quote.fiat \in Nat /\ quote.fiat > 0 /\ quote.held \in Nat
  BY BooksAssumption DEF BooksInv, TypeOK, Quote, Quoted
<1>2. Proceeds(quote.held, rate) \in Nat BY <1>1, ProceedsType
<1> QED BY <1>1, <1>2 DEF Brings

(* What a filled row leads to.                                                *)
LEMMA SettlesTo ==
  ASSUME TypeOK, NEW r \in Requests, NEW fiat \in Nat, quote.fiat \in Nat, Settles(r, fiat)
  PROVE  \E c \in Call : /\ call' = [call EXCEPT ![r] = c]
                         /\ \/ c.at = "review"
                            \/ c.at = "settle" /\ c.amount = fiat /\ fiat >= quote.fiat
<1>1. "review" \in Steps /\ "settle" \in Steps BY DEF Steps
<1>2. CASE fiat < quote.fiat
  <2>1. Takes(r, "review", 0) BY <1>2 DEF Settles
  <2> QED BY <1>1, <2>1, TakesTo
<1>3. CASE ~ (fiat < quote.fiat)
  <2>1. Takes(r, "settle", fiat) BY <1>3 DEF Settles
  <2>2. fiat >= quote.fiat BY <1>3
  <2> QED BY <1>1, <2>1, <2>2, TakesTo
<1> QED BY <1>2, <1>3

LEMMA ConvertStep ==
  ASSUME BooksInv, NEW r \in Requests, Convert(r)
  PROVE  BooksInv'
<1>1. PICK rate \in Refs :
        convs' = Append(convs, Fill(Brings(rate), rate)) /\ Settles(r, Brings(rate))
  BY DEF Convert
<1> DEFINE fiat == Brings(rate)
           row  == Fill(fiat, rate)
<1>2. fiat \in Nat /\ rate \in Nat /\ quote.fiat \in Nat BY BringsType
<1>3. UNCHANGED <<offRamp, quote, status, tasks, refilled, books>> BY DEF Convert
<1>4. Begun BY OwnCall DEF Convert, At, Sound
<1>5. convs' = Append(convs, row) /\ Settles(r, fiat) BY <1>1
<1> HIDE DEF fiat
<1>6. row \in Row /\ row.fiat = fiat /\ (row.status = "COMPLETED" <=> fiat >= quote.fiat)
  BY <1>2, FillType
<1> HIDE DEF row
<1>7. /\ convs' \in Seq(Row) /\ Sufficient' /\ DOMAIN convs \subseteq DOMAIN convs'
      /\ ~ ConvertedTwice' => ~ ConvertedTwice /\ convs = <<>> /\ convs'[1] = row /\ convs' # <<>>
  BY <1>3, <1>5, <1>6, MoreRows
<1>8. TypeOK BY OwnCall
<1> PICK c \in Call : /\ call' = [call EXCEPT ![r] = c]
                      /\ \/ c.at = "review"
                         \/ c.at = "settle" /\ c.amount = fiat /\ fiat >= quote.fiat
  BY <1>2, <1>5, <1>8, SettlesTo
<1>9. Sound(c)'
  <2>1. Begun' BY <1>3, <1>4 DEF Begun
  <2>2. c.at = "settle" => Brought(c.amount)' BY <1>6, <1>7 DEF Brought, Done
  <2> QED BY <2>1, <2>2 DEF Sound
<1>10. tasks' \in Seq(Result) /\ refilled' \in BOOLEAN BY <1>3, <1>8 DEF TypeOK
<1> QED BY <1>3, <1>4, <1>7, <1>9, <1>10, RowStep

(* The manual off-ramp's row, or the one a report inserts.                    *)
LEMMA OpenRowStep ==
  ASSUME BooksInv, NEW r \in Requests, OpenConversion(r) \/ InsertRow(r)
  PROVE  BooksInv'
<1>1. /\ convs' = Append(convs, Open) /\ (Returns(r) \/ Goes(r, "row"))
      /\ UNCHANGED <<offRamp, quote, status, tasks, refilled, books>>
  BY DEF OpenConversion, InsertRow
<1>2. TypeOK /\ Begun BY OwnCall DEF OpenConversion, InsertRow, At, Sound
<1>3. Open \in Row /\ Open.status = "PENDING" BY DEF Open, Row
<1>4. /\ convs' \in Seq(Row) /\ Sufficient' /\ DOMAIN convs \subseteq DOMAIN convs'
      /\ ~ ConvertedTwice' => ~ ConvertedTwice /\ convs = <<>>
  BY <1>1, <1>3, MoreRows
<1>5. "row" \in Steps BY DEF Steps
<1> PICK c \in Call : call' = [call EXCEPT ![r] = c] /\ c.at \in {"-", "row"}
  BY <1>1, <1>2, <1>5, GoesTo, ReturnsTo
<1>6. Sound(c)' BY <1>1, <1>2 DEF Sound, Begun
<1>7. tasks' \in Seq(Result) /\ refilled' \in BOOLEAN BY <1>1, <1>2 DEF TypeOK
<1> QED BY <1>1, <1>2, <1>4, <1>6, <1>7, RowStep

(* A step that writes a task.                                                 *)
LEMMA TaskStep ==
  ASSUME BooksInv, NEW r \in Requests, NEW c \in Call, call' = [call EXCEPT ![r] = c],
         UNCHANGED <<offRamp, quote, status, convs, refilled, books>>, Begun,
         tasks' \in Seq(Result), DOMAIN tasks \subseteq DOMAIN tasks',
         c.at \in {"open", "fail", "row"}
  PROVE  BooksInv'
<1>1. TypeOK /\ Sufficient BY DEF BooksInv
<1>2. Sufficient' /\ (ConvertedTwice' <=> ConvertedTwice) /\ (Done(1)' <=> Done(1))
  BY <1>1 DEF Sufficient, ConvertedTwice, Done
<1>3. Sound(c)' BY DEF Sound, Begun
<1>4. convs' \in Seq(Row) /\ refilled' \in BOOLEAN BY <1>1 DEF TypeOK
<1> QED BY <1>2, <1>3, <1>4, RowStep

LEMMA FileTaskStep ==
  ASSUME BooksInv, NEW r \in Requests, FileTask(r)
  PROVE  BooksInv'
<1>1. TypeOK /\ Begun /\ "open" \in Steps BY OwnCall DEF FileTask, At, Sound, Steps
<1> PICK c \in Call : call' = [call EXCEPT ![r] = c] /\ c.at = "open"
  BY <1>1, GoesTo DEF FileTask
<1>2. tasks \in Seq(Result) /\ Open \in Result BY <1>1 DEF TypeOK, Open, Result
<1>3. tasks' = Append(tasks, Open) BY DEF FileTask
<1>4. /\ tasks' \in Seq(Result) /\ DOMAIN tasks = 1 .. Len(tasks)
      /\ DOMAIN tasks' = 1 .. Len(tasks) + 1 /\ Len(tasks) \in Nat
  BY <1>2, <1>3, AppendRow
<1>5. DOMAIN tasks \subseteq DOMAIN tasks' BY <1>4
<1> QED BY <1>1, <1>4, <1>5, TaskStep DEF FileTask

LEMMA MarkStep ==
  ASSUME BooksInv, NEW r \in Requests, MarkTask(r) \/ MarkFailed(r)
  PROVE  BooksInv'
<1>1. /\ TypeOK /\ Begun /\ call[r] \in Call /\ call[r].on \in DOMAIN tasks
      /\ UNCHANGED <<offRamp, quote, status, convs, refilled, books>>
  BY OwnCall DEF MarkTask, MarkFailed, At, Sound
<1>2. PICK result \in Result : tasks' = [tasks EXCEPT ![call[r].on] = result]
  <2>1. CASE MarkFailed(r)
    <3>1. Failed \in Result BY DEF Failed, Open, Result
    <3> QED BY <2>1, <3>1 DEF MarkFailed
  <2>2. CASE MarkTask(r)
    <3> DEFINE result == [status |-> "COMPLETED", fiat |-> call[r].amount, rate |-> call[r].rate]
    <3>1. result \in Result BY <1>1 DEF Call, Result
    <3>2. tasks' = [tasks EXCEPT ![call[r].on] = result] BY <2>2 DEF MarkTask
    <3> QED BY <3>1, <3>2
  <2> QED BY <2>1, <2>2
<1>3. tasks' \in Seq(Result) /\ DOMAIN tasks' = DOMAIN tasks
  <2>1. tasks \in Seq(Result) BY <1>1 DEF TypeOK
  <2>2. call[r].on \in 1 .. Len(tasks) /\ DOMAIN tasks = 1 .. Len(tasks) BY <1>1, <2>1, LenProperties
  <2>3. tasks' \in Seq(Result) /\ Len(tasks') = Len(tasks) BY <1>2, <2>1, <2>2, ExceptSeq
  <2> QED BY <2>2, <2>3, LenProperties
<1>4. PICK c \in Call : call' = [call EXCEPT ![r] = c] /\ c.at \in {"fail", "row"}
  <2>1. CASE MarkFailed(r)
    <3>1. Takes(r, "fail", 0) /\ "fail" \in Steps BY <2>1 DEF MarkFailed, Steps
    <3> QED BY <1>1, <3>1, TakesTo
  <2>2. CASE MarkTask(r)
    <3> DEFINE c == [call[r] EXCEPT !.at = "row", !.on = 0]
    <3>1. c \in Call /\ c.at = "row" BY <1>1 DEF Call, Steps
    <3>2. call' = [call EXCEPT ![r] = c] BY <2>2 DEF MarkTask
    <3> QED BY <3>1, <3>2
  <2> QED BY <2>1, <2>2
<1> QED BY <1>1, <1>3, <1>4, TaskStep

(* A report fills the row it found, which may have been filled since: with    *)
(* the same amounts, or there is more than one conversion.                    *)
LEMMA FillRowStep ==
  ASSUME BooksInv, NEW r \in Requests, FillRow(r)
  PROVE  BooksInv'
<1> DEFINE row    == call[r].on
           fiat   == call[r].amount
           filled == Fill(fiat, call[r].rate)
<1>1. /\ TypeOK /\ Begun /\ call[r] \in Call /\ row \in DOMAIN convs
      /\ UNCHANGED <<offRamp, quote, status, tasks, books>>
  BY OwnCall DEF FillRow, At, Sound
<1>2. /\ convs' = [convs EXCEPT ![row] = filled] /\ Settles(r, fiat)
      /\ refilled' = (refilled \/ convs[row] \notin {Open, filled})
  BY DEF FillRow
<1>3. fiat \in Nat /\ call[r].rate \in Nat /\ quote.fiat \in Nat BY <1>1, OwnCall DEF Call
<1>4. filled \in Row /\ filled.fiat = fiat /\ (filled.status = "COMPLETED" <=> fiat >= quote.fiat)
  BY <1>3, FillType
<1>5. convs \in Seq(Row) /\ refilled \in BOOLEAN /\ Sufficient BY <1>1 DEF TypeOK, BooksInv
<1>6. row \in 1 .. Len(convs) /\ Len(convs) \in Nat /\ DOMAIN convs = 1 .. Len(convs)
  BY <1>1, <1>5, LenProperties
<1> HIDE DEF row, filled, fiat
<1>7. /\ convs' \in Seq(Row) /\ Len(convs') = Len(convs)
      /\ \A j \in 1 .. Len(convs) : convs'[j] = IF j = row THEN filled ELSE convs[j]
  BY <1>2, <1>4, <1>5, <1>6, ExceptSeq
<1>8. DOMAIN convs' = DOMAIN convs BY <1>6, <1>7, LenProperties
<1>9. Sufficient' BY <1>1, <1>3, <1>4, <1>5, <1>6, <1>7, <1>8 DEF Sufficient, Done
<1>10. ASSUME ~ ConvertedTwice'
       PROVE  ~ ConvertedTwice /\ row = 1 /\ convs'[1] = filled /\ convs[1] \in {Open, filled}
  <2>1. Len(convs) <= 1 /\ ~ refilled' BY <1>7, <1>10 DEF ConvertedTwice
  <2>2. row = 1 BY <1>6, <2>1
  <2>3. ~ (refilled \/ convs[row] \notin {Open, filled}) BY <1>2, <2>1, Zenon
  <2> QED BY <1>6, <1>7, <2>1, <2>2, <2>3 DEF ConvertedTwice
<1>11. convs' # <<>> BY <1>1, <1>8
<1>12. ~ ConvertedTwice' /\ convs # <<>> /\ Done(1) =>
         convs' # <<>> /\ Done(1)' /\ convs'[1].fiat = convs[1].fiat
  <2>1. SUFFICES ASSUME ~ ConvertedTwice', Done(1)
                 PROVE  Done(1)' /\ convs'[1].fiat = convs[1].fiat
    BY <1>11
  <2>2. convs[1] = filled BY <1>10, <2>1 DEF Done, Open
  <2> QED BY <1>10, <2>1, <2>2 DEF Done
<1> PICK c \in Call : /\ call' = [call EXCEPT ![r] = c]
                      /\ \/ c.at = "review"
                         \/ c.at = "settle" /\ c.amount = fiat /\ fiat >= quote.fiat
  BY <1>1, <1>2, <1>3, SettlesTo
<1>13. Sound(c)'
  <2>1. Begun' BY <1>1 DEF Begun
  <2>2. c.at = "settle" => Brought(c.amount)' BY <1>4, <1>10, <1>11 DEF Brought, Done
  <2> QED BY <2>1, <2>2 DEF Sound
<1>14. tasks' \in Seq(Result) /\ refilled' \in BOOLEAN BY <1>1, <1>2, <1>5 DEF TypeOK
<1> QED BY <1>1, <1>7, <1>8, <1>9, <1>10, <1>12, <1>13, <1>14, RowStep

------------------------------------------------------------------------------
(* Postings.                                                                  *)

Balances == [Accounts -> Int]

(* What is owed adds up, and so do the accounts.                              *)
LEMMA NetPlus ==
  ASSUME NEW b \in Balances, NEW p \in Balances
  PROVE  /\ Plus(b, p) \in Balances /\ Net(Plus(b, p)) = Net(b) + Net(p)
         /\ \A a \in Accounts : Plus(b, p)[a] = b[a] + p[a]
BY DEF Balances, Accounts, Plus, Net

LEMMA EmptyBalance ==
  Empty \in Balances /\ Net(Empty) = 0 /\ \A a \in Accounts : Empty[a] = 0
BY DEF Empty, Balances, Accounts, Net

(* The entries of the three groups.                                           *)
LEMMA SettlementType ==
  ASSUME quote.fiat \in Nat, NEW drift \in Int
  PROVE  /\ Settlement(drift) \in Balances /\ Net(Settlement(drift)) = 0
         /\ Settlement(drift)["merchant:fiat"] = quote.fiat
         /\ Settlement(drift)["fees"] = - FeeIdr
         /\ Settlement(drift)["spread"] = - drift
<1>1. FeeIdr \in Nat BY BooksAssumption
<1> QED BY <1>1 DEF Settlement, Empty, Balances, Accounts, Net

LEMMA RepaymentType ==
  ASSUME quote.held \in Nat, NEW cost \in Nat
  PROVE  /\ Repayment(cost) \in Balances /\ Net(Repayment(cost)) = 0
         /\ Repayment(cost)["provider:conversion"] = - quote.held
         /\ Repayment(cost)["fees"] = cost
BY DEF Repayment, Empty, Balances, Accounts, Net

LEMMA FundingType ==
  ASSUME quote.held \in Nat
  PROVE  /\ Funding \in Balances /\ Net(Funding) = 0
         /\ Funding["provider:conversion"] = quote.held /\ Funding["fees"] = 0
BY DEF Funding, Empty, Balances, Accounts, Net

LEMMA CompleteSettlementStep ==
  ASSUME BooksInv, NEW r \in Requests, CompleteSettlement(r)
  PROVE  BooksInv'
<1> DEFINE drift == call[r].amount - quote.fiat
           legs  == {quote.fiat, FeeIdr, Size(drift)}
<1>1. Begun /\ Brought(call[r].amount) BY OwnCall DEF CompleteSettlement, At, Sound
<1>2. quote.fiat \in Nat /\ FeeIdr \in Nat /\ drift \in Int BY OwnCall, BooksAssumption
<1>3. PostsOrThrows(r, legs, Settlement(drift), "COMPLETED") BY DEF CompleteSettlement
<1>4. \A amount \in legs : amount >= 0 BY <1>2 DEF Size
<1> HIDE DEF drift, legs
<1>5. Postable(legs, Settlement(drift)) BY <1>2, <1>4, SettlementType DEF Postable
<1>6. Reads(r, "COMPLETED") /\ refused' = refused BY <1>3, <1>5 DEF PostsOrThrows
<1>7. Looks BY <1>6 DEF CompleteSettlement, Looks, books
<1>8. "COMPLETED" \in MoveTargets BY DEF MoveTargets
<1> QED BY <1>1, <1>6, <1>7, <1>8, ReadStep

(* A refund whose postings have thrown.                                       *)
LEMMA RefusedStep ==
  ASSUME BooksInv, NEW r \in Requests, Returns(r), call[r].amount \in Costs \cup {DefaultCost},
         call[r].amount > quote.held, refused' = refused \cup {"REFUNDED"},
         UNCHANGED <<offRamp, quote, status, rows, usdc, idr, posted, lost>>
  PROVE  BooksInv'
<1> USE DEF rows
<1>1. Rest /\ \A q \in Requests : Sound(call[q]) BY Split
<1>2. PICK c \in Call : call' = [call EXCEPT ![r] = c] /\ c.at = "-" BY ReturnsTo
<1>3. \A q \in Requests : call'[q] = IF q = r THEN c ELSE call[q]
  BY <1>1, <1>2 DEF Rest, TypeOK
<1>4. TypeOK' BY <1>1, <1>2, StateNames DEF Rest, TypeOK
<1>5. Quoted' /\ (Begun \/ convs = <<>>)' /\ Refusals'
  BY <1>1 DEF Rest, Quoted, Begun, Refusals
<1>6. Sufficient' /\ Settled' /\ Booked'
  BY <1>1 DEF Rest, Sufficient, Done, Settled, FirstDone, ConvertedTwice, Booked
<1>7. MoneyAccounted'
  BY <1>1 DEF Rest, MoneyAccounted, Balanced, Net, Sold, Returned
<1>8. ASSUME NEW q \in Requests PROVE Sound(call[q])'
  <2>1. CASE q = r BY <1>2, <1>3, <2>1 DEF Sound
  <2>2. CASE q # r
    <3>1. Sound(call[q]) /\ call'[q] = call[q] BY <1>1, <1>3, <2>2
    <3> QED BY <3>1 DEF Sound, SoundMove, Begun, FirstDone, Brought, ConvertedTwice, Done
  <2> QED BY <2>1, <2>2
<1> QED BY <1>4, <1>5, <1>6, <1>7, <1>8, SplitNext DEF Rest

LEMMA RefundStep ==
  ASSUME BooksInv, NEW r \in Requests, Refund(r)
  PROVE  BooksInv'
<1> DEFINE cost == call[r].amount
           legs == {quote.held - cost, cost, quote.held}
<1>1. Begun /\ cost \in Costs \cup {DefaultCost} BY OwnCall DEF Refund, At, Sound
<1>2. quote.held \in Nat /\ cost \in Nat BY OwnCall
<1>3. PostsOrThrows(r, legs, Repayment(cost), "REFUNDED") BY DEF Refund
<1>4. Net(Repayment(cost)) = 0 BY <1>2, RepaymentType
<1>5. Postable(legs, Repayment(cost)) <=> cost <= quote.held BY <1>2, <1>4 DEF Postable
<1>6. CASE cost <= quote.held
  <2>1. Reads(r, "REFUNDED") /\ refused' = refused BY <1>3, <1>5, <1>6 DEF PostsOrThrows
  <2>2. Looks BY <2>1 DEF Refund, Looks, books
  <2>3. "REFUNDED" \in MoveTargets BY DEF MoveTargets
  <2> QED BY <1>1, <1>6, <2>1, <2>2, <2>3, ReadStep
<1>7. CASE ~ (cost <= quote.held)
  <2>1. Returns(r) /\ refused' = refused \cup {"REFUNDED"} BY <1>3, <1>5, <1>7 DEF PostsOrThrows
  <2>2. cost > quote.held BY <1>2, <1>7
  <2> QED BY <1>1, <2>1, <2>2, RefusedStep DEF Refund
<1> QED BY <1>6, <1>7

LEMMA OneMore ==
  ASSUME NEW a \in Nat, NEW b \in Nat
  PROVE  (a + 1) * b = a * b + b
BY SMT

(* What a transaction does to the books.                                      *)
LEMMA CommitBooks ==
  ASSUME BooksInv, NEW r \in Requests, Commit(r)
  PROVE  /\ usdc' \in Balances /\ idr' \in Balances /\ Balanced'
         /\ posted' \in [{"COMPLETED", "REFUNDED"} -> Nat]
         /\ (idr["merchant:fiat"] = posted["COMPLETED"] * quote.fiat)'
         /\ usdc'["provider:conversion"] = quote.held - Returned'
         /\ usdc'["fees"] \in 0 .. Returned'
         /\ Booked'
<1> DEFINE c == call[r]
<1>1. /\ TypeOK /\ Begun /\ SoundMove(c) /\ c.amount \in Nat /\ quote.fiat \in Nat
      /\ quote.held \in Nat
  BY OwnCall DEF Commit, At, Sound
<1>2. /\ usdc' = IF c.to = "REFUNDED" THEN Plus(usdc, Repayment(c.amount)) ELSE usdc
      /\ idr' = IF c.to = "COMPLETED" THEN Plus(idr, Settlement(c.amount - quote.fiat)) ELSE idr
      /\ posted' = IF c.to \in DOMAIN posted THEN [posted EXCEPT ![c.to] = @ + 1] ELSE posted
      /\ UNCHANGED <<quote, convs, refilled>>
  BY DEF Commit, Posts, rows
<1>3. /\ usdc \in Balances /\ idr \in Balances /\ posted \in [{"COMPLETED", "REFUNDED"} -> Nat]
      /\ FeeIdr \in Nat
  BY <1>1, BooksAssumption DEF TypeOK, Balances
<1>4. /\ Net(usdc) = 0 /\ Net(idr) = 0
      /\ idr["merchant:fiat"] = posted["COMPLETED"] * quote.fiat
      /\ usdc["provider:conversion"] = quote.held - Returned
      /\ usdc["fees"] \in 0 .. Returned
      /\ Booked
  BY <1>1 DEF BooksInv, MoneyAccounted, Balanced, Sold, Begun
<1>5. posted["COMPLETED"] \in Nat /\ posted["REFUNDED"] \in Nat BY <1>3
<1>6. ConvertedTwice' <=> ConvertedTwice BY <1>2 DEF ConvertedTwice
<1>7. Done(1)' <=> Done(1) BY <1>2 DEF Done
<1> HIDE DEF c
<1>8. CASE c.to = "COMPLETED"
  <2> DEFINE drift == c.amount - quote.fiat
             i == Settlement(drift)
  <2>1. drift \in Int BY <1>1
  <2>2. /\ i \in Balances /\ Net(i) = 0 /\ i["merchant:fiat"] = quote.fiat
        /\ i["fees"] = - FeeIdr /\ i["spread"] = - drift
    BY <1>1, <2>1, SettlementType
  <2>3. usdc' = usdc /\ idr' = Plus(idr, i) BY <1>2, <1>8
  <2> HIDE DEF i
  <2>4. /\ posted'["COMPLETED"] = posted["COMPLETED"] + 1
        /\ posted'["REFUNDED"] = posted["REFUNDED"]
        /\ posted' \in [{"COMPLETED", "REFUNDED"} -> Nat]
    BY <1>2, <1>3, <1>8
  <2>5. /\ idr' \in Balances /\ Net(idr') = Net(idr) + 0
        /\ \A a \in Accounts : idr'[a] = idr[a] + i[a]
    BY <1>3, <2>2, <2>3, NetPlus
  <2>6. Balanced'
    BY <1>3, <1>4, <2>3, <2>5 DEF Balanced, Net, Balances
  <2>7. (idr["merchant:fiat"] = posted["COMPLETED"] * quote.fiat)'
    <3>1. (posted["COMPLETED"] + 1) * quote.fiat = posted["COMPLETED"] * quote.fiat + quote.fiat
      BY <1>1, <1>5, OneMore
    <3> QED BY <1>2, <1>4, <2>2, <2>4, <2>5, <3>1 DEF Accounts
  <2>8. Returned' = Returned BY <1>2, <2>4 DEF Returned
  <2>9. Booked'
    <3>1. Brought(c.amount) BY <1>1, <1>8 DEF SoundMove
    <3>2. idr'["spread"] = idr["spread"] - drift /\ idr'["fees"] = idr["fees"] - FeeIdr
      BY <1>3, <2>1, <2>2, <2>5 DEF Balances, Accounts
    <3>3. idr["spread"] \in Int /\ idr["fees"] \in Int BY <1>3 DEF Balances, Accounts
    <3>4. ~ ConvertedTwice => drift >= 0 /\ drift = convs[1].fiat - quote.fiat
      <4>1. SUFFICES ASSUME ~ ConvertedTwice PROVE convs[1].fiat >= quote.fiat /\ c.amount = convs[1].fiat
        BY <1>1, <2>1
      <4>2. convs # <<>> /\ Done(1) /\ convs \in Seq(Row) /\ c.amount = convs[1].fiat
        BY <1>1, <3>1, <4>1 DEF Brought, TypeOK
      <4>3. 1 \in DOMAIN convs BY <4>2, EmptySeq, LenProperties
      <4> QED BY <4>2, <4>3 DEF BooksInv, Sufficient
    <3>5. ~ ConvertedTwice => (convs # <<>> /\ Done(1))' BY <1>2, <1>7, <3>1 DEF Brought
    <3>6. posted'["COMPLETED"] # 0 /\ (posted'["COMPLETED"] = 1 => posted["COMPLETED"] = 0)
      BY <1>5, <2>4
    <3>7. ~ ConvertedTwice => idr'["spread"] <= 0
      BY <1>4, <2>1, <3>2, <3>3, <3>4 DEF Booked
    <3>8. ~ ConvertedTwice /\ posted["COMPLETED"] = 0 =>
            idr'["fees"] = - FeeIdr /\ idr'["spread"] = quote.fiat - convs[1].fiat
      <4>1. SUFFICES ASSUME ~ ConvertedTwice, posted["COMPLETED"] = 0
                     PROVE  idr'["fees"] = - FeeIdr /\ idr'["spread"] = quote.fiat - convs[1].fiat
        OBVIOUS
      <4>2. idr["fees"] = 0 /\ idr["spread"] = 0 BY <1>4, <4>1 DEF Booked
      <4>3. c.amount = convs[1].fiat BY <3>1, <4>1 DEF Brought
      <4> QED BY <1>1, <1>3, <2>1, <3>2, <4>2, <4>3
    <3> QED BY <1>2, <1>6, <3>5, <3>6, <3>7, <3>8 DEF Booked
  <2>10. usdc'["provider:conversion"] = quote.held - Returned' /\ usdc'["fees"] \in 0 .. Returned'
    BY <1>4, <2>3, <2>8
  <2> QED BY <1>3, <2>3, <2>4, <2>5, <2>6, <2>7, <2>9, <2>10
<1>9. CASE c.to = "REFUNDED"
  <2> DEFINE u == Repayment(c.amount)
  <2>1. /\ u \in Balances /\ Net(u) = 0
        /\ u["provider:conversion"] = - quote.held /\ u["fees"] = c.amount
    BY <1>1, RepaymentType
  <2>2. usdc' = Plus(usdc, u) /\ idr' = idr BY <1>2, <1>9
  <2> HIDE DEF u
  <2>3. /\ posted'["REFUNDED"] = posted["REFUNDED"] + 1
        /\ posted'["COMPLETED"] = posted["COMPLETED"]
        /\ posted' \in [{"COMPLETED", "REFUNDED"} -> Nat]
    BY <1>2, <1>3, <1>9
  <2>4. /\ usdc' \in Balances /\ Net(usdc') = Net(usdc) + 0
        /\ \A a \in Accounts : usdc'[a] = usdc[a] + u[a]
    BY <1>3, <2>1, <2>2, NetPlus
  <2>5. c.amount <= quote.held BY <1>1, <1>9 DEF SoundMove
  <2>6. Returned' = Returned + quote.held /\ Returned \in Nat
    <3>1. (posted["REFUNDED"] + 1) * quote.held = posted["REFUNDED"] * quote.held + quote.held
      BY <1>1, <1>5, OneMore
    <3>2. posted["REFUNDED"] * quote.held \in Nat BY <1>1, <1>5, ProductNat
    <3> QED BY <1>2, <2>3, <3>1, <3>2 DEF Returned
  <2>7. Balanced' BY <1>3, <1>4, <2>2, <2>4 DEF Balanced, Net, Balances
  <2>8. (idr["merchant:fiat"] = posted["COMPLETED"] * quote.fiat)' BY <1>2, <1>4, <2>2, <2>3
  <2>9. usdc'["provider:conversion"] = quote.held - Returned'
    BY <1>1, <1>3, <1>4, <2>1, <2>4, <2>6 DEF Accounts, Balances
  <2>10. usdc'["fees"] \in 0 .. Returned'
    BY <1>1, <1>3, <1>4, <2>1, <2>4, <2>5, <2>6 DEF Accounts, Balances
  <2>11. Booked' BY <1>2, <1>4, <1>6, <1>7, <2>2, <2>3 DEF Booked
  <2> QED BY <1>3, <2>2, <2>3, <2>4, <2>7, <2>8, <2>9, <2>10, <2>11
<1>10. CASE c.to \notin {"COMPLETED", "REFUNDED"}
  <2>1. UNCHANGED <<usdc, idr, posted>> BY <1>2, <1>3, <1>10
  <2>2. Balanced' /\ Returned' = Returned BY <1>2, <1>4, <2>1 DEF Balanced, Net, Returned
  <2>3. Booked' BY <1>2, <1>4, <1>6, <1>7, <2>1 DEF Booked
  <2> QED BY <1>2, <1>3, <1>4, <2>1, <2>2, <2>3
<1> QED BY <1>8, <1>9, <1>10

(* What it does to the status: an end is only left by a status that is lost.  *)
LEMMA CommitStatus ==
  ASSUME BooksInv, NEW r \in Requests, Commit(r)
  PROVE  /\ status' \in States /\ lost' \in BOOLEAN /\ Begun' /\ Settled'
         /\ status' \in {"COMPLETED", "REFUNDED"} => posted'[status'] > 0
         /\ ~ lost' => ~ lost /\ \A end \in {"COMPLETED", "REFUNDED"} :
                         /\ status = end => status' = end
                         /\ posted'[end] > 0 => status' = end
<1> DEFINE c == call[r]
<1>1. /\ TypeOK /\ Begun /\ SoundMove(c) /\ Settled
      /\ status \in States /\ posted \in [{"COMPLETED", "REFUNDED"} -> Nat] /\ lost \in BOOLEAN
  BY OwnCall, Split DEF Commit, At, Sound, TypeOK, Rest
<1>2. /\ status' = IF c.seen = c.to THEN status ELSE c.to
      /\ posted' = IF c.to \in DOMAIN posted THEN [posted EXCEPT ![c.to] = @ + 1] ELSE posted
      /\ UNCHANGED <<convs, refilled>>
  BY DEF Commit, Posts, rows
<1>3. lost' = (lost \/ (status' \notin Edges[status] \cup {status})) BY DEF Commit
<1>4. /\ \A end \in {"COMPLETED", "REFUNDED"} : status = end => posted[end] > 0
      /\ ~ lost => \A end \in {"COMPLETED", "REFUNDED"} : posted[end] > 0 => status = end
  BY <1>1 DEF BooksInv, MoneyAccounted
<1> HIDE DEF c
<1>5. c.to \in MoveTargets BY <1>1 DEF SoundMove
<1>6. status' \in States /\ status' \in {status, c.to} BY <1>1, <1>2, <1>5, StateNames DEF MoveTargets
<1>7. Begun' BY <1>1, <1>5, <1>6 DEF Begun, MoveTargets
<1>8. Settled'
  <2>1. FirstDone' <=> FirstDone BY <1>2 DEF FirstDone, ConvertedTwice, Done
  <2>2. c.to \in {"FIAT_SETTLEMENT_PENDING", "COMPLETED"} => FirstDone
    BY <1>1 DEF SoundMove, Brought, FirstDone
  <2> QED BY <1>1, <1>6, <2>1, <2>2 DEF Settled
<1>9. lost' \in BOOLEAN /\ (~ lost' => ~ lost /\ status' \in Edges[status] \cup {status})
  <2>1. lost' <=> (lost \/ (status' \notin Edges[status] \cup {status})) BY <1>3, Zenon
  <2>2. lost' \in BOOLEAN BY <1>3, Zenon
  <2> QED BY <2>1, <2>2
<1>10. \A end \in {"COMPLETED", "REFUNDED"} :
         /\ posted[end] \in Nat
         /\ posted'[end] = IF c.to = end THEN posted[end] + 1 ELSE posted[end]
  BY <1>1, <1>2
<1>11. ASSUME NEW end \in {"COMPLETED", "REFUNDED"}, status' = end PROVE posted'[end] > 0
  BY <1>2, <1>4, <1>10, <1>11
<1>12. ASSUME ~ lost', NEW end \in {"COMPLETED", "REFUNDED"}, status = end PROVE status' = end
  BY <1>9, <1>12 DEF Edges
<1>13. ASSUME ~ lost', NEW end \in {"COMPLETED", "REFUNDED"}, posted'[end] > 0 PROVE status' = end
  <2>1. CASE posted[end] > 0 BY <1>4, <1>9, <1>12, <1>13, <2>1
  <2>2. CASE ~ (posted[end] > 0)
    <3>1. c.to = end BY <1>10, <1>13, <2>2
    <3>2. c.seen = c.to => status = end BY <1>1, <1>9, <1>13, <3>1 DEF SoundMove
    <3> QED BY <1>2, <3>1, <3>2
  <2> QED BY <2>1, <2>2
<1> QED BY <1>6, <1>7, <1>8, <1>9, <1>11, <1>12, <1>13

LEMMA CommitStep ==
  ASSUME BooksInv, NEW r \in Requests, Commit(r)
  PROVE  BooksInv'
<1>1. Rest /\ \A q \in Requests : Sound(call[q]) BY Split
<1>2. Begun /\ SoundMove(call[r]) /\ call[r].amount \in Nat /\ TypeOK
  BY OwnCall DEF Commit, At, Sound
<1>3. PICK c \in Call : /\ call' = [call EXCEPT ![r] = c]
                        /\ c.at = "-" \/ (c.at = "poll" /\ Brought(c.amount))
  <2>1. CASE call[r].to = "FIAT_SETTLEMENT_PENDING"
    <3>1. Takes(r, "poll", call[r].amount) /\ "poll" \in Steps BY <2>1 DEF Commit, Steps
    <3>2. Brought(call[r].amount) BY <1>2, <2>1 DEF SoundMove
    <3> QED BY <1>2, <3>1, <3>2, TakesTo
  <2>2. CASE call[r].to # "FIAT_SETTLEMENT_PENDING"
    <3>1. Returns(r) BY <2>2 DEF Commit
    <3> QED BY <3>1, ReturnsTo
  <2> QED BY <2>1, <2>2
<1>4. \A q \in Requests : call'[q] = IF q = r THEN c ELSE call[q] BY <1>2, <1>3 DEF TypeOK
<1>5. UNCHANGED <<offRamp, quote, convs, tasks, refilled, refused>> BY DEF Commit, rows
<1>6. /\ usdc' \in Balances /\ idr' \in Balances /\ Balanced'
      /\ posted' \in [{"COMPLETED", "REFUNDED"} -> Nat]
      /\ (idr["merchant:fiat"] = posted["COMPLETED"] * quote.fiat)'
      /\ usdc'["provider:conversion"] = quote.held - Returned'
      /\ usdc'["fees"] \in 0 .. Returned'
      /\ Booked'
  BY CommitBooks
<1>7. /\ status' \in States /\ lost' \in BOOLEAN /\ Begun' /\ Settled'
      /\ status' \in {"COMPLETED", "REFUNDED"} => posted'[status'] > 0
      /\ ~ lost' => ~ lost /\ \A end \in {"COMPLETED", "REFUNDED"} :
                      /\ status = end => status' = end
                      /\ posted'[end] > 0 => status' = end
  BY CommitStatus
<1>8. TypeOK' BY <1>1, <1>3, <1>5, <1>6, <1>7 DEF Rest, TypeOK, Balances
<1>9. Quoted' /\ Refusals' /\ Sufficient'
  BY <1>1, <1>5 DEF Rest, Quoted, Refusals, Sufficient, Done
<1>10. MoneyAccounted'
  <2>1. Sold' = quote.held BY <1>5, <1>7 DEF Sold, Begun
  <2>2. DOMAIN posted' = {"COMPLETED", "REFUNDED"} BY <1>6
  <2>3. \A end \in DOMAIN posted' : /\ status' = end => posted'[end] > 0
                                    /\ posted'[end] > 0 /\ ~ lost' => status' = end
    BY <1>7, <2>2
  <2> QED BY <1>6, <2>1, <2>3 DEF MoneyAccounted
<1>11. ASSUME NEW q \in Requests PROVE Sound(call[q])'
  <2>1. (FirstDone => FirstDone') /\ \A amount : Brought(amount) => Brought(amount)'
    BY <1>5 DEF FirstDone, Brought, ConvertedTwice, Done
  <2>2. CASE q = r
    <3>1. call'[q] = c BY <1>4, <2>2
    <3> QED BY <1>3, <1>7, <2>1, <3>1 DEF Sound
  <2>3. CASE q # r
    <3>1. Sound(call[q]) /\ call'[q] = call[q] BY <1>1, <1>4, <2>3
    <3>2. SoundMove(call[q]) => SoundMove(call[q])'
      BY <1>5, <1>7, <2>1, <3>1 DEF SoundMove
    <3> QED BY <1>5, <1>7, <2>1, <3>1, <3>2 DEF Sound
  <2> QED BY <2>2, <2>3
<1> QED BY <1>6, <1>7, <1>8, <1>9, <1>10, <1>11, SplitNext DEF Rest

(* The funding posts before any call has begun.                               *)
LEMMA FundStep ==
  ASSUME BooksInv, Fund \/ StartConversion
  PROVE  BooksInv'
<1>1. Rest /\ \A q \in Requests : Sound(call[q]) BY Split
<1>2. /\ TypeOK /\ quote.held \in Nat /\ usdc \in Balances /\ idr \in Balances
      /\ posted \in [{"COMPLETED", "REFUNDED"} -> Nat]
  BY <1>1 DEF Rest, TypeOK, Quote, Balances
<1>3. UNCHANGED <<offRamp, quote, convs, tasks, refilled, call, idr, refused, posted, lost>>
  BY DEF Fund, StartConversion, rows, books
<1>4. status \in {"CRYPTO_SUBMITTED", "CRYPTO_CONFIRMED"} /\ convs = <<>>
  BY <1>1 DEF Fund, StartConversion, Rest, Begun
<1>5. \A q \in Requests : call[q].at = "-" BY <1>1, <1>4 DEF Sound, Begun
<1>6. status' \in {"CRYPTO_CONFIRMED", "CONVERSION_PENDING"} BY DEF Fund, StartConversion
<1>7. (posted["COMPLETED"] = 0 /\ posted["REFUNDED"] = 0) \/ lost
  <2>1. posted["COMPLETED"] \in Nat /\ posted["REFUNDED"] \in Nat BY <1>2
  <2> QED BY <1>1, <1>4, <2>1, <1>2 DEF Rest, MoneyAccounted
<1>8. /\ usdc' \in Balances /\ Net(usdc') = Net(usdc)
      /\ usdc'["provider:conversion"] = quote.held - Returned /\ usdc'["fees"] = usdc["fees"]
  <2>1. CASE Fund
    <3>1. status = "CRYPTO_SUBMITTED" /\ usdc' = Plus(usdc, Funding) BY <2>1 DEF Fund
    <3>2. /\ Funding \in Balances /\ Net(Funding) = 0
          /\ Funding["provider:conversion"] = quote.held /\ Funding["fees"] = 0
      BY <1>2, FundingType
    <3>3. /\ usdc' \in Balances /\ Net(usdc') = Net(usdc) + 0
          /\ \A a \in Accounts : usdc'[a] = usdc[a] + Funding[a]
      BY <1>2, <3>1, <3>2, NetPlus
    <3>4. usdc["provider:conversion"] = 0 - Returned
      BY <1>1, <3>1 DEF Rest, MoneyAccounted, Sold
    <3>5. Returned \in Nat
      <4>1. posted["REFUNDED"] * quote.held \in Nat BY <1>2, ProductNat
      <4> QED BY <4>1 DEF Returned
    <3>6. /\ usdc'["provider:conversion"] = usdc["provider:conversion"] + quote.held
          /\ usdc'["fees"] = usdc["fees"] + 0
      BY <3>2, <3>3 DEF Accounts
    <3>7. usdc["fees"] \in Int /\ Net(usdc) \in Int BY <1>2 DEF Balances, Accounts, Net
    <3> QED BY <1>2, <3>3, <3>4, <3>5, <3>6, <3>7
  <2>2. CASE StartConversion
    <3>1. usdc' = usdc /\ status = "CRYPTO_CONFIRMED" BY <2>2 DEF StartConversion, books
    <3> QED BY <1>1, <1>2, <3>1 DEF Rest, MoneyAccounted, Sold
  <2> QED BY <2>1, <2>2
<1>9. TypeOK' BY <1>2, <1>3, <1>6, <1>8, StateNames DEF TypeOK, Balances
<1>10. MoneyAccounted'
  <2>1. Balanced'
    BY <1>1, <1>3, <1>8 DEF Rest, MoneyAccounted, Balanced, Net
  <2>2. Returned' = Returned /\ Sold' = quote.held BY <1>3, <1>6 DEF Returned, Sold
  <2>3. DOMAIN posted' = {"COMPLETED", "REFUNDED"} BY <1>2, <1>3
  <2>4. \A end \in DOMAIN posted' : /\ status' = end => posted'[end] > 0
                                    /\ posted'[end] > 0 /\ ~ lost' => status' = end
    BY <1>3, <1>6, <1>7, <2>3
  <2> QED BY <1>1, <1>3, <1>8, <2>1, <2>2, <2>4 DEF Rest, MoneyAccounted
<1>11. Quoted' /\ Refusals' /\ Sufficient' /\ Settled' /\ Booked'
  BY <1>1, <1>3, <1>6 DEF Rest, Quoted, Refusals, Sufficient, Settled, Booked, Done, ConvertedTwice
<1>12. (Begun \/ convs = <<>>)' BY <1>3, <1>4
<1>13. ASSUME NEW q \in Requests PROVE Sound(call[q])' BY <1>3, <1>5 DEF Sound
<1> QED BY <1>9, <1>10, <1>11, <1>12, <1>13, SplitNext DEF Rest

(* A quote of createQuote() has a rate, and holds what it takes.              *)
LEMMA InitBooks == Init => BooksInv
<1> SUFFICES ASSUME Init PROVE BooksInv OBVIOUS
<1>1. PICK fiat \in Fiats, ref \in Refs :
        quote = [fiat |-> fiat, rate |-> QuotedRate(ref), held |-> Total(fiat, QuotedRate(ref))]
  BY DEF Init
<1>2. fiat \in Nat /\ fiat > 0 /\ QuotedRate(ref) \in Nat /\ QuotedRate(ref) > 0
  BY BooksAssumption, SpreadNeverNegative
<1>3. quote \in Quote BY <1>1, <1>2, TotalType DEF Quote
<1>4. Quoted BY <1>1, <1>2 DEF Quoted
<1>5. /\ usdc = Empty /\ idr = Empty /\ refused = {} /\ posted = [COMPLETED |-> 0, REFUNDED |-> 0]
      /\ refilled = FALSE /\ lost = FALSE
  BY DEF Init
<1>6. \A r \in Requests : call[r].at = "-" BY IdleType DEF Init
<1>7. convs \in Seq(Row) /\ tasks \in Seq(Result) /\ convs = <<>> /\ DOMAIN convs = {}
  BY DEF Init
<1>8. call \in [Requests -> Call] BY IdleType DEF Init
<1>9. status = "CRYPTO_SUBMITTED" /\ offRamp \in {"mock", "faulty", "manual"} BY DEF Init
<1>10. posted \in [{"COMPLETED", "REFUNDED"} -> Nat] /\ posted["COMPLETED"] = 0 /\ posted["REFUNDED"] = 0
  BY <1>5
<1>11. TypeOK
  BY <1>3, <1>5, <1>7, <1>8, <1>9, <1>10, EmptyBalance, StateNames DEF TypeOK, Balances
<1>12. MoneyAccounted
  <2>1. 0 * quote.fiat = 0 /\ 0 * quote.held = 0 BY <1>3 DEF Quote
  <2>2. DOMAIN posted = {"COMPLETED", "REFUNDED"} BY <1>10
  <2> QED BY <1>5, <1>9, <1>10, <2>1, <2>2, EmptyBalance
          DEF MoneyAccounted, Balanced, Sold, Returned, Accounts
<1>13. Booked BY <1>5, <1>10, EmptyBalance DEF Booked, Accounts
<1>14. Sufficient /\ Settled /\ Refusals BY <1>5, <1>7, <1>9 DEF Sufficient, Settled, Refusals
<1>15. \A r \in Requests : Sound(call[r]) BY <1>6 DEF Sound
<1> QED BY <1>4, <1>7, <1>11, <1>12, <1>13, <1>14, <1>15, Split DEF Rest

LEMMA BooksStep == BooksInv /\ [Next]_vars => BooksInv'
<1> SUFFICES ASSUME BooksInv, [Next]_vars PROVE BooksInv' OBVIOUS
<1>1. CASE Fund \/ StartConversion BY <1>1, FundStep
<1>2. ASSUME NEW r \in Requests,
             \/ Commit(r) \/ LookBeforeSettling(r) \/ CompleteSettlement(r) \/ AskRefund(r) \/ Refund(r)
             \/ Fail(r) \/ Execute(r) \/ FindConversion(r) \/ ResumeSettlement(r) \/ Convert(r)
             \/ FileTask(r) \/ OpenConversion(r) \/ Review(r) \/ BeginSettlement(r)
             \/ PollCompleted(r) \/ PollFailed(r) \/ ReportSettled(r) \/ ReadConversion(r)
             \/ ReportFailed(r) \/ MarkFailed(r) \/ ResolveRefund(r) \/ RequireRefund(r)
             \/ TakeReport(r) \/ MarkTask(r) \/ FindRow(r) \/ InsertRow(r) \/ FillRow(r)
      PROVE  BooksInv'
  <2>1. CASE Fail(r) BY <2>1, ReturnStep DEF Fail
  <2> QED BY <1>2, <2>1, CommitStep, LookBeforeStep, CompleteSettlementStep, AskRefundStep,
             RefundStep, ExecuteStep, FindStep, ConvertStep, FileTaskStep, OpenRowStep, ReviewStep,
             BeginSettlementStep, ReportSettledStep, ReadConversionStep, ReportFailedStep,
             MarkStep, TakeReportStep, FindRowStep, FillRowStep
<1>3. CASE UNCHANGED vars
  <2>1. TypeOK /\ Rest /\ \A q \in Requests : Sound(call[q]) BY Split, OwnCall DEF Rest
  <2>2. UNCHANGED <<offRamp, quote, status, convs, tasks, call, usdc, idr, refused, posted,
                    refilled, lost>>
    BY <1>3 DEF vars
  <2>3. Rest'
    BY <2>1, <2>2
       DEF Rest, TypeOK, Quoted, Begun, Sufficient, Done, Settled, FirstDone, ConvertedTwice,
           MoneyAccounted, Balanced, Net, Sold, Returned, Booked, Refusals
  <2>4. \A q \in Requests : Sound(call[q])'
    BY <2>1, <2>2 DEF Sound, SoundMove, Begun, FirstDone, Brought, ConvertedTwice, Done
  <2> QED BY <2>3, <2>4, SplitNext
<1> QED BY <1>1, <1>2, <1>3 DEF Next

(* The rows, the books and whoever settles agree, in every interleaving of    *)
(* the calls' reads, writes and transactions: of execute(), reports, reviews, *)
(* webhooks and refunds, any of which may fail at any await.                  *)
THEOREM BooksInvariance == Spec => []BooksInv
BY InitBooks, BooksStep, PTL DEF Spec

(* The ledger balances and tells where the money is, whatever overlaps; the   *)
(* status tells it too, until a transition has overwritten one that it may    *)
(* not follow, as the update by id lets it.                                   *)
THEOREM MoneyAccountedAlways == Spec => []MoneyAccounted
<1>1. BooksInv => MoneyAccounted BY DEF BooksInv
<1> QED BY <1>1, BooksInvariance, PTL

(* No settlement's postings ever throw, and a refund's only if an operator    *)
(* names a cost above what is held: the default cost (10_000, refund()) is no *)
(* more than the fee (20_000, engineConfig).                                  *)
THEOREM OnlyOverchargeRefusedAlways ==
  ASSUME DefaultCost <= FeeMicros
  PROVE  Spec => []OnlyOverchargeRefused
<1>1. BooksInv => OnlyOverchargeRefused
  <2> SUFFICES ASSUME BooksInv, refused # {} PROVE \E cost \in Costs : cost > quote.held
    BY DEF OnlyOverchargeRefused, BooksInv, Refusals
  <2>1. PICK cost \in Costs \cup {DefaultCost} : cost > quote.held BY DEF BooksInv, Refusals
  <2> DEFINE need == quote.fiat * Micro * Micro
  <2>2. /\ quote.fiat \in Nat /\ quote.rate \in Nat \ {0}
        /\ quote.held = CeilDiv(need, quote.rate) + FeeMicros
    BY DEF BooksInv, TypeOK, Quote, Quoted, Total, CryptoFor
  <2>3. need \in Nat BY <2>2, QuoteMathAssumption, ProductNat
  <2> HIDE DEF need
  <2>4. CeilDiv(need, quote.rate) \in Nat BY <2>2, <2>3, Ceiling
  <2>5. quote.held >= FeeMicros /\ quote.held \in Nat BY <2>2, <2>4, QuoteMathAssumption
  <2>6. cost # DefaultCost BY <2>1, <2>5, BooksAssumption, QuoteMathAssumption
  <2> QED BY <2>1, <2>6
<1> QED BY <1>1, BooksInvariance, PTL

(* No loss is booked while there is one conversion: one row, never filled     *)
(* over with other amounts.                                                   *)
THEOREM LossTakesTwoConversionsAlways == Spec => []LossTakesTwoConversions
<1>1. BooksInv => LossTakesTwoConversions
  <2>1. BooksInv => idr["spread"] \in Int BY DEF BooksInv, TypeOK, Accounts
  <2> QED BY <2>1 DEF BooksInv, Booked, LossTakesTwoConversions
<1> QED BY <1>1, BooksInvariance, PTL

(* Whoever settles books the income of the conversion on record.              *)
THEOREM IncomeExceedsSurplusByFeeAlways == Spec => []IncomeExceedsSurplusByFee
<1>1. BooksInv => IncomeExceedsSurplusByFee
  <2> SUFFICES ASSUME BooksInv, posted["COMPLETED"] = 1, ~ ConvertedTwice, NEW i \in DOMAIN convs
               PROVE  - idr["fees"] - idr["spread"] = Surplus(convs[i]) + FeeIdr
    BY DEF IncomeExceedsSurplusByFee
  <2>1. i = 1 /\ convs[1].fiat \in Nat BY OneRow, RowType DEF BooksInv
  <2>2. idr["fees"] = - FeeIdr /\ idr["spread"] = quote.fiat - convs[1].fiat
    BY DEF BooksInv, Booked
  <2>3. quote.fiat \in Nat /\ FeeIdr \in Nat BY BooksAssumption DEF BooksInv, TypeOK, Quote
  <2> QED BY <2>1, <2>2, <2>3 DEF Surplus
<1> QED BY <1>1, BooksInvariance, PTL

(* The cost report's spread, and what it is off by: less than a rupiah for    *)
(* the crypto that was rounded up and less than one for the fiat rounded down *)
LEMMA SpreadOfReport ==
  ASSUME NEW fiat \in Nat, NEW q \in Nat \ {0}, NEW rate \in Nat
  PROVE  Total(fiat, q) * (rate - q) + FeeMicros * q
           - (Proceeds(Total(fiat, q), rate) - fiat) * Micro * Micro
             \in 1 - q .. Micro * Micro - 1
<1> DEFINE scale == Micro * Micro
           need  == fiat * scale
           c     == CryptoFor(fiat, q)
           held  == Total(fiat, q)
           got   == Proceeds(held, rate)
<1>1. scale \in Nat \ {0} /\ Micro \in Nat /\ FeeMicros \in Nat
  BY Scale, QuoteMathAssumption
<1>2. need \in Nat /\ fiat * Micro * Micro = need BY <1>1, ProductNat, SMT
<1>3. c = CeilDiv(need, q) BY <1>2 DEF CryptoFor
<1>4. c \in Nat /\ need <= c * q /\ (c > 0 => (c - 1) * q < need) BY <1>2, <1>3, Ceiling
<1>5. held = c + FeeMicros /\ held \in Nat BY <1>1, <1>4 DEF Total
<1>6. held * rate \in Nat BY <1>5, ProductNat
<1>7. got = (held * rate) \div scale BY DEF Proceeds
<1>8. got \in Nat /\ scale * got <= held * rate /\ held * rate < scale * got + scale
  BY <1>1, <1>6, <1>7, Division
<1> HIDE DEF c, held, got
<1>9. c * q \in Nat /\ FeeMicros * q \in Nat /\ scale * got \in Nat
  BY <1>1, <1>4, <1>8, ProductNat
<1>10. c * q < need + q
  <2>1. CASE c = 0 BY <1>2, <1>9, <2>1, SMT
  <2>2. CASE c > 0
    <3>1. (c - 1) * q = c * q - q BY <1>4, SMT
    <3> QED BY <1>2, <1>4, <1>9, <2>2, <3>1
  <2> QED BY <1>4, <2>1, <2>2
<1>11. held * (rate - q) = held * rate - held * q BY <1>5, SMT
<1>12. held * q = c * q + FeeMicros * q BY <1>1, <1>4, <1>5, SMT
<1>13. (got - fiat) * Micro * Micro = scale * got - need
  <2>1. (got - fiat) * Micro * Micro = (got - fiat) * scale BY <1>1, <1>8, SMT
  <2> HIDE DEF scale
  <2>2. (got - fiat) * scale = scale * got - fiat * scale BY <1>1, <1>8, SMT
  <2> QED BY <2>1, <2>2
<1> HIDE DEF scale, need
<1>14. held * (rate - q) + FeeMicros * q - (got - fiat) * Micro * Micro \in 1 - q .. scale - 1
  BY <1>1, <1>2, <1>6, <1>8, <1>9, <1>4, <1>10, <1>11, <1>12, <1>13
<1> QED BY <1>14 DEF scale, held, got

(* The cost report tells the founder's surplus, for every quote, rate and     *)
(* scale.                                                                     *)
THEOREM SpreadTellsSurplusAlways == Spec => []SpreadTellsSurplus
<1>1. BooksInv => SpreadTellsSurplus
  <2> SUFFICES ASSUME BooksInv, NEW i \in DOMAIN convs, convs[i].fiat = Proceeds(quote.held, convs[i].rate)
               PROVE  ReportedSpread(convs[i]) + FeeMicros * quote.rate
                        - Surplus(convs[i]) * Micro * Micro
                          \in 1 - quote.rate .. Micro * Micro - 1
    BY DEF SpreadTellsSurplus
  <2>1. convs[i].rate \in Nat BY RowType DEF BooksInv, Row
  <2>2. quote.fiat \in Nat /\ quote.rate \in Nat \ {0} /\ quote.held = Total(quote.fiat, quote.rate)
    BY DEF BooksInv, TypeOK, Quote, Quoted
  <2> QED BY <2>1, <2>2, SpreadOfReport DEF ReportedSpread, Surplus
<1> QED BY <1>1, BooksInvariance, PTL
==============================================================================
