------------------------------- MODULE ScanPage -------------------------------
(* The customer's scan page, web/app/(app)/scan/page.tsx with its camera      *)
(* (web/components/Scanner.tsx), its client (web/lib/api.ts) and the routes   *)
(* it calls.  Every call of the page is a run(): a request, its reply or its  *)
(* loss, and what the reply sets.  The buttons are disabled while the page is *)
(* busy, the camera is not: a code may come into view during another call.    *)
EXTENDS QrisParse, PaymentStates, FiniteSets

CONSTANTS
  MaxCalls,     \* bound: the page's calls in flight at once
  InView,       \* the payloads that are scanned or pasted
  Codes,        \* those, and others that are pasted
  Amounts,      \* the amounts typed
  MaxPayments   \* bound: quotes asked for

ASSUME ScanAssumption ==
  /\ MaxCalls \in Nat /\ Amounts \subseteq Nat /\ MaxPayments \in Nat
  /\ InView \subseteq Codes
  /\ \A c \in Codes : c # <<>> /\ c \in Seq(Word) /\ Front(c) \in Seq(Symbol)

VARIABLES
  camera,       \* the scanner is live
  parsed,       \* what was read off the code on the page
  amount,       \* [value, of]: the amount on the page and, for the properties, its code
  quote,        \* the payment whose quote is on the page, 0 for none
  quoteExpired,
  payment,      \* [id, status] on the page, id 0 for none
  busy,
  calls,        \* the runs in flight
  payments,     \* the server's: [code, amount, status]
  expired,      \* the payments whose quote has run out
  overlapped    \* for the properties: the camera read a code during a call, and
                \* the page has not been started afresh by a code read alone since

page == <<parsed, amount, quote, quoteExpired, payment>>
vars == <<camera, page, busy, calls, payments, expired, overlapped>>

Slots     == 1 .. MaxCalls
NoCode    == Refused
NoAmount  == [value |-> 0, of |-> NoCode]
NoPayment == [id |-> 0, status |-> "none"]

(* A run: its request and the reply it carries.                               *)
Idle == [step |-> "-", at |-> "-", payload |-> <<>>, code |-> NoCode, amount |-> NoAmount,
         id |-> 0, status |-> "none"]
Asks(step) == [Idle EXCEPT !.step = step, !.at = "sent"]

Init ==
  /\ camera = FALSE /\ parsed = NoCode /\ amount = NoAmount
  /\ quote = 0 /\ quoteExpired = FALSE /\ payment = NoPayment
  /\ busy = FALSE /\ calls = [s \in Slots |-> Idle]
  /\ payments = <<>> /\ expired = {} /\ overlapped = FALSE

(* What each payload reads as, worked out once.                               *)
Reads == [c \in Codes |-> ParseQris(c)]

InFlight == {s \in Slots : calls[s].step # "-"}

------------------------------------------------------------------------------
(* The customer.                                                              *)

(* run(): the page is busy from here on.                                      *)
Run(call) ==
  /\ InFlight # Slots
  /\ calls' = [calls EXCEPT ![Min(Slots \ InFlight)] = call]
  /\ busy' = TRUE
  /\ UNCHANGED <<payments, expired>>

(* Slip: a button that is never disabled.                                     *)
ButtonAlways(call) == Run(call) /\ UNCHANGED <<camera, page, overlapped>>

(* A button of the page, disabled while it is busy.                           *)
Button(call) == ~ busy /\ Run(call) /\ UNCHANGED <<camera, page, overlapped>>

SwitchCamera ==
  /\ camera \/ ~ busy
  /\ camera' = ~ camera
  /\ UNCHANGED <<page, busy, calls, payments, expired, overlapped>>

(* tick(): the camera has found a code and stops.  Bound: during a call, once *)
(* until the page starts afresh.                                              *)
CameraReads ==
  /\ camera /\ camera' = FALSE /\ (InFlight = {} \/ ~ overlapped)
  /\ overlapped' = (overlapped \/ InFlight # {})
  /\ \E c \in InView : Run([Asks("parse") EXCEPT !.payload = c])
  /\ UNCHANGED page

(* Anything may be pasted.  Bound: what is not in view, on a fresh page with   *)
(* no camera.                                                                 *)
PressParse ==
  \E c \in IF parsed = NoCode /\ ~ camera /\ InFlight = {} THEN Codes ELSE InView :
    Button([Asks("parse") EXCEPT !.payload = c])

(* The statuses after which the page offers no buttons; it knows a CANCELLED  *)
(* the engine does not have, and not the engine's REFUNDED.                   *)
ShownTerminal == {"COMPLETED", "FAILED", "EXPIRED", "RECONCILIATION_REQUIRED", "REFUND_REQUIRED"}

(* What each section of the page asks for.                                    *)
CanType   == parsed.ok /\ parsed.next = "enter-amount"
CanQuote  == parsed.ok /\ amount # NoAmount
CanPay    == quote # 0 /\ ~ quoteExpired
CanFollow == payment.id # 0 /\ payment.status \notin ShownTerminal

TypeAmount ==
  /\ CanType
  /\ \E a \in Amounts : amount' = [value |-> a, of |-> parsed]
  /\ UNCHANGED <<camera, parsed, quote, quoteExpired, payment, busy, calls, payments, expired, overlapped>>

PressQuote == CanQuote /\ Button([Asks("quote") EXCEPT !.code = parsed, !.amount = amount])

(* The page's timer, a second or so after the quote has run out.              *)
TimerFires ==
  /\ quote \in expired /\ ~ quoteExpired
  /\ quoteExpired' = TRUE
  /\ UNCHANGED <<camera, parsed, amount, quote, payment, busy, calls, payments, expired, overlapped>>

PressPay == CanPay /\ Button([Asks("authorize") EXCEPT !.id = quote])

PressRefresh == CanFollow /\ Button([Asks("refresh") EXCEPT !.id = payment.id])

PressCancel == CanFollow /\ Button([Asks("cancel") EXCEPT !.id = payment.id])

------------------------------------------------------------------------------
(* The server.                                                                *)

Reply(s, call) ==
  /\ calls' = [calls EXCEPT ![s] = call]
  /\ UNCHANGED <<camera, page, busy, overlapped>>

Sent(s, step) == calls[s].step = step /\ calls[s].at = "sent"
Answer(s, id, status) == [Asks(calls[s].step) EXCEPT !.at = "answered", !.id = id, !.status = status]
Refuse(s) == [Asks(calls[s].step) EXCEPT !.at = "failed"]
Status(s) == payments[calls[s].id].status

(* The network loses a request, or the reply to it.                           *)
Lose(s) ==
  /\ calls[s].at \in {"sent", "answered"}
  /\ Reply(s, Refuse(s)) /\ UNCHANGED <<payments, expired>>

ServeParse(s) ==
  /\ Sent(s, "parse")
  /\ LET code == Reads[calls[s].payload] IN
       Reply(s, IF code.ok THEN [Asks("parse") EXCEPT !.at = "answered", !.code = code] ELSE Refuse(s))
  /\ UNCHANGED <<payments, expired>>

(* Slip: the quote is answered and not saved.                                 *)
ServeQuoteUnsaved(s) ==
  /\ Sent(s, "quote") /\ UNCHANGED <<expired, payments>>
  /\ Len(payments) < MaxPayments
  /\ Reply(s, Answer(s, Len(payments) + 1, "none"))

(* createQuote(), which may also refuse.                                      *)
ServeQuote(s) ==
  /\ Sent(s, "quote") /\ UNCHANGED expired
  /\ \/ /\ Len(payments) < MaxPayments
        /\ payments' = Append(payments, [code |-> calls[s].code, amount |-> calls[s].amount, status |-> "QUOTED"])
        /\ Reply(s, Answer(s, Len(payments) + 1, "none"))
     \/ Reply(s, Refuse(s)) /\ UNCHANGED payments

Becomes(s, status) == payments' = [payments EXCEPT ![calls[s].id].status = status]

(* authorize(): a replay, an expired quote, or the lock of the rate.          *)
ServeAuthorize(s) ==
  /\ Sent(s, "authorize") /\ UNCHANGED expired
  /\ \/ Status(s) = "AUTHORIZED" /\ UNCHANGED payments /\ Reply(s, Answer(s, calls[s].id, "none"))
     \/ /\ Status(s) = "QUOTED" /\ calls[s].id \in expired
        /\ Becomes(s, "EXPIRED") /\ Reply(s, Refuse(s))
     \/ /\ Status(s) = "QUOTED" /\ calls[s].id \notin expired
        /\ Becomes(s, "AUTHORIZED") /\ Reply(s, Answer(s, calls[s].id, "none"))
     \/ /\ Status(s) \notin {"QUOTED", "AUTHORIZED"}
        /\ UNCHANGED payments /\ Reply(s, Refuse(s))

(* execute() starts, or takes up what is under way.                           *)
ServeExecute(s) ==
  /\ Sent(s, "execute") /\ UNCHANGED expired
  /\ \/ Status(s) = "AUTHORIZED" /\ Becomes(s, "CRYPTO_SUBMITTED")
     \/ /\ Status(s) \in {"CRYPTO_SUBMITTED", "CONVERSION_PENDING", "FIAT_SETTLEMENT_PENDING", "COMPLETED"}
        /\ UNCHANGED payments
  /\ Reply(s, [calls[s] EXCEPT !.at = "served"])

ExecuteRefused(s) ==
  /\ Sent(s, "execute")
  /\ Status(s) \in {"QUOTED", "CRYPTO_CONFIRMED", "REFUND_REQUIRED", "RECONCILIATION_REQUIRED"}
                      \cup (Terminal \ {"COMPLETED"})
  /\ Reply(s, Refuse(s)) /\ UNCHANGED <<payments, expired>>

(* execute() returns with the status it has come to.                          *)
Executed(s) ==
  /\ calls[s].at = "served"
  /\ Reply(s, Answer(s, calls[s].id, Status(s)))
  /\ UNCHANGED <<payments, expired>>

ServeRefresh(s) ==
  /\ Sent(s, "refresh")
  /\ Reply(s, Answer(s, calls[s].id, Status(s)))
  /\ UNCHANGED <<payments, expired>>

ServeCancel(s) ==
  /\ Sent(s, "cancel") /\ UNCHANGED expired
  /\ \/ /\ Status(s) \in Cancellable
        /\ Becomes(s, "FAILED") /\ Reply(s, Answer(s, calls[s].id, "FAILED"))
     \/ /\ Status(s) \notin Cancellable
        /\ UNCHANGED payments /\ Reply(s, Refuse(s))

(* The engine, the operator and the webhook move a payment under way.  Bound: *)
(* no review puts it back.                                                    *)
Engine ==
  /\ \E i \in DOMAIN payments :
       /\ payments[i].status \notin Cancellable \cup {"RECONCILIATION_REQUIRED"}
       /\ \E to \in Edges[payments[i].status] : payments' = [payments EXCEPT ![i].status = to]
  /\ UNCHANGED <<camera, page, busy, calls, expired, overlapped>>

QuoteRunsOut ==
  /\ \E i \in DOMAIN payments \ expired : expired' = expired \cup {i}
  /\ UNCHANGED <<camera, page, busy, calls, payments, overlapped>>

------------------------------------------------------------------------------
(* The page takes the reply.  finally: it is no longer busy, even if another  *)
(* run still is.                                                              *)
Finish(s, step) ==
  /\ calls[s].step = step /\ calls[s].at = "answered"
  /\ calls' = [calls EXCEPT ![s] = Idle] /\ busy' = FALSE
  /\ overlapped' = (overlapped /\ ~ (step = "parse" /\ InFlight = {s}))
  /\ UNCHANGED <<camera, payments, expired>>

(* Slip: an amount typed for the code before stays.                           *)
ParsedKeepsAmount(s) ==
  /\ Finish(s, "parse")
  /\ parsed' = calls[s].code
  /\ amount' = IF calls[s].code.next = "confirm"
               THEN [value |-> calls[s].code.amount, of |-> calls[s].code] ELSE amount
  /\ quote' = 0 /\ quoteExpired' = FALSE /\ payment' = NoPayment

(* Slip: the quote of the code before stays.                                  *)
ParsedKeepsQuote(s) ==
  /\ Finish(s, "parse")
  /\ parsed' = calls[s].code
  /\ amount' = IF calls[s].code.next = "confirm"
               THEN [value |-> calls[s].code.amount, of |-> calls[s].code] ELSE NoAmount
  /\ quoteExpired' = FALSE /\ payment' = NoPayment /\ UNCHANGED quote

Parsed(s) ==
  /\ Finish(s, "parse")
  /\ parsed' = calls[s].code
  /\ amount' = IF calls[s].code.next = "confirm"
               THEN [value |-> calls[s].code.amount, of |-> calls[s].code] ELSE NoAmount
  /\ quote' = 0 /\ quoteExpired' = FALSE /\ payment' = NoPayment

Quoted(s) ==
  /\ Finish(s, "quote")
  /\ quote' = calls[s].id /\ quoteExpired' = FALSE
  /\ UNCHANGED <<parsed, amount, payment>>

(* onPay's second request follows the first one's reply.                      *)
Authorized(s) ==
  /\ calls[s].step = "authorize" /\ calls[s].at = "answered"
  /\ Reply(s, [Asks("execute") EXCEPT !.id = calls[s].id]) /\ UNCHANGED <<payments, expired>>

(* An execute, a refresh or a cancel shows the payment it returns.            *)
Shows(s) ==
  /\ \E step \in {"execute", "refresh", "cancel"} : Finish(s, step)
  /\ payment' = [id |-> calls[s].id, status |-> calls[s].status]
  /\ UNCHANGED <<parsed, amount, quote, quoteExpired>>

(* catch: an error is shown, nothing else changes.                            *)
Failed(s) ==
  /\ calls[s].at = "failed"
  /\ calls' = [calls EXCEPT ![s] = Idle] /\ busy' = FALSE
  /\ UNCHANGED <<camera, page, payments, expired, overlapped>>

Serve(s) ==
  \/ ServeParse(s) \/ ServeQuote(s) \/ ServeAuthorize(s)
  \/ ServeExecute(s) \/ ExecuteRefused(s) \/ Executed(s) \/ ServeRefresh(s) \/ ServeCancel(s)

TakeReply(s) == Parsed(s) \/ Quoted(s) \/ Authorized(s) \/ Shows(s) \/ Failed(s)

Next ==
  \/ SwitchCamera \/ CameraReads \/ PressParse \/ TypeAmount \/ PressQuote
  \/ TimerFires \/ PressPay \/ PressRefresh \/ PressCancel
  \/ Engine \/ QuoteRunsOut
  \/ \E s \in Slots : Serve(s) \/ Lose(s) \/ TakeReply(s)

Spec == Init /\ [][Next]_vars
------------------------------------------------------------------------------
(* Properties.                                                                *)

(* Types: the page, its calls and the server's payments.                      *)
Readable   == {Reads[c] : c \in {d \in Codes : Reads[d].ok}}
Code       == Readable \cup {NoCode}
AmountSet  == [value : {0} \cup Amounts \cup {c.amount : c \in Readable}, of : Code]
CallSet    == [step : {"-", "parse", "quote", "authorize", "execute", "refresh", "cancel"},
               at : {"-", "sent", "served", "answered", "failed"}, payload : Codes \cup {<<>>},
               code : Code, amount : AmountSet, id : Nat, status : States \cup {"none"}]
PaymentSet == [code : Code, amount : AmountSet, status : States]

TypeOK ==
  /\ {camera, quoteExpired, busy, overlapped} \subseteq BOOLEAN
  /\ parsed \in Code /\ amount \in AmountSet
  /\ payments \in Seq(PaymentSet) /\ expired \subseteq DOMAIN payments
  /\ payment \in [id : Nat, status : States \cup {"none"}]
  /\ {quote, payment.id} \subseteq 0 .. Len(payments)
  /\ calls \in [Slots -> CallSet] /\ \A s \in Slots : calls[s].id <= Len(payments)

(* No quote is asked for with an amount that was printed on, or typed for,    *)
(* another merchant's code, in whatever order codes, amounts and replies come *)
(* (parse() resets what the page knows).                                      *)
AmountOfItsCode == \A i \in DOMAIN payments : payments[i].amount.of = payments[i].code

(* The quote and the payment on the page are the shown merchant's:            *)
(* "confirmation screen shows parsed merchant name and amount                 *)
(* prominently" (docs/PRD.md:452).                                            *)
BelongsToCode(id) == id # 0 => payments[id].code = parsed

ShowsOneMerchant == BelongsToCode(quote) /\ BelongsToCode(payment.id)

(* Only a code the live camera reads during another call can put one          *)
(* merchant's name over another's quote.                                      *)
OneMerchantUnlessOverlapped == overlapped \/ ShowsOneMerchant

(* And only it lets a second call start while the first is under way: the     *)
(* disabled buttons keep a double tap from authorizing or executing twice.    *)
OneCallUnlessOverlapped == overlapped \/ Cardinality(InFlight) <= 1

(* Why these hold.  A call's amount is its code's, and it is of a payment once *)
(* it asks for one.                                                           *)
CallInv(call) ==
  /\ call.step = "-" => call = Idle
  /\ call.at = "served" => call.step = "execute"
  /\ call.step \in {"authorize", "execute", "refresh", "cancel"} /\ call.at # "failed" => call.id # 0
  /\ call.step = "parse" /\ call.at = "sent" => call.payload \in Codes
  /\ call.step = "parse" /\ call.at = "answered" => call.code \in Readable
  /\ call.step = "quote" /\ call.at = "sent" => call.amount.of = call.code

(* While no code is read during a call there is one call, the page is busy    *)
(* with it, and it is about the code that is shown.                           *)
AboutShown(call) ==
  BelongsToCode(call.id) /\ (call.step = "quote" /\ call.at = "sent" => call.code = parsed)

Alone ==
  /\ \A s, t \in InFlight : s = t
  /\ InFlight # {} => busy
  /\ ShowsOneMerchant
  /\ \A s \in Slots : AboutShown(calls[s])

ScanInv ==
  /\ TypeOK /\ AmountOfItsCode
  /\ amount = NoAmount \/ amount.of = parsed
  /\ \A s \in Slots : CallInv(calls[s])
  /\ overlapped \/ Alone

(* The payloads under way to the parser.                                      *)
Reading == {calls[s].payload : s \in {t \in Slots : Sent(t, "parse")}}

(* Reading loses, adds and reorders nothing: the fields of a payload spell    *)
(* the payload, whatever was cut off it or misread (parseTLVs()).             *)
Spelt == [c \in Codes |-> LET root == ParseTLVs(c) IN root.ok => Encode(root.fields) = c]

FieldsSpellPayload == \A c \in Reading : Spelt[c]

(* A code one of whose symbols was misread is never taken for another code    *)
(* (the CRC as "the authenticity gate").                                      *)
Differences(c, d) == Cardinality({i \in DOMAIN c : c[i] # d[i]})
Mistaken ==
  [c \in Codes |-> /\ Reads[c].ok
                   /\ \E d \in Codes : Len(d) = Len(c) /\ Reads[d].ok /\ Differences(c, d) = 1]

DamageRefused == \A c \in Reading : ~ Mistaken[c]
==============================================================================
