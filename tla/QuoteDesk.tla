------------------------------ MODULE QuoteDesk -------------------------------
(* POST /payments/quote of one user: createQuote() of src/engine/quote.ts     *)
(* behind the idempotency middleware.  createQuote() reads the day's total,   *)
(* awaits the reference rate and inserts the intent: three steps, with other  *)
(* requests, the passing of time and failures in between.                     *)
EXTENDS QuoteMath, UsdcAmount, FiniteSets, FiniteSetsExt, Sequences

CONSTANTS
  Calls, Keys, NoRow,
  Amounts,      \* the fiat amounts customers ask for
  Refs,         \* the reference rates the off-ramp may give
  MaxPayment,   \* engineConfig.maxPaymentIdr
  MaxDaily,     \* engineConfig.maxDailyIdr
  Day,          \* the length of the cap's 24 hours, in clock ticks
  MaxClock,     \* bound: clock ticks
  MaxCalls,     \* bound: requests that reach a handler
  MaxFaults     \* bound: rejected awaits and restarts

ASSUME DeskAssumption ==
  /\ IsFiniteSet(Calls) /\ Calls # {}
  /\ Keys # {} /\ NoRow \notin [route : {"quote", "other"}, response : Nat]
  /\ Amounts \subseteq Nat /\ Refs \subseteq Nat
  /\ MaxPayment \in Nat /\ MaxDaily \in Nat /\ Day \in Nat
  /\ MaxClock \in Nat /\ MaxCalls \in Nat /\ MaxFaults \in Nat

VARIABLES
  intents,      \* payment_intents with their quotes, in the order of creation
  desk,         \* createQuote()'s locals, per request
  clock,
  calls, faults,
  rows, call    \* of the middleware

(* "quote" is this route, "other" stands for every other mutating endpoint.   *)
Routes == {"quote", "other"}
Http == INSTANCE Idempotency

middle == <<rows, call>>
vars   == <<intents, desk, clock, calls, faults, middle>>

Intent == [key : Keys, fiat : Nat, micros : Nat, rate : Nat, created : Nat]
Local  == [at : {"-", "check", "price", "open"}, fiat : Nat, rate : Nat]
Away   == [at |-> "-", fiat |-> 0, rate |-> 0]

Init ==
  /\ Http!Init
  /\ intents = <<>> /\ desk = [c \in Calls |-> Away]
  /\ clock = 0 /\ calls = 0 /\ faults = 0

At(c, step) == desk[c].at = step

(* dailyTotalIdr(): the user's intents of the last 24 hours, whatever became  *)
(* of them.                                                                   *)
FiatOf(log, S) == MapThenSumSet(LAMBDA i : log[i].fiat, S)

Live == {i \in DOMAIN intents : intents[i].created + Day > clock}

DailyTotal == FiatOf(intents, Live)

------------------------------------------------------------------------------
(* The handler answers and its locals are gone.                               *)
Done(c, response) == Http!Answer(c, response) /\ desk' = [desk EXCEPT ![c] = Away]

Request(c) ==
  /\ calls < MaxCalls /\ calls' = calls + 1
  /\ \E k \in Keys :
       \/ Http!Lookup(c, k, "other") /\ UNCHANGED desk
       \/ /\ Http!Lookup(c, k, "quote")
          /\ \E f \in Amounts : desk' = [desk EXCEPT ![c] = [Away EXCEPT !.at = "check", !.fiat = f]]
  /\ UNCHANGED <<intents, clock, faults>>

OtherRoute(c) ==
  /\ Http!In(c, "handler") /\ call[c].route = "other"
  /\ Http!Answer(c, 0)
  /\ UNCHANGED <<intents, desk, clock, calls, faults>>

(* Slip: the cap is held against what was quoted before.                      *)
CheckCapsBefore(c) ==
  /\ At(c, "check")
  /\ IF desk[c].fiat > 0 /\ desk[c].fiat <= MaxPayment /\ DailyTotal <= MaxDaily
       THEN desk' = [desk EXCEPT ![c].at = "price"] /\ UNCHANGED middle
       ELSE Done(c, 0)
  /\ UNCHANGED <<intents, clock, calls, faults>>

CheckCaps(c) ==
  /\ At(c, "check")
  /\ IF desk[c].fiat > 0 /\ desk[c].fiat <= MaxPayment /\ DailyTotal + desk[c].fiat <= MaxDaily
       THEN desk' = [desk EXCEPT ![c].at = "price"] /\ UNCHANGED middle
       ELSE Done(c, 0)
  /\ UNCHANGED <<intents, clock, calls, faults>>

(* A quoted rate of 0 divides by zero and is answered with 422.               *)
Price(c) ==
  /\ At(c, "price")
  /\ \E ref \in Refs :
       IF QuotedRate(ref) = 0 THEN Done(c, 0)
       ELSE /\ desk' = [desk EXCEPT ![c].at = "open", ![c].rate = QuotedRate(ref)]
            /\ UNCHANGED middle
  /\ UNCHANGED <<intents, clock, calls, faults>>

(* Slip: the quote promises the crypto without the fee.                       *)
OpenWithoutFee(c) ==
  /\ At(c, "open")
  /\ intents' = Append(intents,
       [key |-> call[c].key, fiat |-> desk[c].fiat, rate |-> desk[c].rate,
        micros |-> CryptoFor(desk[c].fiat, desk[c].rate), created |-> clock])
  /\ Done(c, Len(intents) + 1)
  /\ UNCHANGED <<clock, calls, faults>>

(* The transaction: the intent and its quote, CREATED and QUOTED.             *)
Open(c) ==
  /\ At(c, "open")
  /\ intents' = Append(intents,
       [key |-> call[c].key, fiat |-> desk[c].fiat, rate |-> desk[c].rate,
        micros |-> Total(desk[c].fiat, desk[c].rate), created |-> clock])
  /\ Done(c, Len(intents) + 1)
  /\ UNCHANGED <<clock, calls, faults>>

(* An await of the handler rejects: also a JSON response, 422.                *)
HandlerFails(c) ==
  /\ ~ At(c, "-") /\ faults < MaxFaults /\ faults' = faults + 1
  /\ Done(c, 0)
  /\ UNCHANGED <<intents, clock, calls>>

Store(c) == Http!Store(c) /\ UNCHANGED <<intents, desk, clock, calls, faults>>

StoreFails(c) ==
  /\ faults < MaxFaults /\ faults' = faults + 1
  /\ Http!StoreFails(c)
  /\ UNCHANGED <<intents, desk, clock, calls>>

Restart ==
  /\ \E c \in Calls : ~ Http!In(c, "idle")
  /\ faults < MaxFaults /\ faults' = faults + 1
  /\ Http!Restart /\ desk' = [c \in Calls |-> Away]
  /\ UNCHANGED <<intents, clock, calls>>

Tick ==
  /\ clock < MaxClock /\ clock' = clock + 1
  /\ UNCHANGED <<intents, desk, calls, faults, middle>>

Next ==
  \/ \E c \in Calls :
       \/ Request(c) \/ OtherRoute(c) \/ CheckCaps(c) \/ Price(c) \/ Open(c)
       \/ HandlerFails(c) \/ Store(c) \/ StoreFails(c)
  \/ Restart \/ Tick

Spec == Init /\ [][Next]_vars

------------------------------------------------------------------------------
(* Properties.                                                                *)

(* Types: the intents, the requests' locals and the middleware.               *)
TypeOK ==
  /\ Http!TypeOK
  /\ intents \in Seq(Intent) /\ desk \in [Calls -> Local]
  /\ clock \in Nat /\ calls \in Nat /\ faults \in Nat

(* The rows and the requests agree: a request in the handler is on this route *)
(* and prices with a rate that is not 0, an intent carries the crypto of its  *)
(* fiat amount at its rate, and a response that names a quote, stored or      *)
(* about to be, names one opened under its own key.                           *)
NamesOwnQuote(log, response, route, key) ==
  response > 0 =>
    route = "quote" /\ response \in 1 .. Len(log) /\ log[response].key = key

DeskInv ==
  /\ TypeOK
  /\ \A c \in Calls :
       /\ ~ At(c, "-") => Http!In(c, "handler") /\ call[c].route = "quote"
       /\ At(c, "open") => desk[c].rate > 0
       /\ Http!In(c, "store") => NamesOwnQuote(intents, call[c].response, call[c].route, call[c].key)
  /\ \A i \in 1 .. Len(intents) :
       intents[i].rate > 0 /\ intents[i].micros = Total(intents[i].fiat, intents[i].rate)
  /\ \A k \in Keys : rows[k] # NoRow => NamesOwnQuote(intents, rows[k].response, rows[k].route, k)

(* The daily cap is checked before the rate is awaited and the intent is      *)
(* inserted, without a lock: what concurrent quotes may exceed it by is one   *)
(* payment for each other request in flight, and nothing with one at a time.  *)
DailyCapOvershoot ==
  DailyTotal <= MaxDaily + (Cardinality(Calls) - 1) * MaxPayment

(* Every quote on record sells enough crypto for its fiat amount at the rate  *)
(* it promises, and not a micro more than that.                               *)
QuotesAreEnough ==
  \A i \in DOMAIN intents :
    Enough(intents[i].fiat, intents[i].micros - FeeMicros, intents[i].rate)

(* The amount of a quote reads back the same from the decimals it is shown in *)
(* (formatMicros() and parseUsdcAmount()).                                    *)
AmountsReadBack ==
  \A i \in DOMAIN intents :
    ParseUsdcAmount(FormatMicros(intents[i].micros)) = intents[i].micros

(* A key opens at most as many quotes as requests can be in flight when it is *)
(* first used, once more for each restart or failed insert; retrying it later *)
(* never adds one, on whichever route it was first used.                      *)
Opened(k) == {i \in DOMAIN intents : intents[i].key = k}

QuotesPerKey ==
  \A k \in Keys : Cardinality(Opened(k)) <= Cardinality(Calls) * (1 + faults)

(* Until a key has a row each of its quotes is of a request that has yet to   *)
(* store its answer, or was cut short by a fault; from then on no request is  *)
(* added to those that may still open one.                                    *)
With(phase, k) == {c \in Calls : Http!In(c, phase) /\ call[c].key = k}

KeyInv(k) ==
  IF rows[k] = NoRow
    THEN Cardinality(Opened(k)) <= Cardinality(With("store", k)) + Cardinality(Calls) * faults
    ELSE Cardinality(Opened(k)) + Cardinality(With("handler", k)) <= Cardinality(Calls) * (1 + faults)

(* The requests whose quote passed the cap and is not on record yet, and what *)
(* they may still add to the day: one payment each, but for one of them, the  *)
(* last let through, which was checked with its own amount.                   *)
Passed == {c \in Calls : At(c, "price") \/ At(c, "open")}

CapWith(amount, others) ==
  DailyTotal + amount + others * MaxPayment <= MaxDaily + (Cardinality(Calls) - 1) * MaxPayment

CapInv ==
  /\ \A c \in Passed : desk[c].fiat <= MaxPayment
  /\ \/ CapWith(0, Cardinality(Passed))
     \/ \E c \in Passed : CapWith(desk[c].fiat, Cardinality(Passed) - 1)

QuoteInv == DeskInv /\ (\A k \in Keys : KeyInv(k)) /\ CapInv

(* What a key answers once it answers it for ever (onConflictDoNothing), and  *)
(* the rows of intents are never rewritten behind it.                         *)
AnswersStand ==
  [][/\ \A k \in Keys : rows[k] # NoRow => rows'[k] = rows[k]
     /\ \A i \in 1 .. Len(intents) : intents'[i] = intents[i]]_vars
==============================================================================
