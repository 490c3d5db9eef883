--------------------------- MODULE QuoteDeskProofs ----------------------------
(* QuoteInv is an inductive invariant of the quote desk, for every finite set *)
(* of requests and all keys, amounts, rates and caps: quotes sell exactly     *)
(* enough crypto, stored answers stand and name their own quote, a key opens  *)
(* boundedly many quotes, and the day's quotes exceed the cap boundedly.      *)
EXTENDS QuoteDesk, QuoteMathProofs, FiniteSetTheorems, SequenceTheorems, WellFoundedInduction

USE DEF Http!Phases, Http!Call

LEMMA UnusedType == Http!Unused \in Http!Call /\ Http!Unused.phase = "idle"
BY DeskAssumption DEF Routes, Http!Unused

LEMMA AwayType == Away \in Local /\ Away.at = "-"
BY DEF Away, Local

LEMMA InitDesk == Init => DeskInv
<1> SUFFICES ASSUME Init PROVE DeskInv
  OBVIOUS
<1> USE DEF Init, Http!Init
<1>1. TypeOK
  BY UnusedType, AwayType DEF TypeOK, Http!TypeOK
<1>2. \A c \in Calls : At(c, "-") /\ Http!In(c, "idle")
  BY UnusedType, AwayType DEF At, Http!In
<1> QED BY <1>1, <1>2 DEF DeskInv, At, Http!In

(* A step of request c alone that writes neither rows nor intents.            *)
LEMMA OneRequest ==
  ASSUME DeskInv, NEW c \in Calls, NEW a \in Http!Call, NEW l \in Local,
         call' = [call EXCEPT ![c] = a], desk' = [desk EXCEPT ![c] = l],
         UNCHANGED <<rows, intents>>, clock' \in Nat, calls' \in Nat, faults' \in Nat,
         l.at # "-" => a.phase = "handler" /\ a.route = "quote",
         l.at = "open" => l.rate > 0,
         a.phase = "store" => NamesOwnQuote(intents, a.response, a.route, a.key)
  PROVE  DeskInv'
<1>1. TypeOK'
  BY DEF DeskInv, TypeOK, Http!TypeOK
<1>2. /\ call'[c] = a /\ desk'[c] = l
      /\ \A d \in Calls \ {c} : call'[d] = call[d] /\ desk'[d] = desk[d]
  BY DEF DeskInv, TypeOK, Http!TypeOK
<1>3. ASSUME NEW d \in Calls
      PROVE  /\ ~ At(d, "-")' => Http!In(d, "handler")' /\ call'[d].route = "quote"
             /\ At(d, "open")' => desk'[d].rate > 0
             /\ Http!In(d, "store")' =>
                  NamesOwnQuote(intents', call'[d].response, call'[d].route, call'[d].key)
  BY <1>2 DEF DeskInv, At, Http!In
<1> QED BY <1>1, <1>3 DEF DeskInv, NamesOwnQuote

(* A request that reaches the handler.                                        *)
LEMMA RequestStep ==
  ASSUME DeskInv, NEW c \in Calls, Request(c)
  PROVE  DeskInv'
<1>1. calls' \in Nat /\ clock' \in Nat /\ faults' \in Nat /\ intents' = intents
  <2>1. calls' = calls + 1 /\ UNCHANGED <<intents, clock, faults>> BY DEF Request
  <2> QED BY <2>1 DEF DeskInv, TypeOK
<1> PICK k \in Keys :
       \/ Http!Lookup(c, k, "other") /\ UNCHANGED desk
       \/ /\ Http!Lookup(c, k, "quote")
          /\ \E f \in Amounts : desk' = [desk EXCEPT ![c] = [Away EXCEPT !.at = "check", !.fiat = f]]
  BY DEF Request
<1>2. CASE Http!Lookup(c, k, "other") /\ UNCHANGED desk
  <2> DEFINE a == [Http!Unused EXCEPT !.phase = "handler", !.key = k, !.route = "other"]
  <2>1. a \in Http!Call /\ a.phase = "handler"
    BY UnusedType DEF Routes
  <2>2. call' = [call EXCEPT ![c] = a] /\ rows' = rows /\ call[c].phase = "idle"
    BY <1>2 DEF Http!Lookup, Http!In
  <2>3. desk[c].at = "-" /\ desk[c] \in Local
    BY <2>2 DEF DeskInv, At, Http!In, TypeOK
  <2>4. desk' = [desk EXCEPT ![c] = desk[c]]
    BY <1>2 DEF DeskInv, TypeOK
  <2> HIDE DEF a
  <2> QED BY <1>1, <2>1, <2>2, <2>3, <2>4, OneRequest
<1>3. CASE /\ Http!Lookup(c, k, "quote")
           /\ \E f \in Amounts : desk' = [desk EXCEPT ![c] = [Away EXCEPT !.at = "check", !.fiat = f]]
  <2> DEFINE a == [Http!Unused EXCEPT !.phase = "handler", !.key = k, !.route = "quote"]
  <2>1. PICK f \in Amounts : desk' = [desk EXCEPT ![c] = [Away EXCEPT !.at = "check", !.fiat = f]]
    BY <1>3
  <2> DEFINE l == [Away EXCEPT !.at = "check", !.fiat = f]
  <2>2. a \in Http!Call /\ a.phase = "handler" /\ a.route = "quote"
    BY UnusedType DEF Routes
  <2>3. l \in Local /\ l.at = "check"
    BY DeskAssumption DEF Away, Local
  <2>4. call' = [call EXCEPT ![c] = a] /\ rows' = rows
    BY <1>3 DEF Http!Lookup
  <2>5. desk' = [desk EXCEPT ![c] = l]
    BY <2>1
  <2> HIDE DEF a, l
  <2> QED BY <1>1, <2>2, <2>3, <2>4, <2>5, OneRequest
<1> QED BY <1>2, <1>3

(* The handler answers without a quote.                                       *)
LEMMA AnswerNone ==
  ASSUME DeskInv, NEW c \in Calls, Http!Answer(c, 0),
         desk' = [desk EXCEPT ![c] = Away] \/ (desk' = desk /\ desk[c].at = "-"),
         UNCHANGED intents, clock' \in Nat, calls' \in Nat, faults' \in Nat
  PROVE  DeskInv'
<1> DEFINE a == [call[c] EXCEPT !.phase = "store", !.response = 0]
<1>1. a \in Http!Call /\ a.response = 0 /\ a.phase = "store"
  BY DEF DeskInv, TypeOK, Http!TypeOK
<1>2. call' = [call EXCEPT ![c] = a] /\ rows' = rows
  BY DEF Http!Answer, DeskInv, TypeOK, Http!TypeOK
<1>3. PICK l \in Local : l.at = "-" /\ desk' = [desk EXCEPT ![c] = l]
  BY AwayType DEF DeskInv, TypeOK
<1>4. NamesOwnQuote(intents, a.response, a.route, a.key)
  BY <1>1 DEF NamesOwnQuote
<1> HIDE DEF a
<1> QED BY <1>1, <1>2, <1>3, <1>4, OneRequest

(* createQuote() up to its transaction.                                       *)
LEMMA PriceSteps ==
  ASSUME DeskInv, NEW c \in Calls, CheckCaps(c) \/ Price(c)
  PROVE  DeskInv'
<1>1. clock' \in Nat /\ calls' \in Nat /\ faults' \in Nat /\ intents' = intents
  BY DEF CheckCaps, Price, DeskInv, TypeOK
<1>2. CASE Done(c, 0)
  BY <1>1, <1>2, AnswerNone DEF Done
<1>3. /\ call[c] \in Http!Call /\ desk[c] \in Local
      /\ desk[c].at # "-" => call[c].phase = "handler" /\ call[c].route = "quote"
  BY DEF DeskInv, TypeOK, Http!TypeOK, At, Http!In
<1>4. CASE At(c, "check") /\ desk' = [desk EXCEPT ![c].at = "price"] /\ UNCHANGED middle
  <2> DEFINE l == [desk[c] EXCEPT !.at = "price"]
  <2>1. l \in Local /\ l.at = "price" BY <1>3 DEF Local
  <2>2. desk' = [desk EXCEPT ![c] = l] BY <1>4 DEF DeskInv, TypeOK
  <2>3. call' = [call EXCEPT ![c] = call[c]] /\ rows' = rows
    BY <1>4 DEF middle, DeskInv, TypeOK, Http!TypeOK
  <2>4. call[c].phase = "handler" /\ call[c].route = "quote" BY <1>3, <1>4 DEF At
  <2> HIDE DEF l
  <2> QED BY <1>1, <1>3, <2>1, <2>2, <2>3, <2>4, OneRequest
<1>5. ASSUME NEW ref \in Refs, QuotedRate(ref) # 0, At(c, "price"), UNCHANGED middle,
             desk' = [desk EXCEPT ![c].at = "open", ![c].rate = QuotedRate(ref)]
      PROVE  DeskInv'
  <2> DEFINE l == [desk[c] EXCEPT !.at = "open", !.rate = QuotedRate(ref)]
  <2>1. QuotedRate(ref) \in Nat /\ QuotedRate(ref) > 0
    BY <1>5, DeskAssumption, SpreadNeverNegative
  <2>2. l \in Local /\ l.at = "open" /\ l.rate > 0 BY <1>3, <2>1 DEF Local
  <2>3. desk' = [desk EXCEPT ![c] = l] BY <1>5 DEF DeskInv, TypeOK
  <2>4. call' = [call EXCEPT ![c] = call[c]] /\ rows' = rows
    BY <1>5 DEF middle, DeskInv, TypeOK, Http!TypeOK
  <2>5. call[c].phase = "handler" /\ call[c].route = "quote" BY <1>3, <1>5 DEF At
  <2> HIDE DEF l
  <2> QED BY <1>1, <1>3, <2>2, <2>3, <2>4, <2>5, OneRequest
<1> QED BY <1>2, <1>4, <1>5 DEF CheckCaps, Price

(* The transaction that opens the intent.                                     *)
LEMMA OpenStep ==
  ASSUME DeskInv, NEW c \in Calls, Open(c)
  PROVE  DeskInv'
<1> DEFINE n == Len(intents) + 1
           x == [key |-> call[c].key, fiat |-> desk[c].fiat, rate |-> desk[c].rate,
                 micros |-> Total(desk[c].fiat, desk[c].rate), created |-> clock]
<1>1. /\ call[c] \in Http!Call /\ call[c].route = "quote"
      /\ desk[c] \in Local /\ desk[c].rate > 0 /\ clock \in Nat
      /\ intents \in Seq(Intent)
  BY DEF Open, DeskInv, TypeOK, Http!TypeOK, At
<1>2. Total(desk[c].fiat, desk[c].rate) \in Nat
  BY <1>1, TotalType DEF Local
<1>3. x \in Intent /\ x.key = call[c].key /\ x.rate > 0 /\ x.micros = Total(x.fiat, x.rate)
  BY <1>1, <1>2 DEF Intent, Local
<1>4. intents' = Append(intents, x)
  BY DEF Open
<1> HIDE DEF x
<1>5. /\ intents' \in Seq(Intent) /\ Len(intents') = n /\ intents'[n] = x
      /\ \A i \in 1 .. Len(intents) : intents'[i] = intents[i]
      /\ n \in Nat /\ n > 0
  BY <1>1, <1>3, <1>4
<1>6. /\ call' = [call EXCEPT ![c].phase = "store", ![c].response = n]
      /\ desk' = [desk EXCEPT ![c] = Away] /\ rows' = rows
      /\ UNCHANGED <<clock, calls, faults>>
  BY DEF Open, Done, Http!Answer
<1> HIDE DEF n
<1>7. TypeOK'
  BY <1>1, <1>5, <1>6, AwayType DEF DeskInv, TypeOK, Http!TypeOK
<1>8. /\ call'[c].key = call[c].key /\ call'[c].route = "quote" /\ call'[c].response = n
      /\ desk'[c].at = "-"
      /\ \A d \in Calls \ {c} : call'[d] = call[d] /\ desk'[d] = desk[d]
  BY <1>1, <1>6, AwayType DEF DeskInv, TypeOK, Http!TypeOK
<1>9. ASSUME NEW response \in Nat, NEW route, NEW key,
             NamesOwnQuote(intents, response, route, key)
      PROVE  NamesOwnQuote(intents', response, route, key)
  BY <1>1, <1>5, <1>9 DEF NamesOwnQuote, n
<1>10. NamesOwnQuote(intents', n, "quote", call[c].key)
  BY <1>1, <1>3, <1>5 DEF NamesOwnQuote
<1>11. ASSUME NEW d \in Calls
       PROVE  /\ ~ At(d, "-")' => Http!In(d, "handler")' /\ call'[d].route = "quote"
              /\ At(d, "open")' => desk'[d].rate > 0
              /\ Http!In(d, "store")' =>
                   NamesOwnQuote(intents', call'[d].response, call'[d].route, call'[d].key)
  <2>1. CASE d = c BY <1>8, <1>10, <2>1 DEF At
  <2>2. CASE d # c
    <3>1. call[d].response \in Nat BY DEF DeskInv, TypeOK, Http!TypeOK
    <3>2. call'[d] = call[d] /\ desk'[d] = desk[d] BY <1>8, <2>2
    <3>3. /\ ~ At(d, "-") => Http!In(d, "handler") /\ call[d].route = "quote"
          /\ At(d, "open") => desk[d].rate > 0
          /\ Http!In(d, "store") => NamesOwnQuote(intents, call[d].response, call[d].route, call[d].key)
      BY DEF DeskInv
    <3>4. Http!In(d, "store") => NamesOwnQuote(intents', call[d].response, call[d].route, call[d].key)
      BY <3>1, <3>3, <1>9
    <3> QED BY <3>2, <3>3, <3>4 DEF At, Http!In
  <2> QED BY <2>1, <2>2
<1>12. ASSUME NEW i \in 1 .. Len(intents')
       PROVE  intents'[i].rate > 0 /\ intents'[i].micros = Total(intents'[i].fiat, intents'[i].rate)
  <2>1. i \in 1 .. n BY <1>5
  <2>2. CASE i = n BY <1>3, <1>5, <2>2
  <2>3. CASE i # n
    <3>1. i \in 1 .. Len(intents) BY <1>1, <2>1, <2>3 DEF n
    <3>2. intents[i].rate > 0 /\ intents[i].micros = Total(intents[i].fiat, intents[i].rate)
      BY <3>1 DEF DeskInv
    <3> QED BY <1>5, <3>1, <3>2
  <2> QED BY <2>2, <2>3
<1>13. ASSUME NEW k \in Keys, rows'[k] # NoRow
       PROVE  NamesOwnQuote(intents', rows'[k].response, rows'[k].route, k)
  <2>1. rows[k].response \in Nat BY <1>6, <1>13 DEF DeskInv, TypeOK, Http!TypeOK
  <2>2. NamesOwnQuote(intents, rows[k].response, rows[k].route, k)
    BY <1>6, <1>13 DEF DeskInv
  <2> QED BY <1>6, <1>9, <2>1, <2>2
<1> QED BY <1>7, <1>11, <1>12, <1>13 DEF DeskInv

(* The middleware stores the response, or fails to.                           *)
LEMMA StoreSteps ==
  ASSUME DeskInv, NEW c \in Calls, Store(c) \/ StoreFails(c)
  PROVE  DeskInv'
<1>1. /\ call[c] \in Http!Call /\ Http!In(c, "store")
      /\ NamesOwnQuote(intents, call[c].response, call[c].route, call[c].key)
      /\ call' = [call EXCEPT ![c] = Http!Unused]
      /\ UNCHANGED <<intents, desk, clock, calls>> /\ faults' \in Nat
  BY DEF DeskInv, TypeOK, Http!TypeOK, Store, StoreFails, Http!Store, Http!StoreFails, Http!In
<1>2. desk[c].at = "-"
  BY <1>1 DEF DeskInv, At, Http!In
<1> DEFINE row == [route |-> call[c].route, response |-> call[c].response]
<1>3. rows' = rows \/ rows' = [rows EXCEPT ![call[c].key] = IF @ = NoRow THEN row ELSE @]
  BY DEF Store, StoreFails, Http!Store, Http!StoreFails
<1>4. row \in [route : Routes, response : Nat] /\ row # NoRow /\ call[c].key \in Keys
  BY <1>1, DeskAssumption DEF Routes
<1>5. rows' \in [Keys -> {NoRow} \cup [route : Routes, response : Nat]]
  BY <1>3, <1>4 DEF DeskInv, TypeOK, Http!TypeOK
<1>6. TypeOK'
  BY <1>1, <1>5, UnusedType DEF DeskInv, TypeOK, Http!TypeOK
<1>7. call'[c].phase = "idle" /\ \A d \in Calls \ {c} : call'[d] = call[d]
  BY <1>1, UnusedType DEF DeskInv, TypeOK, Http!TypeOK
<1>8. ASSUME NEW d \in Calls
      PROVE  /\ ~ At(d, "-")' => Http!In(d, "handler")' /\ call'[d].route = "quote"
             /\ At(d, "open")' => desk'[d].rate > 0
             /\ Http!In(d, "store")' =>
                  NamesOwnQuote(intents', call'[d].response, call'[d].route, call'[d].key)
  BY <1>1, <1>2, <1>7 DEF DeskInv, At, Http!In
<1>9. ASSUME NEW k \in Keys, rows'[k] # NoRow
      PROVE  NamesOwnQuote(intents', rows'[k].response, rows'[k].route, k)
  <2>1. CASE rows'[k] = rows[k] BY <1>1, <1>9, <2>1 DEF DeskInv
  <2>2. CASE rows'[k] # rows[k]
    <3>1. k = call[c].key /\ rows'[k] = row
      BY <1>3, <1>4, <2>2 DEF DeskInv, TypeOK, Http!TypeOK
    <3> QED BY <1>1, <3>1
  <2> QED BY <2>1, <2>2
<1> QED BY <1>1, <1>6, <1>8, <1>9 DEF DeskInv, NamesOwnQuote

(* Every step of the desk.                                                    *)
LEMMA NextDesk ==
  ASSUME DeskInv, [Next]_vars
  PROVE  DeskInv'
<1>1. ASSUME NEW c \in Calls, OtherRoute(c)
      PROVE  DeskInv'
  <2>1. desk[c].at = "-" BY <1>1 DEF OtherRoute, DeskInv, At
  <2> QED BY <1>1, <2>1, AnswerNone DEF OtherRoute, DeskInv, TypeOK
<1>2. ASSUME NEW c \in Calls, HandlerFails(c)
      PROVE  DeskInv'
  <2>1. /\ Http!Answer(c, 0) /\ desk' = [desk EXCEPT ![c] = Away]
        /\ UNCHANGED <<intents, clock, calls>> /\ faults' = faults + 1
    BY <1>2 DEF HandlerFails, Done
  <2>2. clock' \in Nat /\ calls' \in Nat /\ faults' \in Nat
    BY <2>1 DEF DeskInv, TypeOK
  <2> QED BY <2>1, <2>2, AnswerNone
<1>3. CASE Restart
  <2>1. /\ call' = [c \in Calls |-> Http!Unused] /\ rows' = rows
        /\ desk' = [c \in Calls |-> Away] /\ UNCHANGED <<intents, clock, calls>>
        /\ faults' \in Nat
    BY <1>3 DEF Restart, Http!Restart, DeskInv, TypeOK
  <2>2. TypeOK' BY <2>1, UnusedType, AwayType DEF DeskInv, TypeOK, Http!TypeOK
  <2>3. \A d \in Calls : call'[d].phase = "idle" /\ desk'[d].at = "-"
    BY <2>1, UnusedType, AwayType
  <2> QED BY <2>1, <2>2, <2>3 DEF DeskInv, NamesOwnQuote, At, Http!In
<1>4. CASE Tick
  BY <1>4 DEF Tick, middle, DeskInv, TypeOK, Http!TypeOK, NamesOwnQuote, At, Http!In
<1>5. CASE UNCHANGED vars
  BY <1>5 DEF vars, middle, DeskInv, TypeOK, Http!TypeOK, NamesOwnQuote, At, Http!In
<1> QED BY <1>1, <1>2, <1>3, <1>4, <1>5, RequestStep, PriceSteps, OpenStep, StoreSteps DEF Next

(* The rows of the desk agree in every reachable state: types, prices and the *)
(* quote each answer names.                                                   *)
THEOREM DeskInvariance == Spec => []DeskInv
<1>1. Init => DeskInv BY InitDesk
<1>2. DeskInv /\ [Next]_vars => DeskInv' BY NextDesk
<1> QED BY <1>1, <1>2, PTL DEF Spec

(* Every quote createQuote() puts on record sells enough crypto for its fiat  *)
(* amount and not a micro more, for every rate, spread, fee and scale.        *)
THEOREM QuotesAreEnoughAlways == Spec => []QuotesAreEnough
<1>1. DeskInv => QuotesAreEnough
  <2> SUFFICES ASSUME DeskInv, NEW i \in DOMAIN intents
               PROVE  Enough(intents[i].fiat, intents[i].micros - FeeMicros, intents[i].rate)
    BY DEF QuotesAreEnough
  <2> DEFINE fiat == intents[i].fiat
             rate == intents[i].rate
  <2>1. /\ i \in 1 .. Len(intents) /\ intents[i] \in Intent
        /\ rate > 0 /\ intents[i].micros = Total(fiat, rate)
    BY DEF DeskInv, TypeOK
  <2>2. fiat \in Nat /\ rate \in Nat \ {0} BY <2>1 DEF Intent
  <2>3. fiat * Micro * Micro \in Nat BY <2>2, QuoteMathAssumption, ProductNat
  <2>4. CryptoFor(fiat, rate) \in Nat BY <2>2, <2>3, Ceiling DEF CryptoFor
  <2>5. intents[i].micros - FeeMicros = CryptoFor(fiat, rate)
    BY <2>1, <2>4, QuoteMathAssumption DEF Total
  <2> QED BY <2>2, <2>5, QuoteIsEnough
<1> QED BY <1>1, DeskInvariance, PTL

(* What a key answers once it answers for ever, and no quote on record is     *)
(* ever rewritten, whatever is retried, raced or restarted.                   *)
THEOREM AnswersStandAlways == Spec => AnswersStand
<1> DEFINE Stand == /\ \A k \in Keys : rows[k] # NoRow => rows'[k] = rows[k]
                    /\ \A i \in 1 .. Len(intents) : intents'[i] = intents[i]
<1>1. ASSUME DeskInv, [Next]_vars PROVE Stand
  <2>1. rows \in [Keys -> {NoRow} \cup [route : Routes, response : Nat]] /\ intents \in Seq(Intent)
    BY <1>1 DEF DeskInv, TypeOK, Http!TypeOK
  <2>2. CASE rows' = rows /\ intents' = intents BY <2>2
  <2>3. ASSUME NEW c \in Calls, Open(c) PROVE Stand
    <3>1. rows' = rows BY <2>3 DEF Open, Done, Http!Answer
    <3>2. PICK x : intents' = Append(intents, x) BY <2>3 DEF Open
    <3> QED BY <2>1, <3>1, <3>2
  <2>4. ASSUME NEW c \in Calls, Store(c) PROVE Stand
    <3>1. intents' = intents BY <2>4 DEF Store
    <3>2. rows' = [rows EXCEPT ![call[c].key] = IF @ = NoRow
             THEN [route |-> call[c].route, response |-> call[c].response] ELSE @]
      BY <2>4 DEF Store, Http!Store
    <3> QED BY <2>1, <3>1, <3>2
  <2>5. \/ rows' = rows /\ intents' = intents
        \/ \E c \in Calls : Open(c) \/ Store(c)
    BY <1>1 DEF Next, vars, middle, Request, OtherRoute, CheckCaps, Price, HandlerFails,
       StoreFails, Restart, Tick, Done, Http!Lookup, Http!Answer, Http!StoreFails, Http!Restart
  <2> QED BY <2>2, <2>3, <2>4, <2>5
<1>2. DeskInv /\ [Next]_vars => [Stand]_vars BY <1>1
<1>3. Spec => [][Stand]_vars
  BY <1>2, DeskInvariance, PTL DEF Spec
<1> QED BY <1>3 DEF AnswersStand

------------------------------------------------------------------------------
(* The quotes of a key.                                                       *)

LEMMA Finite == IsFiniteSet(Calls)
BY DeskAssumption

LEMMA Counted ==
  ASSUME DeskInv, NEW k
  PROVE  /\ IsFiniteSet(Opened(k)) /\ Cardinality(Opened(k)) \in Nat
         /\ Cardinality(Calls) \in Nat
         /\ \A phase : /\ IsFiniteSet(With(phase, k)) /\ Cardinality(With(phase, k)) \in Nat
                       /\ Cardinality(With(phase, k)) <= Cardinality(Calls)
<1>1. IsFiniteSet(Opened(k))
  <2>1. intents \in Seq(Intent) BY DEF DeskInv, TypeOK
  <2>2. DOMAIN intents = 1 .. Len(intents) /\ Len(intents) \in Nat BY <2>1, LenProperties
  <2>3. IsFiniteSet(DOMAIN intents) BY <2>2, FS_Interval
  <2>4. Opened(k) \subseteq DOMAIN intents BY DEF Opened
  <2> QED BY <2>3, <2>4, FS_Subset
<1>2. ASSUME NEW phase
      PROVE  /\ IsFiniteSet(With(phase, k)) /\ Cardinality(With(phase, k)) \in Nat
             /\ Cardinality(With(phase, k)) <= Cardinality(Calls)
  <2>1. With(phase, k) \subseteq Calls BY DEF With
  <2>2. IsFiniteSet(With(phase, k)) /\ Cardinality(With(phase, k)) <= Cardinality(Calls)
    BY <2>1, FS_Subset, Finite
  <2> QED BY <2>2, FS_CardinalityType
<1> QED BY <1>1, <1>2, FS_CardinalityType, Finite

(* The faults so far are worth that many requests.                            *)
LEMMA Worth ==
  ASSUME NEW n \in Nat, NEW f \in Nat
  PROVE  /\ n * f \in Nat /\ n * (f + 1) = n * f + n /\ n * (1 + f) = n * f + n
BY SMT

LEMMA Together ==
  ASSUME NEW S, IsFiniteSet(S), NEW H, IsFiniteSet(H), S \cap H = {}
  PROVE  Cardinality(S \cup H) = Cardinality(S) + Cardinality(H)
<1>1. Cardinality(S \cap H) = 0 BY FS_EmptySet
<1>2. Cardinality(S) \in Nat /\ Cardinality(H) \in Nat BY FS_CardinalityType
<1>3. Cardinality(S \cup H) = Cardinality(S) + Cardinality(H) - Cardinality(S \cap H)
  BY FS_Union
<1> QED BY <1>1, <1>2, <1>3

(* A step that neither opens a quote nor gives the key a row.                 *)
LEMMA KeyKept ==
  ASSUME DeskInv, DeskInv', NEW k \in Keys, KeyInv(k), rows'[k] = rows[k],
         Opened(k)' = Opened(k), faults' \in {faults, faults + 1},
         rows[k] = NoRow => \/ With("store", k) \subseteq With("store", k)'
                            \/ faults' = faults + 1,
         rows[k] # NoRow => With("handler", k)' \subseteq With("handler", k)
  PROVE  KeyInv(k)'
<1> DEFINE n == Cardinality(Calls)
           o == Cardinality(Opened(k))
<1>1. n \in Nat /\ o \in Nat /\ faults \in Nat /\ o' = o BY Counted DEF DeskInv, TypeOK
<1>2. /\ IsFiniteSet(With("store", k)') /\ IsFiniteSet(With("handler", k))
      /\ Cardinality(With("store", k)) \in Nat /\ Cardinality(With("handler", k)) \in Nat
      /\ Cardinality(With("store", k)') \in Nat /\ Cardinality(With("handler", k)') \in Nat
      /\ Cardinality(With("store", k)) <= n
  <2>1. With("store", k)' \subseteq Calls BY DEF With
  <2>2. With("handler", k)' \subseteq Calls BY DEF With
  <2>3. IsFiniteSet(With("store", k)') /\ IsFiniteSet(With("handler", k)')
    BY <2>1, <2>2, FS_Subset, Finite
  <2> QED BY <2>3, Counted, FS_CardinalityType
<1> HIDE DEF n, o
<1>3. /\ n * faults \in Nat /\ n * (faults + 1) = n * faults + n
      /\ n * (1 + faults) = n * faults + n
      /\ n * faults' \in {n * faults, n * faults + n}
      /\ faults' = faults + 1 => n * faults' = n * faults + n
      /\ n * (1 + faults') = n * faults' + n
  <2>1. n * faults \in Nat /\ n * (faults + 1) = n * faults + n /\ n * (1 + faults) = n * faults + n
    BY <1>1, Worth
  <2>2. faults' \in Nat /\ n * (1 + faults') = n * faults' + n
    BY <1>1, Worth
  <2> QED BY <2>1, <2>2
<1>4. CASE rows[k] = NoRow
  <2>1. o <= Cardinality(With("store", k)) + n * faults BY <1>4 DEF KeyInv, o, n
  <2>2. With("store", k) \subseteq With("store", k)' =>
          Cardinality(With("store", k)) <= Cardinality(With("store", k)')
    BY <1>2, FS_Subset
  <2>3. o <= Cardinality(With("store", k)') + n * faults'
    BY <1>1, <1>2, <1>3, <1>4, <2>1, <2>2
  <2> QED BY <1>1, <1>4, <2>3 DEF KeyInv, o, n
<1>5. CASE rows[k] # NoRow
  <2>1. o + Cardinality(With("handler", k)) <= n * (1 + faults) BY <1>5 DEF KeyInv, o, n
  <2>2. Cardinality(With("handler", k)') <= Cardinality(With("handler", k))
    BY <1>2, <1>5, FS_Subset
  <2>3. o + Cardinality(With("handler", k)') <= n * (1 + faults')
    BY <1>1, <1>2, <1>3, <2>1, <2>2
  <2> QED BY <1>1, <1>5, <2>3 DEF KeyInv, o, n
<1> QED BY <1>4, <1>5

(* Only c moves, to phase p.                                                  *)
Moves(c, p) == call'[c].phase = p /\ \A d \in Calls \ {c} : call'[d] = call[d]

LEMMA KeyAnswered ==
  ASSUME DeskInv, DeskInv', NEW c \in Calls, NEW response, Http!Answer(c, response),
         UNCHANGED intents, faults' \in {faults, faults + 1}, NEW k \in Keys, KeyInv(k)
  PROVE  KeyInv(k)'
<1>1. /\ call' = [call EXCEPT ![c].phase = "store", ![c].response = response]
      /\ rows' = rows /\ call \in [Calls -> Http!Call] /\ call[c].phase = "handler"
  BY DEF Http!Answer, Http!In, DeskInv, TypeOK, Http!TypeOK
<1>2. Moves(c, "store") /\ call'[c].key = call[c].key BY <1>1 DEF Moves
<1>3. With("store", k) \subseteq With("store", k)' BY <1>1, <1>2 DEF With, Moves, Http!In
<1>4. With("handler", k)' \subseteq With("handler", k) BY <1>2 DEF With, Moves, Http!In
<1>5. Opened(k)' = Opened(k) BY DEF Opened
<1> QED BY <1>1, <1>3, <1>4, <1>5, KeyKept

LEMMA KeyRequest ==
  ASSUME DeskInv, DeskInv', NEW c \in Calls, Request(c), NEW k \in Keys, KeyInv(k)
  PROVE  KeyInv(k)'
<1>1. PICK j \in Keys, route \in {"quote", "other"} : Http!Lookup(c, j, route)
  BY DEF Request
<1>2. /\ rows' = rows /\ rows[j] = NoRow /\ call[c].phase = "idle"
      /\ call' = [call EXCEPT ![c] =
                    [Http!Unused EXCEPT !.phase = "handler", !.key = j, !.route = route]]
      /\ intents' = intents /\ faults' = faults
  BY <1>1 DEF Http!Lookup, Http!In, Request
<1>3. Moves(c, "handler") /\ call'[c].key = j
  BY <1>2, UnusedType DEF Moves, DeskInv, TypeOK, Http!TypeOK
<1>4. With("store", k) \subseteq With("store", k)' BY <1>2, <1>3 DEF With, Moves, Http!In
<1>5. k # j => With("handler", k)' \subseteq With("handler", k)
  BY <1>3 DEF With, Moves, Http!In
<1>6. Opened(k)' = Opened(k) BY <1>2 DEF Opened
<1> QED BY <1>2, <1>4, <1>5, <1>6, KeyKept

(* A fault leaves the request without a row, and is worth it.                 *)
LEMMA KeyFault ==
  ASSUME DeskInv, DeskInv', Restart \/ \E c \in Calls : StoreFails(c),
         NEW k \in Keys, KeyInv(k)
  PROVE  KeyInv(k)'
<1>1. rows' = rows /\ intents' = intents /\ faults' = faults + 1
  BY DEF Restart, StoreFails, Http!Restart, Http!StoreFails
<1>2. \A c \in Calls : call'[c] = call[c] \/ call'[c].phase = "idle"
  BY UnusedType DEF Restart, StoreFails, Http!Restart, Http!StoreFails, DeskInv, TypeOK, Http!TypeOK
<1>3. With("handler", k)' \subseteq With("handler", k) BY <1>2 DEF With, Http!In
<1>4. Opened(k)' = Opened(k) BY <1>1 DEF Opened
<1> QED BY <1>1, <1>3, <1>4, KeyKept

(* A quote is opened by a request that had yet to open one.                   *)
LEMMA KeyOpen ==
  ASSUME DeskInv, DeskInv', NEW c \in Calls, Open(c), NEW k \in Keys, KeyInv(k)
  PROVE  KeyInv(k)'
<1> DEFINE m == Len(intents) + 1
           x == [key |-> call[c].key, fiat |-> desk[c].fiat, rate |-> desk[c].rate,
                 micros |-> Total(desk[c].fiat, desk[c].rate), created |-> clock]
<1>1. /\ call[c] \in Http!Call /\ desk[c] \in Local /\ desk[c].rate > 0 /\ clock \in Nat
      /\ intents \in Seq(Intent) /\ call[c].phase = "handler" /\ faults \in Nat
      /\ call \in [Calls -> Http!Call]
  BY DEF Open, DeskInv, TypeOK, Http!TypeOK, At, Http!In
<1>2. Total(desk[c].fiat, desk[c].rate) \in Nat BY <1>1, TotalType DEF Local
<1>3. x \in Intent /\ x.key = call[c].key BY <1>1, <1>2 DEF Intent, Local
<1>4. intents' = Append(intents, x) BY DEF Open
<1> HIDE DEF x
<1>5. /\ intents' \in Seq(Intent) /\ Len(intents') = m /\ intents'[m] = x
      /\ \A i \in 1 .. Len(intents) : intents'[i] = intents[i]
  BY <1>1, <1>3, <1>4, AppendProperties
<1>6. /\ Len(intents) \in Nat /\ DOMAIN intents = 1 .. Len(intents) /\ DOMAIN intents' = 1 .. m
  BY <1>1, <1>5, LenProperties
<1>7. /\ call' = [call EXCEPT ![c].phase = "store", ![c].response = m] /\ rows' = rows
      /\ faults' = faults
  BY DEF Open, Done, Http!Answer
<1>8. Moves(c, "store") /\ call'[c].key = call[c].key BY <1>1, <1>7 DEF Moves
<1>9. CASE k # call[c].key
  <2>1. Opened(k)' = Opened(k) BY <1>3, <1>5, <1>6, <1>9 DEF Opened
  <2>2. With("store", k)' = With("store", k) /\ With("handler", k)' = With("handler", k)
    BY <1>8, <1>9 DEF With, Moves, Http!In
  <2> QED BY <1>7, <2>1, <2>2, KeyKept
<1>10. CASE k = call[c].key
  <2>1. Opened(k)' = Opened(k) \cup {m} /\ m \notin Opened(k)
    BY <1>3, <1>5, <1>6, <1>10 DEF Opened
  <2>2. With("store", k)' = With("store", k) \cup {c} /\ c \notin With("store", k)
    BY <1>1, <1>8, <1>10 DEF With, Moves, Http!In
  <2>3. With("handler", k)' = With("handler", k) \ {c} /\ c \in With("handler", k)
    BY <1>1, <1>8, <1>10 DEF With, Moves, Http!In
  <2>4. Cardinality(Opened(k) \cup {m}) = Cardinality(Opened(k)) + 1
    BY <2>1, Counted, FS_AddElement
  <2>5. Cardinality(With("store", k) \cup {c}) = Cardinality(With("store", k)) + 1
    BY <2>2, Counted, FS_AddElement
  <2>6. Cardinality(With("handler", k) \ {c}) = Cardinality(With("handler", k)) - 1
    BY <2>3, Counted, FS_RemoveElement
  <2> DEFINE n == Cardinality(Calls) * faults
             u == Cardinality(Calls) * (1 + faults)
             o == Cardinality(Opened(k))
             w == Cardinality(With("store", k))
             h == Cardinality(With("handler", k))
  <2>7. o \in Nat /\ w \in Nat /\ h \in Nat /\ n \in Nat /\ u \in Nat
    <3>1. Cardinality(Calls) \in Nat BY Counted
    <3>2. n \in Nat /\ u = n + Cardinality(Calls) BY <1>1, <3>1, Worth
    <3>3. o \in Nat /\ w \in Nat /\ h \in Nat BY Counted
    <3> HIDE DEF n, u, o, w, h
    <3> QED BY <3>1, <3>2, <3>3
  <2>8. IF rows[k] = NoRow THEN o <= w + n ELSE o + h <= u BY DEF KeyInv
  <2>9. /\ Cardinality(Opened(k)') = o + 1 /\ Cardinality(With("store", k)') = w + 1
        /\ Cardinality(With("handler", k)') = h - 1
    BY <2>1, <2>2, <2>3, <2>4, <2>5, <2>6
  <2> HIDE DEF n, u, o, w, h
  <2>10. IF rows[k] = NoRow THEN o + 1 <= (w + 1) + n ELSE (o + 1) + (h - 1) <= u
    BY <2>7, <2>8
  <2>11. /\ (Cardinality(Calls) * faults)' = n /\ (Cardinality(Calls) * (1 + faults))' = u
    BY <1>7 DEF n, u
  <2> QED BY <1>7, <2>9, <2>10, <2>11 DEF KeyInv
<1> QED BY <1>9, <1>10

(* With its row the key stops letting requests in.                            *)
LEMMA KeyStore ==
  ASSUME DeskInv, DeskInv', NEW c \in Calls, Store(c), NEW k \in Keys, KeyInv(k)
  PROVE  KeyInv(k)'
<1>1. /\ call[c] \in Http!Call /\ call[c].phase = "store" /\ intents' = intents
      /\ call' = [call EXCEPT ![c] = Http!Unused] /\ faults' = faults /\ faults \in Nat
      /\ rows' = [rows EXCEPT ![call[c].key] =
           IF @ = NoRow THEN [route |-> call[c].route, response |-> call[c].response] ELSE @]
      /\ rows \in [Keys -> {NoRow} \cup [route : Routes, response : Nat]]
      /\ call \in [Calls -> Http!Call]
  BY DEF DeskInv, TypeOK, Http!TypeOK, Store, Http!Store, Http!In
<1>2. Moves(c, "idle") BY <1>1, UnusedType DEF Moves
<1>3. With("handler", k)' \subseteq With("handler", k) BY <1>2 DEF With, Moves, Http!In
<1>4. Opened(k)' = Opened(k) BY <1>1 DEF Opened
<1>5. CASE k # call[c].key
  <2>1. rows'[k] = rows[k] BY <1>1, <1>5
  <2>2. With("store", k) \subseteq With("store", k)' BY <1>2, <1>5 DEF With, Moves, Http!In
  <2> QED BY <1>1, <1>3, <1>4, <2>1, <2>2, KeyKept
<1>6. CASE k = call[c].key /\ rows[k] # NoRow
  <2>1. rows'[k] = rows[k] BY <1>1, <1>6
  <2> QED BY <1>1, <1>3, <1>4, <1>6, <2>1, KeyKept
<1>7. CASE k = call[c].key /\ rows[k] = NoRow
  <2>1. rows'[k] # NoRow
    <3>1. rows'[k] = [route |-> call[c].route, response |-> call[c].response] BY <1>1, <1>7
    <3>2. [route |-> call[c].route, response |-> call[c].response] \in
            [route : {"quote", "other"}, response : Nat]
      BY <1>1 DEF Routes
    <3> QED BY <3>1, <3>2, DeskAssumption
  <2> DEFINE S == With("store", k)
             H == With("handler", k)
             n == Cardinality(Calls)
             o == Cardinality(Opened(k))
  <2>2. /\ IsFiniteSet(S) /\ IsFiniteSet(H) /\ Cardinality(S) \in Nat /\ Cardinality(H) \in Nat
        /\ n \in Nat /\ o \in Nat
    BY Counted
  <2>3. S \cap H = {} /\ S \cup H \subseteq Calls BY DEF With, Http!In
  <2>4. o <= Cardinality(S) + n * faults BY <1>7 DEF KeyInv
  <2>5. IsFiniteSet(H') /\ Cardinality(H') <= Cardinality(H) /\ Cardinality(H') \in Nat
    BY <1>3, <2>2, FS_Subset, FS_CardinalityType
  <2> HIDE DEF S, H, o
  <2>7. Cardinality(S \cup H) = Cardinality(S) + Cardinality(H) BY <2>2, <2>3, Together
  <2>8. Cardinality(S \cup H) <= n BY <2>3, FS_Subset, Finite
  <2> HIDE DEF n
  <2>9. n * faults \in Nat /\ n * (1 + faults) = n * faults + n BY <1>1, <2>2, Worth
  <2>10. o + Cardinality(H') <= n * (1 + faults)
    BY <2>2, <2>4, <2>5, <2>7, <2>8, <2>9
  <2> QED BY <1>1, <1>4, <2>1, <2>10 DEF KeyInv, H, n, o
<1> QED BY <1>5, <1>6, <1>7

LEMMA KeyUntouched ==
  ASSUME DeskInv, DeskInv', UNCHANGED <<rows, call, intents>>,
         faults' \in {faults, faults + 1}, NEW k \in Keys, KeyInv(k)
  PROVE  KeyInv(k)'
<1>1. Opened(k)' = Opened(k) /\ \A phase : With(phase, k)' = With(phase, k)
  BY DEF Opened, With, Http!In
<1> QED BY <1>1, KeyKept

(* A key lets requests in until it has a row, and no more after.              *)
LEMMA InitKeys ==
  ASSUME Init, NEW k \in Keys
  PROVE  KeyInv(k)
<1>1. rows[k] = NoRow /\ faults = 0 /\ intents = <<>> BY DEF Init, Http!Init
<1>2. DeskInv BY InitDesk
<1>3. Opened(k) = {} BY <1>1 DEF Opened
<1>4. Cardinality(Opened(k)) = 0 BY <1>3, FS_EmptySet
<1>5. Cardinality(With("store", k)) \in Nat /\ Cardinality(Calls) \in Nat
  BY <1>2, Counted
<1>6. Cardinality(Calls) * faults \in Nat BY <1>1, <1>5, Worth
<1> QED BY <1>1, <1>4, <1>5, <1>6 DEF KeyInv

LEMMA NextKeys ==
  ASSUME DeskInv, DeskInv', NEW k \in Keys, KeyInv(k), [Next]_vars
  PROVE  KeyInv(k)'
<1>1. ASSUME NEW c \in Calls, OtherRoute(c) \/ CheckCaps(c) \/ Price(c) \/ HandlerFails(c)
      PROVE  KeyInv(k)'
  <2>1. intents' = intents /\ faults' \in {faults, faults + 1}
    BY <1>1 DEF OtherRoute, CheckCaps, Price, HandlerFails
  <2>2. Http!Answer(c, 0) \/ UNCHANGED <<rows, call>>
    BY <1>1 DEF OtherRoute, CheckCaps, Price, HandlerFails, Done, middle
  <2> QED BY <2>1, <2>2, KeyAnswered, KeyUntouched
<1>2. CASE Tick \/ UNCHANGED vars
  <2>1. UNCHANGED <<rows, call, intents, faults>> BY <1>2 DEF Tick, vars, middle
  <2> QED BY <2>1, KeyUntouched
<1> QED BY <1>1, <1>2, KeyRequest, KeyOpen, KeyStore, KeyFault DEF Next

------------------------------------------------------------------------------
(* The daily cap.                                                             *)

(* The sum of the fiat amounts of some intents, and the rule it is worked out *)
(* by: an element is picked and the rest summed.                              *)
Picked(s) == CHOOSE x \in s : TRUE
SumRule(log, T, g) ==
  g = [s \in SUBSET T |-> IF s = {} THEN 0 ELSE log[Picked(s)].fiat + g[s \ {Picked(s)}]]
Sums(log, T) == CHOOSE g : SumRule(log, T, g)

LEMMA FiatIsSums ==
  ASSUME NEW log, NEW S
  PROVE  FiatOf(log, S) = Sums(log, S)[S]
BY DEF FiatOf, MapThenSumSet, MapThenFoldSet, Sums, SumRule, Picked

LEMMA PickedIn ==
  ASSUME NEW s, s # {}
  PROVE  Picked(s) \in s
BY DEF Picked

(* A set of subsets of a finite set has a smallest one.                       *)
LEMMA Smallest ==
  ASSUME NEW S, IsFiniteSet(S), NEW B \in SUBSET (SUBSET S), B # {}
  PROVE  \E s \in B : \A t \in B : t \subseteq s => t = s
<1>1. IsWellFoundedOn(StrictSubsetOrdering(S), SUBSET S)
  BY FS_StrictSubsetOrderingWellFounded, FS_FiniteSubsetsOfFinite
<1>2. PICK s \in B : \A t \in B : ~ (<<t, s>> \in StrictSubsetOrdering(S))
  BY <1>1, WFMin
<1>3. ASSUME NEW t \in B, t \subseteq s, t # s
      PROVE  FALSE
  BY <1>2, <1>3 DEF StrictSubsetOrdering
<1> QED BY <1>3

LEMMA SumAgree ==
  ASSUME NEW log, NEW T, IsFiniteSet(T), NEW U, NEW g, SumRule(log, T, g),
         NEW h, SumRule(log, U, h), NEW s \in SUBSET T, s \subseteq U
  PROVE  g[s] = h[s]
<1> DEFINE B == {t \in SUBSET T : t \subseteq U /\ g[t] # h[t]}
<1> SUFFICES ASSUME B # {}
             PROVE  FALSE
  OBVIOUS
<1>1. PICK t \in B : \A u \in B : u \subseteq t => u = t
  <2>1. B \in SUBSET (SUBSET T)
    OBVIOUS
  <2> HIDE DEF B
  <2> QED BY <2>1, Smallest
<1> DEFINE r == t \ {Picked(t)}
<1>2. t \in SUBSET T /\ t \in SUBSET U /\ r \in SUBSET T /\ r \in SUBSET U
  BY <1>1
<1>3. /\ g[t] = IF t = {} THEN 0 ELSE log[Picked(t)].fiat + g[r]
      /\ h[t] = IF t = {} THEN 0 ELSE log[Picked(t)].fiat + h[r]
  BY <1>2 DEF SumRule
<1>4. CASE t = {}
  BY <1>1, <1>3, <1>4
<1>5. CASE t # {}
  <2>1. r \subseteq t /\ r # t
    BY <1>5, PickedIn
  <2>2. g[r] = h[r]
    BY <1>1, <1>2, <2>1
  <2> QED BY <1>1, <1>3, <1>5, <2>2
<1> QED BY <1>4, <1>5

LEMMA SumExists ==
  ASSUME NEW log, NEW S, IsFiniteSet(S)
  PROVE  SumRule(log, S, Sums(log, S))
<1> DEFINE B == {t \in SUBSET S : ~ SumRule(log, t, Sums(log, t))}
<1> SUFFICES ASSUME B # {}
             PROVE  FALSE
  OBVIOUS
<1>1. PICK T \in B : \A u \in B : u \subseteq T => u = T
  <2>1. B \in SUBSET (SUBSET S)
    OBVIOUS
  <2> HIDE DEF B
  <2> QED BY <2>1, Smallest
<1> DEFINE r(s) == s \ {Picked(s)}
           h == [s \in SUBSET T |-> IF s = {} THEN 0
                                    ELSE log[Picked(s)].fiat + Sums(log, r(s))[r(s)]]
<1>2. ASSUME NEW u, u \subseteq T, u # T
      PROVE  SumRule(log, u, Sums(log, u)) /\ IsFiniteSet(u)
  BY <1>1, <1>2, FS_Subset
<1>3. ASSUME NEW s \in SUBSET T, s # {}
      PROVE  h[r(s)] = Sums(log, r(s))[r(s)]
  <2> DEFINE u == r(s)
  <2>1. u \subseteq T /\ u # T
    BY <1>3, PickedIn
  <2>2. SumRule(log, u, Sums(log, u))
    BY <1>2, <2>1
  <2>3. Sums(log, u)[u] = IF u = {} THEN 0 ELSE log[Picked(u)].fiat + Sums(log, u)[r(u)]
    BY <2>2 DEF SumRule
  <2>4. h[u] = IF u = {} THEN 0 ELSE log[Picked(u)].fiat + Sums(log, r(u))[r(u)]
    BY <2>1
  <2>5. ASSUME u # {}
        PROVE  Sums(log, u)[r(u)] = Sums(log, r(u))[r(u)]
    <3>1. r(u) \subseteq u /\ r(u) \subseteq T /\ r(u) # T
      BY <2>1
    <3>2. SumRule(log, r(u), Sums(log, r(u))) /\ IsFiniteSet(r(u))
      BY <1>2, <3>1
    <3> HIDE DEF u, r
    <3> QED BY <2>2, <3>1, <3>2, SumAgree
  <2> QED BY <2>3, <2>4, <2>5
<1>4. SumRule(log, T, h)
  <2>1. h = [s \in SUBSET T |-> IF s = {} THEN 0 ELSE log[Picked(s)].fiat + h[s \ {Picked(s)}]]
    BY <1>3
  <2> QED BY <2>1 DEF SumRule
<1>5. SumRule(log, T, Sums(log, T))
  <2> HIDE DEF h
  <2> QED BY <1>4 DEF Sums
<1> QED BY <1>1, <1>5

LEMMA SumOfPicked ==
  ASSUME NEW log, NEW S, IsFiniteSet(S)
  PROVE  FiatOf(log, S) = IF S = {} THEN 0 ELSE log[Picked(S)].fiat + FiatOf(log, S \ {Picked(S)})
<1> DEFINE r == S \ {Picked(S)}
<1>1. SumRule(log, S, Sums(log, S)) /\ SumRule(log, r, Sums(log, r)) /\ IsFiniteSet(r)
  BY SumExists, FS_Subset
<1>2. Sums(log, S)[r] = Sums(log, r)[r]
  <2>1. r \in SUBSET S /\ r \subseteq r
    OBVIOUS
  <2>2. PICK g, h : g = Sums(log, S) /\ h = Sums(log, r)
    OBVIOUS
  <2>3. SumRule(log, S, g) /\ SumRule(log, r, h)
    BY <1>1, <2>2
  <2> HIDE DEF r
  <2>4. g[r] = h[r]
    BY <2>1, <2>3, SumAgree
  <2> QED BY <2>2, <2>4
<1>3. Sums(log, S)[S] = IF S = {} THEN 0 ELSE log[Picked(S)].fiat + Sums(log, S)[r]
  BY <1>1 DEF SumRule
<1> QED BY <1>2, <1>3, FiatIsSums

LEMMA SumNat ==
  ASSUME NEW log, NEW S, IsFiniteSet(S), \A i \in S : log[i].fiat \in Nat
  PROVE  FiatOf(log, S) \in Nat
<1> DEFINE B == {t \in SUBSET S : FiatOf(log, t) \notin Nat}
<1> SUFFICES ASSUME B # {}
             PROVE  FALSE
  OBVIOUS
<1>1. PICK t \in B : \A u \in B : u \subseteq t => u = t
  <2>1. B \in SUBSET (SUBSET S)
    OBVIOUS
  <2> HIDE DEF B
  <2> QED BY <2>1, Smallest
<1>2. t \in SUBSET S /\ IsFiniteSet(t)
  BY <1>1, FS_Subset
<1>3. CASE t = {}
  <2>1. FiatOf(log, t) = 0
    BY <1>2, <1>3, SumOfPicked
  <2> QED BY <1>1, <2>1
<1>4. CASE t # {}
  <2>1. Picked(t) \in t /\ t \ {Picked(t)} # t
    BY <1>4, PickedIn
  <2>2. FiatOf(log, t \ {Picked(t)}) \in Nat /\ log[Picked(t)].fiat \in Nat
    BY <1>1, <1>2, <2>1
  <2>3. FiatOf(log, t) = log[Picked(t)].fiat + FiatOf(log, t \ {Picked(t)})
    BY <1>2, <1>4, SumOfPicked
  <2> QED BY <1>1, <2>2, <2>3
<1> QED BY <1>3, <1>4

(* The order of the sum does not matter.                                      *)
LEMMA SumSplit ==
  ASSUME NEW log, NEW S, IsFiniteSet(S), \A i \in S : log[i].fiat \in Nat, NEW x \in S
  PROVE  FiatOf(log, S) = log[x].fiat + FiatOf(log, S \ {x})
<1> DEFINE Wrong(t, y) == FiatOf(log, t) # log[y].fiat + FiatOf(log, t \ {y})
           B == {t \in SUBSET S : \E y \in t : Wrong(t, y)}
<1> SUFFICES ASSUME B # {}
             PROVE  FALSE
  <2>1. S \notin B
    OBVIOUS
  <2> QED BY <2>1
<1>1. PICK t \in B : \A u \in B : u \subseteq t => u = t
  <2>1. B \in SUBSET (SUBSET S)
    OBVIOUS
  <2> HIDE DEF B
  <2> QED BY <2>1, Smallest
<1>2. PICK y \in t : Wrong(t, y)
  BY <1>1
<1> DEFINE p == Picked(t)
<1>3. t \in SUBSET S /\ IsFiniteSet(t) /\ t # {} /\ p \in t
  BY <1>1, <1>2, FS_Subset, PickedIn
<1>4. FiatOf(log, t) = log[p].fiat + FiatOf(log, t \ {p})
  BY <1>3, SumOfPicked
<1>5. p # y
  BY <1>2, <1>4
<1> HIDE DEF p
<1>6. ~ Wrong(t \ {p}, y) /\ ~ Wrong(t \ {y}, p)
  <2>1. t \ {p} \notin B /\ t \ {y} \notin B
    BY <1>1, <1>2, <1>3
  <2> QED BY <1>2, <1>3, <1>5, <2>1
<1>7. (t \ {p}) \ {y} = (t \ {y}) \ {p}
  OBVIOUS
<1>8. log[p].fiat \in Nat /\ log[y].fiat \in Nat /\ FiatOf(log, (t \ {p}) \ {y}) \in Nat
  <2>1. IsFiniteSet((t \ {p}) \ {y}) /\ (t \ {p}) \ {y} \subseteq S
    BY <1>3, FS_Subset
  <2> QED BY <1>2, <1>3, <2>1, SumNat
<1>9. FALSE
  <2>1. FiatOf(log, t \ {p}) = log[y].fiat + FiatOf(log, (t \ {p}) \ {y})
    BY <1>6
  <2>2. FiatOf(log, t \ {y}) = log[p].fiat + FiatOf(log, (t \ {p}) \ {y})
    BY <1>6, <1>7
  <2>3. FiatOf(log, t) # log[y].fiat + FiatOf(log, t \ {y})
    BY <1>2
  <2> HIDE DEF Wrong, B
  <2> QED BY <1>4, <1>8, <2>1, <2>2, <2>3
<1> QED BY <1>9

(* The sum is that of any log with the same amounts.                          *)
LEMMA SumSame ==
  ASSUME NEW log, NEW more, NEW S, IsFiniteSet(S), \A i \in S : more[i].fiat = log[i].fiat
  PROVE  FiatOf(more, S) = FiatOf(log, S)
<1> DEFINE B == {t \in SUBSET S : FiatOf(more, t) # FiatOf(log, t)}
<1> SUFFICES ASSUME B # {}
             PROVE  FALSE
  OBVIOUS
<1>1. PICK t \in B : \A u \in B : u \subseteq t => u = t
  <2>1. B \in SUBSET (SUBSET S)
    OBVIOUS
  <2> HIDE DEF B
  <2> QED BY <2>1, Smallest
<1>2. t \in SUBSET S /\ IsFiniteSet(t)
  BY <1>1, FS_Subset
<1>3. CASE t = {}
  BY <1>1, <1>2, <1>3, SumOfPicked
<1>4. CASE t # {}
  <2>1. Picked(t) \in t /\ t \ {Picked(t)} # t
    BY <1>4, PickedIn
  <2>2. FiatOf(more, t \ {Picked(t)}) = FiatOf(log, t \ {Picked(t)})
    BY <1>1, <1>2, <2>1
  <2>3. /\ FiatOf(log, t) = log[Picked(t)].fiat + FiatOf(log, t \ {Picked(t)})
        /\ FiatOf(more, t) = more[Picked(t)].fiat + FiatOf(more, t \ {Picked(t)})
    BY <1>2, <1>4, SumOfPicked
  <2> QED BY <1>1, <1>2, <2>1, <2>2, <2>3
<1> QED BY <1>3, <1>4

(* Fewer intents sum to no more.                                              *)
LEMMA SumOfFewer ==
  ASSUME NEW log, NEW S, IsFiniteSet(S), \A i \in S : log[i].fiat \in Nat, NEW U \in SUBSET S
  PROVE  FiatOf(log, U) <= FiatOf(log, S)
<1> DEFINE B == {t \in SUBSET S : U \subseteq t /\ ~ (FiatOf(log, U) <= FiatOf(log, t))}
<1> SUFFICES ASSUME B # {}
             PROVE  FALSE
  OBVIOUS
<1>1. PICK t \in B : \A u \in B : u \subseteq t => u = t
  <2>1. B \in SUBSET (SUBSET S)
    OBVIOUS
  <2> HIDE DEF B
  <2> QED BY <2>1, Smallest
<1>2. t \in SUBSET S /\ IsFiniteSet(t) /\ IsFiniteSet(U)
  BY <1>1, FS_Subset
<1>3. FiatOf(log, U) \in Nat /\ FiatOf(log, t) \in Nat
  BY <1>2, SumNat
<1>4. CASE t = U
  BY <1>1, <1>3, <1>4
<1>5. CASE t # U
  <2>1. PICK x \in t : x \notin U
    BY <1>1, <1>5
  <2>2. t \ {x} \in SUBSET S /\ U \subseteq t \ {x} /\ t \ {x} # t /\ IsFiniteSet(t \ {x})
    BY <1>1, <1>2, <2>1, FS_Subset
  <2>3. FiatOf(log, U) <= FiatOf(log, t \ {x})
    BY <1>1, <2>2
  <2>4. FiatOf(log, t) = log[x].fiat + FiatOf(log, t \ {x})
    BY <1>2, SumSplit
  <2>5. FiatOf(log, t \ {x}) \in Nat /\ log[x].fiat \in Nat
    BY <1>2, <2>2, SumNat
  <2>6. FiatOf(log, U) <= FiatOf(log, t)
    BY <1>3, <2>3, <2>4, <2>5
  <2> QED BY <1>1, <2>6
<1> QED BY <1>4, <1>5

(* The intents that count towards the day's total.                            *)
LEMMA Counting ==
  ASSUME DeskInv
  PROVE  /\ DailyTotal = FiatOf(intents, Live) /\ DailyTotal \in Nat
         /\ IsFiniteSet(Live) /\ Live \subseteq 1 .. Len(intents)
         /\ \A i \in 1 .. Len(intents) : intents[i] \in Intent /\ intents[i].fiat \in Nat
         /\ DOMAIN intents = 1 .. Len(intents) /\ Len(intents) \in Nat /\ clock \in Nat
<1>1. intents \in Seq(Intent) /\ clock \in Nat BY DEF DeskInv, TypeOK
<1>2. DOMAIN intents = 1 .. Len(intents) /\ Len(intents) \in Nat BY <1>1, LenProperties
<1>3. ASSUME NEW i \in 1 .. Len(intents)
      PROVE  intents[i] \in Intent /\ intents[i].fiat \in Nat
  <2>1. intents[i] \in Intent BY <1>1
  <2> QED BY <2>1 DEF Intent
<1>4. Live \subseteq 1 .. Len(intents) BY <1>2 DEF Live
<1>5. IsFiniteSet(Live)
  <2>1. IsFiniteSet(1 .. Len(intents)) BY <1>2, FS_Interval
  <2> QED BY <1>4, <2>1, FS_Subset
<1>6. DailyTotal = FiatOf(intents, Live) BY DEF DailyTotal
<1>7. FiatOf(intents, Live) \in Nat BY <1>3, <1>4, <1>5, SumNat
<1> QED BY <1>1, <1>2, <1>3, <1>4, <1>5, <1>6, <1>7

LEMMA TotalNat == DeskInv' => (DailyTotal \in Nat)'
<1>1. DeskInv => DailyTotal \in Nat BY Counting
<1> QED BY <1>1, PTL

(* With time the total only falls.                                            *)
LEMMA TotalFalls ==
  ASSUME DeskInv, DeskInv', intents' = intents, clock' >= clock
  PROVE  DailyTotal' <= DailyTotal
<1>1. /\ DailyTotal = FiatOf(intents, Live) /\ IsFiniteSet(Live) /\ clock \in Nat
      /\ \A i \in Live : intents[i].fiat \in Nat
  BY Counting
<1>2. DailyTotal' = FiatOf(intents, Live') /\ clock' \in Nat
  <2>1. DailyTotal' = FiatOf(intents', Live') BY DEF DailyTotal
  <2> QED BY <2>1 DEF DeskInv, TypeOK
<1>3. Live' \subseteq Live
  <2>1. ASSUME NEW i \in DOMAIN intents
        PROVE  intents[i].created \in Nat
    BY Counting DEF Intent
  <2> QED BY <1>1, <1>2, <2>1, DeskAssumption DEF Live
<1>4. FiatOf(intents, Live') <= FiatOf(intents, Live) BY <1>1, <1>3, SumOfFewer
<1> QED BY <1>1, <1>2, <1>4

(* An intent adds its amount.                                                 *)
LEMMA TotalGrows ==
  ASSUME DeskInv, NEW x \in Intent, intents' = Append(intents, x), clock' = clock
  PROVE  DailyTotal' <= DailyTotal + x.fiat
<1> DEFINE n == Len(intents) + 1
<1>1. /\ DailyTotal = FiatOf(intents, Live) /\ IsFiniteSet(Live) /\ Live \subseteq 1 .. Len(intents)
      /\ \A i \in 1 .. Len(intents) : intents[i].fiat \in Nat
      /\ Len(intents) \in Nat /\ intents \in Seq(Intent) /\ DailyTotal \in Nat
  BY Counting DEF DeskInv, TypeOK
<1>2. /\ DOMAIN intents' = 1 .. n /\ intents'[n] = x /\ n \notin 1 .. Len(intents)
      /\ \A i \in 1 .. Len(intents) : intents'[i] = intents[i]
  BY <1>1
<1>3. DailyTotal' = FiatOf(intents', Live') BY DEF DailyTotal
<1>4. Live' = Live \/ Live' = Live \cup {n}
  <2>1. DOMAIN intents' = (1 .. Len(intents)) \cup {n} BY <1>1, <1>2
  <2>2. DOMAIN intents = 1 .. Len(intents) BY <1>1
  <2> QED BY <1>2, <2>1, <2>2 DEF Live
<1>5. \A i \in Live : intents'[i].fiat = intents[i].fiat BY <1>1, <1>2
<1>6. PICK more : more = intents' OBVIOUS
<1>7. FiatOf(more, Live) = DailyTotal BY <1>1, <1>5, <1>6, SumSame
<1>8. x.fiat \in Nat BY DEF Intent
<1> HIDE DEF n
<1>9. CASE Live' = Live
  BY <1>1, <1>3, <1>6, <1>7, <1>8, <1>9
<1>10. CASE Live' = Live \cup {n}
  <2> DEFINE S == Live \cup {n}
  <2>1. IsFiniteSet(S) /\ n \in S /\ S \ {n} = Live BY <1>1, <1>2, FS_AddElement
  <2>2. \A i \in S : more[i].fiat \in Nat BY <1>1, <1>2, <1>5, <1>6, <1>8
  <2> HIDE DEF S
  <2>3. FiatOf(more, S) = more[n].fiat + FiatOf(more, S \ {n}) BY <2>1, <2>2, SumSplit
  <2>4. FiatOf(more, S) = x.fiat + DailyTotal BY <1>2, <1>6, <1>7, <2>1, <2>3
  <2> QED BY <1>1, <1>3, <1>6, <1>8, <1>10, <2>4 DEF S
<1> QED BY <1>4, <1>9, <1>10

(* The numbers of CapInv.                                                     *)
LEMMA CapNumbers ==
  ASSUME DeskInv
  PROVE  /\ IsFiniteSet(Passed) /\ Cardinality(Passed) \in Nat
         /\ Cardinality(Calls) \in Nat /\ Cardinality(Calls) >= 1
         /\ Cardinality(Passed) <= Cardinality(Calls)
         /\ MaxPayment \in Nat /\ MaxDaily \in Nat /\ DailyTotal \in Nat
         /\ \A c \in Calls : desk[c] \in Local /\ desk[c].fiat \in Nat
         /\ \A c \in Passed : Cardinality(Passed) >= 1
<1>1. Passed \subseteq Calls BY DEF Passed
<1>2. IsFiniteSet(Passed) /\ Cardinality(Passed) <= Cardinality(Calls)
  BY <1>1, Finite, FS_Subset
<1>3. Cardinality(Passed) \in Nat /\ Cardinality(Calls) \in Nat
  BY <1>2, Finite, FS_CardinalityType
<1>4. Cardinality(Calls) # 0 BY Finite, DeskAssumption, FS_EmptySet
<1>5. \A c \in Passed : Cardinality(Passed) # 0 BY <1>2, FS_EmptySet
<1>6. \A c \in Calls : desk[c] \in Local /\ desk[c].fiat \in Nat
  BY DEF DeskInv, TypeOK, Local
<1>7. DailyTotal \in Nat BY Counting
<1> QED BY <1>2, <1>3, <1>4, <1>5, <1>6, <1>7, DeskAssumption

(* One payment more or less.                                                  *)
LEMMA OneMore ==
  ASSUME NEW n \in Nat, NEW m \in Nat
  PROVE  /\ n * m \in Nat
         /\ (n + 1) * m = n * m + m
         /\ n >= 1 => (n - 1) * m \in Nat /\ n * m = (n - 1) * m + m
         /\ 0 * m = 0
BY SMT

LEMMA MonotoneWorth ==
  ASSUME NEW a \in Nat, NEW b \in Nat, NEW m \in Nat, a <= b
  PROVE  a * m \in Nat /\ b * m \in Nat /\ a * m <= b * m
BY ProductMonotone, ProductNat

LEMMA LessLeft ==
  ASSUME NEW t \in Nat, NEW u \in Nat, NEW f \in Nat, NEW old \in Nat, NEW new \in Nat, NEW B \in Int,
         u <= t, new <= old, t + f + old <= B
  PROVE  u + 0 + new <= B
OBVIOUS

LEMMA OnRecord ==
  ASSUME NEW t \in Nat, NEW u \in Nat, NEW f \in Nat, NEW m \in Nat, NEW rest \in Nat, NEW B \in Int,
         u <= t + f, f <= m, t + 0 + (rest + m) <= B \/ t + f + rest <= B
  PROVE  u + 0 + rest <= B
OBVIOUS

(* Requests are answered or cut short, and time passes.                       *)
LEMMA CapKept ==
  ASSUME DeskInv, DeskInv', CapInv, DailyTotal' <= DailyTotal, Passed' \subseteq Passed,
         \A c \in Passed' : desk'[c].fiat = desk[c].fiat
  PROVE  CapInv'
<1> DEFINE p == Cardinality(Passed)
           B == MaxDaily + (Cardinality(Calls) - 1) * MaxPayment
<1>1. /\ p \in Nat /\ p' \in Nat /\ p' <= p /\ DailyTotal \in Nat /\ DailyTotal' \in Nat
      /\ MaxPayment \in Nat /\ IsFiniteSet(Passed) /\ B \in Int
      /\ \A c \in Passed : desk[c].fiat \in Nat /\ p >= 1
      /\ \A c \in Passed' : p' >= 1
  <2>1. IsFiniteSet(Passed) /\ IsFiniteSet(Passed') /\ p' \in Nat
    BY CapNumbers, FS_Subset, FS_CardinalityType
  <2>2. p' <= p BY <2>1, FS_Subset
  <2>3. DailyTotal' \in Nat
    <3>1. DailyTotal' \in Nat BY TotalNat
    <3> QED BY <3>1
  <2>4. \A c \in Passed' : p' # 0 BY <2>1, FS_EmptySet
  <2>5. Passed \subseteq Calls BY DEF Passed
  <2>6. (Cardinality(Calls) - 1) * MaxPayment \in Nat BY CapNumbers, OneMore
  <2> HIDE DEF p
  <2> QED BY CapNumbers, <2>1, <2>2, <2>3, <2>4, <2>5, <2>6 DEF p
<1>2. \A c \in Passed' : desk'[c].fiat <= MaxPayment BY DEF CapInv
<1>3. CASE CapWith(0, p)
  <2> DEFINE old == p * MaxPayment
             new == p' * MaxPayment
  <2>1. DailyTotal + 0 + old <= B BY <1>3 DEF CapWith
  <2>2. new <= old /\ new \in Nat /\ old \in Nat BY <1>1, MonotoneWorth
  <2> HIDE DEF p, B, old, new
  <2>3. DailyTotal' + 0 + new <= B BY <1>1, <2>1, <2>2
  <2>4. CapWith(0, Cardinality(Passed))' BY <2>3 DEF CapWith, new, p, B
  <2> QED BY <1>2, <2>4 DEF CapInv
<1>4. ASSUME NEW c \in Passed, CapWith(desk[c].fiat, p - 1)
      PROVE  CapInv'
  <2>1. DailyTotal + desk[c].fiat + (p - 1) * MaxPayment <= B BY <1>4 DEF CapWith
  <2>2. CASE c \in Passed'
    <3>1. p - 1 \in Nat /\ p' - 1 \in Nat /\ p' - 1 <= p - 1 BY <1>1, <2>2
    <3>2. /\ (p' - 1) * MaxPayment <= (p - 1) * MaxPayment
          /\ (p' - 1) * MaxPayment \in Nat /\ (p - 1) * MaxPayment \in Nat
      BY <1>1, <3>1, MonotoneWorth
    <3> HIDE DEF p, B
    <3>3. DailyTotal' + desk[c].fiat + (p' - 1) * MaxPayment <= B BY <1>1, <2>1, <3>2
    <3>4. CapWith(desk[c].fiat, Cardinality(Passed) - 1)' BY <2>2, <3>3 DEF CapWith, p, B
    <3> QED BY <1>2, <2>2, <3>4 DEF CapInv
  <2>3. CASE c \notin Passed'
    <3>1. Cardinality(Passed \ {c}) = p - 1 /\ IsFiniteSet(Passed \ {c})
      BY <1>1, FS_RemoveElement
    <3>2. Passed' \subseteq Passed \ {c} BY <2>3
    <3>3. p' <= p - 1 /\ p - 1 \in Nat
      <4>1. p' <= Cardinality(Passed \ {c}) BY <3>1, <3>2, FS_Subset
      <4> QED BY <1>1, <3>1, <4>1
    <3> HIDE DEF p, B
    <3>4. /\ p' * MaxPayment <= (p - 1) * MaxPayment
          /\ p' * MaxPayment \in Nat /\ (p - 1) * MaxPayment \in Nat
      BY <1>1, <3>3, MonotoneWorth
    <3> DEFINE old == (p - 1) * MaxPayment
               new == p' * MaxPayment
    <3>5. desk[c].fiat \in Nat BY <1>1, <1>4
    <3>6. new <= old /\ new \in Nat /\ old \in Nat /\ DailyTotal + desk[c].fiat + old <= B
      BY <2>1, <3>4
    <3> HIDE DEF old, new
    <3>8. DailyTotal' + 0 + new <= B BY <1>1, <3>5, <3>6, LessLeft
    <3>7. CapWith(0, Cardinality(Passed))' BY <3>8 DEF CapWith, new, p, B
    <3> QED BY <1>2, <3>7 DEF CapInv
  <2> QED BY <2>2, <2>3
<1> QED BY <1>3, <1>4 DEF CapInv

(* A request passes the check with its own amount.                            *)
LEMMA CapAdmit ==
  ASSUME DeskInv, DeskInv', CapInv, NEW c \in Calls, CheckCaps(c)
  PROVE  CapInv'
<1>1. intents' = intents /\ clock' = clock BY DEF CheckCaps
<1>2. DailyTotal' <= DailyTotal /\ DailyTotal' = DailyTotal
  <2>1. DailyTotal' = DailyTotal BY <1>1 DEF DailyTotal, Live
  <2> QED BY <2>1, Counting
<1>3. desk \in [Calls -> Local] BY DEF DeskInv, TypeOK
<1>4. CASE Done(c, 0)
  <2>1. desk' = [desk EXCEPT ![c] = Away] BY <1>4 DEF Done
  <2>2. Passed' \subseteq Passed /\ \A d \in Passed' : desk'[d].fiat = desk[d].fiat
    BY <1>3, <2>1, AwayType DEF Passed, At
  <2> QED BY <1>2, <2>2, CapKept
<1>5. CASE /\ desk[c].fiat > 0 /\ desk[c].fiat <= MaxPayment /\ DailyTotal + desk[c].fiat <= MaxDaily
           /\ desk' = [desk EXCEPT ![c].at = "price"]
  <2> DEFINE p == Cardinality(Passed)
             N == Cardinality(Calls)
  <2>1. At(c, "check") /\ desk[c] \in Local /\ desk[c].fiat \in Nat
    BY <1>3 DEF CheckCaps, Local
  <2>2. desk'[c] = [desk[c] EXCEPT !.at = "price"] /\ \A d \in Calls \ {c} : desk'[d] = desk[d]
    BY <1>3, <1>5
  <2>3. desk'[c].at = "price" /\ desk'[c].fiat = desk[c].fiat BY <2>1, <2>2 DEF Local
  <2>4. Passed' = Passed \cup {c} /\ c \notin Passed
    BY <2>1, <2>2, <2>3 DEF Passed, At
  <2>5. p' = p + 1 /\ p' <= N
    <3>1. Cardinality(Passed \cup {c}) = p + 1 BY <2>4, CapNumbers, FS_AddElement
    <3>2. Passed \cup {c} \subseteq Calls BY DEF Passed
    <3>3. Cardinality(Passed \cup {c}) <= N BY <3>2, Finite, FS_Subset
    <3> QED BY <2>4, <3>1, <3>3
  <2>6. p \in Nat /\ N \in Nat /\ MaxPayment \in Nat /\ MaxDaily \in Nat /\ DailyTotal \in Nat
    BY CapNumbers
  <2>7. \A d \in Passed' : desk'[d].fiat <= MaxPayment
    BY <1>5, <2>2, <2>3, <2>4 DEF CapInv, Passed
  <2> HIDE DEF p, N
  <2>8. p' - 1 \in Nat /\ N - 1 \in Nat /\ p' - 1 <= N - 1 BY <2>5, <2>6
  <2>9. /\ (p' - 1) * MaxPayment <= (N - 1) * MaxPayment
        /\ (p' - 1) * MaxPayment \in Nat /\ (N - 1) * MaxPayment \in Nat
    BY <2>6, <2>8, MonotoneWorth
  <2>10. DailyTotal' + desk'[c].fiat + (p' - 1) * MaxPayment <= MaxDaily + (N - 1) * MaxPayment
    BY <1>2, <1>5, <2>1, <2>3, <2>6, <2>9
  <2>11. CapWith(desk[c].fiat, Cardinality(Passed) - 1)'
    BY <2>10 DEF CapWith, p, N
  <2> QED BY <2>4, <2>7, <2>11 DEF CapInv
<1> QED BY <1>4, <1>5 DEF CheckCaps

(* The insert moves the amount from what may come to what is on record.       *)
LEMMA CapOpen ==
  ASSUME DeskInv, DeskInv', CapInv, NEW d \in Calls, Open(d)
  PROVE  CapInv'
<1> DEFINE p == Cardinality(Passed)
           B == MaxDaily + (Cardinality(Calls) - 1) * MaxPayment
           x == [key |-> call[d].key, fiat |-> desk[d].fiat, rate |-> desk[d].rate,
                 micros |-> Total(desk[d].fiat, desk[d].rate), created |-> clock]
<1>1. /\ desk \in [Calls -> Local] /\ desk' = [desk EXCEPT ![d] = Away] /\ At(d, "open")
      /\ intents' = Append(intents, x) /\ clock' = clock /\ call[d] \in Http!Call /\ clock \in Nat
  BY DEF Open, Done, DeskInv, TypeOK, Http!TypeOK
<1>2. desk[d].fiat \in Nat /\ desk[d].rate \in Nat BY <1>1 DEF Local
<1>3. x \in Intent /\ x.fiat = desk[d].fiat
  <2>1. Total(desk[d].fiat, desk[d].rate) \in Nat
    <3>1. desk[d].rate > 0 BY <1>1 DEF DeskInv
    <3> QED BY <1>2, <3>1, TotalType
  <2> QED BY <1>1, <1>2, <2>1 DEF Intent
<1> HIDE DEF x
<1>4. DailyTotal' <= DailyTotal + desk[d].fiat BY <1>1, <1>3, TotalGrows
<1>5. /\ d \in Passed /\ Passed' = Passed \ {d}
      /\ \A c \in Passed \ {d} : desk'[c] = desk[c]
  BY <1>1, AwayType DEF Passed, At
<1>6. /\ p \in Nat /\ p >= 1 /\ p' = p - 1 /\ MaxPayment \in Nat /\ B \in Int
      /\ DailyTotal \in Nat /\ DailyTotal' \in Nat /\ desk[d].fiat <= MaxPayment
      /\ \A c \in Passed : desk[c].fiat \in Nat
  <2>1. Cardinality(Passed \ {d}) = p - 1 BY <1>5, CapNumbers, FS_RemoveElement
  <2>2. DailyTotal' \in Nat BY TotalNat
  <2>3. (Cardinality(Calls) - 1) * MaxPayment \in Nat BY CapNumbers, OneMore
  <2>4. Passed \subseteq Calls BY DEF Passed
  <2>5. p >= 1 BY <1>5, CapNumbers
  <2> QED BY <1>5, <2>1, <2>2, <2>3, <2>4, <2>5, CapNumbers DEF CapInv
<1>7. \A c \in Passed' : desk'[c].fiat <= MaxPayment BY <1>5 DEF CapInv
<1>8. p * MaxPayment = (p - 1) * MaxPayment + MaxPayment /\ (p - 1) * MaxPayment \in Nat
  BY <1>6, OneMore
<1>9. CASE CapWith(0, p) \/ CapWith(desk[d].fiat, p - 1)
  <2> DEFINE all == p * MaxPayment
             rest == (p - 1) * MaxPayment
  <2>1. DailyTotal + 0 + all <= B \/ DailyTotal + desk[d].fiat + rest <= B
    BY <1>9 DEF CapWith
  <2>2. p' * MaxPayment = rest BY <1>6
  <2>3. all = rest + MaxPayment /\ rest \in Nat /\ DailyTotal \in Nat /\ DailyTotal' \in Nat
        /\ MaxPayment \in Nat /\ B \in Int /\ desk[d].fiat <= MaxPayment /\ desk[d].fiat \in Nat
    BY <1>2, <1>6, <1>8
  <2> HIDE DEF p, B, all, rest
  <2>4. DailyTotal + 0 + (rest + MaxPayment) <= B \/ DailyTotal + desk[d].fiat + rest <= B
    BY <2>1, <2>3
  <2>5. DailyTotal' + 0 + rest <= B BY <1>4, <2>3, <2>4, OnRecord
  <2>6. CapWith(0, Cardinality(Passed))' BY <2>2, <2>5 DEF CapWith, p, B
  <2> QED BY <1>7, <2>6 DEF CapInv
<1>10. ASSUME NEW c \in Passed, c # d, CapWith(desk[c].fiat, p - 1)
       PROVE  CapInv'
  <2>1. DailyTotal + desk[c].fiat + (p - 1) * MaxPayment <= B BY <1>10 DEF CapWith
  <2>2. p' >= 1
    <3>1. c \in Passed' BY <1>5, <1>10
    <3>2. IsFiniteSet(Passed') BY <1>5, CapNumbers, FS_Subset
    <3>3. p' # 0 BY <3>1, <3>2, FS_EmptySet
    <3> QED BY <1>6, <3>3
  <2>3. desk[c].fiat \in Nat BY <1>6, <1>10
  <2> HIDE DEF p, B
  <2>4. (p - 1) * MaxPayment = (p' - 1) * MaxPayment + MaxPayment /\ (p' - 1) * MaxPayment \in Nat
    BY <1>6, <2>2, OneMore
  <2>5. DailyTotal' + desk[c].fiat + (p' - 1) * MaxPayment <= B
    BY <1>2, <1>4, <1>6, <2>1, <2>3, <2>4
  <2>6. c \in Passed' /\ desk'[c] = desk[c] BY <1>5, <1>10
  <2>7. CapWith(desk[c].fiat, Cardinality(Passed) - 1)' BY <2>5, <2>6 DEF CapWith, p, B
  <2> QED BY <1>7, <2>6, <2>7 DEF CapInv
<1> QED BY <1>9, <1>10 DEF CapInv

(* Every step of the desk.                                                    *)
LEMMA NextCap ==
  ASSUME DeskInv, DeskInv', CapInv, [Next]_vars
  PROVE  CapInv'
<1>1. desk \in [Calls -> Local] /\ clock \in Nat BY DEF DeskInv, TypeOK
<1>2. ASSUME intents' = intents, clock' \in {clock, clock + 1}, Passed' \subseteq Passed,
             \A c \in Passed' : desk'[c].fiat = desk[c].fiat
      PROVE  CapInv'
  <2>1. clock' >= clock BY <1>1, <1>2
  <2>2. DailyTotal' <= DailyTotal BY <1>2, <2>1, TotalFalls
  <2> QED BY <1>2, <2>2, CapKept
<1>3. ASSUME NEW c \in Calls, Request(c)
      PROVE  CapInv'
  <2>1. intents' = intents /\ clock' = clock BY <1>3 DEF Request
  <2>2. desk' = desk \/ \E f \in Amounts : desk' = [desk EXCEPT ![c] = [Away EXCEPT !.at = "check", !.fiat = f]]
    BY <1>3 DEF Request
  <2>3. \A d \in Calls : desk'[d] = desk[d] \/ desk'[d].at = "check"
    BY <1>1, <2>2 DEF Away
  <2>4. Passed' \subseteq Passed /\ \A d \in Passed' : desk'[d].fiat = desk[d].fiat
    BY <2>3 DEF Passed, At
  <2> QED BY <1>2, <2>1, <2>4
<1>4. ASSUME NEW c \in Calls, Price(c)
      PROVE  CapInv'
  <2>1. intents' = intents /\ clock' = clock /\ At(c, "price") BY <1>4 DEF Price
  <2>2. \/ desk' = [desk EXCEPT ![c] = Away]
        \/ \E r : desk' = [desk EXCEPT ![c].at = "open", ![c].rate = r]
    BY <1>4 DEF Price, Done
  <2>3. \A d \in Calls : \/ desk'[d].at = "-"
                         \/ d = c /\ desk'[d].fiat = desk[d].fiat
                         \/ desk'[d] = desk[d]
    BY <1>1, <2>2, AwayType DEF Local
  <2>4. Passed' \subseteq Passed /\ \A d \in Passed' : desk'[d].fiat = desk[d].fiat
    BY <2>1, <2>3 DEF Passed, At
  <2> QED BY <1>2, <2>1, <2>4
<1>5. ASSUME NEW c \in Calls, OtherRoute(c) \/ HandlerFails(c) \/ Store(c) \/ StoreFails(c)
      PROVE  CapInv'
  <2>1. intents' = intents /\ clock' = clock
    BY <1>5 DEF OtherRoute, HandlerFails, Store, StoreFails
  <2>2. desk' = desk \/ desk' = [desk EXCEPT ![c] = Away]
    BY <1>5 DEF OtherRoute, HandlerFails, Store, StoreFails, Done
  <2>3. Passed' \subseteq Passed /\ \A d \in Passed' : desk'[d].fiat = desk[d].fiat
    BY <1>1, <2>2, AwayType DEF Passed, At
  <2> QED BY <1>2, <2>1, <2>3
<1>6. CASE Restart
  <2>1. intents' = intents /\ clock' = clock /\ desk' = [c \in Calls |-> Away]
    BY <1>6 DEF Restart
  <2>2. Passed' = {} BY <2>1, AwayType DEF Passed, At
  <2> QED BY <1>2, <2>1, <2>2
<1>7. CASE Tick \/ UNCHANGED vars
  <2>1. intents' = intents /\ clock' \in {clock, clock + 1} /\ desk' = desk
    BY <1>7 DEF Tick, vars
  <2>2. Passed' = Passed BY <2>1 DEF Passed, At
  <2> QED BY <1>2, <2>1, <2>2
<1> QED BY <1>3, <1>4, <1>5, <1>6, <1>7, CapAdmit, CapOpen DEF Next

LEMMA InitCap ==
  ASSUME Init
  PROVE  CapInv
<1>1. DeskInv BY InitDesk
<1>2. Passed = {} BY AwayType DEF Init, Passed, At
<1>3. Cardinality(Passed) = 0 BY <1>2, FS_EmptySet
<1>4. DailyTotal = 0
  <2>1. Live = {} BY DEF Init, Live
  <2>2. FiatOf(intents, Live) = 0 BY <1>1, <2>1, Counting, SumOfPicked
  <2> QED BY <1>1, <2>2, Counting
<1> DEFINE N == Cardinality(Calls)
<1>5. N \in Nat /\ N >= 1 /\ MaxPayment \in Nat /\ MaxDaily \in Nat BY <1>1, CapNumbers
<1> HIDE DEF N
<1>6. (N - 1) * MaxPayment \in Nat /\ 0 * MaxPayment = 0 BY <1>5, OneMore
<1>7. 0 + 0 + 0 * MaxPayment <= MaxDaily + (N - 1) * MaxPayment BY <1>5, <1>6
<1> QED BY <1>2, <1>3, <1>4, <1>7 DEF CapInv, CapWith, N

(* The desk's rows agree, a key lets requests in until it has a row, and what *)
(* is on record and what has passed the cap stay within it together.          *)
THEOREM QuoteInvariance == Spec => []QuoteInv
<1>1. Init => (\A k \in Keys : KeyInv(k)) /\ CapInv BY InitKeys, InitCap
<1>2. DeskInv /\ DeskInv' /\ (\A k \in Keys : KeyInv(k)) /\ CapInv /\ [Next]_vars =>
        (\A k \in Keys : KeyInv(k))' /\ CapInv'
  BY NextKeys, NextCap
<1> QED BY <1>1, <1>2, DeskInvariance, PTL DEF Spec, QuoteInv

(* The day's quotes exceed the daily cap by at most one payment for each      *)
(* other request in flight, for every number of requests, cap and amount:     *)
(* whatever order the checks, the rate's answers and the inserts come in.     *)
THEOREM DailyCapOvershootAlways == Spec => []DailyCapOvershoot
<1>1. QuoteInv => DailyCapOvershoot
  <2> SUFFICES ASSUME DeskInv, CapInv
               PROVE  DailyCapOvershoot
    BY DEF QuoteInv
  <2> DEFINE p == Cardinality(Passed)
             B == MaxDaily + (Cardinality(Calls) - 1) * MaxPayment
  <2>1. /\ p \in Nat /\ DailyTotal \in Nat /\ MaxPayment \in Nat /\ B \in Int
        /\ \A c \in Passed : desk[c].fiat \in Nat /\ p >= 1
    <3>1. (Cardinality(Calls) - 1) * MaxPayment \in Nat BY CapNumbers, OneMore
    <3>2. Passed \subseteq Calls BY DEF Passed
    <3> QED BY <3>1, <3>2, CapNumbers
  <2>2. p * MaxPayment \in Nat /\ \A c \in Passed : (p - 1) * MaxPayment \in Nat
    BY <2>1, OneMore
  <2>3. \/ DailyTotal + 0 + p * MaxPayment <= B
        \/ \E c \in Passed : DailyTotal + desk[c].fiat + (p - 1) * MaxPayment <= B
    BY DEF CapInv, CapWith
  <2> HIDE DEF p, B
  <2>4. DailyTotal <= B BY <2>1, <2>2, <2>3
  <2> QED BY <2>4 DEF DailyCapOvershoot, B
<1> QED BY <1>1, QuoteInvariance, PTL

(* A key opens at most as many quotes as requests can be in flight, and as    *)
(* many again for each restart or failed insert, however often it is retried  *)
(* and whatever its requests do to each other.                                *)
THEOREM QuotesPerKeyAlways == Spec => []QuotesPerKey
<1>1. QuoteInv => QuotesPerKey
  <2> SUFFICES ASSUME DeskInv, \A k \in Keys : KeyInv(k), NEW k \in Keys
               PROVE  Cardinality(Opened(k)) <= Cardinality(Calls) * (1 + faults)
    BY DEF QuoteInv, QuotesPerKey
  <2> DEFINE n == Cardinality(Calls)
             o == Cardinality(Opened(k))
             w == Cardinality(With("store", k))
             h == Cardinality(With("handler", k))
  <2>1. o \in Nat /\ w \in Nat /\ h \in Nat /\ n \in Nat /\ faults \in Nat /\ w <= n
    BY Counted DEF DeskInv, TypeOK
  <2>2. IF rows[k] = NoRow THEN o <= w + n * faults ELSE o + h <= n * (1 + faults)
    BY DEF KeyInv
  <2> HIDE DEF n, o, w, h
  <2>3. n * faults \in Nat /\ n * (1 + faults) = n * faults + n BY <2>1, Worth
  <2>4. o <= n * (1 + faults) BY <2>1, <2>2, <2>3
  <2> QED BY <2>4 DEF n, o
<1> QED BY <1>1, QuoteInvariance, PTL

------------------------------------------------------------------------------
(* Amounts as they are shown and typed.  The recursive functions of           *)
(* UsdcAmount exist: the least place up to which one did not would have one   *)
(* made from the one before it.                                               *)

LEMMA Least ==
  ASSUME NEW B \in SUBSET Nat, B # {}
  PROVE  \E m \in B : \A k \in B : m <= k
<1>1. PICK m \in B : \A k \in B : ~ (<<k, m>> \in OpToRel(<, Nat))
  BY NatLessThanWellFounded, WFMin
<1>2. \A k \in B : ~ (k < m)
  BY <1>1 DEF OpToRel
<1> QED BY <1>2

PowRule(j, g) == g = [k \in 0 .. j |-> IF k = 0 THEN 1 ELSE 10 * g[k - 1]]

LEMMA PowExists ==
  ASSUME NEW j \in Nat
  PROVE  \E g : PowRule(j, g)
<1> DEFINE B == {i \in Nat : ~ \E g : PowRule(i, g)}
<1> SUFFICES ASSUME B # {}
             PROVE  FALSE
  OBVIOUS
<1>1. PICK i \in B : \A k \in B : i <= k
  <2> HIDE DEF B
  <2> QED BY Least DEF B
<1>2. CASE i = 0
  <2>1. PowRule(0, [k \in 0 .. 0 |-> 1])
    BY DEF PowRule
  <2> QED BY <1>1, <1>2, <2>1
<1>3. CASE i # 0
  <2>1. i - 1 \in Nat /\ i - 1 \notin B
    BY <1>1, <1>3
  <2>2. PICK g : PowRule(i - 1, g)
    BY <2>1
  <2> DEFINE h == [k \in 0 .. i |-> IF k = i THEN 10 * g[i - 1] ELSE g[k]]
  <2>3. PowRule(i, h)
    <3>1. \A k \in 0 .. i - 1 : g[k] = IF k = 0 THEN 1 ELSE 10 * g[k - 1]
      BY <2>2 DEF PowRule
    <3>2. \A k \in 0 .. i : h[k] = IF k = 0 THEN 1 ELSE 10 * h[k - 1]
      BY <1>3, <2>1, <3>1
    <3> QED BY <3>2 DEF PowRule
  <2> QED BY <1>1, <2>3
<1> QED BY <1>2, <1>3

LEMMA PowIs ==
  /\ \A k \in 0 .. Decimals : Pow10[k] = IF k = 0 THEN 1 ELSE 10 * Pow10[k - 1]
  /\ \A k \in 0 .. Decimals : Pow10[k] \in Nat \ {0}
<1>1. PowRule(Decimals, Pow10)
  <2>1. Pow10 = CHOOSE g : PowRule(Decimals, g)
    BY DEF Pow10, PowRule
  <2>2. \E g : PowRule(Decimals, g)
    BY PowExists, DecimalsAssumption
  <2> QED BY <2>1, <2>2
<1>2. \A k \in 0 .. Decimals : Pow10[k] = IF k = 0 THEN 1 ELSE 10 * Pow10[k - 1]
  BY <1>1 DEF PowRule
<1>3. \A k \in 0 .. Decimals : Pow10[k] \in Nat \ {0}
  <2> DEFINE B == {k \in Nat : k <= Decimals /\ Pow10[k] \notin Nat \ {0}}
  <2> SUFFICES ASSUME B # {}
               PROVE  FALSE
    BY DecimalsAssumption
  <2>1. PICK k \in B : \A i \in B : k <= i
    <3> HIDE DEF B
    <3> QED BY Least DEF B
  <2>2. k # 0 => Pow10[k - 1] \in Nat \ {0}
    BY <2>1, DecimalsAssumption
  <2> QED BY <1>2, <2>1, <2>2, DecimalsAssumption
<1> QED BY <1>2, <1>3

(* One digit more.                                                            *)
LEMMA NextDigit ==
  ASSUME NEW n \in Nat, NEW p \in Nat \ {0}
  PROVE  /\ n \div p = 10 * (n \div (10 * p)) + ((n \div p) % 10)
         /\ n \div p \in Nat /\ (n \div p) % 10 \in 0 .. 9
<1> DEFINE a == n \div p
           b == a \div 10
           c == a % 10
<1>1. a \in Nat /\ p * a <= n /\ n < p * a + p
  BY Division
<1>2. b \in Nat /\ c \in 0 .. 9 /\ a = 10 * b + c
  BY <1>1
<1>3. n \div (10 * p) = b
  <2> HIDE DEF a, b, c
  <2> DEFINE q == p * b
             d == p * c
             e == p * a
  <2>1. e = 10 * q + d /\ (10 * p) * b = 10 * q /\ (10 * p) * (b + 1) = 10 * q + 10 * p
    BY <1>1, <1>2, SMT
  <2>2. q \in Nat /\ d \in Nat /\ d <= 9 * p /\ e \in Nat
    <3>1. p * c <= p * 9
      BY <1>2, ProductMonotone
    <3> QED BY <1>1, <1>2, <3>1, ProductNat
  <2>3. e <= n /\ n < e + p
    BY <1>1
  <2> HIDE DEF q, d, e
  <2>4. 10 * q <= n /\ n < 10 * q + 10 * p
    BY <2>1, <2>2, <2>3
  <2> DEFINE t == 10 * p
             u == n \div t
  <2>0. t \in Nat \ {0}
    OBVIOUS
  <2>5. u \in Nat /\ t * u <= n /\ n < t * u + t
    <3> HIDE DEF t
    <3> QED BY <2>0, Division
  <2>6. t * b <= n /\ n < t * b + t
    BY <2>1, <2>4
  <2>7. u >= b
    <3>1. b * t <= n
      BY <1>2, <2>0, <2>5, <2>6, SMT
    <3> QED BY <1>2, <2>0, <2>5, <3>1, QuotientAtLeast
  <2> HIDE DEF t, u
  <2>8. ~ (u > b)
    <3> SUFFICES ASSUME u >= b + 1
                 PROVE  FALSE
      BY <1>2, <2>0, <2>5
    <3>1. t * (b + 1) <= t * u
      BY <1>2, <2>0, <2>5, ProductMonotone
    <3>2. t * (b + 1) = t * b + t
      BY <1>2, <2>0, <2>5, SMT
    <3>3. t * b \in Nat /\ t * u \in Nat
      BY <1>2, <2>0, <2>5, ProductNat
    <3> QED BY <2>0, <2>5, <2>6, <3>1, <3>2, <3>3
  <2> QED BY <1>2, <2>0, <2>5, <2>7, <2>8 DEF t, u
<1> HIDE DEF a, b, c
<1>4. a = 10 * (n \div (10 * p)) + c /\ a \in Nat /\ c \in 0 .. 9
  BY <1>1, <1>2, <1>3
<1> QED BY <1>4 DEF a, c

(* The digits that are cut off at the end are zeros.                          *)
LEMMA Trimmed ==
  ASSUME NEW s \in Seq(Nat)
  PROVE  /\ WithoutTrailingZeros(s) \in Seq(Nat)
         /\ Len(WithoutTrailingZeros(s)) <= Len(s)
         /\ \A i \in 1 .. Len(s) :
              s[i] = IF i <= Len(WithoutTrailingZeros(s)) THEN WithoutTrailingZeros(s)[i] ELSE 0
<1> DEFINE P == {0} \cup {i \in DOMAIN s : s[i] # 0}
           m == Max(P)
<1>1. P \subseteq 0 .. Len(s) /\ DOMAIN s = 1 .. Len(s) /\ Len(s) \in Nat
  BY LenProperties
<1>2. m \in P /\ \A i \in P : m >= i
  <2> DEFINE B == {Len(s) - i : i \in P}
  <2>1. B \in SUBSET Nat /\ B # {}
    BY <1>1
  <2>2. PICK k \in B : \A i \in B : k <= i
    <3> HIDE DEF B
    <3> QED BY <2>1, Least
  <2>3. PICK i \in P : k = Len(s) - i
    BY <2>2
  <2>4. \A j \in P : i >= j
    <3> SUFFICES ASSUME NEW j \in P
                 PROVE  i >= j
      OBVIOUS
    <3>1. Len(s) - j \in B
      OBVIOUS
    <3>2. k <= Len(s) - j
      BY <2>2, <3>1
    <3> HIDE DEF B, P
    <3> QED BY <1>1, <2>3, <3>2
  <2> HIDE DEF P
  <2> QED BY <2>3, <2>4 DEF Max
<1>3. WithoutTrailingZeros(s) = SubSeq(s, 1, m)
  BY DEF WithoutTrailingZeros
<1>4. \A i \in 1 .. Len(s) : i > m => s[i] = 0
  <2> SUFFICES ASSUME NEW i \in 1 .. Len(s), i > m, s[i] # 0
               PROVE  FALSE
    OBVIOUS
  <2>1. i \in P
    BY <1>1
  <2> HIDE DEF P, m
  <2> QED BY <1>1, <1>2, <2>1
<1>5. m \in 0 .. Len(s)
  BY <1>1, <1>2
<1> HIDE DEF P, m
<1>6. /\ SubSeq(s, 1, m) \in Seq(Nat) /\ Len(SubSeq(s, 1, m)) = m
      /\ \A i \in 1 .. m : SubSeq(s, 1, m)[i] = s[i]
  BY <1>1, <1>5
<1> QED BY <1>1, <1>3, <1>4, <1>5, <1>6

ReadRule(a, j, g) ==
  g = [i \in 0 .. j |->
         IF i = 0 THEN a.whole
         ELSE 10 * g[i - 1] + IF i <= Len(a.fraction) THEN a.fraction[i] ELSE 0]

LEMMA ReadExists ==
  ASSUME NEW a, NEW j \in Nat
  PROVE  \E g : ReadRule(a, j, g)
<1> DEFINE B == {i \in Nat : ~ \E g : ReadRule(a, i, g)}
           d(i) == IF i <= Len(a.fraction) THEN a.fraction[i] ELSE 0
<1> SUFFICES ASSUME B # {}
             PROVE  FALSE
  OBVIOUS
<1>1. PICK i \in B : \A k \in B : i <= k
  <2> HIDE DEF B
  <2> QED BY Least DEF B
<1>2. CASE i = 0
  <2>1. ReadRule(a, 0, [k \in 0 .. 0 |-> a.whole])
    BY DEF ReadRule
  <2> QED BY <1>1, <1>2, <2>1
<1>3. CASE i # 0
  <2>1. i - 1 \in Nat /\ i - 1 \notin B
    BY <1>1, <1>3
  <2>2. PICK g : ReadRule(a, i - 1, g)
    BY <2>1
  <2> DEFINE h == [k \in 0 .. i |-> IF k = i THEN 10 * g[i - 1] + d(i) ELSE g[k]]
  <2>3. ReadRule(a, i, h)
    <3>1. \A k \in 0 .. i - 1 : g[k] = IF k = 0 THEN a.whole ELSE 10 * g[k - 1] + d(k)
      BY <2>2 DEF ReadRule
    <3> HIDE DEF d
    <3>2. \A k \in 0 .. i : h[k] = IF k = 0 THEN a.whole ELSE 10 * h[k - 1] + d(k)
      BY <1>3, <2>1, <3>1
    <3>3. h = [k \in 0 .. i |-> IF k = 0 THEN a.whole ELSE 10 * h[k - 1] + d(k)]
      BY <3>2
    <3> QED BY <3>3 DEF ReadRule, d
  <2> QED BY <1>1, <2>3
<1> QED BY <1>2, <1>3

(* parseUsdcAmount() takes back every amount formatMicros() shows: after each *)
(* digit it has read the amount down to that digit.                           *)
THEOREM ReadsBack ==
  ASSUME NEW n \in Nat
  PROVE  ParseUsdcAmount(FormatMicros(n)) = n
<1> DEFINE a == FormatMicros(n)
           read == CHOOSE g : ReadRule(a, Decimals, g)
           down(i) == n \div Pow10[Decimals - i]
<1>1. Decimals \in Nat /\ 0 \in 0 .. Decimals
  BY DecimalsAssumption
<1>2. Digits(n) \in Seq(Nat) /\ Len(Digits(n)) = Decimals
  <2>1. \A i \in 1 .. Decimals : (n \div Pow10[Decimals - i]) % 10 \in Nat
    <3> SUFFICES ASSUME NEW i \in 1 .. Decimals
                 PROVE  (n \div Pow10[Decimals - i]) % 10 \in Nat
      OBVIOUS
    <3>1. Pow10[Decimals - i] \in Nat \ {0}
      BY <1>1, PowIs
    <3>2. (n \div Pow10[Decimals - i]) % 10 \in 0 .. 9
      BY <3>1, NextDigit
    <3> QED BY <3>2
  <2>2. Digits(n) = [i \in 1 .. Decimals |-> (n \div Pow10[Decimals - i]) % 10]
    BY DEF Digits
  <2> QED BY <1>1, <2>1, <2>2
<1>3. a.whole = n \div Pow10[Decimals] /\ a.fraction = WithoutTrailingZeros(Digits(n))
  BY DEF FormatMicros, Unit
<1>4. /\ Len(a.fraction) \in Nat /\ Len(a.fraction) <= Decimals
      /\ \A i \in 1 .. Decimals :
           (IF i <= Len(a.fraction) THEN a.fraction[i] ELSE 0) = down(i) % 10
  <2>1. \A i \in 1 .. Decimals : Digits(n)[i] = down(i) % 10
    BY DEF Digits
  <2> QED BY <1>2, <1>3, <2>1, Trimmed, LenProperties
<1> HIDE DEF a
<1>5. ReadRule(a, Decimals, read)
  BY <1>1, ReadExists
<1>6. ParseUsdcAmount(a) = read[Decimals]
  <2>1. ~ (Len(a.fraction) > Decimals)
    BY <1>1, <1>4
  <2> QED BY <2>1 DEF ParseUsdcAmount, ReadRule
<1> HIDE DEF read
<1>7. /\ read[0] = a.whole
      /\ \A i \in 1 .. Decimals : read[i] = 10 * read[i - 1] + (down(i) % 10)
  <2>1. \A i \in 0 .. Decimals :
          read[i] = IF i = 0 THEN a.whole
                    ELSE 10 * read[i - 1] + IF i <= Len(a.fraction) THEN a.fraction[i] ELSE 0
    BY <1>5 DEF ReadRule
  <2> HIDE DEF down
  <2>2. ASSUME NEW i \in 1 .. Decimals
        PROVE  read[i] = 10 * read[i - 1] + (down(i) % 10)
    <3>1. i \in 0 .. Decimals /\ i # 0
      BY <1>1
    <3> QED BY <1>4, <2>1, <3>1
  <2> QED BY <1>1, <2>1, <2>2
<1>8. \A i \in 0 .. Decimals : read[i] = down(i)
  <2> DEFINE B == {i \in Nat : i <= Decimals /\ read[i] # down(i)}
  <2> SUFFICES ASSUME B # {}
               PROVE  FALSE
    BY <1>1
  <2>1. PICK i \in B : \A k \in B : i <= k
    <3> HIDE DEF B
    <3> QED BY Least DEF B
  <2>2. i # 0
    BY <1>1, <1>3, <1>7, <2>1
  <2>3. i \in 1 .. Decimals /\ i - 1 \in 0 .. Decimals /\ Decimals - i \in 0 .. Decimals
        /\ Decimals - (i - 1) \in 0 .. Decimals /\ Decimals - (i - 1) # 0
        /\ (Decimals - (i - 1)) - 1 = Decimals - i
    BY <1>1, <2>1, <2>2
  <2>4. read[i - 1] = down(i - 1)
    BY <2>1, <2>3
  <2>5. Pow10[Decimals - (i - 1)] = 10 * Pow10[Decimals - i] /\ Pow10[Decimals - i] \in Nat \ {0}
    BY <2>3, PowIs
  <2>6. down(i) = 10 * down(i - 1) + (down(i) % 10)
    BY <2>5, NextDigit
  <2> HIDE DEF down
  <2>7. read[i] = down(i)
    BY <1>7, <2>3, <2>4, <2>6
  <2> QED BY <2>1, <2>7
<1>9. down(Decimals) = n
  <2>1. Decimals - Decimals = 0 /\ Pow10[0] = 1
    BY <1>1, PowIs
  <2> QED BY <2>1
<1> QED BY <1>1, <1>6, <1>8, <1>9 DEF a

(* Every quote's amount reads back the same from the decimals it is shown in. *)
THEOREM AmountsReadBackAlways == Spec => []AmountsReadBack
<1>1. QuoteInv => AmountsReadBack
  <2> SUFFICES ASSUME DeskInv, NEW i \in DOMAIN intents
               PROVE  ParseUsdcAmount(FormatMicros(intents[i].micros)) = intents[i].micros
    BY DEF QuoteInv, AmountsReadBack
  <2>1. intents[i] \in Intent
    BY LenProperties, ElementOfSeq DEF DeskInv, TypeOK
  <2>2. intents[i].micros \in Nat
    BY <2>1 DEF Intent
  <2> QED BY <2>2, ReadsBack
<1> QED BY <1>1, QuoteInvariance, PTL
==============================================================================
