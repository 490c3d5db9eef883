---------------------------- MODULE QuoteMathProofs ---------------------------
(* The arithmetic behind "crypto rounds UP so drift inside the window is      *)
(* survivable" (quote.ts), for every amount, rate, spread and scale.          *)
EXTENDS QuoteMath, TLAPS

(* Euclid's division, as the provers know it.                                 *)
LEMMA Division ==
  ASSUME NEW a \in Nat, NEW b \in Nat \ {0}
  PROVE  /\ a \div b \in Nat
         /\ b * (a \div b) <= a
         /\ a < b * (a \div b) + b
BY SMT

LEMMA ProductNat ==
  ASSUME NEW a \in Nat, NEW b \in Nat PROVE a * b \in Nat
BY SMT

LEMMA ProductMonotone ==
  ASSUME NEW a \in Nat, NEW b \in Nat, NEW c \in Nat, NEW d \in Nat, a <= c, b <= d
  PROVE  a * b <= c * d
<1>1. a * b <= c * b BY SMT
<1>2. c * b <= c * d BY SMT
<1>3. a * b \in Nat /\ c * b \in Nat /\ c * d \in Nat BY ProductNat
<1> QED BY <1>1, <1>2, <1>3

(* A number that holds q times b is at least q when divided by b.             *)
LEMMA QuotientAtLeast ==
  ASSUME NEW a \in Nat, NEW b \in Nat \ {0}, NEW q \in Nat, q * b <= a
  PROVE  a \div b >= q
<1> DEFINE d == a \div b
<1>1. d \in Nat /\ a < b * d + b BY Division
<1>2. SUFFICES ASSUME d < q PROVE FALSE BY <1>1
<1>3. d + 1 <= q BY <1>1, <1>2
<1> HIDE DEF d
<1>4. (d + 1) * b <= q * b BY <1>1, <1>3, ProductMonotone
<1>5. (d + 1) * b = b * d + b BY <1>1, SMT
<1>6. b * d \in Nat /\ q * b \in Nat BY <1>1, ProductNat
<1> QED BY <1>1, <1>4, <1>5, <1>6

(* Rounding up: enough, and not one more than enough.                         *)
LEMMA Ceiling ==
  ASSUME NEW a \in Nat, NEW b \in Nat \ {0}
  PROVE  /\ CeilDiv(a, b) \in Nat
         /\ a <= CeilDiv(a, b) * b
         /\ CeilDiv(a, b) > 0 => (CeilDiv(a, b) - 1) * b < a
<1> DEFINE n == a + b - 1
           c == n \div b
<1>1. n \in Nat OBVIOUS
<1>2. c \in Nat /\ b * c <= n /\ n < b * c + b BY <1>1, Division
<1>3. CeilDiv(a, b) = c BY DEF CeilDiv
<1> HIDE DEF c
<1>4. b * c = c * b /\ c * b \in Nat BY <1>2, SMT
<1>5. a <= c * b BY <1>2, <1>4
<1>6. (c - 1) * b = c * b - b BY <1>2, SMT
<1>7. (c - 1) * b < a BY <1>2, <1>4, <1>6
<1> QED BY <1>2, <1>3, <1>5, <1>7

LEMMA Scale == Micro * Micro \in Nat \ {0}
BY QuoteMathAssumption, SMT

(* A total is a natural number.                                               *)
LEMMA TotalType ==
  ASSUME NEW fiat \in Nat, NEW rate \in Nat, rate > 0
  PROVE  Total(fiat, rate) \in Nat
<1>1. fiat * Micro * Micro \in Nat BY QuoteMathAssumption, ProductNat
<1>2. CeilDiv(fiat * Micro * Micro, rate) \in Nat BY <1>1, Ceiling
<1> QED BY <1>2, QuoteMathAssumption DEF Total, CryptoFor

LEMMA ProceedsType ==
  ASSUME NEW micros \in Nat, NEW rate \in Nat
  PROVE  Proceeds(micros, rate) \in Nat
<1>1. micros * rate \in Nat BY ProductNat
<1> QED BY <1>1, Scale, Division DEF Proceeds

(* createQuote() sells exactly enough: at the quoted rate the crypto of a     *)
(* quote brings at least the fiat amount, and one micro less would not have   *)
(* been worth it.                                                             *)
THEOREM QuoteIsEnough ==
  ASSUME NEW fiat \in Nat, NEW rate \in Nat \ {0}
  PROVE  Enough(fiat, CryptoFor(fiat, rate), rate)
<1> DEFINE need == fiat * (Micro * Micro)
           c == CryptoFor(fiat, rate)
<1>1. need \in Nat BY Scale, ProductNat
<1>2. fiat * Micro * Micro = need BY QuoteMathAssumption, SMT
<1>3. c = CeilDiv(need, rate) BY <1>2 DEF CryptoFor
<1>4. /\ c \in Nat /\ need <= c * rate
      /\ c > 0 => (c - 1) * rate < need
  BY <1>1, <1>3, Ceiling
<1> HIDE DEF c
<1>5. c * rate \in Nat BY <1>4, ProductNat
<1>6. (c * rate) \div (Micro * Micro) >= fiat BY <1>4, <1>5, Scale, QuotientAtLeast
<1> QED BY <1>2, <1>4, <1>6 DEF Enough, Proceeds, c

(* The rate may drift, between the quote and the sale, down to the quoted one *)
(* and the crypto with its fee still brings the fiat amount: a shortfall      *)
(* (runConversionLeg(), PARTIAL) means that the market fell by more than the  *)
(* spread.                                                                    *)
THEOREM DriftIsSurvived ==
  ASSUME NEW fiat \in Nat, NEW rate \in Nat \ {0}, NEW executed \in Nat, rate <= executed
  PROVE  Proceeds(Total(fiat, rate), executed) >= fiat
<1> DEFINE need == fiat * (Micro * Micro)
           c == CryptoFor(fiat, rate)
<1>1. need \in Nat BY Scale, ProductNat
<1>2. fiat * Micro * Micro = need BY QuoteMathAssumption, SMT
<1>3. c = CeilDiv(need, rate) BY <1>2 DEF CryptoFor
<1>4. c \in Nat /\ need <= c * rate BY <1>1, <1>3, Ceiling
<1>5. Total(fiat, rate) = c + FeeMicros BY DEF Total
<1> HIDE DEF c
<1>6. c + FeeMicros \in Nat /\ c <= c + FeeMicros BY <1>4, QuoteMathAssumption
<1>7. c * rate <= (c + FeeMicros) * executed BY <1>4, <1>6, ProductMonotone
<1>8. (c + FeeMicros) * executed \in Nat /\ c * rate \in Nat BY <1>4, <1>6, ProductNat
<1>9. need <= (c + FeeMicros) * executed BY <1>1, <1>4, <1>7, <1>8
<1>10. ((c + FeeMicros) * executed) \div (Micro * Micro) >= fiat
  BY <1>8, <1>9, Scale, QuotientAtLeast
<1> QED BY <1>5, <1>10 DEF Proceeds

(* The spread never turns against the engine: the quoted rate is at most the  *)
(* reference rate.                                                            *)
THEOREM SpreadNeverNegative ==
  ASSUME NEW ref \in Nat
  PROVE  QuotedRate(ref) \in Nat /\ QuotedRate(ref) <= ref
<1> DEFINE k == FullBps - SpreadBps
           q == (ref * k) \div FullBps
<1>1. k \in Nat /\ k <= FullBps BY QuoteMathAssumption
<1>2. FullBps \in Nat \ {0} BY QuoteMathAssumption
<1> HIDE DEF k
<1>3. ref * k \in Nat BY <1>1, ProductNat
<1>4. q \in Nat /\ FullBps * q <= ref * k BY <1>2, <1>3, Division
<1> HIDE DEF q
<1>5. ref * k <= ref * FullBps BY <1>1, <1>2, ProductMonotone
<1>6. FullBps * q <= ref * FullBps
  BY <1>2, <1>3, <1>4, <1>5, ProductNat
<1>7. SUFFICES ASSUME ref < q PROVE FALSE BY <1>4 DEF QuotedRate, q, k
<1>8. (ref + 1) * FullBps <= q * FullBps BY <1>2, <1>4, <1>7, ProductMonotone
<1>9. (ref + 1) * FullBps = ref * FullBps + FullBps BY <1>2, SMT
<1>10. q * FullBps = FullBps * q /\ ref * FullBps \in Nat /\ q * FullBps \in Nat
  BY <1>2, <1>4, SMT
<1> QED BY <1>2, <1>6, <1>8, <1>9, <1>10
==============================================================================
