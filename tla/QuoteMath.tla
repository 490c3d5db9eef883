------------------------------ MODULE QuoteMath -------------------------------
(* The money arithmetic of src/engine/quote.ts, in integers as in the code:   *)
(* rupiah are indivisible, USDC is counted in micros and a rate is rupiah per *)
(* USDC times Micro.  The code's 10^6 and 10_000 are parameters.              *)
EXTENDS Integers

CONSTANTS
  Micro,       \* 10^6: micros in a USDC, and the scale of a rate
  FullBps,     \* 10_000 basis points
  SpreadBps,   \* engineConfig.spreadBps
  FeeMicros    \* engineConfig.feeUsdcMicros

ASSUME QuoteMathAssumption ==
  /\ Micro \in Nat \ {0} /\ FullBps \in Nat \ {0}
  /\ SpreadBps \in 0 .. FullBps /\ FeeMicros \in Nat

CeilDiv(a, b) == (a + b - 1) \div b

(* The rate the customer gets: the reference rate less the spread, floored.   *)
QuotedRate(ref) == (ref * (FullBps - SpreadBps)) \div FullBps

(* Slip: the crypto is rounded down.                                          *)
CryptoForFloor(fiat, rate) == (fiat * Micro * Micro) \div rate

(* The crypto to sell for fiat at a rate, rounded up.                         *)
CryptoFor(fiat, rate) == CeilDiv(fiat * Micro * Micro, rate)

Total(fiat, rate) == CryptoFor(fiat, rate) + FeeMicros

(* What selling micros at a rate brings, floored: the mock off-ramp.          *)
Proceeds(micros, rate) == (micros * rate) \div (Micro * Micro)

(* A quoted amount of crypto is enough at the quoted rate, and no micro more  *)
(* than enough.                                                               *)
Enough(fiat, micros, rate) ==
  /\ Proceeds(micros, rate) >= fiat
  /\ micros > 0 => (micros - 1) * rate < fiat * Micro * Micro
==============================================================================
