------------------------------ MODULE UsdcAmount ------------------------------
(* USDC amounts as they are shown and typed: formatMicros() of                *)
(* src/engine/quote.ts and parseUsdcAmount() of src/wallet/usdc.ts.  A        *)
(* decimal is its whole part and the digits after the point.                  *)
EXTENDS Naturals, Sequences, FiniteSetsExt

CONSTANT Decimals       \* 6 in the code

ASSUME DecimalsAssumption == Decimals \in Nat

Invalid == "invalid amount"
Pow10[k \in 0 .. Decimals] == IF k = 0 THEN 1 ELSE 10 * Pow10[k - 1]
Unit == Pow10[Decimals]

(* The fraction, padded to all its digits: the last digits of the amount.     *)
Digits(n) == [i \in 1 .. Decimals |-> (n \div Pow10[Decimals - i]) % 10]

WithoutTrailingZeros(s) ==
  SubSeq(s, 1, Max({0} \cup {i \in DOMAIN s : s[i] # 0}))

(* Slip: the fraction is not padded with zeros on its left.                   *)
FormatUnpadded(micros) ==
  LET s == Digits(micros)
      first == Min({Decimals + 1} \cup {i \in DOMAIN s : s[i] # 0})
  IN [whole |-> micros \div Unit, fraction |-> WithoutTrailingZeros(SubSeq(s, first, Decimals))]

FormatMicros(micros) ==
  [whole |-> micros \div Unit, fraction |-> WithoutTrailingZeros(Digits(micros))]

(* More digits than USDC has are refused, fewer are padded on the right.      *)
ParseUsdcAmount(a) ==
  LET read[i \in 0 .. Decimals] ==
        IF i = 0 THEN a.whole
        ELSE 10 * read[i - 1] + IF i <= Len(a.fraction) THEN a.fraction[i] ELSE 0
  IN IF Len(a.fraction) > Decimals THEN Invalid ELSE read[Decimals]
==============================================================================
