------------------------------ MODULE MCScanPage ------------------------------
(* The scan page for TLC: two printed codes, and copies of them damaged,      *)
(* truncated, or sealed with a field too few or too many.                     *)
EXTENDS ScanPage, TLC

F(id, value) == [id |-> id, value |-> value]

(* One block with the PAN, the national one with the merchant's id.           *)
StaticFields ==
  << F(0, <<Version1>>), F(1, <<Static>>),
     F(26, Encode(<<F(0, <<210>>), F(1, <<7, 8>>)>>)),
     F(51, Encode(<<F(0, <<National>>), F(2, <<9>>)>>)),
     F(52, <<54>>), F(53, <<Idr>>), F(58, <<Indonesia>>), F(59, <<101>>), F(60, <<>>) >>

DynamicFields ==
  << F(0, <<Version1>>), F(1, <<Dynamic>>), F(26, Encode(<<F(1, <<7>>), F(2, <<3>>)>>)),
     F(52, <<54>>), F(53, <<Idr>>), F(54, <<15>>), F(58, <<Indonesia>>), F(59, <<102>>), F(60, <<103>>) >>

StaticCode  == Sealed(StaticFields)
DynamicCode == Sealed(DynamicFields)
Printed     == {StaticCode, DynamicCode}

(* Codes that were misread, cut off, or sealed with a field too few or many.  *)
Damaged(c)   == {[c EXCEPT ![i] = (@ + 1) % 256] : i \in DOMAIN c}
Truncated(c) == {SubSeq(c, 1, n) : n \in 1 .. Len(c) - 1}
Misprinted(fields) ==
  {Sealed(RemoveAt(fields, i)) : i \in DOMAIN fields}
    \cup {Sealed(InsertAt(fields, i, fields[i])) : i \in DOMAIN fields}
    \cup {Sealed(Append(fields, F(54, <<200>>)))}
OddCodes ==
  Misprinted(StaticFields) \cup Damaged(StaticCode) \cup Truncated(StaticCode)
    \cup Misprinted(DynamicFields) \cup Damaged(DynamicCode) \cup Truncated(DynamicCode)

AllCodes == Printed \cup OddCodes

(* The check value of src/qris/parse.test.ts, and what is read off the codes. *)
ASSUME ReadingAssumption ==
  /\ Crc16([i \in 1 .. 9 |-> 48 + i]) = 10673
  /\ ParseQris(StaticCode).merchant = [ok |-> TRUE, pan |-> <<7, 8>>, id |-> <<9>>]
  /\ ParseQris(DynamicCode).merchant = [ok |-> TRUE, pan |-> <<7>>, id |-> <<3>>]
  /\ ParseQris(DynamicCode).amount = 15
==============================================================================
