------------------------------- MODULE QrisParse ------------------------------
(* parseQris() of src/qris/parse.ts.  A payload is a sequence of symbols: the *)
(* id of a field, its length and its value, symbol by symbol, where a symbol  *)
(* stands for the two digits of an id or a length, or for a piece of text.    *)
EXTENDS Integers, Sequences, SequencesExt

(* What symbols mean; anything above 99 is not made of digits.                *)
TwoDigits == 0 .. 99
Symbol == 0 .. 255
Word == 0 .. 256 * 256 - 1    \* the checksum, one symbol as well
Version1 == 1   Static == 11   Dynamic == 12   Idr == 36   Indonesia == 201   National == 202

Refused == [ok |-> FALSE]

------------------------------------------------------------------------------
(* Slip: a value may be shorter than its length says.                         *)
ParseTLVsShort(s) ==
  LET end == Len(s) + 1
      walk[i \in 1 .. end] ==
        IF i = end THEN [ok |-> TRUE, fields |-> <<>>]
        ELSE IF i + 1 > Len(s) \/ ~ {s[i], s[i + 1]} \subseteq TwoDigits THEN Refused
        ELSE LET next == IF i + 2 + s[i + 1] > end THEN end ELSE i + 2 + s[i + 1]
                 rest == walk[next]
             IN IF ~ rest.ok THEN Refused
                ELSE [ok |-> TRUE, fields |->
                        <<[id |-> s[i], value |-> SubSeq(s, i + 2, next - 1)]>> \o rest.fields]
  IN walk[1]

(* The fields of a payload or of a block, or Refused: a truncated or bad      *)
(* header, or a field that overruns the payload.                              *)
ParseTLVs(s) ==
  LET end == Len(s) + 1
      walk[i \in 1 .. end] ==
        IF i = end THEN [ok |-> TRUE, fields |-> <<>>]
        ELSE IF \/ i + 1 > Len(s) \/ ~ {s[i], s[i + 1]} \subseteq TwoDigits
                \/ i + 2 + s[i + 1] > end THEN Refused
        ELSE LET rest == walk[i + 2 + s[i + 1]] IN
             IF ~ rest.ok THEN Refused
             ELSE [ok |-> TRUE, fields |->
                     <<[id |-> s[i], value |-> SubSeq(s, i + 2, i + 1 + s[i + 1])]>> \o rest.fields]
  IN walk[1]

(* The exclusive or of two words, half by half.                               *)
Xor2(a, b)  == ((a + b) % 2) + 2 * ((a \div 2 + b \div 2) % 2)
Xor4(a, b)  == Xor2(a % 4, b % 4) + 4 * Xor2(a \div 4, b \div 4)
Xor8(a, b)  == Xor4(a % 16, b % 16) + 16 * Xor4(a \div 16, b \div 16)
Xor16(a, b) == Xor8(a % 256, b % 256) + 256 * Xor8(a \div 256, b \div 256)

(* CRC-16/CCITT-FALSE: one shift of the inner loop, 0x1021 added when a one   *)
(* is shifted out, all eight shifts, and the loop over the symbols.           *)
Polynomial == 16 * 256 + 33
Shift(crc) == IF crc >= 128 * 256 THEN Xor16(2 * crc - 256 * 256, Polynomial) ELSE 2 * crc
Shifts(crc) == LET shift[c \in Word] == Shift(c)
               IN shift[shift[shift[shift[shift[shift[shift[shift[crc]]]]]]]]
Taking(symbol) == [crc \in Word |-> Shifts(Xor16(crc, 256 * symbol))]

Crc16(s) ==
  LET after[i \in 0 .. Len(s)] == IF i = 0 THEN 256 * 256 - 1 ELSE Taking(s[i])[after[i - 1]]
  IN after[Len(s)]

WithId(fields, id) == SelectSeq(fields, LAMBDA f : f.id = id)
Has(fields, id)    == WithId(fields, id) # <<>>
First(fields, id)  == WithId(fields, id)[1].value
Once(fields, id)   == Len(WithId(fields, id)) = 1

(* Fields that must be there once with one of these values.                   *)
OnceOf(fields, id, values) == Once(fields, id) /\ First(fields, id) \in {<<v>> : v \in values}

(* Slip: the checksum is not verified.                                        *)
ChecksumPresent(payload, fields) == Last(fields).id = 63 /\ Len(Last(fields).value) = 1

(* The payload ends with its checksum, one symbol here.                       *)
Checksum(payload, fields) ==
  /\ Last(fields).id = 63 /\ Len(Last(fields).value) = 1
  /\ Last(payload) = Crc16(Front(payload))

(* The merchant account blocks, parsed: the PAN is the first one found, the   *)
(* merchant's id preferably the one of the national block.                    *)
Merchant(fields) ==
  LET mine     == SelectSeq(fields, LAMBDA f : f.id \in 2 .. 51)
      blocks   == [i \in DOMAIN mine |-> ParseTLVs(mine[i].value)]
      withPan  == SelectSeq(blocks, LAMBDA b : Has(b.fields, 1))
      national == SelectSeq(blocks, LAMBDA b :
                    /\ Has(b.fields, 0) /\ First(b.fields, 0) # <<>> /\ First(b.fields, 0)[1] = National
                    /\ Has(b.fields, 2) /\ First(b.fields, 2) # <<>>)
      idOf(b)  == IF Has(b.fields, 2) THEN First(b.fields, 2) ELSE <<>>
  IN IF \E i \in DOMAIN blocks : ~ blocks[i].ok THEN Refused
     ELSE IF withPan = <<>> THEN Refused
     ELSE IF First(withPan[1].fields, 1) = <<>> THEN Refused
     ELSE [ok |-> TRUE, pan |-> First(withPan[1].fields, 1),
           id |-> idOf(IF national # <<>> THEN national[1] ELSE withPan[1])]

(* The amount is whole rupiah; a static code carries none, a dynamic one must. *)
AmountOk(fields) ==
  IF First(fields, 1) = <<Static>> THEN ~ Has(fields, 54)
  ELSE Has(fields, 54) /\ First(fields, 54) \in {<<n>> : n \in TwoDigits}

ParseQris(payload) ==
  LET root == ParseTLVs(payload)
      fields == root.fields
  IN IF payload = <<>> \/ ~ root.ok THEN Refused
     ELSE IF /\ OnceOf(fields, 0, {Version1}) /\ OnceOf(fields, 1, {Static, Dynamic})
             /\ Checksum(payload, fields) /\ Merchant(fields).ok
             /\ Once(fields, 52) /\ OnceOf(fields, 53, {Idr}) /\ OnceOf(fields, 58, {Indonesia})
             /\ Once(fields, 59) /\ Once(fields, 60) /\ AmountOk(fields)
     THEN [ok |-> TRUE, name |-> First(fields, 59), merchant |-> Merchant(fields),
           amount |-> IF Has(fields, 54) THEN First(fields, 54)[1] ELSE 0,
           next |-> IF First(fields, 1) = <<Dynamic>> THEN "confirm" ELSE "enter-amount"]
     ELSE Refused

------------------------------------------------------------------------------
(* The reference: what a payload of these fields looks like.                  *)
Encode(fields) ==
  LET end == Len(fields) + 1
      from[i \in 1 .. end] ==
        IF i = end THEN <<>>
        ELSE <<fields[i].id, Len(fields[i].value)>> \o fields[i].value \o from[i + 1]
  IN from[1]
Sealed(fields) == LET body == Encode(fields) \o <<63, 1>> IN Append(body, Crc16(body))
==============================================================================
