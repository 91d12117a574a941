----------------------------- MODULE Formatters -----------------------------
(***************************************************************************)
(* The formatters of src/ResourceFormatter, which turn a payload into the  *)
(* text that is printed, logged and given to commands.  A payload is a     *)
(* sequence of bytes, a text a sequence of ASCII codes.  The name of a     *)
(* format is a configured text of one word.                                *)
(***************************************************************************)
EXTENDS Naturals, Sequences, SequencesExt

Byte == 0 .. 255
Backslash == 92
Pad == 61

UpperDigit(n) == IF n < 10 THEN 48 + n ELSE 55 + n
LowerDigit(n) == IF n < 10 THEN 48 + n ELSE 87 + n

IsPrint(b) == b \in 32 .. 126

\* ResourceFormatterText
TextOf(data) ==
  FlattenSeq([i \in DOMAIN data |->
    IF IsPrint(data[i]) THEN <<data[i]>>
    ELSE <<Backslash, 120, LowerDigit(data[i] \div 16), LowerDigit(data[i] % 16)>>])

\* ResourceFormatterHex
HexOf(data) ==
  [k \in 1 .. 2 * Len(data) |->
     LET b == data[(k + 1) \div 2]
     IN  UpperDigit(IF k % 2 = 1 THEN b \div 16 ELSE b % 16)]

\* _base64_chars
Base64Char(n) ==
  CASE n < 26 -> 65 + n
    [] n \in 26 .. 51 -> 71 + n
    [] n \in 52 .. 61 -> n - 4
    [] n = 62 -> 43
    [] n = 63 -> 47

\* A mistake a change could make: the mask 0x3C is one bit short.
SextetMaskedShort(buff, s) ==
  CASE s = 1 -> buff[1] \div 4
    [] s = 2 -> (buff[1] % 4) * 16 + buff[2] \div 16
    [] s = 3 -> (buff[2] % 8) * 4 + buff[3] \div 64
    [] s = 4 -> buff[3] % 64

\* The four indices into it for three bytes; shifts and masks as \div and %.
Sextet(buff, s) ==
  CASE s = 1 -> buff[1] \div 4
    [] s = 2 -> (buff[1] % 4) * 16 + buff[2] \div 16
    [] s = 3 -> (buff[2] % 16) * 4 + buff[3] \div 64
    [] s = 4 -> buff[3] % 64

\* ResourceFormatterBase64
Base64Of(data) ==
  [k \in 1 .. 4 * ((Len(data) + 2) \div 3) |->
     LET i == 3 * ((k - 1) \div 4)
         s == 1 + ((k - 1) % 4)
         left == Len(data) - i
         buff == [j \in 1 .. 3 |-> IF j <= left THEN data[i + j] ELSE 0]
     IN  IF s <= left + 1 THEN Base64Char(Sextet(buff, s)) ELSE Pad]

\* createResourceFormatter() throws for any other name.
KnownFormats == {<<"STRING">>, <<"HEX">>, <<"BASE64">>}

Decode(format, data) ==
  CASE format = <<"STRING">> -> TextOf(data)
    [] format = <<"HEX">> -> HexOf(data)
    [] format = <<"BASE64">> -> Base64Of(data)

----------------------------------------------------------------------------
(* What a text denotes, by the definitions of the notations. *)

\* A byte that is not printed is written \xhh; a backslash of the payload
\* itself is not marked, so payloads with one have no unique text.
BytesOfText(text) ==
  LET Digit(c) == CHOOSE n \in 0 .. 15 : LowerDigit(n) = c
  IN  FlattenSeq([i \in DOMAIN text |->
        IF text[i] = Backslash THEN <<16 * Digit(text[i + 2]) + Digit(text[i + 3])>>
        ELSE IF \E j \in DOMAIN text : text[j] = Backslash /\ i \in j .. j + 3 THEN << >>
        ELSE <<text[i]>>])

BytesOfHex(text) ==
  LET Digit(c) == CHOOSE n \in 0 .. 15 : UpperDigit(n) = c
  IN  [i \in 1 .. Len(text) \div 2 |-> 16 * Digit(text[2 * i - 1]) + Digit(text[2 * i])]

\* RFC 4648, section 4: the 24 bits of four characters are three bytes.
Base64Value(c) == IF c = Pad THEN 0 ELSE CHOOSE n \in 0 .. 63 : Base64Char(n) = c

Base64Bits(text, q) ==
  ((Base64Value(text[4*q + 1]) * 64 + Base64Value(text[4*q + 2])) * 64
     + Base64Value(text[4*q + 3])) * 64 + Base64Value(text[4*q + 4])

BytesOfBase64(text) ==
  [i \in 1 .. 3 * (Len(text) \div 4) - Cardinality({k \in DOMAIN text : text[k] = Pad}) |->
     LET n == Base64Bits(text, (i - 1) \div 3)
     IN  IF i % 3 = 1 THEN n \div 65536 ELSE IF i % 3 = 2 THEN (n \div 256) % 256
         ELSE n % 256]

Denotes(format, text, data) ==
  CASE format = <<"STRING">> -> Backslash \in ToSet(data) \/ BytesOfText(text) = data
    [] format = <<"HEX">> -> BytesOfHex(text) = data
    [] format = <<"BASE64">> -> BytesOfBase64(text) = data
=============================================================================
