--------------------------- MODULE Startup_proofs ---------------------------
(***************************************************************************)
(* Theorems about the formatters, for every payload, about references in   *)
(* texts, for every text, and about Startup, for any command lines,        *)
(* documents and payloads.                                                 *)
(*                                                                         *)
(* Hexadecimal and Base64: the position in the text is the position of a   *)
(* group and a place within it; what is left is arithmetic on the bytes of *)
(* one group.  Text: one byte more appends one piece to the text, which    *)
(* denotes that byte and leaves what the others denote.  References: the   *)
(* loop is at a position that begins a run of "$" or follows a reference,  *)
(* with the denotation of what is before; the furthest such position is    *)
(* the end, or an error.  FlattenSeq and the loop are recursive functions, *)
(* of which a shortest counterexample is considered.                       *)
(*                                                                         *)
(* Startup: what main() has come to (phase) tells what it has read and     *)
(* expanded, in terms of the document alone (ReadInv); that each pattern   *)
(* is a resource of the document (PatternsInv) and each dynamic resource   *)
(* is made of one (MadeInv) then gives its texts.                          *)
(***************************************************************************)
EXTENDS Startup, FiniteSetTheorems, SequenceTheorems, WellFoundedInduction, TLAPS

LEMMA UpperDigitOf ==
  ASSUME NEW n \in 0 .. 15
  PROVE  (CHOOSE m \in 0 .. 15 : UpperDigit(m) = UpperDigit(n)) = n
BY DEF UpperDigit

LEMMA Halves ==
  ASSUME NEW b \in Byte
  PROVE  /\ b \div 16 \in 0 .. 15 /\ b % 16 \in 0 .. 15
         /\ 16 * (b \div 16) + (b % 16) = b
BY DEF Byte

\* The text of ResourceFormatterHex::decode() has two digits for each byte,
\* from which the byte can be read.
THEOREM HexDenotes ==
  ASSUME NEW data \in Seq(Byte)
  PROVE  BytesOfHex(HexOf(data)) = data
<1> DEFINE text == HexOf(data)
           Digit(c) == CHOOSE n \in 0 .. 15 : UpperDigit(n) = c
<1>0. \A n \in 0 .. 15 : Digit(UpperDigit(n)) = n
  BY UpperDigitOf
<1>1. Len(data) \in Nat /\ \A i \in 1 .. Len(data) : data[i] \in Byte
  OBVIOUS
<1>2. Len(text) = 2 * Len(data) /\ Len(text) \div 2 = Len(data)
  BY <1>1 DEF HexOf
<1>3. ASSUME NEW i \in 1 .. Len(data)
      PROVE  16 * Digit(text[2 * i - 1]) + Digit(text[2 * i]) = data[i]
  <2>1. /\ text[2 * i - 1] = UpperDigit(data[i] \div 16)
        /\ text[2 * i] = UpperDigit(data[i] % 16)
    <3>1. /\ 2 * i - 1 \in 1 .. 2 * Len(data) /\ 2 * i \in 1 .. 2 * Len(data)
          /\ ((2 * i - 1) + 1) \div 2 = i /\ (2 * i + 1) \div 2 = i
          /\ (2 * i - 1) % 2 = 1 /\ (2 * i) % 2 = 0
      BY <1>1
    <3> QED
      BY <3>1 DEF HexOf
  <2>2. /\ data[i] \div 16 \in 0 .. 15 /\ data[i] % 16 \in 0 .. 15
        /\ 16 * (data[i] \div 16) + (data[i] % 16) = data[i]
    BY <1>1, Halves
  <2> QED
    <3> HIDE DEF Digit, text
    <3> QED
      BY <1>0, <2>1, <2>2
<1>4. BytesOfHex(text) =
        [i \in 1 .. Len(data) |-> 16 * Digit(text[2 * i - 1]) + Digit(text[2 * i])]
  BY <1>2 DEF BytesOfHex
<1> QED
  BY <1>1, <1>3, <1>4

----------------------------------------------------------------------------

LEMMA Base64CharOf ==
  ASSUME NEW n \in 0 .. 63
  PROVE  Base64Value(Base64Char(n)) = n /\ Base64Char(n) # Pad
<1>1. \A m \in 0 .. 63 :
        Base64Char(m) =
          IF m < 26 THEN 65 + m ELSE IF m < 52 THEN 71 + m
          ELSE IF m < 62 THEN m - 4 ELSE IF m = 62 THEN 43 ELSE 47
  BY DEF Base64Char
<1>2. \A m \in 0 .. 63 : Base64Char(m) = Base64Char(n) => m = n
  BY <1>1
<1>3. (CHOOSE m \in 0 .. 63 : Base64Char(m) = Base64Char(n)) = n
  BY <1>2
<1>4. Base64Char(n) # Pad
  BY <1>1 DEF Pad
<1> QED
  BY <1>3, <1>4 DEF Base64Value

LEMMA PadValue == Base64Value(Pad) = 0
BY DEF Base64Value

LEMMA GroupBits ==
  ASSUME NEW a \in Byte, NEW b \in Byte, NEW c \in Byte
  PROVE  /\ a \div 4 \in 0 .. 63
         /\ (a % 4) * 16 + b \div 16 \in 0 .. 63
         /\ (b % 16) * 4 + c \div 64 \in 0 .. 63
         /\ c % 64 \in 0 .. 63
         /\ (((a \div 4) * 64 + ((a % 4) * 16 + b \div 16)) * 64
               + ((b % 16) * 4 + c \div 64)) * 64 + (c % 64)
              = 65536 * a + 256 * b + c
BY DEF Byte

LEMMA GroupBytes ==
  ASSUME NEW a \in Byte, NEW b \in Byte, NEW c \in Byte
  PROVE  LET n == 65536 * a + 256 * b + c
         IN  n \div 65536 = a /\ (n \div 256) % 256 = b /\ n % 256 = c
BY DEF Byte

\* The four characters of three bytes of which left are in the payload.
GroupChar3(b, c, left) ==
  IF left < 2 THEN Pad ELSE Base64Char((b % 16) * 4 + c \div 64)
GroupChar4(c, left) == IF left < 3 THEN Pad ELSE Base64Char(c % 64)
GroupValue(a, b, c, left) ==
  ((Base64Value(Base64Char(a \div 4)) * 64
      + Base64Value(Base64Char((a % 4) * 16 + b \div 16))) * 64
      + Base64Value(GroupChar3(b, c, left))) * 64 + Base64Value(GroupChar4(c, left))

LEMMA GroupOf ==
  ASSUME NEW a \in Byte, NEW b \in Byte, NEW c \in Byte, NEW left \in Nat \ {0},
         left < 2 => b = 0, left < 3 => c = 0
  PROVE  /\ GroupValue(a, b, c, left) = 65536 * a + 256 * b + c
         /\ Base64Char(a \div 4) # Pad
         /\ Base64Char((a % 4) * 16 + b \div 16) # Pad
         /\ (GroupChar3(b, c, left) = Pad) <=> (left < 2)
         /\ (GroupChar4(c, left) = Pad) <=> (left < 3)
<1> DEFINE t1 == Base64Char(a \div 4)
           t2 == Base64Char((a % 4) * 16 + b \div 16)
           t3 == GroupChar3(b, c, left)
           t4 == GroupChar4(c, left)
           s1 == a \div 4
           s2 == (a % 4) * 16 + b \div 16
           s3 == (b % 16) * 4 + c \div 64
           s4 == c % 64
<1>1. /\ s1 \in 0 .. 63 /\ s2 \in 0 .. 63 /\ s3 \in 0 .. 63 /\ s4 \in 0 .. 63
      /\ ((s1 * 64 + s2) * 64 + s3) * 64 + s4 = 65536 * a + 256 * b + c
  BY GroupBits
<1>2. (left < 2 => s3 = 0) /\ (left < 3 => s4 = 0) /\ (left < 2 => left < 3)
  BY DEF Byte
<1> HIDE DEF s1, s2, s3, s4
<1>3. Base64Value(t1) = s1 /\ t1 # Pad /\ Base64Value(t2) = s2 /\ t2 # Pad
  BY <1>1, Base64CharOf DEF s1, s2
<1>4. Base64Value(t3) = s3 /\ ((t3 = Pad) <=> (left < 2))
  <2>1. CASE left < 2
    BY <1>2, <2>1, PadValue DEF GroupChar3
  <2>2. CASE ~(left < 2)
    BY <1>1, <2>2, Base64CharOf DEF s3, GroupChar3
  <2> QED
    BY <2>1, <2>2
<1>5. Base64Value(t4) = s4 /\ ((t4 = Pad) <=> (left < 3))
  <2>1. CASE left < 3
    BY <1>2, <2>1, PadValue DEF GroupChar4
  <2>2. CASE ~(left < 3)
    BY <1>1, <2>2, Base64CharOf DEF s4, GroupChar4
  <2> QED
    BY <2>1, <2>2
<1> QED
  BY <1>1, <1>3, <1>4, <1>5 DEF GroupValue

\* The characters of the group q.
LEMMA TextOfGroup ==
  ASSUME NEW data \in Seq(Byte), NEW q \in Nat, 3 * q < Len(data)
  PROVE  LET left == Len(data) - 3 * q
             a == data[3 * q + 1]
             b == IF left < 2 THEN 0 ELSE data[3 * q + 2]
             c == IF left < 3 THEN 0 ELSE data[3 * q + 3]
             text == Base64Of(data)
         IN  /\ text[4 * q + 1] = Base64Char(a \div 4)
             /\ text[4 * q + 2] = Base64Char((a % 4) * 16 + b \div 16)
             /\ text[4 * q + 3] = GroupChar3(b, c, left)
             /\ text[4 * q + 4] = GroupChar4(c, left)
<1> DEFINE n == Len(data)
           left == n - 3 * q
           a == data[3 * q + 1]
           b == IF left < 2 THEN 0 ELSE data[3 * q + 2]
           c == IF left < 3 THEN 0 ELSE data[3 * q + 3]
           buff == [j \in 1 .. 3 |-> IF j <= left THEN data[3 * q + j] ELSE 0]
<1>1. n \in Nat /\ left \in Nat \ {0}
  OBVIOUS
<1>2. buff[1] = a /\ buff[2] = b /\ buff[3] = c
  BY <1>1
<1>3. /\ Sextet(buff, 1) = a \div 4
      /\ Sextet(buff, 2) = (a % 4) * 16 + b \div 16
      /\ Sextet(buff, 3) = (b % 16) * 4 + c \div 64
      /\ Sextet(buff, 4) = c % 64
  <2> HIDE DEF buff, a, b, c
  <2> QED
    BY <1>2 DEF Sextet
<1>4. ASSUME NEW s \in 1 .. 4
      PROVE  Base64Of(data)[4 * q + s] =
               IF s <= left + 1 THEN Base64Char(Sextet(buff, s)) ELSE Pad
  <2>1. /\ 4 * q + s \in 1 .. 4 * ((n + 2) \div 3)
        /\ 3 * (((4 * q + s) - 1) \div 4) = 3 * q
        /\ 1 + (((4 * q + s) - 1) % 4) = s
    BY <1>1
  <2> QED
    BY <2>1 DEF Base64Of
<1> HIDE DEF left, buff, a, b, c
<1>5. Base64Of(data)[4 * q + 1] = Base64Char(a \div 4)
  BY <1>1, <1>3, <1>4
<1>6. Base64Of(data)[4 * q + 2] = Base64Char((a % 4) * 16 + b \div 16)
  BY <1>1, <1>3, <1>4
<1>7. Base64Of(data)[4 * q + 3] = GroupChar3(b, c, left)
  BY <1>1, <1>3, <1>4 DEF GroupChar3
<1>8. Base64Of(data)[4 * q + 4] = GroupChar4(c, left)
  BY <1>1, <1>3, <1>4 DEF GroupChar4
<1> QED
  BY <1>5, <1>6, <1>7, <1>8 DEF left, a, b, c

\* What the group q is read as, and which of its characters are padding.
LEMMA GroupRead ==
  ASSUME NEW data \in Seq(Byte), NEW q \in Nat, 3 * q < Len(data)
  PROVE  LET left == Len(data) - 3 * q
             b == IF left < 2 THEN 0 ELSE data[3 * q + 2]
             c == IF left < 3 THEN 0 ELSE data[3 * q + 3]
             text == Base64Of(data)
         IN  /\ Base64Bits(text, q) = 65536 * data[3 * q + 1] + 256 * b + c
             /\ data[3 * q + 1] \in Byte /\ b \in Byte /\ c \in Byte
             /\ text[4 * q + 1] # Pad /\ text[4 * q + 2] # Pad
             /\ (text[4 * q + 3] = Pad) <=> (left < 2)
             /\ (text[4 * q + 4] = Pad) <=> (left < 3)
<1> DEFINE left == Len(data) - 3 * q
           a == data[3 * q + 1]
           b == IF left < 2 THEN 0 ELSE data[3 * q + 2]
           c == IF left < 3 THEN 0 ELSE data[3 * q + 3]
           text == Base64Of(data)
<1>1. /\ left \in Nat \ {0} /\ (left < 2 => b = 0) /\ (left < 3 => c = 0)
      /\ a \in Byte /\ b \in Byte /\ c \in Byte
  <2>1. \A i \in 1 .. Len(data) : data[i] \in Byte
    OBVIOUS
  <2>2. left \in Nat \ {0} /\ 3 * q + 1 \in 1 .. Len(data)
    OBVIOUS
  <2>3. (left >= 2 => 3 * q + 2 \in 1 .. Len(data)) /\ (left >= 3 => 3 * q + 3 \in 1 .. Len(data))
    OBVIOUS
  <2>4. 0 \in Byte
    BY DEF Byte
  <2>5. a \in Byte /\ b \in Byte /\ c \in Byte
    BY <2>1, <2>2, <2>3, <2>4
  <2>6. (left < 2 => b = 0) /\ (left < 3 => c = 0)
    OBVIOUS
  <2> QED
    BY <2>2, <2>5, <2>6
<1>2. /\ text[4 * q + 1] = Base64Char(a \div 4)
      /\ text[4 * q + 2] = Base64Char((a % 4) * 16 + b \div 16)
      /\ text[4 * q + 3] = GroupChar3(b, c, left)
      /\ text[4 * q + 4] = GroupChar4(c, left)
  BY TextOfGroup
<1> HIDE DEF left, a, b, c, text
<1>3. /\ Base64Bits(text, q) = 65536 * a + 256 * b + c
      /\ text[4 * q + 1] # Pad /\ text[4 * q + 2] # Pad
      /\ (text[4 * q + 3] = Pad) <=> (left < 2)
      /\ (text[4 * q + 4] = Pad) <=> (left < 3)
  <2>1. /\ GroupValue(a, b, c, left) = 65536 * a + 256 * b + c
        /\ Base64Char(a \div 4) # Pad /\ Base64Char((a % 4) * 16 + b \div 16) # Pad
        /\ (GroupChar3(b, c, left) = Pad) <=> (left < 2)
        /\ (GroupChar4(c, left) = Pad) <=> (left < 3)
    BY <1>1, GroupOf
  <2>2. Base64Bits(text, q) = GroupValue(a, b, c, left)
    BY <1>2 DEF Base64Bits, GroupValue
  <2> QED
    BY <1>2, <2>1, <2>2
<1> QED
  BY <1>1, <1>3 DEF left, a, b, c, text

LEMMA PadCount ==
  ASSUME NEW n \in Nat
  PROVE  LET g == (n + 2) \div 3
         IN  Cardinality(n + g + 1 .. 4 * g) = 3 * g - n
<1> DEFINE g == (n + 2) \div 3
<1>1. g \in Nat /\ n + g + 1 \in Int /\ 4 * g \in Int /\ 3 * g - n \in 0 .. 2
  OBVIOUS
<1>2. Cardinality(n + g + 1 .. 4 * g) =
        IF n + g + 1 > 4 * g THEN 0 ELSE 4 * g - (n + g + 1) + 1
  BY <1>1, FS_Interval
<1> QED
  BY <1>1, <1>2

\* The characters of ResourceFormatterBase64::decode() are those of RFC 4648:
\* the payload can be read from them, whatever its length.
THEOREM Base64Denotes ==
  ASSUME NEW data \in Seq(Byte)
  PROVE  BytesOfBase64(Base64Of(data)) = data
<1> DEFINE n == Len(data)
           g == (n + 2) \div 3
           text == Base64Of(data)
<1>1. n \in Nat /\ g \in Nat
  OBVIOUS
<1>2. Len(text) = 4 * g /\ DOMAIN text = 1 .. 4 * g /\ Len(text) \div 4 = g
  BY <1>1 DEF Base64Of
<1>3. ASSUME NEW k \in 1 .. 4 * g
      PROVE  text[k] = Pad <=> k \in n + g + 1 .. 4 * g
  <2> DEFINE q == (k - 1) \div 4
             left == n - 3 * q
  <2>1. /\ q \in Nat /\ 3 * q < n /\ q < g /\ 3 * g < n + 3 /\ n <= 3 * g
        /\ k = 4 * q + 1 \/ k = 4 * q + 2 \/ k = 4 * q + 3 \/ k = 4 * q + 4
    BY <1>1
  <2>2. /\ text[4 * q + 1] # Pad /\ text[4 * q + 2] # Pad
        /\ (text[4 * q + 3] = Pad) <=> (left < 2)
        /\ (text[4 * q + 4] = Pad) <=> (left < 3)
    BY <2>1, GroupRead
  <2> HIDE DEF q, text, g, n
  <2>3. k = 4 * q + 1 => k < n + g + 1
    BY <1>1, <2>1
  <2>4. k = 4 * q + 2 => k < n + g + 1
    BY <1>1, <2>1
  <2>5. k = 4 * q + 3 => (k < n + g + 1 <=> left >= 2)
    BY <1>1, <2>1
  <2>6. k = 4 * q + 4 => (k < n + g + 1 <=> left >= 3)
    BY <1>1, <2>1
  <2> QED
    BY <1>1, <2>1, <2>2, <2>3, <2>4, <2>5, <2>6
<1>4. Cardinality({k \in DOMAIN text : text[k] = Pad}) = 3 * g - n
  <2>1. \A k \in n + g + 1 .. 4 * g : k \in 1 .. 4 * g
    BY <1>1
  <2>2. {k \in DOMAIN text : text[k] = Pad} = n + g + 1 .. 4 * g
    <3> HIDE DEF text, g, n
    <3> QED
      BY <1>2, <1>3, <2>1
  <2> QED
    BY <1>1, <2>2, PadCount
<1> DEFINE R(i) == LET m == Base64Bits(text, (i - 1) \div 3)
                   IN  IF i % 3 = 1 THEN m \div 65536
                       ELSE IF i % 3 = 2 THEN (m \div 256) % 256 ELSE m % 256
<1>5. BytesOfBase64(text) = [i \in 1 .. n |-> R(i)]
  <2>1. 3 * (Len(text) \div 4) - Cardinality({k \in DOMAIN text : text[k] = Pad}) = n
    BY <1>1, <1>2, <1>4
  <2> HIDE DEF text, n
  <2> QED
    BY <2>1 DEF BytesOfBase64
<1>6. ASSUME NEW i \in 1 .. n
      PROVE  R(i) = data[i]
  <2> DEFINE q == (i - 1) \div 3
             left == n - 3 * q
             a == data[3 * q + 1]
             b == IF left < 2 THEN 0 ELSE data[3 * q + 2]
             c == IF left < 3 THEN 0 ELSE data[3 * q + 3]
  <2>1. /\ q \in Nat /\ 3 * q < n
        /\ \/ i = 3 * q + 1 /\ i % 3 = 1
           \/ i = 3 * q + 2 /\ i % 3 = 2 /\ left >= 2
           \/ i = 3 * q + 3 /\ i % 3 = 0 /\ left >= 3
    BY <1>1
  <2>2. /\ Base64Bits(text, q) = 65536 * a + 256 * b + c
        /\ a \in Byte /\ b \in Byte /\ c \in Byte
    BY <2>1, GroupRead
  <2> DEFINE m == Base64Bits(text, q)
  <2>3. m \div 65536 = a /\ (m \div 256) % 256 = b /\ m % 256 = c
    <3> HIDE DEF a, b, c
    <3> QED
      BY <2>2, GroupBytes
  <2>4. left \in Int
    BY <1>1, <2>1
  <2>5. R(i) = IF i % 3 = 1 THEN a ELSE IF i % 3 = 2 THEN b ELSE c
    <3> HIDE DEF m, a, b, c, text
    <3> QED
      BY <2>3 DEF m
  <2> HIDE DEF R, q, left, m, text
  <2> QED
    BY <2>1, <2>4, <2>5
<1>7. data = [i \in 1 .. n |-> data[i]]
  OBVIOUS
<1> HIDE DEF text, n, R
<1> QED
  BY <1>5, <1>6, <1>7 DEF text

----------------------------------------------------------------------------
(* Sequences of sequences *)

\* A set of natural numbers that is not empty has a least element: what is
\* proved about sequences below is proved of a shortest counterexample.
LEMMA Least ==
  ASSUME NEW S, S \subseteq Nat, S # {}
  PROVE  \E i \in S : \A j \in S : i <= j
<1>1. PICK i \in S : \A j \in S : ~(<<j, i>> \in OpToRel(<, Nat))
  BY NatLessThanWellFounded, WFMin, Zenon
<1>2. ASSUME NEW j \in S PROVE i <= j
  <2>1. i \in Nat /\ j \in Nat
    OBVIOUS
  <2>2. j < i => <<j, i>> \in OpToRel(<, Nat)
    BY <2>1, Zenon DEF OpToRel
  <2>3. ~(j < i)
    BY <1>1, <2>2, Zenon
  <2> QED
    BY <2>1, <2>3
<1> QED
  BY <1>2

\* The recursive function inside FlattenSeq: f[i] is the first i sequences of
\* s, one after the other.
Flat(s, f, n) ==
  \A i \in 1 .. n : f[i] = IF i = 1 THEN s[i] ELSE f[i - 1] \o s[i]

LEMMA FlatExists ==
  ASSUME NEW S, NEW s \in Seq(Seq(S)), NEW n \in 0 .. Len(s)
  PROVE  \E f \in [1 .. n -> Seq(S)] : Flat(s, f, n)
<1> DEFINE Good(k) == \E f \in [1 .. k -> Seq(S)] : Flat(s, f, k)
           Bad == {k \in 0 .. Len(s) : ~Good(k)}
<1>1. Len(s) \in Nat /\ \A i \in 1 .. Len(s) : s[i] \in Seq(S)
  OBVIOUS
<1>2. Good(0)
  <2> DEFINE f == [i \in 1 .. 0 |-> << >>]
  <2>1. f \in [1 .. 0 -> Seq(S)]
    OBVIOUS
  <2>2. Flat(s, f, 0)
    BY DEF Flat
  <2> HIDE DEF f
  <2> QED
    BY <2>1, <2>2
<1>3. ASSUME NEW k \in 1 .. Len(s), Good(k - 1) PROVE Good(k)
  <2>1. PICK f \in [1 .. k - 1 -> Seq(S)] : Flat(s, f, k - 1)
    BY <1>3
  <2> DEFINE last == IF k = 1 THEN s[k] ELSE f[k - 1] \o s[k]
             g == [i \in 1 .. k |-> IF i = k THEN last ELSE f[i]]
  <2>2. last \in Seq(S)
    <3>1. CASE k = 1
      BY <1>1, <3>1
    <3>2. CASE k # 1
      <4>1. f[k - 1] \in Seq(S) /\ s[k] \in Seq(S)
        BY <1>1, <3>2
      <4> QED
        BY <3>2, <4>1
    <3> QED
      BY <3>1, <3>2
  <2> HIDE DEF last
  <2>3. g \in [1 .. k -> Seq(S)]
    BY <2>2
  <2>4. \A i \in 1 .. k : g[i] = IF i = 1 THEN s[i] ELSE g[i - 1] \o s[i]
    <3> TAKE i \in 1 .. k
    <3>1. CASE i = k
      BY <1>1, <3>1 DEF last
    <3>2. CASE i # k
      <4>1. i \in 1 .. k - 1 /\ g[i] = f[i] /\ (i # 1 => i - 1 # k /\ i - 1 \in 1 .. k)
        BY <1>1, <3>2
      <4>2. i # 1 => g[i - 1] = f[i - 1]
        BY <4>1
      <4>3. f[i] = IF i = 1 THEN s[i] ELSE f[i - 1] \o s[i]
        BY <2>1, <4>1 DEF Flat
      <4> HIDE DEF g
      <4> QED
        BY <4>1, <4>2, <4>3
    <3> QED
      BY <3>1, <3>2
  <2> QED
    BY <2>3, <2>4 DEF Flat
<1> HIDE DEF Good
<1>4. Bad = {}
  <2> SUFFICES ASSUME Bad # {} PROVE FALSE
    OBVIOUS
  <2>0. Bad \subseteq Nat
    BY <1>1
  <2>1. PICK k \in Bad : \A j \in Bad : k <= j
    <3> HIDE DEF Bad
    <3> QED
      BY <2>0, Least
  <2>2. k # 0 /\ k \in 0 .. Len(s) /\ k - 1 \notin Bad
    BY <1>1, <1>2, <2>1
  <2> QED
    BY <1>1, <1>3, <2>1, <2>2
<1> QED
  BY <1>4 DEF Good

LEMMA FlatUnique ==
  ASSUME NEW s, NEW f, NEW g, NEW n \in Nat, Flat(s, f, n), Flat(s, g, n)
  PROVE  \A i \in 1 .. n : f[i] = g[i]
<1> DEFINE Bad == {i \in 1 .. n : f[i] # g[i]}
<1> SUFFICES ASSUME Bad # {} PROVE FALSE
  OBVIOUS
<1>0. Bad \subseteq Nat
  OBVIOUS
<1>1. PICK i \in Bad : \A j \in Bad : i <= j
  <2> HIDE DEF Bad
  <2> QED
    BY <1>0, Least
<1>2. i \in 1 .. n /\ f[i] # g[i] /\ (i # 1 => f[i - 1] = g[i - 1])
  BY <1>1
<1> QED
  BY <1>2 DEF Flat

LEMMA FlattenValue ==
  ASSUME NEW S, NEW s \in Seq(Seq(S)), Len(s) # 0, NEW f, Flat(s, f, Len(s))
  PROVE  FlattenSeq(s) = f[Len(s)]
<1> DEFINE Step(h) == [i \in 1 .. Len(s) |-> IF i = 1 THEN s[i] ELSE h[i - 1] \o s[i]]
           h == CHOOSE h : h = Step(h)
<1>1. FlattenSeq(s) = h[Len(s)]
  BY DEF FlattenSeq
<1>2. \E g : g = Step(g)
  <2>1. PICK g \in [1 .. Len(s) -> Seq(S)] : Flat(s, g, Len(s))
    BY FlatExists
  <2>2. g = Step(g)
    BY <2>1 DEF Flat
  <2> QED
    BY <2>2
<1>3. h = Step(h)
  BY <1>2, Zenon
<1> HIDE DEF h
<1>4. Flat(s, h, Len(s))
  BY <1>3 DEF Flat
<1>5. Len(s) \in 1 .. Len(s) /\ Len(s) \in Nat
  OBVIOUS
<1> QED
  BY <1>1, <1>4, <1>5, FlatUnique

\* A sequence more at the end is appended to the result.
LEMMA FlattenAppend ==
  ASSUME NEW S, NEW s \in Seq(Seq(S)), NEW e \in Seq(S)
  PROVE  /\ FlattenSeq(s) \in Seq(S)
         /\ FlattenSeq(Append(s, e)) = FlattenSeq(s) \o e
<1> DEFINE t == Append(s, e)
           n == Len(s)
<1>1. /\ t \in Seq(Seq(S)) /\ Len(t) = n + 1 /\ n \in Nat /\ t[n + 1] = e
      /\ \A i \in 1 .. n : t[i] = s[i]
  OBVIOUS
<1> HIDE DEF t
<1>2. PICK f \in [1 .. n + 1 -> Seq(S)] : Flat(t, f, n + 1)
  <2>1. n + 1 \in 0 .. Len(t)
    BY <1>1
  <2> QED
    BY <1>1, <2>1, FlatExists
<1>3. FlattenSeq(t) = f[n + 1]
  BY <1>1, <1>2, FlattenValue
<1>4. CASE n = 0
  <2>1. s = << >> /\ FlattenSeq(s) = s
    BY <1>4 DEF FlattenSeq
  <2>2. f[n + 1] = e
    BY <1>1, <1>2, <1>4 DEF Flat
  <2>3. << >> \o e = e
    OBVIOUS
  <2>4. FlattenSeq(s) = << >> /\ << >> \in Seq(S)
    BY <2>1
  <2>5. FlattenSeq(t) = << >> \o e
    BY <1>3, <2>2, <2>3
  <2> QED
    BY <2>4, <2>5, Zenon DEF t
<1>5. CASE n # 0
  <2>1. Flat(s, f, n)
    <3> SUFFICES ASSUME NEW i \in 1 .. n
                 PROVE  f[i] = IF i = 1 THEN s[i] ELSE f[i - 1] \o s[i]
      BY DEF Flat
    <3>1. i \in 1 .. n + 1 /\ t[i] = s[i]
      BY <1>1
    <3> QED
      BY <1>2, <3>1 DEF Flat
  <2>2. FlattenSeq(s) = f[n] /\ f[n] \in Seq(S)
    BY <1>1, <1>2, <1>5, <2>1, FlattenValue
  <2>3. f[n + 1] = f[n] \o e
    <3> DEFINE m == n + 1
    <3>1. m \in 1 .. n + 1 /\ m # 1 /\ m - 1 = n
      BY <1>1, <1>5
    <3> HIDE DEF m
    <3>2. f[m] = f[m - 1] \o t[m]
      BY <1>2, <3>1 DEF Flat
    <3> QED
      BY <1>1, <3>1, <3>2 DEF m
  <2> QED
    BY <1>3, <2>2, <2>3 DEF t
<1> QED
  BY <1>4, <1>5

----------------------------------------------------------------------------
(* Text *)

LowerDigitOf(c) == CHOOSE n \in 0 .. 15 : LowerDigit(n) = c
Escaped(b) == <<Backslash, 120, LowerDigit(b \div 16), LowerDigit(b % 16)>>
Piece(b) == IF IsPrint(b) THEN <<b>> ELSE Escaped(b)

\* What the character at i denotes.
Part(text, i) ==
  IF text[i] = Backslash THEN <<16 * LowerDigitOf(text[i + 2]) + LowerDigitOf(text[i + 3])>>
  ELSE IF \E j \in DOMAIN text : text[j] = Backslash /\ i \in j .. j + 3 THEN << >>
  ELSE <<text[i]>>
Parts(text) == [i \in DOMAIN text |-> Part(text, i)]

\* A text in which nothing that begins with a backslash is cut short.
Readable(text) ==
  /\ text \in Seq(Nat) /\ Parts(text) \in Seq(Seq(Byte))
  /\ \A j \in 1 .. Len(text) : text[j] = Backslash => j + 3 <= Len(text)

LEMMA PartsOfText == \A text : BytesOfText(text) = FlattenSeq(Parts(text))
BY DEF BytesOfText, Parts, Part, LowerDigitOf

LEMMA EscapedDigits ==
  ASSUME NEW b \in Byte
  PROVE  /\ LowerDigit(b \div 16) \in Nat \ {Backslash} /\ LowerDigit(b % 16) \in Nat \ {Backslash}
         /\ 16 * LowerDigitOf(LowerDigit(b \div 16)) + LowerDigitOf(LowerDigit(b % 16)) = b
<1>1. /\ b \div 16 \in 0 .. 15 /\ b % 16 \in 0 .. 15
      /\ 16 * (b \div 16) + (b % 16) = b
  BY DEF Byte
<1>2. ASSUME NEW n \in 0 .. 15
      PROVE  LowerDigit(n) \in Nat \ {Backslash} /\ LowerDigitOf(LowerDigit(n)) = n
  BY DEF LowerDigit, LowerDigitOf, Backslash
<1> QED
  BY <1>1, <1>2

\* What follows a readable text does not change what it denotes.
LEMMA PartKept ==
  ASSUME NEW text, Readable(text), NEW t \in Seq(Nat), Len(text) <= Len(t),
         \A i \in 1 .. Len(text) : t[i] = text[i]
  PROVE  \A i \in 1 .. Len(text) : Part(t, i) = Part(text, i)
<1> SUFFICES ASSUME NEW i \in 1 .. Len(text) PROVE Part(t, i) = Part(text, i)
  OBVIOUS
<1>1. /\ Len(text) \in Nat /\ Len(t) \in Nat
      /\ DOMAIN text = 1 .. Len(text) /\ DOMAIN t = 1 .. Len(t)
      /\ t[i] = text[i]
  BY DEF Readable
<1>a. \A j \in 1 .. Len(text) : text[j] = Backslash => j + 3 <= Len(text)
  BY DEF Readable
<1>2. CASE text[i] = Backslash
  <2>1. i + 2 \in 1 .. Len(text) /\ i + 3 \in 1 .. Len(text)
    BY <1>a, <1>1, <1>2
  <2> QED
    BY <1>1, <1>2, <2>1 DEF Part
<1>3. CASE text[i] # Backslash
  <2>1. (\E j \in 1 .. Len(t) : t[j] = Backslash /\ i \in j .. j + 3)
          <=> \E j \in 1 .. Len(text) : text[j] = Backslash /\ i \in j .. j + 3
    <3>1. ASSUME NEW j \in Nat, i \in j .. j + 3 PROVE j <= Len(text)
      BY <1>1, <3>1
    <3>2. \A j \in 1 .. Len(text) : j \in 1 .. Len(t) /\ t[j] = text[j] /\ j \in Nat
      BY <1>1
    <3>3. \A j \in 1 .. Len(t) : j \in Nat /\ (j <= Len(text) => j \in 1 .. Len(text))
      BY <1>1
    <3> QED
      BY <3>1, <3>2, <3>3
  <2> QED
    BY <1>1, <1>3, <2>1 DEF Part
<1> QED
  BY <1>2, <1>3

LEMMA PrintedPart ==
  ASSUME NEW text, Readable(text), NEW b \in Byte \ {Backslash}
  PROVE  /\ Readable(Append(text, b))
         /\ Parts(Append(text, b)) = Append(Parts(text), <<b>>)
<1> DEFINE t == Append(text, b)
           n == Len(text)
<1>1. /\ t \in Seq(Nat) /\ Len(t) = n + 1 /\ n \in Nat /\ t[n + 1] = b
      /\ \A i \in 1 .. n : t[i] = text[i]
  BY DEF Readable, Byte
<1>2. DOMAIN t = 1 .. n + 1 /\ DOMAIN text = 1 .. n
  BY <1>1 DEF Readable
<1>a. \A j \in 1 .. n : text[j] = Backslash => j + 3 <= n
  BY DEF Readable
<1> HIDE DEF t
<1>3. \A i \in 1 .. n : Part(t, i) = Part(text, i)
  <2>1. t \in Seq(Nat) /\ Len(text) <= Len(t) /\ \A i \in 1 .. Len(text) : t[i] = text[i]
    BY <1>1
  <2> QED
    BY <2>1, PartKept, Zenon
<1>4. Part(t, n + 1) = <<b>>
  <2>1. \A j \in 1 .. n + 1 : t[j] = Backslash => j \in 1 .. n /\ j + 3 <= n
    BY <1>a, <1>1
  <2>2. ~\E j \in DOMAIN t : t[j] = Backslash /\ n + 1 \in j .. j + 3
    BY <1>1, <1>2, <2>1
  <2> QED
    BY <1>1, <2>2 DEF Part
<1>5. Parts(text) \in Seq(Seq(Byte)) /\ Len(Parts(text)) = n /\ <<b>> \in Seq(Byte)
  <2>1. Parts(text) \in Seq(Seq(Byte)) /\ DOMAIN Parts(text) = 1 .. n
    BY <1>2 DEF Readable, Parts
  <2> QED
    BY <1>1, <2>1
<1>6. Parts(t) = Append(Parts(text), <<b>>)
  <2>1. \A i \in 1 .. n : Parts(text)[i] = Part(text, i)
    BY <1>2 DEF Parts
  <2>2. Append(Parts(text), <<b>>) =
          [i \in 1 .. n + 1 |-> IF i = n + 1 THEN <<b>> ELSE Parts(text)[i]]
    BY <1>1, <1>5
  <2>3. Parts(t) = [i \in 1 .. n + 1 |-> Part(t, i)]
    BY <1>2 DEF Parts
  <2>4. \A i \in 1 .. n + 1 : Part(t, i) = IF i = n + 1 THEN <<b>> ELSE Parts(text)[i]
    BY <1>1, <1>3, <1>4, <2>1
  <2> QED
    BY <2>2, <2>3, <2>4
<1>7. Parts(t) \in Seq(Seq(Byte))
  BY <1>5, <1>6
<1>8. \A j \in 1 .. Len(t) : t[j] = Backslash => j + 3 <= Len(t)
  BY <1>a, <1>1
<1> QED
  BY <1>1, <1>6, <1>7, <1>8 DEF Readable, t

LEMMA EscapedPart ==
  ASSUME NEW text, Readable(text), NEW b \in Byte
  PROVE  /\ Readable(text \o Escaped(b))
         /\ Parts(text \o Escaped(b)) =
              Append(Append(Append(Append(Parts(text), <<b>>), << >>), << >>), << >>)
<1> DEFINE x == LowerDigit(b \div 16)
           y == LowerDigit(b % 16)
           t == text \o Escaped(b)
           n == Len(text)
<1>0. /\ x \in Nat /\ y \in Nat /\ x # Backslash /\ y # Backslash
      /\ 16 * LowerDigitOf(x) + LowerDigitOf(y) = b
  BY EscapedDigits
<1> HIDE DEF x, y
<1>1. /\ t \in Seq(Nat) /\ Len(t) = n + 4 /\ n \in Nat
      /\ t[n + 1] = Backslash /\ t[n + 2] = 120 /\ t[n + 3] = x /\ t[n + 4] = y
      /\ \A i \in 1 .. n : t[i] = text[i]
  <2> DEFINE e == <<Backslash, 120, x, y>>
  <2>1. Escaped(b) = e
    BY DEF Escaped, x, y
  <2>2. /\ e \in Seq(Nat) /\ Len(e) = 4
        /\ e[1] = Backslash /\ e[2] = 120 /\ e[3] = x /\ e[4] = y
    BY <1>0 DEF Backslash
  <2>3. text \in Seq(Nat) /\ n \in Nat
    BY DEF Readable
  <2> HIDE DEF e
  <2>4. /\ text \o e \in Seq(Nat) /\ Len(text \o e) = n + 4
        /\ \A i \in 1 .. n + 4 : (text \o e)[i] = IF i <= n THEN text[i] ELSE e[i - n]
    <3>1. /\ text \o e \in Seq(Nat) /\ Len(text \o e) = Len(text) + Len(e)
          /\ \A i \in 1 .. Len(text) + Len(e) :
               (text \o e)[i] = IF i <= Len(text) THEN text[i] ELSE e[i - Len(text)]
      <4>1. text \in Seq(Nat) /\ e \in Seq(Nat)
        BY <2>2, <2>3
      <4> QED
        BY <4>1, ConcatProperties, Zenon
    <3> QED
      BY <2>2, <3>1
  <2> QED
    BY <2>1, <2>2, <2>3, <2>4
<1>2. DOMAIN t = 1 .. n + 4 /\ DOMAIN text = 1 .. n
  BY <1>1 DEF Readable
<1>a. \A j \in 1 .. n : text[j] = Backslash => j + 3 <= n
  BY DEF Readable
<1> HIDE DEF t
<1>3. \A i \in 1 .. n : Part(t, i) = Part(text, i)
  <2>1. t \in Seq(Nat) /\ Len(text) <= Len(t) /\ \A i \in 1 .. Len(text) : t[i] = text[i]
    BY <1>1
  <2> QED
    BY <2>1, PartKept, Zenon
<1>4. Part(t, n + 1) = <<b>>
  <2>1. n + 1 + 2 = n + 3 /\ n + 1 + 3 = n + 4
    BY <1>1
  <2> QED
    BY <1>0, <1>1, <2>1 DEF Part
<1>5. ASSUME NEW i \in n + 2 .. n + 4 PROVE Part(t, i) = << >>
  <2>1. t[i] # Backslash
    <3>1. i = n + 2 \/ i = n + 3 \/ i = n + 4
      BY <1>1, <1>5
    <3> QED
      BY <1>0, <1>1, <3>1 DEF Backslash
  <2>2. n + 1 \in DOMAIN t /\ t[n + 1] = Backslash /\ i \in n + 1 .. n + 1 + 3
    BY <1>1, <1>2
  <2> QED
    BY <2>1, <2>2 DEF Part
<1> DEFINE p == Parts(text)
           q == Append(Append(Append(Append(p, <<b>>), << >>), << >>), << >>)
<1>6. p \in Seq(Seq(Byte)) /\ Len(p) = n /\ <<b>> \in Seq(Byte) /\ << >> \in Seq(Byte)
  <2>1. p \in Seq(Seq(Byte)) /\ DOMAIN p = 1 .. n
    BY <1>2 DEF Readable, Parts
  <2> QED
    BY <1>1, <2>1
<1>7. Parts(t) = q
  <2>1. \A i \in 1 .. n : p[i] = Part(text, i)
    BY <1>2 DEF Parts
  <2> HIDE DEF p
  <2>2. q = [i \in 1 .. n + 4 |-> IF i <= n THEN p[i] ELSE IF i = n + 1 THEN <<b>> ELSE << >>]
    <3> DEFINE S == Seq(Byte)
    <3>1. p \in Seq(S) /\ <<b>> \in S /\ << >> \in S
      BY <1>6
    <3> HIDE DEF S
    <3>2. q \in Seq(S) /\ Len(q) = n + 4
      BY <1>6, <3>1
    <3>3. \A i \in 1 .. n + 4 : q[i] = IF i <= n THEN p[i] ELSE IF i = n + 1 THEN <<b>> ELSE << >>
      BY <1>1, <1>6, <3>1
    <3> HIDE DEF q
    <3> QED
      BY <3>2, <3>3
  <2>3. Parts(t) = [i \in 1 .. n + 4 |-> Part(t, i)]
    BY <1>2 DEF Parts
  <2>4. \A i \in 1 .. n + 4 :
          Part(t, i) = IF i <= n THEN p[i] ELSE IF i = n + 1 THEN <<b>> ELSE << >>
    <3> TAKE i \in 1 .. n + 4
    <3>1. i \in 1 .. n \/ i = n + 1 \/ i \in n + 2 .. n + 4
      BY <1>1
    <3> QED
      BY <1>1, <1>3, <1>4, <1>5, <2>1, <3>1
  <2> HIDE DEF q
  <2> QED
    BY <2>2, <2>3, <2>4
<1>8. Parts(t) \in Seq(Seq(Byte))
  <2> DEFINE S == Seq(Byte)
  <2>1. p \in Seq(S) /\ <<b>> \in S /\ << >> \in S
    BY <1>6
  <2> HIDE DEF S, p
  <2>2. q \in Seq(S)
    BY <2>1
  <2> QED
    BY <1>7, <2>2 DEF S
<1>9. \A j \in 1 .. n + 4 : t[j] = Backslash => j + 3 <= n + 4
  <2> TAKE j \in 1 .. n + 4
  <2>1. j \in 1 .. n \/ j = n + 1 \/ j = n + 2 \/ j = n + 3 \/ j = n + 4
    <3>1. n \in Nat
      BY <1>1
    <3> HIDE DEF n
    <3> QED
      BY <3>1
  <2>2. t[n + 2] # Backslash /\ t[n + 3] # Backslash /\ t[n + 4] # Backslash
    BY <1>0, <1>1 DEF Backslash
  <2> QED
    BY <1>a, <1>1, <2>1, <2>2
<1> HIDE DEF q, p
<1> QED
  BY <1>1, <1>7, <1>8, <1>9 DEF Readable, t, q, p

\* A payload that was read back, and one byte more.
ReadBack(data) ==
  Readable(TextOf(data)) /\ FlattenSeq(Parts(TextOf(data))) = data

LEMMA TextGrows ==
  ASSUME NEW data \in Seq(Byte), NEW b \in Byte
  PROVE  TextOf(Append(data, b)) = TextOf(data) \o Piece(b)
<1> DEFINE Pieces(d) == [i \in DOMAIN d |-> Piece(d[i])]
           S == Nat
<1>1. ASSUME NEW c \in Byte PROVE Piece(c) \in Seq(S)
  <2>1. CASE IsPrint(c)
    BY <2>1 DEF Piece, Byte
  <2>2. CASE ~IsPrint(c)
    BY <2>2, EscapedDigits DEF Piece, Escaped, Backslash
  <2> QED
    BY <2>1, <2>2
<1> HIDE DEF S
<1>2. \A d : TextOf(d) = FlattenSeq(Pieces(d))
  BY DEF TextOf, Piece, Escaped
<1>3. Pieces(data) \in Seq(Seq(S)) /\ Piece(b) \in Seq(S)
  <2>1. Pieces(data) \in [1 .. Len(data) -> Seq(S)] /\ Len(data) \in Nat
    <3>1. DOMAIN data = 1 .. Len(data) /\ \A i \in 1 .. Len(data) : Piece(data[i]) \in Seq(S)
      BY <1>1
    <3> QED
      BY <3>1
  <2> DEFINE T == Seq(S)
  <2>2. Pieces(data) \in [1 .. Len(data) -> T]
    BY <2>1
  <2> HIDE DEF T
  <2>3. Pieces(data) \in Seq(T)
    BY <2>1, <2>2
  <2> QED
    BY <1>1, <2>3 DEF T
<1>4. Pieces(Append(data, b)) = Append(Pieces(data), Piece(b))
  <2> HIDE DEF Piece
  <2>1. /\ Len(data) \in Nat /\ DOMAIN data = 1 .. Len(data)
        /\ DOMAIN Append(data, b) = 1 .. Len(data) + 1
        /\ \A i \in 1 .. Len(data) : Append(data, b)[i] = data[i]
        /\ Append(data, b)[Len(data) + 1] = b
    OBVIOUS
  <2>2. Len(Pieces(data)) = Len(data)
    BY <2>1
  <2>3. Append(Pieces(data), Piece(b)) =
          [i \in 1 .. Len(data) + 1 |-> IF i = Len(data) + 1 THEN Piece(b) ELSE Pieces(data)[i]]
    BY <1>3, <2>1, <2>2
  <2>4. Pieces(Append(data, b)) = [i \in 1 .. Len(data) + 1 |-> Piece(Append(data, b)[i])]
    BY <2>1
  <2>5. \A i \in 1 .. Len(data) + 1 :
          Piece(Append(data, b)[i]) = IF i = Len(data) + 1 THEN Piece(b) ELSE Pieces(data)[i]
    BY <2>1
  <2> QED
    BY <2>3, <2>4, <2>5
<1> HIDE DEF Pieces
<1>5. FlattenSeq(Append(Pieces(data), Piece(b))) = FlattenSeq(Pieces(data)) \o Piece(b)
  BY <1>3, FlattenAppend
<1> QED
  BY <1>2, <1>4, <1>5

LEMMA ReadBackGrows ==
  ASSUME NEW data \in Seq(Byte), NEW b \in Byte \ {Backslash}, ReadBack(data)
  PROVE  ReadBack(Append(data, b))
<1> DEFINE text == TextOf(data)
           p == Parts(text)
<1>1. Readable(text) /\ p \in Seq(Seq(Byte)) /\ FlattenSeq(p) = data
  BY DEF ReadBack, Readable
<1>2. TextOf(Append(data, b)) = text \o Piece(b)
  BY TextGrows
<1> HIDE DEF text, p
<1>3. <<b>> \in Seq(Byte) /\ << >> \in Seq(Byte) /\ data \o <<b>> = Append(data, b)
      /\ Append(data, b) \in Seq(Byte)
  OBVIOUS
<1>4. FlattenSeq(Append(p, <<b>>)) = Append(data, b) /\ Append(p, <<b>>) \in Seq(Seq(Byte))
  <2>1. FlattenSeq(Append(p, <<b>>)) = FlattenSeq(p) \o <<b>>
    BY <1>1, <1>3, FlattenAppend
  <2>2. Append(p, <<b>>) \in Seq(Seq(Byte))
    <3> DEFINE S == Seq(Byte)
    <3>1. p \in Seq(S) /\ <<b>> \in S
      BY <1>1, <1>3
    <3> HIDE DEF S
    <3>2. Append(p, <<b>>) \in Seq(S)
      BY <3>1
    <3> QED
      BY <3>2 DEF S
  <2> QED
    BY <1>1, <1>3, <2>1, <2>2, Zenon
<1>5. CASE IsPrint(b)
  <2>1. text \o Piece(b) = Append(text, b)
    BY <1>1, <1>5 DEF Piece, Readable, Byte
  <2> QED
    BY <1>1, <1>2, <1>4, <2>1, PrintedPart DEF ReadBack, p
<1>6. CASE ~IsPrint(b)
  <2> DEFINE S == Seq(Byte)
             p1 == Append(p, <<b>>)
             p2 == Append(p1, << >>)
             p3 == Append(p2, << >>)
             p4 == Append(p3, << >>)
  <2>1. text \o Piece(b) = text \o Escaped(b)
    BY <1>6 DEF Piece
  <2>2. Readable(text \o Escaped(b)) /\ Parts(text \o Escaped(b)) = p4
    BY <1>1, EscapedPart DEF p
  <2>3. \A q \in Seq(Seq(Byte)) :
          FlattenSeq(q) \in Seq(Byte) /\ FlattenSeq(Append(q, << >>)) = FlattenSeq(q) \o << >>
    BY <1>3, FlattenAppend
  <2>4. p1 \in Seq(S) /\ p2 \in Seq(S) /\ p3 \in Seq(S) /\ << >> \in S
    <3>1. p1 \in Seq(S) /\ << >> \in S
      BY <1>3, <1>4
    <3> HIDE DEF S, p1
    <3> QED
      BY <3>1
  <2>5. \A d \in Seq(Byte) : d \o << >> = d
    OBVIOUS
  <2>6. FlattenSeq(p4) = Append(data, b)
    <3> HIDE DEF p1, p2, p3, p4
    <3>1. FlattenSeq(p1) = Append(data, b)
      BY <1>4 DEF p1
    <3>2. FlattenSeq(p2) = FlattenSeq(p1)
      BY <2>3, <2>4, <2>5 DEF p2
    <3>3. FlattenSeq(p3) = FlattenSeq(p2)
      BY <2>3, <2>4, <2>5 DEF p3
    <3>4. FlattenSeq(p4) = FlattenSeq(p3)
      BY <2>3, <2>4, <2>5 DEF p4
    <3> QED
      BY <3>1, <3>2, <3>3, <3>4
  <2> QED
    BY <1>2, <2>1, <2>2, <2>6 DEF ReadBack
<1> QED
  BY <1>5, <1>6

\* The text of ResourceFormatterText::decode() can be read back, unless the
\* payload itself has a backslash, which is not marked.
THEOREM TextDenotes ==
  ASSUME NEW data \in Seq(Byte), Backslash \notin ToSet(data)
  PROVE  BytesOfText(TextOf(data)) = data
<1> DEFINE Unmarked == Byte \ {Backslash}
           Bad == {n \in Nat : \E d \in Seq(Unmarked) : Len(d) = n /\ ~ReadBack(d)}
<1>1. Unmarked \subseteq Byte /\ Seq(Unmarked) \subseteq Seq(Byte)
  OBVIOUS
<1>2. ReadBack(<< >>)
  <2>1. TextOf(<< >>) = << >>
    BY DEF TextOf, FlattenSeq
  <2>2. Parts(<< >>) = << >> /\ FlattenSeq(<< >>) = << >> /\ Readable(<< >>)
    BY DEF Parts, FlattenSeq, Readable
  <2> QED
    BY <2>1, <2>2 DEF ReadBack
<1>3. Bad = {}
  <2> SUFFICES ASSUME Bad # {} PROVE FALSE
    OBVIOUS
  <2>0. Bad \subseteq Nat
    OBVIOUS
  <2>1. PICK n \in Bad : \A m \in Bad : n <= m
    <3> HIDE DEF Bad
    <3> QED
      BY <2>0, Least
  <2>2. PICK d \in Seq(Unmarked) : Len(d) = n /\ ~ReadBack(d)
    BY <2>1
  <2>3. n \in Nat /\ n # 0
    <3>1. Len(d) = 0 => d = << >>
      BY EmptySeq
    <3> QED
      BY <1>2, <2>0, <2>1, <2>2, <3>1
  <2> HIDE DEF Unmarked
  <2> DEFINE front == [i \in 1 .. n - 1 |-> d[i]]
  <2>4. /\ front \in Seq(Unmarked) /\ Len(front) = n - 1 /\ d[n] \in Unmarked
        /\ d = Append(front, d[n])
    BY <2>2, <2>3
  <2>5. ReadBack(front)
    <3> HIDE DEF front
    <3>1. n - 1 \notin Bad /\ n - 1 \in Nat
      <4> HIDE DEF Bad
      <4> QED
        BY <2>0, <2>1, <2>3
    <3> QED
      BY <2>4, <3>1
  <2> HIDE DEF front
  <2> QED
    BY <1>1, <2>2, <2>4, <2>5, ReadBackGrows DEF Unmarked
<1>4. data \in Seq(Unmarked) /\ Len(data) \in Nat
  BY DEF ToSet
<1>5. ReadBack(data)
  BY <1>3, <1>4
<1> QED
  BY <1>5, PartsOfText DEF ReadBack

----------------------------------------------------------------------------
(* Every formatter *)

\* Whatever formatter was made for a name, the payload can be read from its
\* text (ResourceFormatter.cpp:11-26).
THEOREM DecodeDenotes ==
  ASSUME NEW format \in KnownFormats, NEW data \in Seq(Byte)
  PROVE  Denotes(format, Decode(format, data), data)
<1>1. <<"STRING">> # <<"HEX">> /\ <<"STRING">> # <<"BASE64">> /\ <<"HEX">> # <<"BASE64">>
  OBVIOUS
<1>2. CASE format = <<"STRING">>
  <2>1. Decode(format, data) = TextOf(data)
    BY <1>2 DEF Decode
  <2>2. \A t : Denotes(format, t, data) <=> Backslash \in ToSet(data) \/ BytesOfText(t) = data
    BY <1>2 DEF Denotes
  <2> QED
    BY <2>1, <2>2, TextDenotes
<1>3. CASE format = <<"HEX">>
  <2>1. Decode(format, data) = HexOf(data)
    BY <1>1, <1>3 DEF Decode
  <2>2. \A t : Denotes(format, t, data) <=> BytesOfHex(t) = data
    BY <1>1, <1>3 DEF Denotes
  <2> QED
    BY <2>1, <2>2, HexDenotes
<1>4. CASE format = <<"BASE64">>
  <2>1. Decode(format, data) = Base64Of(data)
    BY <1>1, <1>4 DEF Decode
  <2>2. \A t : Denotes(format, t, data) <=> BytesOfBase64(t) = data
    BY <1>1, <1>4 DEF Denotes
  <2> QED
    BY <2>1, <2>2, Base64Denotes
<1> QED
  BY <1>2, <1>3, <1>4 DEF KnownFormats

----------------------------------------------------------------------------
(* References *)

\* The run of "$" that ends at i begins at first.
RunFrom(in, i, first) ==
  /\ first \in 1 .. i /\ \A k \in first .. i : in[k] = "$"
  /\ first = 1 \/ in[first - 1] # "$"

LEMMA RunExists ==
  ASSUME NEW in, NEW i \in Nat \ {0}, in[i] = "$"
  PROVE  \E first \in 1 .. i : RunFrom(in, i, first)
<1> DEFINE Firsts == {f \in 1 .. i : \A k \in f .. i : in[k] = "$"}
<1>1. i \in Firsts /\ Firsts \subseteq Nat
  OBVIOUS
<1>2. PICK first \in Firsts : \A f \in Firsts : first <= f
  <2> HIDE DEF Firsts
  <2> QED
    BY <1>1, Least
<1>3. ASSUME first # 1, in[first - 1] = "$" PROVE FALSE
  <2>1. first - 1 \in Firsts
    BY <1>2, <1>3
  <2> QED
    BY <1>2, <2>1
<1> QED
  BY <1>2, <1>3 DEF RunFrom

LEMMA RunUnique ==
  ASSUME NEW in, NEW i \in Nat, NEW f, NEW g, RunFrom(in, i, f), RunFrom(in, i, g)
  PROVE  f = g
<1>1. ASSUME NEW a \in 1 .. i, NEW b \in 1 .. i, a < b, RunFrom(in, i, a), RunFrom(in, i, b)
      PROVE  FALSE
  <2>1. b - 1 \in a .. i /\ b # 1
    BY <1>1
  <2> QED
    BY <1>1, <2>1 DEF RunFrom
<1>2. f \in 1 .. i /\ g \in 1 .. i
  BY DEF RunFrom
<1>3. ~(f < g) /\ ~(g < f)
  BY <1>1, <1>2
<1> QED
  BY <1>2, <1>3

\* In a run of "$" every other one begins a reference.
LEMMA BeginsByTurns ==
  ASSUME NEW in, NEW i \in Nat \ {0}, in[i] = "$"
  PROVE  Begins(in, i) <=> i = 1 \/ ~Begins(in, i - 1)
<1>1. PICK first \in 1 .. i : RunFrom(in, i, first)
  BY RunExists
<1>2. Begins(in, i) <=> (i - first) % 2 = 0
  <2>1. Begins(in, i) <=> \E f \in 1 .. i : RunFrom(in, i, f) /\ (i - f) % 2 = 0
    BY DEF Begins, RunFrom
  <2> QED
    BY <1>1, <2>1, RunUnique
<1>3. CASE first = i
  <2>1. (i - first) % 2 = 0
    BY <1>3
  <2>2. i # 1 => ~Begins(in, i - 1)
    BY <1>1, <1>3 DEF RunFrom, Begins
  <2> QED
    BY <1>2, <2>1, <2>2
<1>4. CASE first # i
  <2>1. RunFrom(in, i - 1, first) /\ i - 1 \in Nat \ {0} /\ in[i - 1] = "$" /\ first \in 1 .. i - 1
    BY <1>1, <1>4 DEF RunFrom
  <2>2. Begins(in, i - 1) <=> \E f \in 1 .. i - 1 : RunFrom(in, i - 1, f) /\ (i - 1 - f) % 2 = 0
    BY <2>1 DEF Begins, RunFrom
  <2>3. Begins(in, i - 1) <=> (i - 1 - first) % 2 = 0
    BY <2>1, <2>2, RunUnique
  <2>4. (i - first) % 2 = 0 <=> ~((i - 1 - first) % 2 = 0)
    BY <2>1
  <2> QED
    BY <1>2, <2>1, <2>3, <2>4
<1> QED
  BY <1>3, <1>4

LEMMA DollarNoDigit == ~IsDigit("$")
BY DEF IsDigit, Digits, ToSet

\* Where the loop comes to: at no position inside a reference.
Fresh(in, i) ==
  /\ i \in 1 .. Len(in) + 1
  /\ i # 1 => ~Begins(in, i - 1)
  /\ i <= Len(in) => \A j \in 1 .. i - 1 : ~Belongs(in, i, j)

LEMMA FreshDollar ==
  ASSUME NEW in, Len(in) \in Nat, NEW i \in 1 .. Len(in), Fresh(in, i)
  PROVE  Begins(in, i) <=> in[i] = "$"
<1>1. in[i] = "$" => Begins(in, i)
  BY BeginsByTurns DEF Fresh
<1> QED
  BY <1>1 DEF Begins

LEMMA FreshAfterPlain ==
  ASSUME NEW in, Len(in) \in Nat, NEW i \in 1 .. Len(in), Fresh(in, i), in[i] # "$"
  PROVE  Fresh(in, i + 1)
<1>1. ~Begins(in, i)
  BY DEF Begins
<1>2. ASSUME i + 1 <= Len(in), NEW j \in 1 .. i, Belongs(in, i + 1, j) PROVE FALSE
  <2>1. Begins(in, j) /\ j # i
    BY <1>1, <1>2 DEF Belongs
  <2>2. \A k \in j + 1 .. i + 1 : IsDigit(in[k])
    BY <1>2, <2>1 DEF Belongs
  <2>3. Belongs(in, i, j)
    BY <2>1, <2>2 DEF Belongs
  <2> QED
    BY <2>1, <2>3 DEF Fresh
<1> QED
  BY <1>1, <1>2 DEF Fresh

LEMMA FreshAfterPair ==
  ASSUME NEW in, Len(in) \in Nat, NEW i \in 1 .. Len(in) - 1, Fresh(in, i),
         in[i] = "$", in[i + 1] = "$"
  PROVE  /\ Fresh(in, i + 2) /\ ~Begins(in, i + 1) /\ Belongs(in, i + 1, i)
<1>1. Begins(in, i) /\ ~Begins(in, i + 1)
  BY FreshDollar, BeginsByTurns
<1>2. Belongs(in, i + 1, i)
  BY <1>1 DEF Belongs
<1>3. ASSUME i + 2 <= Len(in), NEW j \in 1 .. i + 1, Belongs(in, i + 2, j) PROVE FALSE
  <2>1. j # i + 1
    BY <1>1, <1>3 DEF Belongs
  <2>2. \A k \in j + 1 .. i + 2 : IsDigit(in[k])
    BY <1>3, <2>1 DEF Belongs
  <2> QED
    BY <2>1, <2>2, DollarNoDigit
<1> QED
  BY <1>1, <1>2, <1>3 DEF Fresh

\* The digits of a reference end before end.
LEMMA DigitsEndValue ==
  ASSUME NEW in, Len(in) \in Nat, NEW i \in 1 .. Len(in), IsDigit(in[i])
  PROVE  LET end == DigitsEnd(in, i)
         IN  /\ end \in i + 1 .. Len(in) + 1
             /\ \A k \in i .. end - 1 : IsDigit(in[k])
             /\ end <= Len(in) => ~IsDigit(in[end])
<1> DEFINE Ends == {e \in i .. Len(in) + 1 : e <= Len(in) => ~IsDigit(in[e])}
           Good(e) == /\ \A j \in i .. e - 1 : IsDigit(in[j])
                      /\ e <= Len(in) => ~IsDigit(in[e])
<1>1. Len(in) + 1 \in Ends /\ Ends \subseteq Nat
  OBVIOUS
<1>2. PICK e \in Ends : \A f \in Ends : e <= f
  <2> HIDE DEF Ends
  <2> QED
    BY <1>1, Least
<1>3. Good(e)
  <2> SUFFICES ASSUME NEW j \in i .. e - 1, ~IsDigit(in[j]) PROVE FALSE
    BY <1>2
  <2>1. j \in Ends
    BY <1>2
  <2> QED
    BY <1>2, <2>1
<1> HIDE DEF Good
<1>4. DigitsEnd(in, i) \in i .. Len(in) + 1 /\ Good(DigitsEnd(in, i))
  <2>1. DigitsEnd(in, i) = CHOOSE x \in i .. Len(in) + 1 : Good(x)
    BY DEF DigitsEnd, Good
  <2> QED
    BY <1>2, <1>3, <2>1
<1> QED
  BY <1>4 DEF Good

LEMMA FreshAfterDigits ==
  ASSUME NEW in, Len(in) \in Nat, NEW i \in 1 .. Len(in) - 1, Fresh(in, i),
         in[i] = "$", IsDigit(in[i + 1])
  PROVE  LET end == DigitsEnd(in, i + 1)
         IN  /\ Fresh(in, end) /\ end \in i + 2 .. Len(in) + 1
             /\ \A k \in i + 1 .. end - 1 : ~Begins(in, k) /\ Belongs(in, k, i)
             /\ Refers(in, i) = Number(SubSeq(in, i + 1, end - 1))
<1> DEFINE end == DigitsEnd(in, i + 1)
<1>1. /\ end \in i + 2 .. Len(in) + 1
      /\ \A k \in i + 1 .. end - 1 : IsDigit(in[k])
      /\ end <= Len(in) => ~IsDigit(in[end])
  <2>1. i + 1 \in 1 .. Len(in)
    OBVIOUS
  <2> QED
    BY <2>1, DigitsEndValue
<1> HIDE DEF end
<1>2. Begins(in, i)
  BY FreshDollar
<1>3. ASSUME NEW k \in i + 1 .. end - 1 PROVE ~Begins(in, k) /\ Belongs(in, k, i)
  <2>1. ~Begins(in, k)
    BY <1>1, DollarNoDigit DEF Begins
  <2>2. \A l \in i + 1 .. k : IsDigit(in[l])
    BY <1>1
  <2> QED
    BY <1>1, <1>2, <2>1, <2>2 DEF Belongs
<1>4. ASSUME end <= Len(in), NEW j \in 1 .. end - 1, Belongs(in, end, j) PROVE FALSE
  <2>1. end = j + 1 => FALSE
    <3> SUFFICES ASSUME end = j + 1 PROVE FALSE
      OBVIOUS
    <3>1. j \in i + 1 .. end - 1 /\ Begins(in, j)
      BY <1>1, <1>4 DEF Belongs
    <3> QED
      BY <1>3, <3>1
  <2>2. IsDigit(in[end])
    BY <1>1, <1>4, <2>1 DEF Belongs
  <2> QED
    BY <1>1, <1>4, <2>2
<1>5. ~Begins(in, end - 1)
  BY <1>1, <1>3
<1>6. Fresh(in, end)
  BY <1>1, <1>4, <1>5 DEF Fresh
<1>7. Max({i} \cup {k \in 1 .. Len(in) : Belongs(in, k, i)}) = end - 1
  <2> DEFINE Those == {i} \cup {k \in 1 .. Len(in) : Belongs(in, k, i)}
  <2>1. end - 1 \in Those /\ Those \subseteq Nat
    BY <1>1, <1>3
  <2>2. ASSUME NEW k \in 1 .. Len(in), Belongs(in, k, i), k >= end PROVE FALSE
    <3>1. end \in i + 1 .. k /\ end <= Len(in)
      BY <1>1, <2>2
    <3>2. ~(k = i + 1)
      BY <1>1, <2>2
    <3> QED
      BY <1>1, <2>2, <3>1, <3>2 DEF Belongs
  <2>3. \A k \in Those : end - 1 >= k
    BY <1>1, <2>2
  <2> HIDE DEF Those
  <2>4. \A x \in Those : (\A y \in Those : x >= y) => x = end - 1
    BY <1>1, <2>1, <2>3
  <2>5. Max(Those) = end - 1
    BY <2>1, <2>3, <2>4 DEF Max
  <2> QED
    BY <2>5 DEF Those
<1>8. Refers(in, i) = Number(SubSeq(in, i + 1, end - 1))
  BY <1>7 DEF Refers
<1> QED
  BY <1>1, <1>3, <1>6, <1>8 DEF end

----------------------------------------------------------------------------
(* The loop *)

Then(text, rest) == {text \o r : r \in rest}

\* What Replaced does at i, when f is what it does at the positions after i.
Rest(in, texts, f, i) ==
  IF i > Len(in) THEN {<< >>}
  ELSE IF in[i] # "$" THEN Then(<<in[i]>>, f[i + 1])
  ELSE IF i = Len(in) THEN {}
  ELSE IF in[i + 1] = "$" THEN Then(<<"$">>, f[i + 2])
  ELSE IF ~IsDigit(in[i + 1]) THEN {}
  ELSE LET end == DigitsEnd(in, i + 1)
           n == Number(SubSeq(in, i + 1, end - 1))
       IN  IF n \in DOMAIN texts THEN Then(texts[n], f[end]) ELSE {}

Loop(in, texts, f, first) ==
  \A i \in first .. Len(in) + 2 : f[i] = Rest(in, texts, f, i)

Texts(S, in, texts) ==
  /\ in \in Seq(S) /\ "$" \in S
  /\ \A n \in DOMAIN texts : texts[n] \in Seq(S)

LEMMA ThenType ==
  ASSUME NEW S, NEW text \in Seq(S), NEW rest \in SUBSET Seq(S)
  PROVE  Then(text, rest) \in SUBSET Seq(S)
<1>1. \A r \in rest : text \o r \in Seq(S)
  OBVIOUS
<1> QED
  BY <1>1, Zenon DEF Then

LEMMA RestLater ==
  ASSUME NEW in, Len(in) \in Nat, NEW texts, NEW i \in 1 .. Len(in) + 2, NEW f, NEW g,
         \A j \in i + 1 .. Len(in) + 2 : f[j] = g[j]
  PROVE  Rest(in, texts, f, i) = Rest(in, texts, g, i)
<1>1. CASE i > Len(in)
  BY <1>1 DEF Rest
<1>2. CASE i <= Len(in) /\ in[i] # "$"
  <2>1. f[i + 1] = g[i + 1]
    BY <1>2
  <2> QED
    BY <1>2, <2>1 DEF Rest
<1>3. CASE i <= Len(in) /\ in[i] = "$"
  <2>1. f[i + 2] = g[i + 2]
    BY <1>3
  <2>2. CASE i # Len(in) /\ IsDigit(in[i + 1])
    <3>1. i + 1 \in 1 .. Len(in)
      BY <1>3, <2>2
    <3>2. DigitsEnd(in, i + 1) \in i + 2 .. Len(in) + 1
      BY <2>2, <3>1, DigitsEndValue
    <3>3. f[DigitsEnd(in, i + 1)] = g[DigitsEnd(in, i + 1)]
      BY <3>2
    <3> QED
      BY <1>3, <2>1, <2>2, <3>3 DEF Rest
  <2>3. CASE i = Len(in) \/ ~IsDigit(in[i + 1])
    BY <1>3, <2>1, <2>3 DEF Rest
  <2> QED
    BY <2>2, <2>3
<1> QED
  BY <1>1, <1>2, <1>3

LEMMA RestType ==
  ASSUME NEW S, NEW in, NEW texts, Texts(S, in, texts), NEW i \in 1 .. Len(in) + 2, NEW f,
         \A j \in i + 1 .. Len(in) + 2 : f[j] \in SUBSET Seq(S)
  PROVE  Rest(in, texts, f, i) \in SUBSET Seq(S)
<1>0. in \in Seq(S) /\ Len(in) \in Nat /\ "$" \in S
  BY DEF Texts
<1>1. CASE i > Len(in)
  BY <1>1 DEF Rest
<1>2. CASE i <= Len(in) /\ in[i] # "$"
  <2>1. f[i + 1] \in SUBSET Seq(S) /\ <<in[i]>> \in Seq(S)
    BY <1>0, <1>2
  <2>2. Rest(in, texts, f, i) = Then(<<in[i]>>, f[i + 1])
    BY <1>0, <1>2 DEF Rest
  <2> QED
    BY <2>1, <2>2, ThenType
<1>3. CASE i <= Len(in) /\ in[i] = "$"
  <2>1. CASE i = Len(in)
    BY <1>0, <1>3, <2>1 DEF Rest
  <2>2. CASE i # Len(in) /\ in[i + 1] = "$"
    <3>1. f[i + 2] \in SUBSET Seq(S) /\ <<"$">> \in Seq(S)
      BY <1>0, <1>3, <2>2
    <3>2. Rest(in, texts, f, i) = Then(<<"$">>, f[i + 2])
      BY <1>0, <1>3, <2>2 DEF Rest
    <3> QED
      BY <3>1, <3>2, ThenType
  <2>3. CASE i # Len(in) /\ in[i + 1] # "$" /\ ~IsDigit(in[i + 1])
    BY <1>0, <1>3, <2>3 DEF Rest
  <2>4. CASE i # Len(in) /\ in[i + 1] # "$" /\ IsDigit(in[i + 1])
    <3> DEFINE end == DigitsEnd(in, i + 1)
               n == Number(SubSeq(in, i + 1, end - 1))
    <3>1. i + 1 \in 1 .. Len(in)
      BY <1>0, <1>3, <2>4
    <3>2. end \in i + 2 .. Len(in) + 1
      BY <1>0, <2>4, <3>1, DigitsEndValue
    <3>3. f[end] \in SUBSET Seq(S)
      BY <1>0, <3>2
    <3>4. Rest(in, texts, f, i) = IF n \in DOMAIN texts THEN Then(texts[n], f[end]) ELSE {}
      BY <1>0, <1>3, <2>4 DEF Rest
    <3>5. n \in DOMAIN texts => texts[n] \in Seq(S)
      BY DEF Texts
    <3> HIDE DEF n, end
    <3>6. n \in DOMAIN texts => Then(texts[n], f[end]) \in SUBSET Seq(S)
      BY <3>3, <3>5, ThenType
    <3> QED
      BY <3>4, <3>6
  <2> QED
    BY <2>1, <2>2, <2>3, <2>4
<1> QED
  BY <1>0, <1>1, <1>2, <1>3

LEMMA LoopExists ==
  ASSUME NEW S, NEW in, NEW texts, Texts(S, in, texts), NEW first \in 1 .. Len(in) + 2
  PROVE  \E f \in [first .. Len(in) + 2 -> SUBSET Seq(S)] : Loop(in, texts, f, first)
<1> DEFINE last == Len(in) + 2
           Good(k) == \E f \in [k .. last -> SUBSET Seq(S)] : Loop(in, texts, f, k)
           Bad == {n \in 0 .. last - 1 : ~Good(last - n)}
<1>0. Len(in) \in Nat
  BY DEF Texts
<1>1. Good(last)
  <2> DEFINE f == [i \in last .. last |-> {<< >>}]
  <2>1. f \in [last .. last -> SUBSET Seq(S)]
    OBVIOUS
  <2>2. Loop(in, texts, f, last)
    BY <1>0 DEF Loop, Rest
  <2> QED
    BY <2>1, <2>2, Zenon
<1>2. ASSUME NEW k \in 1 .. last - 1, Good(k + 1) PROVE Good(k)
  <2>1. PICK f \in [k + 1 .. last -> SUBSET Seq(S)] : Loop(in, texts, f, k + 1)
    BY <1>2
  <2> DEFINE here == Rest(in, texts, f, k)
             g == [i \in k .. last |-> IF i = k THEN here ELSE f[i]]
  <2>2. here \in SUBSET Seq(S)
    <3>1. \A j \in k + 1 .. last : f[j] \in SUBSET Seq(S)
      BY <2>1
    <3> QED
      BY <1>0, <3>1, RestType
  <2> HIDE DEF here
  <2>3. g \in [k .. last -> SUBSET Seq(S)]
    BY <1>0, <2>2
  <2>4. /\ \A j \in k + 1 .. last : g[j] = f[j]
        /\ g[k] = here
    BY <1>0
  <2> HIDE DEF g
  <2>5. ASSUME NEW i \in k .. last PROVE g[i] = Rest(in, texts, g, i)
    <3>1. Rest(in, texts, g, i) = Rest(in, texts, f, i)
      <4>1. \A j \in i + 1 .. last : g[j] = f[j]
        BY <1>0, <2>4
      <4>2. i \in 1 .. Len(in) + 2
        BY <1>0
      <4> QED
        BY <1>0, <4>1, <4>2, RestLater
    <3>2. CASE i = k
      BY <2>4, <3>1, <3>2 DEF here
    <3>3. CASE i # k
      <4>1. i \in k + 1 .. last
        BY <1>0, <3>3
      <4> QED
        BY <2>1, <2>4, <3>1, <4>1 DEF Loop
    <3> QED
      BY <3>2, <3>3
  <2> QED
    BY <2>3, <2>5 DEF Loop
<1> HIDE DEF Good
<1>3. Bad = {}
  <2> SUFFICES ASSUME Bad # {} PROVE FALSE
    OBVIOUS
  <2>0. Bad \subseteq Nat
    BY <1>0
  <2>1. PICK n \in Bad : \A m \in Bad : n <= m
    <3> HIDE DEF Bad
    <3> QED
      BY <2>0, Least
  <2>2. n # 0 /\ n \in 0 .. last - 1 /\ n - 1 \notin Bad
    BY <1>0, <1>1, <2>1
  <2>3. Good(last - n + 1)
    BY <1>0, <2>2
  <2> QED
    BY <1>0, <1>2, <2>1, <2>2, <2>3
<1>4. last - first \in 0 .. last - 1 /\ last - (last - first) = first
  BY <1>0
<1>5. Good(first)
  BY <1>3, <1>4
<1> QED
  BY <1>5 DEF Good

LEMMA LoopUnique ==
  ASSUME NEW in, Len(in) \in Nat, NEW texts, NEW f, NEW g,
         Loop(in, texts, f, 1), Loop(in, texts, g, 1)
  PROVE  \A i \in 1 .. Len(in) + 2 : f[i] = g[i]
<1> DEFINE last == Len(in) + 2
           Bad == {n \in 0 .. last - 1 : f[last - n] # g[last - n]}
<1>1. Bad = {}
  <2> SUFFICES ASSUME Bad # {} PROVE FALSE
    OBVIOUS
  <2>0. Bad \subseteq Nat
    OBVIOUS
  <2>1. PICK n \in Bad : \A m \in Bad : n <= m
    <3> HIDE DEF Bad
    <3> QED
      BY <2>0, Least
  <2> DEFINE i == last - n
  <2>2. i \in 1 .. last /\ f[i] # g[i]
    BY <2>1
  <2>3. ASSUME NEW j \in i + 1 .. last PROVE f[j] = g[j]
    <3>1. last - j \in 0 .. last - 1 /\ last - j < n /\ last - (last - j) = j
      BY <2>1
    <3>2. last - j \notin Bad
      BY <2>1, <3>1
    <3> QED
      BY <3>1, <3>2
  <2> HIDE DEF i
  <2>4. Rest(in, texts, f, i) = Rest(in, texts, g, i)
    BY <2>2, <2>3, RestLater
  <2> QED
    BY <2>2, <2>4 DEF Loop
<1>2. ASSUME NEW i \in 1 .. last PROVE f[i] = g[i]
  <2>1. last - i \in 0 .. last - 1 /\ last - (last - i) = i
    OBVIOUS
  <2> QED
    BY <1>1, <2>1
<1> QED
  BY <1>2

LEMMA ReplacedValue ==
  ASSUME NEW S, NEW in, NEW texts, Texts(S, in, texts)
  PROVE  \E f \in [1 .. Len(in) + 2 -> SUBSET Seq(S)] :
           Loop(in, texts, f, 1) /\ Replaced(in, texts) = f[1]
<1> DEFINE Step(h) == [i \in 1 .. Len(in) + 2 |-> Rest(in, texts, h, i)]
           h == CHOOSE h : h = Step(h)
<1>0. Len(in) \in Nat
  BY DEF Texts
<1>1. Replaced(in, texts) = h[1]
  BY DEF Replaced, Rest, Then
<1>2. PICK f \in [1 .. Len(in) + 2 -> SUBSET Seq(S)] : Loop(in, texts, f, 1)
  <2>1. 1 \in 1 .. Len(in) + 2
    BY <1>0
  <2> QED
    BY <2>1, LoopExists
<1>3. f = Step(f)
  BY <1>2 DEF Loop
<1>4. h = Step(h)
  BY <1>3, Zenon
<1> HIDE DEF h
<1>5. Loop(in, texts, h, 1)
  BY <1>4 DEF Loop
<1>6. h[1] = f[1]
  BY <1>0, <1>2, <1>5, LoopUnique
<1> QED
  BY <1>1, <1>2, <1>6

----------------------------------------------------------------------------
(* The loop and what a text denotes *)

LEMMA Greatest ==
  ASSUME NEW n \in Nat, NEW S, S \subseteq 1 .. n, S # {}
  PROVE  \E i \in S : \A j \in S : j <= i
<1> DEFINE Left == {k \in Nat : n - k \in S}
<1>1. Left \subseteq Nat /\ Left # {}
  <2>1. PICK i \in S : TRUE
    OBVIOUS
  <2>2. n - i \in Left
    BY <2>1
  <2> QED
    BY <2>2
<1>2. PICK k \in Left : \A l \in Left : k <= l
  <2> HIDE DEF Left
  <2> QED
    BY <1>1, Least
<1>3. ASSUME NEW j \in S PROVE j <= n - k
  <2>1. n - j \in Left /\ j \in Nat
    OBVIOUS
  <2>2. k <= n - j /\ k \in Nat
    BY <1>2, <2>1
  <2> QED
    BY <2>1, <2>2
<1> QED
  BY <1>2, <1>3

LEMMA FlattenNone == FlattenSeq(<< >>) = << >>
BY DEF FlattenSeq

LEMMA ThenThen ==
  ASSUME NEW S, NEW t \in Seq(S), NEW u \in Seq(S), NEW rest \in SUBSET Seq(S)
  PROVE  Then(t, Then(u, rest)) = Then(t \o u, rest)
<1>1. \A r \in rest : t \o (u \o r) = (t \o u) \o r
  OBVIOUS
<1>2. Then(t, Then(u, rest)) = {t \o (u \o r) : r \in rest}
  <2> DEFINE w(r) == u \o r
  <2>1. Then(u, rest) = {w(r) : r \in rest}
    BY Zenon DEF Then
  <2>2. Then(t, Then(u, rest)) = {t \o x : x \in {w(r) : r \in rest}}
    BY <2>1, Zenon DEF Then
  <2> QED
    BY <2>2, Zenon
<1>3. {t \o (u \o r) : r \in rest} = {(t \o u) \o r : r \in rest}
  BY <1>1, Zenon
<1> QED
  BY <1>2, <1>3, Zenon DEF Then

\* The pieces of Denoted, and the reference at i is one that exists.
Denotation(in, texts, i) ==
  IF Begins(in, i)
  THEN IF in[i + 1] = "$" THEN <<"$">> ELSE texts[Refers(in, i)]
  ELSE IF \E j \in 1 .. i - 1 : Belongs(in, i, j) THEN << >> ELSE <<in[i]>>

Fits(in, texts, i) ==
  /\ i < Len(in)
  /\ in[i + 1] = "$" \/ (IsDigit(in[i + 1]) /\ Refers(in, i) \in DOMAIN texts)

Before(in, texts, i) == [k \in 1 .. i - 1 |-> Denotation(in, texts, k)]
FitsBefore(in, texts, i) == \A k \in 1 .. i - 1 : Begins(in, k) => Fits(in, texts, k)

LEMMA DenotationType ==
  ASSUME NEW S, NEW in, NEW texts, Texts(S, in, texts), NEW i \in 1 .. Len(in),
         Begins(in, i) => Fits(in, texts, i)
  PROVE  Denotation(in, texts, i) \in Seq(S)
<1>1. in[i] \in S /\ "$" \in S
  BY DEF Texts
<1>2. CASE Begins(in, i) /\ in[i + 1] # "$"
  <2>1. texts[Refers(in, i)] \in Seq(S)
    BY <1>2 DEF Fits, Texts
  <2> QED
    BY <1>2, <2>1 DEF Denotation
<1>3. CASE ~(Begins(in, i) /\ in[i + 1] # "$")
  <2>1. <<"$">> \in Seq(S) /\ << >> \in Seq(S) /\ <<in[i]>> \in Seq(S)
    BY <1>1
  <2> QED
    BY <1>3, <2>1 DEF Denotation
<1> QED
  BY <1>2, <1>3

LEMMA BeforeNext ==
  ASSUME NEW S, NEW in, NEW texts, Texts(S, in, texts), NEW i \in 1 .. Len(in),
         FitsBefore(in, texts, i + 1)
  PROVE  /\ FlattenSeq(Before(in, texts, i)) \in Seq(S)
         /\ Denotation(in, texts, i) \in Seq(S)
         /\ FlattenSeq(Before(in, texts, i + 1)) =
              FlattenSeq(Before(in, texts, i)) \o Denotation(in, texts, i)
<1> DEFINE d == Denotation(in, texts, i)
           before == Before(in, texts, i)
<1>0. Len(in) \in Nat
  BY DEF Texts
<1>1. ASSUME NEW k \in 1 .. i PROVE Denotation(in, texts, k) \in Seq(S)
  <2>1. k \in 1 .. Len(in) /\ (Begins(in, k) => Fits(in, texts, k))
    BY <1>0 DEF FitsBefore
  <2> QED
    BY <2>1, DenotationType
<1>2. d \in Seq(S)
  BY <1>1
<1>3. before \in Seq(Seq(S)) /\ Len(before) = i - 1
  <2>1. before = [k \in 1 .. i - 1 |-> Denotation(in, texts, k)] /\ i - 1 \in Nat
    BY DEF Before
  <2>2. \A k \in 1 .. i - 1 : Denotation(in, texts, k) \in Seq(S)
    BY <1>1
  <2> HIDE DEF before
  <2> QED
    BY <2>1, <2>2
<1>4. Before(in, texts, i + 1) = Append(before, d)
  <2>1. Before(in, texts, i + 1) =
          [k \in 1 .. i |-> IF k = i THEN d ELSE before[k]]
    BY DEF Before
  <2> HIDE DEF before, d
  <2> DEFINE m == Len(before)
  <2>2. Append(before, d) = [k \in 1 .. m + 1 |-> IF k = m + 1 THEN d ELSE before[k]]
    <3>1. before \in Seq(Seq(S)) /\ d \in Seq(S) /\ m \in Nat
      BY <1>2, <1>3
    <3>2. /\ Append(before, d) \in Seq(Seq(S)) /\ Len(Append(before, d)) = m + 1
          /\ \A k \in 1 .. m : Append(before, d)[k] = before[k]
          /\ Append(before, d)[m + 1] = d
      BY <3>1, AppendProperties
    <3> DEFINE t == Append(before, d)
    <3>a. t \in Seq(Seq(S)) /\ Len(t) = m + 1
      BY <3>2
    <3> HIDE DEF t, m
    <3>3. t = [k \in 1 .. m + 1 |-> t[k]]
      BY <3>a
    <3> QED
      BY <3>1, <3>2, <3>3 DEF t
  <2>3. m + 1 = i
    BY <1>3
  <2> QED
    BY <2>1, <2>2, <2>3
<1> HIDE DEF before, d
<1>5. FlattenSeq(before) \in Seq(S) /\ FlattenSeq(Append(before, d)) = FlattenSeq(before) \o d
  BY <1>2, <1>3, FlattenAppend
<1> QED
  BY <1>2, <1>4, <1>5 DEF before, d

\* The loop has come to b; what it has put out is what the characters before
\* i denote, and those from i to b denote nothing.
Reached(in, texts, f, i, b) ==
  /\ i \in 1 .. b /\ Fresh(in, b)
  /\ FitsBefore(in, texts, i)
  /\ \A k \in i .. b - 1 : ~Begins(in, k) /\ \E j \in 1 .. k - 1 : Belongs(in, k, j)
  /\ f[1] = Then(FlattenSeq(Before(in, texts, i)), f[b])

LEMMA ReachedPast ==
  ASSUME NEW S, NEW in, NEW texts, Texts(S, in, texts), NEW f,
         NEW b \in 1 .. Len(in) + 1, NEW i \in 1 .. b - 1, Reached(in, texts, f, i, b)
  PROVE  Reached(in, texts, f, i + 1, b)
<1>0. Len(in) \in Nat
  BY DEF Texts
<1>1. ~Begins(in, i) /\ Denotation(in, texts, i) = << >>
  BY <1>0 DEF Reached, Denotation
<1>2. FitsBefore(in, texts, i + 1)
  BY <1>0, <1>1 DEF Reached, FitsBefore
<1>3. i \in 1 .. Len(in)
  BY <1>0
<1>4. FlattenSeq(Before(in, texts, i + 1)) = FlattenSeq(Before(in, texts, i))
  <2>1. /\ FlattenSeq(Before(in, texts, i)) \in Seq(S)
        /\ FlattenSeq(Before(in, texts, i + 1)) = FlattenSeq(Before(in, texts, i)) \o << >>
    BY <1>1, <1>2, <1>3, BeforeNext
  <2>2. \A s \in Seq(S) : s \o << >> = s
    OBVIOUS
  <2> QED
    BY <2>1, <2>2
<1> QED
  BY <1>0, <1>2, <1>4 DEF Reached

LEMMA ReachedNext ==
  ASSUME NEW S, NEW in, NEW texts, Texts(S, in, texts),
         NEW f \in [1 .. Len(in) + 2 -> SUBSET Seq(S)],
         NEW i \in 1 .. Len(in), Reached(in, texts, f, i, i),
         Begins(in, i) => Fits(in, texts, i),
         NEW e \in i + 1 .. Len(in) + 1, Fresh(in, e),
         \A k \in i + 1 .. e - 1 : ~Begins(in, k) /\ Belongs(in, k, i),
         f[i] = Then(Denotation(in, texts, i), f[e])
  PROVE  Reached(in, texts, f, i + 1, e)
<1>0. Len(in) \in Nat
  BY DEF Texts
<1>1. FitsBefore(in, texts, i + 1)
  BY <1>0 DEF Reached, FitsBefore
<1>2. f[1] = Then(FlattenSeq(Before(in, texts, i + 1)), f[e])
  <2>1. /\ FlattenSeq(Before(in, texts, i)) \in Seq(S) /\ Denotation(in, texts, i) \in Seq(S)
        /\ FlattenSeq(Before(in, texts, i + 1)) =
             FlattenSeq(Before(in, texts, i)) \o Denotation(in, texts, i)
    BY <1>1, BeforeNext
  <2>2. f[e] \in SUBSET Seq(S)
    BY <1>0
  <2>3. f[1] = Then(FlattenSeq(Before(in, texts, i)), Then(Denotation(in, texts, i), f[e]))
    BY DEF Reached
  <2>4. Then(FlattenSeq(Before(in, texts, i)), Then(Denotation(in, texts, i), f[e]))
          = Then(FlattenSeq(Before(in, texts, i)) \o Denotation(in, texts, i), f[e])
    BY <2>1, <2>2, ThenThen
  <2> QED
    BY <2>1, <2>3, <2>4
<1>3. \A k \in i + 1 .. e - 1 : ~Begins(in, k) /\ \E j \in 1 .. k - 1 : Belongs(in, k, j)
  <2> SUFFICES ASSUME NEW k \in i + 1 .. e - 1 PROVE \E j \in 1 .. k - 1 : Belongs(in, k, j)
    OBVIOUS
  <2>1. i \in 1 .. k - 1
    BY <1>0
  <2> QED
    BY <2>1
<1> QED
  BY <1>0, <1>1, <1>2, <1>3 DEF Reached

\* From a position that is not the last the loop goes on, or fails.
LEMMA LoopStep ==
  ASSUME NEW S, NEW in, NEW texts, Texts(S, in, texts),
         NEW f \in [1 .. Len(in) + 2 -> SUBSET Seq(S)], Loop(in, texts, f, 1),
         NEW i \in 1 .. Len(in), Reached(in, texts, f, i, i)
  PROVE  \/ \E e \in i + 1 .. Len(in) + 1 : Reached(in, texts, f, i + 1, e)
         \/ Begins(in, i) /\ ~Fits(in, texts, i) /\ f[i] = {}
<1>0. Len(in) \in Nat /\ Fresh(in, i)
  BY DEF Texts, Reached
<1>1. f[i] = Rest(in, texts, f, i)
  BY <1>0 DEF Loop
<1>2. Begins(in, i) <=> in[i] = "$"
  BY <1>0, FreshDollar
<1>3. CASE in[i] # "$"
  <2>1. Denotation(in, texts, i) = <<in[i]>>
    BY <1>0, <1>2, <1>3 DEF Denotation, Fresh
  <2>2. f[i] = Then(Denotation(in, texts, i), f[i + 1])
    BY <1>0, <1>1, <1>3, <2>1 DEF Rest
  <2>3. Fresh(in, i + 1) /\ i + 1 \in i + 1 .. Len(in) + 1
    BY <1>0, <1>3, FreshAfterPlain
  <2>4. \A k \in i + 1 .. (i + 1) - 1 : ~Begins(in, k) /\ Belongs(in, k, i)
    OBVIOUS
  <2>5. Reached(in, texts, f, i + 1, i + 1)
    BY <1>2, <1>3, <2>2, <2>3, <2>4, ReachedNext
  <2> QED
    BY <2>3, <2>5
<1>4. CASE in[i] = "$" /\ i # Len(in) /\ in[i + 1] = "$"
  <2>1. Denotation(in, texts, i) = <<"$">> /\ Fits(in, texts, i)
    BY <1>0, <1>2, <1>4 DEF Denotation, Fits
  <2>2. f[i] = Then(Denotation(in, texts, i), f[i + 2])
    BY <1>0, <1>1, <1>4, <2>1 DEF Rest
  <2>3. Fresh(in, i + 2) /\ ~Begins(in, i + 1) /\ Belongs(in, i + 1, i)
    <3>1. i \in 1 .. Len(in) - 1
      BY <1>0, <1>4
    <3> QED
      BY <1>0, <1>4, <3>1, FreshAfterPair
  <2>4. /\ i + 2 \in i + 1 .. Len(in) + 1
        /\ \A k \in i + 1 .. (i + 2) - 1 : ~Begins(in, k) /\ Belongs(in, k, i)
    <3>1. \A k \in i + 1 .. (i + 2) - 1 : k = i + 1
      BY <1>0
    <3> QED
      BY <1>0, <1>4, <2>3, <3>1
  <2>5. Reached(in, texts, f, i + 1, i + 2)
    BY <2>1, <2>2, <2>3, <2>4, ReachedNext
  <2> QED
    BY <2>4, <2>5
<1>5. CASE in[i] = "$" /\ i # Len(in) /\ in[i + 1] # "$" /\ IsDigit(in[i + 1])
  <2> DEFINE end == DigitsEnd(in, i + 1)
             n == Number(SubSeq(in, i + 1, end - 1))
  <2>1. /\ Fresh(in, end) /\ end \in i + 2 .. Len(in) + 1
        /\ \A k \in i + 1 .. end - 1 : ~Begins(in, k) /\ Belongs(in, k, i)
        /\ Refers(in, i) = n
    <3>1. i \in 1 .. Len(in) - 1
      BY <1>0, <1>5
    <3> QED
      BY <1>0, <1>5, <3>1, FreshAfterDigits
  <2>2. f[i] = IF n \in DOMAIN texts THEN Then(texts[n], f[end]) ELSE {}
    BY <1>0, <1>1, <1>5 DEF Rest
  <2> HIDE DEF end, n
  <2>3. CASE n \in DOMAIN texts
    <3>1. Denotation(in, texts, i) = texts[n] /\ Fits(in, texts, i)
      BY <1>0, <1>2, <1>5, <2>1, <2>3 DEF Denotation, Fits
    <3>2. end \in i + 1 .. Len(in) + 1
      BY <1>0, <2>1
    <3>3. Reached(in, texts, f, i + 1, end)
      BY <2>1, <2>2, <2>3, <3>1, <3>2, ReachedNext
    <3> QED
      BY <3>2, <3>3
  <2>4. CASE n \notin DOMAIN texts
    BY <1>2, <1>5, <2>1, <2>2, <2>4 DEF Fits
  <2> QED
    BY <2>3, <2>4
<1>6. CASE in[i] = "$" /\ (i = Len(in) \/ (in[i + 1] # "$" /\ ~IsDigit(in[i + 1])))
  BY <1>0, <1>1, <1>2, <1>6 DEF Rest, Fits
<1> QED
  BY <1>3, <1>4, <1>5, <1>6

\* _TemplateReplace() and _regexReplace() put out what the text denotes, and
\* refuse exactly the texts with a reference to nothing (Config.cpp:214-252,
\* CoAPServer.cpp:220-264), for texts of any length.
THEOREM ReplacedDenotes ==
  ASSUME NEW S, NEW in, NEW texts, Texts(S, in, texts)
  PROVE  Replaced(in, texts) =
           IF WellFormed(in, texts) THEN {Denoted(in, texts)} ELSE {}
<1>0. Len(in) \in Nat
  BY DEF Texts
<1>1. PICK f \in [1 .. Len(in) + 2 -> SUBSET Seq(S)] :
        Loop(in, texts, f, 1) /\ Replaced(in, texts) = f[1]
  BY ReplacedValue
<1> DEFINE Positions == {i \in 1 .. Len(in) + 1 :
                           \E b \in 1 .. Len(in) + 1 : Reached(in, texts, f, i, b)}
<1>2. 1 \in Positions
  <2>1. Fresh(in, 1)
    BY <1>0 DEF Fresh
  <2>2. Before(in, texts, 1) = << >>
    BY DEF Before
  <2>3. FlattenSeq(<< >>) = << >>
    BY FlattenNone
  <2>4. f[1] = Then(<< >>, f[1])
    <3>1. f[1] \in SUBSET Seq(S)
      BY <1>0
    <3>2. \A r \in f[1] : << >> \o r = r
      BY <3>1
    <3> QED
      BY <3>2 DEF Then
  <2>5. Reached(in, texts, f, 1, 1)
    BY <2>1, <2>2, <2>3, <2>4 DEF Reached, FitsBefore
  <2> QED
    BY <1>0, <2>5
<1>3. PICK i \in Positions : \A j \in Positions : j <= i
  <2>1. Positions \subseteq 1 .. Len(in) + 1 /\ Len(in) + 1 \in Nat /\ Positions # {}
    BY <1>0, <1>2
  <2> HIDE DEF Positions
  <2> QED
    BY <2>1, Greatest
<1>4. PICK b \in 1 .. Len(in) + 1 : Reached(in, texts, f, i, b)
  BY <1>3
<1>5. i = b
  <2> SUFFICES ASSUME i # b PROVE FALSE
    OBVIOUS
  <2>1. i \in 1 .. b - 1 /\ i + 1 \in 1 .. Len(in) + 1
    BY <1>0, <1>3, <1>4, <2>1 DEF Reached
  <2>2. Reached(in, texts, f, i + 1, b)
    BY <1>0, <1>4, <2>1, ReachedPast
  <2>3. i + 1 \in Positions
    BY <2>1, <2>2
  <2> QED
    BY <1>0, <1>3, <2>1, <2>3
<1>6. CASE i <= Len(in)
  <2>1. i \in 1 .. Len(in) /\ Reached(in, texts, f, i, i)
    BY <1>0, <1>3, <1>4, <1>5, <1>6
  <2>2. ~\E e \in i + 1 .. Len(in) + 1 : Reached(in, texts, f, i + 1, e)
    <3> SUFFICES ASSUME NEW e \in i + 1 .. Len(in) + 1, Reached(in, texts, f, i + 1, e)
                 PROVE  FALSE
      OBVIOUS
    <3>1. i + 1 \in Positions
      BY <1>0, <2>1
    <3> QED
      BY <1>0, <1>3, <2>1, <3>1
  <2>3. Begins(in, i) /\ ~Fits(in, texts, i) /\ f[i] = {}
    BY <1>1, <2>1, <2>2, LoopStep
  <2>4. ~WellFormed(in, texts)
    BY <2>1, <2>3 DEF WellFormed, Fits
  <2>5. f[1] = {}
    BY <2>1, <2>3 DEF Reached, Then
  <2> QED
    BY <1>1, <2>4, <2>5
<1>7. CASE i = Len(in) + 1
  <2>1. WellFormed(in, texts)
    BY <1>0, <1>4, <1>7 DEF Reached, FitsBefore, WellFormed, Fits
  <2>2. Denoted(in, texts) = FlattenSeq(Before(in, texts, i))
    <3>1. Before(in, texts, i) = [k \in 1 .. Len(in) |-> Denotation(in, texts, k)]
      BY <1>0, <1>7 DEF Before
    <3> QED
      BY <3>1, Zenon DEF Denoted, Denotation
  <2>3. f[i] = {<< >>}
    <3>1. i > Len(in) /\ i \in 1 .. Len(in) + 2
      BY <1>0, <1>7
    <3>2. f[i] = Rest(in, texts, f, i)
      BY <1>1, <3>1 DEF Loop
    <3> QED
      BY <3>1, <3>2, Zenon DEF Rest
  <2>4. f[1] = {FlattenSeq(Before(in, texts, i)) \o << >>}
    BY <1>4, <1>5, <2>3 DEF Reached, Then
  <2>5. FlattenSeq(Before(in, texts, i)) \in Seq(S)
    <3>1. CASE i = 1
      <4>1. Before(in, texts, i) = << >>
        BY <3>1 DEF Before
      <4>2. FlattenSeq(Before(in, texts, i)) = << >>
        BY <4>1, FlattenNone
      <4>3. << >> \in Seq(S)
        OBVIOUS
      <4> QED
        BY <4>2, <4>3
    <3>2. CASE i # 1
      <4>1. Len(in) \in 1 .. Len(in) /\ FitsBefore(in, texts, Len(in) + 1)
        BY <1>0, <1>3, <1>4, <1>7, <3>2 DEF Reached
      <4>2. /\ FlattenSeq(Before(in, texts, Len(in))) \in Seq(S)
            /\ Denotation(in, texts, Len(in)) \in Seq(S)
            /\ FlattenSeq(Before(in, texts, Len(in) + 1)) =
                 FlattenSeq(Before(in, texts, Len(in))) \o Denotation(in, texts, Len(in))
        BY <4>1, BeforeNext
      <4>3. FlattenSeq(Before(in, texts, Len(in))) \o Denotation(in, texts, Len(in)) \in Seq(S)
        BY <4>2
      <4> QED
        BY <1>7, <4>2, <4>3, Zenon
    <3> QED
      BY <3>1, <3>2
  <2>6. \A s \in Seq(S) : s \o << >> = s
    OBVIOUS
  <2> QED
    BY <1>1, <2>1, <2>2, <2>4, <2>5, <2>6
<1> QED
  BY <1>0, <1>3, <1>6, <1>7

----------------------------------------------------------------------------
(* What is read is what is written *)

LEMMA SequenceIn ==
  ASSUME NEW s, IsSequence(s), NEW S, ToSet(s) \subseteq S
  PROVE  s \in Seq(S)
<1>1. Len(s) \in Nat /\ s = [i \in 1 .. Len(s) |-> s[i]]
  BY DEF IsSequence
<1>2. \A i \in 1 .. Len(s) : s[i] \in S
  BY <1>1 DEF ToSet
<1> QED
  BY <1>1, <1>2

LEMMA IsSequenceOf ==
  ASSUME NEW S, NEW s \in Seq(S)
  PROVE  IsSequence(s)
<1>1. Len(s) \in Nat /\ s = [i \in 1 .. Len(s) |-> s[i]]
  OBVIOUS
<1>2. \A i \in 1 .. Len(s) : s[i] \in ToSet(s)
  BY DEF ToSet
<1>3. s \in Seq(ToSet(s))
  BY <1>1, <1>2
<1> QED
  BY <1>3 DEF IsSequence

\* A template's text: what it denotes, or an error.
LEMMA ReplacedText ==
  ASSUME NEW in, IsSequence(in), NEW texts, \A n \in DOMAIN texts : IsSequence(texts[n])
  PROVE  Replaced(in, texts) = IF WellFormed(in, texts) THEN {Denoted(in, texts)} ELSE {}
<1> DEFINE S == ToSet(in) \cup {"$"} \cup UNION {ToSet(texts[n]) : n \in DOMAIN texts}
<1>1. in \in Seq(S)
  BY SequenceIn
<1>2. \A n \in DOMAIN texts : texts[n] \in Seq(S)
  <2> SUFFICES ASSUME NEW n \in DOMAIN texts PROVE texts[n] \in Seq(S)
    OBVIOUS
  <2>1. ToSet(texts[n]) \subseteq S
    OBVIOUS
  <2> HIDE DEF S
  <2> QED
    BY <2>1, SequenceIn
<1>3. "$" \in S
  OBVIOUS
<1> HIDE DEF S
<1>4. Texts(S, in, texts)
  BY <1>1, <1>2, <1>3 DEF Texts
<1> QED
  BY <1>4, ReplacedDenotes

\* Keys with at most one value each.
LEMMA AllOfValue ==
  ASSUME NEW keys, NEW v, \A i \in DOMAIN keys : keys[i] = {} \/ keys[i] = {v[i]}
  PROVE  AllOf(keys) = IF \A i \in DOMAIN keys : keys[i] # {}
                       THEN {[i \in DOMAIN keys |-> v[i]]} ELSE {}
<1>1. CASE \E i \in DOMAIN keys : keys[i] = {}
  BY <1>1 DEF AllOf
<1>2. CASE \A i \in DOMAIN keys : keys[i] # {}
  <2>1. \A i \in DOMAIN keys : (CHOOSE x \in keys[i] : TRUE) = v[i]
    BY <1>2
  <2>2. [i \in DOMAIN keys |-> CHOOSE x \in keys[i] : TRUE] = [i \in DOMAIN keys |-> v[i]]
    BY <2>1
  <2>3. AllOf(keys) = {[i \in DOMAIN keys |-> CHOOSE x \in keys[i] : TRUE]}
    BY <1>2, Zenon DEF AllOf
  <2> QED
    BY <1>2, <2>2, <2>3
<1> QED
  BY <1>1, <1>2

\* A method and a resource as Config's constructors make them.
MethodRead(m) ==
  /\ m = [type |-> m.type, format |-> m.format, log |-> m.log, flags |-> m.flags, cmd |-> m.cmd]
  /\ IsSequence(m.cmd) /\ m.format = [i \in DOMAIN m.format |-> m.format[i]]
  /\ \A i \in DOMAIN m.format : IsSequence(m.format[i])

ResourceRead(r) ==
  /\ r = [path |-> r.path, name |-> r.name, value |-> r.value, logFile |-> r.logFile,
          dataFile |-> r.dataFile, flags |-> r.flags, dynamic |-> r.dynamic,
          methods |-> r.methods]
  /\ \A text \in {r.path, r.name, r.value, r.logFile, r.dataFile} : IsSequence(text)
  /\ r.methods = [i \in DOMAIN r.methods |-> r.methods[i]]
  /\ \A i \in DOMAIN r.methods : MethodRead(r.methods[i])

ArgsGiven(args) == \A n \in DOMAIN args : IsSequence(args[n])

WellFormedIn(texts, args) == \A text \in texts : WellFormed(text, args)

LEMMA EmptySequence == IsSequence(<< >>)
BY DEF IsSequence

LEMMA ReadText ==
  ASSUME NEW key, \A t \in key : IsSequence(t)
  PROVE  IsSequence(ValueOr(key, << >>))
BY EmptySequence DEF ValueOr

LEMMA MethodsRead ==
  ASSUME NEW json, MethodGiven(json), NEW m \in ReadMethod(json)
  PROVE  MethodRead(m)
<1>1. PICK f \in json.format :
        m = [type |-> json.type, format |-> f, log |-> json.log, flags |-> json.flags,
             cmd |-> ValueOr(json.cmd, << >>)]
  BY DEF ReadMethod
<1>2. IsSequence(ValueOr(json.cmd, << >>))
  BY ReadText DEF MethodGiven
<1>3. f = [i \in DOMAIN f |-> f[i]] /\ \A i \in DOMAIN f : IsSequence(f[i])
  BY DEF MethodGiven, IsSequence
<1>4. m.format = f /\ m.cmd = ValueOr(json.cmd, << >>)
  BY <1>1
<1>5. m = [type |-> m.type, format |-> m.format, log |-> m.log, flags |-> m.flags, cmd |-> m.cmd]
  BY <1>1
<1> QED
  BY <1>2, <1>3, <1>4, <1>5 DEF MethodRead

LEMMA EachElement ==
  ASSUME NEW keys, NEW x \in AllOf(keys)
  PROVE  /\ x = [i \in DOMAIN keys |-> x[i]] /\ DOMAIN x = DOMAIN keys
         /\ \A i \in DOMAIN keys : x[i] \in keys[i] /\ x[i] = CHOOSE v \in keys[i] : TRUE
<1>1. x = [i \in DOMAIN keys |-> CHOOSE v \in keys[i] : TRUE] /\ \A i \in DOMAIN keys : keys[i] # {}
  BY DEF AllOf
<1> QED
  BY <1>1

LEMMA ConfigsRead ==
  ASSUME NEW json, ResourceGiven(json), NEW r \in ReadConfig(json)
  PROVE  ResourceRead(r) /\ r.path \in json.path
<1>1. PICK p \in json.path, m \in UNION {Each(ReadMethod, ms) : ms \in json.methods} :
        r = [path |-> p, name |-> ValueOr(json.name, << >>), value |-> ValueOr(json.value, << >>),
             logFile |-> ValueOr(json.logFile, << >>), dataFile |-> ValueOr(json.dataFile, << >>),
             flags |-> json.flags, dynamic |-> json.dynamic, methods |-> m]
  BY DEF ReadConfig
<1>2. PICK ms \in json.methods : m \in Each(ReadMethod, ms)
  OBVIOUS
<1>3. m = [i \in DOMAIN m |-> m[i]] /\ \A i \in DOMAIN m : MethodRead(m[i])
  <2> DEFINE keys == [k \in DOMAIN ms |-> ReadMethod(ms[k])]
  <2>1. m \in AllOf(keys) /\ DOMAIN keys = DOMAIN ms
    BY <1>2 DEF Each
  <2>2. \A i \in DOMAIN ms : keys[i] = ReadMethod(ms[i]) /\ MethodGiven(ms[i])
    BY DEF ResourceGiven
  <2> HIDE DEF keys
  <2>3. /\ m = [i \in DOMAIN keys |-> m[i]] /\ DOMAIN m = DOMAIN keys
        /\ \A i \in DOMAIN keys : m[i] \in keys[i]
    BY <2>1, EachElement
  <2> QED
    BY <2>1, <2>2, <2>3, MethodsRead
<1>4. /\ IsSequence(p)
      /\ IsSequence(ValueOr(json.name, << >>)) /\ IsSequence(ValueOr(json.value, << >>))
      /\ IsSequence(ValueOr(json.logFile, << >>)) /\ IsSequence(ValueOr(json.dataFile, << >>))
  BY ReadText DEF ResourceGiven
<1>5. /\ r.path = p /\ r.name = ValueOr(json.name, << >>) /\ r.value = ValueOr(json.value, << >>)
      /\ r.logFile = ValueOr(json.logFile, << >>) /\ r.dataFile = ValueOr(json.dataFile, << >>)
      /\ r.flags = json.flags /\ r.dynamic = json.dynamic /\ r.methods = m
  BY <1>1
<1>6. r = [path |-> r.path, name |-> r.name, value |-> r.value, logFile |-> r.logFile,
           dataFile |-> r.dataFile, flags |-> r.flags, dynamic |-> r.dynamic,
           methods |-> r.methods]
  BY <1>1, <1>5, Zenon
<1> QED
  BY <1>3, <1>4, <1>5, <1>6 DEF ResourceRead

LEMMA PlainRead ==
  ASSUME NEW json, ResourceGiven(json), ReadConfig(json) # {}
  PROVE  ResourceRead(Plain(json)) /\ Plain(json).path \in json.path
<1>1. Plain(json) \in ReadConfig(json)
  BY DEF Plain
<1> QED
  BY <1>1, ConfigsRead

----------------------------------------------------------------------------
(* Template instances *)

LEMMA ExpandedMethodValue ==
  ASSUME NEW m, MethodRead(m), NEW args, ArgsGiven(args)
  PROVE  ExpandedMethod(m, args) =
           IF WellFormedIn(ToSet(m.format) \cup {m.cmd}, args)
           THEN {InstanceMethod(m, args)} ELSE {}
<1> DEFINE keys == [i \in DOMAIN m.format |-> TemplateReplace(m.format[i], args)]
           values == [i \in DOMAIN m.format |-> Instead(m.format[i], args)]
           Made(f, c) == [m EXCEPT !.format = f, !.cmd = c]
<1>1. ASSUME NEW text, IsSequence(text)
      PROVE  TemplateReplace(text, args) =
               IF WellFormed(text, args) THEN {Instead(text, args)} ELSE {}
  BY <1>1, ReplacedText DEF TemplateReplace, ArgsGiven, Instead
<1>2. /\ DOMAIN keys = DOMAIN m.format /\ DOMAIN values = DOMAIN m.format
      /\ \A i \in DOMAIN m.format :
           /\ keys[i] = IF WellFormed(m.format[i], args) THEN {values[i]} ELSE {}
           /\ values[i] = Instead(m.format[i], args)
  BY <1>1 DEF MethodRead
<1>3. values = [i \in DOMAIN m.format |-> values[i]]
  OBVIOUS
<1>4. ExpandedMethod(m, args) =
        {Made(f, c) : f \in AllOf(keys), c \in TemplateReplace(m.cmd, args)}
  BY DEF ExpandedMethod
<1>5. InstanceMethod(m, args) = Made(values, Instead(m.cmd, args))
  <2>1. DOMAIN m = {"type", "format", "log", "flags", "cmd"}
    BY DEF MethodRead
  <2> QED
    BY <2>1, Zenon DEF InstanceMethod
<1> HIDE DEF keys, values, Made
<1>6. AllOf(keys) = IF \A i \in DOMAIN m.format : WellFormed(m.format[i], args)
                    THEN {values} ELSE {}
  <2>1. AllOf(keys) = IF \A i \in DOMAIN keys : keys[i] # {}
                      THEN {[i \in DOMAIN keys |-> values[i]]} ELSE {}
    BY <1>2, AllOfValue
  <2>2. [i \in DOMAIN keys |-> values[i]] = values
    BY <1>2, <1>3
  <2>3. (\A i \in DOMAIN keys : keys[i] # {})
          <=> \A i \in DOMAIN m.format : WellFormed(m.format[i], args)
    BY <1>2
  <2> QED
    BY <2>1, <2>2, <2>3
<1>7. WellFormedIn(ToSet(m.format) \cup {m.cmd}, args) <=>
        (\A i \in DOMAIN m.format : WellFormed(m.format[i], args)) /\ WellFormed(m.cmd, args)
  BY DEF WellFormedIn, ToSet
<1>8. TemplateReplace(m.cmd, args) = IF WellFormed(m.cmd, args) THEN {Instead(m.cmd, args)} ELSE {}
  BY <1>1 DEF MethodRead
<1>9. CASE WellFormedIn(ToSet(m.format) \cup {m.cmd}, args)
  <2>1. AllOf(keys) = {values} /\ TemplateReplace(m.cmd, args) = {Instead(m.cmd, args)}
    BY <1>6, <1>7, <1>8, <1>9
  <2>2. ExpandedMethod(m, args) = {Made(values, Instead(m.cmd, args))}
    BY <1>4, <2>1
  <2> QED
    BY <1>5, <1>9, <2>2
<1>10. CASE ~WellFormedIn(ToSet(m.format) \cup {m.cmd}, args)
  <2>1. AllOf(keys) = {} \/ TemplateReplace(m.cmd, args) = {}
    BY <1>6, <1>7, <1>8, <1>10
  <2>2. ExpandedMethod(m, args) = {}
    BY <1>4, <2>1
  <2> QED
    BY <1>10, <2>2
<1> QED
  BY <1>9, <1>10

Fields == {"path", "name", "value", "logFile", "dataFile", "flags", "dynamic", "methods"}

LEMMA InstanceFields ==
  ASSUME NEW r, DOMAIN r = Fields, NEW args
  PROVE  Instance(r, args) =
           [path |-> Instead(r.path, args), name |-> Instead(r.name, args),
            value |-> Instead(r.value, args), logFile |-> Instead(r.logFile, args),
            dataFile |-> Instead(r.dataFile, args), flags |-> r.flags, dynamic |-> FALSE,
            methods |-> [i \in DOMAIN r.methods |-> InstanceMethod(r.methods[i], args)]]
<1> DEFINE x == Instance(r, args)
           ms == [i \in DOMAIN r.methods |-> InstanceMethod(r.methods[i], args)]
<1>0. x = [r EXCEPT !.path = Instead(r.path, args), !.name = Instead(r.name, args),
                    !.value = Instead(r.value, args), !.logFile = Instead(r.logFile, args),
                    !.dataFile = Instead(r.dataFile, args), !.dynamic = FALSE, !.methods = ms]
  BY Zenon DEF Instance, Fields
<1> HIDE DEF ms, x
<1>1. /\ DOMAIN x = Fields /\ x = [k \in Fields |-> x[k]]
      /\ x.path = Instead(r.path, args) /\ x.name = Instead(r.name, args)
      /\ x.value = Instead(r.value, args) /\ x.logFile = Instead(r.logFile, args)
      /\ x.dataFile = Instead(r.dataFile, args) /\ x.flags = r.flags
      /\ x.dynamic = FALSE /\ x.methods = ms
  BY <1>0 DEF Fields
<1>2. x = [path |-> x.path, name |-> x.name, value |-> x.value, logFile |-> x.logFile,
           dataFile |-> x.dataFile, flags |-> x.flags, dynamic |-> x.dynamic,
           methods |-> x.methods]
  BY <1>1 DEF Fields
<1> QED
  BY <1>1, <1>2, Zenon DEF x, ms

LEMMA ExpandedResourceValue ==
  ASSUME NEW r, ResourceRead(r), NEW args, ArgsGiven(args)
  PROVE  ExpandedResource(r, args) =
           IF WellFormedIn(TextsIn(r), args) THEN {Instance(r, args)} ELSE {}
<1> DEFINE keys == [i \in DOMAIN r.methods |-> ExpandedMethod(r.methods[i], args)]
           values == [i \in DOMAIN r.methods |-> InstanceMethod(r.methods[i], args)]
           Made(p, n, v, l, d, m) ==
             [path |-> p, name |-> n, value |-> v, logFile |-> l, dataFile |-> d,
              flags |-> r.flags, dynamic |-> FALSE, methods |-> m]
           Fit(i) == WellFormedIn(ToSet(r.methods[i].format) \cup {r.methods[i].cmd}, args)
           made == Made(Instead(r.path, args), Instead(r.name, args), Instead(r.value, args),
                        Instead(r.logFile, args), Instead(r.dataFile, args), values)
<1>1. ASSUME NEW text, IsSequence(text)
      PROVE  TemplateReplace(text, args) =
               IF WellFormed(text, args) THEN {Instead(text, args)} ELSE {}
  BY <1>1, ReplacedText DEF TemplateReplace, ArgsGiven, Instead
<1>2. /\ DOMAIN keys = DOMAIN r.methods
      /\ \A i \in DOMAIN r.methods : keys[i] = IF Fit(i) THEN {values[i]} ELSE {}
  <2>1. \A i \in DOMAIN r.methods :
          ExpandedMethod(r.methods[i], args) =
            IF Fit(i) THEN {InstanceMethod(r.methods[i], args)} ELSE {}
    BY ExpandedMethodValue DEF ResourceRead
  <2> HIDE DEF Fit
  <2> QED
    BY <2>1
<1>3. values = [i \in DOMAIN r.methods |-> values[i]]
  OBVIOUS
<1>4. ExpandedResource(r, args) =
        {Made(p, n, v, l, d, m) :
           p \in TemplateReplace(r.path, args), n \in TemplateReplace(r.name, args),
           v \in TemplateReplace(r.value, args), l \in TemplateReplace(r.logFile, args),
           d \in TemplateReplace(r.dataFile, args), m \in AllOf(keys)}
  BY DEF ExpandedResource
<1>5. Instance(r, args) = made
  <2>1. r = [path |-> r.path, name |-> r.name, value |-> r.value, logFile |-> r.logFile,
             dataFile |-> r.dataFile, flags |-> r.flags, dynamic |-> r.dynamic,
             methods |-> r.methods]
    BY DEF ResourceRead
  <2>2. DOMAIN r = Fields
    BY <2>1 DEF Fields
  <2> QED
    BY <2>2, InstanceFields
<1>6. WellFormedIn(TextsIn(r), args) <=>
        /\ WellFormed(r.path, args) /\ WellFormed(r.name, args) /\ WellFormed(r.value, args)
        /\ WellFormed(r.logFile, args) /\ WellFormed(r.dataFile, args)
        /\ \A i \in DOMAIN r.methods : Fit(i)
  BY DEF WellFormedIn, TextsIn
<1> HIDE DEF keys, values, Made, Fit
<1>7. AllOf(keys) = IF \A i \in DOMAIN r.methods : Fit(i) THEN {values} ELSE {}
  <2>1. AllOf(keys) = IF \A i \in DOMAIN keys : keys[i] # {}
                      THEN {[i \in DOMAIN keys |-> values[i]]} ELSE {}
    BY <1>2, AllOfValue
  <2>2. [i \in DOMAIN keys |-> values[i]] = values
    BY <1>2, <1>3
  <2>3. (\A i \in DOMAIN keys : keys[i] # {}) <=> \A i \in DOMAIN r.methods : Fit(i)
    BY <1>2
  <2> QED
    BY <2>1, <2>2, <2>3
<1>8. \A text \in {r.path, r.name, r.value, r.logFile, r.dataFile} :
        TemplateReplace(text, args) = IF WellFormed(text, args) THEN {Instead(text, args)} ELSE {}
  BY <1>1 DEF ResourceRead
<1>9. CASE WellFormedIn(TextsIn(r), args)
  <2>1. /\ TemplateReplace(r.path, args) = {Instead(r.path, args)}
        /\ TemplateReplace(r.name, args) = {Instead(r.name, args)}
        /\ TemplateReplace(r.value, args) = {Instead(r.value, args)}
        /\ TemplateReplace(r.logFile, args) = {Instead(r.logFile, args)}
        /\ TemplateReplace(r.dataFile, args) = {Instead(r.dataFile, args)}
        /\ AllOf(keys) = {values}
    BY <1>6, <1>7, <1>8, <1>9
  <2>2. ExpandedResource(r, args) = {made}
    BY <1>4, <2>1
  <2> QED
    BY <1>5, <1>9, <2>2
<1>10. CASE ~WellFormedIn(TextsIn(r), args)
  <2>1. \/ TemplateReplace(r.path, args) = {} \/ TemplateReplace(r.name, args) = {}
        \/ TemplateReplace(r.value, args) = {} \/ TemplateReplace(r.logFile, args) = {}
        \/ TemplateReplace(r.dataFile, args) = {} \/ AllOf(keys) = {}
    BY <1>6, <1>7, <1>8, <1>10
  <2>2. ExpandedResource(r, args) = {}
    BY <1>4, <2>1
  <2> QED
    BY <1>10, <2>2
<1> QED
  BY <1>9, <1>10

\* The resources of a template whose own resources are those of rs.
LEMMA GenerateValue ==
  ASSUME NEW rs, \A i \in DOMAIN rs : ResourceRead(Plain(rs[i])),
         NEW template, template.resources = [i \in DOMAIN rs |-> Plain(rs[i])],
         NEW args, ArgsGiven(args)
  PROVE  GenerateResources(template, args) =
           IF \A i \in DOMAIN rs : WellFormedIn(TextsIn(Plain(rs[i])), args)
           THEN {[i \in DOMAIN rs |-> Instance(Plain(rs[i]), args)]} ELSE {}
<1> DEFINE keys == [i \in DOMAIN rs |-> ExpandedResource(Plain(rs[i]), args)]
           values == [i \in DOMAIN rs |-> Instance(Plain(rs[i]), args)]
           Fit(i) == WellFormedIn(TextsIn(Plain(rs[i])), args)
<1>1. GenerateResources(template, args) = AllOf(keys)
  <2>1. [k \in DOMAIN template.resources |-> ExpandedResource(template.resources[k], args)] = keys
    OBVIOUS
  <2> QED
    BY <2>1, Zenon DEF GenerateResources, Each
<1>2. \A i \in DOMAIN rs :
        ExpandedResource(Plain(rs[i]), args) = IF Fit(i) THEN {Instance(Plain(rs[i]), args)} ELSE {}
  BY ExpandedResourceValue
<1> HIDE DEF Fit
<1>3. DOMAIN keys = DOMAIN rs /\ \A i \in DOMAIN rs : keys[i] = IF Fit(i) THEN {values[i]} ELSE {}
  BY <1>2
<1> HIDE DEF keys
<1>4. values = [i \in DOMAIN rs |-> values[i]]
  OBVIOUS
<1> HIDE DEF values
<1>5. AllOf(keys) = IF \A i \in DOMAIN keys : keys[i] # {}
                    THEN {[i \in DOMAIN keys |-> values[i]]} ELSE {}
  BY <1>3, AllOfValue
<1>6. [i \in DOMAIN keys |-> values[i]] = values
  BY <1>3, <1>4
<1>7. (\A i \in DOMAIN keys : keys[i] # {}) <=> \A i \in DOMAIN rs : Fit(i)
  BY <1>3
<1>8. AllOf(keys) = IF \A i \in DOMAIN rs : Fit(i) THEN {values} ELSE {}
  BY <1>5, <1>6, <1>7
<1> QED
  BY <1>1, <1>8 DEF Fit, values

----------------------------------------------------------------------------
(* One template instance *)

Plains == [k \in DOMAIN document.resources |-> Plain(document.resources[k])]

\* What the constructors have read, given by the document.
TemplatesRead ==
  /\ \A k \in DOMAIN document.templates : ReadTemplateConfig(document.templates[k]) # {}
  /\ templates = [k \in DOMAIN document.templates |->
                    CHOOSE v \in ReadTemplateConfig(document.templates[k]) : TRUE]
InstancesRead ==
  /\ \A k \in DOMAIN document.instances : ReadTemplateInstance(document.instances[k]) # {}
  /\ instances = [k \in DOMAIN document.instances |->
                    CHOOSE v \in ReadTemplateInstance(document.instances[k]) : TRUE]

LEMMA TemplateRead ==
  ASSUME document \in Documents, TemplatesRead, NEW t \in DOMAIN document.templates
  PROVE  /\ document.templates[t].ident = {templates[t].ident}
         /\ \E rs : /\ document.templates[t].resources = {rs} /\ IsSequence(rs)
                    /\ \A i \in DOMAIN rs : ResourceRead(Plain(rs[i]))
                    /\ templates[t].resources = [i \in DOMAIN rs |-> Plain(rs[i])]
<1> DEFINE json == document.templates[t]
<1>1. TemplateGiven(json)
  BY InputsAssumption
<1>2. templates[t] \in ReadTemplateConfig(json)
  BY DEF TemplatesRead
<1>3. PICK ident \in json.ident, rs \in json.resources :
        /\ templates[t].ident = ident
        /\ templates[t].resources \in Each(ReadConfig, rs)
  <2>1. PICK ident \in json.ident, r \in UNION {Each(ReadConfig, rs) : rs \in json.resources} :
          templates[t] = [ident |-> ident, resources |-> r]
    BY <1>2 DEF ReadTemplateConfig
  <2>2. templates[t].ident = ident /\ templates[t].resources = r
    BY <2>1
  <2> HIDE DEF json
  <2> QED
    BY <2>2
<1> HIDE DEF json
<1>4. json.ident = {ident} /\ json.resources = {rs}
  BY <1>1 DEF TemplateGiven, AtMostOne
<1>5. IsSequence(rs) /\ \A i \in DOMAIN rs : ResourceGiven(rs[i])
  BY <1>1 DEF TemplateGiven
<1> DEFINE keys == [i \in DOMAIN rs |-> ReadConfig(rs[i])]
           read == templates[t].resources
<1>6. /\ read \in AllOf(keys) /\ DOMAIN keys = DOMAIN rs
      /\ \A i \in DOMAIN rs : keys[i] = ReadConfig(rs[i])
  BY <1>3 DEF Each
<1> HIDE DEF keys, read
<1>7. /\ read = [i \in DOMAIN keys |-> read[i]]
      /\ \A i \in DOMAIN keys : read[i] \in keys[i] /\ read[i] = CHOOSE v \in keys[i] : TRUE
  BY <1>6, EachElement
<1>8. ASSUME NEW i \in DOMAIN rs PROVE read[i] = Plain(rs[i]) /\ ResourceRead(Plain(rs[i]))
  <2>1. read[i] = Plain(rs[i]) /\ ReadConfig(rs[i]) # {}
    BY <1>6, <1>7 DEF Plain
  <2> QED
    BY <1>5, <2>1, PlainRead
<1>9. read = [i \in DOMAIN rs |-> Plain(rs[i])]
  BY <1>6, <1>7, <1>8
<1> QED
  BY <1>3, <1>4, <1>5, <1>8, <1>9 DEF json, read

LEMMA InstanceRead ==
  ASSUME document \in Documents, InstancesRead, NEW k \in DOMAIN document.instances
  PROVE  /\ document.instances[k].template = {instances[k].template}
         /\ document.instances[k].args = {instances[k].args}
         /\ ArgsGiven(instances[k].args)
<1> DEFINE json == document.instances[k]
<1>1. InstanceGiven(json)
  BY InputsAssumption
<1>2. instances[k] \in ReadTemplateInstance(json)
  BY DEF InstancesRead
<1>3. instances[k].template \in json.template /\ instances[k].args \in json.args
  <2>1. PICK t \in json.template, a \in json.args : instances[k] = [template |-> t, args |-> a]
    BY <1>2 DEF ReadTemplateInstance
  <2>2. instances[k].template = t /\ instances[k].args = a
    BY <2>1
  <2> HIDE DEF json
  <2> QED
    BY <2>2
<1> HIDE DEF json
<1>4. json.template = {instances[k].template} /\ json.args = {instances[k].args}
  BY <1>1, <1>3 DEF InstanceGiven, AtMostOne
<1>5. ArgsGiven(instances[k].args)
  BY <1>1, <1>3 DEF InstanceGiven, ArgsGiven
<1> QED
  BY <1>4, <1>5 DEF json

\* The first template with an identifier, found in the document and in what
\* was read from it.
LEMMA FirstTemplateFound ==
  ASSUME document \in Documents, TemplatesRead, NEW ident,
         NEW named, named = {t \in DOMAIN document.templates :
                               document.templates[t].ident = ident},
         named # {}
  PROVE  /\ FirstTemplate(ident) \in named
         /\ (CHOOSE t \in named : \A u \in named : t <= u) = FirstTemplate(ident)
<1>1. named \subseteq Nat /\ DOMAIN document.templates = 1 .. Len(document.templates)
      /\ Len(document.templates) \in Nat
  BY InputsAssumption DEF IsSequence
<1>2. PICK first \in named : \A u \in named : first <= u
  BY <1>1, Least
<1>3. (CHOOSE t \in named : \A u \in named : t <= u) = first
  <2>1. \A t \in named : (\A u \in named : t <= u) => t = first
    BY <1>1, <1>2
  <2> QED
    BY <1>2, <2>1
<1> DEFINE First(t) == /\ document.templates[t].ident = ident
                       /\ \A u \in 1 .. t - 1 : document.templates[u].ident # ident
<1>4. First(first)
  <2>1. \A u \in 1 .. first - 1 : u \in DOMAIN document.templates /\ u \notin named
    BY <1>1, <1>2
  <2> QED
    BY <1>2, <2>1
<1>5. \A t \in DOMAIN document.templates : First(t) => t = first
  <2> SUFFICES ASSUME NEW t \in DOMAIN document.templates, First(t) PROVE t = first
    OBVIOUS
  <2>1. t \in named /\ first <= t
    BY <1>2
  <2>2. ~(first \in 1 .. t - 1)
    BY <1>2
  <2> QED
    BY <1>1, <2>1, <2>2
<1>6. FirstTemplate(ident) = CHOOSE t \in DOMAIN document.templates : First(t)
  BY DEF FirstTemplate
<1> HIDE DEF First
<1>7. FirstTemplate(ident) = first
  BY <1>2, <1>4, <1>5, <1>6
<1> QED
  BY <1>2, <1>3, <1>7

\* What GenerateResources() makes of an instance: what it denotes, or an
\* error when it means nothing.
LEMMA FromTemplateValue ==
  ASSUME document \in Documents, TemplatesRead, InstancesRead,
         NEW k \in DOMAIN document.instances
  PROVE  LET json == document.instances[k]
         IN  /\ FromTemplate(instances[k]) =
                  IF Meaningful(json) THEN {Generated(json)} ELSE {}
             /\ Meaningful(json) =>
                  /\ IsSequence(Generated(json))
                  /\ \A i \in DOMAIN Generated(json) : Generated(json)[i].dynamic = FALSE
<1> DEFINE json == document.instances[k]
           instance == instances[k]
           named == {t \in DOMAIN document.templates : document.templates[t].ident = json.template}
           first == FirstTemplate(json.template)
<1>1. json.template = {instance.template} /\ json.args = {instance.args} /\ ArgsGiven(instance.args)
  BY InstanceRead
<1>2. WithIdent(instance.template) = named
  <2>1. DOMAIN templates = DOMAIN document.templates
    BY DEF TemplatesRead
  <2>2. ASSUME NEW t \in DOMAIN document.templates
        PROVE  templates[t].ident = instance.template <=> document.templates[t].ident = json.template
    BY <1>1, TemplateRead
  <2> HIDE DEF json, instance
  <2> QED
    BY <2>1, <2>2 DEF WithIdent
<1> HIDE DEF json, instance
<1>3. CASE named = {}
  <2>1. ~Meaningful(json)
    BY <1>3 DEF Meaningful
  <2>2. FromTemplate(instance) = {}
    BY <1>2, <1>3 DEF FromTemplate
  <2> QED
    BY <2>1, <2>2 DEF json, instance
<1>4. CASE named # {}
  <2>1. first \in named /\ (CHOOSE t \in named : \A u \in named : t <= u) = first
    <3> HIDE DEF named, first
    <3>1. named = {t \in DOMAIN document.templates : document.templates[t].ident = json.template}
      BY DEF named
    <3> QED
      BY <1>4, <3>1, FirstTemplateFound DEF first
  <2>2. FromTemplate(instance) = GenerateResources(templates[first], instance.args)
    BY <1>2, <1>4, <2>1 DEF FromTemplate
  <2>3. first \in DOMAIN document.templates
    BY <2>1
  <2> HIDE DEF first
  <2>4. PICK rs : /\ document.templates[first].resources = {rs} /\ IsSequence(rs)
                  /\ \A i \in DOMAIN rs : ResourceRead(Plain(rs[i]))
                  /\ templates[first].resources = [i \in DOMAIN rs |-> Plain(rs[i])]
    BY <2>3, TemplateRead
  <2> DEFINE made == [i \in DOMAIN rs |-> Instance(Plain(rs[i]), instance.args)]
             fit == \A i \in DOMAIN rs : WellFormedIn(TextsIn(Plain(rs[i])), instance.args)
  <2>5. GenerateResources(templates[first], instance.args) = IF fit THEN {made} ELSE {}
    BY <1>1, <2>4, GenerateValue
  <2>6. Generated(json) = made
    <3> DEFINE args == CHOOSE a \in json.args : TRUE
               chosen == CHOOSE x \in document.templates[first].resources : TRUE
    <3>1. args = instance.args /\ chosen = rs
      BY <1>1, <2>4
    <3>2. Generated(json) = [i \in DOMAIN chosen |-> Instance(Plain(chosen[i]), args)]
      BY DEF Generated, first
    <3> HIDE DEF args, chosen
    <3> QED
      BY <3>1, <3>2
  <2>7. Meaningful(json) <=> fit
    <3>1. \E t \in DOMAIN document.templates : document.templates[t].ident = json.template
      BY <1>4
    <3>2. \A x \in document.templates[first].resources : x = rs
      BY <2>4
    <3>3. json.args # {} /\ json.template # {} /\ \A a \in json.args : a = instance.args
      BY <1>1
    <3>4. rs \in document.templates[first].resources /\ instance.args \in json.args
      BY <1>1, <2>4
    <3>5. Meaningful(json) <=>
            \A x \in document.templates[first].resources, a \in json.args :
              \A i \in DOMAIN x : \A text \in TextsIn(Plain(x[i])) : WellFormed(text, a)
      BY <3>1, <3>3 DEF Meaningful, first
    <3> QED
      BY <3>2, <3>3, <3>4, <3>5 DEF WellFormedIn
  <2>8. IsSequence(made)
    <3>1. DOMAIN rs = 1 .. Len(rs) /\ Len(rs) \in Nat
      BY <2>4 DEF IsSequence
    <3>2. made \in Seq({Instance(Plain(rs[i]), instance.args) : i \in DOMAIN rs})
      BY <3>1
    <3> HIDE DEF made
    <3> QED
      BY <3>2, IsSequenceOf
  <2>9. ASSUME NEW i \in DOMAIN made PROVE made[i].dynamic = FALSE
    <3>1. made[i] = Instance(Plain(rs[i]), instance.args) /\ ResourceRead(Plain(rs[i]))
      BY <2>4
    <3>2. DOMAIN Plain(rs[i]) = Fields
      BY <3>1 DEF ResourceRead, Fields
    <3> QED
      BY <3>1, <3>2, InstanceFields
  <2> HIDE DEF made, fit
  <2> QED
    BY <2>2, <2>5, <2>6, <2>7, <2>8, <2>9 DEF json, instance
<1> QED
  BY <1>3, <1>4

----------------------------------------------------------------------------
(* All template instances *)

PartsTo(n) == [k \in 1 .. n |-> Generated(document.instances[k])]

LEMMA PartsNone == FlattenSeq(PartsTo(0)) = << >>
<1>1. PartsTo(0) = << >>
  BY DEF PartsTo
<1> QED
  BY <1>1, FlattenNone

LEMMA PartsNext ==
  ASSUME document \in Documents, TemplatesRead, InstancesRead,
         NEW n \in Nat, n + 1 \in DOMAIN document.instances,
         \A k \in 1 .. n + 1 : Meaningful(document.instances[k])
  PROVE  Plains \o FlattenSeq(PartsTo(n + 1)) =
           (Plains \o FlattenSeq(PartsTo(n))) \o Generated(document.instances[n + 1])
<1> DEFINE part(k) == Generated(document.instances[k])
           S == ToSet(Plains) \cup UNION {ToSet(part(k)) : k \in 1 .. n + 1}
<1>1. DOMAIN document.instances = 1 .. Len(document.instances) /\ Len(document.instances) \in Nat
  BY InputsAssumption DEF IsSequence
<1>2. ASSUME NEW k \in 1 .. n + 1 PROVE part(k) \in Seq(S)
  <2>1. k \in DOMAIN document.instances
    BY <1>1
  <2>2. IsSequence(part(k))
    BY <2>1, FromTemplateValue
  <2>3. ToSet(part(k)) \subseteq S
    OBVIOUS
  <2> HIDE DEF S, part
  <2> QED
    BY <2>2, <2>3, SequenceIn
<1>3. Plains \in Seq(S)
  <2>1. /\ DOMAIN document.resources = 1 .. Len(document.resources)
        /\ Len(document.resources) \in Nat
    BY InputsAssumption DEF IsSequence
  <2>2. \A k \in DOMAIN document.resources : Plain(document.resources[k]) \in S
    BY DEF Plains, ToSet
  <2> HIDE DEF S
  <2> QED
    BY <2>1, <2>2 DEF Plains
<1> HIDE DEF S
<1>4. PartsTo(n) \in Seq(Seq(S)) /\ Len(PartsTo(n)) = n
  <2>1. \A k \in 1 .. n : part(k) \in Seq(S)
    BY <1>2
  <2>2. PartsTo(n) = [k \in 1 .. n |-> part(k)]
    BY DEF PartsTo
  <2> HIDE DEF part
  <2> QED
    BY <2>1, <2>2
<1>5. PartsTo(n + 1) = Append(PartsTo(n), part(n + 1))
  <2>1. PartsTo(n + 1) = [k \in 1 .. n + 1 |-> part(k)] /\ PartsTo(n) = [k \in 1 .. n |-> part(k)]
    BY DEF PartsTo
  <2>2. part(n + 1) \in Seq(S)
    BY <1>2
  <2> DEFINE t == Append(PartsTo(n), part(n + 1))
  <2> HIDE DEF part
  <2>3. /\ t \in Seq(Seq(S)) /\ Len(t) = n + 1 /\ t[n + 1] = part(n + 1)
        /\ \A k \in 1 .. n : t[k] = PartsTo(n)[k]
    BY <1>4, <2>2, AppendProperties
  <2> HIDE DEF t
  <2>4. t = [k \in 1 .. n + 1 |-> t[k]]
    BY <2>3
  <2>5. \A k \in 1 .. n + 1 : t[k] = part(k)
    BY <2>1, <2>3
  <2> QED
    BY <2>1, <2>4, <2>5 DEF t
<1>6. part(n + 1) \in Seq(S)
  BY <1>2
<1> DEFINE flat == FlattenSeq(PartsTo(n))
<1>7. flat \in Seq(S) /\ FlattenSeq(PartsTo(n + 1)) = flat \o part(n + 1)
  <2> HIDE DEF part
  <2> QED
    BY <1>4, <1>5, <1>6, FlattenAppend
<1> DEFINE last == part(n + 1)
<1> HIDE DEF flat, last
<1>8. Plains \o (flat \o last) = (Plains \o flat) \o last
  <2>1. last \in Seq(S)
    BY <1>6 DEF last
  <2> QED
    BY <1>3, <1>7, <2>1
<1> QED
  BY <1>7, <1>8 DEF flat, last

----------------------------------------------------------------------------
(* The invariant of Startup *)

Early == {"commandLine", "endpoint", "resources", "templates", "instances"}

\* The configuration, while it is read; the instances are a JSON array.
ConfigInv ==
  /\ document \in Documents
  /\ DOMAIN endpoint = {"address", "port", "logDir", "globalLogFile", "protocol"}
  /\ endpoint.protocol \in Protocols
  /\ Len(instances) \in Nat /\ expanded \in Nat /\ expanded <= Len(instances)
  /\ phase \in Early => expanded = 0

PhaseInv ==
  /\ phase \in {"commandLine", "endpoint", "resources", "templates", "instances", "expand",
                "overrides", "server", "serving"}
  /\ exit \in {"no", "0", "1", "abort"}

\* Resources are made while the server serves, and each could be made.
FormatsKnown(r) == \A i \in DOMAIN r.methods : ToSet(r.methods[i].format) \subseteq KnownFormats
ServedInv ==
  /\ IsFiniteSet(created) /\ Cardinality(created) <= MaxCreated
  /\ phase # "serving" => created = {}
  /\ phase = "serving" => \A r \in Served : FormatsKnown(r)

\* The last entry was logged by a method that could be made.
EntryInv ==
  \A m \in entry.method :
    /\ ToSet(m.format) \subseteq KnownFormats
    /\ entry.payload \in Seq(Byte)
    /\ entry.texts = [f \in DOMAIN m.format |-> Decode(m.format[f], entry.payload)]

Inv == ConfigInv /\ PhaseInv /\ ServedInv /\ EntryInv

LEMMA InitInv == Init => Inv
<1> SUFFICES ASSUME Init PROVE Inv
  OBVIOUS
<1>1. ConfigInv
  <2>1. Len(instances) = 0 /\ expanded = 0 /\ document \in Documents
    BY DEF Init
  <2>2. /\ DOMAIN endpoint = {"address", "port", "logDir", "globalLogFile", "protocol"}
        /\ endpoint.protocol \in Protocols
    BY DEF Init, DefaultEndpoint, Protocols
  <2> QED
    BY <2>1, <2>2 DEF ConfigInv
<1>2. PhaseInv
  BY DEF Init, PhaseInv
<1>3. ServedInv
  <2>1. created = {} /\ phase # "serving"
    BY DEF Init
  <2> QED
    BY <2>1, FS_EmptySet, InputsAssumption DEF ServedInv
<1>4. EntryInv
  BY DEF Init, NoEntry, EntryInv
<1> QED
  BY <1>1, <1>2, <1>3, <1>4 DEF Inv

\* The sequence of what is read has the length of what it is read from.
LEMMA ReadAll ==
  ASSUME NEW keys, NEW x \in AllOf(keys)
  PROVE  x = [i \in DOMAIN keys |-> CHOOSE v \in keys[i] : TRUE]
BY DEF AllOf


\* A step that ends the process, and one that leaves the configuration alone.
LEMMA Quiet ==
  ASSUME ConfigInv, UNCHANGED <<document, endpoint, instances, expanded>>,
         phase' \in Early => phase \in Early
  PROVE  ConfigInv'
BY DEF ConfigInv

LEMMA Ended ==
  ASSUME NEW status, End(status)
  PROVE  UNCHANGED <<options, document, phase, endpoint, resources, templates, instances,
                     expanded, created, entry>> /\ exit = "no" /\ exit' = status
BY DEF End, configVars

LEMMA ConfigStep == Inv /\ Next => ConfigInv'
<1> SUFFICES ASSUME Inv, Next PROVE ConfigInv'
  OBVIOUS
<1>0. ConfigInv
  BY DEF Inv
<1>1. ASSUME NEW status, End(status) PROVE ConfigInv'
  BY <1>0, <1>1, Ended, Quiet
<1>2. CASE CommandLine \/ PortRefused \/ Construct \/ ConstructFails
  <2>1. CASE LineBad \/ HelpAsked \/ FileBad \/ PortRefused \/ ConstructFails
    BY <1>1, <2>1 DEF LineBad, HelpAsked, FileBad, PortRefused, ConstructFails
  <2>2. CASE FileRead \/ Construct
    <3>1. /\ UNCHANGED <<document, endpoint, instances, expanded>>
          /\ phase' \in Early => phase \in Early
      BY <2>2 DEF FileRead, Construct, Goto, configVars, Early
    <3> QED
      BY <1>0, <3>1, Quiet
  <2> QED
    BY <1>2, <2>1, <2>2 DEF CommandLine
<1>3. CASE ReadEndpoint
  <2>1. CASE \E status : End(status)
    BY <1>1, <2>1
  <2>2. CASE ~\E status : End(status)
    <3> DEFINE json == document.endpoint
    <3>1. /\ phase = "endpoint" /\ json.protocol \subseteq Protocols
          /\ endpoint' =
               [address |-> ValueOr(json.address, DefaultEndpoint.address),
                port |-> ValueOr(json.port, DefaultEndpoint.port),
                logDir |-> ValueOr(json.logDir, DefaultEndpoint.logDir),
                globalLogFile |-> ValueOr(json.globalLogFile, DefaultEndpoint.globalLogFile),
                protocol |-> ValueOr(json.protocol, DefaultEndpoint.protocol)]
          /\ UNCHANGED <<document, instances, expanded>>
      BY <1>3, <2>2 DEF ReadEndpoint, Goto
    <3>2. DOMAIN endpoint' = {"address", "port", "logDir", "globalLogFile", "protocol"}
      BY <3>1
    <3>3. endpoint'.protocol = ValueOr(json.protocol, "udp")
      BY <3>1 DEF DefaultEndpoint
    <3>4. endpoint'.protocol \in Protocols
      BY <3>1, <3>3 DEF ValueOr, Protocols
    <3> QED
      BY <1>0, <3>1, <3>2, <3>4 DEF ConfigInv, Early
  <2> QED
    BY <2>1, <2>2
<1>4. CASE ReadResources \/ ReadTemplates
  <2>1. CASE \E status : End(status)
    BY <1>1, <2>1
  <2>2. CASE ~\E status : End(status)
    <3>1. /\ UNCHANGED <<document, endpoint, instances, expanded>>
          /\ phase' \in Early => phase \in Early
      BY <1>4, <2>2 DEF ReadResources, ReadTemplates, Goto, Early
    <3> QED
      BY <1>0, <3>1, Quiet
  <2> QED
    BY <2>1, <2>2
<1>5. CASE ReadInstances
  <2>1. CASE \E status : End(status)
    BY <1>1, <2>1
  <2>2. CASE ~\E status : End(status)
    <3>1. /\ phase = "instances" /\ phase' = "expand" /\ UNCHANGED <<document, endpoint, expanded>>
          /\ instances' \in Each(ReadTemplateInstance, document.instances)
      BY <1>5, <2>2 DEF ReadInstances, Goto
    <3> DEFINE n == Len(document.instances)
               keys == [k \in DOMAIN document.instances |->
                          ReadTemplateInstance(document.instances[k])]
    <3>2. n \in Nat /\ DOMAIN document.instances = 1 .. n
      BY <1>0, InputsAssumption DEF ConfigInv
    <3>3. instances' \in AllOf(keys) /\ DOMAIN keys = 1 .. n
      BY <3>1, <3>2 DEF Each
    <3>4. instances' = [i \in 1 .. n |-> CHOOSE v \in keys[i] : TRUE]
      BY <3>3, ReadAll
    <3> HIDE DEF keys, n
    <3>5. Len(instances') \in Nat
      BY <3>2, <3>4
    <3> QED
      BY <1>0, <3>1, <3>5 DEF ConfigInv, Early
  <2> QED
    BY <2>1, <2>2
<1>6. CASE Expand \/ AllExpanded
  <2>1. CASE \E status : End(status)
    BY <1>1, <2>1
  <2>2. CASE ~\E status : End(status)
    <3>1. /\ phase = "expand" /\ phase' \in {"expand", "overrides"}
          /\ UNCHANGED <<document, endpoint, instances>>
          /\ expanded' = expanded \/ (expanded < Len(instances) /\ expanded' = expanded + 1)
      BY <1>6, <2>2 DEF Expand, AllExpanded, Goto, configVars
    <3> QED
      BY <1>0, <3>1 DEF ConfigInv, Early
  <2> QED
    BY <2>1, <2>2
<1>7. CASE Override
  <2> DEFINE Chosen(option, configured) == IF option # "" THEN option ELSE configured
  <2>1. /\ phase' = "server" /\ UNCHANGED <<document, instances, expanded>>
        /\ endpoint' = [endpoint EXCEPT !.port = Chosen(options.port, @),
                                        !.address = Chosen(options.address, @),
                                        !.logDir = Chosen(options.logDir, @)]
    BY <1>7 DEF Override, Goto
  <2> HIDE DEF Chosen
  <2>2. DOMAIN endpoint' = DOMAIN endpoint /\ endpoint'.protocol = endpoint.protocol
    BY <1>0, <2>1 DEF ConfigInv
  <2> QED
    BY <1>0, <2>1, <2>2 DEF ConfigInv, Early
<1>8. CASE CreateDynamic \/ Log
  <2>1. CASE \E status : End(status)
    BY <1>1, <2>1
  <2>2. CASE ~\E status : End(status)
    <3>1. UNCHANGED <<document, endpoint, instances, expanded, phase>>
      BY <1>8, <2>2 DEF CreateDynamic, Log, configVars
    <3> QED
      BY <1>0, <3>1, Quiet
  <2> QED
    BY <2>1, <2>2
<1> QED
  BY <1>2, <1>3, <1>4, <1>5, <1>6, <1>7, <1>8 DEF Next, ReadConfigFile

\* Which steps change what the server serves, or what it logs.
LEMMA ServingSteps ==
  ASSUME Next
  PROVE  \/ Construct
         \/ CreateDynamic /\ phase = "serving" /\ UNCHANGED <<phase, resources, entry>>
         \/ Log /\ phase = "serving" /\ UNCHANGED <<phase, resources, created>>
         \/ phase # "serving" /\ phase' # "serving" /\ UNCHANGED <<created, entry>>
<1>1. ASSUME NEW status, End(status)
      PROVE  UNCHANGED <<phase, resources, created, entry>>
  BY <1>1, Ended
<1>2. CASE CommandLine \/ PortRefused \/ ConstructFails
  <2>1. phase # "serving"
    BY <1>2 DEF CommandLine, LineBad, HelpAsked, FileBad, FileRead, PortRefused, ConstructFails
  <2>2. CASE FileRead
    BY <2>1, <2>2 DEF FileRead, Goto
  <2>3. CASE ~FileRead
    BY <1>1, <1>2, <2>1, <2>3 DEF CommandLine, LineBad, HelpAsked, FileBad, PortRefused,
       ConstructFails
  <2> QED
    BY <2>2, <2>3
<1>3. CASE ReadConfigFile \/ Override
  <2>1. phase # "serving"
    BY <1>3 DEF ReadConfigFile, ReadEndpoint, ReadResources, ReadTemplates, ReadInstances,
       Expand, AllExpanded, Override
  <2>2. CASE \E status : End(status)
    BY <1>1, <2>1, <2>2
  <2>3. CASE ~\E status : End(status)
    BY <1>3, <2>1, <2>3 DEF ReadConfigFile, ReadEndpoint, ReadResources, ReadTemplates,
       ReadInstances, Expand, AllExpanded, Override, Goto
  <2> QED
    BY <2>2, <2>3
<1>4. CASE CreateDynamic
  <2>1. CASE \E status : End(status)
    BY <1>1, <1>4, <2>1 DEF CreateDynamic
  <2>2. CASE ~\E status : End(status)
    BY <1>4, <2>2 DEF CreateDynamic, configVars
  <2> QED
    BY <2>1, <2>2
<1>5. CASE Log
  BY <1>5 DEF Log, configVars
<1> QED
  BY <1>2, <1>3, <1>4, <1>5 DEF Next

LEMMA PhaseStep == Inv /\ Next => PhaseInv'
<1> SUFFICES ASSUME Inv, Next PROVE PhaseInv'
  OBVIOUS
<1>0. PhaseInv
  BY DEF Inv
<1>1. ASSUME NEW status \in {"0", "1", "abort"}, End(status) PROVE PhaseInv'
  BY <1>0, <1>1, Ended DEF PhaseInv
<1>2. ASSUME NEW p, Goto(p), p \in {"endpoint", "resources", "templates", "instances", "expand",
                                    "overrides", "server", "serving"}
      PROVE  PhaseInv'
  BY <1>0, <1>2 DEF PhaseInv, Goto
<1>3. CASE CommandLine \/ PortRefused \/ ConstructFails \/ Construct \/ Override
  BY <1>1, <1>2, <1>3 DEF CommandLine, LineBad, HelpAsked, FileBad, FileRead, PortRefused,
     ConstructFails, Construct, Override
<1>4. CASE ReadConfigFile
  BY <1>1, <1>2, <1>4 DEF ReadConfigFile, ReadEndpoint, ReadResources, ReadTemplates,
     ReadInstances, Expand, AllExpanded
<1>5. CASE CreateDynamic \/ Log
  <2>1. CASE End("abort")
    BY <1>1, <2>1
  <2>2. CASE ~End("abort")
    BY <1>0, <1>5, <2>2 DEF CreateDynamic, Log, PhaseInv
  <2> QED
    BY <2>1, <2>2
<1> QED
  BY <1>3, <1>4, <1>5 DEF Next

LEMMA CreatableFormats ==
  ASSUME NEW r, Creatable(r)
  PROVE  FormatsKnown(r)
BY DEF Creatable, FormatsKnown

LEMMA ServedStep == Inv /\ Next => ServedInv'
<1> SUFFICES ASSUME Inv, Next PROVE ServedInv'
  OBVIOUS
<1>0. ServedInv
  BY DEF Inv
<1>1. CASE Construct
  <2>1. /\ UNCHANGED <<resources, created>> /\ created = {}
        /\ \A r \in Static : Creatable(r)
    BY <1>0, <1>1 DEF Construct, Goto, configVars, ServedInv
  <2>2. Served' = Static
    BY <2>1 DEF Served, Static
  <2>3. \A r \in Static : FormatsKnown(r)
    BY <2>1, CreatableFormats
  <2> QED
    BY <1>0, <2>1, <2>2, <2>3 DEF ServedInv, FormatsKnown
<1>2. CASE CreateDynamic /\ phase = "serving" /\ UNCHANGED <<phase, resources, entry>>
  <2>1. CASE UNCHANGED created
    BY <1>0, <1>2, <2>1 DEF ServedInv, Served, Static
  <2>2. CASE ~UNCHANGED created
    <3>0. PICK i \in Patterns : \E match \in Matches(resources[i].path) :
            /\ Creatable(ConfigFor(resources[i], match))
            /\ created' = created \cup {[resource |-> ConfigFor(resources[i], match),
                                         pattern |-> i, match |-> match]}
      BY <1>2, <2>2 DEF CreateDynamic, End
    <3>1. PICK match \in Matches(resources[i].path) :
            /\ Creatable(ConfigFor(resources[i], match))
            /\ created' = created \cup {[resource |-> ConfigFor(resources[i], match),
                                         pattern |-> i, match |-> match]}
      BY <3>0
    <3> DEFINE new == [resource |-> ConfigFor(resources[i], match), pattern |-> i, match |-> match]
    <3>2. new.resource = ConfigFor(resources[i], match) /\ created' = created \cup {new}
      BY <3>1
    <3>3. FormatsKnown(new.resource)
      BY <3>1, <3>2, CreatableFormats
    <3> HIDE DEF new
    <3>4. Served' = Served \cup {new.resource}
      BY <1>2, <3>2 DEF Served, Static
    <3>5. IsFiniteSet(created') /\ Cardinality(created') <= MaxCreated
      <4>1. Cardinality(created) < MaxCreated /\ IsFiniteSet(created)
        BY <1>0, <1>2 DEF CreateDynamic, ServedInv
      <4>2. /\ IsFiniteSet(created')
            /\ \/ Cardinality(created') = Cardinality(created)
               \/ Cardinality(created') = Cardinality(created) + 1
        BY <3>2, <4>1, FS_AddElement
      <4>3. Cardinality(created) \in Nat
        BY <4>1, FS_CardinalityType
      <4> QED
        BY <4>1, <4>2, <4>3, InputsAssumption
    <3> QED
      BY <1>0, <1>2, <3>3, <3>4, <3>5 DEF ServedInv, FormatsKnown
  <2> QED
    BY <2>1, <2>2
<1>3. CASE Log /\ phase = "serving" /\ UNCHANGED <<phase, resources, created>>
  BY <1>0, <1>3 DEF ServedInv, Served, Static
<1>4. CASE phase # "serving" /\ phase' # "serving" /\ UNCHANGED <<created, entry>>
  BY <1>0, <1>4 DEF ServedInv
<1> QED
  BY <1>1, <1>2, <1>3, <1>4, ServingSteps

LEMMA EntryStep == Inv /\ Next => EntryInv'
<1> SUFFICES ASSUME Inv, Next PROVE EntryInv'
  OBVIOUS
<1>0. EntryInv /\ ServedInv
  BY DEF Inv
<1>1. CASE Log /\ phase = "serving"
  <2>0. PICK r \in Served : \E i \in DOMAIN r.methods, data \in Payloads :
          entry' = [method |-> {r.methods[i]}, payload |-> data,
                    texts |-> [f \in DOMAIN r.methods[i].format |->
                                 Decode(r.methods[i].format[f], data)]]
    BY <1>1 DEF Log
  <2>1. PICK i \in DOMAIN r.methods, data \in Payloads :
          entry' = [method |-> {r.methods[i]}, payload |-> data,
                    texts |-> [f \in DOMAIN r.methods[i].format |->
                                 Decode(r.methods[i].format[f], data)]]
    BY <2>0
  <2>2. ToSet(r.methods[i].format) \subseteq KnownFormats
    BY <1>0, <1>1 DEF ServedInv, FormatsKnown
  <2>3. data \in Seq(Byte)
    BY InputsAssumption
  <2>4. /\ entry'.method = {r.methods[i]} /\ entry'.payload = data
        /\ entry'.texts = [f \in DOMAIN r.methods[i].format |-> Decode(r.methods[i].format[f], data)]
    BY <2>1
  <2> QED
    BY <2>2, <2>3, <2>4 DEF EntryInv
<1>2. CASE UNCHANGED entry
  BY <1>0, <1>2 DEF EntryInv
<1>3. CASE Construct
  BY <1>2, <1>3 DEF Construct, Goto
<1> QED
  BY <1>1, <1>2, <1>3, ServingSteps

LEMMA Invariant == Spec => []Inv
<1>1. Init => Inv
  BY InitInv
<1>2. Inv /\ [Next]_vars => Inv'
  <2>1. CASE Next
    BY <2>1, ConfigStep, PhaseStep, ServedStep, EntryStep DEF Inv
  <2>2. ASSUME Inv, UNCHANGED vars PROVE Inv'
    BY <2>2 DEF vars, configVars, Inv, ConfigInv, PhaseInv, ServedInv, EntryInv, Served, Static
  <2> QED
    BY <2>1, <2>2
<1> QED
  BY <1>1, <1>2, PTL DEF Spec

----------------------------------------------------------------------------
(* What main() has come to *)

ResourcesRead == \A k \in DOMAIN document.resources : ReadConfig(document.resources[k]) # {}
AllMeaningful == \A k \in DOMAIN document.instances : Meaningful(document.instances[k])

Expanded ==
  /\ resources = Plains \o FlattenSeq(PartsTo(expanded))
  /\ \A k \in 1 .. expanded : Meaningful(document.instances[k])

\* What main() has come to says what it has read and expanded.
ReadInv ==
  /\ phase \notin {"commandLine", "endpoint", "resources"} => ResourcesRead
  /\ phase \in {"templates", "instances"} => resources = Plains
  /\ phase \notin {"commandLine", "endpoint", "resources", "templates"} => TemplatesRead
  /\ phase \in {"expand", "overrides", "server", "serving"} => InstancesRead /\ Expanded
  /\ phase \in {"overrides", "server", "serving"} => expanded = Len(instances)
  /\ exit # "no" /\ phase = "expand" => ~AllMeaningful

LEMMA SameDocument ==
  ASSUME UNCHANGED document
  PROVE  /\ Plains' = Plains /\ \A n : PartsTo(n)' = PartsTo(n)
         /\ \A json : Meaningful(json)' <=> Meaningful(json)
         /\ (ResourcesRead' <=> ResourcesRead)
         /\ UNCHANGED templates => (TemplatesRead' <=> TemplatesRead)
         /\ UNCHANGED instances => (InstancesRead' <=> InstancesRead)
         /\ UNCHANGED <<resources, expanded>> => (Expanded' <=> Expanded)
         /\ (AllMeaningful' <=> AllMeaningful)
<1>1. Plains' = Plains
  BY DEF Plains
<1>2. \A n : PartsTo(n)' = PartsTo(n)
  BY DEF PartsTo, Generated, FirstTemplate
<1>3. \A json : Meaningful(json)' <=> Meaningful(json)
  BY DEF Meaningful, FirstTemplate
<1>4. ResourcesRead' <=> ResourcesRead
  BY DEF ResourcesRead
<1>5. UNCHANGED templates => (TemplatesRead' <=> TemplatesRead)
  BY DEF TemplatesRead
<1>6. UNCHANGED instances => (InstancesRead' <=> InstancesRead)
  BY DEF InstancesRead
<1>7. UNCHANGED <<resources, expanded>> => (Expanded' <=> Expanded)
  BY <1>1, <1>2, <1>3 DEF Expanded
<1>8. AllMeaningful' <=> AllMeaningful
  BY <1>3 DEF AllMeaningful
<1> QED
  BY <1>1, <1>2, <1>3, <1>4, <1>5, <1>6, <1>7, <1>8

LEMMA AllOfNone ==
  ASSUME NEW keys
  PROVE  AllOf(keys) = {} <=> \E i \in DOMAIN keys : keys[i] = {}
BY DEF AllOf

\* A step that leaves the configuration alone.
LEMMA Unmoved ==
  ASSUME ReadInv,
         UNCHANGED <<options, document, phase, resources, templates, instances, expanded>>,
         UNCHANGED exit \/ phase # "expand" \/ ~AllMeaningful
  PROVE  ReadInv'
<1>1. /\ (ResourcesRead' <=> ResourcesRead) /\ (TemplatesRead' <=> TemplatesRead)
      /\ (InstancesRead' <=> InstancesRead) /\ (Expanded' <=> Expanded)
      /\ (AllMeaningful' <=> AllMeaningful) /\ Plains' = Plains
  BY SameDocument
<1> QED
  BY <1>1 DEF ReadInv

LEMMA EndStep ==
  ASSUME ReadInv, NEW status, End(status), phase # "expand" \/ ~AllMeaningful
  PROVE  ReadInv'
BY Unmoved, Ended

LEMMA ReadInvInit == Init => ReadInv
BY DEF Init, ReadInv

\* How many instances there are.
LEMMA InstanceCount ==
  ASSUME document \in Documents, InstancesRead
  PROVE  /\ DOMAIN document.instances = 1 .. Len(document.instances)
         /\ Len(document.instances) \in Nat /\ Len(instances) = Len(document.instances)
<1>1. DOMAIN document.instances = 1 .. Len(document.instances) /\ Len(document.instances) \in Nat
  BY InputsAssumption DEF IsSequence
<1>2. DOMAIN instances = DOMAIN document.instances
  BY DEF InstancesRead
<1> QED
  BY <1>1, <1>2

LEMMA CommandLineReads == Inv /\ ReadInv /\ CommandLine => ReadInv'
<1> SUFFICES ASSUME Inv, ReadInv, CommandLine PROVE ReadInv'
  OBVIOUS
<1>1. CASE LineBad \/ HelpAsked \/ FileBad
  BY <1>1, EndStep DEF LineBad, HelpAsked, FileBad
<1>2. CASE FileRead
  BY <1>2 DEF FileRead, Goto, ReadInv
<1> QED
  BY <1>1, <1>2 DEF CommandLine

LEMMA EndpointReads == Inv /\ ReadInv /\ ReadEndpoint => ReadInv'
<1> SUFFICES ASSUME Inv, ReadInv, ReadEndpoint PROVE ReadInv'
  OBVIOUS
<1>1. CASE document.endpoint.protocol \subseteq Protocols
  BY <1>1 DEF ReadEndpoint, Goto, ReadInv
<1>2. CASE ~(document.endpoint.protocol \subseteq Protocols)
  BY <1>2, EndStep DEF ReadEndpoint
<1> QED
  BY <1>1, <1>2

LEMMA ResourcesReads == Inv /\ ReadInv /\ ReadResources => ReadInv'
<1> SUFFICES ASSUME Inv, ReadInv, ReadResources PROVE ReadInv'
  OBVIOUS
<1> DEFINE keys == [k \in DOMAIN document.resources |-> ReadConfig(document.resources[k])]
<1>0. Each(ReadConfig, document.resources) = AllOf(keys)
  BY DEF Each
<1>1. CASE AllOf(keys) = {} /\ End("abort")
  BY <1>1, EndStep DEF ReadResources
<1>2. CASE resources' \in AllOf(keys) /\ Goto("templates")
  <2>1. resources' = [k \in DOMAIN keys |-> CHOOSE v \in keys[k] : TRUE]
    BY <1>2, ReadAll
  <2>2. ResourcesRead
    BY <1>2, AllOfNone DEF ResourcesRead
  <2>3. resources' = Plains
    BY <2>1 DEF Plains, Plain
  <2>4. UNCHANGED <<options, document, exit>> /\ phase' = "templates" /\ phase = "resources"
    BY <1>2 DEF Goto, ReadResources
  <2>5. ResourcesRead' /\ Plains' = Plains
    BY <2>2, <2>4, SameDocument
  <2> QED
    BY <2>3, <2>4, <2>5 DEF ReadInv
<1> HIDE DEF keys
<1> QED
  BY <1>0, <1>1, <1>2 DEF ReadResources

LEMMA TemplatesReads == Inv /\ ReadInv /\ ReadTemplates => ReadInv'
<1> SUFFICES ASSUME Inv, ReadInv, ReadTemplates PROVE ReadInv'
  OBVIOUS
<1> DEFINE keys == [k \in DOMAIN document.templates |-> ReadTemplateConfig(document.templates[k])]
<1>0. Each(ReadTemplateConfig, document.templates) = AllOf(keys)
  BY DEF Each
<1>1. CASE AllOf(keys) = {} /\ End("abort")
  BY <1>1, EndStep DEF ReadTemplates
<1>2. CASE templates' \in AllOf(keys) /\ Goto("instances")
  <2>1. templates' = [k \in DOMAIN keys |-> CHOOSE v \in keys[k] : TRUE]
    BY <1>2, ReadAll
  <2>2. /\ UNCHANGED <<options, document, exit, resources>> /\ phase' = "instances"
        /\ phase = "templates"
    BY <1>2 DEF Goto, ReadTemplates
  <2>3. TemplatesRead'
    BY <1>2, <2>1, <2>2, AllOfNone DEF TemplatesRead
  <2>4. (ResourcesRead' <=> ResourcesRead) /\ Plains' = Plains
    BY <2>2, SameDocument
  <2> QED
    BY <2>2, <2>3, <2>4 DEF ReadInv
<1> HIDE DEF keys
<1> QED
  BY <1>0, <1>1, <1>2 DEF ReadTemplates

LEMMA InstancesReads == Inv /\ ReadInv /\ ReadInstances => ReadInv'
<1> SUFFICES ASSUME Inv, ReadInv, ReadInstances PROVE ReadInv'
  OBVIOUS
<1> DEFINE keys == [k \in DOMAIN document.instances |->
                      ReadTemplateInstance(document.instances[k])]
<1>0. Each(ReadTemplateInstance, document.instances) = AllOf(keys)
  BY DEF Each
<1>1. CASE AllOf(keys) = {} /\ End("abort")
  BY <1>1, EndStep DEF ReadInstances
<1>2. CASE instances' \in AllOf(keys) /\ Goto("expand")
  <2>1. instances' = [k \in DOMAIN keys |-> CHOOSE v \in keys[k] : TRUE]
    BY <1>2, ReadAll
  <2>2. /\ UNCHANGED <<options, document, exit, resources, templates, expanded>>
        /\ exit = "no" /\ phase' = "expand" /\ phase = "instances"
    BY <1>2 DEF Goto, ReadInstances
  <2>3. InstancesRead'
    BY <1>2, <2>1, <2>2, AllOfNone DEF InstancesRead
  <2>4. /\ (ResourcesRead' <=> ResourcesRead) /\ (TemplatesRead' <=> TemplatesRead)
        /\ (Expanded' <=> Expanded)
    BY <2>2, SameDocument
  <2>5. Expanded
    <3>1. resources = Plains /\ expanded = 0
      BY <2>2 DEF ReadInv, Inv, ConfigInv, Early
    <3>2. IsSequence(document.resources)
      BY InputsAssumption DEF Inv, ConfigInv
    <3>3. Plains \in Seq(ToSet(Plains))
      <4>1. /\ DOMAIN document.resources = 1 .. Len(document.resources)
            /\ Len(document.resources) \in Nat
        BY <3>2 DEF IsSequence
      <4>2. \A k \in DOMAIN document.resources : Plain(document.resources[k]) \in ToSet(Plains)
        BY DEF Plains, ToSet
      <4> DEFINE S == ToSet(Plains)
      <4> HIDE DEF S
      <4> QED
        BY <4>1, <4>2 DEF Plains, S
    <3>4. FlattenSeq(PartsTo(0)) = << >>
      BY PartsNone
    <3> QED
      BY <3>1, <3>3, <3>4 DEF Expanded
  <2> QED
    BY <2>2, <2>3, <2>4, <2>5 DEF ReadInv
<1> HIDE DEF keys
<1> QED
  BY <1>0, <1>1, <1>2 DEF ReadInstances

LEMMA ExpandReads == Inv /\ ReadInv /\ Expand => ReadInv'
<1> SUFFICES ASSUME Inv, ReadInv, Expand PROVE ReadInv'
  OBVIOUS
<1> DEFINE n == expanded
           json == document.instances[n + 1]
<1>1. /\ document \in Documents /\ n \in Nat /\ phase = "expand" /\ n < Len(instances)
      /\ Len(instances) \in Nat /\ TemplatesRead /\ InstancesRead /\ Expanded
  BY DEF Inv, ConfigInv, Expand, ReadInv
<1>2. n + 1 \in DOMAIN document.instances
  BY <1>1, InstanceCount
<1>3. /\ FromTemplate(instances[n + 1]) = IF Meaningful(json) THEN {Generated(json)} ELSE {}
  BY <1>1, <1>2, FromTemplateValue
<1>4. CASE FromTemplate(instances[n + 1]) = {} /\ End("abort")
  <2>1. ~AllMeaningful
    BY <1>2, <1>3, <1>4 DEF AllMeaningful
  <2> QED
    BY <1>4, <2>1, EndStep
<1>5. CASE \E rs \in FromTemplate(instances[n + 1]) :
             /\ resources' = resources \o rs
             /\ expanded' = expanded + 1
             /\ UNCHANGED <<endpoint, templates, instances>>
             /\ Goto("expand")
  <2>1. /\ Meaningful(json) /\ resources' = resources \o Generated(json)
        /\ expanded' = n + 1 /\ exit = "no"
        /\ UNCHANGED <<options, document, exit, phase, templates, instances>>
    BY <1>1, <1>3, <1>5 DEF Goto
  <2>2. \A k \in 1 .. n + 1 : Meaningful(document.instances[k])
    <3>1. \A k \in 1 .. n + 1 : k \in 1 .. n \/ k = n + 1
      BY <1>1
    <3> QED
      BY <1>1, <2>1, <3>1 DEF Expanded
  <2>3. resources' = Plains \o FlattenSeq(PartsTo(n + 1))
    BY <1>1, <1>2, <2>1, <2>2, PartsNext DEF Expanded
  <2>4. /\ (ResourcesRead' <=> ResourcesRead) /\ (TemplatesRead' <=> TemplatesRead)
        /\ (InstancesRead' <=> InstancesRead)
        /\ Plains' = Plains /\ \A m : PartsTo(m)' = PartsTo(m)
        /\ \A i : Meaningful(i)' <=> Meaningful(i)
    BY <2>1, SameDocument
  <2>5. Expanded'
    BY <2>1, <2>2, <2>3, <2>4 DEF Expanded
  <2> QED
    BY <1>1, <2>1, <2>4, <2>5 DEF ReadInv
<1> QED
  BY <1>4, <1>5 DEF Expand

LEMMA AllExpandedReads == Inv /\ ReadInv /\ AllExpanded => ReadInv'
<1> SUFFICES ASSUME Inv, ReadInv, AllExpanded PROVE ReadInv'
  OBVIOUS
<1>1. /\ UNCHANGED <<options, document, exit, resources, templates, instances, expanded>>
      /\ phase = "expand" /\ phase' = "overrides" /\ expanded = Len(instances)
  BY DEF AllExpanded, Goto, configVars
<1>2. /\ (ResourcesRead' <=> ResourcesRead) /\ (TemplatesRead' <=> TemplatesRead)
      /\ (InstancesRead' <=> InstancesRead)
      /\ (Expanded' <=> Expanded)
  BY <1>1, SameDocument
<1> QED
  BY <1>1, <1>2 DEF ReadInv

LEMMA OverridesRead == Inv /\ ReadInv /\ (PortRefused \/ Override) => ReadInv'
<1> SUFFICES ASSUME Inv, ReadInv, PortRefused \/ Override PROVE ReadInv'
  OBVIOUS
<1>1. CASE PortRefused
  <2>1. phase = "overrides" /\ \E status : End(status)
    BY <1>1 DEF PortRefused
  <2> QED
    BY <2>1, EndStep
<1>2. CASE Override
  <2>1. /\ UNCHANGED <<options, document, exit, resources, templates, instances, expanded>>
        /\ phase = "overrides" /\ phase' = "server"
    BY <1>2 DEF Override, Goto
  <2>2. /\ (ResourcesRead' <=> ResourcesRead) /\ (TemplatesRead' <=> TemplatesRead)
        /\ (InstancesRead' <=> InstancesRead) /\ (Expanded' <=> Expanded)
    BY <2>1, SameDocument
  <2> QED
    BY <2>1, <2>2 DEF ReadInv
<1> QED
  BY <1>1, <1>2

LEMMA ServerReads ==
  Inv /\ ReadInv /\ (Construct \/ ConstructFails \/ CreateDynamic \/ Log) => ReadInv'
<1> SUFFICES ASSUME Inv, ReadInv, Construct \/ ConstructFails \/ CreateDynamic \/ Log
             PROVE  ReadInv'
  OBVIOUS
<1>1. CASE Construct
  <2>1. /\ UNCHANGED <<options, document, exit, resources, templates, instances, expanded>>
        /\ phase = "server" /\ phase' = "serving"
    BY <1>1 DEF Construct, Goto, configVars
  <2>2. /\ (ResourcesRead' <=> ResourcesRead) /\ (TemplatesRead' <=> TemplatesRead)
        /\ (InstancesRead' <=> InstancesRead)
        /\ (Expanded' <=> Expanded)
    BY <2>1, SameDocument
  <2> QED
    BY <2>1, <2>2 DEF ReadInv
<1>2. CASE \E status : End(status)
  <2>1. phase \in {"server", "serving"}
    BY <1>2 DEF Construct, ConstructFails, CreateDynamic, Log
  <2> QED
    BY <1>2, <2>1, EndStep
<1>3. CASE ~(Construct \/ \E status : End(status))
  <2>1. UNCHANGED <<options, document, phase, exit, resources, templates, instances, expanded>>
    BY <1>3 DEF ConstructFails, CreateDynamic, Log, configVars
  <2> QED
    BY <2>1, Unmoved
<1> QED
  BY <1>1, <1>2, <1>3

LEMMA Reads == Spec => [](Inv /\ ReadInv)
<1>1. Init => ReadInv
  BY ReadInvInit
<1>2. Inv /\ ReadInv /\ [Next]_vars => ReadInv'
  <2>1. CASE Next
    BY <2>1, CommandLineReads, EndpointReads, ResourcesReads, TemplatesReads, InstancesReads,
       ExpandReads, AllExpandedReads, OverridesRead, ServerReads DEF Next, ReadConfigFile
  <2>2. ASSUME ReadInv, UNCHANGED vars PROVE ReadInv'
    BY <2>2, Unmoved DEF vars, configVars
  <2> QED
    BY <2>1, <2>2
<1> QED
  BY <1>1, <1>2, Invariant, PTL DEF Spec

----------------------------------------------------------------------------
(* Texts of dynamic resources *)

\* A text of a pattern: "" for an error, else what it denotes for the match;
\* the index that is let through past the last group makes no difference.
LEMMA RegexText ==
  ASSUME NEW text, IsSequence(text), NEW path, IsSequence(path),
         NEW groups, IsSequence(groups), \A n \in DOMAIN groups : IsSequence(groups[n]),
         NEW sm, sm = [n \in 0 .. Len(groups) |-> IF n = 0 THEN path ELSE groups[n]],
         WellFormed(text, sm)
  PROVE  RegexReplace(text, path, groups) = Denoted(text, sm)
<1> DEFINE past == [n \in 0 .. Len(groups) + 1 |->
                      IF n = 0 THEN path ELSE IF n <= Len(groups) THEN groups[n] ELSE << >>]
<1>1. Len(groups) \in Nat /\ DOMAIN groups = 1 .. Len(groups)
  BY DEF IsSequence
<1>2. \A n \in DOMAIN past : IsSequence(past[n])
  BY <1>1, EmptySequence
<1>3. DOMAIN sm \subseteq DOMAIN past /\ \A n \in DOMAIN sm : past[n] = sm[n]
  BY <1>1
<1>4. RegexReplace(text, path, groups) =
        IF Replaced(text, past) = {} THEN << >> ELSE CHOOSE made \in Replaced(text, past) : TRUE
  BY DEF RegexReplace
<1> HIDE DEF past
<1>5. WellFormed(text, past)
  BY <1>3 DEF WellFormed
<1>6. Denoted(text, past) = Denoted(text, sm)
  <2> DEFINE piece(texts, i) ==
               IF Begins(text, i)
               THEN IF text[i + 1] = "$" THEN <<"$">> ELSE texts[Refers(text, i)]
               ELSE IF \E j \in 1 .. i - 1 : Belongs(text, i, j) THEN << >> ELSE <<text[i]>>
  <2>1. \A i \in 1 .. Len(text) : piece(past, i) = piece(sm, i)
    BY <1>3 DEF WellFormed
  <2>2. /\ Denoted(text, past) = FlattenSeq([i \in 1 .. Len(text) |-> piece(past, i)])
        /\ Denoted(text, sm) = FlattenSeq([i \in 1 .. Len(text) |-> piece(sm, i)])
    BY DEF Denoted
  <2> HIDE DEF piece
  <2>3. [i \in 1 .. Len(text) |-> piece(past, i)] = [i \in 1 .. Len(text) |-> piece(sm, i)]
    BY <2>1
  <2> QED
    BY <2>2, <2>3
<1>7. Replaced(text, past) = {Denoted(text, sm)}
  BY <1>2, <1>5, <1>6, ReplacedText
<1> QED
  BY <1>4, <1>7

----------------------------------------------------------------------------
(* What the server has made *)

\* The patterns are resources of the document, not of a template.
PatternsInv ==
  /\ IsSequence(resources)
  /\ \A i \in DOMAIN resources :
       resources[i].dynamic =>
         \E k \in DOMAIN document.resources : resources[i] = Plain(document.resources[k])

MadeInv ==
  \A c \in created :
    /\ c.pattern \in Patterns
    /\ c.match \in Matches(resources[c.pattern].path)
    /\ c.resource = ConfigFor(resources[c.pattern], c.match)

LEMMA PatternsInvInit == Init => PatternsInv
BY EmptySequence DEF Init, PatternsInv

LEMMA PatternsStep == Inv /\ ReadInv /\ PatternsInv /\ Next => PatternsInv'
<1> SUFFICES ASSUME Inv, ReadInv, PatternsInv, Next PROVE PatternsInv'
  OBVIOUS
<1>1. CASE UNCHANGED <<resources, document>>
  BY <1>1 DEF PatternsInv
<1>2. CASE ReadResources /\ ~\E status : End(status)
  <2>1. ReadInv'
    BY <1>2, ResourcesReads
  <2>2. phase' = "templates" /\ UNCHANGED document
    BY <1>2 DEF ReadResources, Goto
  <2>3. resources' = Plains
    BY <2>1, <2>2, SameDocument DEF ReadInv
  <2>4. IsSequence(document.resources)
    BY InputsAssumption DEF Inv, ConfigInv
  <2>5. Plains \in Seq(ToSet(Plains))
    <3>1. /\ DOMAIN document.resources = 1 .. Len(document.resources)
          /\ Len(document.resources) \in Nat
      BY <2>4 DEF IsSequence
    <3>2. \A k \in DOMAIN document.resources : Plain(document.resources[k]) \in ToSet(Plains)
      BY DEF Plains, ToSet
    <3> DEFINE S == ToSet(Plains)
    <3> HIDE DEF S
    <3> QED
      BY <3>1, <3>2 DEF Plains, S
  <2>6. \A i \in DOMAIN Plains :
          i \in DOMAIN document.resources /\ Plains[i] = Plain(document.resources[i])
    BY DEF Plains
  <2> HIDE DEF Plains
  <2> QED
    BY <2>2, <2>3, <2>5, <2>6 DEF PatternsInv, IsSequence
<1>3. CASE Expand /\ ~\E status : End(status)
  <2> DEFINE n == expanded
             json == document.instances[n + 1]
             made == Generated(json)
  <2>1. /\ document \in Documents /\ n \in Nat /\ phase = "expand" /\ n < Len(instances)
        /\ Len(instances) \in Nat /\ TemplatesRead /\ InstancesRead
    BY <1>3 DEF Inv, ConfigInv, Expand, ReadInv
  <2>2. n + 1 \in DOMAIN document.instances
    BY <2>1, InstanceCount
  <2>3. PICK rs \in FromTemplate(instances[n + 1]) :
          resources' = resources \o rs /\ UNCHANGED document
    BY <1>3 DEF Expand, Goto
  <2>4. /\ rs = made /\ IsSequence(made) /\ \A i \in DOMAIN made : made[i].dynamic = FALSE
    <3>1. /\ FromTemplate(instances[n + 1]) = IF Meaningful(json) THEN {made} ELSE {}
          /\ Meaningful(json) =>
               IsSequence(made) /\ \A i \in DOMAIN made : made[i].dynamic = FALSE
      BY <2>1, <2>2, FromTemplateValue
    <3> HIDE DEF made, json
    <3> QED
      BY <2>3, <3>1
  <2> HIDE DEF made
  <2> DEFINE S == ToSet(resources) \cup ToSet(made)
  <2>5. resources \in Seq(S) /\ made \in Seq(S)
    BY <2>4, SequenceIn DEF PatternsInv
  <2> HIDE DEF S
  <2>6. /\ resources' \in Seq(S) /\ Len(resources') = Len(resources) + Len(made)
        /\ \A i \in 1 .. Len(resources') :
             resources'[i] = IF i <= Len(resources) THEN resources[i] ELSE made[i - Len(resources)]
    BY <2>3, <2>4, <2>5
  <2>7. IsSequence(resources')
    BY <2>6, IsSequenceOf
  <2>8. ASSUME NEW i \in DOMAIN resources', resources'[i].dynamic
        PROVE  \E k \in DOMAIN document.resources : resources'[i] = Plain(document.resources[k])
    <3>1. i \in 1 .. Len(resources') /\ Len(resources) \in Nat /\ Len(made) \in Nat
      BY <2>5, <2>6
    <3>2. CASE i <= Len(resources)
      BY <2>5, <2>6, <2>8, <3>1, <3>2 DEF PatternsInv
    <3>3. CASE ~(i <= Len(resources))
      BY <2>4, <2>5, <2>6, <2>8, <3>1, <3>3
    <3> QED
      BY <3>2, <3>3
  <2> QED
    BY <2>3, <2>7, <2>8 DEF PatternsInv, IsSequence
<1>4. CASE \E status : End(status)
  BY <1>1, <1>4, Ended
<1>5. CASE ~\E status : End(status)
  BY <1>1, <1>2, <1>3, <1>5 DEF Next, CommandLine, LineBad, HelpAsked, FileBad, FileRead,
     ReadConfigFile, ReadEndpoint, ReadTemplates, ReadInstances, AllExpanded, PortRefused,
     Override, Construct, ConstructFails, CreateDynamic, Log, Goto, configVars
<1> QED
  BY <1>4, <1>5

LEMMA MadeStep == Inv /\ MadeInv /\ Next => MadeInv'
<1> SUFFICES ASSUME Inv, MadeInv, Next PROVE MadeInv'
  OBVIOUS
<1>1. CASE UNCHANGED <<resources, created>>
  BY <1>1 DEF MadeInv, Patterns, ConfigFor
<1>2. CASE created' = {}
  BY <1>2 DEF MadeInv
<1>3. CASE CreateDynamic /\ phase = "serving" /\ UNCHANGED <<phase, resources, entry>>
  <2>1. CASE UNCHANGED created
    BY <1>1, <1>3, <2>1
  <2>2. CASE ~UNCHANGED created
    <3>0. PICK i \in Patterns : \E match \in Matches(resources[i].path) :
            created' = created \cup {[resource |-> ConfigFor(resources[i], match),
                                      pattern |-> i, match |-> match]}
      BY <1>3, <2>2 DEF CreateDynamic, End
    <3>1. PICK match \in Matches(resources[i].path) :
            created' = created \cup {[resource |-> ConfigFor(resources[i], match),
                                      pattern |-> i, match |-> match]}
      BY <3>0
    <3> DEFINE new == [resource |-> ConfigFor(resources[i], match), pattern |-> i, match |-> match]
    <3>2. /\ new.resource = ConfigFor(resources[i], match) /\ new.pattern = i /\ new.match = match
          /\ created' = created \cup {new}
      BY <3>1
    <3> HIDE DEF new
    <3>3. /\ Patterns' = Patterns
          /\ \A r, m : ConfigFor(r, m)' = ConfigFor(r, m)
      BY <1>3 DEF Patterns, ConfigFor
    <3>4. ASSUME NEW c \in created'
          PROVE  /\ c.pattern \in Patterns
                 /\ c.match \in Matches(resources[c.pattern].path)
                 /\ c.resource = ConfigFor(resources[c.pattern], c.match)
      BY <3>2 DEF MadeInv
    <3> QED
      BY <1>3, <3>3, <3>4 DEF MadeInv, ConfigFor
  <2> QED
    BY <2>1, <2>2
<1>4. CASE Construct
  BY <1>1, <1>4 DEF Construct, Goto, configVars
<1>5. CASE phase # "serving" /\ UNCHANGED created
  BY <1>2, <1>5 DEF Inv, ServedInv
<1> QED
  BY <1>1, <1>3, <1>4, <1>5, ServingSteps

LEMMA Makes == Spec => [](Inv /\ ReadInv /\ PatternsInv /\ MadeInv)
<1>1. Init => PatternsInv /\ MadeInv
  BY PatternsInvInit DEF Init, MadeInv
<1>2. Inv /\ ReadInv /\ PatternsInv /\ MadeInv /\ [Next]_vars => PatternsInv' /\ MadeInv'
  <2>1. CASE Next
    BY <2>1, PatternsStep, MadeStep
  <2>2. ASSUME PatternsInv, MadeInv, UNCHANGED vars PROVE PatternsInv' /\ MadeInv'
    BY <2>2 DEF vars, configVars, PatternsInv, MadeInv, Patterns, ConfigFor
  <2> QED
    BY <2>1, <2>2
<1> QED
  BY <1>1, <1>2, Reads, PTL DEF Spec

LEMMA ServesWritten ==
  ASSUME Inv, ReadInv, phase = "serving"
  PROVE  resources = Written
<1>1. /\ document \in Documents /\ InstancesRead /\ Expanded /\ expanded = Len(instances)
  BY DEF Inv, ConfigInv, ReadInv
<1>2. 1 .. expanded = DOMAIN document.instances
  BY <1>1, InstanceCount
<1>3. PartsTo(expanded) = [k \in DOMAIN document.instances |-> Generated(document.instances[k])]
  BY <1>2, Zenon DEF PartsTo
<1> QED
  BY <1>1, <1>3, Zenon DEF Expanded, Written, Plains

LEMMA MadeFields ==
  ASSUME NEW pattern, ResourceRead(pattern), NEW match
  PROVE  LET made == ConfigFor(pattern, match)
             Text(t) == RegexReplace(t, match.path, match.groups)
         IN  /\ made.name = Text(pattern.name) /\ made.logFile = Text(pattern.logFile)
             /\ made.dataFile = Text(pattern.dataFile) /\ made.methods = pattern.methods
<1> DEFINE Text(t) == RegexReplace(t, match.path, match.groups)
<1>1. DOMAIN pattern = Fields
  BY Zenon DEF ResourceRead, Fields
<1>2. ConfigFor(pattern, match) = [pattern EXCEPT !.path = match.path, !.name = Text(@),
                                                  !.logFile = Text(@), !.dataFile = Text(@)]
  BY DEF ConfigFor
<1> HIDE DEF Text
<1>3. /\ ConfigFor(pattern, match).name = Text(pattern.name)
      /\ ConfigFor(pattern, match).logFile = Text(pattern.logFile)
      /\ ConfigFor(pattern, match).dataFile = Text(pattern.dataFile)
      /\ ConfigFor(pattern, match).methods = pattern.methods
  BY <1>1, <1>2 DEF Fields
<1> QED
  BY <1>3 DEF Text

----------------------------------------------------------------------------
(* Theorems *)

\* From any command line and document, the server keeps its types; what it
\* serves has only formatters that exist, for a document or a path that asks
\* for another one ends it (ResourceFormatter.cpp:11-26, Resource.cpp:24-47).
THEOREM TypeCorrect == Spec => []TypeOK
<1>1. Inv => TypeOK
  BY DEF Inv, ConfigInv, PhaseInv, ServedInv, FormatsKnown, TypeOK
<1> QED
  BY <1>1, Invariant, PTL

\* Every text of a log entry denotes the payload, for every payload, in the
\* notation of the method's formatter (ResourceFormatterText.cpp, -Hex.cpp,
\* -Base64.cpp).
THEOREM LogDenotes == Spec => []LoggedTextDenotesPayload
<1>1. Inv => LoggedTextDenotesPayload
  <2> SUFFICES ASSUME Inv, NEW m \in entry.method, NEW f \in DOMAIN m.format
               PROVE  Denotes(m.format[f], entry.texts[f], entry.payload)
    BY DEF LoggedTextDenotesPayload
  <2>1. /\ m.format[f] \in KnownFormats /\ entry.payload \in Seq(Byte)
        /\ entry.texts[f] = Decode(m.format[f], entry.payload)
    BY DEF Inv, EntryInv, ToSet
  <2> QED
    BY <2>1, DecodeDenotes
<1> QED
  BY <1>1, Invariant, PTL

\* The instances of a document are expanded to their end exactly when each
\* has its template and each text to expand denotes something for its
\* arguments; otherwise the process ends on the way, at the first that has
\* none (Config.cpp:50-64, 242-306).
THEOREM ExpandsRight == Spec => []ExpandsOnlyMeaningful
<1>1. Inv /\ ReadInv => ExpandsOnlyMeaningful
  <2> SUFFICES ASSUME Inv, ReadInv, phase \in {"overrides", "server", "serving"}
               PROVE  AllMeaningful
    BY DEF ExpandsOnlyMeaningful, ReadInv, AllMeaningful
  <2>1. /\ document \in Documents /\ InstancesRead /\ Expanded /\ expanded = Len(instances)
    BY DEF Inv, ConfigInv, ReadInv
  <2> QED
    BY <2>1, InstanceCount DEF Expanded, AllMeaningful
<1> QED
  BY <1>1, Reads, PTL

\* What a document denotes is what is served: each resource and, for each
\* instance, those of its template with the references replaced, in order;
\* and for a dynamic resource the texts that its pattern denotes for the path
\* (Config.cpp:242-306, CoAPServer.cpp:234-264, 292-296).
THEOREM Configured == Spec => []ConfiguredAsWritten
<1>1. Inv /\ ReadInv /\ PatternsInv /\ MadeInv => ConfiguredAsWritten
  <2> SUFFICES ASSUME Inv, ReadInv, PatternsInv, MadeInv, phase = "serving", NEW c \in created
               PROVE  LET pattern == resources[c.pattern]
                          match == c.match
                          sm == [n \in 0 .. Len(match.groups) |->
                                   IF n = 0 THEN match.path ELSE match.groups[n]]
                          Right(text, made) == WellFormed(text, sm) => made = Denoted(text, sm)
                      IN  /\ Right(pattern.name, c.resource.name)
                          /\ Right(pattern.logFile, c.resource.logFile)
                          /\ Right(pattern.dataFile, c.resource.dataFile)
                          /\ c.resource.methods = pattern.methods
    BY ServesWritten DEF ConfiguredAsWritten
  <2> DEFINE pattern == resources[c.pattern]
             match == c.match
             sm == [n \in 0 .. Len(match.groups) |->
                      IF n = 0 THEN match.path ELSE match.groups[n]]
  <2>1. /\ c.pattern \in DOMAIN resources /\ pattern.dynamic /\ match \in Matches(pattern.path)
        /\ c.resource = ConfigFor(pattern, match)
    BY DEF MadeInv, Patterns
  <2>2. PICK k \in DOMAIN document.resources : pattern = Plain(document.resources[k])
    BY <2>1 DEF PatternsInv
  <2>3. document \in Documents /\ ReadConfig(document.resources[k]) # {}
    BY DEF Inv, ConfigInv, ReadInv, ResourcesRead
  <2>4. /\ ResourceGiven(document.resources[k])
        /\ \A path \in document.resources[k].path : \A m \in Matches(path) : MatchGiven(m)
    BY <2>3, InputsAssumption
  <2>5. ResourceRead(pattern) /\ pattern.path \in document.resources[k].path
    BY <2>2, <2>3, <2>4, PlainRead
  <2>6. MatchGiven(match)
    BY <2>1, <2>4, <2>5
  <2>7. \A t : IsSequence(t) /\ WellFormed(t, sm) =>
                 RegexReplace(t, match.path, match.groups) = Denoted(t, sm)
    BY <2>6, RegexText DEF MatchGiven
  <2>8. IsSequence(pattern.name) /\ IsSequence(pattern.logFile) /\ IsSequence(pattern.dataFile)
    BY <2>5 DEF ResourceRead
  <2> HIDE DEF sm, pattern, match
  <2>9. /\ c.resource.name = RegexReplace(pattern.name, match.path, match.groups)
        /\ c.resource.logFile = RegexReplace(pattern.logFile, match.path, match.groups)
        /\ c.resource.dataFile = RegexReplace(pattern.dataFile, match.path, match.groups)
        /\ c.resource.methods = pattern.methods
    BY <2>1, <2>5, MadeFields
  <2>10. /\ WellFormed(pattern.name, sm) => c.resource.name = Denoted(pattern.name, sm)
         /\ WellFormed(pattern.logFile, sm) => c.resource.logFile = Denoted(pattern.logFile, sm)
         /\ WellFormed(pattern.dataFile, sm) => c.resource.dataFile = Denoted(pattern.dataFile, sm)
    BY <2>7, <2>8, <2>9
  <2> QED
    BY <2>9, <2>10 DEF sm, pattern, match
<1> QED
  BY <1>1, Makes, PTL
=============================================================================
