----------------------------- MODULE Templates -----------------------------
(***************************************************************************)
(* References in configured texts: _TemplateReplace() of src/Config.cpp    *)
(* for the arguments of a template instance and _regexReplace() of         *)
(* src/CoAPServer.cpp for the groups of a dynamic resource's path.         *)
(*                                                                         *)
(* "$n" stands for the n-th text, "$$" for "$".  A text is a sequence of   *)
(* characters; a word that the code never looks into may be one of them.   *)
(***************************************************************************)
EXTENDS Naturals, Sequences, SequencesExt

CONSTANT SizeLimit  \* size_t counts modulo this number
ASSUME SizeLimitAssumption == SizeLimit \in Nat \ {0}

Digits == <<"0", "1", "2", "3", "4", "5", "6", "7", "8", "9">>
IsDigit(c) == c \in ToSet(Digits)
DigitValue(c) == CHOOSE d \in 0 .. 9 : Digits[d + 1] = c

\* A mistake a change of the code could make: one digit is the number.
DigitsEndAfterOne(in, i) == i + 1

\* Where the digits that begin at i end: the first other character.
DigitsEnd(in, i) ==
  CHOOSE e \in i .. Len(in) + 1 :
    /\ \A j \in i .. e - 1 : IsDigit(in[j])
    /\ e <= Len(in) => ~IsDigit(in[e])

Number(digits) == FoldLeft(LAMBDA n, d : (n * 10 + DigitValue(d)) % SizeLimit, 0, digits)

\* The loop of both functions: the set of its result, empty for an error.
Replaced(in, texts) ==
  LET Then(text, rest) == {text \o r : r \in rest}
      From[i \in 1 .. Len(in) + 2] ==
        IF i > Len(in) THEN {<< >>}
        ELSE IF in[i] # "$" THEN Then(<<in[i]>>, From[i + 1])
        ELSE IF i = Len(in) THEN {}
        ELSE IF in[i + 1] = "$" THEN Then(<<"$">>, From[i + 2])
        ELSE IF ~IsDigit(in[i + 1]) THEN {}
        ELSE LET end == DigitsEnd(in, i + 1)
                 n == Number(SubSeq(in, i + 1, end - 1))
             IN  IF n \in DOMAIN texts THEN Then(texts[n], From[end]) ELSE {}
  IN  From[1]

\* "ERROR: Template string argument specifier cannot be zero"
TemplateReplace(in, args) == Replaced(in, args)

\* sm[0] is the whole match; the test idx > sm.size() lets one index past
\* the last group through, whose text is empty.  An error gives no text.
RegexReplace(in, path, groups) ==
  LET sm == [n \in 0 .. Len(groups) + 1 |->
               IF n = 0 THEN path ELSE IF n <= Len(groups) THEN groups[n] ELSE << >>]
      result == Replaced(in, sm)
  IN  IF result = {} THEN << >> ELSE CHOOSE text \in result : TRUE

----------------------------------------------------------------------------
(* What a text denotes, without a loop: in a run of "$" every other one    *)
(* begins a reference, and the digits after it belong to it.               *)

Begins(in, i) ==
  /\ in[i] = "$"
  /\ \E first \in 1 .. i :
       /\ \A k \in first .. i : in[k] = "$"
       /\ first = 1 \/ in[first - 1] # "$"
       /\ (i - first) % 2 = 0

\* Position i belongs to the reference that begins at j.
Belongs(in, i, j) ==
  /\ j < i /\ Begins(in, j)
  /\ \/ i = j + 1 /\ in[i] = "$"
     \/ \A k \in j + 1 .. i : IsDigit(in[k])

\* The number that the reference at j spells.
Refers(in, j) ==
  Number(SubSeq(in, j + 1, Max({j} \cup {i \in 1 .. Len(in) : Belongs(in, i, j)})))

WellFormed(in, texts) ==
  \A i \in 1 .. Len(in) :
    Begins(in, i) =>
      /\ i < Len(in)
      /\ in[i + 1] = "$" \/ (IsDigit(in[i + 1]) /\ Refers(in, i) \in DOMAIN texts)

Denoted(in, texts) ==
  FlattenSeq([i \in 1 .. Len(in) |->
    IF Begins(in, i)
    THEN IF in[i + 1] = "$" THEN <<"$">> ELSE texts[Refers(in, i)]
    ELSE IF \E j \in 1 .. i - 1 : Belongs(in, i, j) THEN << >> ELSE <<in[i]>>])
=============================================================================
