----------------------------- MODULE MBStrings -----------------------------
(***************************************************************************)
(* The functions of MBStrings.h: splitting, replacing and removing         *)
(* substrings, and the hexadecimal and URL codecs.  A behaviour is one     *)
(* call, and a step is one turn of its loop.  A string is a sequence of    *)
(* characters, which are their codes where a codec looks at them.          *)
(* Positions count from 0, as in std::string.                              *)
(***************************************************************************)
EXTENDS Integers, Sequences, SequencesExt, FiniteSetsExt

CONSTANTS
  Letters,    \* the characters of texts and patterns
  MaxText,    \* bound on the length of a text,
  MaxPattern, \* of a pattern and of its replacement,
  Octets,     \* the bytes that are encoded,
  MaxBytes,   \* and the bound on their number
  Codes,      \* the characters of what is decoded
  MaxCoded    \* and the bound on its length

\* Beyond every position, also of a text in which ReplaceAll has replaced all: an
\* empty pattern, with which Split and ReplaceAll do not end, is left out.
npos == (MaxText + 1) * (MaxPattern + 1)

SizesAssumption ==
  /\ MaxText \in Nat /\ MaxPattern \in Nat \ {0} /\ MaxBytes \in Nat /\ MaxCoded \in Nat
  /\ Octets \subseteq 0..255 /\ Codes \subseteq 0..255

VARIABLES
  function,  \* what is called
  source,    \* its first argument,
  pattern,   \* its second,
  with,      \* and its third
  text,      \* the first as the function has changed it
  offset,    \* index, StartCharacter, ParseOffset, CurrentOffset, i
  output,    \* what is returned
  ok,        \* *OutError, DecodeError
  phase

vars == <<function, source, pattern, with, text, offset, output, ok, phase>>

Searches == {"Split", "ReplaceAll", "RemoveLeadingString", "RemoveDuplicates"}
Encoders == {"HexEncodeString", "URLEncodeData"}
Decoders == {"HexStringToBytes", "URLDecodeData"}
Ended == {"returned", "threw"}

Strings(chars, low, high) == UNION {[1..n -> chars] : n \in low..high}

Init ==
  /\ \/ /\ function \in Searches
        /\ source \in Strings(Letters, 0, MaxText)
        /\ pattern \in Strings(Letters, 1, MaxPattern)
        /\ with \in IF function = "ReplaceAll" THEN Strings(Letters, 0, MaxPattern) ELSE {<<>>}
     \/ /\ function \in Encoders /\ source \in Strings(Octets, 0, MaxBytes)
        /\ pattern = <<>> /\ with = <<>>
     \/ /\ function \in Decoders /\ source \in Strings(Codes, 0, MaxCoded)
        /\ pattern = <<>> /\ with = <<>>
  /\ text = source /\ offset = 0 /\ output = <<>> /\ ok = TRUE
  /\ phase = IF function \in {"RemoveLeadingString", "RemoveDuplicates"} THEN "start" ELSE "loop"
-----------------------------------------------------------------------------
(* std::string                                                             *)

OccursAt(s, p, i) == i + Len(p) <= Len(s) /\ SubSeq(s, i + 1, i + Len(p)) = p

\* find
Find(s, p, from) == Min({npos} \cup {i \in from..Len(s) : OccursAt(s, p, i)})

\* substr, from one position to before another
Between(s, from, to) == SubSeq(s, from + 1, IF to < Len(s) THEN to ELSE Len(s))
-----------------------------------------------------------------------------
(* Substrings                                                              *)

\* Mutant of SplitTurn: the next piece starts one character after the match.
SplitTurnShort ==
  LET next == Find(text, pattern, offset) IN
  /\ output' = Append(output, Between(text, offset, next))
  /\ offset' = IF next = npos THEN offset ELSE next + 1
  /\ phase' = IF next = npos THEN "returned" ELSE phase
  /\ UNCHANGED <<text, ok>>

SplitTurn ==
  LET next == Find(text, pattern, offset) IN
  /\ output' = Append(output, Between(text, offset, next))
  /\ offset' = IF next = npos THEN offset ELSE next + Len(pattern)
  /\ phase' = IF next = npos THEN "returned" ELSE phase
  /\ UNCHANGED <<text, ok>>

ReplaceTurn ==
  LET index == Find(text, pattern, offset) IN
  /\ IF index = npos
     THEN output' = text /\ phase' = "returned" /\ UNCHANGED <<text, offset>>
     ELSE /\ text' = Between(text, 0, index) \o with \o Between(text, index + Len(pattern), npos)
          /\ offset' = index + Len(with)
          /\ UNCHANGED <<output, phase>>
  /\ UNCHANGED ok

\* A text that does not start with the string is returned as it is.
RemoveLeadingStart ==
  /\ IF Find(text, pattern, 0) # 0 THEN output' = text /\ phase' = "returned"
                                   ELSE output' = output /\ phase' = "loop"
  /\ UNCHANGED <<text, offset, ok>>

\* Beyond a copy comes another one, or the rest of the text: to step over the
\* copy, the position found is added to the one before it, and substr throws for a
\* position beyond the text.
RemoveLeadingTurn ==
  LET beyond == offset + Len(pattern)
      next == Find(text, pattern, beyond) IN
  /\ \/ /\ offset >= Len(text)
        /\ phase' = "returned" /\ UNCHANGED <<offset, output>>
     \/ /\ offset < Len(text) /\ next = beyond
        /\ offset' = offset + next /\ UNCHANGED <<output, phase>>
     \/ /\ offset < Len(text) /\ next # beyond
        /\ phase' = IF beyond > Len(text) THEN "threw" ELSE "returned"
        /\ output' = output \o Between(text, beyond, npos) /\ UNCHANGED offset
  /\ UNCHANGED <<text, ok>>

RemoveDuplicatesStart ==
  /\ offset' = Find(text, pattern, 0)
  /\ output' = Between(text, 0, offset')
  /\ phase' = "loop"
  /\ UNCHANGED <<text, ok>>

\* Mutant of RemoveDuplicatesTurn: the next copy is looked for from the copy itself.
RemoveDuplicatesTurnStay ==
  LET next == Find(text, pattern, offset)
      rest == offset < Len(text) IN
  /\ output' = IF rest THEN output \o Between(text, offset, next) ELSE output
  /\ offset' = IF rest /\ next # npos THEN next ELSE offset
  /\ phase' = IF rest /\ next # npos THEN phase ELSE "returned"
  /\ UNCHANGED <<text, ok>>

\* Of copies side by side the last is kept, with what comes before the next.
RemoveDuplicatesTurn ==
  LET next == Find(text, pattern, offset + Len(pattern))
      beside == next = offset + Len(pattern)
      rest == offset < Len(text) IN
  /\ output' = IF rest /\ ~beside THEN output \o Between(text, offset, next) ELSE output
  /\ offset' = IF rest /\ next # npos THEN next ELSE offset
  /\ phase' = IF rest /\ next # npos THEN phase ELSE "returned"
  /\ UNCHANGED <<text, ok>>
-----------------------------------------------------------------------------
(* Codecs                                                                  *)

\* s_ByteToHexMap
HexDigit(n) == IF n < 10 THEN 48 + n ELSE 87 + n
HexEncodeByte(b) == <<HexDigit(b \div 16), HexDigit(b % 16)>>

\* HexValueToByte compares signed characters, after taking 32 from those above F.
Upper(c) == LET s == IF c < 128 THEN c ELSE c - 256 IN IF s >= 71 THEN s - 32 ELSE s
Accepted(c) == Upper(c) \in (48..57) \cup (65..70)
DigitValue(c) == IF Upper(c) < 65 THEN Upper(c) - 48 ELSE Upper(c) - 55
HexValueToByte(c, d) == (16 * DigitValue(c) + DigitValue(d)) % 256

Next1 == text[offset + 1]
Next2 == text[offset + 2]
Next3 == text[offset + 3]

AtEnd == offset >= Len(text)
Return == phase' = "returned" /\ UNCHANGED <<text, offset, output, ok>>

\* One turn: n characters of the text are passed, and bytes are added.
Pass(n, bytes) ==
  offset' = offset + n /\ output' = output \o bytes /\ UNCHANGED <<text, ok, phase>>

\* A turn that gives up, with what it returns.
GiveUp(returned) ==
  output' = returned /\ ok' = FALSE /\ phase' = "returned" /\ UNCHANGED <<text, offset>>

EncodeTurn ==
  \/ function = "HexEncodeString" /\ Pass(1, HexEncodeByte(Next1))
  \/ function = "URLEncodeData" /\ Pass(1, <<37>> \o HexEncodeByte(Next1))

\* Blanks between bytes are passed over; any error gives the empty string.
HexDecodeTurn ==
  IF Next1 = 32 THEN Pass(1, <<>>)
  ELSE IF offset + 1 < Len(text) /\ Accepted(Next1) /\ Accepted(Next2)
  THEN Pass(2, <<HexValueToByte(Next1, Next2)>>)
  ELSE GiveUp(<<>>)

\* A plus is a blank, a percent sign takes two digits; an error ends the string
\* where it is, with a zero byte when the characters are there but are no digits.
URLDecodeTurn ==
  \/ Next1 = 43 /\ Pass(1, <<32>>)
  \/ Next1 \notin {37, 43} /\ Pass(1, <<Next1>>)
  \/ Next1 = 37 /\ offset + 2 >= Len(text) /\ GiveUp(output)
  \/ /\ Next1 = 37 /\ offset + 2 < Len(text)
     /\ IF Accepted(Next2) /\ Accepted(Next3)
        THEN Pass(3, <<HexValueToByte(Next2, Next3)>>)
        ELSE GiveUp(Append(output, 0))
-----------------------------------------------------------------------------
Turn ==
  \/ function = "Split" /\ SplitTurn
  \/ function = "ReplaceAll" /\ ReplaceTurn
  \/ function = "RemoveLeadingString" /\ RemoveLeadingTurn
  \/ function = "RemoveDuplicates" /\ RemoveDuplicatesTurn
  \/ function \in Encoders \cup Decoders /\ AtEnd /\ Return
  \/ function \in Encoders /\ ~AtEnd /\ EncodeTurn
  \/ function = "HexStringToBytes" /\ ~AtEnd /\ HexDecodeTurn
  \/ function = "URLDecodeData" /\ ~AtEnd /\ URLDecodeTurn

Start ==
  \/ function = "RemoveLeadingString" /\ RemoveLeadingStart
  \/ function = "RemoveDuplicates" /\ RemoveDuplicatesStart

Next ==
  /\ \/ phase = "start" /\ Start
     \/ phase = "loop" /\ Turn
  /\ UNCHANGED <<function, source, pattern, with>>

Spec == Init /\ [][Next]_vars /\ WF_vars(Next)
-----------------------------------------------------------------------------
(* What the functions are for                                              *)

\* The matches from the left that do not overlap.
Matches(s, p) ==
  LET match[i \in 0..Len(s)] ==
        OccursAt(s, p, i) /\ \A j \in 0..i - 1 : i - j < Len(p) => ~match[j]
  IN  {i \in 0..Len(s) : match[i]}

\* s with something else in the place of each match.
Rewritten(s, p, Instead(_)) ==
  FlattenSeq([k \in 1..Len(s) |->
    IF k - 1 \in Matches(s, p) THEN Instead(k - 1)
    ELSE IF \E i \in Matches(s, p) : k - 1 \in i..i + Len(p) - 1 THEN <<>>
    ELSE <<s[k]>>])

SplitRight ==
  /\ FlattenSeq([i \in DOMAIN output |->
       IF i = Len(output) THEN output[i] ELSE output[i] \o pattern]) = source
  /\ \A i \in DOMAIN output : Matches(output[i], pattern) = {}

ReplaceRight == output = Rewritten(source, pattern, LAMBDA i : with)

RemoveDuplicatesRight ==
  output = Rewritten(source, pattern, LAMBDA i :
             IF i + Len(pattern) \in Matches(source, pattern) THEN <<>> ELSE pattern)

\* RemoveLeadingString loses its place from the third copy on.
RemoveLeadingRight ==
  LET Leads(n) == \A i \in 0..n - 1 : OccursAt(source, pattern, i * Len(pattern))
      copies == Max({n \in 0..Len(source) : Leads(n)})
  IN  copies <= 2 => /\ phase = "returned"
                     /\ output = Between(source, copies * Len(pattern), npos)

LowerDigits == <<48, 49, 50, 51, 52, 53, 54, 55, 56, 57, 97, 98, 99, 100, 101, 102>>
UpperDigits == <<48, 49, 50, 51, 52, 53, 54, 55, 56, 57, 65, 66, 67, 68, 69, 70>>
IsHex(c) == \E n \in 1..16 : c \in {LowerDigits[n], UpperDigits[n]}
HexValue(c) == (CHOOSE n \in 1..16 : c \in {LowerDigits[n], UpperDigits[n]}) - 1
ByteOf(c, d) == 16 * HexValue(c) + HexValue(d)

EncodeRight ==
  LET n == IF function = "URLEncodeData" THEN 3 ELSE 2 IN
  /\ Len(output) = n * Len(source)
  /\ \A i \in DOMAIN source : /\ ByteOf(output[n * i - 1], output[n * i]) = source[i]
                              /\ n = 3 => output[n * i - 2] = 37

\* Of what is no digit, the decoders take the letters from P to Y for one.
Digits == \A i \in DOMAIN source : source[i] \notin 80..89

\* Where every character is a digit and their number is even there is no error.
HexErrorsRight ==
  /\ ~ok => output = <<>>
  /\ (\A i \in DOMAIN source : IsHex(source[i])) /\ Len(source) % 2 = 0 => ok

HexDecodeRight ==
  LET digits == SelectSeq(source, LAMBDA c : c # 32) IN
  /\ HexErrorsRight
  /\ ok /\ Digits => output = [i \in 1..Len(digits) \div 2 |-> ByteOf(digits[2 * i - 1], digits[2 * i])]

Percent == {i \in DOMAIN source : source[i] = 37}

\* A percent sign starts an escape of three characters.
URLErrorsRight ==
  Digits => (ok <=> \A i \in Percent : i + 2 <= Len(source) /\ IsHex(source[i + 1]) /\ IsHex(source[i + 2]))

URLDecodeRight ==
  /\ URLErrorsRight
  /\ ok /\ Digits => output = FlattenSeq([i \in DOMAIN source |->
       IF i \in Percent THEN <<ByteOf(source[i + 1], source[i + 2])>>
       ELSE IF {i - 1, i - 2} \cap Percent # {} THEN <<>>
       ELSE IF source[i] = 43 THEN <<32>> ELSE <<source[i]>>])

\* A call that has ended has split, replaced, removed, encoded or decoded what it
\* was given.
StringsRight ==
  phase \in Ended =>
    CASE function = "Split" -> SplitRight
      [] function = "ReplaceAll" -> ReplaceRight
      [] function = "RemoveLeadingString" -> RemoveLeadingRight
      [] function = "RemoveDuplicates" -> RemoveDuplicatesRight
      [] function \in Encoders -> EncodeRight
      [] function = "HexStringToBytes" -> HexDecodeRight
      [] function = "URLDecodeData" -> URLDecodeRight

\* Every call ends, also where ReplaceAll puts in what it replaces.
StringCallsEnd == <>(phase \in Ended)
=============================================================================
