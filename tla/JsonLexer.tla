----------------------------- MODULE JsonLexer ------------------------------
(***************************************************************************)
(* Reader::readToken (src/jsoncpp/json_reader.cpp) and the decoding of     *)
(* numbers and strings: from the symbols of a document to its tokens.      *)
(* Where a token begins and ends does not depend on what the parser does   *)
(* with it, so a document is its sequence of tokens; the end of the        *)
(* document is a token that is never passed.                               *)
(*                                                                         *)
(* A symbol is a character; a run of ordinary characters may be one symbol *)
(* "abc".  "BS" is the backspace and "NUL" what getNextChar answers at the *)
(* end.                                                                    *)
(***************************************************************************)
EXTENDS JsonValue, SequencesExt, TLC

CONSTANT CharOf    \* code points to symbols, for those that are escaped

Digits == <<"0", "1", "2", "3", "4", "5", "6", "7", "8", "9">>
HexLetters == <<{"a", "A"}, {"b", "B"}, {"c", "C"}, {"d", "D"}, {"e", "E"}, {"f", "F"}>>
Blanks == {" ", "\t", "\r", "\n"}
NumberSymbols == Range(Digits) \cup {".", "e", "E", "+", "-"}

IsDigit(s) == s \in Range(Digits)
DigitOf(s) == (CHOOSE d \in 1..10 : Digits[d] = s) - 1
IsHexDigit(s) == IsDigit(s) \/ \E k \in 1..6 : s \in HexLetters[k]
HexDigitOf(s) ==
    IF IsDigit(s) THEN DigitOf(s) ELSE 9 + CHOOSE k \in 1..6 : s \in HexLetters[k]

Symbol(text, i) == IF i <= Len(text) THEN text[i] ELSE "NUL"

(* The first position from i on that satisfies Test, or the end.           *)
First(text, i, Test(_)) ==
    IF \E j \in i..Len(text) : Test(j)
    THEN CHOOSE j \in i..Len(text) : Test(j) /\ \A k \in i..(j - 1) : ~Test(k)
    ELSE Len(text) + 1

SkipSpaces(text, i) == First(text, i, LAMBDA j : text[j] \notin Blanks)
Matches(text, i, word) ==
    i + Len(word) - 1 <= Len(text) /\ SubSeq(text, i, i + Len(word) - 1) = word

-----------------------------------------------------------------------------
(* Where tokens end: [to |-> the position after the token, ok |-> ...].    *)
Ends(ok, to) == [ok |-> ok, to |-> to]
EndsBehind(text, close, length) ==
    IF close > Len(text) THEN Ends(FALSE, close) ELSE Ends(TRUE, close + length)

(* The symbol after a backslash is passed over, whatever it is: a quote    *)
(* closes the string after an even number of backslashes.                  *)
EndOfString(text, i) ==
    LET backslashes(j) ==
            j - First(text, i, LAMBDA k : \A m \in k..(j - 1) : text[m] = "\\")
        closing(j) == text[j] = "\"" /\ backslashes(j) % 2 = 0
    IN  EndsBehind(text, First(text, i, closing), 1)

EndOfComment(text, i) ==
    LET closing(j) == text[j] = "*" /\ Symbol(text, j + 1) = "/"
        newline(j) == text[j] \in {"\r", "\n"}
    IN  CASE Symbol(text, i) = "*" -> EndsBehind(text, First(text, i + 1, closing), 2)
          [] Symbol(text, i) = "/" -> Ends(TRUE, Min({First(text, i + 1, newline), Len(text)}) + 1)
          [] OTHER -> Ends(FALSE, Min({i, Len(text)}) + 1)

EndOfNumber(text, i) == Ends(TRUE, First(text, i, LAMBDA j : text[j] \notin NumberSymbols))

EndOfWord(text, i, rest) ==
    IF Matches(text, i, rest) THEN Ends(TRUE, i + Len(rest)) ELSE Ends(FALSE, i)

-----------------------------------------------------------------------------
(* Numbers.                                                                *)
DigitsValue(ds) == FoldLeft(LAMBDA n, s : 10 * n + DigitOf(s), 0, ds)

(* The check before each digit, so that the number does not overflow.      *)
Overflows_LastDigit(ds, max) ==
    \E k \in DOMAIN ds :
        LET value == DigitsValue(SubSeq(ds, 1, k - 1)) IN
        value >= max \div 10 /\ (value > max \div 10 \/ k < Len(ds))
Overflows(ds, max) ==
    \E k \in DOMAIN ds :
        LET value == DigitsValue(SubSeq(ds, 1, k - 1)) IN
        /\ value >= max \div 10
        /\ value > max \div 10 \/ k < Len(ds) \/ DigitOf(ds[k]) > max % 10

Gcd[a, b \in Nat] == IF b = 0 THEN a ELSE Gcd[b, a % b]
Lowest(n, d) ==
    LET g == Gcd[IF n < 0 THEN -n ELSE n, d] IN <<n \div g, d \div g>>

(* sscanf with %lf: the longest prefix that is a number, if there is one.  *)
LeadingDigits(t, i) == SubSeq(t, i, First(t, i, LAMBDA j : ~IsDigit(t[j])) - 1)

Exponent(t, i) ==
    IF Symbol(t, i) \notin {"e", "E"} THEN 0
    ELSE IF Symbol(t, i + 1) \in {"+", "-"}
    THEN (IF t[i + 1] = "-" THEN -1 ELSE 1) * DigitsValue(LeadingDigits(t, i + 2))
    ELSE DigitsValue(LeadingDigits(t, i + 1))

LargestExponent == 308
Scaled(n, places, exponent) ==
    IF exponent > LargestExponent /\ n # 0 THEN Real(<<IF n > 0 THEN 1 ELSE -1, 0>>)
    ELSE IF exponent >= places THEN Real(<<n * 10^(exponent - places), 1>>)
    ELSE Real(Lowest(n, 10^(places - exponent)))

WithFraction(t, i, whole, fraction) ==
    IF whole \o fraction = <<>> THEN {}
    ELSE {Scaled((IF t[1] = "-" THEN -1 ELSE 1) * DigitsValue(whole \o fraction),
                 Len(fraction), Exponent(t, i + Len(fraction)))}
WithWhole(t, i, whole) ==
    IF Symbol(t, i) = "." THEN WithFraction(t, i + 1, whole, LeadingDigits(t, i + 1))
    ELSE WithFraction(t, i, whole, <<>>)
FromDigits(t, i, whole) == WithWhole(t, i + Len(whole), whole)
DecodeDouble(t) ==
    LET from == IF t[1] = "-" THEN 2 ELSE 1
    IN  FromDigits(t, from, LeadingDigits(t, from))

DecodeNumber(t) ==
    LET negative == t[1] = "-"
        ds == IF negative THEN Tail(t) ELSE t
    IN  IF \/ \E i \in DOMAIN t : t[i] \in {".", "e", "E", "+"} \/ (t[i] = "-" /\ i > 1)
           \/ Overflows(ds, IF negative THEN -MinLargestInt ELSE MaxLargestUInt)
        THEN DecodeDouble(t)
        ELSE {Integer((IF negative THEN -1 ELSE 1) * DigitsValue(ds))}

-----------------------------------------------------------------------------
(* Strings.                                                                *)
Escapes ==
    "\"" :> "\"" @@ "/" :> "/" @@ "\\" :> "\\" @@ "b" :> "BS" @@ "f" :> "\f"
    @@ "n" :> "\n" @@ "r" :> "\r" @@ "t" :> "\t"

(* decodeUnicodeEscapeSequence: the code of the four digits from i on.     *)
HexCode(t, i) ==
    IF i + 3 <= Len(t) /\ \A k \in i..(i + 3) : IsHexDigit(t[k])
    THEN {FoldLeft(LAMBDA n, s : 16 * n + HexDigitOf(s), 0, SubSeq(t, i, i + 3))}
    ELSE {}

HighSurrogates == 55296..56319

(* decodeUnicodeCodePoint: the code and where the rest of the string is;   *)
(* the second half of a pair is not checked to be one.                     *)
CodePoint(t, i) ==
    UNION {IF c \notin HighSurrogates THEN {[code |-> c, rest |-> i + 4]}
           ELSE IF Matches(t, i + 4, <<"\\", "u">>)
           THEN {[code |-> 65536 + ((c % 1024) * 1024) + (d % 1024), rest |-> i + 10] :
                    d \in HexCode(t, i + 6)}
           ELSE {} : c \in HexCode(t, i)}

DecodeString(t) ==
    LET decode[i \in 1..(Len(t) + 1)] ==
            CASE i > Len(t) -> {<<>>}
              [] i <= Len(t) /\ t[i] # "\\" -> {<<t[i]>> \o d : d \in decode[i + 1]}
              [] Symbol(t, i) = "\\" /\ Symbol(t, i + 1) \in DOMAIN Escapes ->
                    {<<Escapes[t[i + 1]]>> \o d : d \in decode[i + 2]}
              [] Symbol(t, i) = "\\" /\ Symbol(t, i + 1) = "u" ->
                    UNION {{<<CharOf[p.code]>> \o d : d \in decode[p.rest]} :
                               p \in CodePoint(t, i + 2)}
              [] OTHER -> {}
    IN  decode[1]

-----------------------------------------------------------------------------
(* Tokens.  A value, or a text that cannot be decoded, which both users of *)
(* strings and the user of numbers refuse like any other wrong token.      *)
Mark(type) == [type |-> type]
Decoded(type, values) ==
    IF values = {} THEN Mark("error")
    ELSE [type |-> type, value |-> CHOOSE v \in values : TRUE]

EndOfToken(text, i) ==
    LET c == text[i]
    IN  CASE c = "\"" -> EndOfString(text, i + 1)
          [] c = "/" -> EndOfComment(text, i + 1)
          [] IsDigit(c) \/ c = "-" -> EndOfNumber(text, i)
          [] c = "t" -> EndOfWord(text, i + 1, <<"r", "u", "e">>)
          [] c = "f" -> EndOfWord(text, i + 1, <<"a", "l", "s", "e">>)
          [] c = "n" -> EndOfWord(text, i + 1, <<"u", "l", "l">>)
          [] OTHER -> Ends(c \in {"{", "}", "[", "]", ",", ":"}, i + 1)

(* The token with this text.                                               *)
TokenOf(t) ==
    LET c == Head(t)
    IN  CASE c = "\"" -> Decoded("string", {String(d) :
                            d \in DecodeString(SubSeq(t, 2, Len(t) - 1))})
          [] c = "/" -> Mark("comment")
          [] c \in {"t", "f"} -> Decoded("scalar", {Boolean(c = "t")})
          [] c = "n" -> Decoded("scalar", {Null})
          [] IsDigit(c) \/ c = "-" -> Decoded("scalar", DecodeNumber(t))
          [] OTHER -> Mark(c)

TokenAt(text, i, end) ==
    IF end.ok THEN TokenOf(SubSeq(text, i, end.to - 1)) ELSE Mark("error")

Tokens(text) ==
    LET from[i \in 1..(Len(text) + 1)] ==
            LET start == SkipSpaces(text, i)
                end == EndOfToken(text, start)
            IN  IF start > Len(text) THEN <<>>
                ELSE <<TokenAt(text, start, end)>> \o from[end.to]
    IN  from[1]
=============================================================================
