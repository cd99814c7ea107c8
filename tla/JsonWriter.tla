----------------------------- MODULE JsonWriter -----------------------------
(***************************************************************************)
(* Json::FastWriter, which the loader uses for the levels it keeps in the  *)
(* database, and Json::StyledWriter, which prints responses                *)
(* (src/jsoncpp/json_writer.cpp).  The text is a sequence of symbols as in *)
(* JsonLexer; of the layout only the blanks between tokens are kept.  The  *)
(* order of members is that of the map, any fixed one here.                *)
(***************************************************************************)
EXTENDS JsonLexer

CONSTANT RightMargin     \* rightMargin_, 74; bound: smaller in the runs

-----------------------------------------------------------------------------
(* Numbers.                                                                *)
NaturalText(n) ==
    LET text[k \in Nat] ==
            IF k < 10 THEN <<Digits[k + 1]>>
            ELSE Append(text[k \div 10], Digits[(k % 10) + 1])
    IN  text[n]
Signed1(n, text) == IF n < 0 THEN <<"-">> \o text ELSE text
Magnitude(n) == IF n < 0 THEN -n ELSE n

IntegerText(n) == Signed1(n, NaturalText(Magnitude(n)))

(* %.16g of a number that has no more digits than that and needs no        *)
(* exponent: a whole number has no point.  JSON has no name for what is    *)
(* not finite.                                                             *)
Fraction(r, d) ==
    LET digits[x \in Nat] ==
            IF x = 0 THEN <<>>
            ELSE <<Digits[((10 * x) \div d) + 1]>> \o digits[(10 * x) % d]
    IN  digits[r]

RealText(q) ==
    LET n == Magnitude(q[1]) IN
    CASE q[2] = 0 /\ n = 0 -> <<"n", "u", "l", "l">>
      [] q[2] = 0 /\ n # 0 -> Signed1(q[1], <<"1", "e", "+", "9", "9", "9", "9">>)
      [] q[2] # 0 /\ n % q[2] = 0 -> Signed1(q[1], NaturalText(n \div q[2]))
      [] OTHER -> Signed1(q[1], NaturalText(n \div q[2]) \o <<".">>
                                    \o Fraction(n % q[2], q[2]))

-----------------------------------------------------------------------------
(* Strings: the five short escapes, quote and backslash, and \u for every  *)
(* other control character.                                                *)
ShortEscapes == {"\"", "\\", "b", "f", "n", "r", "t"}
IsControl(s) == \E c \in DOMAIN CharOf \cap (1..31) : CharOf[c] = s
HexText4(c) ==
    LET digit(d) == IF d < 10 THEN Digits[d + 1]
                    ELSE (<<"A", "B", "C", "D", "E", "F">>)[d - 9]
    IN  <<"0", "0", digit(c \div 16), digit(c % 16)>>

EscapedSymbol_NoBackslash(s) ==
    IF \E e \in ShortEscapes \ {"\\"} : Escapes[e] = s
    THEN <<"\\", CHOOSE e \in ShortEscapes : Escapes[e] = s>>
    ELSE IF IsControl(s)
    THEN <<"\\", "u">> \o HexText4(CHOOSE c \in 1..31 : CharOf[c] = s)
    ELSE <<s>>
EscapedSymbol(s) ==
    IF \E e \in ShortEscapes : Escapes[e] = s
    THEN <<"\\", CHOOSE e \in ShortEscapes : Escapes[e] = s>>
    ELSE IF IsControl(s)
    THEN <<"\\", "u">> \o HexText4(CHOOSE c \in DOMAIN CharOf : CharOf[c] = s)
    ELSE <<s>>

Quoted(t) ==
    <<"\"">> \o FlattenSeq([i \in 1..Len(t) |-> EscapedSymbol(t[i])]) \o <<"\"">>

ScalarText(v) ==
    CASE v.kind = "null" -> <<"n", "u", "l", "l">>
      [] v.kind = "boolean" -> IF v.truth THEN <<"t", "r", "u", "e">>
                               ELSE <<"f", "a", "l", "s", "e">>
      [] v.kind = "integer" -> IntegerText(v.number)
      [] v.kind = "real" -> RealText(v.ratio)
      [] v.kind = "string" -> Quoted(v.text)

-----------------------------------------------------------------------------
(* Composites.                                                             *)
Items(v) == [i \in 1..Size(v) |-> Item(v, i - 1)]
Names(v) == SetToSeq(DOMAIN v.members)
Joined(texts, separator) ==
    IF texts = <<>> THEN <<>>
    ELSE FoldLeft(LAMBDA whole, t : whole \o separator \o t, Head(texts), Tail(texts))

RECURSIVE FastText(_)
FastText(v) ==
    CASE IsArray(v) ->
            <<"[">> \o Joined([i \in 1..Size(v) |-> FastText(Items(v)[i])], <<",">>) \o <<"]">>
      [] IsObject(v) ->
            LET member(name) == Quoted(name) \o <<":">> \o FastText(Member(v, name))
            IN  <<"{">> \o Joined([i \in DOMAIN Names(v) |-> member(Names(v)[i])], <<",">>)
                    \o <<"}">>
      [] OTHER -> ScalarText(v)

FastWrite(v) == Append(FastText(v), "\n")

(* isMultineArray.  While it looks at the length of a line the texts of    *)
(* the items, all of them scalar or empty, are kept in childValues_ and    *)
(* printed from there.                                                     *)
EmptyText(v) == CASE IsArray(v) -> <<"[", "]">> [] IsObject(v) -> <<"{", "}">>
                  [] OTHER -> ScalarText(v)
HasNested(v) == \E i \in 1..Size(v) : Size(Items(v)[i]) > 0
ChildTexts(v) == [i \in 1..Size(v) |-> EmptyText(Items(v)[i])]
LineLength(v) ==
    4 + (Size(v) - 1) * 2 + FoldLeft(LAMBDA n, t : n + Len(t), 0, ChildTexts(v))
IsMultilineArray(v) ==
    Size(v) * 3 >= RightMargin \/ HasNested(v) \/ LineLength(v) >= RightMargin

RECURSIVE StyledText(_)
StyledText(v) ==
    CASE IsArray(v) /\ Size(v) > 0 ->
            IF ~IsMultilineArray(v)
            THEN <<"[", " ">> \o Joined(ChildTexts(v), <<",", " ">>) \o <<" ", "]">>
            ELSE LET texts == IF Size(v) * 3 >= RightMargin \/ HasNested(v)
                              THEN [i \in 1..Size(v) |-> StyledText(Items(v)[i])]
                              ELSE ChildTexts(v)
                 IN  <<"[", "\n">> \o Joined(texts, <<",", "\n">>) \o <<"\n", "]">>
      [] IsObject(v) /\ Size(v) > 0 ->
            LET member(name) == Quoted(name) \o <<" ", ":", " ">> \o StyledText(Member(v, name))
            IN  <<"{", "\n">>
                    \o Joined([i \in DOMAIN Names(v) |-> member(Names(v)[i])], <<",", "\n">>)
                    \o <<"\n", "}">>
      [] OTHER -> EmptyText(v)

StyledWrite(v) == Append(StyledText(v), "\n")
=============================================================================
