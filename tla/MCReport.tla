------------------------------ MODULE MCReport ------------------------------
(* Tasks for module Report: every short document and documents with one    *)
(* token wrong, texts at the edges of the lexer, values through both       *)
(* writers, definitions of results as files hold them, and operations      *)
(* whose results have names in several shapes.                             *)
(* Bounds: documents of at most four tokens, or one edit away from eight   *)
(* longer ones; strings of two symbols; integers of 10 bits instead of 64; *)
(* lines of 12 columns instead of 74; three results per response.          *)
EXTENDS MCDecode, Report

MCIntBits == 8
MCLargestBits == 10
MCRightMargin == 12
MCCharOf ==
    0 :> "\\0" @@ 1 :> "C1" @@ 8 :> "BS" @@ 9 :> "\t" @@ 10 :> "\n" @@ 12 :> "\f"
    @@ 13 :> "\r" @@ 34 :> "\"" @@ 47 :> "/" @@ 65 :> "A" @@ 92 :> "\\"
    @@ 128512 :> "grin"

-----------------------------------------------------------------------------
(* Documents.                                                              *)
Name(t) == [type |-> "string", value |-> String(t)]
Scalar(n) == [type |-> "scalar", value |-> Integer(n)]
Comment == Mark("comment")
Brackets == {Mark(t) : t \in {"{", "}", "[", "]", ",", ":"}}
Alphabet == Brackets \cup {Name(<<"k">>), Scalar(1), Comment}

Longer ==
    LET kv(k, v) == <<Name(<<k>>), Mark(":"), v>> IN
    {<<Mark("{")>> \o kv("a", Scalar(1)) \o <<Mark(",")>> \o kv("b", Scalar(2)) \o <<Mark("}")>>,
     <<Mark("{")>> \o kv("a", Scalar(1)) \o <<Mark(","), Mark("}")>>,
     <<Mark("{")>> \o kv("a", Mark("[")) \o <<Scalar(1), Mark(","), Scalar(2), Mark("]"), Mark("}")>>,
     <<Mark("["), Mark("{")>> \o kv("a", Scalar(1)) \o <<Mark("}"), Mark(","), Mark("["), Mark("]"), Mark("]")>>,
     <<Mark("{")>> \o kv("a", Scalar(1)) \o <<Comment, Mark(",")>> \o kv("a", Mark("{")) \o <<Mark("}"), Mark("}")>>,
     <<Mark("["), Mark("["), Mark("["), Scalar(1), Mark("]"), Mark("]"), Comment, Mark("]")>>,
     <<Mark("{"), Name(<<>>), Mark(":"), Scalar(1), Mark(",")>> \o kv("b", Scalar(2)) \o <<Mark("}")>>,
     <<Comment, Mark("{"), Comment>> \o kv("a", Mark("{")) \o kv("b", Scalar(1)) \o <<Mark("}"), Comment, Mark("}")>>}

Edits(d) ==
    {[d EXCEPT ![i] = t] : i \in DOMAIN d, t \in Alphabet \cup {Mark("error")}}
    \cup {RemoveAt(d, i) : i \in DOMAIN d}
    \cup {InsertAt(d, i, t) : i \in DOMAIN d, t \in Alphabet}

MCDocuments ==
    UNION {[1..n -> Alphabet] : n \in 0..4} \cup Longer \cup UNION {Edits(d) : d \in Longer}

DocumentTask(d) == [kind |-> "document", doc |-> d]

-----------------------------------------------------------------------------
(* Texts and what they mean.                                               *)
TextMeaning(text, values) == [kind |-> "text", doc |-> Tokens(text), meant |-> values]
InQuotes(t) == <<"\"">> \o t \o <<"\"">>
StringText(t, s) == TextMeaning(InQuotes(t), {String(s)})
RefusedString(t) == TextMeaning(InQuotes(t), {})
NumberOf(ds, v) == TextMeaning(ds, {v})
KV(k, v) == <<"\"", k, "\"", ":", v>>
Hole == <<"/", "*", "*", "/">>
Grin == <<"\\", "u", "d", "8", "3", "d", "\\", "u", "D", "E", "0", "0">>

TextTasks ==
    {StringText(<<"a", "\\", "\\">>, <<"a", "\\">>),
     StringText(<<"\\", "\"", "\\", "\\">>, <<"\"", "\\">>),
     StringText(<<"\\", "/", "/", "*">>, <<"/", "/", "*">>),
     StringText(<<"\\", "u", "0", "0", "4", "1", "1">>, <<"A", "1">>),
     StringText(<<"\\", "u", "0", "0", "2", "2">>, <<"\"">>),
     StringText(Grin, <<"grin">>),
     RefusedString(SubSeq(Grin, 1, 6)), RefusedString(SubSeq(Grin, 1, 6) \o <<"\\", "n">>),
     RefusedString(<<"\\", "u", "0", "0", "4">>), RefusedString(<<"\\", "q">>),
     RefusedString(<<"\\">>), RefusedString(<<"a", "\\", "\\", "\\">>)}
    \cup {NumberOf(<<"1", "0", "2", "3">>, Integer(1023)), NumberOf(<<"1", "0", "2", "4">>, Real(<<1024, 1>>)),
          NumberOf(<<"1", "0", "3">>, Integer(103)), NumberOf(<<"9", "9", "9", "9">>, Real(<<9999, 1>>)),
          NumberOf(<<"-", "5", "1", "2">>, Integer(-512)), NumberOf(<<"-", "5", "1", "3">>, Real(<<-513, 1>>)),
          NumberOf(<<"2", ".", "5", "0">>, Real(<<5, 2>>)), NumberOf(<<"1", "e", "2">>, Real(<<100, 1>>)),
          NumberOf(<<"-", "5", "E", "-", "1">>, Real(<<-1, 2>>)), NumberOf(<<"1", "-", "1">>, Real(<<1, 1>>)),
          NumberOf(<<"1", "e", "+", "9", "9", "9", "9">>, Real(<<1, 0>>)),
          NumberOf(<<"-">>, Integer(0)), TextMeaning(<<"-", ".">>, {})}
    \cup {TextMeaning(<<"t", "r", "u", "e">>, {Boolean(TRUE)}), TextMeaning(<<"n", "u", "l">>, {}),
          TextMeaning(Hole \o <<" ", "n", "u", "l", "l">>, {Null}),
          TextMeaning(<<"/", "/", "1", "\n", "2">>, {Integer(2)}),
          TextMeaning(<<"/", "*", "/", " ", "1">>, {}), TextMeaning(<<"/", "*", "*">>, {}),
          TextMeaning(<<"/", "1">>, {}), TextMeaning(<<"1", " ", "}">>, {Integer(1)}),
          TextMeaning(<<"[">> \o Hole \o <<"]">>, {}),
          TextMeaning(<<"{", "\"", "a", "\"">> \o Hole \o <<":", "1", "}">>, {}),
          TextMeaning(<<"{", "\"", "\"", ":", "1", ",", "}">>, {Object(<<>> :> Integer(1))}),
          TextMeaning(<<"{">> \o KV("a", "1") \o <<",", "}">>, {}),
          TextMeaning(<<"{">> \o KV("a", "1") \o Hole \o <<"7">> \o KV("b", "2") \o <<"}">>,
                      {Object(<<"a">> :> Integer(1) @@ <<"b">> :> Integer(2))})}

-----------------------------------------------------------------------------
(* Values through the writers.                                             *)
NastySymbols == {"a", "u", "\"", "\\", "/", "\n", "BS", "C1"}
Strings == UNION {[1..n -> NastySymbols] : n \in 0..2}
Scalars ==
    {Null, Boolean(TRUE), Boolean(FALSE)} \cup {String(t) : t \in Strings}
    \cup {Integer(n) : n \in {-512, -511, -10, -1, 0, 9, 10, 100, 1022, 1023}}
    \cup {Real(q) : q \in {<<1, 2>>, <<-5, 4>>, <<3, 1>>, <<-512, 1>>, <<1023, 1>>,
                           <<1024, 1>>, <<9, 1000>>, <<7, 0>>, <<-7, 0>>, <<0, 0>>}}
ListOf(items) == FoldLeft(Appended, EmptyArray, items)
FewScalars == {Null, Integer(-5), String(<<"\\">>), EmptyArray, EmptyObject, ListOf(<<Integer(1)>>)}
Composites ==
    {EmptyArray, EmptyObject, Array(1 :> Integer(7)), Array(0 :> Null @@ 2 :> EmptyObject)}
    \cup {ListOf(<<v, w>>) : v, w \in FewScalars} \cup {ListOf(<<v>>) : v \in FewScalars}
    \cup {ListOf([i \in 1..n |-> Integer(1)]) : n \in 3..5}
    \cup {Object(<<"\"", "a">> :> v @@ <<>> :> w) : v, w \in FewScalars}

(* What a reader can get: whole numbers without a point are integers, a    *)
(* hole is null.                                                           *)
Fits(n) == MinLargestInt <= n /\ n <= MaxLargestUInt
NormalNumber(q) ==
    CASE q[2] = 0 -> IF q[1] = 0 THEN Null ELSE Real(<<IF q[1] > 0 THEN 1 ELSE -1, 0>>)
      [] q[2] # 0 /\ q[1] % q[2] = 0 /\ Fits(q[1] \div q[2]) -> Integer(q[1] \div q[2])
      [] OTHER -> Real(Lowest(q[1], q[2]))

RECURSIVE NormalForm(_)
NormalForm(v) ==
    CASE IsArray(v) -> Array([i \in 0..(Size(v) - 1) |-> NormalForm(Item(v, i))])
      [] IsObject(v) -> Object([k \in DOMAIN v.members |-> NormalForm(v.members[k])])
      [] v.kind = "real" -> NormalNumber(v.ratio)
      [] OTHER -> v

WrittenTasks ==
    {[kind |-> "written", doc |-> Tokens(text), value |-> v] :
        <<v, text>> \in UNION {{<<v, FastWrite(v)>>, <<v, StyledWrite(v)>>} : v \in Scalars \cup Composites}}

-----------------------------------------------------------------------------
(* Definitions of results.  A file: members in order, comments between.    *)
MemberTokens(m) == <<Name(<<m[1]>>), Mark(":")>> \o m[2]
FileTokens(members, between) ==
    <<Mark("{")>>
      \o Joined([i \in DOMAIN members |-> MemberTokens(members[i])], between \o <<Mark(",")>> \o between)
      \o between \o <<Mark("}")>>
OneToken(v) == <<[type |-> IF IsString(v) THEN "string" ELSE "scalar", value |-> v]>>
Str(s) == OneToken(String(<<s>>))
Int0(n) == OneToken(Integer(n))

LevelsTokens(levels) == FileTokens([i \in DOMAIN levels |-> <<levels[i][1], OneToken(levels[i][2])>>], <<>>)
Labelled == <<<<"01", String(<<"on", "/", "\"">>)>>, <<"04", String(<<"\\", "\n">>)>>,
              <<"08", Integer(3)>>, <<"else", String(<<>>)>>>>
LabelledMeant ==
    <<"01">> :> <<"on", "/", "\"">> @@ <<"04">> :> <<"\\", "\n">> @@ <<"else">> :> <<>>

Meant(mask, length, levels) ==
    [type |-> <<"byte">>, display |-> <<"enum">>, start |-> 3, length |-> length,
     mask |-> mask, rpn |-> <<>>, levels |-> levels]
Members(extra) ==
    <<<<"uuid", Str("u1")>>, <<"type", Str("byte")>>, <<"start_pos", Int0(3)>>,
      <<"display", Str("enum")>>>> \o extra

DefinitionTask(extra, between, meant) ==
    [kind |-> "definition", doc |-> FileTokens(Members(extra), between), meant |-> meant]
LengthOne == <<<<"length", Int0(1)>>>>
TwoDigits(a, b) == OneToken(String(<<a, b>>))

(* Bytes in hexadecimal form, also such as look like decimal numbers.      *)
SomeDigits == {"0", "1", "8", "c", "e", "F"}
HexPrefixes == {<<>>, <<"0", "x">>, <<"0", "X">>}
HexBytes == {<<<<s>>, HexDigitOf(s)>> : s \in SomeDigits}
    \cup {<<<<s, t>>, 16 * HexDigitOf(s) + HexDigitOf(t)>> : s, t \in SomeDigits}
MaskTask(text, mask) ==
    DefinitionTask(LengthOne \o <<<<"mask", OneToken(String(text))>>>>, <<>>, {Meant(mask, 1, <<>>)})
MaskTasks ==
    {MaskTask(p \o b[1], b[2]) : p \in HexPrefixes, b \in HexBytes}
    \cup {MaskTask(t, 0) : t \in {<<"0", "x">>, <<"0", "g">>, <<"0", "x", "1", "g">>}}

DefinitionTasks ==
    UNION {{DefinitionTask(LengthOne \o <<<<"mask", TwoDigits("0", "c")>>, <<"levels", LevelsTokens(Labelled)>>>>,
                           b, {Meant(12, 1, LabelledMeant)}),
            DefinitionTask(LengthOne, b, {Meant(255, 1, <<>>)})} : b \in {<<>>, <<Comment>>, <<Comment, Comment>>}}
    \cup {DefinitionTask(<<>>, <<>>, {Meant(255, 0, <<>>)}),
          DefinitionTask(LengthOne \o <<<<"mask", Int0(4)>>>>, <<>>, {Meant(255, 1, <<>>)}),
          DefinitionTask(LengthOne \o <<<<"levels", Str("null")>>>>, <<>>, {Meant(255, 1, <<>>)}),
          DefinitionTask(LengthOne \o <<<<"levels", <<Mark("["), Mark("]")>>>>>>, <<>>, {Meant(255, 1, <<>>)}),
          DefinitionTask(LengthOne \o <<<<"levels", OneToken(Null)>>>>, <<>>, {Meant(255, 1, <<>>)}),
          DefinitionTask(<<<<"length", Str("1")>>>>, <<>>, {}),
          DefinitionTask(<<<<"length", Int0(128)>>>>, <<>>, {}),
          DefinitionTask(<<<<"length", OneToken(Real(<<3, 2>>))>>>>, <<>>, {Meant(255, 1, <<>>)}),
          DefinitionTask(<<<<"uuid", OneToken(Null)>>>>, <<>>, {}),
          DefinitionTask(LengthOne \o <<<<"start_pos", Int0(2)>>, <<"start_pos", Int0(3)>>>>, <<>>,
                         {Meant(255, 1, <<>>)})}
    \cup {[kind |-> "definition", doc |-> d, meant |-> {}] :
            d \in {Int0(1), <<Mark("["), Mark("]")>>, OneToken(Null), <<Mark("{")>>}}
    \cup MaskTasks

-----------------------------------------------------------------------------
(* Responses.                                                              *)
MCPaths ==
    "error_code.count" :> <<<<"error_code">>, <<"count">>>>
    @@ "error_code.codes.0.dtc" :> <<<<"error_code">>, <<"codes">>, <<"0">>, <<"dtc">>>>
    @@ "error_code.codes.1.dtc" :> <<<<"error_code">>, <<"codes">>, <<"1">>, <<"dtc">>>>
    @@ "error_code.codes.2.dtc" :> <<<<"error_code">>, <<"codes">>, <<"2">>, <<"dtc">>>>
    @@ "error_code.codes.new.dtc" :> <<<<"error_code">>, <<"codes">>, <<"new">>, <<"dtc">>>>
    @@ "error_code.codes" :> <<<<"error_code">>, <<"codes">>>>
    @@ "error_code" :> <<<<"error_code">>>>
    @@ "mcv.0" :> <<<<"mcv">>, <<"0">>>>
    @@ "mcv.1" :> <<<<"mcv">>, <<"1">>>>
    @@ "mcv.1.high" :> <<<<"mcv">>, <<"1">>, <<"high">>>>
    @@ "mcv.01.low" :> <<<<"mcv">>, <<"0", "1">>, <<"low">>>>
    @@ "map.0.1.x" :> <<<<"map">>, <<"0">>, <<"1">>, <<"x">>>>
    @@ "map.1.0.x" :> <<<<"map">>, <<"1">>, <<"0">>, <<"x">>>>
    @@ "map.1.0.y" :> <<<<"map">>, <<"1">>, <<"0">>, <<"y">>>>
    @@ "vin" :> <<<<"vin">>>>
    @@ "DME" :> <<<<"DME">>>>
    @@ "ZKE" :> <<<<"ZKE">>>>

NamedJob(names, fields, cut) ==
    LET bytes(i) == BytesOf(fields[i], TRUE)
        all == <<Acknowledged>> \o FlattenSeq([i \in DOMAIN fields |-> bytes(i)])
        data == IF cut THEN Front(all) ELSE all
        start(i) == 1 + MapThenSumSet(LAMBDA k : Len(bytes(k)), 1..(i - 1))
        p == Sent("DS2", data)
    IN  Job(p, ToByteArray(p), "intact", TRUE,
            [n \in Range(names) |-> fields[CHOOSE i \in DOMAIN names : names[i] = n]],
            {At(DefOf(fields[i]), names[i], start(i)) : i \in DOMAIN names})

NameLists ==
    {<<"error_code.count", "error_code.codes.0.dtc", "error_code.codes.1.dtc">>,
     <<"error_code.codes.0.dtc", "error_code.codes.2.dtc", "vin">>,
     <<"mcv.1", "mcv.0", "error_code.count">>,
     <<"mcv.0", "mcv.1.high", "vin">>, <<"mcv.1.high", "mcv.01.low", "vin">>,
     <<"map.0.1.x", "map.1.0.x", "map.1.0.y">>,
     <<"error_code.codes", "error_code.codes.0.dtc", "vin">>,
     <<"error_code.codes.new.dtc", "error_code.codes.1.dtc", "vin">>,
     <<"error_code", "error_code.count", "vin">>}

Less18(n) == Node(n, "-", Num(18, 1))
Infinite == Node(Num(90, 1), "/", Less18(N))
NotANumber == Node(Less18(N), "/", Less18(N))
ReportExpressions == MCExpressions \cup Branches(Infinite) \cup Branches(NotANumber)

FieldLists ==
    {<<Bcd(12), Characters("string", <<65, 34, 92>>), Characters("string", <<65, 0, 65>>)>>,
     <<Computed("byte", "float", 18, Sixteenth), Flags({0, 2}, <<>>), Flags({}, <<>>)>>,
     <<Computed("short", "float", 18, Infinite), Computed("short", "float", 18, NotANumber),
       Truths({0, 1, 2}, 1)>>}

JsonJobs == {NamedJob(ns, fs, cut) : ns \in NameLists, fs \in FieldLists, cut \in BOOLEAN}

OperationTask(j, format) == [kind |-> "operation", job |-> j, format |-> format, root |-> <<>>]
FamilyTasks ==
    {[kind |-> "hash", root |-> <<"families">>,
      hash |-> "DME" :> AddressesVariant(a) @@ "ZKE" :> AddressesVariant(z)] :
        a \in {<<18>>, <<18, 19, 20, 21>>}, z \in {<<>>, <<0>>}}

MCResponses == {t.hash : t \in FamilyTasks}
ReportJobs == MCJobs \cup JsonJobs
MCTasks ==
    {OperationTask(j, "text") : j \in MCJobs} \cup {OperationTask(j, "json") : j \in JsonJobs}
    \cup FamilyTasks \cup {DocumentTask(d) : d \in MCDocuments}
    \cup TextTasks \cup WrittenTasks \cup DefinitionTasks

-----------------------------------------------------------------------------
(* Properties.                                                             *)
ReadEnds == phase = "read" /\ mode = "done"

(* Escapes, surrogate pairs, the border between integers and doubles, ends *)
(* of comments and strings are read as written; what the reader refuses or *)
(* takes beyond JSON is exactly what is listed here.                       *)
TextsDecoded == ReadEnds /\ task.kind = "text" => result = task.meant

(* Reader after either writer: the same value, but for what JSON cannot    *)
(* say; so is what is printed as JSON, whatever the names of the results.  *)
WrittenReadsBack ==
    ReadEnds =>
        /\ task.kind = "written" => result = {NormalForm(task.value)}
        /\ task.kind \in {"operation", "hash"} => result = {NormalForm(BelowRoot(task.root))}

(* parseResultJson and loadByUuid: a definition is what its file says, for *)
(* any order of members and comments, labels with quotes and backslashes   *)
(* included; it is refused if a uuid or number is none.  A mask is a byte  *)
(* in hexadecimal form, with 0x before it or not; one that is no string    *)
(* counts as none, another text has no bits.                               *)
DefinitionAsWritten ==
    task.kind = "definition" =>
        /\ phase = "end" => task.meant = {loaded}
        /\ phase = "thrown" \/ (ReadEnds /\ result = {}) => task.meant = {}

(* null stands for an empty text, no label, a boolean, and not a number; a *)
(* text ends at a NUL.                                                     *)
ForClient(m) ==
    CASE m.kind = "number" -> {NormalNumber(m.quantity)}
      [] m.kind = "truth" -> {Null}
      [] m.kind = "labels" ->
            IF m.labels = {} THEN {Null}
            ELSE {String(Joined([i \in DOMAIN ls |-> <<ls[i]>>], <<",">>)) : ls \in SetToSeqs(m.labels)}
      [] m.kind = "text" ->
            IF m.characters = <<>> THEN {Null}
            ELSE {String([i \in 1..(First(m.characters, 1, LAMBDA j : m.characters[j] = Character(0)) - 1) |->
                        CharSymbol(m.characters[i])])}

(* In every order of the hash: a program that reads the printed JSON finds *)
(* each result of the reply under its name, with the value the control     *)
(* unit meant; printing fails only if the names make no tree.              *)
ClientFindsResults ==
    task.kind = "operation" /\ OneTree(DOMAIN hash) =>
        /\ phase # "thrown"
        /\ ReadEnds =>
              \A v \in result, r \in {x \in job.results : Complete(job, x)} :
                  \A m \in MeantBy(FieldOf(r)) : Found(v, Paths[r.name]) \in ForClient(m)
=============================================================================
