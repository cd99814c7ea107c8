------------------------------- MODULE Report -------------------------------
(***************************************************************************)
(* The two ways of JSON through the program.                               *)
(*                                                                         *)
(* In: the definition of a result is read by Json::Reader, stored by       *)
(* DPP_V1_Parser::parseResultJson and loaded again by                      *)
(* ControlUnit::loadByUuid, which reads the levels with another parser.    *)
(*                                                                         *)
(* Out: a reply is decoded (module Decode), the response is printed as     *)
(* JSON (module Output), and a program that reads the output parses it.    *)
(*                                                                         *)
(* A task is one way, or a part of it: a document, a text, a hash.  The    *)
(* phase of module Output is here also "decode", "read", "store", "load"   *)
(* or "end".                                                               *)
(***************************************************************************)
EXTENDS Decode, Output, JsonWriter, JsonGrammar

CONSTANT Tasks

VARIABLES
    task,      \* what is done; fixed
    row,       \* the row of table results
    loaded     \* the Result loadByUuid makes of it

reportVars == <<task, row, loaded, outputVars, vars, readerVars>>

None == [kind |-> "none"]

-----------------------------------------------------------------------------
(* parseResultJson.                                                        *)

(* getQStringFromJson; the null string is empty.                           *)
QStringOf(v) ==
    CASE IsString(v) -> v.text
      [] IsArray(v) -> <<"[", "ARRAY", "]">>
      [] OTHER -> <<>>

(* The length binds null when there is none.                               *)
LengthOf(v) == IF IsNull(v) THEN {-1} ELSE AsInt(v)

(* The levels are stored as text, "null" as no text.                       *)
StoredLevels(v) == IF IsNull(v) THEN <<>> ELSE FastText(v)

(* The mask is text in a column of INTEGER affinity: digits, and digits    *)
(* with an exponent, are kept as the number they are in decimal, and come  *)
(* back as its digits.  Masks with a sign or a point are left out.         *)
StoredMask(text) ==
    LET e == First(text, 1, LAMBDA j : ~IsDigit(text[j]))
        power == SubSeq(text, e + 1, Len(text))
    IN  IF /\ e > 1 /\ Symbol(text, e) \in {"NUL", "e", "E"}
           /\ e <= Len(text) => power # <<>> /\ \A j \in DOMAIN power : IsDigit(power[j])
        THEN NaturalText(DigitsValue(SubSeq(text, 1, e - 1)) * 10^DigitsValue(power))
        ELSE text

(* The rows a definition may become: none if a conversion throws.          *)
Rows(v) ==
    IF ~TakesMembers(v) THEN {}
    ELSE {[uuid |-> u, type |-> QStringOf(Member(v, <<"type">>)),
           display |-> QStringOf(Member(v, <<"display">>)),
           start |-> s, length |-> n,
           mask |-> StoredMask(QStringOf(Member(v, <<"mask">>))),
           rpn |-> QStringOf(Member(v, <<"rpn">>)),
           levels |-> StoredLevels(Member(v, <<"levels">>))] :
             u \in AsCString(Member(v, <<"uuid">>)),
             s \in AsInt(Member(v, <<"start_pos">>)),
             n \in LengthOf(Member(v, <<"length">>))}

(* loadByUuid.  setMask: all bits without a text, none for one that is no  *)
(* hexadecimal number; toUInt takes one with a prefix.                     *)
HexDigitsOf_Whole(text) == text
HexDigitsOf(text) ==
    IF Len(text) > 2 /\ text[1] = "0" /\ text[2] \in {"x", "X"}
    THEN SubSeq(text, 3, Len(text)) ELSE text
MaskOf(text) ==
    CASE text = <<>> -> 255
      [] text # <<>> /\ \A s \in Range(HexDigitsOf(text)) : IsHexDigit(s) ->
            FoldLeft(LAMBDA n, s : 16 * n + HexDigitOf(s), 0, HexDigitsOf(text))
      [] OTHER -> 0

(* Of the levels only those that are strings; none if the text is no       *)
(* object.                                                                 *)
LevelsOf(text) ==
    LET objects == {v \in Standard(Tokens(text)) : IsObject(v)}
        members == UNION {{<<k, v.members[k]>> : k \in DOMAIN v.members} : v \in objects}
        strings == {m \in members : IsString(m[2])}
    IN  [k \in {m[1] : m \in strings} |-> (CHOOSE m \in strings : m[1] = k)[2].text]

Loaded(r) ==
    [type |-> r.type, display |-> r.display, start |-> r.start,
     length |-> IF r.length = -1 THEN 0 ELSE r.length,
     mask |-> MaskOf(r.mask), rpn |-> r.rpn, levels |-> LevelsOf(r.levels)]

-----------------------------------------------------------------------------
(* The variants of a response.  A float is a double, the others integers.  *)
CharSymbol(c) ==
    CASE c < 10 -> Digits[c + 1]
      [] c >= 100 /\ c - 100 \in DOMAIN CharOf -> CharOf[c - 100]
      [] OTHER -> ToString(c)

IsFloat(name) == \E r \in job.results : r.name = name /\ r.display = "float"

VariantOf(name, v) ==
    CASE v.kind = "text" -> TextVariant([i \in DOMAIN v.characters |-> CharSymbol(v.characters[i])])
      [] v.kind = "labels" -> 
            TextVariant(Joined([i \in 1..Cardinality(v.labels) |->
                                   <<SetToSeq(v.labels)[i]>>], <<",">>))
      [] v.kind = "number" /\ IsFloat(name) ->
            DoubleVariant(IF v.quantity[2] = 0 THEN v.quantity
                          ELSE Lowest(v.quantity[1], v.quantity[2]))
      [] v.kind = "number" /\ ~IsFloat(name) -> IntegerVariant(v.quantity[1])
      [] v.kind = "truth" -> BoolVariant

-----------------------------------------------------------------------------
(* Steps.                                                                  *)
AnyJob == CHOOSE j \in Jobs : TRUE

ReportInit ==
    /\ task \in Tasks
    /\ job = (IF task.kind = "operation" THEN task.job ELSE AnyJob)
    /\ Init
    /\ phase = (CASE task.kind = "operation" -> "decode"
                  [] task.kind = "hash" -> "print"
                  [] OTHER -> "read")
    /\ doc = (IF phase = "read" THEN task.doc ELSE <<>>)
    /\ ReaderStart
    /\ hash = (IF task.kind = "hash" THEN task.hash ELSE <<>>)
    /\ unplaced = DOMAIN hash
    /\ json = Null /\ row = None /\ loaded = None

Decoding ==
    /\ phase = "decode" /\ Next
    /\ UNCHANGED <<task, row, loaded, outputVars, readerVars>>

(* --format json.                                                          *)
PrintResponse ==
    /\ phase = "decode" /\ stage = "done" /\ task.format = "json"
    /\ phase' = "print"
    /\ hash' = [n \in DOMAIN response |-> VariantOf(n, response[n])]
    /\ unplaced' = DOMAIN response
    /\ UNCHANGED <<task, json, row, loaded, vars, readerVars>>

Printing ==
    /\ PlaceResult
    /\ UNCHANGED <<task, row, loaded, vars, readerVars>>

(* HashToJsonString: the whole below a root node, if one is named.         *)
BelowRoot(root) == IF root = <<>> THEN json ELSE WithMember(Null, root, json)
WriteJson ==
    /\ phase = "print" /\ unplaced = {}
    /\ phase' = "read"
    /\ doc' = Tokens(StyledWrite(BelowRoot(task.root)))
    /\ UNCHANGED <<task, hash, unplaced, json, row, loaded, vars, at, mode, nodes, errors, result>>

Reading ==
    /\ phase = "read" /\ ReaderNext
    /\ UNCHANGED <<task, row, loaded, outputVars, vars>>

(* parseFile goes on with what was accepted; here with the one result.     *)
StoreResult ==
    /\ phase = "read" /\ mode = "done" /\ task.kind = "definition" /\ result # {}
    /\ LET rows == UNION {Rows(v) : v \in result} IN
       IF rows = {} THEN phase' = "thrown" /\ UNCHANGED row
       ELSE phase' = "load" /\ row' \in rows
    /\ UNCHANGED <<task, hash, unplaced, json, loaded, vars, readerVars>>

LoadResult ==
    /\ phase = "load"
    /\ phase' = "end" /\ loaded' = Loaded(row)
    /\ UNCHANGED <<task, hash, unplaced, json, row, vars, readerVars>>

ReportNext ==
    \/ Decoding \/ PrintResponse \/ Printing \/ WriteJson
    \/ Reading \/ StoreResult \/ LoadResult

ReportSpec == ReportInit /\ [][ReportNext]_reportVars
=============================================================================
