------------------------------- MODULE Decode -------------------------------
(***************************************************************************)
(* From a recorded reply to the values that are shown: the packet given    *)
(* with --input-packet (DataCollection::runOperation) is read by the       *)
(* string constructors of KWPPacket or DS2Packet and decoded by            *)
(* ControlUnit::parseOperation, result by result in the order of a hash,   *)
(* with the RPN machine of runRpnForResult one token at a time.            *)
(*                                                                         *)
(* Bytes are numbers.  A character of a 6-bit string is its code, other    *)
(* characters are digits or Character(byte).  The float of a short (24     *)
(* bits) and the double of a byte (53) are exact rationals <<numerator,    *)
(* denominator>>, a zero denominator being what is not finite: that each   *)
(* step rounds, to the one width or the other, is left out.                *)
(***************************************************************************)
EXTENDS Integers, Sequences, FiniteSets, SequencesExt, FiniteSetsExt, TLC

CONSTANTS
    Jobs,        \* recorded lines, each with the results to decode from it
    WordBits,    \* bits of quint64; bound: fewer in the runs
    StrayShifts, \* what a shift by a negative count may come to
    StrayWords,  \* what a number may come to that the integer type has not
    Tables       \* string tables in the database: uuid to numbered strings

Magic == 184            \* KWP_MAGIC_BYTE, 0xB8
Formats == {"int", "full_int", "chk_int", "string", "full_string", "chk_string"}
Bytes == 0..255

(* The tokens of a program: numbers, N, operators, and what is neither.    *)
(* takeLast of an empty list is undefined, so an operator stands only      *)
(* where there are two numbers or is not reached.                          *)
Operators == {"+", "-", "*", "/", "&", ">>", "<<"}
IsOperand(token) == token.op \in {"N", "number"}
Depth(rpn, n) == 2 * Cardinality({k \in 1..n : IsOperand(rpn[k])}) - n
WellFormed(rpn) ==
    /\ rpn \in Seq(ToSet(rpn))
    /\ \A i \in 1..Len(rpn) :
          /\ rpn[i].op = "number" => rpn[i].value \in Int \X (Nat \ {0})
          /\ rpn[i].op \in Operators =>
                \/ \E k \in 1..i : rpn[k].op = "unreadable"
                \/ Depth(rpn, i - 1) >= 2

(* The constructors take the header from any line: one without a byte      *)
(* after the header makes them read before the first element.  Likewise    *)
(* five bytes of a short_vin are read whatever its length says.            *)
ASSUME DecodeAssumption ==
    /\ \A j \in Jobs :
          /\ j.line \in Seq(Bytes)
          /\ Len(j.line) >= (IF j.line[1] = Magic THEN 5 ELSE 3)
          /\ \A r, s \in j.results : r.name = s.name => r = s
          /\ \A r \in j.results :
                /\ r.start \in Nat /\ r.length \in Nat /\ r.mask \in Nat
                /\ r.type = "short_vin" => r.length >= 5
                /\ WellFormed(r.rpn)
    /\ WordBits \in Nat /\ WordBits >= 8
    /\ StrayShifts \subseteq 0..8 /\ StrayWords \subseteq Int /\ StrayWords # {}

VARIABLES
    job,        \* the line and the operation; fixed
    stage,      \* "line", "ds2", "results", "rpn", "done", "error" or "killed"
    packet,     \* ourPacket
    todo,       \* results of the operation not yet visited
    current,    \* the result the RPN machine works for
    real,       \* T is float or double, not qint64
    pc,         \* tokens of its program already executed
    stack,      \* stack of runRpnForResult
    num,        \* num of resultByteToVariant
    response    \* ret: the name of a result to its value

vars == <<job, stage, packet, todo, current, real, pc, stack, num, response>>

-----------------------------------------------------------------------------
(* Bits.                                                                   *)

Power[n \in 0..WordBits] == IF n = 0 THEN 1 ELSE 2 * Power[n - 1]
Words == Power[WordBits]

Bit(x, i) == (x \div Power[i]) % 2
(* The number whose bit i is f[i], for the n lowest.                       *)
FromBits(f, n) ==
    LET low[i \in 0..n] ==
            IF i = 0 THEN 0 ELSE low[i - 1] + Power[i - 1] * f[i - 1]
    IN  low[n]
BitAnd(x, y) ==
    FromBits([i \in 0..(WordBits - 1) |-> Bit(x, i) * Bit(y, i)], WordBits)
(* A word of so many values as a signed one.                               *)
Signed(x, values) == IF x >= values \div 2 THEN x - values ELSE x

-----------------------------------------------------------------------------
(* Frames.                                                                 *)

(* The exclusive or of all bytes: the parity of each bit.                  *)
Checksum(bytes) ==
    FromBits([i \in 0..7 |->
        Cardinality({k \in DOMAIN bytes : Bit(bytes[k], i) = 1}) % 2], 8)
NoPacket == [protocol |-> "none"]

Header(p) ==
    IF p.protocol = "KWP"
    THEN <<Magic, p.target, p.source, Len(p.data) % 256>>
    ELSE <<p.target, (Len(p.data) + 3) % 256>>

ToByteArray(p) ==
    LET body == Header(p) \o p.data IN Append(body, Checksum(body))

(* The string constructors: a last byte too many is the checksum.          *)
LengthWithChecksum(protocol, byte) ==
    IF protocol = "KWP" THEN (byte + 1) % 256 ELSE (byte + 256 - 2) % 256

AsRead(protocol, line) ==
    IF protocol = "KWP"
    THEN [protocol |-> "KWP", target |-> line[2], source |-> line[3],
          length |-> line[4], data |-> SubSeq(line, 5, Len(line))]
    ELSE [protocol |-> "DS2", target |-> line[1], source |-> 0,
          length |-> line[2], data |-> SubSeq(line, 3, Len(line))]

Unframed(p) == [protocol |-> p.protocol, target |-> p.target,
                source |-> p.source, data |-> p.data]
WithoutLast(p) == [Unframed(p) EXCEPT !.data = Front(@)]

ChecksumFits_Always(p) == TRUE
ChecksumFits(p) == Last(ToByteArray(WithoutLast(p))) = Last(p.data)

(* The packet in a set, or no packet: invalid_argument.                    *)
Accepted(protocol, line) ==
    LET p == AsRead(protocol, line)
        n == LengthWithChecksum(protocol, p.length)
    IN  CASE n - 1 = Len(p.data) -> {Unframed(p)}
          [] n = Len(p.data) -> {q \in {WithoutLast(p)} : ChecksumFits(p)}
          [] OTHER -> {}

-----------------------------------------------------------------------------
(* Fields.                                                                 *)

Data == packet.data
Field(r) == SubSeq(Data, r.start + 1, r.start + r.length)

InRange(r) ==
    r.start < Len(Data) /\ r.start + r.length - 1 < Len(Data)

(* decode_vin_char and getCharFrom6BitInt.  A shift by a negative count is *)
(* undefined: the last character of a field whose bits are a multiple of   *)
(* six begins at -1.                                                       *)
SixBits_OffByOne(bytes, start) ==
    LET first == (start \div 8) + 1
        used == (start % 8) + 1
    IN  CASE start < 0 -> {bytes[1] % Power[c] : c \in StrayShifts}
          [] start >= 0 /\ used <= 2 -> {bytes[first] % 64}
          [] OTHER -> {(bytes[first] % Power[8 - used]) * Power[used - 2]
                          + (bytes[first + 1] \div Power[9 - used])}
SixBits(bytes, start) ==
    LET first == (start \div 8) + 1
        used == (start % 8) + 1
    IN  CASE start < 0 -> {bytes[1] % Power[c] : c \in StrayShifts}
          [] start >= 0 /\ used <= 2 -> {bytes[first] % 64}
          [] OTHER -> {(bytes[first] % Power[8 - used]) * Power[used - 2]
                          + (bytes[first + 1] \div Power[10 - used])}

Bang == 36
SixBitChar(n) == IF n < Bang THEN n ELSE Bang

SixBitTexts(bytes) ==
    LET bits == 8 * Len(bytes)
        n == bits \div 6
        codes(k) == SixBits(bytes, bits - 6 * (n - k + 1) - 1)
    IN  {[k \in 1..n |-> SixBitChar(IF k = 1 THEN c ELSE CHOOSE x \in codes(k) : TRUE)]
            : c \in codes(1)}

(* Text: hexadecimal digits and characters; decimal digits are the same.   *)
Character(b) == IF b \in 48..57 THEN b - 48 ELSE 100 + b

(* toULongLong: 0 unless every character is a digit and the number fits.   *)
Decimal(text) ==
    LET low[i \in 0..Len(text)] == IF i = 0 THEN 0 ELSE 10 * low[i - 1] + text[i]
    IN  IF (\A i \in DOMAIN text : text[i] < 10) /\ low[Len(text)] < Words
        THEN low[Len(text)] ELSE 0

Hex(b) == <<b \div 16, b % 16>>

(* resultHexStringToVariant: the high digit of the first byte is not part  *)
(* of a number, the last byte of one with a checksum is a character.       *)
HexText(bytes, format) ==
    FlattenSeq([i \in 1..Len(bytes) |->
        CASE i = 1 /\ format \in {"int", "string"} -> <<bytes[i] % 16>>
          [] i = Len(bytes) /\ format \in {"chk_int", "chk_string"} ->
                <<Character(bytes[i])>>
          [] OTHER -> Hex(bytes[i])])

(* Two characters and 20 bits, whose hexadecimal digits are written        *)
(* without leading zeros.                                                  *)
ShortVin(bytes) ==
    <<Character(bytes[1]), Character(bytes[2]),
      bytes[3] * 4096 + bytes[4] * 16 + bytes[5] \div 16>>

(* stringForLevel: the labels that are joined, or the exception for a key  *)
(* that is no number.                                                      *)
Labels(levels, level) ==
    LET special == levels.special
        chosen == {m \in levels.masks : BitAnd(level, m.mask) > 0}
    IN  CASE DOMAIN special = {"yes", "no"} /\ levels.masks = {} ->
                {IF level = 1 THEN special["yes"] ELSE special["no"]}
          [] chosen = {} /\ "else" \in DOMAIN special -> {special["else"]}
          [] chosen # {} /\ chosen = levels.masks /\ "all" \in DOMAIN special ->
                {special["all"]}
          [] OTHER -> {m.label : m \in chosen}

BadLevels(levels) ==
    /\ ~(DOMAIN levels.special = {"yes", "no"} /\ levels.masks = {})
    /\ DOMAIN levels.special \ {"else", "all"} # {}

Text(t) == [kind |-> "text", characters |-> t]
Number(q) == [kind |-> "number", quantity |-> q]
Shown(ls) == [kind |-> "labels", labels |-> ls]
Truth(b) == [kind |-> "truth", holds |-> b]

-----------------------------------------------------------------------------
(* The RPN machine.                                                        *)

Truncate(q) ==
    IF q[1] >= 0 THEN q[1] \div q[2] ELSE -((-q[1]) \div q[2])

(* A number pushed on a stack of qint64 loses its fraction.                *)
Pushed_Exact(q, isReal) == q
Pushed(q, isReal) == IF isReal THEN q ELSE <<Truncate(q), 1>>

(* A double as an integer of a type: undefined for one the type has not.   *)
Cast(q, type) ==
    IF q[2] = 0 \/ Truncate(q) \notin type THEN StrayWords ELSE {Truncate(q)}
UnsignedWords == 0..(Words - 1)
SignedWords == -(Words \div 2)..(Words \div 2 - 1)

(* static_cast<quint64>, and back to qint64.                               *)
Unsigned(q, isReal) ==
    IF isReal THEN Cast(q, UnsignedWords) ELSE {q[1] % Words}
Back(n, isReal) ==
    LET word == n % Words
    IN  <<IF isReal THEN word ELSE Signed(word, Words), 1>>

(* A count of all bits of a word or more is undefined: it wraps, or no bit *)
(* is left.                                                                *)
Shifts(n) == IF n \in 0..(WordBits - 1) THEN {n} ELSE {n % WordBits, WordBits}

Fatal(token, a) == token.op = "/" /\ ~real /\ a[1] = 0

Difference_Swapped(b, a) == <<a[1] * b[2] - b[1] * a[2], b[2] * a[2]>>
Difference(b, a) == <<b[1] * a[2] - a[1] * b[2], b[2] * a[2]>>
Quotient(b, a) ==
    CASE a[1] > 0 -> <<b[1] * a[2], b[2] * a[1]>>
      [] a[1] < 0 -> <<-b[1] * a[2], b[2] * (-a[1])>>
      [] OTHER -> <<b[1] * a[2], 0>>

(* What may be pushed for b and a; runRpnForResult<float> and <double>     *)
(* would round it.                                                         *)
Combined(op, b, a, isReal) ==
    LET words == Unsigned(b, isReal)
        counts == UNION {Shifts(n) : n \in Unsigned(a, isReal)}
    IN  CASE op = "+" -> {<<b[1] * a[2] + a[1] * b[2], b[2] * a[2]>>}
          [] op = "-" -> {Difference(b, a)}
          [] op = "*" -> {<<b[1] * a[1], b[2] * a[2]>>}
          [] op = "/" -> {Pushed(Quotient(b, a), isReal)}
          [] op = "&" -> {Back(BitAnd(m, n), isReal) :
                             m \in words, n \in Unsigned(a, isReal)}
          [] op = ">>" -> {Back(m \div Power[c], isReal) : m \in words, c \in counts}
          [] op = "<<" -> {Back(m * Power[c], isReal) : m \in words, c \in counts}

Numeric(r) == r.type \in {"byte", "signed_byte", "short", "signed_short"}
Short(r) == r.type \in {"short", "signed_short"}

(* The byte after the mask; 0 stands for a mask that could not be read.    *)
Masked(r) ==
    LET b == Data[r.start + 1] IN IF r.mask = 0 THEN b ELSE BitAnd(b, r.mask)

ShortOf(r) ==
    LET f == Field(r)
        n == IF job.bigEndian THEN f[1] * 256 + f[2] ELSE f[2] * 256 + f[1]
    IN  IF r.type = "signed_short" THEN Signed(n, 65536) ELSE n

(* ourValue: what N stands for.                                            *)
Argument(r) ==
    <<CASE Short(r) -> ShortOf(r)
        [] r.type = "signed_byte" -> Signed(Masked(r), 256)
        [] OTHER -> Masked(r), 1>>

-----------------------------------------------------------------------------
(* Steps.                                                                  *)

Init ==
    /\ job \in Jobs
    /\ stage = "line" /\ packet = NoPacket
    /\ todo = job.results /\ current = {}
    /\ real = FALSE /\ pc = 0 /\ stack = <<>> /\ num = 0
    /\ response = <<>>

machineVars == <<current, real, pc, stack, num>>

Read(protocol) ==
    LET ps == Accepted(protocol, job.line) IN
    /\ IF ps = {} THEN stage' = "error" /\ UNCHANGED packet
       ELSE stage' = "results" /\ packet' \in ps
    /\ UNCHANGED <<job, todo, response, machineVars>>

(* Without the magic byte: domain_error, and the line is tried as DS2.     *)
ReadKwp == stage = "line" /\ job.line[1] = Magic /\ Read("KWP")
NotKwp ==
    /\ stage = "line" /\ job.line[1] # Magic /\ stage' = "ds2"
    /\ UNCHANGED <<job, packet, todo, response, machineVars>>
ReadDs2 == stage = "ds2" /\ Read("DS2")

Left_Break(r) == {}
Left(r) == todo \ {r}

SkipResult ==
    /\ stage = "results"
    /\ \E r \in todo : ~InRange(r) /\ todo' = Left(r)
    /\ UNCHANGED <<job, stage, packet, response, machineVars>>

Insert(r, value) ==
    response' = [n \in DOMAIN response \cup {r.name} |->
                    IF n = r.name THEN value ELSE response[n]]

Throw ==
    /\ stage' = "error"
    /\ UNCHANGED <<job, packet, todo, response, machineVars>>

WrongLength(r) ==
    \/ r.type \in {"byte", "signed_byte", "boolean"} /\ r.length # 1
    \/ Short(r) /\ r.length # 2

(* A byte or a short: its program is run, as integers for a byte.          *)
StartProgram ==
    /\ stage = "results"
    /\ \E r \in todo :
          /\ InRange(r) /\ Numeric(r) /\ ~WrongLength(r)
          /\ stage' = "rpn" /\ current' = {r} /\ todo' = todo \ {r}
          /\ real' = Short(r) /\ pc' = 0 /\ stack' = <<>>
    /\ UNCHANGED <<job, packet, num, response>>

RejectResult ==
    /\ stage = "results"
    /\ \E r \in todo :
          /\ InRange(r)
          /\ \/ WrongLength(r)
             \/ r.type = "string" /\ r.display \notin {"string", "hex_string", "int"}
             \/ r.type = "hex_string" /\ r.display \notin Formats
             \/ r.type = "boolean" /\ r.display = "string" /\ BadLevels(r.levels)
    /\ Throw

(* What a result without arithmetic may come to; nothing for a display     *)
(* format of a boolean, or a type, that is not known.                      *)
Values(r) ==
    LET text == [i \in 1..r.length |-> Character(Field(r)[i])]
        hex == HexText(Field(r), r.display)
        test == IF BitAnd(Data[r.start + 1], r.mask) > 0 THEN 1 ELSE 0
    IN  CASE r.type = "string" /\ r.display = "string" -> {Text(text)}
          [] r.type = "string" /\ r.display = "hex_string" ->
                {Text(<<0, Character(120)>> \o text)}
          [] r.type = "string" /\ r.display = "int" -> {Number(<<Decimal(text), 1>>)}
          [] r.type = "short_vin" -> {Text(ShortVin(Field(r)))}
          [] r.type = "6bit-string" -> {Text(t) : t \in SixBitTexts(Field(r))}
          [] r.type = "hex_string" /\ r.display \in {"int", "full_int", "chk_int"} ->
                {Number(<<Decimal(hex), 1>>)}
          [] r.type = "hex_string" /\ r.display \in {"string", "full_string", "chk_string"} ->
                {Text(hex)}
          [] r.type = "boolean" /\ r.display = "string" /\ ~BadLevels(r.levels) ->
                {Shown(Labels(r.levels, test))}
          [] r.type = "boolean" /\ r.display = "raw" -> {Truth(test = 1)}
          [] OTHER -> {}

Ignored(r) ==
    \/ r.type = "boolean" /\ r.display \notin {"string", "raw"}
    \/ r.type \notin {"byte", "signed_byte", "short", "signed_short", "boolean",
                      "string", "hex_string", "6bit-string", "short_vin"}

DecodeField ==
    /\ stage = "results"
    /\ \E r \in todo :
          /\ InRange(r) /\ ~Numeric(r) /\ ~WrongLength(r)
          /\ \/ Ignored(r) /\ UNCHANGED response
             \/ \E v \in Values(r) : Insert(r, v)
          /\ todo' = todo \ {r}
    /\ UNCHANGED <<job, stage, packet, machineVars>>

TheResult == CHOOSE r \in current : TRUE
Program == TheResult.rpn

(* One token.                                                              *)
Token == Program[pc + 1]
Top == Last(stack)
Second == stack[Len(stack) - 1]

PushToken ==
    /\ stage = "rpn" /\ pc < Len(Program) /\ IsOperand(Token)
    /\ stack' = Append(stack, IF Token.op = "N" THEN Argument(TheResult)
                              ELSE Pushed(Token.value, real))
    /\ pc' = pc + 1
    /\ UNCHANGED <<job, stage, packet, todo, current, real, num, response>>

ApplyToken ==
    /\ stage = "rpn" /\ pc < Len(Program) /\ Token.op \in Operators
    /\ ~Fatal(Token, Top)
    /\ \E v \in Combined(Token.op, Second, Top, real) :
          stack' = Append(Front(Front(stack)), v)
    /\ pc' = pc + 1
    /\ UNCHANGED <<job, stage, packet, todo, current, real, num, response>>

(* Neither an operator nor a number: invalid_argument.                     *)
RejectToken ==
    stage = "rpn" /\ pc < Len(Program) /\ Token.op = "unreadable" /\ Throw

(* A division of integers by zero ends the process.                        *)
DivideByZero ==
    /\ stage = "rpn" /\ pc < Len(Program) /\ Fatal(Token, Top)
    /\ stage' = "killed"
    /\ UNCHANGED <<job, packet, todo, response, machineVars>>

Outcome == IF Program = <<>> THEN Argument(TheResult) ELSE Head(stack)
ProgramEnds == stage = "rpn" /\ pc = Len(Program)

(* A byte that is shown as a fraction is computed again, as a double.      *)
RunAgain ==
    /\ ProgramEnds /\ ~real /\ TheResult.display = "float"
    /\ real' = TRUE /\ pc' = 0 /\ stack' = <<>> /\ num' = Outcome[1]
    /\ UNCHANGED <<job, stage, packet, todo, current, response>>

(* findStringByTableAndNumber: only a uuid finds a table.                  *)
Looked(table, n) ==
    IF table \in DOMAIN Tables /\ n \in DOMAIN Tables[table]
    THEN {Tables[table][n]} ELSE {}

ByteValues(r, n) ==
    LET b == Masked(r)
        hex == Text(<<0, Character(120)>> \o Hex(b))
    IN  CASE r.display = "raw" -> {Number(<<n, 1>>)}
          [] r.display = "hex_string" -> {hex}
          [] r.display = "hex_int" -> {Number(<<Decimal(Hex(b)), 1>>)}
          [] r.display = "string_table" ->
                IF Looked(r.table, n) = {} THEN {hex} ELSE {Shown(Looked(r.table, n))}
          [] r.display = "enum" /\ ~BadLevels(r.levels) ->
                {Shown(Labels(r.levels, n % 256))}
          [] OTHER -> {}

(* What the outcome q of the program may be shown as.                      *)
FinalValues(r, isReal, q) ==
    CASE isReal /\ r.display = "float" -> {Number(q)}
      [] Short(r) /\ r.display = "int" ->
            {Number(<<n, 1>>) : n \in Cast(q,
                IF r.type = "signed_short" THEN SignedWords ELSE UnsignedWords)}
      [] ~Short(r) /\ ~isReal -> ByteValues(r, q[1])
      [] OTHER -> {}

FinishProgram ==
    /\ ProgramEnds /\ (real \/ TheResult.display # "float")
    /\ LET vs == FinalValues(TheResult, real, Outcome) IN
       IF vs = {} THEN Throw
       ELSE /\ \E v \in vs : Insert(TheResult, v)
            /\ stage' = "results" /\ current' = {}
            /\ real' = FALSE /\ pc' = 0 /\ stack' = <<>> /\ num' = 0
            /\ UNCHANGED <<job, packet, todo>>

Show ==
    /\ stage = "results" /\ todo = {}
    /\ stage' = "done"
    /\ UNCHANGED <<job, packet, todo, response, machineVars>>

Next ==
    \/ ReadKwp \/ NotKwp \/ ReadDs2
    \/ SkipResult \/ RejectResult \/ DecodeField \/ StartProgram
    \/ PushToken \/ ApplyToken \/ RejectToken \/ DivideByZero \/ RunAgain \/ FinishProgram
    \/ Show

Spec == Init /\ [][Next]_vars

-----------------------------------------------------------------------------
(* Types; on a stack of qint64 every element is whole.                     *)
TypeOK ==
    /\ job \in Jobs
    /\ stage \in {"line", "ds2", "results", "rpn", "done", "error", "killed"}
    /\ packet # NoPacket => packet.data \in Seq(Bytes)
    /\ todo \subseteq job.results
    /\ current \subseteq job.results /\ Cardinality(current) <= 1
    /\ stage = "rpn" => current # {}
    /\ real \in BOOLEAN /\ pc \in Nat /\ num \in Int
    /\ \A i \in 1..Len(stack) :
          /\ stack[i] \in Int \X Nat
          /\ ~real => stack[i][2] = 1
    /\ DOMAIN response \subseteq {r.name : r \in job.results}

(* A value once in the response is neither replaced nor taken away: not by *)
(* the results visited later, nor by a program that runs twice.            *)
ValuesStay ==
    \A n \in DOMAIN response : n \in DOMAIN response' /\ response'[n] = response[n]
ValuesKept == [][ValuesStay]_vars

-----------------------------------------------------------------------------
(* Definitions for which no reply has a value: parseOperation throws.      *)
Unreadable(r, n) == \E i \in 1..n : r.rpn[i].op = "unreadable"
Undecodable(r) ==
    \/ WrongLength(r)
    \/ r.type = "string" /\ r.display \notin {"string", "hex_string", "int"}
    \/ r.type = "hex_string" /\ r.display \notin Formats
    \/ r.type = "boolean" /\ r.display = "string" /\ BadLevels(r.levels)
    \/ Numeric(r) /\ Unreadable(r, Len(r.rpn))
    \/ Short(r) /\ r.display \notin {"int", "float"}
    \/ /\ Numeric(r) /\ ~Short(r)
       /\ \/ r.display \notin {"raw", "hex_string", "hex_int", "string_table", "enum", "float"}
          \/ r.display = "enum" /\ BadLevels(r.levels)
=============================================================================
