------------------------------ MODULE Meaning ------------------------------
(***************************************************************************)
(* The control unit's side of module Decode: what it means, the bytes it   *)
(* sends for that, the definitions by which the tester reads them, and the *)
(* expressions that the programs of these definitions stand for.  None of  *)
(* this is in the program; the properties at the end compare what Decode   *)
(* shows with what was meant.                                              *)
(*                                                                         *)
(* A job of Decode names the packet that was sent, the fields in it, and   *)
(* whether its line is that packet ("intact") or must be refused.          *)
(***************************************************************************)
EXTENDS Decode

CONSTANT Expressions    \* trees, with all their branches

-----------------------------------------------------------------------------
(* Expressions and their programs.  The height is that of the tree.        *)
Leaf(e) == e.op \in {"N", "number"}
Height(e) == IF Leaf(e) THEN 0 ELSE e.height
NoExpr == [op |-> "none"]

Postfix[e \in Expressions] ==
    IF Leaf(e) THEN <<e>>
    ELSE Postfix[e.left] \o Postfix[e.right] \o <<[op |-> e.op]>>

(* Bits, for numbers that are words of either sign; masks are those of the *)
(* lowest bits.                                                            *)
Ordinary == 0..(Words \div 2 - 1)
LowMask(m) == \E k \in 0..(WordBits - 1) : m + 1 = Power[k]
OnWords(o, p, c) ==
    CASE o = "&" -> {x \in {p % (c + 1)} : LowMask(c)}
      [] o = ">>" -> {p \div Power[k] : k \in {c} \cap 0..(WordBits - 1)}
      [] o = "<<" -> {p * Power[k] : k \in {c} \cap 0..(WordBits - 1)} \cap Ordinary

(* x o y; nothing where that means nothing.                                *)
Arithmetic(o, x, y) ==
    CASE o = "+" -> {<<x[1] * y[2] + y[1] * x[2], x[2] * y[2]>>}
      [] o = "-" -> {<<x[1] * y[2] - y[1] * x[2], x[2] * y[2]>>}
      [] o = "*" -> {<<x[1] * y[1], x[2] * y[2]>>}
      [] o = "/" -> {IF y[1] >= 0 THEN <<x[1] * y[2], x[2] * y[1]>>
                     ELSE <<-x[1] * y[2], x[2] * (-y[1])>>}
      [] o \in {"&", ">>", "<<"} ->
            IF 0 \in {x[2], y[2]} \/ {Truncate(x), Truncate(y)} \ Ordinary # {} THEN {}
            ELSE {<<m, 1>> : m \in OnWords(o, Truncate(x), Truncate(y))}

(* An expression dies of a division of integers by zero.                   *)
Known(q) == [dies |-> FALSE, values |-> {q}]
Whole(q) == <<Truncate(q), 1>>
Combine(o, x, y, exact) ==
    LET zero == o = "/" /\ ~exact /\ \E q \in y.values : q[1] = 0
        all == UNION {Arithmetic(o, p, q) : p \in x.values, q \in y.values}
    IN  [dies |-> x.dies \/ y.dies \/ zero,
         values |-> IF zero THEN {} ELSE IF exact THEN all ELSE {Whole(q) : q \in all}]

(* Every expression for N = n: exact, or cut to a whole number at each     *)
(* step.                                                                   *)
Evaluation(n, exact) ==
    LET v[e \in Expressions] ==
            CASE e.op = "N" -> Known(<<n, 1>>)
              [] e.op = "number" -> Known(IF exact THEN e.value ELSE Whole(e.value))
              [] OTHER -> Combine(e.op, v[e.left], v[e.right], exact)
    IN  v

ValueOf(f, exact) ==
    IF f.expr = NoExpr THEN Known(<<f.n, 1>>) ELSE Evaluation(f.n, exact)[f.expr]

-----------------------------------------------------------------------------
(* Fields.  The bits that are set, as a byte; a number as so many decimal  *)
(* digits; digits in pairs; characters of six bits in bytes, behind what   *)
(* is left over.                                                           *)
ByteOf(on) == FromBits([i \in 0..7 |-> IF i \in on THEN 1 ELSE 0], 8)

Quotients(v, count) ==
    LET left[i \in 0..count] == IF i = 0 THEN v ELSE left[i - 1] \div 10 IN left
Numeral(v, count) == [i \in 1..count |-> Quotients(v, count)[count - i] % 10]

Pairs(ds) == [k \in 1..(Len(ds) \div 2) |-> 16 * ds[2 * k - 1] + ds[2 * k]]

Pack(codes, length) ==
    LET pad == (8 * length) % 6
        bit(p) == IF p < pad THEN 0
                  ELSE Bit(codes[((p - pad) \div 6) + 1], 5 - ((p - pad) % 6))
    IN  [k \in 1..length |-> FromBits([i \in 0..7 |-> bit(8 * (k - 1) + 7 - i)], 8)]

InOrder(v, big) ==
    LET n == v % 65536
    IN  IF big THEN <<n \div 256, n % 256>> ELSE <<n % 256, n \div 256>>

BytesOf(f, big) ==
    CASE f.kind = "six-bit" -> Pack(f.codes, f.length)
      [] f.kind = "number" ->
            IF f.type \in {"byte", "signed_byte"} THEN <<f.n % 256>> ELSE InOrder(f.n, big)
      [] f.kind \in {"hex", "table"} -> <<f.n>>
      [] f.kind = "bcd" -> <<16 * (f.n \div 10) + (f.n % 10)>>
      [] f.kind \in {"flags", "switch", "truth"} -> <<ByteOf(f.on)>>
      [] f.kind = "part" ->
            Pairs((IF f.display = "int" THEN <<f.high>> ELSE <<>>) \o Numeral(f.v, f.count))
      [] f.kind = "digits" ->
            Pairs((IF f.display = "string" THEN <<f.high>> ELSE <<>>) \o f.digits)
                \o (IF f.display = "chk_string" THEN <<f.check>> ELSE <<>>)
      [] f.kind = "characters" -> f.bytes
      [] f.kind = "decimal" -> [i \in 1..f.count |-> 48 + Numeral(f.v, f.count)[i]]
      [] f.kind = "short-vin" ->
            <<f.a, f.b, f.n \div 4096, (f.n \div 16) % 256, 16 * (f.n % 16) + f.spare>>
      [] f.kind = "bad" -> f.bytes

-----------------------------------------------------------------------------
(* The tester's definitions of these fields.                               *)
NoLevels == [special |-> <<>>, masks |-> {}]
Definition(type, display, length) ==
    [type |-> type, display |-> display, length |-> length, mask |-> 255,
     levels |-> NoLevels, rpn |-> <<>>, table |-> "none"]

DefOf(f) ==
    CASE f.kind = "six-bit" -> Definition("6bit-string", "string", f.length)
      [] f.kind = "number" ->
            [Definition(f.type, f.display, IF f.type \in {"byte", "signed_byte"} THEN 1 ELSE 2)
                EXCEPT !.rpn = IF f.expr = NoExpr THEN <<>> ELSE Postfix[f.expr]]
      [] f.kind = "hex" -> Definition("byte", "hex_string", 1)
      [] f.kind = "bcd" -> Definition("byte", "hex_int", 1)
      [] f.kind = "table" ->
            [Definition("byte", "string_table", 1) EXCEPT !.table = f.table]
      [] f.kind = "flags" ->
            [Definition("byte", "enum", 1) EXCEPT !.levels =
                [special |-> f.special,
                 masks |-> {[mask |-> Power[x.bit], label |-> x.label] : x \in f.flags}]]
      [] f.kind = "switch" ->
            [Definition("boolean", "string", 1) EXCEPT !.mask = Power[f.bit],
                !.levels = [special |-> [x \in {"yes", "no"} |->
                                            IF x = "yes" THEN f.yes ELSE f.no],
                            masks |-> {}]]
      [] f.kind = "truth" -> [Definition("boolean", "raw", 1) EXCEPT !.mask = Power[f.bit]]
      [] f.kind = "part" ->
            Definition("hex_string", f.display,
                       (f.count + (IF f.display = "int" THEN 1 ELSE 0)) \div 2)
      [] f.kind = "digits" ->
            Definition("hex_string", f.display, Len(BytesOf(f, TRUE)))
      [] f.kind = "characters" -> Definition("string", f.display, Len(f.bytes))
      [] f.kind = "decimal" -> Definition("string", "int", f.count)
      [] f.kind = "short-vin" -> Definition("short_vin", "string", 5)
      [] f.kind = "bad" -> f.def

-----------------------------------------------------------------------------
(* What is meant by them: a value, or nothing.                             *)
OfType(n, type) ==
    /\ n \in Int
    /\ \/ type = "byte" /\ 0 <= n /\ n < 256
       \/ type = "signed_byte" /\ -128 <= n /\ n < 128
       \/ type = "short" /\ 0 <= n /\ n < 65536
       \/ type = "signed_short" /\ -32768 <= n /\ n < 32768

Prefix0x == <<0, Character(120)>>
Numbers(f) ==
    CASE f.display = "raw" -> ValueOf(f, FALSE).values
      [] f.display = "float" -> ValueOf(f, TRUE).values
      [] f.display = "int" ->
            {Whole(q) : q \in {x \in ValueOf(f, TRUE).values :
                x[2] # 0 /\ Truncate(x) \in
                    (IF f.type = "short" THEN UnsignedWords ELSE SignedWords)}}

(* What `none` stands for, dpp-json/README.md does not say.                *)
UsesNone(f) == f.kind = "flags" /\ "none" \in DOMAIN f.special

MeantBy(f) ==
    CASE f.kind = "six-bit" -> {Text(f.codes)}
      [] f.kind = "number" -> {Number(q) : q \in Numbers(f)}
      [] f.kind = "hex" -> {Text(Prefix0x \o Hex(f.n))}
      [] f.kind = "bcd" -> {Number(<<f.n, 1>>)}
      [] f.kind = "table" ->
            {IF f.table \in DOMAIN Tables /\ f.n \in DOMAIN Tables[f.table]
             THEN Shown({Tables[f.table][f.n]}) ELSE Text(Prefix0x \o Hex(f.n))}
      [] f.kind = "flags" ->
            LET lit == {x \in f.flags : x.bit \in f.on} IN
            IF UsesNone(f) THEN {} ELSE
            {Shown(IF lit = {} /\ "else" \in DOMAIN f.special THEN {f.special["else"]}
                   ELSE IF lit # {} /\ lit = f.flags /\ "all" \in DOMAIN f.special
                   THEN {f.special["all"]} ELSE {x.label : x \in lit})}
      [] f.kind = "switch" -> {Shown({IF f.bit \in f.on THEN f.yes ELSE f.no})}
      [] f.kind = "truth" -> {Truth(f.bit \in f.on)}
      [] f.kind \in {"part", "decimal"} -> {Number(<<v, 1>>) : v \in {f.v} \cap UnsignedWords}
      [] f.kind = "digits" ->
            {Text(f.digits \o (IF f.display = "chk_string" THEN <<Character(f.check)>>
                               ELSE <<>>))}
      [] f.kind = "characters" ->
            {Text((IF f.display = "hex_string" THEN Prefix0x ELSE <<>>)
                     \o [i \in 1..Len(f.bytes) |-> Character(f.bytes[i])])}
      [] f.kind = "short-vin" -> {Text(<<Character(f.a), Character(f.b), f.n>>)}
      [] f.kind = "bad" -> {}

-----------------------------------------------------------------------------
(* The fields and jobs that this describes.                                *)
NumberField(f) ==
    /\ OfType(f.n, f.type)
    /\ f.display \in (IF f.type \in {"byte", "signed_byte"} THEN {"raw", "float"}
                      ELSE {"int", "float"})
    /\ f.expr \in Expressions \cup {NoExpr}
FlagsField(f) ==
    /\ f.on \subseteq 0..7 /\ \A x \in f.flags : x.bit \in 0..7
    /\ DOMAIN f.special \subseteq {"else", "all", "none"}
PartField(f) ==
    /\ f.display \in {"int", "full_int"} /\ f.high \in 0..15
    /\ f.v \in Nat /\ f.count \in Nat \ {0} /\ Quotients(f.v, f.count)[f.count] = 0
    /\ f.count % 2 = (IF f.display = "int" THEN 1 ELSE 0)
DigitsField(f) ==
    /\ f.display \in {"string", "full_string", "chk_string"}
    /\ f.high \in 0..15 /\ f.check \in Bytes
    /\ f.digits \in Seq(0..15) /\ f.digits # <<>>
    /\ Len(f.digits) % 2 = (IF f.display = "string" THEN 1 ELSE 0)
ShortVinField(f) ==
    /\ f.a \in Bytes /\ f.b \in Bytes /\ f.spare \in 0..15
    /\ f.n \in Nat /\ f.n < 256 * 4096

Meaningful(f) ==
    CASE f.kind = "six-bit" ->
            /\ f.length \in Nat \ {0} /\ f.codes \in Seq(0..(Bang - 1))
            /\ Len(f.codes) = (8 * f.length) \div 6
      [] f.kind = "number" -> NumberField(f)
      [] f.kind \in {"hex", "table"} -> f.n \in Bytes
      [] f.kind = "bcd" -> f.n \in 0..99
      [] f.kind = "flags" -> FlagsField(f)
      [] f.kind \in {"switch", "truth"} -> f.on \subseteq 0..7 /\ f.bit \in 0..7
      [] f.kind = "part" -> PartField(f)
      [] f.kind = "digits" -> DigitsField(f)
      [] f.kind = "characters" ->
            /\ f.bytes \in Seq(Bytes) /\ f.bytes # <<>>
            /\ f.display \in {"string", "hex_string"}
      [] f.kind = "decimal" ->
            f.v \in Nat /\ f.count \in Nat \ {0} /\ Quotients(f.v, f.count)[f.count] = 0
      [] f.kind = "short-vin" -> ShortVinField(f)
      [] f.kind = "bad" ->
            Undecodable(f.def) /\ "none" \notin DOMAIN f.def.levels.special
      [] OTHER -> FALSE

At(def, name, start) ==
    [name |-> name, start |-> start, type |-> def.type, display |-> def.display,
     length |-> def.length, mask |-> def.mask, levels |-> def.levels,
     rpn |-> def.rpn, table |-> def.table]
Complete(j, r) ==
    r.start < Len(j.sent.data) /\ r.start + r.length <= Len(j.sent.data)

(* Lines: as printed, or without the checksum; refused are packets that    *)
(* are too long, and lines with one byte changed, but for the length and   *)
(* the one that tells the protocols apart.                                 *)
SentPacket(p) ==
    /\ p \in [protocol : {"DS2", "KWP"}, target : Bytes, source : Bytes, data : Seq(Bytes)]
    /\ p.protocol = "DS2" => p.source = 0 /\ p.target # Magic
Covered(p) ==
    (1..Len(ToByteArray(p))) \ (IF p.protocol = "KWP" THEN {1, 4} ELSE {2})
OneByteWrong(p, line) ==
    LET whole == ToByteArray(p) IN
    /\ Len(line) = Len(whole) /\ (line[1] = Magic <=> p.protocol = "KWP")
    /\ \E i \in Covered(p) :
          line[i] # whole[i] /\ \A k \in 1..Len(line) : k # i => line[k] = whole[k]
LineOf(j) ==
    LET whole == ToByteArray(j.sent) IN
    \/ /\ j.checked = "intact" /\ Len(j.sent.data) <= 254
       /\ j.line \in {whole, Front(whole)}
    \/ /\ j.checked = "refused"
       /\ \/ j.line = whole /\ Len(j.sent.data) > 254
          \/ OneByteWrong(j.sent, j.line)

ASSUME ExpressionAssumption ==
    \A e \in Expressions :
        \/ e.op = "N"
        \/ e.op = "number" /\ e.value \in Int \X (Nat \ {0})
        \/ /\ e.op \in Operators /\ {e.left, e.right} \subseteq Expressions /\ e.height \in Nat
           /\ Height(e.left) < e.height /\ Height(e.right) < e.height

ASSUME MeaningAssumption ==
    \A j \in Jobs :
        /\ SentPacket(j.sent) /\ LineOf(j)
        /\ {r.name : r \in j.results} = DOMAIN j.fields
        /\ \A r \in j.results :
              LET f == j.fields[r.name] IN
              /\ Meaningful(f) /\ r = At(DefOf(f), r.name, r.start)
              /\ Complete(j, r) =>
                    SubSeq(j.sent.data, r.start + 1, r.start + r.length) = BytesOf(f, j.bigEndian)

-----------------------------------------------------------------------------
(* Properties.                                                             *)

(* A frame of toByteArray, with or without its checksum, is read back as   *)
(* the packet it was made from; one with a wrong address, data byte or     *)
(* checksum, or with more than 254 bytes of data, is refused.  (A wrong    *)
(* length byte may turn the checksum into data, and a wrong magic byte a   *)
(* KWP packet into a DS2 packet: the constructors cannot tell.)            *)
FramesChecked ==
    /\ job.checked = "intact" /\ stage \notin {"line", "ds2"} => packet = job.sent
    /\ job.checked = "refused" => packet = NoPacket

FieldOf(r) == job.fields[r.name]

(* The first character of a 6-bit string that fills its bytes is decoded   *)
(* by an undefined shift; nothing is promised for it.                      *)
AsMeant(v, f) ==
    IF f.kind = "six-bit" /\ f.length % 3 = 0
    THEN Len(v.characters) = Len(f.codes) /\ Tail(v.characters) = Tail(f.codes)
    ELSE MeantBy(f) \subseteq {v}

(* What a control unit encodes is what the tester shows: packed 6-bit      *)
(* text, shorts of both byte orders and signs, BCD part numbers, the       *)
(* labels of masks, strings by number, and what a program computes.        *)
FieldsAsEncoded ==
    \A r \in job.results :
        r.name \in DOMAIN response => AsMeant(response[r.name], FieldOf(r))

(* A program leaves exactly the value of the expression it stands for, if  *)
(* it has one: cut at every step on a stack of integers, and as rationals, *)
(* before any rounding, on one of floats or doubles.  Where the expression *)
(* divides by zero it does not get there.                                  *)
RpnMeansInfix ==
    ProgramEnds /\ Program # <<>> /\ FieldOf(TheResult).kind = "number" =>
        LET e == ValueOf(FieldOf(TheResult), real) IN
        Len(stack) = 1 /\ ~e.dies /\ e.values \subseteq {Head(stack)}

(* A byte is computed on integers first, whatever is shown of it; so is    *)
(* one whose definition turns out later to be undecodable.                 *)
Dies(f) ==
    /\ f.kind = "number" /\ f.type \in {"byte", "signed_byte"}
    /\ ValueOf(f, FALSE).dies
MayDie(f) ==
    \/ /\ f.kind = "number" /\ f.type \in {"byte", "signed_byte"}
       /\ ValueOf(f, FALSE).dies \/ ValueOf(f, FALSE).values = {}
    \/ /\ f.kind = "bad" /\ f.def.type \in {"byte", "signed_byte"}
       /\ \E i \in 1..Len(f.def.rpn) : f.def.rpn[i].op = "/"

(* In every order of the hash: a result that lies outside the reply is     *)
(* left out and costs no other; the response is lost only to a definition  *)
(* that cannot be decoded, the process only to a division of integers by   *)
(* zero, and never when there is neither.  This is for operations without  *)
(* the level `none`: see LevelsAsDocumented.                               *)
OutcomeExplained ==
    LET complete == {r \in job.results : Complete(job, r)} IN
    (\A r \in job.results : ~UsesNone(FieldOf(r))) =>
        /\ stage = "done" =>
              /\ DOMAIN response = {r.name : r \in complete}
              /\ \A r \in complete : FieldOf(r).kind # "bad" /\ ~Dies(FieldOf(r))
        /\ stage = "error" /\ packet # NoPacket =>
              \E r \in complete : FieldOf(r).kind = "bad"
        /\ stage = "killed" => \E r \in complete : MayDie(FieldOf(r))

(* "Additionally `all` and `else` and `none` are supported by `enum`       *)
(* values" (dpp-json/README.md): a response is never lost to a definition  *)
(* that keeps to this.                                                     *)
LevelsAsDocumented ==
    stage = "error" /\ packet # NoPacket =>
        \E r \in job.results : FieldOf(r).kind = "bad"
=============================================================================
