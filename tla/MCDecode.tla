------------------------------ MODULE MCDecode ------------------------------
(* Replies made by encoding known values, and operations that decode two   *)
(* fields of them.                                                         *)
(* Bounds: two fields from the library below per reply, expressions of at  *)
(* most three operators, words of 18 bits instead of 64.                   *)
EXTENDS Meaning

MCWordBits == 18
MCStrayShifts == {0, 6}
MCStrayWords == {0, 2^17}
MCTables == "00002222-0001" :> (3 :> "winter" @@ 4 :> "summer")

-----------------------------------------------------------------------------
(* Expressions.                                                            *)
N == [op |-> "N"]
Num(n, d) == [op |-> "number", value |-> <<n, d>>]
Node(l, o, r) ==
    [op |-> o, left |-> l, right |-> r, height |-> 1 + Max({Height(l), Height(r)})]

RECURSIVE Branches(_)
Branches(e) == IF Leaf(e) THEN {e} ELSE {e} \cup Branches(e.left) \cup Branches(e.right)

Programs ==
    {Node(N, "*", Num(32, 1)), Node(N, "/", Num(16, 1)),
     Node(Node(N, "*", Num(3, 4)), "+", Num(-48, 1)),
     Node(Num(100, 1), "-", Node(N, "-", Num(3, 1))),
     Node(Node(N, ">>", Num(4, 1)), "&", Num(7, 1)),
     Node(Node(N, "&", Num(15, 1)), "<<", Num(2, 1)),
     Node(N, "/", Num(1, 2)), Node(Num(90, 1), "/", Node(N, "-", Num(18, 1)))}

Sixteenth == Node(N, "/", Num(16, 1))
Hyperbola == Node(Num(90, 1), "/", Node(N, "-", Num(4626, 1)))
FarShift == Node(Num(1, 1), "<<", N)
MCExpressions == UNION {Branches(e) : e \in Programs \cup {Sixteenth, Hyperbola, FarShift}}

-----------------------------------------------------------------------------
(* Fields.                                                                 *)
SixBit(codes, length) == [kind |-> "six-bit", codes |-> codes, length |-> length]
Computed(type, display, n, e) ==
    [kind |-> "number", type |-> type, display |-> display, n |-> n, expr |-> e]
Part(display, high, v, count) ==
    [kind |-> "part", display |-> display, high |-> high, v |-> v, count |-> count]
DigitText(display, high, digits, check) ==
    [kind |-> "digits", display |-> display, high |-> high, digits |-> digits, check |-> check]
Flags(on, special) ==
    [kind |-> "flags", on |-> on, special |-> special,
     flags |-> {[bit |-> 0, label |-> "left"], [bit |-> 2, label |-> "right"]}]
Switch(on) == [kind |-> "switch", on |-> on, bit |-> 2, yes |-> "on", no |-> "off"]
Truths(on, bit) == [kind |-> "truth", on |-> on, bit |-> bit]
HexByte(n) == [kind |-> "hex", n |-> n]
Bcd(n) == [kind |-> "bcd", n |-> n]
Season(table) == [kind |-> "table", table |-> table, n |-> 4]
Characters(display, bytes) == [kind |-> "characters", display |-> display, bytes |-> bytes]
Bad(def, bytes) == [kind |-> "bad", def |-> def, bytes |-> bytes]

ElseAll == "else" :> "neither" @@ "all" :> "both"

Library ==
    {SixBit(<<35>>, 1), SixBit(<<10, 1>>, 2), SixBit(<<32, 11, 35, 7>>, 3),
     SixBit(<<11, 10, 9, 35, 17>>, 4), SixBit(<<1, 2, 33, 4, 25, 6, 17, 8>>, 6)}
    \cup {Computed("short", "int", v, NoExpr) : v \in {513, 65535}}
    \cup {Computed("signed_short", "float", v, NoExpr) : v \in {-2, 772}}
    \cup {Computed("byte", d, b, e) : d \in {"raw", "float"}, e \in Programs, b \in {18, 53}}
    \cup {Computed("signed_byte", "raw", -40, Sixteenth), Computed("short", "int", 4626, Hyperbola),
          Computed("byte", "raw", 53, FarShift)}
    \cup {Part("int", 10, 69123, 5), Part("full_int", 0, 1430, 4),
          [kind |-> "decimal", v |-> 490, count |-> 3]}
    \cup {Flags({}, ElseAll), Flags({0, 2}, ElseAll), Flags({0, 2}, <<>>), Flags({2, 3}, ElseAll),
          Switch({1, 2}), Switch({0, 1}), Truths({0, 1, 2}, 1), Truths({0, 1, 2}, 3)}
    \cup {Season("00002222-0001"), Season("seasons"), Bcd(12), HexByte(171)}
    \cup {DigitText("string", 15, <<2, 11, 3>>, 0), DigitText("chk_string", 0, <<4, 1>>, 67),
          Characters("string", <<65, 55>>), Characters("hex_string", <<65>>),
          [kind |-> "short-vin", a |-> 65, b |-> 66, n |-> 74565, spare |-> 10]}
    \cup {Bad([Definition("byte", "enum", 1) EXCEPT !.levels =
                  [special |-> "off" :> "neither", masks |-> {}]], <<4>>),
          Bad(Definition("byte", "int", 1), <<7>>),
          Bad([Definition("byte", "raw", 1) EXCEPT !.rpn = <<N, [op |-> "unreadable"]>>], <<1>>),
          Bad(Definition("byte", "raw", 2), <<1, 2>>), Bad(Definition("string", "raw", 1), <<1>>)}

-----------------------------------------------------------------------------
(* Jobs.                                                                   *)
Acknowledged == 160
Sent(protocol, data) ==
    [protocol |-> protocol, target |-> 18,
     source |-> IF protocol = "KWP" THEN 241 ELSE 0, data |-> data]

Job(p, line, checked, big, fields, results) ==
    [line |-> line, sent |-> p, checked |-> checked, bigEndian |-> big,
     fields |-> fields, results |-> results]

(* Two fields; the last byte of the reply may be missing.                  *)
FieldJob(f, g, cut, big) ==
    LET all == <<Acknowledged>> \o BytesOf(f, big) \o BytesOf(g, big)
        data == IF cut THEN Front(all) ELSE all
        p == Sent("DS2", data)
    IN  Job(p, ToByteArray(p), "intact", big, "first" :> f @@ "second" :> g,
            {At(DefOf(f), "first", 1), At(DefOf(g), "second", 1 + Len(BytesOf(f, big)))})

FieldJobs ==
    {FieldJob(f, g, cut, TRUE) : f \in Library, cut \in BOOLEAN,
        g \in {x \in Library : Len(BytesOf(x, TRUE)) <= 2}}
    \cup {FieldJob(f, f, FALSE, FALSE) : f \in Library}

(* Frames: as printed, without the checksum, with one byte changed, and    *)
(* around the wrap of the length.                                          *)
FrameJob(p, line, checked) == Job(p, line, checked, TRUE, <<>>, {})

Small == {Sent(k, d) : k \in {"DS2", "KWP"}, d \in {<<Acknowledged>>, <<90, 146, 18>>}}
Wide(n) == {Sent(k, [i \in 1..n |-> 7]) : k \in {"DS2", "KWP"}}

FrameJobs ==
    {FrameJob(p, ToByteArray(p), "intact") : p \in Small \cup Wide(252) \cup Wide(254)}
    \cup {FrameJob(p, Front(ToByteArray(p)), "intact") : p \in Small}
    \cup {FrameJob(p, ToByteArray(p), "refused") : p \in Wide(255)}
    \cup UNION {{FrameJob(p, [ToByteArray(p) EXCEPT ![i] = (@ + x) % 256], "refused") :
                   i \in Covered(p), x \in {1, 64, 255}} : p \in Small}

(* Two switches, with a label for neither.                                 *)
MCNoneJobs ==
    {FieldJob(f, Flags(on, "none" :> "neither"), cut, TRUE) :
        f \in Library, on \in {{}, {0, 2}}, cut \in BOOLEAN}

MCJobs == FieldJobs \cup FrameJobs
=============================================================================
