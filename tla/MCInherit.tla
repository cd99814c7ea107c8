------------------------------ MODULE MCInherit ------------------------------
(* Three generations of modules.  Operations of one name may stand in any  *)
(* of them, extend each other or not, with and without commands; results   *)
(* may be refined.  Bounds: four operations and four results.              *)
EXTENDS Inherit

MCNone == "none"
Module(u, parent, p, name, family, address) ==
    [uuid |-> u, parent |-> parent, protocol |-> p, name |-> name,
     family |-> family, address |-> address]
Modules(p, q) ==
    {Module("root", MCNone, "DS2", "Root", "none", 0),
     Module("kwp", "root", p, "KWP units", "none", 0),
     Module("me72", "kwp", q, "ME 7.2", "DME", 18)}

Row(u, m, n, p, c) ==
    [uuid |-> u, module |-> m, name |-> n, parent |-> p, command |-> c]
Result(u, o, n, p, t) ==
    [uuid |-> u, operation |-> o, name |-> n, parent |-> p, typed |-> t]

(* CHECK: an operation has a command or a parent.                          *)
Operations ==
    {{Row("a", "root", "identify", MCNone, "00"),
      Row("b", "kwp", n, pb, cb),
      Row("c", "me72", "identify", pc, cc),
      Row("d", "me72", "status", pd, "05")} :
        n \in {"identify", "status"}, pb \in {MCNone, "a"}, cb \in {MCNone, "A2"},
        pc \in {MCNone, "a", "b"}, cc \in {MCNone, "1A"},
        pd \in {MCNone, "b"}}
Legal(os) == \A o \in os : o.command # MCNone \/ o.parent # MCNone

Results ==
    {{Result("r", "a", "part", MCNone, TRUE), Result("s", "b", k, MCNone, TRUE),
      Result("t", o, "part", "r", FALSE), Result("u", "a", "date", MCNone, TRUE)} :
        k \in {"part", "date"}, o \in {"b", "c"}}
Unique(rs) == \A r, s \in rs : r.operation = s.operation /\ r.name = s.name => r = s

MCDatabases ==
    {[modules |-> Modules(p, q), operations |-> os, results |-> rs] :
        p \in {MCNone, "KWP0"}, q \in {MCNone, "KWP0"},
        os \in {x \in Operations : Legal(x)}, rs \in {x \in Results : Unique(x)}}

(* One operation over three generations, of which only the first gives a   *)
(* command.                                                                *)
MCThreeGenerations ==
    {d \in MCDatabases :
        {Row("b", "kwp", "identify", "a", MCNone),
         Row("c", "me72", "identify", "b", MCNone)} \subseteq d.operations}
=============================================================================
