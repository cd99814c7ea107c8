------------------------------ MODULE MCCommands ------------------------------
(* Command lines: the operations of every module of every database of      *)
(* MCInherit are listed, and every command is given over a few databases:  *)
(* with a module of another family, with two namesakes, with a module of   *)
(* an unknown protocol, with a cycle of modules or of operations.  Bounds: *)
(* two commands in a line, three log specifications, two iterations.       *)
EXTENDS Commands, MCInherit

MCFamilies ==
    [f \in {"DME", "DSC", "PDC"} |->
        CASE f = "DME" -> <<18>> [] f = "DSC" -> <<86, 41>> [] OTHER -> <<96>>]

Dsc(name) == Module("dsc", "root", MCNone, name, "DSC", 41)
SmallOperations ==
    {Row("a", "root", "identify", MCNone, "00"),
     Row("c", "me72", "identify", "a", MCNone),
     Row("d", "me72", "status", MCNone, "05"),
     Row("e", "dsc", "status", MCNone, "06")}
SmallResults ==
    {Result("r", "a", "part", MCNone, TRUE), Result("t", "c", "date", MCNone, TRUE),
     Result("s", "d", "speed", MCNone, TRUE), Result("u", "e", "speed", MCNone, TRUE)}
Database(modules, operations) ==
    [modules |-> modules, operations |-> operations, results |-> SmallResults]

Small == Database(Modules("KWP0", MCNone) \cup {Dsc("DSC 5.7")}, SmallOperations)
Odd ==
    {Database(Modules("KWP0", "KWP2000") \cup {Dsc("DSC 5.7")}, SmallOperations),
     Database(Modules("KWP0", MCNone) \cup {Dsc("ME 7.2")}, SmallOperations),
     Database({Module("root", "me72", "DS2", "Root", "none", 0)} \cup
                  {m \in Modules("KWP0", MCNone) : m.uuid # "root"} \cup
                  {Dsc("DSC 5.7")},
              SmallOperations),
     Database(Modules("KWP0", MCNone) \cup {Dsc("DSC 5.7")},
              {Row("a", "root", "identify", "c", "00")} \cup
                  {o \in SmallOperations : o.uuid # "a"})}

-----------------------------------------------------------------------------
Uuid(u) == [kind |-> "uuid", value |-> u]
CommandLine(options, d) ==
    [options |-> options, formatKnown |-> TRUE,
     ecu |-> [kind |-> "none", value |-> MCNone], family |-> MCNone,
     job |-> "identify", iterate |-> 1, specs |-> <<>>,
     at |-> [p \in {"home"} |-> d], json |-> {"cwd"}]

Listings ==
    {[CommandLine({"list-operations", "ecu"}, d) EXCEPT !.ecu = Uuid(u)] :
        d \in MCDatabases, u \in {"root", "kwp", "me72"}}
    \cup {[CommandLine({"list-operations", "ecu"}, d) EXCEPT !.ecu = Uuid(u)] :
        d \in Odd, u \in {"root", "me72", "dsc", "gone"}}
    \cup {[CommandLine({"list-ecus"}, d) EXCEPT !.family = f] :
        d \in Odd \cup {Small}, f \in {"ALL", "DME", "DSC", "LSZ"}}
    \cup {[CommandLine({"list-operations", "ecu"} \cup others, Small)
             EXCEPT !.ecu = Uuid("dsc"), !.at = [p \in places |-> d]] :
        others \in SUBSET {"dpp-dir", "DPP_DIR"},
        places \in SUBSET {"dpp-dir", "DPP_DIR", "cwd"}, d \in Odd}
    \cup {[CommandLine({"list-ecus"} \cup others, Small)
             EXCEPT !.family = "ALL",
                    !.at = [p \in {"dpp-dir", "DPP_DIR"} |->
                              IF p = "dpp-dir" THEN Small ELSE d]] :
        others \in SUBSET {"dpp-dir", "DPP_DIR"}, d \in Odd}
    \cup {[CommandLine({"reload"} \cup others, Small) EXCEPT !.json = {p}] :
        others \in SUBSET {"DPP_JSON_DIR", "dpp-source-dir"},
        p \in {"DPP_JSON_DIR", "dpp-source-dir", "home"}}

Orders == {"reload", "list-families", "list-ecus", "probe-all", "list-operations",
           "run-operation", "query", "probe", "data-log"}
Ecus == {Uuid("me72"), Uuid("gone"), [kind |-> "number", value |-> 274],
         [kind |-> "number", value |-> 65554], [kind |-> "name", value |-> "DSC"],
         [kind |-> "name", value |-> "LSZ"]}
Mixed ==
    {[CommandLine({a, b, "ecu"} \cup others, Small) EXCEPT !.ecu = e] :
        a \in Orders, b \in Orders, others \in SUBSET {"device", "input-packet"},
        e \in Ecus}
    \cup {CommandLine({a} \cup others, Small) :
        a \in Orders, others \in SUBSET {"device", "input-packet"}}
    \cup {[CommandLine({"query", "device"}, Small) EXCEPT !.formatKnown = FALSE]}

Operating ==
    {[CommandLine({"run-operation", "ecu", "family", "device"} \cup others, Small)
        EXCEPT !.ecu = e, !.family = f, !.job = j, !.iterate = n] :
        others \in SUBSET {"input-packet"},
        e \in {Uuid("me72"), [kind |-> "name", value |-> "DSC"]},
        f \in {"DSC", "LSZ"}, j \in {"status", "none"}, n \in {-1, 0, 2}}

Spec3(ecu, job, results) ==
    [ecu |-> ecu, job |-> job, results |-> results, complete |-> TRUE]
Logging ==
    {[CommandLine({"data-log", "device"}, Small) EXCEPT !.specs = specs] :
        specs \in {
            <<Spec3("DME", "status", <<"speed", "gear">>),
              Spec3("DSC", "status", <<"speed">>),
              Spec3("DME", "identify", <<"part", "date">>)>>,
            <<Spec3("DME", "identify", <<"date">>),
              Spec3("DME", "identify", <<"part", "date">>)>>,
            <<Spec3("DSC", "identify", <<"part">>),
              Spec3("DSC", "erase", <<"count">>)>>,
            <<Spec3("DSC", "identify", <<"part">>),
              [Spec3("DSC", "status", <<>>) EXCEPT !.complete = FALSE]>>}}

MCInvocations == Listings \cup Mixed \cup Operating \cup Logging
MCAllDatabases == MCDatabases \cup Odd \cup {Small, NoDatabase}
=============================================================================
