------------------------------- MODULE MCStore -------------------------------
(* Two modules and two string tables, in the editions a user may have:     *)
(* an operation moved from one module to the other, a part number or a     *)
(* result changed, a table renamed to the name of another, a file the      *)
(* loader rejects in the middle, two files with one uuid, a broken file.   *)
(* Indexes are given singly, as ranges that overlap or are the wrong way   *)
(* round, and up to the largest number.                                    *)
EXTENDS Store

Op(u, rs) == [uuid |-> u, results |-> rs]
Indexed(f, singly, rs) ==
    [kind |-> f.kind, uuid |-> f.uuid, pns |-> f.pns, ops |-> f.ops,
     sound |-> f.sound, indexes |-> singly, ranges |-> rs]
Upto(l, h) == [low |-> l, high |-> h]
Ecu(u, pns, ops, sound) ==
    Indexed([kind |-> "ecu", uuid |-> u, pns |-> pns, ops |-> ops,
             sound |-> sound], {}, <<>>)
Table(u, name, values, sound) ==
    [kind |-> "table", uuid |-> u, name |-> name, values |-> values,
     sound |-> sound]

Dme == Ecu("dme", {1}, {Op("o1", {"r1"}), Op("o2", {})}, TRUE)
DmeLess == Ecu("dme", {2}, {Op("o1", {"r1"})}, TRUE)
DmeBad == Ecu("dme", {1}, {Op("o1", {"r1"})}, FALSE)
Lws == Indexed(Ecu("lws", {}, {Op("o3", {"r3"})}, TRUE),
               {7}, <<Upto(4, 6), Upto(2, 1), Upto(1, 4)>>)
LwsEndless == Indexed(Lws, {}, <<Upto(5, 7)>>)
LwsMore == Ecu("lws", {}, {Op("o3", {"r3"}), Op("o2", {})}, TRUE)
LwsAgain == Ecu("lws", {3}, {}, TRUE)
Makes == Table("makes", "suppliers", {1, 2}, TRUE)
MakesLess == Table("makes", "suppliers", {1}, TRUE)
Faulty == Table("faults", "dtc", {1}, TRUE)
FaultyClash == Table("faults", "suppliers", {2}, TRUE)
FaultyBad == Table("faults", "dtc", {1}, FALSE)
Broken == [kind |-> "unreadable"]

MCDisks == {{Dme, Lws, Makes}, {DmeLess, LwsMore}, {DmeBad, Lws, Makes},
            {Dme, LwsAgain, MakesLess, FaultyClash}, {Lws, LwsAgain, Broken},
            {Dme, Faulty, Makes}, {FaultyBad, Lws},
            {LwsEndless, Makes}}
MCEcuDisks == {{Dme, Lws}, {DmeLess, LwsMore}}
=============================================================================
