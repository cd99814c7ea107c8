------------------------------- MODULE MCProbe -------------------------------
(* Four addresses: the DME and DSC addresses, which may speak either       *)
(* protocol, the PDC, and the LSZ, whose only definition has an unknown    *)
(* protocol.  The five PDC definitions include one without any identity,   *)
(* one accepted by diagnosis index only and two that accept the same unit  *)
(* with different flags.  A DME definition for either protocol accepts a   *)
(* unit of the other by mistake, and one for the DSC cannot decode the     *)
(* reply of some DS2 unit.                                                 *)
EXTENDS Probe

MCPdc == 96
MCLsz == 208
MCKnown == <<DmeAddress, DscAddress, MCPdc, MCLsz>>
MCFamilies == {<<DmeAddress>>, <<MCPdc, DscAddress>>, <<MCLsz>>}

Unit(p, pn, di, sw, hw) ==
    [protocol |-> p,
     ident |-> [ok |-> TRUE, pn |-> pn, di |-> di, sw |-> sw, hw |-> hw, ci |-> 1]]
MCUnits == {Unit("KWP", 5, Absent, 1, 1), Unit("KWP", 9, Absent, 2, 1),
            Unit("DS2", 5, Absent, 2, 1), Unit("DS2", 1, Absent, 1, 1),
            Unit("DS2", 1, 7, 2, 1), Unit("DS2", 2, 7, 1, 2)}

(* The fields of the other protocol are somewhere else.                    *)
Elsewhere(m, u) ==
    CASE m = "dme_ds2" /\ u.ident.pn = 9 -> [u.ident EXCEPT !.pn = 5]
      [] m = "dme_kwp" /\ u.ident.pn = 1 -> [u.ident EXCEPT !.pn = 5]
      [] m = "dsc_kwp" /\ u.ident.pn = 2 -> [ok |-> FALSE]
      [] OTHER -> [ok |-> TRUE, pn |-> 0, di |-> Absent, sw |-> 0, hw |-> 0, ci |-> 0]

Definition(a, p, pns, dis, sw, ops) ==
    [address |-> a, protocol |-> p, pns |-> pns, dis |-> dis,
     sw |-> sw, hw |-> 1, ci |-> 1, ops |-> ops]

MCModules == {"dme_ds2", "dme_kwp", "dsc_kwp", "pdc_any", "pdc_pn",
              "pdc_pn2", "pdc_di", "lsz"}
Fields ==
    [m \in MCModules |->
        CASE m = "dme_ds2" -> Definition(DmeAddress, "DS2", {5}, {}, 1, {})
          [] m = "dme_kwp" ->
                Definition(DmeAddress, "KWP", {5}, {}, 1, {"vehicle_id"})
          [] m = "dsc_kwp" -> Definition(DscAddress, "KWP", {9}, {}, 1, {})
          [] m = "pdc_any" -> Definition(MCPdc, "DS2", {}, {}, 1, {})
          [] m = "pdc_pn" -> Definition(MCPdc, "DS2", {1}, {}, 1, {"dtc_count"})
          [] m = "pdc_pn2" -> Definition(MCPdc, "DS2", {1, 2}, {}, 2, {})
          [] m = "pdc_di" ->
                Definition(MCPdc, "DS2", {2}, {7}, 1, {"vehicle_id_short"})
          [] m = "lsz" -> Definition(MCLsz, "KWP2000", {1}, {}, 1, {})]
MCRecords ==
    [m \in MCModules |->
        [address |-> Fields[m].address, protocol |-> Fields[m].protocol,
         pns |-> Fields[m].pns, dis |-> Fields[m].dis, sw |-> Fields[m].sw,
         hw |-> Fields[m].hw, ci |-> Fields[m].ci, ops |-> Fields[m].ops,
         reads |-> [u \in MCUnits |->
                      IF u.protocol = Fields[m].protocol THEN u.ident
                      ELSE Elsewhere(m, u)]]]

(* A unit at the LSZ is considered beside any at the PDC.                  *)
MCCars ==
    {c \in [{DmeAddress, DscAddress, MCPdc, MCLsz} -> MCUnits \cup {NoUnit}] :
        \/ c[MCLsz] = NoUnit
        \/ /\ c[MCLsz] = Unit("DS2", 1, Absent, 1, 1)
           /\ c[DmeAddress] = NoUnit /\ c[DscAddress] = NoUnit}
MCStrayFlags == {{}, {"SW", "PN"}}
=============================================================================
