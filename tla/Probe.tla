-------------------------------- MODULE Probe --------------------------------
(***************************************************************************)
(* How ds2-dump finds out what is installed: the main dispatch with its    *)
(* probe-all, probe, run-operation and data-log commands                   *)
(* (ds2-dump/ds2-dump.cpp), Manager::findModuleAtAddress and               *)
(* findModuleByMatchingIdentPacket (libds2/manager.cpp).                   *)
(*                                                                         *)
(* One query is one step here: it is answered by the unit asked, or times  *)
(* out, or fails with another exception (module Query shows how).  What a  *)
(* definition decodes from a unit's reply to identify is any function of   *)
(* the two, or an exception (module Decode has the decoding): nothing      *)
(* keeps a definition for one protocol from being tried on a reply in the  *)
(* other.  The columns of the printed table, progress output and delays    *)
(* are left out.                                                           *)
(***************************************************************************)
EXTENDS Integers, Sequences, FiniteSets

CONSTANTS
    Known,       \* the addresses of the family dictionary, ascending
    Families,    \* address lists the user may name with --ecu
    Modules,     \* the uuids of the module definitions in the database
    Records,     \* their columns that matter here
    Units,       \* the control units that may be installed at an address
    Cars,        \* the installations considered
    StrayFlags,  \* values an uninitialised _matchFlags may hold
    Iterations,  \* bound: the value of --iterate
    Faults       \* "timeout": answers may be lost, "failure": or garbled

NoUnit == [protocol |-> "none"]
NoModule == "none"
Root == "root"
NoReply == [address |-> 0, unit |-> NoUnit]
Absent == -1            \* the reply is too short to hold the field
DmeAddress == 18        \* 0x12
DscAddress == 41        \* 0x29
Addresses == {Known[i] : i \in 1..Len(Known)}
AllFlags == {"SW", "HW", "CI", "DI", "BI", "PN"}

(* Records: which address and protocol a definition is for, and the        *)
(* identities it accepts; reads is, for each unit, whether its reply can   *)
(* be decoded by the definition's identify (ok), and if so as what.        *)
ASSUME ProbeAssumption ==
    /\ Known \in Seq(Nat)
    /\ \A i, j \in 1..Len(Known) : i < j => Known[i] < Known[j]
    /\ Families \subseteq Seq(Addresses)
    /\ {DmeAddress, DscAddress} \subseteq Addresses
    /\ {NoModule, Root} \cap Modules = {}
    /\ \A m \in Modules :
          Records[m].address \in Addresses /\ Absent \notin Records[m].dis
    /\ Cars \subseteq [Addresses -> Units \cup {NoUnit}]
    /\ \A u \in Units : u.protocol \in {"DS2", "KWP"}
    /\ StrayFlags \subseteq SUBSET AllFlags
    /\ Iterations \in Nat \ {0}
    /\ Faults \subseteq {"timeout", "failure"}

VARIABLES
    car,        \* the unit at each address; fixed
    mode,       \* the command; fixed
    stage,      \* where the command is
    todo,       \* addresses not yet tried
    address,    \* the address being tried
    target,     \* anAddress inside findModuleAtAddress
    reply,      \* ourReceivedPacket
    left,       \* definitions of findAllModulesByAddress not yet examined
    found,      \* ret, then autoDetect
    home,       \* its _address
    flags,      \* fullMatch, then its _matchFlags
    rows,       \* output of probe-all
    runs,       \* iterations of run-operation still to do
    lost        \* history: a unit that was asked was not heard

findVars == <<target, reply, left, found, flags>>
vars == <<car, mode, stage, todo, address, findVars, home, rows, runs, lost>>

-----------------------------------------------------------------------------
(* Matching a definition against the reply to identify.                    *)

(* parseOperation("identify") of any candidate, on the data of the reply.  *)
Reads(m, r) == Records[m].reads[r.unit]

Skipped(m) == Records[m].pns = {} /\ Records[m].dis = {}

PnMatch(m, r) == Reads(m, r).pn \in Records[m].pns

DiMatch(m, r) ==
    \/ Reads(m, r).di \in Records[m].dis
    \/ PnMatch(m, r) /\ Records[m].dis = {}

(* std::invalid_argument, caught nowhere.                                  *)
Throws(m, r) == ~Skipped(m) /\ ~Reads(m, r).ok

Matches(m, r) == ~Skipped(m) /\ Reads(m, r).ok /\ DiMatch(m, r)

(* swMatch is "reported # expected": the flag is cleared on equality.      *)
Cleared(m, r) ==
    {f \in AllFlags :
        \/ f = "PN" /\ ~PnMatch(m, r)
        \/ f = "SW" /\ Reads(m, r).sw = Records[m].sw
        \/ f = "HW" /\ Reads(m, r).hw # Records[m].hw
        \/ f = "CI" /\ Reads(m, r).ci # Records[m].ci}

FlagsFor(m, r) == AllFlags \ Cleared(m, r)

(* fullMatch starts again from MatchAll for each definition that matches.  *)
FlagsAfter_NotReset(m) ==
    (IF found = NoModule THEN AllFlags ELSE flags) \ Cleared(m, reply)
FlagsAfter(m) == FlagsFor(m, reply)

CandidatesAt(a) == {m \in Modules : Records[m].address = a}

(* findAllModulesByAddress is given the address in the reply.              *)
Candidates_OfProbed == CandidatesAt(address)
Candidates == CandidatesAt(target)

-----------------------------------------------------------------------------
(* One query.                                                              *)

Speaks(a, p) == car[a].protocol = p
Silent(a, p) == ~Speaks(a, p) \/ "timeout" \in Faults
Heard(a, p) == Speaks(a, p) /\ UNCHANGED lost
Unheard(a, p) == Silent(a, p) /\ lost' = (lost \/ Speaks(a, p))

ReplyOf(a) == [address |-> a, unit |-> car[a]]

(* What follows a missing reply; the second test assigns.                  *)
KwpTarget(a) == IF a = DmeAddress THEN DmeAddress ELSE DscAddress

-----------------------------------------------------------------------------
Init ==
    /\ car \in Cars
    /\ mode \in {"probe-all", "probe", "operation", "data-log"}
    /\ todo \in (IF mode = "probe-all" THEN {Known} ELSE Families)
    /\ runs \in (IF mode = "operation" THEN 1..Iterations ELSE {1})
    /\ stage = "next" /\ address = 0 /\ target = 0 /\ home = 0
    /\ reply = NoReply /\ left = {} /\ found = NoModule /\ flags = {}
    /\ rows = <<>> /\ lost = FALSE

(* The foreach over the addresses; autoDetect is null here.                *)
TryAddress ==
    /\ stage = "next" /\ todo # <<>>
    /\ stage' = "ds2"
    /\ todo' = Tail(todo)
    /\ address' = Head(todo) /\ target' = Head(todo)
    /\ reply' = NoReply /\ left' = {} /\ found' = NoModule /\ flags' = {}
    /\ UNCHANGED <<car, mode, home, rows, runs, lost>>

(* probe-all prints its table; data-log throws std::runtime_error.         *)
NoMoreAddresses ==
    /\ stage = "next" /\ todo = <<>>
    /\ stage' = IF mode = "data-log" THEN "aborted" ELSE "done"
    /\ UNCHANGED <<car, mode, todo, address, findVars, home, rows, runs, lost>>

(* All candidates are constructed first, and a constructor throws          *)
(* std::invalid_argument for a protocol it does not know (module Inherit). *)
Constructible(m) == Records[m].protocol \in {"DS2", "KWP"}

StartMatching ==
    /\ reply' = ReplyOf(target)
    /\ IF \A m \in Candidates : Constructible(m)
       THEN stage' = "match" /\ left' = Candidates
       ELSE stage' = "aborted" /\ left' = {}
    /\ UNCHANGED <<car, mode, todo, address, target, found, home, flags,
                   rows, runs>>

Ds2Ident ==
    /\ stage = "ds2"
    /\ \/ Heard(target, "DS2") /\ StartMatching
       \/ /\ Unheard(target, "DS2")
          /\ stage' = "kwp"
          /\ target' = KwpTarget(target)
          /\ UNCHANGED <<car, mode, todo, address, reply, left, found, home,
                         flags, rows, runs>>

KwpIdent ==
    /\ stage = "kwp"
    /\ \/ Heard(target, "KWP") /\ StartMatching
       \/ /\ Unheard(target, "KWP")
          /\ stage' = "found"
          /\ UNCHANGED <<car, mode, todo, address, findVars, home, rows, runs>>

(* One round of the loop over the hash of candidates, in any order.        *)
AfterExamine_NoBreak(m) == left \ {m}
AfterExamine(m) ==
    IF Matches(m, reply) /\ FlagsAfter(m) = AllFlags THEN {} ELSE left \ {m}

Examine(m) ==
    /\ stage = "match" /\ m \in left
    /\ left' = AfterExamine(m)
    /\ IF Matches(m, reply)
       THEN found' = m /\ flags' = FlagsAfter(m)
       ELSE UNCHANGED <<found, flags>>
    /\ stage' = IF Throws(m, reply) THEN "aborted" ELSE stage
    /\ UNCHANGED <<car, mode, todo, address, target, reply, home,
                   rows, runs, lost>>

MatchDone ==
    /\ stage = "match" /\ left = {}
    /\ stage' = "found"
    /\ UNCHANGED <<car, mode, todo, address, findVars, home, rows, runs, lost>>

UseFound ==
    /\ stage = "found" /\ found # NoModule
    /\ stage' = "identify"
    /\ home' = Records[found].address
    /\ UNCHANGED <<car, mode, todo, address, findVars, rows, runs, lost>>

(* Only probe-all goes on with a unit that no definition accepts.          *)
FallsBack_Never == FALSE
FallsBack == mode = "probe-all"

(* probe-all asks through the root definition, moved to this address; its  *)
(* match flags were never set.                                             *)
UseRoot ==
    /\ stage = "found" /\ found = NoModule /\ FallsBack
    /\ stage' = "identify"
    /\ found' = Root
    /\ home' = address
    /\ flags' \in StrayFlags
    /\ UNCHANGED <<car, mode, todo, address, target, reply, left, rows, runs,
                   lost>>

GiveUpAddress_Retried ==
    /\ stage = "found" /\ found = NoModule /\ ~FallsBack
    /\ stage' = "ds2"
    /\ UNCHANGED <<car, mode, todo, address, findVars, home, rows, runs, lost>>
GiveUpAddress ==
    /\ stage = "found" /\ found = NoModule /\ ~FallsBack
    /\ stage' = "next"
    /\ UNCHANGED <<car, mode, todo, address, findVars, home, rows, runs, lost>>

Protocol == IF found = Root THEN "DS2" ELSE Records[found].protocol
Ops == IF found = Root THEN {"dtc_count"} ELSE Records[found].ops

(* executeOperation: probe-all and probe run "identify", run-operation     *)
(* repeats the user's operation, data-log does so for ever.                *)
AfterIdentify ==
    CASE mode = "probe-all" -> "vin"
      [] mode = "probe" -> "done"
      [] mode = "operation" /\ runs = 1 -> "done"
      [] OTHER -> "identify"

(* Only probe-all catches the timeout.                                     *)
AfterSilence == IF mode = "probe-all" THEN "next" ELSE "aborted"

Identify ==
    /\ stage = "identify"
    /\ \/ /\ Heard(home, Protocol)
          /\ stage' = AfterIdentify
          /\ runs' = IF runs > 1 THEN runs - 1 ELSE runs
       \/ /\ Unheard(home, Protocol)
          /\ stage' = AfterSilence
          /\ UNCHANGED runs
    /\ UNCHANGED <<car, mode, todo, address, findVars, home, rows>>

(* An operation the definition has is run, and its timeout ignored.        *)
Try(ops) ==
    IF Ops \cap ops = {}
    THEN UNCHANGED lost
    ELSE Heard(home, Protocol) \/ Unheard(home, Protocol)

ReadVin ==
    /\ stage = "vin"
    /\ Try({"vehicle_id", "vehicle_id_short"})
    /\ stage' = "count"
    /\ UNCHANGED <<car, mode, todo, address, findVars, home, rows, runs>>

Row == [probed |-> address, module |-> found, home |-> home, flags |-> flags]

CountFaults ==
    /\ stage = "count"
    /\ Try({"dtc_count"})
    /\ rows' = Append(rows, Row)
    /\ stage' = "next"
    /\ UNCHANGED <<car, mode, todo, address, findVars, home, runs>>

(* std::ios_base::failure and the like, or std::invalid_argument from the  *)
(* decoding of an answer, are caught nowhere: the process ends, and        *)
(* probe-all has printed nothing yet.                                      *)
QueryFails ==
    /\ "failure" \in Faults
    /\ \/ stage \in {"ds2", "kwp", "identify"}
       \/ stage = "vin" /\ Ops \cap {"vehicle_id", "vehicle_id_short"} # {}
       \/ stage = "count" /\ "dtc_count" \in Ops
    /\ stage' = "aborted"
    /\ UNCHANGED <<car, mode, todo, address, findVars, home, rows, runs, lost>>

Next ==
    \/ TryAddress
    \/ NoMoreAddresses
    \/ Ds2Ident
    \/ KwpIdent
    \/ \E m \in Modules : Examine(m)
    \/ MatchDone
    \/ UseFound
    \/ UseRoot
    \/ GiveUpAddress
    \/ Identify
    \/ ReadVin
    \/ CountFaults
    \/ QueryFails

Spec == Init /\ [][Next]_vars

(* One thread that never waits for anything but a bounded query.           *)
FairSpec == Spec /\ WF_vars(Next)

-----------------------------------------------------------------------------
(* Type invariant: also that an address is never asked in a third          *)
(* protocol, and that only a match or the root definition is interrogated. *)
TypeOK ==
    /\ mode \in {"probe-all", "probe", "operation", "data-log"}
    /\ stage \in {"next", "ds2", "kwp", "match", "found", "identify", "vin",
                  "count", "done", "aborted"}
    /\ todo \in Seq(Addresses)
    /\ target \in Addresses \cup {0}
    /\ left \subseteq CandidatesAt(target)
    /\ found \in Modules \cup {NoModule, Root}
    /\ stage \in {"identify", "vin", "count"} =>
          found # NoModule /\ home \in Addresses
    /\ flags \subseteq AllFlags
    /\ runs \in 1..Iterations
    /\ lost \in BOOLEAN

(* What the flags of a match say is true of that definition and the unit   *)
(* at its address, in the loop and in every printed row, with "SW" as the  *)
(* code sets it (findModuleByMatchingIdentPacket, the notes of probeAll).  *)
FlagsDescribeFound ==
    /\ found \in Modules => flags = FlagsFor(found, reply)
    /\ \A i \in 1..Len(rows) : rows[i].module \in Modules =>
          rows[i].flags = FlagsFor(rows[i].module, ReplyOf(rows[i].home))

(* Whatever order the hash has: a unit is recognised exactly when some     *)
(* definition accepts it, and a definition with every flag is preferred    *)
(* to all others (findModuleByMatchingIdentPacket).                        *)
BestMatchWins ==
    (stage = "found" /\ reply # NoReply) =>
        LET Accepting == {m \in CandidatesAt(reply.address) : Matches(m, reply)}
        IN  /\ found = NoModule <=> Accepting = {}
            /\ (\E m \in Accepting : FlagsFor(m, reply) = AllFlags) =>
                  flags = AllFlags

(* The units that belong in the table of probe-all: those that speak DS2,  *)
(* and those that speak KWP at an address asked in KWP, where a definition *)
(* accepts them.  A unit is mistaken when a definition for the other       *)
(* protocol accepts its reply: what is asked next may go unheard.          *)
RowsFor(a) == {i \in 1..Len(rows) : rows[i].probed = a /\ rows[i].home = a}
Reportable(a) ==
    \/ Speaks(a, "DS2")
    \/ /\ Speaks(a, "KWP") /\ a \in {DmeAddress, DscAddress}
       /\ \E m \in CandidatesAt(a) : Matches(m, ReplyOf(a))
Mistaken(a) ==
    \E m \in CandidatesAt(a) :
        Matches(m, ReplyOf(a)) /\ ~Speaks(a, Records[m].protocol)

(* When no answer was lost, the table of probe-all has one row for each    *)
(* unit that belongs there and is not mistaken, read from that unit, at    *)
(* most one for one that is, and none for any other address (probeAll).    *)
Reported(a) ==
    /\ RowsFor(a) # {} => Reportable(a) /\ Cardinality(RowsFor(a)) = 1
    /\ Reportable(a) => Mistaken(a) \/ RowsFor(a) # {}
EveryUnitReported ==
    (mode = "probe-all" /\ stage = "done" /\ ~lost) =>
        \A a \in Addresses : Reported(a)

(* Every command but data-log comes to an end, however many queries are    *)
(* lost (run, probe, probeAll, runOperation).                              *)
CommandEnds == (mode # "data-log") ~> (stage \in {"done", "aborted"})

(* What the user is told: the unit found is the one at the address asked   *)
(* (ds2-dump/README.md: "Probe an ECU at <ecu> for its identity").         *)
FoundAtProbedAddress == (stage = "identify") => (home = address)
=============================================================================
