------------------------------- MODULE Commands -------------------------------
(***************************************************************************)
(* DataCollection::run (ds2-dump/ds2-dump.cpp): what one invocation of     *)
(* ds2-dump does between its command line and its end.  It opens the       *)
(* serial port if it is needed and the database, picks one command, and    *)
(* the command constructs control units (module Inherit) and asks units    *)
(* of the car.                                                             *)
(*                                                                         *)
(* An exception other than CommandlineArgumentException is caught nowhere: *)
(* the process is aborted.  A query is one step (module Query has the      *)
(* bytes), and what identify finds among the definitions for an address is *)
(* any of them or none (module Probe has the matching).                    *)
(***************************************************************************)
EXTENDS Inherit, Integers, Sequences, SequencesExt

CONSTANTS
    Invocations,        \* command lines with the databases they meet
    FamilyDictionary    \* the addresses of each family

(* An invocation has the options and environment variables given, the      *)
(* values of --ecu, --family, --operation, --iterate (negative for what is *)
(* no number) and --data-log, whether --format is a known one, the         *)
(* databases at the places where there is one, and the places that have    *)
(* definition files.                                                       *)
NoDatabase == [modules |-> {}, operations |-> {}, results |-> {}]
ASSUME CommandsAssumption ==
    /\ NoDatabase \in Databases
    /\ None \notin {"reload", "list-families", "list-ecus"}
    /\ \A c \in Invocations :
          /\ \A p \in DOMAIN c.at : c.at[p] \in Databases
          /\ c.ecu.kind \in {"none", "uuid", "number", "name"}
          /\ c.ecu.kind = "none" <=> "ecu" \notin c.options
          /\ c.ecu.kind = "number" => c.ecu.value \in Nat
          /\ c.iterate \in Int
          /\ c.specs \in Seq(ToSet(c.specs))
          /\ \A s \in ToSet(c.specs) : s.results \in Seq(ToSet(s.results))
    /\ \A f \in DOMAIN FamilyDictionary :
          FamilyDictionary[f] \in Seq(0..255) /\ FamilyDictionary[f] # <<>>

VARIABLES
    call,       \* the invocation; fixed
    fd,         \* of the Manager: -1 until serialSetup
    phase,      \* where run() and the command are
    resume,     \* the phase after the control units are constructed
    queue,      \* uuids of control units to construct
    loaded,     \* the operations of those constructed, by uuid
    addresses,  \* ecuAddressList, or those of a family, still to try
    found,      \* autoDetect, or ourEcu
    left,       \* iterations or log specifications still to do
    ecus,       \* data-log: control units by name
    jobs,       \* data-log: the entries, by key
    turn,       \* data-log: entries of this round still to execute
    line,       \* data-log: outValues
    printed,    \* the rows of a listing
    sent        \* history: the descriptors queries went to

loadVars == <<queue, loaded>>
findVars == <<addresses, found>>
logVars == <<ecus, jobs, turn, line>>
workVars == <<loadVars, findVars, left, logVars, printed, sent>>
commandVars == <<call, fd, phase, resume, workVars>>
allVars == <<commandVars, vars>>

-----------------------------------------------------------------------------
(* Options, families and tables.                                           *)

Given(o) == o \in call.options
KnownFamilies == DOMAIN FamilyDictionary
AddressForFamily(f) == IF f \in KnownFamilies THEN FamilyDictionary[f] ELSE <<>>

ModulesAtAddress(a) == {m.uuid : m \in {r \in db.modules : r.address = a}}

(* Those of all families, in order.                                        *)
KnownAddresses ==
    LET all == UNION {ToSet(FamilyDictionary[f]) : f \in KnownFamilies}
        below(a) == {b \in all : b < a}
    IN  [i \in 1..Cardinality(all) |->
            CHOOSE a \in all : Cardinality(below(a)) = i - 1]

(* findAllModules for the family "ALL".                                    *)
FamilyModules(f) == {m \in db.modules : f = "ALL" \/ m.family = f}

(* dppDir: the first place with a database, else the home directory; and   *)
(* jsonDir, the first with definition files.  SQLite makes a new database  *)
(* where there is none.                                                    *)
DppDir(useOptions) ==
    LET path == (IF Given("DPP_DIR") THEN <<"DPP_DIR">> ELSE <<>>)
                \o <<"cwd", "home", "usr">>
        having == SelectSeq(path, LAMBDA p : p \in DOMAIN call.at)
    IN  CASE useOptions /\ Given("dpp-dir") -> "dpp-dir"
          [] having # <<>> -> Head(having)
          [] OTHER -> "home"
DatabaseAt(p) == IF p \in DOMAIN call.at THEN call.at[p] ELSE NoDatabase

JsonDirs ==
    (IF Given("DPP_JSON_DIR") THEN {"DPP_JSON_DIR"} ELSE {})
    \cup (IF Given("dpp-source-dir") THEN {"dpp-source-dir"}
          ELSE {"cwd", "dpp", DppDir(TRUE), "ds2"})

(* The first of some commands that is given: run() tests them in order.    *)
FirstGiven(names) ==
    LET given == {i \in DOMAIN names : Given(names[i])}
    IN  IF given = {} THEN None ELSE names[Min(given)]
Early == FirstGiven(<<"reload", "list-families", "list-ecus">>)
Late == FirstGiven(<<"probe-all", "list-operations", "run-operation", "query",
                     "probe", "data-log">>)

otherVars == <<self, module, protocol, rows, row, op, walk, ops, stage>>
Goto(p) == phase' = p /\ UNCHANGED <<call, resume, vars>>
Proceed(p) == Goto(p) /\ UNCHANGED <<fd, workVars>>

-----------------------------------------------------------------------------
CommandsInit ==
    /\ Init
    /\ call \in Invocations /\ db = NoDatabase
    /\ fd = -1 /\ phase = "start" /\ resume = "start"
    /\ queue = {} /\ loaded = [u \in {} |-> None]
    /\ addresses = <<>> /\ found = None /\ left = 0
    /\ ecus = [n \in {} |-> None] /\ jobs = [k \in {} |-> None]
    /\ turn = <<>> /\ line = <<>> /\ printed = {} /\ sent = {}

NeedsPort_AlsoForPackets ==
    {"reload", "list-families", "list-ecus", "list-operations"}
        \cap call.options = {}
NeedsPort ==
    /\ {"reload", "list-families", "list-ecus", "list-operations"}
          \cap call.options = {}
    /\ ~Given("input-packet")

(* CommandlineArgumentException: the usage text, and exit(-1).             *)
RefuseOptions ==
    /\ phase = "start"
    /\ ~call.formatKnown \/ (NeedsPort /\ ~Given("device"))
    /\ Proceed("usage")

(* serialSetup; a device that cannot be opened or is no terminal throws.   *)
PortFd == 3
SerialSetup ==
    /\ phase = "start" /\ call.formatKnown
    /\ NeedsPort /\ Given("device")
    /\ \/ fd' = PortFd /\ Goto("open")
       \/ UNCHANGED fd /\ Goto("aborted")
    /\ UNCHANGED workVars

NoPort ==
    /\ phase = "start" /\ call.formatKnown /\ ~NeedsPort
    /\ Proceed("open")

(* initializeManager: a database that does not open is a runtime_error.    *)
InitializeManager ==
    /\ phase = "open"
    /\ \/ /\ db' = DatabaseAt(DppDir(TRUE))
          /\ phase' = "dispatch"
          /\ UNCHANGED <<call, resume, fd, workVars, otherVars>>
       \/ Proceed("aborted")

(* toUShort takes up to 65535, of which a quint8 keeps the low byte.       *)
EcuAddresses_Uncut ==
    CASE call.ecu.kind \in {"none", "uuid"} -> <<>>
      [] call.ecu.kind = "number" -> <<call.ecu.value>>
      [] OTHER -> AddressForFamily(call.ecu.value)
EcuAddresses ==
    CASE call.ecu.kind \in {"none", "uuid"} -> <<>>
      [] call.ecu.kind = "number" -> <<call.ecu.value % 256>>
      [] OTHER -> AddressForFamily(call.ecu.value)
EcuRefused ==
    \/ call.ecu.kind = "number" /\ call.ecu.value > 65535
    \/ call.ecu.kind = "name" /\ EcuAddresses = <<>>
EcuMissing ==
    Late # "probe-all" /\ {"ecu", "data-log", "query"} \cap call.options = {}

DispatchEarly ==
    /\ phase = "dispatch" /\ Early # None
    /\ Proceed(Early)

RefuseEcu ==
    /\ phase = "dispatch" /\ Early = None
    /\ EcuRefused \/ EcuMissing
    /\ Proceed("usage")

DispatchLate ==
    /\ phase = "dispatch" /\ Early = None
    /\ ~EcuRefused /\ ~EcuMissing
    /\ addresses' = IF Late = "probe-all" THEN KnownAddresses ELSE EcuAddresses
    /\ Goto(IF Late = None THEN "done" ELSE Late)
    /\ UNCHANGED <<fd, loadVars, found, left, logVars, printed, sent>>

-----------------------------------------------------------------------------
(* Constructing control units, one after the other.                        *)

ConstructAll(uuids, next) ==
    phase' = "construct" /\ queue' = uuids /\ resume' = next

ConstructNext ==
    /\ phase = "construct"
    /\ \E u \in queue : Construct(u)
    /\ UNCHANGED commandVars

Loading == phase = "construct" /\ LoadStep /\ UNCHANGED commandVars

(* The constructor returns.                                                *)
Queue_Kept == queue
QueueAfter == queue \ {self}
Constructed ==
    /\ phase = "construct" /\ stage = "done"
    /\ loaded' = [u \in DOMAIN loaded \cup {self} |->
                     IF u = self THEN ops ELSE loaded[u]]
    /\ queue' = QueueAfter
    /\ stage' = "idle"
    /\ UNCHANGED <<call, fd, phase, resume, findVars, left, logVars, printed,
                   sent, db, self, module, protocol, rows, row, op, walk, ops>>

ConstructorThrows ==
    /\ phase = "construct" /\ stage = "thrown"
    /\ Proceed("aborted")

AllConstructed ==
    /\ phase = "construct" /\ stage = "idle" /\ queue = {}
    /\ Proceed(resume)

-----------------------------------------------------------------------------
(* Commands without a car.                                                 *)

(* initializeDatabase (module Store) succeeds or throws, as does jsonDir   *)
(* when there are no files.                                                *)
Reload ==
    /\ phase = "reload"
    /\ \/ JsonDirs \cap call.json # {} /\ Proceed("done")
       \/ Proceed("aborted")

ListFamilies ==
    /\ phase = "list-families"
    /\ printed' = {[family |-> f, addresses |-> AddressForFamily(f)] :
                      f \in KnownFamilies}
    /\ Goto("done")
    /\ UNCHANGED <<fd, loadVars, findVars, left, logVars, sent>>

ListEcus ==
    /\ phase = "list-ecus"
    /\ \/ /\ call.family \in KnownFamilies \cup {"ALL"}
          /\ ConstructAll({m.uuid : m \in FamilyModules(call.family)}, "print-ecus")
          /\ UNCHANGED <<call, fd, loaded, findVars, left, logVars, printed,
                         sent, vars>>
       \/ call.family \notin KnownFamilies \cup {"ALL"} /\ Proceed("usage")

(* ecuSortMap: the uuids by name, in the order of a hash, so that one of   *)
(* several control units of the same name is left.                         *)
PrintEcus ==
    /\ phase = "print-ecus"
    /\ LET names == {m.name : m \in FamilyModules(call.family)}
       IN  \E sorted \in [names -> DOMAIN loaded] :
              /\ \A n \in names :
                    \E m \in db.modules : m.uuid = sorted[n] /\ m.name = n
              /\ printed' = {[uuid |-> sorted[n], name |-> n] : n \in names}
    /\ Goto("done")
    /\ UNCHANGED <<fd, loadVars, findVars, left, logVars, sent>>

(* The control unit gets a Manager of its own, without options, whose      *)
(* database may not open.                                                  *)
ListOperations ==
    /\ phase = "list-operations"
    /\ \/ /\ call.ecu.kind = "uuid"
          /\ db' = DatabaseAt(DppDir(FALSE))
          /\ ConstructAll({call.ecu.value}, "print-operations")
          /\ UNCHANGED <<call, fd, loaded, findVars, left, logVars, printed,
                         sent, otherVars>>
       \/ call.ecu.kind = "uuid" /\ Proceed("aborted")
       \/ call.ecu.kind # "uuid" /\ Proceed("done")

PrintOperations ==
    /\ phase = "print-operations"
    /\ printed' =
          {[name |-> n, command |-> loaded[call.ecu.value][n].command,
            results |-> DOMAIN loaded[call.ecu.value][n].results] :
              n \in DOMAIN loaded[call.ecu.value]}
    /\ Goto("done")
    /\ UNCHANGED <<fd, loadVars, findVars, left, logVars, sent>>

-----------------------------------------------------------------------------
(* Queries.  The descriptor is tested first: std::ios_base::failure.       *)

Asking == {"find", "probe-all", "query", "identify", "execute", "round"}
CanSend == fd # -1
Send == CanSend /\ sent' = sent \cup {fd}

NotOpen ==
    /\ phase \in Asking /\ ~CanSend
    /\ phase \in {"find", "probe-all"} => addresses # <<>>
    /\ phase = "execute" => ~Given("input-packet")
    /\ phase = "round" => turn # <<>>
    /\ Proceed("aborted")

RawQuery ==
    /\ phase = "query"
    /\ Send
    /\ Goto("done") \/ Goto("aborted")
    /\ UNCHANGED <<fd, loadVars, findVars, left, logVars, printed>>

(* The queries to one address (module Probe).                              *)
ProbeAll ==
    /\ phase = "probe-all"
    /\ \/ addresses = <<>> /\ Proceed("done")
       \/ /\ addresses # <<>>
          /\ Send
          /\ addresses' = Tail(addresses)
          /\ Goto("probe-all") \/ Goto("aborted")
          /\ UNCHANGED <<fd, loadVars, found, left, logVars, printed>>

(* findModuleAtAddress: the unit at the address answers, or the DSC does   *)
(* for it, and all definitions for the unit's address are constructed.     *)
StartFinding ==
    /\ phase = "probe"
    /\ Proceed("find")

Answering(a) == IF a = 18 THEN {18} ELSE {a, 41}
AfterFinding ==
    CASE Late = "probe" -> "identify"
      [] Late = "run-operation" -> "iterate"
      [] OTHER -> "located"

Find ==
    /\ phase = "find" /\ addresses # <<>>
    /\ Send
    /\ \/ \E a \in Answering(Head(addresses)) :
           \E m \in ModulesAtAddress(a) \cup {None} :
              /\ found' = m
              /\ addresses' = IF m = None THEN Tail(addresses) ELSE <<>>
              /\ ConstructAll(ModulesAtAddress(a),
                              IF m = None THEN "find" ELSE AfterFinding)
              /\ UNCHANGED <<call, loaded, vars>>
       \/ /\ Goto("find") \/ Goto("aborted")
          /\ addresses' = Tail(addresses)
          /\ UNCHANGED <<loadVars, found>>
    /\ UNCHANGED <<fd, left, logVars, printed>>

(* probe and run-operation say so; data-log throws a runtime_error.        *)
NothingFound ==
    /\ phase = "find" /\ addresses = <<>>
    /\ Proceed(IF Late = "data-log" THEN "aborted" ELSE "done")

(* executeOperation throws for an unknown operation, and a missing answer  *)
(* is not caught.                                                          *)
Identify ==
    /\ phase = "identify"
    /\ \/ "identify" \in DOMAIN loaded[found] /\ Send /\ Goto("done")
       \/ Goto("aborted") /\ (Send \/ UNCHANGED sent)
    /\ UNCHANGED <<fd, loadVars, findVars, left, logVars, printed>>

-----------------------------------------------------------------------------
(* run-operation.                                                          *)

RunOperation ==
    /\ phase = "run-operation"
    /\ \/ /\ call.ecu.kind = "uuid"
          /\ found' = call.ecu.value
          /\ ConstructAll({call.ecu.value}, "choose")
          /\ UNCHANGED <<call, fd, loaded, addresses, left, logVars, printed,
                         sent, vars>>
       \/ call.ecu.kind # "uuid" /\ Given("input-packet") /\ Proceed("done")
       \/ call.ecu.kind # "uuid" /\ ~Given("input-packet") /\ Proceed("find")

(* first() of the addresses of an unknown family is undefined: the process *)
(* may end here or go on with some address.  A packet that neither         *)
(* KWPPacket nor DS2Packet takes throws.                                   *)
ChooseAddress ==
    /\ phase = "choose"
    /\ \/ Proceed("iterate")
       \/ Given("family") /\ call.family \notin KnownFamilies /\ Proceed("aborted")
       \/ Given("input-packet") /\ Proceed("aborted")

Iterate ==
    /\ phase = "iterate"
    /\ \/ call.iterate >= 0 /\ left' = call.iterate /\ Goto("execute")
       \/ call.iterate < 0 /\ UNCHANGED left /\ Goto("done")
    /\ UNCHANGED <<fd, loadVars, findVars, logVars, printed, sent>>

(* One iteration: parseOperation of the given packet, or executeOperation. *)
Execute ==
    /\ phase = "execute" /\ left > 0
    /\ \/ /\ call.job \in DOMAIN loaded[found]
          /\ left' = left - 1
          /\ Goto("execute")
          /\ IF Given("input-packet") THEN UNCHANGED sent ELSE Send
       \/ /\ UNCHANGED left
          /\ Goto("aborted")
          /\ UNCHANGED sent \/ (~Given("input-packet") /\ Send)
    /\ UNCHANGED <<fd, loadVars, findVars, logVars, printed>>

ExecuteDone ==
    /\ phase = "execute" /\ left = 0
    /\ Proceed("done")

-----------------------------------------------------------------------------
(* data-log.  A specification is an ECU, a job and its results; what does  *)
(* not have these three parts is refused.                                  *)

StartLog ==
    /\ phase = "data-log"
    /\ left' = Len(call.specs)
    /\ Goto("specification")
    /\ UNCHANGED <<fd, loadVars, findVars, logVars, printed, sent>>

Specification == call.specs[Len(call.specs) - left + 1]

ReadSpecification ==
    /\ phase = "specification" /\ left > 0
    /\ \/ ~Specification.complete /\ Proceed("usage")
       \/ /\ Specification.complete /\ Specification.ecu \notin DOMAIN ecus
          /\ addresses' = AddressForFamily(Specification.ecu)
          /\ Goto("find")
          /\ UNCHANGED <<fd, loadVars, found, left, logVars, printed, sent>>
       \/ Specification.complete /\ Specification.ecu \in DOMAIN ecus
          /\ Proceed("entry")

Located ==
    /\ phase = "located"
    /\ ecus' = [n \in DOMAIN ecus \cup {Specification.ecu} |->
                   IF n = Specification.ecu THEN found ELSE ecus[n]]
    /\ Goto("entry")
    /\ UNCHANGED <<fd, loadVars, findVars, left, jobs, turn, line, printed, sent>>

(* The results of an ECU and job named twice are put together.             *)
Key_OfJob(spec) == spec.job
Key(spec) == <<spec.ecu, spec.job>>
AddEntry ==
    /\ phase = "entry"
    /\ LET key == Key(Specification)
           entry == IF key \in DOMAIN jobs THEN jobs[key]
                    ELSE [ecu |-> Specification.ecu, job |-> Specification.job,
                          results |-> <<>>]
       IN  jobs' = [k \in DOMAIN jobs \cup {key} |->
                      IF k = key
                      THEN [entry EXCEPT !.results = @ \o Specification.results]
                      ELSE jobs[k]]
    /\ left' = left - 1
    /\ Goto("specification")
    /\ UNCHANGED <<fd, loadVars, findVars, ecus, turn, line, printed, sent>>

(* jobs.values(), the same in the header and in every round.               *)
Entries == SetToSeq({jobs[k] : k \in DOMAIN jobs})
Columns(entry) ==
    <<[ecu |-> entry.ecu, job |-> entry.job, result |-> "Time"]>>
    \o [i \in DOMAIN entry.results |->
          [ecu |-> entry.ecu, job |-> entry.job, result |-> entry.results[i]]]
Header == FlattenSeq([i \in DOMAIN Entries |-> Columns(Entries[i])])

(* operations()[job] of a job the control unit does not have is a null     *)
(* pointer: the process ends.                                              *)
WriteHeader ==
    /\ phase = "specification" /\ left = 0
    /\ IF \A k \in DOMAIN jobs : jobs[k].job \in DOMAIN loaded[ecus[jobs[k].ecu]]
       THEN Proceed("line")
       ELSE Proceed("aborted")

StartRound ==
    /\ phase = "line"
    /\ turn' = Entries /\ line' = <<>>
    /\ Goto("round")
    /\ UNCHANGED <<fd, loadVars, findVars, left, ecus, jobs, printed, sent>>

(* The answer has some of the operation's results, as far as it is long    *)
(* enough; of these, true and false have no text.  What is missing leaves  *)
(* an empty column.                                                        *)
Value(entry, name) == [unit |-> ecus[entry.ecu], job |-> entry.job, result |-> name]
Blank == [unit |-> None, job |-> None, result |-> None]
ValueTexts(entry, answered) ==
    [i \in DOMAIN entry.results |->
        IF entry.results[i] \in answered
        THEN Value(entry, entry.results[i])
        ELSE Blank]

ExecuteEntry ==
    /\ phase = "round" /\ turn # <<>>
    /\ Send
    /\ LET entry == Head(turn)
           results == DOMAIN loaded[ecus[entry.ecu]][entry.job].results
       IN  \/ \E answered \in SUBSET results :
                 /\ line' = line \o <<Value(entry, "Time")>>
                                 \o ValueTexts(entry, answered)
                 /\ turn' = Tail(turn)
                 /\ Goto("round")
           \/ UNCHANGED <<line, turn>> /\ Goto("aborted")
    /\ UNCHANGED <<fd, loadVars, findVars, left, ecus, jobs, printed>>

WriteLine ==
    /\ phase = "round" /\ turn = <<>>
    /\ Proceed("line")

-----------------------------------------------------------------------------
CommandsNext ==
    \/ RefuseOptions \/ SerialSetup \/ NoPort \/ InitializeManager
    \/ DispatchEarly \/ RefuseEcu \/ DispatchLate
    \/ ConstructNext \/ Loading \/ Constructed \/ ConstructorThrows
    \/ AllConstructed
    \/ Reload \/ ListFamilies \/ ListEcus \/ PrintEcus
    \/ ListOperations \/ PrintOperations
    \/ NotOpen \/ RawQuery \/ ProbeAll \/ StartFinding \/ Find \/ NothingFound
    \/ Identify
    \/ RunOperation \/ ChooseAddress \/ Iterate \/ Execute \/ ExecuteDone
    \/ StartLog \/ ReadSpecification \/ Located \/ AddEntry
    \/ WriteHeader \/ StartRound \/ ExecuteEntry \/ WriteLine

(* One thread; a query always comes back (module Query).                   *)
CommandsSpec ==
    CommandsInit /\ [][CommandsNext]_allVars /\ WF_allVars(CommandsNext)

-----------------------------------------------------------------------------
(* Types: control units are constructed only where a constructor is        *)
(* called, and what a command goes on with has been constructed.  TypeOK   *)
(* is that of the constructor.                                             *)
Ended == {"done", "usage", "aborted"}
CommandsTypeOK ==
    /\ TypeOK
    /\ phase \in Ended \cup Asking \cup
          {"start", "open", "dispatch", "construct", "reload", "list-families",
           "list-ecus", "print-ecus", "list-operations", "print-operations",
           "probe", "run-operation", "choose", "iterate", "data-log",
           "specification", "located", "entry", "line"}
    /\ phase \notin {"construct", "aborted"} => stage = "idle" /\ queue = {}
    /\ stage \notin {"idle", "thrown"} => self \in queue
    /\ phase \in {"identify", "iterate", "execute", "located"} =>
          found \in DOMAIN loaded
    /\ {ecus[n] : n \in DOMAIN ecus} \subseteq DOMAIN loaded
    /\ fd \in {-1, PortFd} /\ addresses \in Seq(0..255) /\ left \in Nat

(* An invocation that lists, reloads or is given its packet leaves the car *)
(* alone, whatever other options it has ("Treat this argument as a packet  *)
(* instead of reading from the serial port", run).                         *)
OfflineStaysOffline ==
    sent # {} =>
        /\ sent = {PortFd} /\ Given("device")
        /\ {"input-packet", "reload", "list-families", "list-ecus",
             "list-operations"} \cap call.options = {}

(* "Print the known ECUs for a given family" (--list-ecus): every module   *)
(* of the family, or of all families, is printed, and nothing else.        *)
Asked == {m \in db.modules : call.family \in {m.family, "ALL"}}
ListingComplete ==
    (Early = "list-ecus" /\ phase = "done") =>
        printed = {[uuid |-> m.uuid, name |-> m.name] : m \in Asked}

(* A line of the data log has one column under each heading, and what it   *)
(* says there was read from that ECU, by that job, for that result; every  *)
(* result asked for has a heading (dataLog).                               *)
LogAligned ==
    (phase = "round" /\ turn = <<>>) =>
        /\ Len(line) = Len(Header)
        /\ \A i \in DOMAIN line : line[i] # Blank =>
              line[i] = [unit |-> ecus[Header[i].ecu], job |-> Header[i].job,
                         result |-> Header[i].result]
        /\ \A spec \in ToSet(call.specs) : \A name \in ToSet(spec.results) :
              [ecu |-> spec.ecu, job |-> spec.job, result |-> name] \in ToSet(Header)

(* Every command but data-log ends, unless it has to load a definition     *)
(* among whose ancestors is a cycle.                                       *)
Acyclic(d) ==
    /\ \A m \in d.modules : HasEnd(d.modules, m.uuid)
    /\ \A o \in d.operations : HasEnd(d.operations, o.uuid)
CommandReturns ==
    (Late # "data-log" /\ \A p \in DOMAIN call.at : Acyclic(call.at[p]))
        ~> (phase \in Ended)
=============================================================================
