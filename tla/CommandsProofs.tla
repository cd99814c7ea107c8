--------------------------- MODULE CommandsProofs ---------------------------
(***************************************************************************)
(* For every command line, database and dictionary of families: the car is *)
(* asked nothing by an invocation that needs no car (PortInv), what the    *)
(* commands do between two steps of the loader takes nothing from a        *)
(* control unit that is being put together, every command constructs       *)
(* before it uses (CommandsInv), and a listing is complete (ListInv).      *)
(*                                                                         *)
(* A line of the data log has one column under each heading and says there *)
(* what was read for it, for every list of specifications and any number   *)
(* of rounds (dataLog, ds2-dump.cpp).  The specifications that have been   *)
(* read are in the entries (SpecsInv); while the entries of a round are    *)
(* executed one by one, the line is under the headings of those that have  *)
(* been (RoundInv), which are those of the whole header at its end, since  *)
(* the header is put together in the same order.  Entries is a choice that *)
(* stays as long as the jobs do.                                           *)
(***************************************************************************)
EXTENDS Commands, InheritProofs, SequenceTheorems

(* Why a query has gone to the port and nowhere else: the descriptor is    *)
(* that of the port or none, it is the port's only after serialSetup,      *)
(* which needs a command that uses the car and a device, and the command   *)
(* line does not change.                                                   *)
PortInv ==
    /\ fd = -1 \/ fd = PortFd
    /\ fd = PortFd => NeedsPort /\ Given("device")
    /\ sent = {} \/ (sent = {PortFd} /\ fd = PortFd)

-----------------------------------------------------------------------------
LEMMA PortInit == CommandsInit => PortInv
    BY DEF CommandsInit, PortInv, PortFd

LEMMA PortImpliesOffline == PortInv => OfflineStaysOffline
<1>1. SUFFICES ASSUME PortInv, sent # {}
               PROVE  /\ sent = {PortFd} /\ Given("device")
                      /\ {"input-packet", "reload", "list-families",
                          "list-ecus", "list-operations"} \cap call.options = {}
    BY DEF OfflineStaysOffline
<1>2. sent = {PortFd} /\ NeedsPort /\ Given("device")
    BY <1>1 DEF PortInv
<1>3. /\ "input-packet" \notin call.options
      /\ \A o \in {"reload", "list-families", "list-ecus", "list-operations"} :
            o \notin call.options
    BY <1>2 DEF NeedsPort, Given
<1>4. {"input-packet", "reload", "list-families", "list-ecus",
       "list-operations"} \cap call.options = {}
    BY <1>3
<1> QED BY <1>2, <1>4

(* A step that keeps the descriptor and sends at most to it.               *)
SentByFd == sent' = sent \/ Send
LEMMA PortKept ==
    ASSUME PortInv, call' = call, fd' = fd, SentByFd
    PROVE  PortInv'
    BY DEF PortInv, SentByFd, Send, CanSend, PortFd, NeedsPort, Given

LEMMA SetupKeeps ==
    ASSUME PortInv, SerialSetup
    PROVE  PortInv'
    BY DEF PortInv, SerialSetup, Goto, workVars, PortFd, NeedsPort, Given

LEMMA StartKeeps ==
    ASSUME PortInv, RefuseOptions \/ NoPort \/ InitializeManager
                    \/ DispatchEarly \/ RefuseEcu \/ DispatchLate
    PROVE  PortInv'
<1>1. call' = call /\ fd' = fd /\ sent' = sent
    BY DEF RefuseOptions, NoPort, InitializeManager, DispatchEarly, RefuseEcu,
           DispatchLate, Proceed, Goto, workVars
<1> QED BY <1>1, PortKept DEF SentByFd

LEMMA LoaderKeeps ==
    ASSUME PortInv, ConstructNext \/ Loading \/ Constructed
                    \/ ConstructorThrows \/ AllConstructed
    PROVE  PortInv'
<1>1. call' = call /\ fd' = fd /\ sent' = sent
    BY DEF ConstructNext, Loading, Constructed, ConstructorThrows,
           AllConstructed, Proceed, Goto, commandVars, workVars
<1> QED BY <1>1, PortKept DEF SentByFd

LEMMA ListingKeeps ==
    ASSUME PortInv, Reload \/ ListFamilies \/ ListEcus \/ PrintEcus
                    \/ ListOperations \/ PrintOperations
    PROVE  PortInv'
<1>1. call' = call /\ fd' = fd /\ sent' = sent
    BY DEF Reload, ListFamilies, ListEcus, PrintEcus, ListOperations,
           PrintOperations, Proceed, Goto, workVars
<1> QED BY <1>1, PortKept DEF SentByFd

LEMMA FindingKeeps ==
    ASSUME PortInv, NotOpen \/ RawQuery \/ ProbeAll \/ StartFinding \/ Find
                    \/ NothingFound \/ Identify
    PROVE  PortInv'
<1>1. call' = call /\ fd' = fd /\ SentByFd
    BY DEF NotOpen, RawQuery, ProbeAll, StartFinding, Find, NothingFound,
           Identify, Proceed, Goto, workVars, SentByFd
<1> QED BY <1>1, PortKept

LEMMA RunningKeeps ==
    ASSUME PortInv, RunOperation \/ ChooseAddress \/ Iterate \/ Execute
                    \/ ExecuteDone
    PROVE  PortInv'
<1>1. call' = call /\ fd' = fd /\ SentByFd
    BY DEF RunOperation, ChooseAddress, Iterate, Execute, ExecuteDone, Proceed,
           Goto, workVars, SentByFd
<1> QED BY <1>1, PortKept

LEMMA LoggingKeeps ==
    ASSUME PortInv, StartLog \/ ReadSpecification \/ Located \/ AddEntry
                    \/ WriteHeader \/ StartRound \/ ExecuteEntry \/ WriteLine
    PROVE  PortInv'
<1>1. call' = call /\ fd' = fd /\ SentByFd
    BY DEF StartLog, ReadSpecification, Located, AddEntry, WriteHeader,
           StartRound, ExecuteEntry, WriteLine, Proceed, Goto, workVars, SentByFd
<1> QED BY <1>1, PortKept

(* run (ds2-dump.cpp): an invocation that lists, reloads or is given its   *)
(* packet leaves the car alone, whatever other options it has.             *)
THEOREM OfflineInvocations == CommandsSpec => []OfflineStaysOffline
<1>1. PortInv /\ [CommandsNext]_allVars => PortInv'
  <2> SUFFICES ASSUME PortInv, [CommandsNext]_allVars PROVE PortInv'
      OBVIOUS
  <2>1. CASE CommandsNext
      BY <2>1, SetupKeeps, StartKeeps, LoaderKeeps, ListingKeeps, FindingKeeps,
         RunningKeeps, LoggingKeeps DEF CommandsNext
  <2>2. CASE UNCHANGED allVars
      BY <2>2, PortKept DEF allVars, commandVars, workVars, SentByFd
  <2> QED BY <2>1, <2>2
<1> QED BY <1>1, PortInit, PortImpliesOffline, PTL DEF CommandsSpec

-----------------------------------------------------------------------------
(* The commands and the loader: a step of run() that is not one of the     *)
(* loader's leaves what the loader has gathered as it is.  It takes a      *)
(* control unit that is done, or it opens a database while none is made.   *)
BetweenLoads ==
    /\ UNCHANGED <<self, module, protocol, rows, row, op, walk, ops>>
    /\ \/ stage = "done" /\ stage' = "idle" /\ db' = db
       \/ /\ phase \notin {"construct", "aborted"} /\ stage' = stage
          /\ \E p : db' = DatabaseAt(p)

LEMMA OutsideTheLoader ==
    ASSUME CommandsNext, ~Loading, ~ConstructNext
    PROVE  UNCHANGED vars \/ BetweenLoads
<1>1. CASE RefuseOptions \/ SerialSetup \/ NoPort \/ InitializeManager
           \/ DispatchEarly \/ RefuseEcu \/ DispatchLate
    BY <1>1 DEF RefuseOptions, SerialSetup, NoPort, InitializeManager,
       DispatchEarly, RefuseEcu, DispatchLate, Proceed, Goto, vars, otherVars,
       BetweenLoads
<1>2. CASE Constructed \/ ConstructorThrows \/ AllConstructed
    BY <1>2 DEF Constructed, ConstructorThrows, AllConstructed, Proceed, Goto,
       vars, BetweenLoads
<1>3. CASE Reload \/ ListFamilies \/ ListEcus \/ PrintEcus \/ ListOperations
           \/ PrintOperations
    BY <1>3 DEF Reload, ListFamilies, ListEcus, PrintEcus, ListOperations,
       PrintOperations, Proceed, Goto, vars, otherVars, BetweenLoads
<1>4. CASE NotOpen \/ RawQuery \/ ProbeAll \/ StartFinding \/ Find
           \/ NothingFound \/ Identify
    BY <1>4 DEF NotOpen, RawQuery, ProbeAll, StartFinding, Find, NothingFound,
       Identify, Proceed, Goto, vars
<1>5. CASE RunOperation \/ ChooseAddress \/ Iterate \/ Execute \/ ExecuteDone
    BY <1>5 DEF RunOperation, ChooseAddress, Iterate, Execute, ExecuteDone,
       Proceed, Goto, vars
<1>6. CASE StartLog \/ ReadSpecification \/ Located \/ AddEntry \/ WriteHeader
           \/ StartRound \/ ExecuteEntry \/ WriteLine
    BY <1>6 DEF StartLog, ReadSpecification, Located, AddEntry, WriteHeader,
       StartRound, ExecuteEntry, WriteLine, Proceed, Goto, vars
<1> QED BY <1>1, <1>2, <1>3, <1>4, <1>5, <1>6 DEF CommandsNext

LEMMA CommandStepKeeps ==
    ASSUME PriorityInv, [CommandsNext]_allVars
    PROVE  PriorityInv' /\ (stage # "idle" => OpsKept)
<1>1. CASE Loading
    BY <1>1, LoadStepKeeps DEF Loading
<1>2. CASE ConstructNext
  <2>1. PICK u \in queue : Construct(u)
      BY <1>2 DEF ConstructNext
  <2> QED BY <2>1, ConstructKeeps DEF Construct
<1>3. CASE CommandsNext /\ ~Loading /\ ~ConstructNext
    BY <1>3, OutsideTheLoader, KeptAsIs DEF BetweenLoads, vars
<1>4. CASE UNCHANGED allVars
    BY <1>4, KeptAsIs DEF allVars, vars
<1> QED BY <1>1, <1>2, <1>3, <1>4

(* ControlUnit's constructor in every command (ds2-dump.cpp): whichever    *)
(* command constructs control units, one after the other and in between    *)
(* its queries, what a nearer definition said is kept to the end.          *)
THEOREM CommandsKeepPriority == CommandsSpec => HigherPriorityStays
<1>1. CommandsInit => PriorityInv
    BY PriorityInit DEF CommandsInit
<1>2. PriorityInv /\ [CommandsNext]_allVars => PriorityInv'
    BY CommandStepKeeps
<1>3. PriorityInv /\ [CommandsNext]_allVars =>
        [stage # "idle" => \A n \in DOMAIN ops :
            /\ n \in DOMAIN ops'
            /\ ops'[n].uuid = ops[n].uuid
            /\ ops[n].command # None => ops'[n].command = ops[n].command
            /\ \A k \in DOMAIN ops[n].results :
                  /\ k \in DOMAIN ops'[n].results
                  /\ ops'[n].results[k] = ops[n].results[k]]_vars
    BY CommandStepKeeps DEF OpsKept, Keeps
<1> QED BY <1>1, <1>2, <1>3, PTL DEF CommandsSpec, HigherPriorityStays

-----------------------------------------------------------------------------
(* The phase in which a command goes on: while control units are           *)
(* constructed, the one after that.                                        *)
Going == IF phase = "construct" THEN resume ELSE phase
Phases ==
    Ended \cup Asking \cup
        {"start", "open", "dispatch", "construct", "reload", "list-families",
         "list-ecus", "print-ecus", "list-operations", "print-operations",
         "probe", "run-operation", "choose", "iterate", "data-log",
         "specification", "located", "entry", "line"}
(* Only the constructor leaves a control unit half made, and it works on   *)
(* one that was asked for.                                                 *)
InTurn ==
    /\ call \in Invocations
    /\ phase \in Phases /\ Going \in Phases \ {"construct"}
    /\ phase \notin {"construct", "aborted"} => stage = "idle" /\ queue = {}
    /\ stage \notin {"idle", "thrown"} => self \in queue
(* Numbers; which command has come to the phases that several share; and   *)
(* that a specification of data-log is in hand where one is used.          *)
Counting ==
    /\ fd \in {-1, PortFd} /\ addresses \in Seq(0..255) /\ left \in Nat
    /\ Going = "probe" => Late = "probe"
    /\ Going = "run-operation" => Late = "run-operation"
    /\ Going = "find" /\ Late \notin {"probe", "run-operation"} => left > 0
    /\ Going \in {"located", "entry"} => left > 0
(* A command that goes on with a control unit has it, or has asked for it. *)
Known ==
    /\ Going \in {"identify", "iterate", "execute", "located", "choose"} =>
          found \in DOMAIN loaded \cup queue
    /\ {ecus[n] : n \in DOMAIN ecus} \subseteq DOMAIN loaded

LEMMA EarlyKnown ==
    /\ Early \in {None, "reload", "list-families", "list-ecus"}
    /\ Late \in {None, "probe-all", "list-operations", "run-operation", "query",
                  "probe", "data-log"}
<1>1. ASSUME NEW n \in Nat, NEW T \in SUBSET (1..n), T # {} PROVE Min(T) \in 1..n
    <2>1. T \in SUBSET Nat
        OBVIOUS
    <2>2. \E x \in T : \A y \in T : x <= y
        BY <2>1, <1>1, LeastNumber
    <2> QED BY <2>2 DEF Min
<1>2. Early \in {None, "reload", "list-families", "list-ecus"}
    <2> DEFINE names == <<"reload", "list-families", "list-ecus">>
               T == {i \in DOMAIN names : Given(names[i])}
    <2>1. T \in SUBSET (1..3)
        OBVIOUS
    <2>2. T # {} => Min(T) \in 1..3
        <3> HIDE DEF T
        <3> QED BY <1>1, <2>1
    <2>3. \A i \in 1..3 : names[i] \in {"reload", "list-families", "list-ecus"}
        OBVIOUS
    <2>4. Early = IF T = {} THEN None ELSE names[Min(T)]
        BY DEF Early, FirstGiven
    <2> HIDE DEF T, names
    <2> QED BY <2>2, <2>3, <2>4
<1>3. Late \in {None, "probe-all", "list-operations", "run-operation", "query",
                "probe", "data-log"}
    <2> DEFINE names == <<"probe-all", "list-operations", "run-operation", "query",
                          "probe", "data-log">>
               T == {i \in DOMAIN names : Given(names[i])}
    <2>1. T \in SUBSET (1..6)
        OBVIOUS
    <2>2. T # {} => Min(T) \in 1..6
        <3> HIDE DEF T
        <3> QED BY <1>1, <2>1
    <2>3. \A i \in 1..6 : names[i] \in {"probe-all", "list-operations",
                               "run-operation", "query", "probe", "data-log"}
        OBVIOUS
    <2>4. Late = IF T = {} THEN None ELSE names[Min(T)]
        BY DEF Late, FirstGiven
    <2> HIDE DEF T, names
    <2> QED BY <2>2, <2>3, <2>4
<1> QED BY <1>2, <1>3

LEMMA LateKept == ASSUME call' = call PROVE Early' = Early /\ Late' = Late
BY DEF Early, Late, FirstGiven, Given

LEMMA DatabasesOpened ==
    ASSUME call \in Invocations, NEW p
    PROVE  DatabaseAt(p) \in Databases
BY CommandsAssumption DEF CommandsAssumption, DatabaseAt

LEMMA StartTurn ==
    ASSUME InTurn, RefuseOptions \/ SerialSetup \/ NoPort \/ InitializeManager
                   \/ DispatchEarly \/ RefuseEcu \/ DispatchLate
    PROVE  InTurn'
BY EarlyKnown DEF InTurn, Going, Phases, Ended, Asking, RefuseOptions, SerialSetup, NoPort,
   InitializeManager, DispatchEarly, RefuseEcu, DispatchLate, Proceed, Goto, workVars,
   loadVars, vars, otherVars
LEMMA LoaderTurn ==
    ASSUME InTurn, ConstructNext \/ Loading \/ Constructed
                   \/ ConstructorThrows \/ AllConstructed
    PROVE  InTurn'
<1>1. CASE ConstructNext
    BY <1>1 DEF InTurn, Going, Phases, Ended, Asking, ConstructNext, Construct, commandVars, workVars, loadVars
<1>2. CASE Loading
    BY <1>2 DEF InTurn, Going, Phases, Ended, Asking, Loading, commandVars, workVars, loadVars,
       LoadStep, RefuseModule, VisitModule, SkipRow, TakeRow, WalkUp, StoreOp, NextModule, Finish
<1>3. CASE Constructed
    BY <1>3 DEF InTurn, Going, Phases, Ended, Asking, Constructed
<1>4. CASE ConstructorThrows \/ AllConstructed
    BY <1>4 DEF InTurn, Going, Phases, Ended, Asking, ConstructorThrows, AllConstructed,
       Proceed, Goto, workVars, loadVars, vars
<1> QED BY <1>1, <1>2, <1>3, <1>4
LEMMA ListingTurn ==
    ASSUME InTurn, Reload \/ ListFamilies \/ ListEcus \/ PrintEcus
                    \/ ListOperations \/ PrintOperations
    PROVE  InTurn'
BY DEF InTurn, Going, Phases, Ended, Asking, Reload, ListFamilies, ListEcus, PrintEcus,
   ListOperations, PrintOperations, ConstructAll, Proceed, Goto, workVars,
   loadVars, vars, otherVars
LEMMA FindingTurn ==
    ASSUME InTurn, NotOpen \/ RawQuery \/ ProbeAll \/ StartFinding \/ Find
                    \/ NothingFound \/ Identify
    PROVE  InTurn'
BY DEF InTurn, Going, Phases, Ended, Asking, NotOpen, RawQuery, ProbeAll, StartFinding, Find,
   NothingFound, Identify, AfterFinding, ConstructAll, Proceed, Goto, workVars,
   loadVars, vars
LEMMA RunningTurn ==
    ASSUME InTurn, RunOperation \/ ChooseAddress \/ Iterate \/ Execute \/ ExecuteDone
    PROVE  InTurn'
BY DEF InTurn, Going, Phases, Ended, Asking, RunOperation, ChooseAddress, Iterate, Execute,
   ExecuteDone, ConstructAll, Proceed, Goto, workVars, loadVars, vars
LEMMA LoggingTurn ==
    ASSUME InTurn, StartLog \/ ReadSpecification \/ Located \/ AddEntry
                    \/ WriteHeader \/ StartRound \/ ExecuteEntry \/ WriteLine
    PROVE  InTurn'
BY DEF InTurn, Going, Phases, Ended, Asking, StartLog, ReadSpecification, Located, AddEntry,
   WriteHeader, StartRound, ExecuteEntry, WriteLine, ConstructAll, Proceed, Goto, workVars,
   loadVars, vars

(* KnownAddresses: every rank is that of one address.                      *)
LEMMA SortedAddresses ==
    ASSUME NEW all \in SUBSET (0..255)
    PROVE  [i \in 1..Cardinality(all) |->
               CHOOSE a \in all : Cardinality({b \in all : b < a}) = i - 1] \in Seq(0..255)
<1> DEFINE n == Cardinality(all)
           below(a) == {b \in all : b < a}
           rank == [a \in all |-> Cardinality(below(a))]
<1>1. IsFiniteSet(all) /\ n \in Nat
    <2>1. IsFiniteSet(0..255)
        <3>1. PICK k \in Int : k = 255
            OBVIOUS
        <3>2. IsFiniteSet(0..k)
            BY FS_Interval
        <3> QED BY <3>1, <3>2
    <2>2. IsFiniteSet(all)
        BY <2>1, FS_Subset
    <2> QED BY <2>2, FS_CardinalityType
<1>2. \A a \in all : IsFiniteSet(below(a)) /\ Cardinality(below(a)) \in Nat
    BY <1>1, FS_Subset, FS_CardinalityType
<1>3. ASSUME NEW a \in all PROVE rank[a] \in 0..(n - 1)
    <2>1. below(a) \in SUBSET all /\ below(a) # all
        OBVIOUS
    <2>2. Cardinality(below(a)) <= n /\ Cardinality(below(a)) # n
        BY <1>1, <2>1, FS_Subset
    <2> QED BY <1>1, <1>2, <2>2
<1>4. ASSUME NEW a \in all, NEW c \in all, a < c PROVE rank[a] # rank[c]
    <2>0. a \in Int /\ c \in Int /\ \A b \in all : b \in Int
        OBVIOUS
    <2>1. below(a) \in SUBSET below(c) /\ a \in below(c) /\ a \notin below(a)
        <3>1. \A b \in below(a) : b \in below(c)
            BY <1>4, <2>0
        <3>2. a \in below(c) /\ a \notin below(a)
            BY <1>4, <2>0
        <3> HIDE DEF below
        <3> QED BY <3>1, <3>2
    <2>2. Cardinality(below(a)) # Cardinality(below(c))
        <3> HIDE DEF below
        <3> QED BY <1>2, <2>1, FS_Subset
    <2> QED BY <2>2
<1>5. \A a, c \in all : rank[a] = rank[c] => a = c
    <2> HIDE DEF rank
    <2>1. \A a, c \in all : a # c => a < c \/ c < a
        OBVIOUS
    <2> QED BY <1>4, <2>1
<1>6. IsFiniteSet(0..(n - 1)) /\ Cardinality(0..(n - 1)) = n
    <2> HIDE DEF n
    <2>1. 0 \in Int /\ n - 1 \in Int /\ (0 > n - 1 => n = 0) /\ (n - 1) - 0 + 1 = n
        BY <1>1
    <2> QED BY <2>1, FS_Interval
<1>7. rank \in Injection(all, 0..(n - 1))
    <2>1. rank \in [all -> 0..(n - 1)]
        BY <1>3
    <2> HIDE DEF rank
    <2> QED BY <1>5, <2>1 DEF Injection, IsInjective
<1>8. rank \in Surjection(all, 0..(n - 1))
    <2> HIDE DEF rank, n
    <2> QED BY <1>6, <1>7, FS_Injection DEF n
<1>9. ASSUME NEW i \in 1..n
      PROVE  (CHOOSE a \in all : Cardinality(below(a)) = i - 1) \in 0..255
    <2>1. i - 1 \in 0..(n - 1)
        BY <1>1
    <2>2. \E a \in all : rank[a] = i - 1
        BY <1>8, <2>1 DEF Surjection
    <2>3. \E a \in all : Cardinality(below(a)) = i - 1
        BY <2>2
    <2> QED BY <2>3
<1> DEFINE s == [i \in 1..n |-> CHOOSE a \in all : Cardinality(below(a)) = i - 1]
<1>10. s \in [1..n -> 0..255]
    <2> HIDE DEF below, n
    <2> QED BY <1>9
<1>11. s \in Seq(0..255)
    <2> HIDE DEF s, n
    <2> QED BY <1>1, <1>10
<1> QED BY <1>11

LEMMA ElementsOfSeq ==
    ASSUME NEW S, NEW s \in Seq(S)
    PROVE  ToSet(s) \in SUBSET S
<1>1. \A i \in DOMAIN s : s[i] \in S
    BY ElementOfSeq, LenProperties
<1> QED BY <1>1 DEF ToSet

LEMMA AddressesKnown ==
    ASSUME call \in Invocations
    PROVE  /\ KnownAddresses \in Seq(0..255) /\ EcuAddresses \in Seq(0..255)
           /\ \A f : AddressForFamily(f) \in Seq(0..255)
<1>0. \A f \in KnownFamilies : FamilyDictionary[f] \in Seq(0..255)
    BY CommandsAssumption DEF CommandsAssumption, KnownFamilies
<1>1. \A f : AddressForFamily(f) \in Seq(0..255)
    BY <1>0 DEF AddressForFamily
<1>2. KnownAddresses \in Seq(0..255)
    <2>1. \A f \in KnownFamilies : ToSet(FamilyDictionary[f]) \in SUBSET (0..255)
        BY <1>0, ElementsOfSeq
    <2>2. UNION {ToSet(FamilyDictionary[f]) : f \in KnownFamilies} \in SUBSET (0..255)
        BY <2>1
    <2> QED BY <2>2, SortedAddresses DEF KnownAddresses
<1>3. EcuAddresses \in Seq(0..255)
    <2>1. call.ecu.kind = "number" => call.ecu.value % 256 \in 0..255
        <3> SUFFICES ASSUME call.ecu.kind = "number" PROVE call.ecu.value % 256 \in 0..255
            OBVIOUS
        <3>1. PICK n \in Nat : n = call.ecu.value
            BY CommandsAssumption DEF CommandsAssumption
        <3>2. n % 256 \in 0..255
            OBVIOUS
        <3> QED BY <3>1, <3>2
    <2>2. \A x \in 0..255 : <<x>> \in Seq(0..255)
        OBVIOUS
    <2>3. <<>> \in Seq(0..255)
        OBVIOUS
    <2>4. CASE call.ecu.kind \in {"none", "uuid"}
        BY <2>3, <2>4 DEF EcuAddresses
    <2>5. CASE call.ecu.kind = "number"
        <3>1. EcuAddresses = <<call.ecu.value % 256>>
            BY <2>5 DEF EcuAddresses
        <3> QED BY <2>1, <2>2, <2>5, <3>1
    <2>6. CASE call.ecu.kind \notin {"none", "uuid", "number"}
        <3>1. EcuAddresses = AddressForFamily(call.ecu.value)
            BY <2>6 DEF EcuAddresses
        <3> QED BY <1>1, <3>1
    <2> QED BY <2>4, <2>5, <2>6
<1> QED BY <1>1, <1>2, <1>3

LEMMA TailKept ==
    ASSUME addresses \in Seq(0..255), addresses # <<>>
    PROVE  Tail(addresses) \in Seq(0..255)
BY HeadTailProperties

LEMMA Numbers ==
    ASSUME call \in Invocations
    PROVE  call.iterate \in Int /\ Len(call.specs) \in Nat
<1>1. call.iterate \in Int /\ call.specs \in Seq(ToSet(call.specs))
    BY CommandsAssumption DEF CommandsAssumption
<1> QED BY <1>1, LenProperties

(* Steps that leave the numbers alone.                                     *)
LEMMA CountingKept ==
    ASSUME Counting, UNCHANGED <<call, fd, addresses, left>>,
           Going' \in {"probe", "run-operation", "find", "located", "entry"} =>
              Going' = Going
    PROVE  Counting'
<1>1. Late' = Late
    BY LateKept
<1> HIDE DEF Going, Late
<1> QED BY <1>1 DEF Counting

LEMMA StartCounts ==
    ASSUME InTurn, Counting, RefuseOptions \/ SerialSetup \/ NoPort \/ InitializeManager
                             \/ DispatchEarly \/ RefuseEcu \/ DispatchLate
    PROVE  Counting'
<1>1. CASE SerialSetup
    BY <1>1, LateKept DEF Counting, Going, SerialSetup, Goto, workVars, findVars, PortFd
<1>2. CASE DispatchLate
    <2>1. addresses' \in Seq(0..255) /\ fd' = fd /\ left' = left /\ call' = call
        BY <1>2, AddressesKnown DEF InTurn, DispatchLate, Goto
    <2>2. Going' = (IF Late = None THEN "done" ELSE Late)
        BY <1>2, EarlyKnown DEF DispatchLate, Goto, Going
    <2>3. Late' = Late
        BY <2>1, LateKept
    <2> HIDE DEF Going, Late
    <2> QED BY <2>1, <2>2, <2>3, EarlyKnown DEF Counting
<1>3. CASE RefuseOptions \/ NoPort \/ InitializeManager \/ DispatchEarly \/ RefuseEcu
    <2>1. UNCHANGED <<call, fd, addresses, left>>
        BY <1>3 DEF RefuseOptions, NoPort, InitializeManager, DispatchEarly, RefuseEcu,
           Proceed, Goto, workVars, findVars
    <2>2. Going' \in {"usage", "open", "dispatch", "aborted", "reload", "list-families",
                      "list-ecus"}
        BY <1>3, EarlyKnown DEF RefuseOptions, NoPort, InitializeManager, DispatchEarly,
           RefuseEcu, Proceed, Goto, Going
    <2> QED BY <2>1, <2>2, CountingKept
<1> QED BY <1>1, <1>2, <1>3

LEMMA ListingCounts ==
    ASSUME Counting, Reload \/ ListFamilies \/ ListEcus \/ PrintEcus
                     \/ ListOperations \/ PrintOperations
    PROVE  Counting'
<1>1. UNCHANGED <<call, fd, addresses, left>>
    BY DEF Reload, ListFamilies, ListEcus, PrintEcus, ListOperations, PrintOperations,
       Proceed, Goto, workVars, findVars
<1>2. Going' \in {"done", "aborted", "usage", "print-ecus", "print-operations"}
    BY DEF Reload, ListFamilies, ListEcus, PrintEcus, ListOperations, PrintOperations,
       ConstructAll, Proceed, Goto, Going
<1> QED BY <1>1, <1>2, CountingKept

LEMMA LoaderCounts ==
    ASSUME InTurn, Counting, ConstructNext \/ Loading \/ Constructed
                             \/ ConstructorThrows \/ AllConstructed
    PROVE  Counting'
<1>1. UNCHANGED <<call, fd, addresses, left>>
    BY DEF ConstructNext, Loading, Constructed, ConstructorThrows, AllConstructed,
       Proceed, Goto, commandVars, workVars, findVars
<1>2. Going' = Going \/ Going' = "aborted"
    BY DEF ConstructNext, Loading, Constructed, ConstructorThrows, AllConstructed,
       Proceed, Goto, commandVars, InTurn, Going
<1> QED BY <1>1, <1>2, CountingKept

LEMMA FindingCounts ==
    ASSUME InTurn, Counting, NotOpen \/ RawQuery \/ ProbeAll \/ StartFinding \/ Find
                             \/ NothingFound \/ Identify
    PROVE  Counting'
<1>1. CASE ProbeAll
    <2>1. addresses' \in Seq(0..255) /\ UNCHANGED <<call, fd, left>>
        BY <1>1, TailKept DEF Counting, ProbeAll, Proceed, Goto, workVars, findVars
    <2>2. Going' \in {"done", "probe-all", "aborted"}
        BY <1>1 DEF ProbeAll, Proceed, Goto, Going
    <2> HIDE DEF Going
    <2> QED BY <2>1, <2>2 DEF Counting
<1>2. CASE Find
    <2>1. /\ UNCHANGED <<call, fd, left>> /\ Going = "find"
          /\ addresses' = <<>> \/ (addresses # <<>> /\ addresses' = Tail(addresses))
        BY <1>2 DEF Find, ConstructAll, Goto, Going
    <2>2. Going' \in {"find", "aborted", AfterFinding}
        BY <1>2 DEF Find, ConstructAll, Goto, Going
    <2>3. /\ Late = "probe" => AfterFinding = "identify"
          /\ Late = "run-operation" => AfterFinding = "iterate"
          /\ AfterFinding \in {"identify", "iterate", "located"}
        BY DEF AfterFinding
    <2>4. Late' = Late
        BY <2>1, LateKept
    <2>5. addresses' \in Seq(0..255)
        <3>1. <<>> \in Seq(0..255)
            OBVIOUS
        <3> QED BY <2>1, <3>1, TailKept DEF Counting
    <2> HIDE DEF Going, Late
    <2> QED BY <2>1, <2>2, <2>3, <2>4, <2>5 DEF Counting
<1>3. CASE NotOpen \/ RawQuery \/ NothingFound \/ Identify
    <2>1. UNCHANGED <<call, fd, addresses, left>>
        BY <1>3 DEF NotOpen, RawQuery, NothingFound, Identify, Proceed, Goto, workVars, findVars
    <2>2. Going' \in {"done", "aborted"}
        BY <1>3 DEF NotOpen, RawQuery, NothingFound, Identify, Proceed, Goto, Going
    <2> QED BY <2>1, <2>2, CountingKept
<1>4. CASE StartFinding
    <2>1. /\ UNCHANGED <<call, fd, addresses, left>>
          /\ Going = "probe" /\ Going' = "find"
        BY <1>4 DEF StartFinding, Proceed, Goto, workVars, findVars, Going
    <2>2. Late' = Late
        BY <2>1, LateKept
    <2> HIDE DEF Going, Late
    <2> QED BY <2>1, <2>2 DEF Counting
<1> QED BY <1>1, <1>2, <1>3, <1>4

LEMMA RunningCounts ==
    ASSUME InTurn, Counting, RunOperation \/ ChooseAddress \/ Iterate \/ Execute
                             \/ ExecuteDone
    PROVE  Counting'
BY LateKept, Numbers DEF Counting, InTurn, Going, RunOperation, ChooseAddress, Iterate,
   Execute, ExecuteDone, ConstructAll, Proceed, Goto, workVars, findVars

LEMMA LoggingCounts ==
    ASSUME InTurn, Counting, StartLog \/ ReadSpecification \/ Located \/ AddEntry
                             \/ WriteHeader \/ StartRound \/ ExecuteEntry \/ WriteLine
    PROVE  Counting'
<1>1. CASE StartLog
    BY <1>1, LateKept, Numbers DEF InTurn, Counting, StartLog, Goto, Going, findVars
<1>2. CASE ReadSpecification
    <2>1. left > 0 /\ UNCHANGED <<call, fd, left>>
        BY <1>2 DEF ReadSpecification, Proceed, Goto, workVars
    <2>2. addresses' \in Seq(0..255)
        BY <1>2, AddressesKnown DEF InTurn, Counting, ReadSpecification, Proceed, Goto,
           workVars, findVars
    <2>3. Going' \in {"usage", "find", "entry"}
        BY <1>2 DEF ReadSpecification, Proceed, Goto, Going
    <2>4. Late' = Late
        BY <2>1, LateKept
    <2> HIDE DEF Going, Late
    <2> QED BY <2>1, <2>2, <2>3, <2>4 DEF Counting
<1>3. CASE Located
    BY <1>3, LateKept DEF Counting, Located, Goto, Going, findVars
<1>4. CASE AddEntry
    BY <1>4, LateKept DEF Counting, AddEntry, Goto, Going, findVars
<1>5. CASE WriteHeader \/ StartRound \/ ExecuteEntry \/ WriteLine
    <2>1. UNCHANGED <<call, fd, addresses, left>>
        BY <1>5 DEF WriteHeader, StartRound, ExecuteEntry, WriteLine, Proceed, Goto,
           workVars, findVars
    <2>2. Going' \in {"line", "aborted", "round"}
        BY <1>5 DEF WriteHeader, StartRound, ExecuteEntry, WriteLine, Proceed, Goto, Going
    <2> QED BY <2>1, <2>2, CountingKept
<1> QED BY <1>1, <1>2, <1>3, <1>4, <1>5

(* Steps that leave what has been found alone.                             *)
HasFound == {"identify", "iterate", "execute", "located", "choose"}
LEMMA KnownKept ==
    ASSUME Known, UNCHANGED <<found, ecus>>, DOMAIN loaded \subseteq DOMAIN loaded',
           Going' \in HasFound => Going \in HasFound,
           DOMAIN loaded \cup queue \subseteq DOMAIN loaded' \cup queue'
    PROVE  Known'
<1> HIDE DEF Going
<1> QED BY DEF Known, HasFound

LEMMA StartKnows ==
    ASSUME Known, RefuseOptions \/ SerialSetup \/ NoPort \/ InitializeManager
                  \/ DispatchEarly \/ RefuseEcu \/ DispatchLate
    PROVE  Known'
<1>1. UNCHANGED <<found, ecus, loaded, queue>>
    BY DEF RefuseOptions, SerialSetup, NoPort, InitializeManager, DispatchEarly, RefuseEcu,
       DispatchLate, Proceed, Goto, workVars, findVars, loadVars, logVars
<1>2. Going' \notin HasFound
    BY EarlyKnown DEF RefuseOptions, SerialSetup, NoPort, InitializeManager, DispatchEarly,
       RefuseEcu, DispatchLate, Proceed, Goto, Going, HasFound
<1> QED BY <1>1, <1>2, KnownKept

LEMMA LoaderKnows ==
    ASSUME InTurn, Known, ConstructNext \/ Loading \/ Constructed
                          \/ ConstructorThrows \/ AllConstructed
    PROVE  Known'
<1>1. UNCHANGED <<found, ecus>>
    BY DEF ConstructNext, Loading, Constructed, ConstructorThrows, AllConstructed,
       Proceed, Goto, commandVars, workVars, findVars, logVars
<1>2. Going' = Going \/ Going' = "aborted"
    BY DEF ConstructNext, Loading, Constructed, ConstructorThrows, AllConstructed,
       Proceed, Goto, commandVars, InTurn, Going
<1>3. \/ UNCHANGED <<loaded, queue>>
      \/ DOMAIN loaded' = DOMAIN loaded \cup {self} /\ queue' = queue \ {self}
    BY DEF ConstructNext, Loading, Constructed, ConstructorThrows, AllConstructed,
       Proceed, Goto, commandVars, workVars, loadVars, QueueAfter
<1> QED BY <1>1, <1>2, <1>3, KnownKept DEF HasFound

LEMMA ListingKnows ==
    ASSUME InTurn, Known, Reload \/ ListFamilies \/ ListEcus \/ PrintEcus
                  \/ ListOperations \/ PrintOperations
    PROVE  Known'
<1>1. UNCHANGED <<found, ecus, loaded>>
    BY DEF Reload, ListFamilies, ListEcus, PrintEcus, ListOperations, PrintOperations,
       Proceed, Goto, workVars, findVars, loadVars, logVars
<1>2. Going' \notin HasFound
    BY DEF Reload, ListFamilies, ListEcus, PrintEcus, ListOperations, PrintOperations,
       ConstructAll, Proceed, Goto, Going, HasFound
<1>3. queue = {}
    BY DEF InTurn, Reload, ListFamilies, ListEcus, PrintEcus, ListOperations, PrintOperations
<1> QED BY <1>1, <1>2, <1>3, KnownKept

LEMMA FindingKnows ==
    ASSUME InTurn, Known, NotOpen \/ RawQuery \/ ProbeAll \/ StartFinding \/ Find
                          \/ NothingFound \/ Identify
    PROVE  Known'
BY DEF Known, InTurn, Going, NotOpen, RawQuery, ProbeAll, StartFinding, Find, NothingFound,
   Identify, AfterFinding, ConstructAll, Proceed, Goto, workVars, findVars, loadVars, logVars

LEMMA RunningKnows ==
    ASSUME InTurn, Known, RunOperation \/ ChooseAddress \/ Iterate \/ Execute
                          \/ ExecuteDone
    PROVE  Known'
BY DEF Known, InTurn, Going, RunOperation, ChooseAddress, Iterate, Execute, ExecuteDone,
   ConstructAll, Proceed, Goto, workVars, findVars, loadVars, logVars

LEMMA LoggingKnows ==
    ASSUME InTurn, Known, StartLog \/ ReadSpecification \/ Located \/ AddEntry
                          \/ WriteHeader \/ StartRound \/ ExecuteEntry \/ WriteLine
    PROVE  Known'
<1>1. UNCHANGED loaded
    BY DEF StartLog, ReadSpecification, Located, AddEntry, WriteHeader, StartRound,
       ExecuteEntry, WriteLine, Proceed, Goto, workVars, loadVars
<1>2. Going' \notin HasFound
    BY DEF StartLog, ReadSpecification, Located, AddEntry, WriteHeader, StartRound,
       ExecuteEntry, WriteLine, Proceed, Goto, Going, HasFound
<1>3. CASE Located
    <2>1. found \in DOMAIN loaded /\ queue = {}
        BY <1>3 DEF Known, InTurn, Located, Going
    <2>2. \A n \in DOMAIN ecus' :
             ecus'[n] = found \/ (n \in DOMAIN ecus /\ ecus'[n] = ecus[n])
        <3> DEFINE name == Specification.ecu
        <3>1. ecus' = [n \in DOMAIN ecus \cup {name} |-> IF n = name THEN found ELSE ecus[n]]
            BY <1>3 DEF Located
        <3> HIDE DEF name
        <3> QED BY <3>1
    <2>3. \A n \in DOMAIN ecus' : ecus'[n] \in DOMAIN loaded
        BY <2>1, <2>2 DEF Known
    <2> HIDE DEF Going
    <2> QED BY <1>1, <1>2, <2>3 DEF Known, HasFound
<1>4. CASE ~Located
    <2>1. UNCHANGED <<found, ecus>>
        BY <1>4 DEF StartLog, ReadSpecification, AddEntry, WriteHeader, StartRound,
           ExecuteEntry, WriteLine, Proceed, Goto, workVars, findVars, logVars
    <2>2. queue = {}
        BY DEF InTurn, StartLog, ReadSpecification, Located, AddEntry, WriteHeader,
           StartRound, ExecuteEntry, WriteLine
    <2> QED BY <1>1, <1>2, <2>1, <2>2, KnownKept
<1> QED BY <1>3, <1>4

-----------------------------------------------------------------------------
CommandsInv == LoadInv /\ InTurn /\ Counting /\ Known

LEMMA CommandLoads ==
    ASSUME CommandsInv, CommandsNext
    PROVE  LoadInv'
<1>1. CASE Loading
    BY <1>1, LoadStepLoads DEF Loading, CommandsInv
<1>2. CASE ConstructNext
    BY <1>2, ConstructLoads DEF ConstructNext, CommandsInv
<1>3. CASE UNCHANGED vars
    BY <1>3, LoadStutters DEF CommandsInv
<1>4. CASE BetweenLoads
    <2>1. /\ stage \in {"idle", "done"} /\ stage' = "idle"
          /\ UNCHANGED <<self, module, protocol, rows, row, op, walk, ops>>
        BY <1>4 DEF BetweenLoads, CommandsInv, InTurn
    <2>2. db' \in Databases
        BY <1>4, DatabasesOpened DEF BetweenLoads, CommandsInv, InTurn, LoadInv, Types
    <2>3. rows = {}
        BY <2>1 DEF CommandsInv, LoadInv, Types
    <2>4. Types'
        BY <2>1, <2>2, <2>3 DEF CommandsInv, LoadInv, Types
    <2>5. PriorityInv'
        BY <2>1, KeptAsIs DEF CommandsInv, LoadInv
    <2>6. MergeInv' /\ CommandInv'
        BY <2>1 DEF MergeInv, CommandInv, Busy
    <2> QED BY <2>4, <2>5, <2>6 DEF LoadInv
<1> QED BY <1>1, <1>2, <1>3, <1>4, OutsideTheLoader

LEMMA CommandStep ==
    ASSUME CommandsInv, CommandsNext
    PROVE  CommandsInv'
<1>1. LoadInv'
    BY CommandLoads
<1>2. InTurn /\ Counting /\ Known
    BY DEF CommandsInv
<1>3. InTurn'
    BY <1>2, StartTurn, LoaderTurn, ListingTurn, FindingTurn, RunningTurn, LoggingTurn
       DEF CommandsNext
<1>4. Counting'
    BY <1>2, StartCounts, LoaderCounts, ListingCounts, FindingCounts, RunningCounts,
       LoggingCounts DEF CommandsNext
<1>5. Known'
    BY <1>2, StartKnows, LoaderKnows, ListingKnows, FindingKnows, RunningKnows,
       LoggingKnows DEF CommandsNext
<1> QED BY <1>1, <1>3, <1>4, <1>5 DEF CommandsInv

LEMMA CommandsBegin == CommandsInit => CommandsInv
<1> SUFFICES ASSUME CommandsInit PROVE CommandsInv
    OBVIOUS
<1>1. LoadInv
    BY LoadInit DEF CommandsInit
<1>2. InTurn /\ Known
    BY DEF CommandsInit, Init, InTurn, Known, Going, Phases, Ended, Asking
<1>3. Counting
    <2>1. addresses \in Seq(0..255)
        BY EmptySeq DEF CommandsInit
    <2> QED BY <2>1 DEF CommandsInit, Counting, Going
<1> QED BY <1>1, <1>2, <1>3 DEF CommandsInv

LEMMA CommandsIdle ==
    ASSUME CommandsInv, UNCHANGED allVars
    PROVE  CommandsInv'
<1>1. LoadInv'
    BY LoadStutters DEF CommandsInv, allVars
<1>2. UNCHANGED <<call, fd, phase, resume, queue, loaded, addresses, found, left, ecus,
                  self, stage>>
    BY DEF allVars, commandVars, workVars, loadVars, findVars, logVars, vars
<1>3. Going' = Going
    BY <1>2 DEF Going
<1>4. InTurn'
    BY <1>2 DEF CommandsInv, InTurn, Going, Phases
<1>5. Counting'
    BY <1>2, <1>3, CountingKept DEF CommandsInv
<1>6. Known'
    BY <1>2, <1>3, KnownKept DEF CommandsInv
<1> QED BY <1>1, <1>4, <1>5, <1>6 DEF CommandsInv

LEMMA CommandsInvHolds == CommandsSpec => []CommandsInv
<1>1. CommandsInv /\ [CommandsNext]_allVars => CommandsInv'
    BY CommandStep, CommandsIdle
<1> QED BY <1>1, CommandsBegin, PTL DEF CommandsSpec

LEMMA CommandsTyped == CommandsInv => CommandsTypeOK
<1> SUFFICES ASSUME CommandsInv PROVE CommandsTypeOK
    OBVIOUS
<1>1. phase \in {"identify", "iterate", "execute", "located"} => found \in DOMAIN loaded
    BY DEF CommandsInv, InTurn, Known, Going
<1>2. TypeOK
    BY LoadedTypeOK DEF CommandsInv
<1> QED BY <1>1, <1>2 DEF CommandsInv, InTurn, Counting, Known, Phases, CommandsTypeOK

(* run (ds2-dump.cpp): control units are constructed only where a          *)
(* constructor is called, and what a command goes on with is one that has  *)
(* been constructed.  The types of the loader hold in every command.       *)
THEOREM CommandsTypes == CommandsSpec => []CommandsTypeOK
BY CommandsInvHolds, CommandsTyped, PTL

(* The loader's theorems hold for every control unit of every command: its *)
(* operations and results are those of the nearest definition that has     *)
(* them (dpp-json/README.md), ...                                          *)
THEOREM CommandsLoadMerged == CommandsSpec => []MergedByPrecedence
<1>1. CommandsInv => MergedByPrecedence
    BY LoadedMerged DEF CommandsInv
<1> QED BY <1>1, CommandsInvHolds, PTL

(* ... and a command that is there is that of the nearest operation on the *)
(* chain of extension that gives one, and none is missing that an          *)
(* operation or the namesake it directly extends gives (loadByUuid).       *)
THEOREM CommandsLoadCommands == CommandsSpec => []CommandsAreNearest
<1>1. CommandsInv => CommandsAreNearest
    BY LoadedCommands DEF CommandsInv
<1> QED BY <1>1, CommandsInvHolds, PTL

-----------------------------------------------------------------------------
(* What is printed for the modules asked for, a row for each name, and how *)
(* listEcus gets there: it constructs those modules and no other.          *)
Listed ==
    /\ printed \subseteq {[uuid |-> m.uuid, name |-> m.name] : m \in Asked}
    /\ \A m \in Asked : \E r \in printed : r.name = m.name
ListInv ==
    Early = "list-ecus" =>
       /\ Going \in {"start", "open", "dispatch", "list-ecus", "print-ecus"} \cup Ended
       /\ phase = "construct" => resume = "print-ecus"
       /\ phase \in {"start", "open", "dispatch"} => DOMAIN loaded = {}
       /\ DOMAIN loaded \cup queue \subseteq {m.uuid : m \in Asked}
       /\ phase = "done" => Listed

LEMMA FamilyAsked == FamilyModules(call.family) = Asked
BY DEF FamilyModules, Asked

LEMMA PrintListed ==
    ASSUME CommandsInv, DOMAIN loaded \subseteq {m.uuid : m \in Asked}, PrintEcus
    PROVE  Listed'
<1>1. PICK sorted \in [{m.name : m \in Asked} -> DOMAIN loaded] :
         /\ \A n \in {m.name : m \in Asked} :
                \E m \in db.modules : m.uuid = sorted[n] /\ m.name = n
         /\ printed' = {[uuid |-> sorted[n], name |-> n] : n \in {m.name : m \in Asked}}
    BY FamilyAsked DEF PrintEcus
<1> DEFINE names == {m.name : m \in Asked}
<1>2. Asked' = Asked
    BY DEF PrintEcus, Goto, vars, Asked
<1>3. \A m, o \in db.modules : m.uuid = o.uuid => m = o
    BY Tables DEF CommandsInv, LoadInv, Types, Keyed
<1>4. ASSUME NEW n \in names
      PROVE  \E m \in Asked : m.uuid = sorted[n] /\ m.name = n
    <2>1. PICK o \in Asked : o.uuid = sorted[n]
        BY <1>1
    <2>2. PICK m \in db.modules : m.uuid = sorted[n] /\ m.name = n
        BY <1>1
    <2>3. m = o
        BY <1>3, <2>1, <2>2 DEF Asked
    <2> QED BY <2>1, <2>2, <2>3
<1>5. ASSUME NEW r \in printed'
      PROVE  r \in {[uuid |-> m.uuid, name |-> m.name] : m \in Asked}
    <2>1. PICK n \in names : r = [uuid |-> sorted[n], name |-> n]
        BY <1>1
    <2>2. PICK m \in Asked : m.uuid = sorted[n] /\ m.name = n
        BY <1>4
    <2> QED BY <2>1, <2>2
<1>6. ASSUME NEW m \in Asked PROVE \E r \in printed' : r.name = m.name
    <2>1. [uuid |-> sorted[m.name], name |-> m.name] \in printed'
        BY <1>1
    <2> QED BY <2>1
<1> QED BY <1>2, <1>5, <1>6 DEF Listed

LEMMA ListingStep ==
    ASSUME CommandsInv, ListInv, CommandsNext
    PROVE  ListInv'
<1>e. CASE Early # "list-ecus"
    <2>1. call' = call
        BY DEF CommandsNext, RefuseOptions, SerialSetup, NoPort, InitializeManager,
           DispatchEarly, RefuseEcu, DispatchLate, ConstructNext, Loading, Constructed,
           ConstructorThrows, AllConstructed, Reload, ListFamilies, ListEcus, PrintEcus,
           ListOperations, PrintOperations, NotOpen, RawQuery, ProbeAll, StartFinding, Find,
           NothingFound, Identify, RunOperation, ChooseAddress, Iterate, Execute,
           ExecuteDone, StartLog, ReadSpecification, Located, AddEntry, WriteHeader,
           StartRound, ExecuteEntry, WriteLine, Proceed, Goto, commandVars
    <2> QED BY <1>e, <2>1, LateKept DEF ListInv
<1> SUFFICES ASSUME Early = "list-ecus" PROVE ListInv'
    BY <1>e
<1>0. /\ None # "list-ecus" /\ InTurn
      /\ Going \in {"start", "open", "dispatch", "list-ecus", "print-ecus"} \cup Ended
      /\ phase = "construct" => resume = "print-ecus"
      /\ phase \in {"start", "open", "dispatch"} => DOMAIN loaded = {}
      /\ DOMAIN loaded \cup queue \subseteq {m.uuid : m \in Asked}
    BY CommandsAssumption DEF CommandsAssumption, ListInv, CommandsInv
<1>1. \/ RefuseOptions \/ SerialSetup \/ NoPort \/ InitializeManager \/ DispatchEarly
      \/ ListEcus \/ PrintEcus
      \/ ConstructNext \/ Loading \/ Constructed \/ ConstructorThrows \/ AllConstructed
    BY <1>0 DEF Going, Ended, Asking, CommandsNext, RefuseEcu, DispatchLate, Reload,
       ListFamilies, ListOperations, PrintOperations, NotOpen, RawQuery, ProbeAll,
       StartFinding, Find, NothingFound, Identify, RunOperation, ChooseAddress, Iterate,
       Execute, ExecuteDone, StartLog, ReadSpecification, Located, AddEntry, WriteHeader,
       StartRound, ExecuteEntry, WriteLine
<1>2. CASE RefuseOptions \/ SerialSetup \/ NoPort \/ DispatchEarly
    <2>1. UNCHANGED <<call, db, loaded, queue>> /\ DOMAIN loaded = {}
        BY <1>0, <1>2 DEF RefuseOptions, SerialSetup, NoPort, DispatchEarly, Proceed, Goto,
           workVars, loadVars, vars
    <2>2. /\ phase' \notin {"done", "construct"}
          /\ Going' \in {"open", "dispatch", "list-ecus"} \cup Ended
        BY <1>2 DEF RefuseOptions, SerialSetup, NoPort, DispatchEarly, Proceed, Goto,
           Going, Ended
    <2>3. Asked' = Asked
        BY <2>1 DEF Asked
    <2> QED BY <1>0, <2>1, <2>2, <2>3 DEF ListInv
<1>3. CASE InitializeManager
    <2>1. /\ UNCHANGED <<call, loaded, queue>> /\ DOMAIN loaded = {} /\ queue = {}
          /\ phase' \in {"dispatch", "aborted"}
        BY <1>0, <1>3 DEF InTurn, InitializeManager, Proceed, Goto, workVars, loadVars
    <2> QED BY <1>0, <2>1 DEF ListInv, Going, Ended
<1>4. CASE ListEcus
    <2>1. /\ UNCHANGED <<call, db, loaded>>
          /\ \/ phase' = "construct" /\ resume' = "print-ecus"
                /\ queue' = {m.uuid : m \in Asked}
             \/ phase' = "usage" /\ queue' = queue
        BY <1>4, FamilyAsked DEF ListEcus, ConstructAll, Proceed, Goto, workVars, loadVars, vars
    <2>2. Asked' = Asked
        BY <2>1 DEF Asked
    <2> QED BY <1>0, <2>1, <2>2 DEF ListInv, Going, Ended
<1>5. CASE PrintEcus
    <2>1. UNCHANGED <<call, db, loaded, queue>> /\ phase' = "done"
        BY <1>5 DEF PrintEcus, Goto, loadVars, vars
    <2>2. Listed'
        BY <1>0, <1>5, PrintListed
    <2>3. Asked' = Asked
        BY <2>1 DEF Asked
    <2> QED BY <1>0, <2>1, <2>2, <2>3 DEF ListInv, Going, Ended
<1>6. CASE ConstructNext \/ Loading \/ Constructed \/ ConstructorThrows \/ AllConstructed
    <2>1. UNCHANGED <<call, db>>
        BY <1>6 DEF ConstructNext, Construct, Loading, LoadStep, RefuseModule, VisitModule,
           SkipRow, TakeRow, WalkUp, StoreOp, NextModule, Finish, Constructed,
           ConstructorThrows, AllConstructed, Proceed, Goto, commandVars, vars
    <2>2. phase = "construct" /\ phase' \in {"construct", "aborted", resume}
          /\ resume' = resume
        BY <1>6 DEF ConstructNext, Loading, Constructed, ConstructorThrows, AllConstructed,
           Proceed, Goto, commandVars
    <2>3. \/ UNCHANGED <<loaded, queue>>
          \/ DOMAIN loaded' = DOMAIN loaded \cup {self} /\ queue' = queue \ {self}
             /\ self \in queue
        BY <1>0, <1>6 DEF InTurn, ConstructNext, Loading, Constructed, ConstructorThrows,
           AllConstructed, Proceed, Goto, commandVars, workVars, loadVars, QueueAfter
    <2>4. Asked' = Asked
        BY <2>1 DEF Asked
    <2> QED BY <1>0, <2>2, <2>3, <2>4 DEF ListInv, Going, Ended
<1> QED BY <1>1, <1>2, <1>3, <1>4, <1>5, <1>6

(* No two of the modules asked for share a name.                           *)
NamesDiffer == \A m, o \in Asked : m.name = o.name => m = o

LEMMA ListedAll ==
    ASSUME Listed, NamesDiffer
    PROVE  printed = {[uuid |-> m.uuid, name |-> m.name] : m \in Asked}
<1>1. ASSUME NEW m \in Asked PROVE [uuid |-> m.uuid, name |-> m.name] \in printed
    <2>1. PICK r \in printed : r.name = m.name
        BY DEF Listed
    <2>2. PICK o \in Asked : r = [uuid |-> o.uuid, name |-> o.name]
        BY DEF Listed
    <2>3. o = m
        BY <2>1, <2>2 DEF NamesDiffer
    <2> QED BY <2>2, <2>3
<1> QED BY <1>1 DEF Listed

(* listEcus (ds2-dump.cpp), for every database, family and order of the    *)
(* hash: when no two modules asked for share a name, every one of them is  *)
(* printed, and nothing else.                                              *)
THEOREM ListingsComplete == CommandsSpec => [](NamesDiffer => ListingComplete)
<1>1. CommandsInit => ListInv
    BY DEF CommandsInit, ListInv, Going
<1>2. CommandsInv /\ ListInv /\ [CommandsNext]_allVars => ListInv'
    <2> SUFFICES ASSUME CommandsInv, ListInv, [CommandsNext]_allVars PROVE ListInv'
        OBVIOUS
    <2>1. CASE UNCHANGED allVars
        <3>1. UNCHANGED <<call, phase, resume, loaded, queue, db, printed>>
            BY <2>1 DEF allVars, commandVars, workVars, loadVars, vars
        <3>2. Asked' = Asked /\ Going' = Going /\ Early' = Early
            BY <3>1, LateKept DEF Asked, Going
        <3> HIDE DEF Asked, Going, Early
        <3> QED BY <3>1, <3>2 DEF ListInv, Listed
    <2> QED BY <2>1, ListingStep
<1>3. ListInv => (NamesDiffer => ListingComplete)
    BY ListedAll DEF ListInv, ListingComplete
<1> QED BY <1>1, <1>2, <1>3, CommandsInvHolds, PTL DEF CommandsSpec

-----------------------------------------------------------------------------
(* Sequences: FlattenSeq and SetToSeq.                                     *)

(* What FlattenSeq has put together after each of its sequences.           *)
Flattened(seqs) ==
    LET flatten[i \in 1..Len(seqs)] ==
            IF i = 1 THEN seqs[i] ELSE flatten[i-1] \o seqs[i]
    IN  flatten

LEMMA FlattenExists ==
    ASSUME NEW seqs, NEW n \in Nat
    PROVE  \E f : f = [i \in 1..n |-> IF i = 1 THEN seqs[i] ELSE f[i-1] \o seqs[i]]
<1> DEFINE Is(f, k) == f = [i \in 1..k |-> IF i = 1 THEN seqs[i] ELSE f[i-1] \o seqs[i]]
           S == {k \in Nat : \E f : Is(f, k)}
<1>1. 0 \in S
    <2>1. Is([i \in {} |-> <<>>], 0)
        OBVIOUS
    <2> QED BY <2>1
<1>2. ASSUME NEW k \in Nat, k \in S PROVE k + 1 \in S
    <2>1. PICK f : Is(f, k)
        BY <1>2
    <2> DEFINE h == [i \in 1..(k + 1) |-> IF i <= k THEN f[i]
                                          ELSE IF i = 1 THEN seqs[i] ELSE f[k] \o seqs[i]]
    <2>2. \A i \in 1..k : f[i] = IF i = 1 THEN seqs[i] ELSE f[i-1] \o seqs[i]
        BY <2>1
    <2>3. ASSUME NEW i \in 1..(k + 1)
          PROVE  h[i] = IF i = 1 THEN seqs[i] ELSE h[i-1] \o seqs[i]
        <3>1. CASE i <= k
            <4>1. h[i] = f[i] /\ (i # 1 => h[i-1] = f[i-1]) /\ i \in 1..k
                BY <3>1
            <4> HIDE DEF h
            <4> QED BY <2>2, <4>1
        <3>2. CASE i = k + 1
            <4>1. /\ h[i] = IF i = 1 THEN seqs[i] ELSE f[k] \o seqs[i]
                  /\ i # 1 => h[i-1] = f[k]
                BY <3>2
            <4> HIDE DEF h
            <4> QED BY <4>1
        <3> QED BY <3>1, <3>2
    <2>4. h = [i \in 1..(k + 1) |-> h[i]]
        OBVIOUS
    <2> HIDE DEF h
    <2>5. Is(h, k + 1)
        BY <2>3, <2>4
    <2> HIDE DEF Is
    <2> QED BY <2>5
<1> HIDE DEF S
<1>3. n \in S
    BY <1>1, <1>2, Induction
<1> QED BY <1>3 DEF S

LEMMA FlattenSteps ==
    ASSUME NEW X, NEW seqs \in Seq(Seq(X))
    PROVE  /\ Len(seqs) = 0 => FlattenSeq(seqs) = <<>>
           /\ Len(seqs) # 0 => FlattenSeq(seqs) = Flattened(seqs)[Len(seqs)]
           /\ 1 <= Len(seqs) => Flattened(seqs)[1] = seqs[1]
           /\ \A i \in 2..Len(seqs) :
                 Flattened(seqs)[i] = Flattened(seqs)[i - 1] \o seqs[i]
           /\ \A i \in 1..Len(seqs) : Flattened(seqs)[i] \in Seq(X)
<1> DEFINE n == Len(seqs)
           f == Flattened(seqs)
<1>1. n \in Nat /\ \A i \in 1..n : seqs[i] \in Seq(X)
    OBVIOUS
<1>2. f = [i \in 1..n |-> IF i = 1 THEN seqs[i] ELSE f[i-1] \o seqs[i]]
    BY <1>1, FlattenExists DEF Flattened
<1>3. /\ n = 0 => FlattenSeq(seqs) = <<>>
      /\ n # 0 => FlattenSeq(seqs) = f[n]
    <2>1. n = 0 => seqs = <<>>
        BY EmptySeq
    <2> QED BY <2>1 DEF FlattenSeq, Flattened
<1> HIDE DEF n, f
<1>4. \A i \in 1..n : f[i] = IF i = 1 THEN seqs[i] ELSE f[i-1] \o seqs[i]
    BY <1>2
<1>5. 1 <= n => f[1] = seqs[1]
    BY <1>1, <1>4
<1>6. ASSUME NEW i \in 2..n PROVE f[i] = f[i-1] \o seqs[i]
    <2>1. i \in 1..n /\ i # 1
        BY <1>1
    <2> QED BY <1>4, <2>1
<1>7. \A i \in 1..n : f[i] \in Seq(X)
    <2> DEFINE S == {k \in Nat : k + 1 \in 1..n => f[k + 1] \in Seq(X)}
    <2>1. 0 \in S
        BY <1>1, <1>5
    <2>2. ASSUME NEW k \in Nat, k \in S PROVE k + 1 \in S
        <3>1. SUFFICES ASSUME (k + 1) + 1 \in 1..n PROVE f[(k + 1) + 1] \in Seq(X)
            OBVIOUS
        <3>2. k + 1 \in 1..n /\ (k + 1) + 1 \in 2..n /\ ((k + 1) + 1) - 1 = k + 1
            BY <1>1, <3>1
        <3>3. f[k + 1] \in Seq(X) /\ seqs[(k + 1) + 1] \in Seq(X)
            BY <1>1, <2>2, <3>1, <3>2
        <3>4. f[(k + 1) + 1] = f[k + 1] \o seqs[(k + 1) + 1]
            BY <1>6, <3>2
        <3> QED BY <3>3, <3>4, ConcatProperties
    <2> HIDE DEF S
    <2>3. Nat \subseteq S
        BY <2>1, <2>2, Induction
    <2>4. ASSUME NEW i \in 1..n PROVE f[i] \in Seq(X)
        <3>1. i - 1 \in S /\ (i - 1) + 1 = i
            BY <1>1, <2>3
        <3> QED BY <3>1 DEF S
    <2> QED BY <2>4
<1> QED BY <1>3, <1>5, <1>6, <1>7 DEF n, f

LEMMA ElementsJoined ==
    ASSUME NEW X, NEW s \in Seq(X), NEW t \in Seq(X)
    PROVE  ToSet(s \o t) = ToSet(s) \cup ToSet(t)
<1>1. \A i \in DOMAIN s : i \in DOMAIN (s \o t) /\ (s \o t)[i] = s[i]
    BY ConcatProperties
<1>2. \A i \in DOMAIN t : Len(s) + i \in DOMAIN (s \o t) /\ (s \o t)[Len(s) + i] = t[i]
    BY ConcatProperties
<1>3. ASSUME NEW i \in DOMAIN (s \o t)
      PROVE  (s \o t)[i] \in ToSet(s) \cup ToSet(t)
    <2>1. i \in 1..(Len(s) + Len(t)) /\ Len(s) \in Nat /\ Len(t) \in Nat
        BY ConcatProperties
    <2>2. CASE i <= Len(s)
        <3>1. (s \o t)[i] = s[i] /\ i \in DOMAIN s
            BY <2>1, <2>2, ConcatProperties
        <3> QED BY <3>1 DEF ToSet
    <2>3. CASE i > Len(s)
        <3>1. (s \o t)[i] = t[i - Len(s)] /\ i - Len(s) \in DOMAIN t
            BY <2>1, <2>3, ConcatProperties
        <3> QED BY <3>1 DEF ToSet
    <2> QED BY <2>1, <2>2, <2>3
<1>4. ToSet(s \o t) \subseteq ToSet(s) \cup ToSet(t)
    <2> HIDE DEF ToSet
    <2>1. \A x \in ToSet(s \o t) : \E i \in DOMAIN (s \o t) : x = (s \o t)[i]
        BY DEF ToSet
    <2> QED BY <1>3, <2>1
<1>5. ToSet(s) \subseteq ToSet(s \o t) /\ ToSet(t) \subseteq ToSet(s \o t)
    BY <1>1, <1>2 DEF ToSet
<1> QED BY <1>4, <1>5

(* What is in one of the sequences is in all that is put together later.   *)
LEMMA FlattenHas ==
    ASSUME NEW X, NEW seqs \in Seq(Seq(X)), NEW e \in 1..Len(seqs), NEW x \in ToSet(seqs[e])
    PROVE  x \in ToSet(FlattenSeq(seqs))
<1> DEFINE n == Len(seqs)
           f == Flattened(seqs)
           S == {d \in Nat : e + d \in 1..n => x \in ToSet(f[e + d])}
<1>l. n \in Nat /\ 1 <= n /\ n # 0 /\ \A i \in 1..n : seqs[i] \in Seq(X)
    OBVIOUS
<1> HIDE DEF f
<1>1. n \in Nat /\ \A i \in 1..n : seqs[i] \in Seq(X) /\ f[i] \in Seq(X)
    BY <1>l, FlattenSteps DEF f
<1>2. /\ f[1] = seqs[1]
      /\ \A i \in 2..n : f[i] = f[i - 1] \o seqs[i]
      /\ FlattenSeq(seqs) = f[n]
    BY <1>l, FlattenSteps DEF f
<1> HIDE DEF n
<1>e. e \in 1..n
    BY DEF n
<1>3. 0 \in S
    <2>1. CASE e = 1
        BY <1>2, <2>1
    <2>2. CASE e # 1
        <3>0. e \in 2..n /\ e - 1 \in 1..n
            BY <1>1, <1>e, <2>2
        <3>1. f[e] = f[e - 1] \o seqs[e] /\ f[e - 1] \in Seq(X) /\ seqs[e] \in Seq(X)
            BY <1>1, <1>2, <1>e, <3>0
        <3>2. x \in ToSet(f[e])
            BY <3>1, ElementsJoined
        <3> QED BY <1>e, <3>2
    <2> QED BY <2>1, <2>2
<1>4. ASSUME NEW d \in Nat, d \in S PROVE d + 1 \in S
    <2>1. SUFFICES ASSUME e + (d + 1) \in 1..n PROVE x \in ToSet(f[e + (d + 1)])
        OBVIOUS
    <2>2. /\ e + d \in 1..n /\ e + (d + 1) \in 2..n /\ (e + (d + 1)) - 1 = e + d
        BY <1>1, <1>e, <2>1
    <2>3. x \in ToSet(f[e + d])
        BY <1>4, <2>2
    <2>4. f[e + (d + 1)] = f[e + d] \o seqs[e + (d + 1)]
        BY <1>2, <2>2
    <2> QED BY <1>1, <2>1, <2>2, <2>3, <2>4, ElementsJoined
<1> HIDE DEF S
<1>5. n - e \in S
    <2>1. n - e \in Nat
        BY <1>1, <1>e
    <2> QED BY <1>3, <1>4, <2>1, Induction
<1>6. e + (n - e) = n /\ n \in 1..n
    BY <1>1, <1>e
<1> QED BY <1>2, <1>5, <1>6 DEF S

LEMMA SetToSeqListing ==
    ASSUME NEW S, IsFiniteSet(S)
    PROVE  SetToSeq(S) \in Seq(S) /\ S \subseteq ToSet(SetToSeq(S))
<1> DEFINE n == Cardinality(S)
           s == SetToSeq(S)
<1>1. n \in Nat /\ \E f \in [1..n -> S] : IsInjective(f)
    <2>1. PICK f : f \in Bijection(1..n, S)
        BY FS_CardinalityType DEF ExistsBijection
    <2> QED BY <2>1, FS_CardinalityType DEF Bijection, Injection
<1>2. s \in [1..n -> S] /\ IsInjective(s)
    BY <1>1 DEF SetToSeq
<1> HIDE DEF s
<1>3. s \in Injection(1..n, S)
    BY <1>2 DEF Injection
<1>4. IsFiniteSet(1..n) /\ Cardinality(1..n) = n
    BY <1>1, FS_Interval
<1>5. s \in Surjection(1..n, S)
    BY <1>3, <1>4, FS_Injection
<1>6. S \subseteq ToSet(s)
    BY <1>2, <1>5 DEF Surjection, ToSet
<1> HIDE DEF n
<1>7. s \in Seq(S)
    BY <1>1, <1>2
<1> QED BY <1>6, <1>7 DEF s

-----------------------------------------------------------------------------
(* The log specifications entered, and the line so far.                    *)

EcuNames == {s.ecu : s \in ToSet(call.specs)}
JobNames == {s.job : s \in ToSet(call.specs)}
ResultNames == UNION {ToSet(s.results) : s \in ToSet(call.specs)}

IsEntry(entry, key) ==
    /\ key = <<entry.ecu, entry.job>>
    /\ entry = [ecu |-> entry.ecu, job |-> entry.job, results |-> entry.results]
    /\ entry.ecu \in EcuNames /\ entry.job \in JobNames
    /\ entry.results \in Seq(ResultNames)
JobsInv == IsFiniteSet(DOMAIN jobs) /\ \A key \in DOMAIN jobs : IsEntry(jobs[key], key)

(* The specification is among the jobs, with its results.                  *)
Entered(spec) ==
    Key(spec) \in DOMAIN jobs /\ ToSet(spec.results) \subseteq ToSet(jobs[Key(spec)].results)
InLog ==
    \/ Going \in {"specification", "located", "entry", "line", "round"}
    \/ Going = "find" /\ Late \notin {"probe", "run-operation"}
SpecsInv ==
    InLog => /\ left <= Len(call.specs)
             /\ \A i \in 1..(Len(call.specs) - left) : Entered(call.specs[i])

(* The headings of the first n entries, and a line that is under them.     *)
AllColumns == [i \in DOMAIN Entries |-> Columns(Entries[i])]
HeaderOf(n) == IF n = 0 THEN <<>> ELSE Flattened(AllColumns)[n]
ValueUnder(h) == [unit |-> ecus[h.ecu], job |-> h.job, result |-> h.result]
Under(l, head) ==
    /\ DOMAIN l = 1..Len(head) /\ l = [i \in DOMAIN l |-> l[i]]
    /\ \A i \in DOMAIN l : l[i] # Blank => l[i] = ValueUnder(head[i])
RoundInv ==
    phase = "round" => \E n \in 0..Len(Entries) :
        /\ turn = SubSeq(Entries, n + 1, Len(Entries))
        /\ Under(line, HeaderOf(n))
LogInv ==
    /\ JobsInv /\ SpecsInv /\ RoundInv
    /\ Going \in {"line", "round"} => phase # "construct" /\ left = 0

-----------------------------------------------------------------------------
(* Sequences that grow.                                                    *)

LEMMA UnderGrows ==
    ASSUME NEW C, NEW head \in Seq(C), NEW more \in Seq(C), NEW V,
           NEW l \in Seq(V), NEW values \in Seq(V),
           Under(l, head), Under(values, more)
    PROVE  Under(l \o values, head \o more)
<1>1. /\ Len(l) = Len(head) /\ Len(values) = Len(more)
      /\ Len(head) \in Nat /\ Len(more) \in Nat
    BY DEF Under
<1>2. /\ l \o values \in Seq(V) /\ DOMAIN (l \o values) = 1..Len(head \o more)
      /\ Len(head \o more) = Len(head) + Len(more)
    <2>1. l \o values \in Seq(V) /\ Len(l \o values) = Len(head) + Len(more)
        <3>1. l \o values \in Seq(V) /\ Len(l \o values) = Len(l) + Len(values)
            BY ConcatProperties
        <3> QED BY <1>1, <3>1
    <2>2. DOMAIN (l \o values) = 1..Len(l \o values)
        BY <2>1, LenProperties
    <2>3. Len(head \o more) = Len(head) + Len(more)
        BY ConcatProperties
    <2> QED BY <2>1, <2>2, <2>3
<1>3. ASSUME NEW i \in 1..(Len(head) + Len(more)), (l \o values)[i] # Blank
      PROVE  (l \o values)[i] = ValueUnder((head \o more)[i])
    <2>1. CASE i <= Len(head)
        <3>1. (l \o values)[i] = l[i] /\ (head \o more)[i] = head[i] /\ i \in DOMAIN l
            BY <1>1, <2>1, ConcatProperties
        <3> QED BY <1>3, <3>1 DEF Under
    <2>2. CASE i > Len(head)
        <3>1. /\ (l \o values)[i] = values[i - Len(head)]
              /\ (head \o more)[i] = more[i - Len(head)]
              /\ i - Len(head) \in DOMAIN values
            BY <1>1, <2>2, ConcatProperties
        <3> QED BY <1>3, <3>1 DEF Under
    <2> QED BY <1>1, <2>1, <2>2
<1>4. l \o values = [i \in DOMAIN (l \o values) |-> (l \o values)[i]]
    <2>1. l \o values \in [1..Len(l \o values) -> V]
        BY <1>2, LenProperties
    <2> QED BY <2>1
<1> QED BY <1>2, <1>3, <1>4 DEF Under

LEMMA UnderSeq ==
    ASSUME NEW C, NEW head \in Seq(C), NEW l, Under(l, head)
    PROVE  l \in Seq({l[i] : i \in DOMAIN l})
<1>1. l \in [1..Len(head) -> {l[i] : i \in DOMAIN l}] /\ Len(head) \in Nat
    BY DEF Under
<1> QED BY <1>1

-----------------------------------------------------------------------------
(* The entries, their columns and the header.                              *)

Heading == [ecu : EcuNames, job : JobNames, result : ResultNames \cup {"Time"}]
EntrySet == {jobs[k] : k \in DOMAIN jobs}

LEMMA EntriesListed ==
    ASSUME JobsInv
    PROVE  Entries \in Seq(EntrySet) /\ EntrySet \subseteq ToSet(Entries)
<1> DEFINE value == [k \in DOMAIN jobs |-> jobs[k]]
<1>1. value \in Surjection(DOMAIN jobs, EntrySet)
    BY DEF Surjection, EntrySet
<1> HIDE DEF value
<1>2. IsFiniteSet(EntrySet)
    BY <1>1, FS_Surjection DEF JobsInv
<1>3. Entries = SetToSeq(EntrySet)
    BY DEF Entries, EntrySet
<1> QED BY <1>2, <1>3, SetToSeqListing

LEMMA ColumnsOf ==
    ASSUME JobsInv, NEW entry \in EntrySet
    PROVE  /\ entry.results \in Seq(ResultNames)
           /\ Columns(entry) \in Seq(Heading)
           /\ Len(Columns(entry)) = 1 + Len(entry.results)
           /\ Columns(entry)[1] = [ecu |-> entry.ecu, job |-> entry.job, result |-> "Time"]
           /\ \A i \in 1..Len(entry.results) : Columns(entry)[1 + i] =
                 [ecu |-> entry.ecu, job |-> entry.job, result |-> entry.results[i]]
<1> DEFINE n == Len(entry.results)
           first == [ecu |-> entry.ecu, job |-> entry.job, result |-> "Time"]
           rest == [i \in DOMAIN entry.results |->
                       [ecu |-> entry.ecu, job |-> entry.job, result |-> entry.results[i]]]
<1>1. /\ entry.ecu \in EcuNames /\ entry.job \in JobNames
      /\ entry.results \in Seq(ResultNames)
    BY DEF EntrySet, JobsInv, IsEntry
<1>2. n \in Nat /\ DOMAIN entry.results = 1..n
      /\ \A i \in 1..n : entry.results[i] \in ResultNames
    BY <1>1
<1>3. first \in Heading
    BY <1>1 DEF Heading
<1>4. rest \in [1..n -> Heading]
    BY <1>1, <1>2 DEF Heading
<1>5. \A i \in 1..n : rest[i] =
         [ecu |-> entry.ecu, job |-> entry.job, result |-> entry.results[i]]
    BY <1>2
<1>6. Columns(entry) = <<first>> \o rest
    BY DEF Columns
<1> HIDE DEF first, rest, n, Heading
<1>7. rest \in Seq(Heading) /\ Len(rest) = n
    BY <1>2, <1>4
<1>8. <<first>> \in Seq(Heading) /\ Len(<<first>>) = 1 /\ <<first>>[1] = first
    BY <1>3
<1>9. /\ Columns(entry) \in Seq(Heading) /\ Len(Columns(entry)) = 1 + n
      /\ \A i \in 1..(1 + n) :
            Columns(entry)[i] = IF i <= 1 THEN <<first>>[i] ELSE rest[i - 1]
    BY <1>6, <1>7, <1>8, ConcatProperties
<1>10. Columns(entry)[1] = first
    BY <1>2, <1>8, <1>9
<1>11. ASSUME NEW i \in 1..n PROVE Columns(entry)[1 + i] = rest[i]
    <2>1. 1 + i \in 1..(1 + n) /\ ~(1 + i <= 1) /\ (1 + i) - 1 = i
        BY <1>2
    <2> QED BY <1>9, <2>1
<1> QED BY <1>1, <1>5, <1>9, <1>10, <1>11 DEF n, first

LEMMA AllColumnsOf ==
    ASSUME JobsInv
    PROVE  /\ AllColumns \in Seq(Seq(Heading)) /\ Len(AllColumns) = Len(Entries)
           /\ \A i \in 1..Len(Entries) :
                 Entries[i] \in EntrySet /\ AllColumns[i] = Columns(Entries[i])
<1> DEFINE E == Entries
<1>1. E \in Seq(EntrySet)
    BY EntriesListed
<1>2. AllColumns = [i \in DOMAIN E |-> Columns(E[i])]
    BY DEF AllColumns
<1> HIDE DEF E
<1>3. Len(E) \in Nat /\ DOMAIN E = 1..Len(E) /\ \A i \in 1..Len(E) : E[i] \in EntrySet
    BY <1>1
<1>4. \A i \in 1..Len(E) : Columns(E[i]) \in Seq(Heading)
    BY <1>3, ColumnsOf
<1>5. AllColumns \in [1..Len(E) -> Seq(Heading)]
    BY <1>2, <1>3, <1>4
<1>6. AllColumns \in Seq(Seq(Heading)) /\ Len(AllColumns) = Len(E)
    BY <1>3, <1>5
<1>7. \A i \in 1..Len(E) : AllColumns[i] = Columns(E[i])
    BY <1>2, <1>3
<1> QED BY <1>3, <1>6, <1>7 DEF E

(* The header of one entry more.                                           *)
LEMMA HeaderGrows ==
    ASSUME JobsInv
    PROVE  /\ HeaderOf(0) = <<>> /\ Header = HeaderOf(Len(Entries))
           /\ \A n \in 0..Len(Entries) : HeaderOf(n) \in Seq(Heading)
           /\ \A n \in 1..Len(Entries) :
                 HeaderOf(n) = HeaderOf(n - 1) \o Columns(Entries[n])
<1> DEFINE N == Len(Entries)
<1>1. N \in Nat /\ AllColumns \in Seq(Seq(Heading)) /\ Len(AllColumns) = N
    BY AllColumnsOf, LenProperties, EntriesListed
<1>2. /\ N = 0 => FlattenSeq(AllColumns) = <<>>
      /\ N # 0 => FlattenSeq(AllColumns) = Flattened(AllColumns)[N]
      /\ 1 <= N => Flattened(AllColumns)[1] = AllColumns[1]
      /\ \A i \in 2..N :
            Flattened(AllColumns)[i] = Flattened(AllColumns)[i - 1] \o AllColumns[i]
      /\ \A i \in 1..N : Flattened(AllColumns)[i] \in Seq(Heading)
    <2> HIDE DEF N
    <2> QED BY <1>1, FlattenSteps
<1>3. Header = FlattenSeq(AllColumns)
    BY DEF Header, AllColumns
<1>4. \A n \in 1..N : AllColumns[n] = Columns(Entries[n])
                      /\ AllColumns[n] \in Seq(Heading)
    BY AllColumnsOf, ColumnsOf
<1> HIDE DEF N
<1>5. HeaderOf(0) = <<>> /\ \A n \in 1..N : HeaderOf(n) = Flattened(AllColumns)[n]
    BY <1>1 DEF HeaderOf
<1>6. Header = HeaderOf(N)
    <2>1. N = 0 \/ N \in 1..N
        BY <1>1
    <2> QED BY <1>2, <1>3, <1>5, <2>1
<1>7. ASSUME NEW n \in 0..N PROVE HeaderOf(n) \in Seq(Heading)
    <2>1. <<>> \in Seq(Heading) /\ (n = 0 \/ n \in 1..N)
        BY <1>1
    <2> QED BY <1>2, <1>5, <2>1
<1>8. ASSUME NEW n \in 1..N PROVE HeaderOf(n) = HeaderOf(n - 1) \o Columns(Entries[n])
    <2>1. CASE n = 1
        <3>1. HeaderOf(1) = Columns(Entries[1]) /\ Columns(Entries[1]) \in Seq(Heading)
            BY <1>1, <1>2, <1>4, <1>5, <2>1
        <3> QED BY <1>5, <2>1, <3>1, ConcatEmptySeq
    <2>2. CASE n # 1
        <3>1. n \in 2..N /\ n - 1 \in 1..N
            BY <1>1, <2>2
        <3> QED BY <1>2, <1>4, <1>5, <3>1
    <2> QED BY <2>1, <2>2
<1> QED BY <1>5, <1>6, <1>7, <1>8 DEF N

-----------------------------------------------------------------------------
(* The specifications and the jobs they enter.                             *)

LEMMA SpecsTyped ==
    ASSUME call \in Invocations
    PROVE  /\ Len(call.specs) \in Nat
           /\ \A i \in 1..Len(call.specs) :
                 /\ call.specs[i] \in ToSet(call.specs)
                 /\ call.specs[i].ecu \in EcuNames /\ call.specs[i].job \in JobNames
                 /\ call.specs[i].results \in Seq(ResultNames)
                 /\ ToSet(call.specs[i].results) \subseteq ResultNames
<1>1. call.specs \in Seq(ToSet(call.specs))
      /\ \A s \in ToSet(call.specs) : s.results \in Seq(ToSet(s.results))
    BY CommandsAssumption DEF CommandsAssumption
<1>2. Len(call.specs) \in Nat
      /\ \A i \in 1..Len(call.specs) : call.specs[i] \in ToSet(call.specs)
    BY <1>1, LenProperties, ElementOfSeq
<1>3. ASSUME NEW s \in ToSet(call.specs)
      PROVE  /\ s.ecu \in EcuNames /\ s.job \in JobNames
             /\ s.results \in Seq(ResultNames) /\ ToSet(s.results) \subseteq ResultNames
    <2>1. ToSet(s.results) \subseteq ResultNames
        BY DEF ResultNames
    <2> QED BY <1>1, <2>1, SeqMonotonic DEF EcuNames, JobNames
<1> QED BY <1>2, <1>3

LEMMA NextSpecification ==
    ASSUME CommandsInv, SpecsInv, phase \in {"located", "entry"}
    PROVE  /\ left - 1 \in Nat
           /\ Len(call.specs) - left + 1 \in 1..Len(call.specs)
           /\ Len(call.specs) - (left - 1) = Len(call.specs) - left + 1
           /\ InLog
<1>1. left \in Nat /\ left > 0 /\ Len(call.specs) \in Nat /\ InLog
    BY SpecsTyped DEF CommandsInv, InTurn, Counting, Going, InLog
<1>2. left <= Len(call.specs)
    BY <1>1 DEF SpecsInv
<1> QED BY <1>1, <1>2

LEMMA NamesKept ==
    ASSUME call' = call
    PROVE  EcuNames' = EcuNames /\ JobNames' = JobNames /\ ResultNames' = ResultNames
BY DEF EcuNames, JobNames, ResultNames

LEMMA EntryAdded ==
    ASSUME CommandsInv, JobsInv, SpecsInv, AddEntry
    PROVE  /\ JobsInv'
           /\ \A s : Entered(s) \/ s = Specification => Entered(s)'
<1> DEFINE spec == Specification
           key == Key(spec)
           new == [ecu |-> spec.ecu, job |-> spec.job, results |-> <<>>]
           entry == IF key \in DOMAIN jobs THEN jobs[key] ELSE new
           more == [entry EXCEPT !.results = entry.results \o spec.results]
<1>1. /\ phase = "entry" /\ call' = call
      /\ jobs' = [k \in DOMAIN jobs \cup {key} |-> IF k = key THEN more ELSE jobs[k]]
    BY DEF AddEntry, Goto
<1>2. /\ spec.ecu \in EcuNames /\ spec.job \in JobNames
      /\ spec.results \in Seq(ResultNames)
    BY <1>1, NextSpecification, SpecsTyped DEF CommandsInv, InTurn, Specification
<1>3. key = <<spec.ecu, spec.job>>
    BY DEF Key
<1>4. IsEntry(entry, key)
    <2>1. CASE key \in DOMAIN jobs
        BY <2>1 DEF JobsInv
    <2>2. CASE key \notin DOMAIN jobs
        <3>1. <<>> \in Seq(ResultNames)
            BY EmptySeq
        <3> HIDE DEF spec, key
        <3> QED BY <1>2, <1>3, <2>2, <3>1 DEF IsEntry
    <2> QED BY <2>1, <2>2
<1> HIDE DEF entry, key, spec
<1>5. entry.results \in Seq(ResultNames)
      /\ entry = [ecu |-> entry.ecu, job |-> entry.job, results |-> entry.results]
    BY <1>4 DEF IsEntry
<1>6. more = [ecu |-> entry.ecu, job |-> entry.job,
              results |-> entry.results \o spec.results]
    <2>1. ASSUME NEW x PROVE [entry EXCEPT !.results = x] =
                                [ecu |-> entry.ecu, job |-> entry.job, results |-> x]
        <3>1. PICK e, j, r : entry = [ecu |-> e, job |-> j, results |-> r]
            BY <1>5
        <3>2. entry.ecu = e /\ entry.job = j
            BY <3>1
        <3> QED BY <3>1, <3>2
    <2>2. more = [entry EXCEPT !.results = entry.results \o spec.results]
        BY DEF more
    <2> HIDE DEF more
    <2> QED BY <2>1, <2>2
<1>7. /\ more.ecu = entry.ecu /\ more.job = entry.job
      /\ more.results = entry.results \o spec.results
      /\ more.results \in Seq(ResultNames)
      /\ ToSet(more.results) = ToSet(entry.results) \cup ToSet(spec.results)
    BY <1>2, <1>5, <1>6, ConcatProperties, ElementsJoined
<1>8. IsEntry(more, key)
    <2> HIDE DEF more
    <2> QED BY <1>4, <1>6, <1>7 DEF IsEntry
<1> HIDE DEF more
<1>9. /\ DOMAIN jobs' = DOMAIN jobs \cup {key} /\ jobs'[key] = more
      /\ \A k \in DOMAIN jobs : k # key => jobs'[k] = jobs[k]
    BY <1>1
<1>10. EcuNames' = EcuNames /\ JobNames' = JobNames /\ ResultNames' = ResultNames
    BY <1>1, NamesKept
<1>11. ASSUME NEW k \in DOMAIN jobs' PROVE IsEntry(jobs'[k], k)
    <2>1. CASE k = key
        BY <1>8, <1>9, <2>1
    <2>2. CASE k # key
        BY <1>9, <2>2 DEF JobsInv
    <2> QED BY <2>1, <2>2
<1>12. JobsInv'
    <2>1. IsFiniteSet(DOMAIN jobs')
        BY <1>9, FS_AddElement DEF JobsInv
    <2>2. \A k \in DOMAIN jobs' : IsEntry(jobs[k], k)'
        BY <1>10, <1>11 DEF IsEntry
    <2> QED BY <2>1, <2>2 DEF JobsInv
<1>13. ASSUME NEW s, Entered(s) PROVE Entered(s)'
    <2>1. CASE Key(s) = key
        <3>1. entry = jobs[key]
            BY <1>13, <2>1 DEF Entered, entry
        <3> QED BY <1>7, <1>9, <1>13, <2>1, <3>1 DEF Entered, Key
    <2>2. CASE Key(s) # key
        BY <1>9, <1>13, <2>2 DEF Entered, Key
    <2> QED BY <2>1, <2>2
<1>14. Key(spec) \in DOMAIN jobs'
       /\ ToSet(spec.results) \subseteq ToSet(jobs'[Key(spec)].results)
    BY <1>7, <1>9 DEF key
<1>15. ASSUME NEW s, s = spec PROVE Entered(s)'
    BY <1>14, <1>15 DEF Entered, Key
<1> QED BY <1>12, <1>13, <1>15 DEF spec

-----------------------------------------------------------------------------
(* Steps outside of the lines.                                             *)

Lining == {"line", "round"}
LEMMA LogKept ==
    ASSUME JobsInv, SpecsInv, UNCHANGED <<call, jobs, left>>, InLog' => InLog,
           Going' \in Lining => phase' # "construct" /\ left = 0,
           phase' # "round"
    PROVE  LogInv'
<1>1. JobsInv'
    BY NamesKept DEF JobsInv, IsEntry
<1>2. SpecsInv'
    <2> HIDE DEF InLog
    <2> QED BY DEF SpecsInv, Entered, Key
<1>3. RoundInv'
    BY DEF RoundInv
<1> HIDE DEF Going
<1> QED BY <1>1, <1>2, <1>3 DEF LogInv, Lining

(* Steps after which no log is written.                                    *)
LEMMA LogOver ==
    ASSUME JobsInv, UNCHANGED <<call, jobs>>, ~InLog'
    PROVE  LogInv'
<1>1. JobsInv'
    BY NamesKept DEF JobsInv, IsEntry
<1>2. SpecsInv'
    <2> HIDE DEF InLog
    <2> QED BY DEF SpecsInv
<1>3. phase' # "round" /\ Going' \notin {"line", "round"}
    BY DEF InLog, Going
<1> QED BY <1>1, <1>2, <1>3 DEF LogInv, RoundInv

LEMMA StartLogs ==
    ASSUME LogInv, RefuseOptions \/ SerialSetup \/ NoPort \/ InitializeManager
                   \/ DispatchEarly \/ RefuseEcu \/ DispatchLate
    PROVE  LogInv'
<1>1. UNCHANGED <<call, jobs>>
    BY DEF RefuseOptions, SerialSetup, NoPort, InitializeManager, DispatchEarly, RefuseEcu,
       DispatchLate, Proceed, Goto, workVars, logVars
<1>2. /\ phase' = Going'
      /\ Going' \notin {"specification", "located", "entry", "line", "round", "find"}
    BY EarlyKnown DEF RefuseOptions, SerialSetup, NoPort, InitializeManager, DispatchEarly,
       RefuseEcu, DispatchLate, Proceed, Goto, Going
<1>3. ~InLog'
    <2> HIDE DEF Going, Late
    <2> QED BY <1>2 DEF InLog
<1> QED BY <1>1, <1>3, LogOver DEF LogInv

LEMMA LoaderLogs ==
    ASSUME LogInv, InTurn, ConstructNext \/ Loading \/ Constructed
                           \/ ConstructorThrows \/ AllConstructed
    PROVE  LogInv'
<1>1. /\ UNCHANGED <<call, jobs, left>> /\ Late' = Late
      /\ phase = "construct" /\ phase' \in {"construct", "aborted", resume}
    BY LateKept DEF ConstructNext, Loading, Constructed, ConstructorThrows, AllConstructed,
       Proceed, Goto, commandVars, workVars, logVars
<1>2. Going' = Going \/ Going' = "aborted"
    BY DEF ConstructNext, Loading, Constructed, ConstructorThrows, AllConstructed,
       Proceed, Goto, commandVars, InTurn, Going
<1>3. Going \notin Lining /\ Going = resume
    BY <1>1 DEF LogInv, Lining, Going
<1>4. phase' # "round" /\ Going' \notin Lining
    BY <1>1, <1>2, <1>3 DEF Lining
<1>5. InLog' => InLog
    <2> HIDE DEF Going, Late
    <2> QED BY <1>1, <1>2 DEF InLog
<1> QED BY <1>1, <1>4, <1>5, LogKept DEF LogInv

LEMMA ListingLogs ==
    ASSUME LogInv, Reload \/ ListFamilies \/ ListEcus \/ PrintEcus
                   \/ ListOperations \/ PrintOperations
    PROVE  LogInv'
<1>1. UNCHANGED <<call, jobs>>
    BY DEF Reload, ListFamilies, ListEcus, PrintEcus, ListOperations, PrintOperations,
       Proceed, Goto, workVars, logVars
<1>2. Going' \in {"done", "aborted", "usage", "print-ecus", "print-operations"}
    BY DEF Reload, ListFamilies, ListEcus, PrintEcus, ListOperations, PrintOperations,
       ConstructAll, Proceed, Goto, Going
<1>3. ~InLog'
    <2> HIDE DEF Going, Late
    <2> QED BY <1>2 DEF InLog
<1> QED BY <1>1, <1>3, LogOver DEF LogInv

LEMMA FindingLogs ==
    ASSUME LogInv, InTurn, Counting, NotOpen \/ RawQuery \/ ProbeAll \/ StartFinding
                           \/ Find \/ NothingFound \/ Identify
    PROVE  LogInv'
<1>1. UNCHANGED <<call, jobs>> /\ Late' = Late
    BY LateKept DEF NotOpen, RawQuery, ProbeAll, StartFinding, Find, NothingFound,
       Identify, Proceed, Goto, workVars, logVars
<1>2. CASE Find
    <2>1. /\ left' = left /\ Going = "find" /\ phase' \in {"construct", "find", "aborted"}
          /\ Going' \in {"find", "aborted", AfterFinding}
        BY <1>2 DEF Find, ConstructAll, Goto, Going
    <2>2. /\ AfterFinding \in {"identify", "iterate", "located"}
          /\ AfterFinding = "located" => Late \notin {"probe", "run-operation"}
        BY DEF AfterFinding
    <2>3. InLog' => InLog
        <3> HIDE DEF Going, Late
        <3> QED BY <1>1, <2>1, <2>2 DEF InLog
    <2>4. Going' \notin Lining /\ phase' # "round"
        BY <2>1, <2>2 DEF Lining
    <2> QED BY <1>1, <2>1, <2>3, <2>4, LogKept DEF LogInv
<1>3. CASE StartFinding
    <2>1. Going = "probe" /\ Going' = "find"
        BY <1>3 DEF StartFinding, Proceed, Goto, Going
    <2>2. ~InLog'
        <3> HIDE DEF Going, Late
        <3> QED BY <1>1, <2>1 DEF InLog, Counting
    <2> QED BY <1>1, <2>2, LogOver DEF LogInv
<1>4. CASE NotOpen \/ RawQuery \/ ProbeAll \/ NothingFound \/ Identify
    <2>1. Going' \in {"done", "aborted", "probe-all"}
        BY <1>4 DEF NotOpen, RawQuery, ProbeAll, NothingFound, Identify, Proceed, Goto, Going
    <2>2. ~InLog'
        <3> HIDE DEF Going, Late
        <3> QED BY <2>1 DEF InLog
    <2> QED BY <1>1, <2>2, LogOver DEF LogInv
<1> QED BY <1>2, <1>3, <1>4

LEMMA RunningLogs ==
    ASSUME LogInv, Counting, RunOperation \/ ChooseAddress \/ Iterate \/ Execute
                             \/ ExecuteDone
    PROVE  LogInv'
<1>1. UNCHANGED <<call, jobs>> /\ Late' = Late
    BY LateKept DEF RunOperation, ChooseAddress, Iterate, Execute, ExecuteDone, Proceed,
       Goto, workVars, logVars
<1>2. \/ Going' \in {"choose", "done", "aborted", "iterate", "execute"}
      \/ Going = "run-operation" /\ Going' = "find"
    BY DEF RunOperation, ChooseAddress, Iterate, Execute, ExecuteDone, ConstructAll,
       Proceed, Goto, Going
<1>3. ~InLog'
    <2> HIDE DEF Going, Late
    <2> QED BY <1>1, <1>2 DEF InLog, Counting
<1> QED BY <1>1, <1>3, LogOver DEF LogInv

-----------------------------------------------------------------------------
(* The specifications of data-log, and its lines.                          *)

LEMMA SpecificationsRead ==
    ASSUME CommandsInv, LogInv, StartLog \/ ReadSpecification \/ Located \/ AddEntry
    PROVE  LogInv'
<1>1. CASE StartLog
    <2>1. /\ UNCHANGED <<call, jobs>> /\ left' = Len(call.specs)
          /\ Going' = "specification" /\ phase' = "specification"
        BY <1>1 DEF StartLog, Goto, Going, logVars
    <2>2. JobsInv'
        BY <2>1, NamesKept DEF LogInv, JobsInv, IsEntry
    <2>3. SpecsInv'
        <3>1. Len(call.specs) \in Nat
            BY SpecsTyped DEF CommandsInv, InTurn
        <3>2. left' <= Len(call'.specs) /\ 1..(Len(call'.specs) - left') = {}
            BY <2>1, <3>1
        <3> HIDE DEF InLog
        <3> QED BY <3>2 DEF SpecsInv
    <2> HIDE DEF Going
    <2> QED BY <2>1, <2>2, <2>3 DEF LogInv, RoundInv
<1>2. CASE ReadSpecification \/ Located
    <2>1. /\ UNCHANGED <<call, jobs, left>> /\ Going' \in {"usage", "find", "entry"}
          /\ phase' = Going' /\ phase \in {"specification", "located"}
        BY <1>2 DEF ReadSpecification, Located, Proceed, Goto, workVars, logVars, Going
    <2>2. InLog
        BY <2>1 DEF InLog, Going
    <2> HIDE DEF Going
    <2> QED BY <2>1, <2>2, LogKept DEF LogInv, Lining
<1>3. CASE AddEntry
    <2>1. /\ call' = call /\ left' = left - 1 /\ phase = "entry"
          /\ Going' = "specification" /\ phase' = "specification"
        BY <1>3 DEF AddEntry, Goto, Going
    <2>2. JobsInv' /\ \A s : Entered(s) \/ s = Specification => Entered(s)'
        BY <1>3, EntryAdded DEF LogInv
    <2>3. SpecsInv'
        <3> DEFINE specs == call.specs
        <3>1. /\ Len(specs) - left + 1 \in 1..Len(specs)
              /\ Len(specs) - left' = Len(specs) - left + 1
              /\ InLog /\ Len(specs) \in Nat /\ left \in Nat
            BY <2>1, NextSpecification, SpecsTyped
               DEF LogInv, CommandsInv, InTurn, Counting
        <3>2. left <= Len(specs) /\ \A i \in 1..(Len(specs) - left) : Entered(specs[i])
            BY <3>1 DEF LogInv, SpecsInv
        <3>3. specs[Len(specs) - left + 1] = Specification
            BY DEF Specification
        <3>4. ASSUME NEW i \in 1..(Len(specs) - left') PROVE Entered(specs[i])'
            <4>1. i \in 1..(Len(specs) - left) \/ i = Len(specs) - left + 1
                BY <3>1
            <4>2. Entered(specs[i]) \/ specs[i] = Specification
                BY <3>2, <3>3, <4>1
            <4>3. specs' = specs
                BY <2>1
            <4>4. PICK s : s = specs[i]
                OBVIOUS
            <4>5. Entered(s)'
                BY <2>2, <4>2, <4>4
            <4> HIDE DEF specs
            <4> QED BY <4>3, <4>4, <4>5 DEF Entered, Key
        <3>5. left' <= Len(specs')
            BY <2>1, <3>1, <3>2
        <3>6. specs' = specs
            BY <2>1
        <3> HIDE DEF InLog
        <3> QED BY <3>4, <3>5, <3>6 DEF SpecsInv
    <2> HIDE DEF Going
    <2> QED BY <2>1, <2>2, <2>3 DEF LogInv, RoundInv
<1> QED BY <1>1, <1>2, <1>3

LEMMA RestOfSeq ==
    ASSUME NEW X, NEW s \in Seq(X), NEW n \in 0..Len(s),
           SubSeq(s, n + 1, Len(s)) # <<>>
    PROVE  /\ n + 1 \in 1..Len(s) /\ Head(SubSeq(s, n + 1, Len(s))) = s[n + 1]
           /\ Tail(SubSeq(s, n + 1, Len(s))) = SubSeq(s, (n + 1) + 1, Len(s))
<1> DEFINE t == SubSeq(s, n + 1, Len(s))
<1>1. Len(s) \in Nat /\ n \in Nat /\ n <= Len(s)
    BY LenProperties
<1>2. n + 1 \in 1..Len(s)
    BY <1>1, SubSeqEmpty
<1>3. \A i \in (n + 1)..Len(s) : s[i] \in X
    BY <1>1
<1>4. /\ t \in Seq(X) /\ Len(t) = Len(s) - n
      /\ \A i \in 1..(Len(s) - n) : t[i] = s[i + n]
    <2>1. /\ t \in Seq(X) /\ Len(t) = Len(s) - (n + 1) + 1
          /\ \A i \in 1..(Len(s) - (n + 1) + 1) : t[i] = s[(n + 1) + i - 1]
        BY <1>1, <1>2, <1>3, SubSeqProperties
    <2>2. Len(s) - (n + 1) + 1 = Len(s) - n
        BY <1>1
    <2>3. \A i \in 1..(Len(s) - n) : (n + 1) + i - 1 = i + n
        BY <1>1
    <2> HIDE DEF t
    <2> QED BY <2>1, <2>2, <2>3
<1> DEFINE u == SubSeq(s, (n + 1) + 1, Len(s))
<1>5. /\ u \in Seq(X) /\ Len(u) = Len(s) - (n + 1)
      /\ \A i \in 1..(Len(s) - (n + 1)) : u[i] = s[i + (n + 1)]
    <2>1. \A i \in ((n + 1) + 1)..Len(s) : s[i] \in X
        BY <1>1
    <2>2. /\ u \in Seq(X)
          /\ Len(u) = IF (n + 1) + 1 <= Len(s) THEN Len(s) - ((n + 1) + 1) + 1 ELSE 0
          /\ \A i \in 1..(Len(s) - ((n + 1) + 1) + 1) : u[i] = s[((n + 1) + 1) + i - 1]
        <3>1. (n + 1) + 1 \in Int /\ Len(s) \in Int
            BY <1>1
        <3> HIDE DEF u
        <3> QED BY <2>1, <3>1, SubSeqProperties DEF u
    <2>3. /\ Len(s) - ((n + 1) + 1) + 1 = Len(s) - (n + 1)
          /\ (n + 1) + 1 <= Len(s) \/ Len(s) - (n + 1) = 0
        BY <1>1, <1>2
    <2>4. \A i \in 1..(Len(s) - (n + 1)) : ((n + 1) + 1) + i - 1 = i + (n + 1)
        BY <1>1
    <2> HIDE DEF u
    <2> QED BY <2>2, <2>3, <2>4
<1> HIDE DEF t, u
<1>6. t # <<>>
    BY DEF t
<1>7. Head(t) = s[n + 1]
    <2>1. Head(t) = t[1] /\ 1 \in 1..(Len(s) - n)
        BY <1>1, <1>2
    <2>2. t[1] = s[1 + n]
        BY <1>4, <2>1
    <2> QED BY <1>1, <2>1, <2>2
<1>8. Tail(t) = u
    <2>1. /\ Tail(t) \in Seq(X) /\ Len(Tail(t)) = Len(s) - (n + 1)
          /\ \A i \in 1..(Len(s) - (n + 1)) : Tail(t)[i] = t[i + 1]
        <3>1. /\ Tail(t) \in Seq(X) /\ Len(Tail(t)) = Len(t) - 1
              /\ \A i \in 1..Len(Tail(t)) : Tail(t)[i] = t[i + 1]
            BY <1>4, <1>6, HeadTailProperties
        <3>2. (Len(s) - n) - 1 = Len(s) - (n + 1)
            BY <1>1
        <3> QED BY <1>4, <3>1, <3>2
    <2>2. ASSUME NEW i \in 1..(Len(s) - (n + 1)) PROVE Tail(t)[i] = u[i]
        <3>1. i + 1 \in 1..(Len(s) - n) /\ (i + 1) + n = i + (n + 1)
            BY <1>1, <1>2
        <3> QED BY <1>4, <1>5, <2>1, <3>1
    <2> QED BY <1>5, <2>1, <2>2, SeqEqual
<1> QED BY <1>2, <1>7, <1>8 DEF t, u

LEMMA HeaderKept ==
    ASSUME jobs' = jobs
    PROVE  /\ Entries' = Entries /\ Header' = Header
           /\ \A n : HeaderOf(n)' = HeaderOf(n)
<1>1. Entries' = Entries
    BY DEF Entries
<1>2. AllColumns' = AllColumns
    BY <1>1 DEF AllColumns
<1>3. Header' = Header
    BY <1>1 DEF Header
<1>4. \A n : HeaderOf(n)' = HeaderOf(n)
    BY <1>2 DEF HeaderOf, Flattened
<1> QED BY <1>1, <1>3, <1>4

(* What one entry adds to a line is under its columns.                     *)
LEMMA ValuesUnder ==
    ASSUME JobsInv, NEW entry \in EntrySet, NEW answered
    PROVE  LET V == {Value(entry, r) : r \in ResultNames \cup {"Time"}} \cup {Blank}
               first == <<Value(entry, "Time")>>
               rest == ValueTexts(entry, answered)
           IN  /\ first \in Seq(V) /\ rest \in Seq(V) /\ first \o rest \in Seq(V)
               /\ Under(first \o rest, Columns(entry))
<1> DEFINE V == {Value(entry, r) : r \in ResultNames \cup {"Time"}} \cup {Blank}
           first == <<Value(entry, "Time")>>
           rest == ValueTexts(entry, answered)
           n == Len(entry.results)
           vals == first \o rest
<1>1. /\ entry.results \in Seq(ResultNames) /\ Columns(entry) \in Seq(Heading)
      /\ Len(Columns(entry)) = 1 + n
      /\ Columns(entry)[1] = [ecu |-> entry.ecu, job |-> entry.job, result |-> "Time"]
      /\ \A i \in 1..n : Columns(entry)[1 + i] =
            [ecu |-> entry.ecu, job |-> entry.job, result |-> entry.results[i]]
    BY ColumnsOf
<1>2. n \in Nat /\ DOMAIN entry.results = 1..n
      /\ \A i \in 1..n : entry.results[i] \in ResultNames
    BY <1>1
<1>3. first \in Seq(V) /\ Len(first) = 1 /\ first[1] = Value(entry, "Time")
    <2>1. Value(entry, "Time") \in V
        OBVIOUS
    <2> HIDE DEF V
    <2> QED BY <2>1
<1>4. rest = [i \in 1..n |-> IF entry.results[i] \in answered
                             THEN Value(entry, entry.results[i]) ELSE Blank]
    BY <1>2 DEF ValueTexts
<1>5. rest \in Seq(V) /\ Len(rest) = n
    <2>1. \A i \in 1..n : rest[i] \in V
        BY <1>2, <1>4
    <2> HIDE DEF V, rest
    <2>2. rest \in [1..n -> V]
        BY <1>4, <2>1
    <2> HIDE DEF n
    <2> QED BY <1>2, <2>2
<1>6. /\ vals \in Seq(V) /\ Len(vals) = 1 + n
      /\ \A i \in 1..(1 + n) : vals[i] = IF i <= 1 THEN first[i] ELSE rest[i - 1]
    <2> HIDE DEF V, first, rest, n
    <2>1. /\ first \o rest \in Seq(V) /\ Len(first \o rest) = Len(first) + Len(rest)
          /\ \A i \in 1..(Len(first) + Len(rest)) :
                (first \o rest)[i] = IF i <= Len(first) THEN first[i] ELSE rest[i - Len(first)]
        BY <1>3, <1>5, ConcatProperties
    <2>2. Len(first) = 1 /\ Len(rest) = n
        BY <1>3, <1>5
    <2> QED BY <2>1, <2>2
<1> HIDE DEF vals
<1>7. vals[1] = ValueUnder(Columns(entry)[1])
    <2>1. vals[1] = Value(entry, "Time")
        <3>1. 1 \in 1..(1 + n) /\ 1 <= 1
            BY <1>2
        <3> QED BY <1>3, <1>6, <3>1
    <2>2. /\ Columns(entry)[1].ecu = entry.ecu /\ Columns(entry)[1].job = entry.job
          /\ Columns(entry)[1].result = "Time"
        BY <1>1
    <2> QED BY <2>1, <2>2 DEF ValueUnder, Value
<1>8. ASSUME NEW i \in 1..n, vals[1 + i] # Blank
      PROVE  vals[1 + i] = ValueUnder(Columns(entry)[1 + i])
    <2>1. vals[1 + i] = rest[i]
        <3>1. 1 + i \in 1..(1 + n) /\ ~(1 + i <= 1) /\ (1 + i) - 1 = i
            BY <1>2
        <3> HIDE DEF rest
        <3> QED BY <1>6, <3>1
    <2>2. rest[i] = Value(entry, entry.results[i])
        <3> HIDE DEF rest
        <3> QED BY <1>4, <1>8, <2>1
    <2>3. /\ Columns(entry)[1 + i].ecu = entry.ecu /\ Columns(entry)[1 + i].job = entry.job
          /\ Columns(entry)[1 + i].result = entry.results[i]
        <3>1. Columns(entry)[1 + i] =
                 [ecu |-> entry.ecu, job |-> entry.job, result |-> entry.results[i]]
            <4> HIDE DEF n
            <4> QED BY <1>1
        <3> QED BY <3>1
    <2> QED BY <2>1, <2>2, <2>3 DEF ValueUnder, Value
<1>9. ASSUME NEW i \in 1..(1 + n), vals[i] # Blank
      PROVE  vals[i] = ValueUnder(Columns(entry)[i])
    <2>1. i = 1 \/ (i - 1 \in 1..n /\ i = 1 + (i - 1))
        BY <1>2
    <2>2. CASE i = 1
        BY <1>7, <2>2
    <2>3. CASE i # 1
        <3>1. PICK j \in 1..n : i = 1 + j
            BY <2>1, <2>3
        <3> QED BY <1>8, <1>9, <3>1
    <2> QED BY <2>2, <2>3
<1>10. Under(vals, Columns(entry))
    <2>1. DOMAIN vals = 1..(1 + n) /\ vals = [i \in DOMAIN vals |-> vals[i]]
        <3> HIDE DEF V
        <3>1. vals \in [1..Len(vals) -> V]
            BY <1>6, LenProperties
        <3> QED BY <1>6, <3>1
    <2> HIDE DEF n
    <2> QED BY <1>1, <1>9, <2>1 DEF Under, n
<1> QED BY <1>3, <1>5, <1>6, <1>10 DEF vals

LEMMA RoundStarted ==
    ASSUME JobsInv, StartRound
    PROVE  RoundInv'
<1> DEFINE N == Len(Entries)
<1>1. turn' = Entries /\ line' = <<>> /\ jobs' = jobs
    BY DEF StartRound
<1>2. Entries' = Entries /\ HeaderOf(0)' = HeaderOf(0)
    BY <1>1, HeaderKept
<1>3. Entries \in Seq(EntrySet) /\ N \in Nat /\ HeaderOf(0) = <<>>
    BY EntriesListed, HeaderGrows, LenProperties
<1>4. SubSeq(Entries, 0 + 1, N) = Entries
    <2> DEFINE E == Entries
    <2> HIDE DEF E
    <2>1. E \in Seq(EntrySet) /\ Len(E) \in Nat
        BY <1>3 DEF E
    <2>2. \A i \in 1..Len(E) : E[i] \in EntrySet
        BY <2>1
    <2>3. /\ SubSeq(E, 1, Len(E)) \in Seq(EntrySet)
          /\ Len(SubSeq(E, 1, Len(E))) = IF 1 <= Len(E) THEN Len(E) - 1 + 1 ELSE 0
          /\ \A i \in 1..(Len(E) - 1 + 1) : SubSeq(E, 1, Len(E))[i] = E[1 + i - 1]
        BY <2>1, <2>2, SubSeqProperties
    <2>4. Len(SubSeq(E, 1, Len(E))) = Len(E)
        BY <2>1, <2>3
    <2>5. ASSUME NEW i \in 1..Len(E) PROVE SubSeq(E, 1, Len(E))[i] = E[i]
        <3>1. i \in 1..(Len(E) - 1 + 1) /\ 1 + i - 1 = i
            BY <2>1
        <3> QED BY <2>3, <3>1
    <2>6. SubSeq(E, 1, Len(E)) = E
        BY <2>1, <2>3, <2>4, <2>5, SeqEqual
    <2> QED BY <2>6 DEF E
<1>5. Under(<<>>, <<>>)'
    BY DEF Under
<1>6. 0 \in 0..N
    BY <1>3
<1>7. Under(line, HeaderOf(0))'
    BY <1>1, <1>2, <1>3, <1>5 DEF Under
<1> QED BY <1>1, <1>2, <1>4, <1>6, <1>7 DEF RoundInv

LEMMA RoundContinued ==
    ASSUME JobsInv, RoundInv, ExecuteEntry, phase' = "round"
    PROVE  RoundInv'
<1> DEFINE N == Len(Entries)
<1>1. PICK n \in 0..N : turn = SubSeq(Entries, n + 1, N) /\ Under(line, HeaderOf(n))
    BY DEF ExecuteEntry, RoundInv
<1> DEFINE entry == Head(turn)
<1>2. /\ turn # <<>> /\ UNCHANGED <<jobs, ecus>>
      /\ turn' = Tail(turn)
      /\ \E answered : line' = line \o <<Value(entry, "Time")>> \o ValueTexts(entry, answered)
    BY DEF ExecuteEntry, Goto
<1>3. PICK answered :
         line' = line \o <<Value(entry, "Time")>> \o ValueTexts(entry, answered)
    BY <1>2
<1>4. Entries \in Seq(EntrySet) /\ N \in Nat
    BY EntriesListed, LenProperties
<1>5. /\ n + 1 \in 1..N /\ entry = Entries[n + 1]
      /\ Tail(turn) = SubSeq(Entries, (n + 1) + 1, N)
    <2> DEFINE E == Entries
    <2> HIDE DEF E
    <2>1. E \in Seq(EntrySet) /\ n \in 0..Len(E) /\ turn = SubSeq(E, n + 1, Len(E))
        BY <1>1, <1>4 DEF E
    <2> QED BY <1>2, <2>1, RestOfSeq DEF E
<1>6. entry \in EntrySet
    BY <1>4, <1>5, ElementOfSeq
<1> DEFINE V == {Value(entry, r) : r \in ResultNames \cup {"Time"}} \cup {Blank}
           first == <<Value(entry, "Time")>>
           rest == ValueTexts(entry, answered)
<1>7. /\ first \in Seq(V) /\ rest \in Seq(V) /\ first \o rest \in Seq(V)
      /\ Under(first \o rest, Columns(entry))
    BY <1>6, ValuesUnder
<1>8. /\ HeaderOf(n) \in Seq(Heading) /\ Columns(entry) \in Seq(Heading)
      /\ HeaderOf(n + 1) = HeaderOf(n) \o Columns(entry)
    <2>1. \A k \in 0..N : HeaderOf(k) \in Seq(Heading)
        BY HeaderGrows
    <2>2. \A k \in 1..N : HeaderOf(k) = HeaderOf(k - 1) \o Columns(Entries[k])
        BY HeaderGrows
    <2>3. (n + 1) - 1 = n
        BY <1>4
    <2> HIDE DEF N, entry
    <2> QED BY <1>5, <1>6, <2>1, <2>2, <2>3, ColumnsOf
<1> DEFINE W == V \cup {line[i] : i \in DOMAIN line}
<1> HIDE DEF V, first, rest, entry, N
<1>9. line \in Seq(W) /\ first \in Seq(W) /\ rest \in Seq(W) /\ first \o rest \in Seq(W)
    <2>1. line \in Seq({line[i] : i \in DOMAIN line})
        BY <1>1, <1>8, UnderSeq
    <2>2. V \subseteq W /\ {line[i] : i \in DOMAIN line} \subseteq W
        OBVIOUS
    <2> HIDE DEF W
    <2> QED BY <1>7, <2>1, <2>2, SeqMonotonic
<1> HIDE DEF W
<1>10. line' = line \o (first \o rest)
    BY <1>3, <1>9, ConcatAssociative DEF first, rest
<1>11. Under(line \o (first \o rest), HeaderOf(n + 1))
    BY <1>1, <1>7, <1>8, <1>9, UnderGrows
<1>12. Entries' = Entries /\ HeaderOf(n + 1)' = HeaderOf(n + 1)
    BY <1>2, HeaderKept
<1>13. Under(line, HeaderOf(n + 1))'
    <2>1. Under(line', HeaderOf(n + 1))
        BY <1>10, <1>11
    <2> QED BY <1>2, <1>12, <2>1 DEF Under, ValueUnder
<1>14. n + 1 \in 0..N
    BY <1>4, <1>5 DEF N
<1> QED BY <1>2, <1>5, <1>12, <1>13, <1>14 DEF RoundInv, N

LEMMA LinesWritten ==
    ASSUME CommandsInv, LogInv, WriteHeader \/ StartRound \/ ExecuteEntry \/ WriteLine
    PROVE  LogInv'
<1>1. /\ UNCHANGED <<call, jobs, left>> /\ left = 0
      /\ phase \in {"specification", "line", "round"}
      /\ phase' \in {"line", "aborted", "round"}
    BY DEF WriteHeader, StartRound, ExecuteEntry, WriteLine, Proceed, Goto, workVars,
       logVars, LogInv, Going
<1>2. InLog
    BY <1>1 DEF InLog, Going
<1>3. CASE phase' # "round"
    BY <1>1, <1>2, <1>3, LogKept DEF LogInv, Lining, Going
<1>4. CASE phase' = "round"
    <2>1. StartRound \/ ExecuteEntry
        BY <1>4 DEF WriteHeader, WriteLine, Proceed, Goto
    <2>2. RoundInv'
        BY <1>4, <2>1, RoundStarted, RoundContinued DEF LogInv
    <2>3. JobsInv'
        BY <1>1, NamesKept DEF LogInv, JobsInv, IsEntry
    <2>4. SpecsInv'
        BY <1>1, <1>2 DEF LogInv, SpecsInv, Entered, Key
    <2>5. left' = 0 /\ phase' # "construct"
        BY <1>1, <1>4
    <2> QED BY <2>2, <2>3, <2>4, <2>5 DEF LogInv
<1> QED BY <1>3, <1>4

-----------------------------------------------------------------------------
LEMMA LogStep ==
    ASSUME CommandsInv, LogInv, [CommandsNext]_allVars
    PROVE  LogInv'
<1>0. InTurn /\ Counting
    BY DEF CommandsInv
<1>1. CASE CommandsNext
    BY <1>0, <1>1, StartLogs, LoaderLogs, ListingLogs, FindingLogs, RunningLogs,
       SpecificationsRead, LinesWritten DEF CommandsNext
<1>2. CASE UNCHANGED allVars
    <2>1. UNCHANGED <<call, phase, resume, left, ecus, jobs, turn, line>>
        BY <1>2 DEF allVars, commandVars, workVars, logVars
    <2>2. /\ Going' = Going /\ InLog' = InLog /\ Entries' = Entries
          /\ \A n : HeaderOf(n)' = HeaderOf(n)
        BY <2>1, LateKept, HeaderKept DEF Going, InLog
    <2>3. JobsInv'
        BY <2>1, NamesKept DEF LogInv, JobsInv, IsEntry
    <2>4. SpecsInv'
        <3> HIDE DEF InLog
        <3> QED BY <2>1, <2>2 DEF LogInv, SpecsInv, Entered, Key
    <2>5. RoundInv'
        <3> HIDE DEF Entries, HeaderOf
        <3> QED BY <2>1, <2>2 DEF LogInv, RoundInv, Under, ValueUnder
    <2> HIDE DEF Going
    <2> QED BY <2>1, <2>2, <2>3, <2>4, <2>5 DEF LogInv
<1> QED BY <1>1, <1>2

LEMMA LogInvImpliesAligned ==
    ASSUME CommandsInv, LogInv
    PROVE  LogAligned
<1> DEFINE N == Len(Entries)
<1>1. SUFFICES ASSUME phase = "round", turn = <<>>
               PROVE  /\ Len(line) = Len(Header)
                      /\ \A i \in DOMAIN line : line[i] # Blank =>
                            line[i] = ValueUnder(Header[i])
                      /\ \A spec \in ToSet(call.specs) : \A name \in ToSet(spec.results) :
                            [ecu |-> spec.ecu, job |-> spec.job, result |-> name]
                               \in ToSet(Header)
    BY DEF LogAligned, ValueUnder
<1>2. JobsInv /\ Header = HeaderOf(N) /\ N \in Nat /\ Header \in Seq(Heading)
      /\ Entries \in Seq(EntrySet) /\ EntrySet \subseteq ToSet(Entries)
    <2>1. JobsInv
        BY DEF LogInv
    <2>2. Entries \in Seq(EntrySet) /\ EntrySet \subseteq ToSet(Entries) /\ N \in Nat
        BY <2>1, EntriesListed, LenProperties
    <2>3. Header = HeaderOf(N) /\ \A k \in 0..N : HeaderOf(k) \in Seq(Heading)
        BY <2>1, HeaderGrows
    <2>4. N \in 0..N
        BY <2>2
    <2> QED BY <2>1, <2>2, <2>3, <2>4
<1>3. Under(line, Header)
    <2>1. PICK n \in 0..N : turn = SubSeq(Entries, n + 1, N) /\ Under(line, HeaderOf(n))
        BY <1>1 DEF LogInv, RoundInv
    <2>2. n = N
        <3> SUFFICES ASSUME n < N PROVE FALSE
            BY <1>2
        <3>1. \A i \in (n + 1)..N : Entries[i] \in EntrySet
            BY <1>2
        <3>2. n + 1 \in Int /\ N \in Int /\ n + 1 <= N
            BY <1>2
        <3> HIDE DEF N
        <3>3. Len(turn) = N - (n + 1) + 1
            BY <2>1, <3>1, <3>2, SubSeqProperties
        <3>4. Len(turn) = 0
            BY <1>1
        <3> QED BY <3>2, <3>3, <3>4
    <2> QED BY <1>2, <2>1, <2>2
<1>4. Len(line) = Len(Header)
    <2>1. DOMAIN line = 1..Len(Header) /\ Len(Header) \in Nat
        BY <1>2, <1>3, LenProperties DEF Under
    <2>2. line \in Seq({line[i] : i \in DOMAIN line})
        BY <1>2, <1>3, UnderSeq
    <2> QED BY <2>1, <2>2, LenProperties
<1>5. ASSUME NEW spec \in ToSet(call.specs), NEW name \in ToSet(spec.results)
      PROVE  [ecu |-> spec.ecu, job |-> spec.job, result |-> name] \in ToSet(Header)
    <2>1. left = 0 /\ InLog
        BY <1>1 DEF LogInv, Going, InLog
    <2>2. Entered(spec)
        <3>1. call.specs \in Seq(ToSet(call.specs)) /\ Len(call.specs) \in Nat
            BY CommandsAssumption, SpecsTyped DEF CommandsAssumption, CommandsInv, InTurn
        <3>2. PICK i \in 1..Len(call.specs) : spec = call.specs[i]
            BY <3>1 DEF ToSet
        <3>3. i \in 1..(Len(call.specs) - left)
            BY <2>1, <3>1
        <3> QED BY <2>1, <3>2, <3>3 DEF LogInv, SpecsInv
    <2> DEFINE entry == jobs[Key(spec)]
    <2>3. /\ entry \in EntrySet /\ entry.ecu = spec.ecu /\ entry.job = spec.job
          /\ name \in ToSet(entry.results)
        <3>1. Key(spec) \in DOMAIN jobs /\ name \in ToSet(entry.results)
            BY <2>2 DEF Entered
        <3>2. IsEntry(entry, Key(spec))
            BY <1>2, <3>1 DEF JobsInv
        <3>3. <<spec.ecu, spec.job>> = <<entry.ecu, entry.job>>
            BY <3>2 DEF IsEntry, Key
        <3>4. entry \in EntrySet
            BY <3>1 DEF EntrySet
        <3> HIDE DEF entry
        <3> QED BY <3>1, <3>3, <3>4
    <2> HIDE DEF entry
    <2>4. PICK e \in 1..N : Entries[e] = entry
        <3>1. entry \in ToSet(Entries) /\ DOMAIN Entries = 1..N
            BY <1>2, <2>3, LenProperties
        <3> QED BY <3>1 DEF ToSet
    <2>5. [ecu |-> spec.ecu, job |-> spec.job, result |-> name] \in ToSet(Columns(entry))
        <3>1. /\ entry.results \in Seq(ResultNames) /\ Columns(entry) \in Seq(Heading)
              /\ Len(Columns(entry)) = 1 + Len(entry.results)
              /\ \A i \in 1..Len(entry.results) : Columns(entry)[1 + i] =
                    [ecu |-> entry.ecu, job |-> entry.job, result |-> entry.results[i]]
            BY <1>2, <2>3, ColumnsOf
        <3>2. PICK i \in 1..Len(entry.results) : name = entry.results[i]
            BY <2>3, <3>1 DEF ToSet
        <3>3. 1 + i \in 1..Len(Columns(entry)) /\ DOMAIN Columns(entry) = 1..Len(Columns(entry))
            BY <3>1, LenProperties
        <3> QED BY <2>3, <3>1, <3>2, <3>3 DEF ToSet
    <2>6. /\ AllColumns \in Seq(Seq(Heading)) /\ e \in 1..Len(AllColumns)
          /\ AllColumns[e] = Columns(entry)
        BY <1>2, <2>4, AllColumnsOf
    <2>7. Header = FlattenSeq(AllColumns)
        BY DEF Header, AllColumns
    <2> QED BY <2>5, <2>6, <2>7, FlattenHas
<1> QED BY <1>3, <1>4, <1>5 DEF Under

(* dataLog (ds2-dump.cpp): a line of the data log has one column under     *)
(* each heading, and what it says there was read from that ECU, by that    *)
(* job, for that result; every result asked for has a heading.             *)
THEOREM LinesAligned == CommandsSpec => []LogAligned
<1>1. CommandsInit => LogInv
    <2> SUFFICES ASSUME CommandsInit PROVE LogInv
        OBVIOUS
    <2>1. DOMAIN jobs = {} /\ IsFiniteSet({}) /\ Going = "start" /\ phase = "start"
        BY FS_EmptySet DEF CommandsInit, Going
    <2>2. ~InLog
        <3> HIDE DEF Going
        <3> QED BY <2>1 DEF InLog
    <2> HIDE DEF Going
    <2> QED BY <2>1, <2>2 DEF LogInv, JobsInv, SpecsInv, RoundInv
<1>2. CommandsInv /\ LogInv /\ [CommandsNext]_allVars => LogInv'
    BY LogStep
<1>3. CommandsInv /\ LogInv => LogAligned
    BY LogInvImpliesAligned
<1> QED BY <1>1, <1>2, <1>3, CommandsInvHolds, PTL DEF CommandsSpec

=============================================================================
