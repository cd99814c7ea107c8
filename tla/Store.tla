-------------------------------- MODULE Store --------------------------------
(***************************************************************************)
(* ds2-dump --reload: Manager::initializeDatabase and the removal methods  *)
(* (libds2/manager.cpp) with DPP_V1_Parser (libds2/dpp_v1_parser.cpp) read *)
(* the definition files into the SQLite database, file by file, each in a  *)
(* transaction.  The process may be killed at any point, and the files     *)
(* edited before it is run again.                                          *)
(*                                                                         *)
(* An exception of the loader is caught nowhere: the process ends, and     *)
(* SQLite rolls an open transaction back.  A file is known by its uuids,   *)
(* its part numbers, its diagnosis indexes and whether the code accepts its *)
(* other fields; a result goes with the operation it belongs to.           *)
(***************************************************************************)
EXTENDS Naturals, FiniteSets, Sequences

CONSTANTS
    Disks,      \* the sets of files a user may have in the json directory
    MaxLoads,   \* bound: how often the loader is run
    LargestIndex    \* of a diagnosis index, a quint64: 2^64 - 1

(* A definition file: its operations with the uuids of their results, its  *)
(* diagnosis indexes, given singly or as ranges.                           *)
EcuFiles == {f \in UNION Disks : f.kind = "ecu"}
TableFiles == {f \in UNION Disks : f.kind = "table"}

ASSUME StoreAssumption ==
    /\ \A f \in UNION Disks : f.kind \in {"ecu", "table", "unreadable"}
    /\ \A f \in EcuFiles : f.sound \in BOOLEAN
    /\ \A f \in EcuFiles : \A o \in f.ops :
          o = [uuid |-> o.uuid, results |-> o.results]
    /\ \A f \in EcuFiles :
          /\ f.indexes \subseteq 0..LargestIndex
          /\ f.ranges \in Seq([low : 0..LargestIndex, high : 0..LargestIndex])
    /\ MaxLoads \in Nat /\ LargestIndex \in Nat

VARIABLES
    disk,       \* the files of this load
    db,         \* what is committed
    work,       \* what the connection sees
    txn,        \* a transaction is open
    stage,      \* where the loader is
    todo,       \* files the directory iterator has not come to
    file,       \* the file being loaded
    ranges,     \* its ranges of indexes, the first one being counted
    indexes,    \* diagIndexes
    opsLeft,    \* its operations not yet inserted
    known,      \* _knownUuids
    loads,      \* loads started
    ended,      \* how the last load ended
    before,     \* history: the modules committed when it started
    clashed     \* history: a string table was refused for its name

fileVars == <<file, ranges, indexes, opsLeft>>
loadVars == <<stage, todo, fileVars, known, ended>>
dbVars == <<db, work, txn>>
runVars == <<disk, loads, before>>
vars == <<dbVars, loadVars, runVars, clashed>>

NoFile == [kind |-> "none"]
Empty == [modules |-> {}, operations |-> {}, partNumbers |-> {},
          diagIndexes |-> {}, tables |-> {}, values |-> {}]

-----------------------------------------------------------------------------
(* SQL statements: outside a transaction each one is committed at once.    *)

Write(new) ==
    /\ work' = new
    /\ db' = IF txn THEN db ELSE new
    /\ UNCHANGED txn

Begin_Forgotten(new) == Write(new)
Begin(new) == txn' = TRUE /\ work' = new /\ UNCHANGED db
Commit(new) == txn' = FALSE /\ work' = new /\ db' = new
Rollback == txn' = FALSE /\ work' = db /\ UNCHANGED db

(* removeModuleByUuid: part numbers and diagnosis indexes stay behind.     *)
WithoutModule_KeepOperations(d, u) == [d EXCEPT !.modules = @ \ {u}]
WithoutModule_NoWhere(d, u) == [d EXCEPT !.operations = {}, !.modules = {}]
WithoutModule(d, u) ==
    [d EXCEPT !.operations = {o \in @ : o.module # u}, !.modules = @ \ {u}]

WithoutTable_KeepValues(d, u) ==
    [d EXCEPT !.tables = {t \in @ : t.uuid # u}]
WithoutTable(d, u) ==
    [d EXCEPT !.tables = {t \in @ : t.uuid # u},
              !.values = {v \in @ : v.table # u}]

(* UNIQUE: the uuids of operations and of results.                         *)
UuidTaken(d, o) ==
    \E p \in d.operations : p.uuid = o.uuid \/ p.results \cap o.results # {}

NameTaken(d, f) == \E t \in d.tables : t.name = f.name

-----------------------------------------------------------------------------
Init ==
    /\ disk = {} /\ db = Empty /\ work = Empty /\ txn = FALSE
    /\ stage = "idle" /\ todo = {} /\ file = NoFile /\ opsLeft = {}
    /\ ranges = <<>> /\ indexes = {}
    /\ known = {} /\ loads = 0 /\ ended = "never" /\ before = {}
    /\ clashed = FALSE

(* A new process and a new parser, on the files as they are now.           *)
StartLoad(d) ==
    /\ stage = "idle" /\ loads < MaxLoads
    /\ loads' = loads + 1
    /\ disk' = d /\ todo' = d
    /\ stage' = "pick" /\ known' = {} /\ ended' = "running"
    /\ before' = db.modules
    /\ clashed' = FALSE
    /\ UNCHANGED <<dbVars, fileVars>>

(* The process is gone, with its connection.                               *)
Stop(how) ==
    /\ Rollback
    /\ stage' = "idle" /\ ended' = how
    /\ file' = NoFile /\ opsLeft' = {} /\ todo' = {}
    /\ ranges' = <<>> /\ indexes' = {}
    /\ UNCHANGED <<known, runVars, clashed>>

(* The iterator has moved on before the file is read.                      *)
After(f) == todo \ {f}

(* parseFile.  Unreadable files are reported and skipped.                  *)
OpenFile(f) ==
    /\ stage = "pick" /\ f \in todo
    /\ \/ /\ f.kind = "unreadable"
          /\ todo' = After(f)
          /\ UNCHANGED <<dbVars, stage, fileVars, known, ended, runVars,
                         clashed>>
       \/ /\ f.kind # "unreadable" /\ f.uuid \in known
          /\ Stop("aborted")
       \/ /\ f.kind # "unreadable" /\ f.uuid \notin known
          /\ known' = known \cup {f.uuid}
          /\ todo' = After(f)
          /\ file' = f
          /\ stage' = IF f.kind = "ecu" THEN "remove" ELSE "table"
          /\ UNCHANGED <<dbVars, ranges, indexes, opsLeft, ended, runVars,
                         clashed>>

(* Called whether or not the module exists, since findModuleRecordByUuid   *)
(* never returns an empty record.  With a transaction left open its BEGIN  *)
(* fails, and the failure path rolls that transaction back.                *)
RemoveModule ==
    /\ stage = "remove"
    /\ IF txn THEN Rollback ELSE Commit(WithoutModule(work, file.uuid))
    /\ stage' = "begin"
    /\ UNCHANGED <<todo, fileVars, known, ended, runVars, clashed>>

BeginModule ==
    /\ stage = "begin"
    /\ Begin([work EXCEPT !.partNumbers =
                 @ \cup {[module |-> file.uuid, pn |-> n] : n \in file.pns}])
    /\ ranges' = file.ranges /\ indexes' = file.indexes
    /\ stage' = "indexes"
    /\ UNCHANGED <<todo, file, opsLeft, known, ended, runVars, clashed>>

(* The loop over a range, i from low to high: ++i wraps around, and no i   *)
(* is greater than the largest number.                                     *)
Incremented_Byte(n) == (n + 1) % (1 + LargestIndex \div 2)
Incremented(n) == (n + 1) % (1 + LargestIndex)

Within_Below(i, high) == i < high
Within(i, high) == i <= high

NextIndex ==
    /\ stage = "indexes" /\ ranges # <<>>
    /\ LET i == Head(ranges).low
           high == Head(ranges).high
       IN  IF Within(i, high)
           THEN /\ indexes' = indexes \cup {i}
                /\ ranges' = <<[low |-> Incremented(i), high |-> high]>>
                                \o Tail(ranges)
           ELSE ranges' = Tail(ranges) /\ UNCHANGED indexes
    /\ UNCHANGED <<dbVars, stage, todo, file, opsLeft, known, ended, runVars,
                   clashed>>

InsertIndexes ==
    /\ stage = "indexes" /\ ranges = <<>>
    /\ Write([work EXCEPT !.diagIndexes =
                 @ \cup {[module |-> file.uuid, index |-> i] : i \in indexes}])
    /\ opsLeft' = file.ops
    /\ stage' = "ops"
    /\ UNCHANGED <<todo, file, ranges, indexes, known, ended, runVars, clashed>>

(* parseOperationJson with parseResultJson; findOperationByUuid and        *)
(* findResultByUuid find nothing, as the driver reports no result sizes.   *)
OpUuids(o) == {o.uuid} \cup o.results
InsertOperation(o) ==
    /\ stage = "ops" /\ o \in opsLeft
    /\ IF OpUuids(o) \cap known # {} \/ UuidTaken(work, o)
       THEN Stop("aborted")
       ELSE /\ Write([work EXCEPT !.operations =
                         @ \cup {[uuid |-> o.uuid, results |-> o.results,
                                  module |-> file.uuid]}])
            /\ known' = known \cup OpUuids(o)
            /\ opsLeft' = opsLeft \ {o}
            /\ UNCHANGED <<stage, todo, file, ranges, indexes, ended, runVars,
                           clashed>>

(* An invalid address, command byte or missing column throws.              *)
RejectModule ==
    /\ stage \in {"indexes", "ops"} /\ ~file.sound
    /\ Stop("aborted")

(* The row of the module comes last, and completes the transaction.        *)
InsertModule ==
    /\ stage = "ops" /\ opsLeft = {} /\ file.sound
    /\ IF file.uuid \in work.modules
       THEN Stop("aborted")
       ELSE /\ Commit([work EXCEPT !.modules = @ \cup {file.uuid}])
            /\ stage' = "pick" /\ file' = NoFile
            /\ UNCHANGED <<todo, ranges, indexes, opsLeft, known, ended,
                           runVars, clashed>>

(* parseStringTableFile.  BEGIN fails unnoticed in an open transaction.    *)
BeginTable ==
    /\ stage = "table"
    /\ Begin(WithoutTable(work, file.uuid))
    /\ stage' = "name"
    /\ UNCHANGED <<todo, fileVars, known, ended, runVars, clashed>>

(* A refused name returns without COMMIT or ROLLBACK.                      *)
InsertTable ==
    /\ stage = "name"
    /\ IF NameTaken(work, file)
       THEN /\ stage' = "pick" /\ file' = NoFile /\ clashed' = TRUE
            /\ UNCHANGED <<dbVars, todo, ranges, indexes, opsLeft, known, ended,
                           runVars>>
       ELSE /\ Write([work EXCEPT !.tables =
                         @ \cup {[uuid |-> file.uuid, name |-> file.name]}])
            /\ stage' = "values"
            /\ UNCHANGED <<todo, fileVars, known, ended, runVars, clashed>>

InsertValues ==
    /\ stage = "values"
    /\ IF file.sound
       THEN /\ Commit([work EXCEPT !.values =
                          @ \cup {[table |-> file.uuid, value |-> v] :
                                     v \in file.values}])
            /\ stage' = "pick" /\ file' = NoFile
            /\ UNCHANGED <<todo, ranges, indexes, opsLeft, known, ended,
                           runVars, clashed>>
       ELSE Stop("aborted")

FinishLoad ==
    /\ stage = "pick" /\ todo = {}
    /\ Stop("completed")

Crash ==
    /\ stage # "idle"
    /\ Stop("crashed")

Step ==
    \/ \E f \in todo : OpenFile(f)
    \/ RemoveModule
    \/ BeginModule
    \/ NextIndex
    \/ InsertIndexes
    \/ \E o \in opsLeft : InsertOperation(o)
    \/ RejectModule
    \/ InsertModule
    \/ BeginTable
    \/ InsertTable
    \/ InsertValues
    \/ FinishLoad

Next == (\E d \in Disks : StartLoad(d)) \/ Step \/ Crash

Spec == Init /\ [][Next]_vars

(* The loader runs alone and waits for nobody; nothing makes a user start  *)
(* it, or a crash happen.                                                  *)
FairSpec == Spec /\ WF_vars(Step)

-----------------------------------------------------------------------------
EcuUuids == {f.uuid : f \in EcuFiles}
OpsOf(d, u) == {[uuid |-> o.uuid, results |-> o.results] :
                   o \in {p \in d.operations : p.module = u}}

(* Type invariant: outside a transaction the connection sees what is       *)
(* committed, and only an open transaction waits for rows.                 *)
TypeOK ==
    /\ txn \in BOOLEAN /\ clashed \in BOOLEAN
    /\ ~txn => work = db
    /\ stage \in {"indexes", "ops", "name", "values"} => txn
    /\ stage \in {"begin", "idle"} => ~txn
    /\ db.modules \cup work.modules \subseteq EcuUuids
    /\ todo \subseteq disk
    /\ indexes \subseteq 0..LargestIndex
    /\ loads \in 0..MaxLoads

(* Whatever is interrupted, the committed tables fit together: no          *)
(* operation without its module, no value without its table, no two        *)
(* tables of one name (the transactions of the loader).                    *)
NoOrphans ==
    /\ \A o \in db.operations : o.module \in db.modules
    /\ \A v \in db.values : \E t \in db.tables : t.uuid = v.table
    /\ \A s, t \in db.tables : s.name = t.name => s = t

(* A load that is killed or gives up has cost at most the one module it    *)
(* was replacing (removeModuleByUuid commits on its own).                  *)
AtMostOneLost == Cardinality(before \ db.modules) <= 1

(* A load that ends normally has put every module on disk, and unless a    *)
(* name clashed every string table, into the database as its file says.    *)
CompletedMatchesDisk ==
    ended = "completed" =>
        /\ before \subseteq db.modules
        /\ \A f \in disk \cap EcuFiles :
              f.uuid \in db.modules /\ OpsOf(db, f.uuid) = f.ops
        /\ ~clashed => \A f \in disk \cap TableFiles :
              /\ [uuid |-> f.uuid, name |-> f.name] \in db.tables
              /\ {v \in db.values : v.table = f.uuid} =
                    {[table |-> f.uuid, value |-> v] : v \in f.values}

(* The database as a catalogue of whole definitions.                       *)
CatalogueOf(d) ==
    [u \in EcuUuids |-> IF u \in d.modules THEN {OpsOf(d, u)} ELSE {}]
Promise == INSTANCE Catalogue
           WITH Uuids <- EcuUuids, Contents <- {{f.ops} : f \in EcuFiles},
                Nothing <- {}, catalogue <- CatalogueOf(db)
ImplementsCatalogue == Promise!Spec

(* Every index a file names, singly or in a range, is in the database      *)
(* after a load that ends normally: a unit is found by it                  *)
(* (findModuleByMatchingIdentPacket).                                      *)
IndexesOf(f) ==
    f.indexes \cup {i \in 0..LargestIndex : \E k \in DOMAIN f.ranges :
                       f.ranges[k].low <= i /\ i <= f.ranges[k].high}
IndexesStored ==
    ended = "completed" =>
        \A f \in disk \cap EcuFiles : \A i \in IndexesOf(f) :
            [module |-> f.uuid, index |-> i] \in db.diagIndexes

(* Every load comes to an end (initializeDatabase), unless a file has a    *)
(* range up to the largest number: the loop over that one has none         *)
(* (parseEcuFile).                                                         *)
Counted(f) ==
    f.kind = "ecu" => \A k \in DOMAIN f.ranges : f.ranges[k].high < LargestIndex
LoadEnds == (stage # "idle" /\ \A f \in disk : Counted(f)) ~> (stage = "idle")

(* A module is recognised by the part numbers of its file, "Exact match"   *)
(* (dpp-json/README.md); loading it again overwrites the old definition.   *)
PartNumbersMatchDisk ==
    ended = "completed" =>
        \A f \in disk \cap EcuFiles : \A r \in db.partNumbers :
            r.module = f.uuid => r.pn \in f.pns

(* An operation that exists is overwritten ("Operation exists,             *)
(* overwriting", parseOperationJson): files with nothing wrong in them     *)
(* load, whatever was loaded before.                                       *)
SoundFiles ==
    /\ \A f \in disk : f.kind = "ecu" /\ f.sound
    /\ \A f, g \in disk : f # g => f.uuid # g.uuid
    /\ \A f, g \in disk : \A o \in f.ops : \A p \in g.ops :
          <<f, o>> # <<g, p>> => OpUuids(o) \cap OpUuids(p) = {}
SoundFilesLoad == ended = "aborted" => ~SoundFiles
=============================================================================
