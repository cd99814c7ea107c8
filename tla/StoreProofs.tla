----------------------------- MODULE StoreProofs -----------------------------
(***************************************************************************)
(* Theorems about module Store, for every set of definition files and any  *)
(* number of loads and crashes: what a crash can leave behind, and that a  *)
(* load that ends normally leaves the database as the files say, whatever  *)
(* earlier loads left behind (Completion).                                 *)
(***************************************************************************)
EXTENDS Store, FiniteSetTheorems, SequenceTheorems, TLAPS

IsDb(d) ==
    d = [modules |-> d.modules, operations |-> d.operations,
         partNumbers |-> d.partNumbers,
         diagIndexes |-> d.diagIndexes, tables |-> d.tables,
         values |-> d.values]

(* The tables fit together, but for the operations of the modules in U.    *)
Fits(d, U) ==
    /\ \A o \in d.operations : o.module \in d.modules \cup U
    /\ \A v \in d.values : \E t \in d.tables : t.uuid = v.table
    /\ \A s, t \in d.tables : s.name = t.name => s = t

IndexRange == [low : 0..LargestIndex, high : 0..LargestIndex]

RowOf(o) == [uuid |-> o.uuid, results |-> o.results, module |-> file.uuid]

Shape ==
    /\ TypeOK
    /\ IsDb(db) /\ IsDb(work)
    /\ disk \subseteq UNION Disks
    /\ stage \in {"idle", "pick", "remove", "begin", "indexes", "ops", "table",
                  "name", "values"}
    /\ stage \in {"remove", "begin", "indexes", "ops"} => file \in EcuFiles
    /\ stage \in {"table", "name", "values"} => file \in TableFiles
    /\ stage = "ops" => opsLeft \subseteq file.ops
    /\ ranges \in Seq(IndexRange)

(* What an open transaction has changed: never the modules, and the        *)
(* operations only of the file in hand.                                    *)
Pending ==
    /\ work.modules = db.modules
    /\ stage # "ops" => work.operations = db.operations
    /\ stage = "ops" => work.operations =
          db.operations \cup {RowOf(o) : o \in file.ops \ opsLeft}

Fitting ==
    /\ Fits(db, {})
    /\ Fits(work, IF stage = "ops" THEN {file.uuid} ELSE {})
    /\ stage = "values" =>
          [uuid |-> file.uuid, name |-> file.name] \in work.tables

(* Only the module in hand is missing of those there before.               *)
Lost ==
    /\ stage \notin {"begin", "indexes", "ops", "idle"} => before \subseteq db.modules
    /\ stage \in {"begin", "indexes", "ops"} =>
          before \subseteq db.modules \cup {file.uuid}
    /\ stage = "idle" => \E u : before \subseteq db.modules \cup {u}

Inv == Shape /\ Pending /\ Fitting /\ Lost

-----------------------------------------------------------------------------
(* What the edits of the database change, field by field.                  *)

LEMMA WithoutModuleIs ==
    ASSUME NEW d, IsDb(d), NEW u
    PROVE  WithoutModule(d, u) =
              [modules |-> d.modules \ {u},
               operations |-> {o \in d.operations : o.module # u},
               partNumbers |-> d.partNumbers,
               diagIndexes |-> d.diagIndexes, tables |-> d.tables,
               values |-> d.values]
<1> DEFINE kept == {o \in d.operations : o.module # u}
<1>1. WithoutModule(d, u) = [[d EXCEPT !.operations = kept]
                               EXCEPT !.modules = @ \ {u}]
    BY Zenon DEF WithoutModule
<1> HIDE DEF kept
<1>2. WithoutModule(d, u) =
        [modules |-> d.modules \ {u}, operations |-> kept,
         partNumbers |-> d.partNumbers,
         diagIndexes |-> d.diagIndexes, tables |-> d.tables,
         values |-> d.values]
    BY <1>1 DEF IsDb
<1> QED BY <1>2 DEF kept

LEMMA WithoutTableIs ==
    ASSUME NEW d, IsDb(d), NEW u
    PROVE  WithoutTable(d, u) =
              [modules |-> d.modules, operations |-> d.operations,
               partNumbers |-> d.partNumbers,
               diagIndexes |-> d.diagIndexes,
               tables |-> {t \in d.tables : t.uuid # u},
               values |-> {v \in d.values : v.table # u}]
<1> DEFINE ts == {t \in d.tables : t.uuid # u}
           vs == {v \in d.values : v.table # u}
<1>1. WithoutTable(d, u) = [[d EXCEPT !.tables = ts] EXCEPT !.values = vs]
    BY Zenon DEF WithoutTable
<1> HIDE DEF ts, vs
<1>2. WithoutTable(d, u) =
        [modules |-> d.modules, operations |-> d.operations,
         partNumbers |-> d.partNumbers,
         diagIndexes |-> d.diagIndexes, tables |-> ts, values |-> vs]
    BY <1>1 DEF IsDb
<1> QED BY <1>2 DEF ts, vs

LEMMA PartNumbersEdit ==
    ASSUME NEW d, IsDb(d), NEW X
    PROVE  [d EXCEPT !.partNumbers = @ \cup X] =
              [modules |-> d.modules, operations |-> d.operations,
               partNumbers |-> d.partNumbers \cup X,
               diagIndexes |-> d.diagIndexes, tables |-> d.tables,
               values |-> d.values]
BY DEF IsDb

LEMMA IndexesEdit ==
    ASSUME NEW d, IsDb(d), NEW X
    PROVE  [d EXCEPT !.diagIndexes = @ \cup X] =
              [modules |-> d.modules, operations |-> d.operations,
               partNumbers |-> d.partNumbers,
               diagIndexes |-> d.diagIndexes \cup X, tables |-> d.tables,
               values |-> d.values]
BY DEF IsDb

LEMMA OperationsEdit ==
    ASSUME NEW d, IsDb(d), NEW X
    PROVE  [d EXCEPT !.operations = @ \cup X] =
              [modules |-> d.modules, operations |-> d.operations \cup X,
               partNumbers |-> d.partNumbers,
               diagIndexes |-> d.diagIndexes, tables |-> d.tables,
               values |-> d.values]
BY DEF IsDb

LEMMA ModulesEdit ==
    ASSUME NEW d, IsDb(d), NEW X
    PROVE  [d EXCEPT !.modules = @ \cup X] =
              [modules |-> d.modules \cup X, operations |-> d.operations,
               partNumbers |-> d.partNumbers,
               diagIndexes |-> d.diagIndexes, tables |-> d.tables,
               values |-> d.values]
BY DEF IsDb

LEMMA TablesEdit ==
    ASSUME NEW d, IsDb(d), NEW X
    PROVE  [d EXCEPT !.tables = @ \cup X] =
              [modules |-> d.modules, operations |-> d.operations,
               partNumbers |-> d.partNumbers,
               diagIndexes |-> d.diagIndexes, tables |-> d.tables \cup X,
               values |-> d.values]
BY DEF IsDb

LEMMA ValuesEdit ==
    ASSUME NEW d, IsDb(d), NEW X
    PROVE  [d EXCEPT !.values = @ \cup X] =
              [modules |-> d.modules, operations |-> d.operations,
               partNumbers |-> d.partNumbers,
               diagIndexes |-> d.diagIndexes, tables |-> d.tables,
               values |-> d.values \cup X]
BY DEF IsDb

-----------------------------------------------------------------------------
LEMMA EmptyRanges == <<>> \in Seq(IndexRange)
OBVIOUS

LEMMA InitInv == Init => Inv
<1> SUFFICES ASSUME Init PROVE Inv
    OBVIOUS
<1> USE DEF Init
<1>1. Shape
  <2>1. loads \in 0..MaxLoads
      BY StoreAssumption
  <2>2. IsDb(db) /\ IsDb(work)
      BY DEF IsDb, Empty
  <2>3. ranges \in Seq(IndexRange)
      BY EmptyRanges
  <2> QED BY <2>1, <2>2, <2>3 DEF Shape, TypeOK, Empty
<1>2. Pending
    BY DEF Pending, Empty
<1>3. Fitting
    BY DEF Fitting, Fits, Empty
<1>4. Lost
    BY DEF Lost
<1> QED BY <1>1, <1>2, <1>3, <1>4 DEF Inv

LEMMA StartLoadInv ==
    ASSUME Inv, NEW d \in Disks, StartLoad(d)
    PROVE  Inv'
<1> USE DEF Inv, StartLoad, fileVars, dbVars
<1>1. Shape'
  <2>1. loads' \in 0..MaxLoads
      BY StoreAssumption DEF Shape, TypeOK
  <2>2. disk' \subseteq UNION Disks
      OBVIOUS
  <2> QED BY <2>1, <2>2 DEF Shape, TypeOK, IsDb
<1>2. Pending'
    BY DEF Pending
<1>3. Fitting'
    BY DEF Fitting, Fits
<1>4. Lost'
    BY DEF Lost
<1> QED BY <1>1, <1>2, <1>3, <1>4

(* A process that is gone leaves what is committed.                        *)
LEMMA StopInv ==
    ASSUME Inv, NEW how, Stop(how)
    PROVE  Inv'
<1> USE DEF Inv, Stop, Rollback, runVars
<1>1. Shape'
    BY EmptyRanges DEF Shape, TypeOK, IsDb
<1>2. Pending'
    BY DEF Pending
<1>3. Fitting'
    BY DEF Fitting, Fits
<1>4. Lost'
    BY DEF Lost, Shape
<1> QED BY <1>1, <1>2, <1>3, <1>4

LEMMA OpenFileInv ==
    ASSUME Inv, NEW f \in todo, OpenFile(f)
    PROVE  Inv'
<1>1. CASE Stop("aborted")
    BY <1>1, StopInv
<1>2. CASE f.kind = "unreadable" /\ ~Stop("aborted")
  <2> USE <1>2 DEF Inv, OpenFile, fileVars, After, dbVars, runVars
  <2>1. Shape'
      BY DEF Shape, TypeOK, IsDb
  <2>2. Pending'
      BY DEF Pending, RowOf
  <2>3. Fitting'
      BY DEF Fitting, Fits
  <2>4. Lost'
      BY DEF Lost
  <2> QED BY <2>1, <2>2, <2>3, <2>4
<1>3. CASE f.kind # "unreadable" /\ ~Stop("aborted")
  <2> USE <1>3 DEF Inv, OpenFile, fileVars, After, dbVars, runVars
  <2>1. f \in UNION Disks /\ f.kind \in {"ecu", "table"}
      BY StoreAssumption DEF Shape, TypeOK
  <2>2. Shape'
      BY <2>1 DEF Shape, TypeOK, IsDb, EcuFiles, TableFiles
  <2>3. Pending'
      BY DEF Pending, RowOf
  <2>4. Fitting'
      BY DEF Fitting, Fits
  <2>5. Lost'
      BY DEF Lost
  <2> QED BY <2>2, <2>3, <2>4, <2>5
<1> QED BY <1>1, <1>2, <1>3

LEMMA RemoveModuleInv ==
    ASSUME Inv, RemoveModule
    PROVE  Inv'
<1> USE DEF Inv, RemoveModule, fileVars, runVars
<1>1. CASE txn
  <2> USE <1>1 DEF Rollback
  <2>1. Shape'
      BY DEF Shape, TypeOK, IsDb
  <2>2. Pending'
      BY DEF Pending
  <2>3. Fitting'
      BY DEF Fitting, Fits
  <2>4. Lost'
      BY DEF Lost
  <2> QED BY <2>1, <2>2, <2>3, <2>4
<1>2. CASE ~txn
  <2> USE <1>2 DEF Commit
  <2>1. /\ txn' = FALSE /\ work' = db'
        /\ db' = [modules |-> db.modules \ {file.uuid},
                  operations |->
                      {o \in db.operations : o.module # file.uuid},
                  partNumbers |-> db.partNumbers,
                  diagIndexes |-> db.diagIndexes, tables |-> db.tables,
                  values |-> db.values]
      BY WithoutModuleIs DEF Shape, TypeOK
  <2>2. Shape'
      BY <2>1 DEF Shape, TypeOK, IsDb
  <2>3. Pending'
      BY <2>1 DEF Pending
  <2>4. Fitting'
      BY <2>1 DEF Fitting, Fits
  <2>5. Lost'
      BY <2>1 DEF Lost
  <2> QED BY <2>2, <2>3, <2>4, <2>5
<1> QED BY <1>1, <1>2

LEMMA BeginModuleInv ==
    ASSUME Inv, BeginModule
    PROVE  Inv'
<1> USE DEF Inv, BeginModule, fileVars, Begin, runVars
<1> DEFINE pns == {[module |-> file.uuid, pn |-> n] : n \in file.pns}
<1>1. work = db
    BY DEF Shape, TypeOK
<1>2. work' = [work EXCEPT !.partNumbers = @ \cup pns]
    OBVIOUS
<1> HIDE DEF pns
<1>3. /\ txn' = TRUE /\ db' = db
      /\ work' = [modules |-> db.modules, operations |-> db.operations,
                  partNumbers |-> db.partNumbers \cup pns,
                  diagIndexes |-> db.diagIndexes,
                  tables |-> db.tables, values |-> db.values]
    BY <1>1, <1>2, PartNumbersEdit DEF Shape
<1>4. Shape'
  <2>1. file \in EcuFiles
      BY DEF Shape
  <2>2. ranges' \in Seq(IndexRange) /\ indexes' \subseteq 0..LargestIndex
      BY <2>1, StoreAssumption DEF IndexRange
  <2> QED BY <1>1, <1>3, <2>2 DEF Shape, TypeOK, IsDb
<1>5. Pending'
    BY <1>1, <1>3 DEF Pending
<1>6. Fitting'
    BY <1>1, <1>3 DEF Fitting, Fits
<1>7. Lost'
    BY <1>3 DEF Lost
<1> QED BY <1>4, <1>5, <1>6, <1>7

(* Counting goes from index to index within 0..LargestIndex.               *)
LEMMA Increments ==
    ASSUME NEW n \in 0..LargestIndex
    PROVE  Incremented(n) \in 0..LargestIndex
BY StoreAssumption, SMT DEF Incremented

LEMMA IncrementsByOne ==
    ASSUME NEW n \in 0..LargestIndex, n < LargestIndex
    PROVE  Incremented(n) = n + 1
<1>1. ASSUME NEW a \in Nat, NEW b \in Nat, a < b
      PROVE  a % b = a
    BY <1>1
<1>2. n + 1 \in Nat /\ 1 + LargestIndex \in Nat /\ n + 1 < 1 + LargestIndex
    BY StoreAssumption
<1> QED BY <1>1, <1>2, Zenon DEF Incremented

LEMMA NextIndexInv ==
    ASSUME Inv, NextIndex
    PROVE  Inv'
<1> USE DEF Inv, NextIndex, dbVars, runVars
<1>1. Shape'
  <2>1. Head(ranges) \in IndexRange /\ Tail(ranges) \in Seq(IndexRange)
      BY DEF Shape
  <2>2. Incremented(Head(ranges).low) \in 0..LargestIndex
      BY <2>1, Increments DEF IndexRange
  <2>3. indexes' \subseteq 0..LargestIndex
      BY <2>1 DEF Shape, TypeOK, IndexRange
  <2>4. ranges' \in Seq(IndexRange)
    <3> DEFINE top == [low |-> Incremented(Head(ranges).low),
                       high |-> Head(ranges).high]
    <3>1. top \in IndexRange
        BY <2>1, <2>2 DEF IndexRange
    <3>2. ranges' = <<top>> \o Tail(ranges) \/ ranges' = Tail(ranges)
        OBVIOUS
    <3> HIDE DEF top
    <3>3. <<top>> \in Seq(IndexRange)
        BY <3>1
    <3>4. <<top>> \o Tail(ranges) \in Seq(IndexRange)
        BY <2>1, <3>3, ConcatProperties
    <3> QED BY <2>1, <3>2, <3>4
  <2> QED BY <2>3, <2>4 DEF Shape, TypeOK, IsDb, IndexRange
<1>2. Pending'
    BY DEF Pending
<1>3. Fitting'
    BY DEF Fitting, Fits
<1>4. Lost'
    BY DEF Lost
<1> QED BY <1>1, <1>2, <1>3, <1>4

LEMMA InsertIndexesInv ==
    ASSUME Inv, InsertIndexes
    PROVE  Inv'
<1> USE DEF Inv, InsertIndexes, runVars
<1> DEFINE rows == {[module |-> file.uuid, index |-> i] : i \in indexes}
<1>1. Write([work EXCEPT !.diagIndexes = @ \cup rows])
    OBVIOUS
<1> HIDE DEF rows
<1>2. /\ txn /\ txn' = txn /\ db' = db
      /\ work' = [modules |-> work.modules, operations |-> work.operations,
                  partNumbers |-> work.partNumbers,
                  diagIndexes |-> work.diagIndexes \cup rows,
                  tables |-> work.tables, values |-> work.values]
    BY <1>1, IndexesEdit DEF Shape, TypeOK, Write
<1>3. Shape'
    BY <1>2 DEF Shape, TypeOK, IsDb
<1>4. Pending'
    BY <1>2 DEF Pending
<1>5. Fitting'
    BY <1>2 DEF Fitting, Fits
<1>6. Lost'
    BY <1>2 DEF Lost
<1> QED BY <1>3, <1>4, <1>5, <1>6

LEMMA InsertOperationInv ==
    ASSUME Inv, NEW o \in opsLeft, InsertOperation(o)
    PROVE  Inv'
<1>1. CASE Stop("aborted")
    BY <1>1, StopInv
<1>2. CASE ~Stop("aborted")
  <2> USE <1>2 DEF Inv, InsertOperation, runVars
  <2>1. txn /\ stage = "ops" /\ stage' = "ops" /\ o \in file.ops
      BY DEF Shape, TypeOK
  <2>2. work' = [work EXCEPT !.operations = @ \cup {RowOf(o)}]
      BY DEF Write, RowOf
  <2>3. /\ txn' = txn /\ db' = db
        /\ work' = [modules |-> work.modules,
                    operations |-> work.operations \cup {RowOf(o)},
                    partNumbers |-> work.partNumbers,
                    diagIndexes |-> work.diagIndexes,
                    tables |-> work.tables, values |-> work.values]
      BY <2>1, <2>2, OperationsEdit DEF Shape, Write
  <2>4. Shape'
      BY <2>1, <2>3 DEF Shape, TypeOK, IsDb
  <2>5. Pending'
    <3>1. \A p : RowOf(p)' = RowOf(p)
        BY DEF RowOf
    <3>2. file.ops \ opsLeft' = (file.ops \ opsLeft) \cup {o}
        BY <2>1
    <3>3. {RowOf(p) : p \in file.ops \ opsLeft'} =
             {RowOf(p) : p \in file.ops \ opsLeft} \cup {RowOf(o)}
        BY <3>2
    <3>4. work'.operations =
             db.operations \cup {RowOf(p) : p \in file.ops \ opsLeft'}
        BY <2>1, <2>3, <3>3 DEF Pending
    <3>5. {RowOf(p)' : p \in file.ops \ opsLeft'} =
             {RowOf(p) : p \in file.ops \ opsLeft'}
        BY <3>1
    <3> QED BY <2>1, <2>3, <3>4, <3>5 DEF Pending
  <2>6. Fitting'
    <3>1. RowOf(o).module = file.uuid
        BY DEF RowOf
    <3> QED BY <2>1, <2>3, <3>1 DEF Fitting, Fits
  <2>7. Lost'
      BY <2>1, <2>3 DEF Lost
  <2> QED BY <2>4, <2>5, <2>6, <2>7
<1> QED BY <1>1, <1>2

LEMMA InsertModuleInv ==
    ASSUME Inv, InsertModule
    PROVE  Inv'
<1>1. CASE Stop("aborted")
    BY <1>1, StopInv
<1>2. CASE ~Stop("aborted")
  <2> USE <1>2 DEF Inv, InsertModule, runVars
  <2>1. /\ txn' = FALSE /\ work' = db'
        /\ db' = [modules |-> work.modules \cup {file.uuid},
                  operations |-> work.operations,
                  partNumbers |-> work.partNumbers,
                  diagIndexes |-> work.diagIndexes,
                  tables |-> work.tables, values |-> work.values]
      BY ModulesEdit DEF Shape, Commit
  <2>2. file \in EcuFiles /\ file.uuid \in EcuUuids
      BY DEF Shape, EcuUuids
  <2>3. Shape'
      BY <2>1, <2>2 DEF Shape, TypeOK, IsDb
  <2>4. Pending'
      BY <2>1 DEF Pending
  <2>5. Fitting'
      BY <2>1 DEF Fitting, Fits
  <2>6. Lost'
      BY <2>1 DEF Lost, Pending
  <2> QED BY <2>3, <2>4, <2>5, <2>6
<1> QED BY <1>1, <1>2

LEMMA BeginTableInv ==
    ASSUME Inv, BeginTable
    PROVE  Inv'
<1> USE DEF Inv, BeginTable, fileVars, Begin, runVars
<1>1. /\ txn' = TRUE /\ db' = db
      /\ work' = [modules |-> work.modules, operations |-> work.operations,
                  partNumbers |-> work.partNumbers,
                  diagIndexes |-> work.diagIndexes,
                  tables |-> {t \in work.tables : t.uuid # file.uuid},
                  values |-> {v \in work.values : v.table # file.uuid}]
    BY WithoutTableIs DEF Shape
<1>2. Shape'
    BY <1>1 DEF Shape, TypeOK, IsDb
<1>3. Pending'
    BY <1>1 DEF Pending
<1>4. Fitting'
    BY <1>1 DEF Fitting, Fits
<1>5. Lost'
    BY <1>1 DEF Lost
<1> QED BY <1>2, <1>3, <1>4, <1>5

LEMMA InsertTableInv ==
    ASSUME Inv, InsertTable
    PROVE  Inv'
<1>1. CASE NameTaken(work, file)
  <2> USE <1>1 DEF Inv, InsertTable, fileVars, dbVars, runVars
  <2>1. Shape'
      BY DEF Shape, TypeOK, IsDb
  <2>2. Pending'
      BY DEF Pending
  <2>3. Fitting'
      BY DEF Fitting, Fits
  <2>4. Lost'
      BY DEF Lost
  <2> QED BY <2>1, <2>2, <2>3, <2>4
<1>2. CASE ~NameTaken(work, file)
  <2> USE <1>2 DEF Inv, InsertTable, fileVars, runVars
  <2> DEFINE row == [uuid |-> file.uuid, name |-> file.name]
  <2>1. /\ txn /\ txn' = txn /\ db' = db
        /\ work' = [modules |-> work.modules,
                    operations |-> work.operations,
                    partNumbers |-> work.partNumbers,
                    diagIndexes |-> work.diagIndexes,
                    tables |-> work.tables \cup {row},
                    values |-> work.values]
      BY TablesEdit DEF Shape, TypeOK, Write
  <2>2. Shape'
      BY <2>1 DEF Shape, TypeOK, IsDb
  <2>3. Pending'
      BY <2>1 DEF Pending
  <2>4. Fitting'
      BY <2>1 DEF Fitting, Fits, NameTaken
  <2>5. Lost'
      BY <2>1 DEF Lost
  <2> QED BY <2>2, <2>3, <2>4, <2>5
<1> QED BY <1>1, <1>2

LEMMA InsertValuesInv ==
    ASSUME Inv, InsertValues
    PROVE  Inv'
<1>1. CASE ~file.sound
    BY <1>1, StopInv DEF InsertValues
<1>2. CASE file.sound
  <2> USE <1>2 DEF Inv, InsertValues, runVars
  <2> DEFINE vs == {[table |-> file.uuid, value |-> v] : v \in file.values}
  <2>1. \A v \in vs : v.table = file.uuid
      OBVIOUS
  <2>2. Commit([work EXCEPT !.values = @ \cup vs])
      OBVIOUS
  <2> HIDE DEF vs
  <2>3. /\ txn' = FALSE /\ work' = db'
        /\ db' = [modules |-> work.modules, operations |-> work.operations,
                  partNumbers |-> work.partNumbers,
                  diagIndexes |-> work.diagIndexes, tables |-> work.tables,
                  values |-> work.values \cup vs]
      BY <2>2, ValuesEdit DEF Shape, Commit
  <2>4. Shape'
      BY <2>3 DEF Shape, TypeOK, IsDb
  <2>5. Pending'
      BY <2>3 DEF Pending
  <2>6. Fitting'
      BY <2>1, <2>3 DEF Fitting, Fits
  <2>7. Lost'
      BY <2>3 DEF Lost, Pending
  <2> QED BY <2>4, <2>5, <2>6, <2>7
<1> QED BY <1>1, <1>2

(* The invariant is inductive.                                             *)
LEMMA NextInv == Inv /\ [Next]_vars => Inv'
<1> SUFFICES ASSUME Inv, [Next]_vars PROVE Inv'
    OBVIOUS
<1>1. CASE \E d \in Disks : StartLoad(d)
    BY <1>1, StartLoadInv
<1>2. CASE \E f \in todo : OpenFile(f)
    BY <1>2, OpenFileInv
<1>3. CASE RemoveModule
    BY <1>3, RemoveModuleInv
<1>4. CASE BeginModule
    BY <1>4, BeginModuleInv
<1>5. CASE \E o \in opsLeft : InsertOperation(o)
    BY <1>5, InsertOperationInv
<1>6. CASE RejectModule \/ FinishLoad \/ Crash
    BY <1>6, StopInv DEF RejectModule, FinishLoad, Crash
<1>7. CASE InsertModule
    BY <1>7, InsertModuleInv
<1>8. CASE BeginTable
    BY <1>8, BeginTableInv
<1>9. CASE InsertTable
    BY <1>9, InsertTableInv
<1>10. CASE InsertValues
    BY <1>10, InsertValuesInv
<1>11. CASE UNCHANGED vars
    BY <1>11 DEF vars, dbVars, loadVars, fileVars, runVars, Inv, Shape, Pending,
                 Fitting, Lost, TypeOK, IsDb, Fits, RowOf
<1>12. CASE NextIndex
    BY <1>12, NextIndexInv
<1>13. CASE InsertIndexes
    BY <1>13, InsertIndexesInv
<1> QED BY <1>1, <1>2, <1>3, <1>4, <1>5, <1>6, <1>7, <1>8, <1>9, <1>10,
           <1>11, <1>12, <1>13 DEF Next, Step

LEMMA Inductive == Spec => []Inv
BY InitInv, NextInv, PTL DEF Spec

-----------------------------------------------------------------------------
(* The transactions of the loader are where TypeOK says they are: a step   *)
(* that writes rows one by one has a transaction open, and with none open  *)
(* the connection sees what is committed (initializeDatabase).             *)
THEOREM StoreTypeCorrect == Spec => []TypeOK
<1>1. Inv => TypeOK
    BY DEF Inv, Shape
<1> QED BY <1>1, Inductive, PTL

(* However often the loader is killed, whatever the files: no operation    *)
(* without its module, no value without its table, no two tables of a name.*)
THEOREM TablesFitTogether == Spec => []NoOrphans
<1>1. Inv => NoOrphans
    BY DEF Inv, Fitting, Fits, NoOrphans
<1> QED BY <1>1, Inductive, PTL

(* A load that does not end well has cost at most one module               *)
(* (removeModuleByUuid commits before the module is read in again).        *)
THEOREM OneModuleLost == Spec => []AtMostOneLost
<1>1. Inv => AtMostOneLost
  <2> SUFFICES ASSUME Inv PROVE AtMostOneLost
      OBVIOUS
  <2>1. PICK u : before \ db.modules \subseteq {u}
      BY DEF Inv, Lost, Shape
  <2>2. IsFiniteSet({u}) /\ Cardinality({u}) = 1
      BY FS_Singleton
  <2> QED BY <2>1, <2>2, FS_Subset DEF AtMostOneLost
<1> QED BY <1>1, Inductive, PTL

-----------------------------------------------------------------------------
(* The database as a catalogue of whole definitions.                       *)

LEMMA InitCatalogue == Init => Promise!Init
BY DEF Init, Empty, Promise!Init, CatalogueOf

(* The catalogue depends on the modules and the operations alone.          *)
LEMMA SameCatalogue ==
    ASSUME db'.modules = db.modules, db'.operations = db.operations
    PROVE  CatalogueOf(db)' = CatalogueOf(db)
BY DEF CatalogueOf, OpsOf

LEMMA RemoveModuleStep ==
    ASSUME Inv, RemoveModule
    PROVE  Promise!Next \/ UNCHANGED CatalogueOf(db)
<1> DEFINE u == file.uuid
<1>1. CASE txn
    BY <1>1, SameCatalogue DEF RemoveModule, Rollback
<1>2. CASE ~txn
  <2>1. /\ u \in EcuUuids
        /\ db'.modules = db.modules \ {u}
        /\ db'.operations = {o \in db.operations : o.module # u}
      BY <1>2, WithoutModuleIs
         DEF Inv, Shape, TypeOK, RemoveModule, Commit, EcuUuids
  <2>2. \A v \in EcuUuids \ {u} : OpsOf(db', v) = OpsOf(db, v)
      BY <2>1 DEF OpsOf
  <2>3. CASE u \in db.modules
    <3>1. CatalogueOf(db)[u] # {}
        BY <2>1, <2>3 DEF CatalogueOf
    <3>2. CatalogueOf(db)' = [CatalogueOf(db) EXCEPT ![u] = {}]
        BY <2>1, <2>2, <2>3 DEF CatalogueOf
    <3> QED BY <2>1, <3>1, <3>2 DEF Promise!Next, Promise!Remove
  <2>4. CASE u \notin db.modules
    <3>1. \A o \in db.operations : o.module # u
        BY <2>4 DEF Inv, Fitting, Fits
    <3>2. db'.modules = db.modules /\ db'.operations = db.operations
        BY <2>1, <2>4, <3>1
    <3> QED BY <3>2, SameCatalogue
  <2> QED BY <2>3, <2>4
<1> QED BY <1>1, <1>2

(* The commit of a module: its operations are those of its file, and those *)
(* of the others stay.                                                     *)
LEMMA ModulePublished ==
    ASSUME Inv, InsertModule, file.uuid \notin work.modules
    PROVE  /\ file \in EcuFiles /\ file.uuid \in EcuUuids
           /\ db'.modules = db.modules \cup {file.uuid}
           /\ file.uuid \notin db.modules
           /\ \A v : v # file.uuid => OpsOf(db', v) = OpsOf(db, v)
           /\ OpsOf(db', file.uuid) = file.ops
<1> DEFINE u == file.uuid
           rows == {RowOf(o) : o \in file.ops}
<1>1. /\ file \in EcuFiles /\ u \in EcuUuids
      /\ db'.modules = db.modules \cup {u}
      /\ db'.operations = db.operations \cup rows
      /\ u \notin db.modules
  <2>1. /\ db'.modules = work.modules \cup {u}
        /\ db'.operations = work.operations
      BY ModulesEdit DEF Inv, Shape, InsertModule, Commit
  <2>2. stage = "ops" /\ file.ops \ opsLeft = file.ops
      BY DEF InsertModule
  <2>3. work.modules = db.modules /\ work.operations = db.operations \cup rows
      BY <2>2, Zenon DEF Inv, Pending
  <2> QED BY <2>1, <2>2, <2>3 DEF Inv, Shape, EcuUuids
<1>2. \A o \in db.operations : o.module # u
    BY <1>1 DEF Inv, Fitting, Fits
<1>3. \A r \in rows : r.module = u
    BY DEF RowOf
<1>4. \A v : v # u => OpsOf(db', v) = OpsOf(db, v)
  <2> TAKE v
  <2> HAVE v # u
  <2>1. {p \in db'.operations : p.module = v} =
           {p \in db.operations : p.module = v}
      BY <1>1, <1>3
  <2> QED BY <2>1 DEF OpsOf
<1>5. OpsOf(db', u) = file.ops
  <2>1. {p \in db'.operations : p.module = u} = rows
      BY <1>1, <1>2, <1>3
  <2>2. OpsOf(db', u) =
           {[uuid |-> r.uuid, results |-> r.results] : r \in rows}
      BY <2>1 DEF OpsOf
  <2>3. \A o \in file.ops :
           [uuid |-> RowOf(o).uuid, results |-> RowOf(o).results] = o
      BY <1>1, StoreAssumption DEF RowOf
  <2> QED BY <2>2, <2>3
<1> QED BY <1>1, <1>4, <1>5

LEMMA InsertModuleStep ==
    ASSUME Inv, InsertModule
    PROVE  Promise!Next \/ UNCHANGED CatalogueOf(db)
<1> DEFINE u == file.uuid
<1>1. CASE u \in work.modules
    BY <1>1, SameCatalogue DEF InsertModule, Stop, Rollback
<1>2. CASE u \notin work.modules
  <2>1. /\ file \in EcuFiles /\ u \in EcuUuids /\ u \notin db.modules
        /\ db'.modules = db.modules \cup {u}
        /\ \A v : v # u => OpsOf(db', v) = OpsOf(db, v)
        /\ OpsOf(db', u) = file.ops
      BY <1>2, ModulePublished
  <2>2. CatalogueOf(db)[u] = {}
      BY <2>1 DEF CatalogueOf
  <2>3. CatalogueOf(db)' = [CatalogueOf(db) EXCEPT ![u] = {file.ops}]
      BY <2>1 DEF CatalogueOf
  <2>4. {file.ops} \in {{f.ops} : f \in EcuFiles}
      BY <2>1
  <2> QED BY <2>1, <2>2, <2>3, <2>4 DEF Promise!Next, Promise!Publish
<1> QED BY <1>1, <1>2

(* Every other step commits no module and no operation.                    *)
LEMMA OtherSteps ==
    ASSUME Inv, [Next]_vars, ~RemoveModule, ~InsertModule
    PROVE  db'.modules = db.modules /\ db'.operations = db.operations
<1>1. CASE InsertValues
  <2>1. CASE file.sound
    <3> DEFINE vs == {[table |-> file.uuid, value |-> v] : v \in file.values}
    <3>1. Commit([work EXCEPT !.values = @ \cup vs])
        BY <1>1, <2>1 DEF InsertValues
    <3> HIDE DEF vs
    <3> QED BY <1>1, <3>1, ValuesEdit
            DEF Inv, Shape, Pending, Commit, InsertValues
  <2>2. CASE ~file.sound
      BY <1>1, <2>2 DEF InsertValues, Stop, Rollback
  <2> QED BY <2>1, <2>2
<1>2. CASE \E o \in opsLeft : InsertOperation(o)
    BY <1>2 DEF Inv, Shape, TypeOK, InsertOperation, Write, Stop, Rollback
<1>3. CASE InsertTable
    BY <1>3 DEF Inv, Shape, TypeOK, InsertTable, Write, dbVars
<1>4. CASE BeginModule \/ BeginTable \/ NextIndex
    BY <1>4 DEF BeginModule, BeginTable, Begin, NextIndex, dbVars
<1>8. CASE InsertIndexes
    BY <1>8 DEF Inv, Shape, TypeOK, InsertIndexes, Write
<1>5. CASE \E f \in todo : OpenFile(f)
    BY <1>5 DEF OpenFile, Stop, Rollback, dbVars
<1>6. CASE RejectModule \/ FinishLoad \/ Crash
    BY <1>6 DEF RejectModule, FinishLoad, Crash, Stop, Rollback
<1>7. CASE (\E d \in Disks : StartLoad(d)) \/ UNCHANGED vars
    BY <1>7 DEF StartLoad, vars, dbVars
<1> QED BY <1>1, <1>2, <1>3, <1>4, <1>5, <1>6, <1>7, <1>8 DEF Next, Step

(* A definition is in the database as a whole or not at all, and changes   *)
(* by one removal or one publication at a time, for every set of files     *)
(* and through every crash (removeModuleByUuid, insertModule).             *)
THEOREM StoreRefinesCatalogue == Spec => ImplementsCatalogue
<1>1. Inv /\ [Next]_vars => [Promise!Next]_(CatalogueOf(db))
    BY RemoveModuleStep, InsertModuleStep, OtherSteps, SameCatalogue
<1> QED BY <1>1, InitCatalogue, Inductive, PTL
        DEF Spec, ImplementsCatalogue, Promise!Spec

-----------------------------------------------------------------------------
(* The database after a load that ends normally.                           *)

Active == stage # "idle"
Passed == disk \ todo
Readable(f) == f.kind \in {"ecu", "table"}

(* What the loader knows of the files the iterator has come to: no two of  *)
(* them have a uuid in common, and the one in hand is one of them.         *)
Iteration ==
    /\ Active => ended = "running"
    /\ stage \in {"idle", "pick"} => file = NoFile
    /\ stage \notin {"idle", "pick"} => file \in Passed
    /\ Active => \A f \in Passed : Readable(f) => f.uuid \in known
    /\ Active => \A f, g \in Passed :
          Readable(f) /\ Readable(g) /\ f.uuid = g.uuid => f = g

(* Every module passed that is not in hand is as its file says.            *)
ModuleAsWritten(f) == f.uuid \in db.modules /\ OpsOf(db, f.uuid) = f.ops
Modules ==
    Active => \A f \in Passed \cap EcuFiles : f # file => ModuleAsWritten(f)

(* So is every table, in what the connection sees, as long as none was     *)
(* refused; until then a transaction is only open where it should be.      *)
ValuesOf(d, u) == {v \in d.values : v.table = u}
Valued(f) == {[table |-> f.uuid, value |-> v] : v \in f.values}
TableAsWritten(d, f) ==
    /\ [uuid |-> f.uuid, name |-> f.name] \in d.tables
    /\ ValuesOf(d, f.uuid) = Valued(f)
Tables ==
    Active /\ ~clashed =>
        /\ stage \in {"pick", "remove", "table"} => ~txn
        /\ \A f \in Passed \cap TableFiles : f # file => TableAsWritten(work, f)
        /\ stage \in {"name", "values"} => ValuesOf(work, file.uuid) = {}

Completion == Iteration /\ Modules /\ Tables /\ CompletedMatchesDisk

-----------------------------------------------------------------------------
LEMMA ReadableFiles ==
    /\ \A f \in EcuFiles : f.kind = "ecu" /\ Readable(f) /\ f # NoFile
    /\ \A f \in TableFiles : f.kind = "table" /\ Readable(f) /\ f # NoFile
    /\ EcuFiles \cap TableFiles = {}
BY DEF EcuFiles, TableFiles, Readable, NoFile

LEMMA InitCompletion == Init => Completion
BY DEF Init, Completion, Iteration, Modules, Tables, CompletedMatchesDisk, Active

LEMMA StartLoadCompletion ==
    ASSUME Inv, Completion, NEW d \in Disks, StartLoad(d)
    PROVE  Completion'
<1>1. /\ Passed' = {} /\ stage = "idle" /\ stage' = "pick" /\ ended' = "running"
      /\ file' = file /\ file = NoFile /\ txn' = txn /\ ~txn
    BY DEF StartLoad, fileVars, Passed, Completion, Iteration, Inv, Shape, TypeOK, dbVars
<1> QED BY <1>1 DEF Completion, Iteration, Modules, Tables,
           CompletedMatchesDisk, Active

(* An end that is not a normal one promises nothing.                       *)
LEMMA StopCompletion ==
    ASSUME NEW how, Stop(how), how # "completed"
    PROVE  Completion'
BY DEF Stop, Completion, Iteration, Modules, Tables, CompletedMatchesDisk, Active

LEMMA FinishCompletion ==
    ASSUME Inv, Completion, FinishLoad
    PROVE  Completion'
<1>1. /\ stage = "pick" /\ todo = {} /\ file = NoFile /\ Active /\ Passed = disk
      /\ UNCHANGED <<disk, before, clashed, db>> /\ stage' = "idle" /\ file' = NoFile
    BY DEF FinishLoad, Stop, Rollback, runVars, Completion, Iteration, Active,
           Passed
<1>2. before \subseteq db.modules
    BY <1>1 DEF Inv, Lost
<1>3. \A f \in disk \cap EcuFiles : ModuleAsWritten(f)
    BY <1>1, ReadableFiles DEF Completion, Modules
<1>4. ~clashed => \A f \in disk \cap TableFiles : TableAsWritten(db, f)
    BY <1>1, ReadableFiles DEF Completion, Tables, Inv, Shape, TypeOK
<1>5. CompletedMatchesDisk'
    BY <1>1, <1>2, <1>3, <1>4
       DEF CompletedMatchesDisk, ModuleAsWritten, TableAsWritten, ValuesOf,
           Valued
<1> QED BY <1>1, <1>5 DEF Completion, Iteration, Modules, Tables, Active

LEMMA OpenFileCompletion ==
    ASSUME Inv, Completion, NEW f \in todo, OpenFile(f)
    PROVE  Completion'
<1> USE ReadableFiles
<1>1. CASE Stop("aborted")
    BY <1>1, StopCompletion
<1>2. CASE ~Stop("aborted")
  <2>1. /\ stage = "pick" /\ Active /\ Active' /\ file = NoFile /\ ended = "running"
        /\ UNCHANGED <<dbVars, ended, runVars, clashed>>
        /\ todo' = todo \ {f} /\ f \in disk /\ Passed' = Passed \cup {f}
      BY <1>2 DEF OpenFile, fileVars, After, Completion, Iteration, Active, Inv, Shape,
         TypeOK, Passed, runVars, dbVars
  <2>2. f.kind \in {"ecu", "table", "unreadable"}
      BY <2>1, StoreAssumption DEF Inv, Shape
  <2>3. CASE f.kind = "unreadable"
    <3>1. UNCHANGED <<stage, file, known>> /\ ~Readable(f)
          /\ f \notin EcuFiles /\ f \notin TableFiles
        BY <1>2, <2>3 DEF OpenFile, fileVars, Readable
    <3>2. Iteration'
        BY <2>1, <3>1 DEF Completion, Iteration
    <3>3. Modules' /\ Tables'
        BY <2>1, <3>1 DEF Completion, Modules, Tables, ModuleAsWritten, dbVars
    <3> QED BY <2>1, <3>2, <3>3 DEF Completion, CompletedMatchesDisk
  <2>4. CASE f.kind # "unreadable"
    <3>1. /\ Readable(f) /\ f.uuid \notin known /\ file' = f
          /\ known' = known \cup {f.uuid}
          /\ stage' = IF f.kind = "ecu" THEN "remove" ELSE "table"
        BY <1>2, <2>2, <2>4 DEF OpenFile, fileVars, Readable
    <3>2. Iteration'
        BY <2>1, <3>1 DEF Completion, Iteration
    <3>3. Modules'
        BY <2>1, <3>1 DEF Completion, Modules, ModuleAsWritten, dbVars
    <3>4. Tables'
        BY <2>1, <3>1 DEF Completion, Tables, dbVars
    <3> QED BY <2>1, <3>2, <3>3, <3>4 DEF Completion, CompletedMatchesDisk
  <2> QED BY <2>3, <2>4
<1> QED BY <1>1, <1>2

(* Steps on the file in hand, that stay on it or go on to the next.        *)
LEMMA IterationKept ==
    ASSUME Completion, stage \notin {"idle", "pick"}, UNCHANGED <<disk, todo, ended>>,
           known \subseteq known',
           \/ stage' \notin {"idle", "pick"} /\ file' = file
           \/ stage' = "pick" /\ file' = NoFile
    PROVE  /\ Iteration' /\ Passed' = Passed /\ Active /\ Active'
           /\ file \in Passed /\ ended' # "completed"
BY DEF Completion, Iteration, Passed, Active

(* Other files have other uuids.                                           *)
LEMMA OtherUuids ==
    ASSUME Completion, stage \notin {"idle", "pick"},
           file \in EcuFiles \cup TableFiles
    PROVE  \A f \in Passed \cap (EcuFiles \cup TableFiles) :
              f # file => f.uuid # file.uuid
BY ReadableFiles DEF Completion, Iteration, Active

LEMMA RemoveModuleCompletion ==
    ASSUME Inv, Completion, RemoveModule
    PROVE  Completion'
<1>1. /\ stage = "remove" /\ stage' = "begin" /\ file \in EcuFiles
      /\ UNCHANGED <<disk, todo, ended, known, file, clashed>>
    BY DEF RemoveModule, fileVars, runVars, Inv, Shape
<1>2. /\ Iteration' /\ Passed' = Passed /\ Active /\ Active'
      /\ ended' # "completed"
    BY <1>1, IterationKept
<1>3. \A f \in Passed \cap (EcuFiles \cup TableFiles) :
         f # file => f.uuid # file.uuid
    BY <1>1, OtherUuids
<1>4. CASE txn
  <2>1. db' = db /\ clashed
      BY <1>1, <1>2, <1>4 DEF RemoveModule, fileVars, Rollback, Completion, Tables
  <2> QED BY <1>1, <1>2, <2>1 DEF Completion, Modules, Tables,
             ModuleAsWritten, CompletedMatchesDisk
<1>5. CASE ~txn
  <2>1. /\ work = db /\ work' = db'
        /\ db'.modules = db.modules \ {file.uuid}
        /\ db'.operations = {o \in db.operations : o.module # file.uuid}
        /\ db'.tables = db.tables /\ db'.values = db.values
      BY <1>5, WithoutModuleIs DEF RemoveModule, fileVars, Commit, Inv, Shape, TypeOK
  <2>2. \A u : u # file.uuid => OpsOf(db', u) = OpsOf(db, u)
    <3> TAKE u
    <3> HAVE u # file.uuid
    <3>1. {o \in db'.operations : o.module = u} = {o \in db.operations : o.module = u}
        BY <2>1
    <3> QED BY <3>1 DEF OpsOf
  <2>3. Modules'
      BY <1>1, <1>2, <1>3, <2>1, <2>2 DEF Completion, Modules, ModuleAsWritten
  <2>4. Tables'
      BY <1>1, <1>2, <2>1 DEF Completion, Tables, TableAsWritten, ValuesOf
  <2> QED BY <1>2, <2>3, <2>4 DEF Completion, CompletedMatchesDisk
<1> QED BY <1>4, <1>5

(* Steps in a transaction that leave the tables alone.                     *)
LEMMA TablesAside ==
    ASSUME Completion, stage \notin {"idle", "pick"}, Passed' = Passed,
           Active, file' = file, file \in EcuFiles, db' = db,
           stage' \in {"begin", "indexes", "ops"}, Active', Iteration',
           ended' # "completed",
           work'.tables = work.tables, work'.values = work.values,
           UNCHANGED clashed
    PROVE  Completion'
<1>1. Modules'
    BY DEF Completion, Modules, ModuleAsWritten
<1>2. Tables'
    BY DEF Completion, Tables, TableAsWritten, ValuesOf
<1> QED BY <1>1, <1>2 DEF Completion, CompletedMatchesDisk

LEMMA BeginModuleCompletion ==
    ASSUME Inv, Completion, BeginModule
    PROVE  Completion'
<1>1. /\ stage = "begin" /\ stage' = "indexes" /\ file \in EcuFiles
      /\ db' = db
      /\ UNCHANGED <<disk, todo, ended, known, file, clashed>>
    BY DEF BeginModule, Begin, runVars, Inv, Shape
<1> DEFINE pns == {[module |-> file.uuid, pn |-> n] : n \in file.pns}
<1>2. work' = [work EXCEPT !.partNumbers = @ \cup pns]
    BY DEF BeginModule, Begin
<1> HIDE DEF pns
<1>3. work'.tables = work.tables /\ work'.values = work.values
    BY <1>2, PartNumbersEdit DEF Inv, Shape
<1> QED BY <1>1, <1>3, IterationKept, TablesAside

LEMMA NextIndexCompletion ==
    ASSUME Inv, Completion, NextIndex
    PROVE  Completion'
<1>1. /\ stage = "indexes" /\ stage' = "indexes" /\ file \in EcuFiles
      /\ UNCHANGED <<disk, todo, ended, known, file, clashed, db, work>>
    BY DEF NextIndex, dbVars, runVars, Inv, Shape
<1> QED BY <1>1, IterationKept, TablesAside

LEMMA InsertIndexesCompletion ==
    ASSUME Inv, Completion, InsertIndexes
    PROVE  Completion'
<1>1. /\ stage = "indexes" /\ stage' = "ops" /\ file \in EcuFiles /\ txn
      /\ UNCHANGED <<disk, todo, ended, known, file, clashed>>
    BY DEF InsertIndexes, runVars, Inv, Shape, TypeOK
<1> DEFINE rows == {[module |-> file.uuid, index |-> i] : i \in indexes}
<1>2. db' = db /\ work' = [work EXCEPT !.diagIndexes = @ \cup rows]
    BY <1>1 DEF InsertIndexes, Write
<1> HIDE DEF rows
<1>3. work'.tables = work.tables /\ work'.values = work.values
    BY <1>2, IndexesEdit DEF Inv, Shape
<1> QED BY <1>1, <1>2, <1>3, IterationKept, TablesAside

LEMMA InsertOperationCompletion ==
    ASSUME Inv, Completion, NEW o \in opsLeft, InsertOperation(o)
    PROVE  Completion'
<1>1. CASE Stop("aborted")
    BY <1>1, StopCompletion
<1>2. CASE ~Stop("aborted")
  <2>1. /\ stage = "ops" /\ stage' = "ops" /\ file \in EcuFiles /\ txn
        /\ UNCHANGED <<disk, todo, ended, file, clashed>> /\ known \subseteq known'
      BY <1>2 DEF InsertOperation, runVars, Inv, Shape, TypeOK
  <2>2. db' = db /\ work' = [work EXCEPT !.operations = @ \cup {RowOf(o)}]
      BY <1>2, <2>1 DEF InsertOperation, Write, RowOf
  <2>3. work'.tables = work.tables /\ work'.values = work.values
      BY <2>2, OperationsEdit DEF Inv, Shape
  <2> QED BY <2>1, <2>2, <2>3, IterationKept, TablesAside
<1> QED BY <1>1, <1>2

LEMMA InsertModuleCompletion ==
    ASSUME Inv, Completion, InsertModule
    PROVE  Completion'
<1>1. CASE file.uuid \in work.modules
    BY <1>1, StopCompletion DEF InsertModule
<1>2. CASE file.uuid \notin work.modules
  <2>1. /\ stage = "ops" /\ stage' = "pick" /\ file' = NoFile /\ file \in EcuFiles
        /\ UNCHANGED <<disk, todo, ended, known, clashed>>
      BY <1>2 DEF InsertModule, runVars, Inv, Shape
  <2>2. /\ Iteration' /\ Passed' = Passed /\ Active /\ Active'
        /\ ended' # "completed"
      BY <2>1, IterationKept
  <2>3. /\ db'.modules = db.modules \cup {file.uuid}
        /\ \A v : v # file.uuid => OpsOf(db', v) = OpsOf(db, v)
        /\ OpsOf(db', file.uuid) = file.ops
      BY <1>2, ModulePublished
  <2>4. Modules'
    <3> SUFFICES ASSUME NEW f \in Passed \cap EcuFiles PROVE ModuleAsWritten(f)'
        BY <2>2 DEF Modules
    <3>1. CASE f = file
        BY <2>3, <3>1 DEF ModuleAsWritten
    <3>2. CASE f # file
        BY <2>1, <2>2, <2>3, <3>2, OtherUuids
           DEF Completion, Modules, ModuleAsWritten
    <3> QED BY <3>1, <3>2
  <2>5. txn' = FALSE /\ work'.tables = work.tables /\ work'.values = work.values
      BY <1>2, ModulesEdit DEF InsertModule, Commit, Inv, Shape
  <2>6. Tables'
      BY <2>1, <2>2, <2>5, ReadableFiles
         DEF Completion, Tables, TableAsWritten, ValuesOf
  <2> QED BY <2>2, <2>4, <2>6 DEF Completion, CompletedMatchesDisk
<1> QED BY <1>1, <1>2

LEMMA BeginTableCompletion ==
    ASSUME Inv, Completion, BeginTable
    PROVE  Completion'
<1>1. /\ stage = "table" /\ stage' = "name" /\ file \in TableFiles /\ db' = db
      /\ UNCHANGED <<disk, todo, ended, known, file, clashed>>
      /\ work' = WithoutTable(work, file.uuid)
    BY DEF BeginTable, fileVars, Begin, runVars, Inv, Shape
<1>2. /\ Iteration' /\ Passed' = Passed /\ Active /\ Active'
      /\ ended' # "completed"
    BY <1>1, IterationKept
<1>3. \A f \in Passed \cap (EcuFiles \cup TableFiles) :
         f # file => f.uuid # file.uuid
    BY <1>1, OtherUuids
<1>4. /\ work'.tables = {t \in work.tables : t.uuid # file.uuid}
      /\ work'.values = {v \in work.values : v.table # file.uuid}
    BY <1>1, WithoutTableIs DEF Inv, Shape
<1>5. \A f \in Passed \cap TableFiles :
         f # file /\ TableAsWritten(work, f) => TableAsWritten(work', f)
  <2> TAKE f \in Passed \cap TableFiles
  <2> HAVE f # file /\ TableAsWritten(work, f)
  <2>1. ValuesOf(work', f.uuid) = ValuesOf(work, f.uuid)
      BY <1>3, <1>4 DEF ValuesOf
  <2>2. [uuid |-> f.uuid, name |-> f.name] \in work'.tables
      BY <1>3, <1>4 DEF TableAsWritten
  <2> QED BY <2>1, <2>2 DEF TableAsWritten
<1>6. ValuesOf(work', file.uuid) = {}
    BY <1>4 DEF ValuesOf
<1>7. Modules'
    BY <1>1, <1>2 DEF Completion, Modules, ModuleAsWritten
<1>8. Tables'
    BY <1>1, <1>2, <1>5, <1>6 DEF Completion, Tables
<1> QED BY <1>2, <1>7, <1>8 DEF Completion, CompletedMatchesDisk

LEMMA InsertTableCompletion ==
    ASSUME Inv, Completion, InsertTable
    PROVE  Completion'
<1>1. /\ stage = "name" /\ file \in TableFiles
      /\ UNCHANGED <<disk, todo, ended, known>> /\ db' = db
    BY DEF InsertTable, fileVars, Write, dbVars, runVars, Inv, Shape, TypeOK
<1>2. CASE NameTaken(work, file)
  <2>1. stage' = "pick" /\ file' = NoFile /\ clashed'
      BY <1>2 DEF InsertTable, fileVars
  <2>2. /\ Iteration' /\ Passed' = Passed /\ Active /\ Active'
        /\ ended' # "completed"
      BY <1>1, <2>1, IterationKept
  <2> QED BY <1>1, <2>1, <2>2, ReadableFiles
          DEF Completion, Modules, Tables, ModuleAsWritten, CompletedMatchesDisk
<1>3. CASE ~NameTaken(work, file)
  <2>1. stage' = "values" /\ file' = file /\ clashed' = clashed
      BY <1>3 DEF InsertTable, fileVars
  <2>2. /\ Iteration' /\ Passed' = Passed /\ Active /\ Active'
        /\ ended' # "completed"
      BY <1>1, <2>1, IterationKept
  <2>3. /\ work'.tables = work.tables \cup {[uuid |-> file.uuid, name |-> file.name]}
        /\ work'.values = work.values
      BY <1>3, TablesEdit DEF InsertTable, fileVars, Write, Inv, Shape
  <2>4. Modules'
      BY <1>1, <2>1, <2>2 DEF Completion, Modules, ModuleAsWritten
  <2>5. Tables'
      BY <1>1, <2>1, <2>2, <2>3 DEF Completion, Tables, TableAsWritten, ValuesOf
  <2> QED BY <2>2, <2>4, <2>5 DEF Completion, CompletedMatchesDisk
<1> QED BY <1>2, <1>3

LEMMA InsertValuesCompletion ==
    ASSUME Inv, Completion, InsertValues
    PROVE  Completion'
<1>1. CASE ~file.sound
    BY <1>1, StopCompletion DEF InsertValues
<1>2. CASE file.sound
  <2>1. /\ stage = "values" /\ stage' = "pick" /\ file' = NoFile
        /\ file \in TableFiles /\ UNCHANGED <<disk, todo, ended, known, clashed>>
      BY <1>2 DEF InsertValues, runVars, Inv, Shape
  <2>2. /\ Iteration' /\ Passed' = Passed /\ Active /\ Active'
        /\ ended' # "completed"
      BY <2>1, IterationKept
  <2>3. Commit([work EXCEPT !.values = @ \cup Valued(file)])
      BY <1>2 DEF InsertValues, Valued
  <2>4. /\ txn' = FALSE /\ db' = work'
        /\ work'.tables = work.tables /\ work'.values = work.values \cup Valued(file)
        /\ db'.modules = db.modules /\ db'.operations = db.operations
      BY <2>1, <2>3, ValuesEdit DEF Commit, Inv, Shape, Pending
  <2>5. \A v \in Valued(file) : v.table = file.uuid
      BY DEF Valued
  <2>6. Modules'
      BY <2>1, <2>2, <2>4, ReadableFiles
         DEF Completion, Modules, ModuleAsWritten, OpsOf
  <2>7. ASSUME ~clashed, NEW f \in Passed \cap TableFiles
        PROVE  TableAsWritten(work', f)
    <3>1. CASE f = file
      <4>1. ValuesOf(work', file.uuid) = Valued(file)
          BY <2>1, <2>2, <2>4, <2>5, <2>7 DEF Completion, Tables, ValuesOf
      <4>2. [uuid |-> file.uuid, name |-> file.name] \in work.tables
          BY <2>1 DEF Inv, Fitting
      <4> QED BY <2>4, <3>1, <4>1, <4>2 DEF TableAsWritten
    <3>2. CASE f # file
      <4>1. f.uuid # file.uuid
          BY <2>1, <3>2, OtherUuids
      <4>2. ValuesOf(work', f.uuid) = ValuesOf(work, f.uuid)
          BY <2>4, <2>5, <4>1 DEF ValuesOf
      <4> QED BY <2>2, <2>4, <2>7, <3>2, <4>2 DEF Completion, Tables, TableAsWritten
    <3> QED BY <3>1, <3>2
  <2>8. Tables'
      BY <2>1, <2>2, <2>4, <2>7 DEF Tables
  <2> QED BY <2>2, <2>6, <2>8 DEF Completion, CompletedMatchesDisk
<1> QED BY <1>1, <1>2

(* The invariant is inductive, together with that of StoreProofs.          *)
LEMMA NextCompletion == Inv /\ Completion /\ [Next]_vars => Completion'
<1> SUFFICES ASSUME Inv, Completion, [Next]_vars PROVE Completion'
    OBVIOUS
<1>1. CASE \E d \in Disks : StartLoad(d)
    BY <1>1, StartLoadCompletion
<1>2. CASE \E f \in todo : OpenFile(f)
    BY <1>2, OpenFileCompletion
<1>3. CASE RemoveModule
    BY <1>3, RemoveModuleCompletion
<1>4. CASE BeginModule
    BY <1>4, BeginModuleCompletion
<1>5. CASE \E o \in opsLeft : InsertOperation(o)
    BY <1>5, InsertOperationCompletion
<1>6. CASE RejectModule \/ Crash
    BY <1>6, StopCompletion DEF RejectModule, Crash
<1>7. CASE InsertModule
    BY <1>7, InsertModuleCompletion
<1>8. CASE BeginTable
    BY <1>8, BeginTableCompletion
<1>9. CASE InsertTable
    BY <1>9, InsertTableCompletion
<1>10. CASE InsertValues
    BY <1>10, InsertValuesCompletion
<1>11. CASE FinishLoad
    BY <1>11, FinishCompletion
<1>12. CASE UNCHANGED vars
    BY <1>12 DEF vars, dbVars, loadVars, fileVars, runVars, Completion,
       Iteration, Modules, Tables, CompletedMatchesDisk, Active, Passed, ModuleAsWritten
<1>13. CASE NextIndex
    BY <1>13, NextIndexCompletion
<1>14. CASE InsertIndexes
    BY <1>14, InsertIndexesCompletion
<1> QED BY <1>1, <1>2, <1>3, <1>4, <1>5, <1>6, <1>7, <1>8, <1>9, <1>10, <1>11,
           <1>12, <1>13, <1>14 DEF Next, Step

(* A load that ends normally has put every module on disk, and unless a    *)
(* name clashed every string table, into the database as its file says     *)
(* (initializeDatabase), however many loads were killed, refused or run on *)
(* other files before, and in whatever order the directory lists them.     *)
THEOREM CompletedLoads == Spec => []CompletedMatchesDisk
<1>1. Completion => CompletedMatchesDisk
    BY DEF Completion
<1> QED BY <1>1, InitCompletion, NextCompletion, Inductive, PTL DEF Spec

-----------------------------------------------------------------------------
(* The indexes of the files.                                               *)

Stored(d, f) ==
    \A i \in IndexesOf(f) : [module |-> f.uuid, index |-> i] \in d.diagIndexes

(* An index of the file in hand is counted, or still within a range.       *)
Counting ==
    \A i \in IndexesOf(file) :
        \/ i \in indexes
        \/ \E k \in DOMAIN ranges : ranges[k].low <= i /\ i <= ranges[k].high

(* Rows of indexes are never removed; those of the files passed are there. *)
Indexing ==
    /\ db.diagIndexes \subseteq work.diagIndexes
    /\ stage = "indexes" => Counting
    /\ stage = "ops" => Stored(work, file)
    /\ Active => \A f \in Passed \cap EcuFiles : f # file => Stored(db, f)
    /\ IndexesStored

LEMMA InitIndexing == Init => Indexing
BY DEF Init, Indexing, IndexesStored, Active

LEMMA StopIndexing ==
    ASSUME Indexing, NEW how, Stop(how), how # "completed"
    PROVE  Indexing'
BY DEF Stop, Rollback, Indexing, IndexesStored, Active

LEMMA StartLoadIndexing ==
    ASSUME Inv, Indexing, NEW d \in Disks, StartLoad(d)
    PROVE  Indexing'
<1>1. Passed' = {} /\ stage' = "pick" /\ ended' = "running" /\ db' = db /\ work' = work
    BY DEF StartLoad, Passed, dbVars
<1> QED BY <1>1 DEF Indexing, IndexesStored, Active

LEMMA FinishIndexing ==
    ASSUME Inv, Completion, Indexing, FinishLoad
    PROVE  Indexing'
<1>1. /\ todo = {} /\ file = NoFile /\ Active /\ Passed = disk
      /\ UNCHANGED <<disk, db>> /\ stage' = "idle" /\ work' = db
    BY DEF FinishLoad, Stop, Rollback, runVars, Completion, Iteration, Active,
           Passed
<1>2. \A f \in disk \cap EcuFiles : Stored(db, f)
    BY <1>1, ReadableFiles DEF Indexing
<1>3. IndexesStored'
    BY <1>1, <1>2 DEF IndexesStored, Stored
<1> QED BY <1>1, <1>3 DEF Indexing, Active

(* Most steps leave the indexes alone, and go on with the file in hand or  *)
(* with the next one.                                                      *)
LEMMA IndexesAside ==
    ASSUME Indexing, Active, ended' # "completed",
           db'.diagIndexes \subseteq work'.diagIndexes,
           db.diagIndexes \subseteq db'.diagIndexes, stage' # "indexes",
           stage' = "ops" => Stored(work', file'),
           \A f \in Passed' \cap EcuFiles :
               f # file' => (f \in Passed /\ f # file) \/ Stored(db', f)
    PROVE  Indexing'
<1>1. \A f : Stored(db, f) => Stored(db', f)
    BY DEF Stored
<1>2. \A f \in Passed' \cap EcuFiles : f # file' => Stored(db', f)
    BY <1>1 DEF Indexing
<1>3. (\A f \in Passed \cap EcuFiles : f # file => Stored(db, f))'
    BY <1>2 DEF Stored
<1>4. (stage = "ops" => Stored(work, file))'
    BY DEF Stored
<1> QED BY <1>3, <1>4 DEF Indexing, IndexesStored

LEMMA OpenFileIndexing ==
    ASSUME Inv, Completion, Indexing, NEW f \in todo, OpenFile(f)
    PROVE  Indexing'
<1>1. CASE Stop("aborted")
    BY <1>1, StopIndexing
<1>2. CASE ~Stop("aborted")
  <2>1. /\ Active /\ file = NoFile /\ ended' # "completed" /\ db' = db /\ work' = work
        /\ Passed' = Passed \cup {f} /\ stage' \notin {"indexes", "ops"}
        /\ \/ file' = f
           \/ file' = file /\ f.kind = "unreadable"
      BY <1>2 DEF OpenFile, After, Completion, Iteration, Active, Inv, Shape,
         TypeOK, Passed, fileVars, runVars, dbVars
  <2> QED BY <2>1, ReadableFiles, IndexesAside DEF Indexing, EcuFiles
<1> QED BY <1>1, <1>2

LEMMA RemoveModuleIndexing ==
    ASSUME Inv, Completion, Indexing, RemoveModule
    PROVE  Indexing'
<1>1. /\ Active /\ stage' = "begin" /\ ended' # "completed"
      /\ Passed' = Passed /\ file' = file
    BY DEF RemoveModule, fileVars, runVars, Completion, Iteration, Active, Passed
<1>2. db'.diagIndexes = db.diagIndexes /\ work'.diagIndexes = db.diagIndexes
    BY WithoutModuleIs DEF RemoveModule, Rollback, Commit, Inv, Shape, TypeOK
<1> QED BY <1>1, <1>2, IndexesAside

LEMMA BeginModuleIndexing ==
    ASSUME Inv, Completion, Indexing, BeginModule
    PROVE  Indexing'
<1>1. /\ Active /\ stage' = "indexes" /\ ended' # "completed" /\ file \in EcuFiles
      /\ Passed' = Passed /\ file' = file /\ db' = db
      /\ ranges' = file.ranges /\ indexes' = file.indexes
    BY DEF BeginModule, Begin, runVars, Completion, Iteration, Active, Passed,
           Inv, Shape
<1> DEFINE pns == {[module |-> file.uuid, pn |-> n] : n \in file.pns}
<1>2. work' = [work EXCEPT !.partNumbers = @ \cup pns]
    BY DEF BeginModule, Begin
<1> HIDE DEF pns
<1>3. work'.diagIndexes = work.diagIndexes
    BY <1>2, PartNumbersEdit DEF Inv, Shape
<1>4. Counting'
    BY <1>1 DEF Counting, IndexesOf
<1> QED BY <1>1, <1>3, <1>4 DEF Indexing, IndexesStored, Stored, Active

(* The head of the ranges gives up the index it starts with, and no other; *)
(* a range that ends at the largest number starts again from 0.            *)
LEMMA NextIndexIndexing ==
    ASSUME Inv, Completion, Indexing, NextIndex
    PROVE  Indexing'
<1>1. /\ Active /\ stage = "indexes" /\ stage' = "indexes" /\ ended' # "completed"
      /\ Passed' = Passed /\ file' = file /\ db' = db /\ work' = work
    BY DEF NextIndex, dbVars, runVars, Completion, Iteration, Active, Passed
<1> DEFINE low == Head(ranges).low
           high == Head(ranges).high
           top == [low |-> Incremented(low), high |-> high]
           In(r, i) == r.low <= i /\ i <= r.high
<1>2. /\ ranges \in Seq(IndexRange) /\ ranges # <<>>
      /\ low \in 0..LargestIndex /\ high \in 0..LargestIndex /\ LargestIndex \in Nat
  <2>1. ranges \in Seq(IndexRange) /\ ranges # <<>>
      BY DEF NextIndex, Inv, Shape
  <2>2. Head(ranges) \in IndexRange
      BY <2>1
  <2> QED BY <2>1, <2>2, StoreAssumption DEF IndexRange
<1>3. ASSUME NEW i \in IndexesOf(file)
      PROVE  i \in indexes' \/ \E k \in DOMAIN ranges' : In(ranges'[k], i)
  <2>1. i \in 0..LargestIndex
      BY <1>1, StoreAssumption DEF IndexesOf, Inv, Shape
  <2>2. CASE i \in indexes
      BY <2>2 DEF NextIndex
  <2>3. CASE i \notin indexes
    <3>1. PICK k \in DOMAIN ranges : In(ranges[k], i)
        BY <1>1, <2>3 DEF Indexing, Counting
    <3>2. k \in 1..Len(ranges)
        BY <1>2, <3>1
    <3>3. CASE k # 1
      <4>1. /\ Len(Tail(ranges)) = Len(ranges) - 1
            /\ k - 1 \in 1..Len(Tail(ranges)) /\ Tail(ranges)[k - 1] = ranges[k]
          BY <1>2, <3>2, <3>3
      <4>2. CASE Within(low, high)
        <5>1. ranges' = <<top>> \o Tail(ranges)
            BY <4>2 DEF NextIndex
        <5>2. k \in DOMAIN ranges' /\ ranges'[k] = ranges[k]
            BY <1>2, <3>2, <3>3, <4>1, <5>1
        <5> QED BY <3>1, <5>2
      <4>3. CASE ~Within(low, high)
        <5>1. ranges' = Tail(ranges)
            BY <4>3 DEF NextIndex
        <5> QED BY <3>1, <4>1, <5>1
      <4> QED BY <4>2, <4>3
    <3>4. CASE k = 1
      <4>1. low <= i /\ i <= high
          BY <1>2, <3>1, <3>4
      <4>2. Within(low, high)
          BY <1>2, <2>1, <4>1 DEF Within
      <4>3. indexes' = indexes \cup {low} /\ ranges' = <<top>> \o Tail(ranges)
          BY <4>2 DEF NextIndex
      <4>4. CASE i = low
          BY <4>3, <4>4
      <4>5. CASE i # low
        <5>1. low < LargestIndex
            BY <1>2, <2>1, <4>1, <4>5
        <5>2. Incremented(low) = low + 1
            BY <1>2, <5>1, IncrementsByOne
        <5>3. 1 \in DOMAIN ranges' /\ ranges'[1] = top
            BY <1>2, <4>3
        <5>4. In(top, i)
            BY <1>2, <2>1, <4>1, <4>5, <5>2
        <5> QED BY <5>3, <5>4
      <4> QED BY <4>4, <4>5
    <3> QED BY <3>3, <3>4
  <2> QED BY <2>2, <2>3
<1>4. Counting'
    BY <1>1, <1>3 DEF Counting, IndexesOf
<1> QED BY <1>1, <1>4 DEF Indexing, IndexesStored, Stored, Active

LEMMA InsertIndexesIndexing ==
    ASSUME Inv, Completion, Indexing, InsertIndexes
    PROVE  Indexing'
<1>1. /\ Active /\ stage = "indexes" /\ stage' = "ops" /\ ended' # "completed" /\ txn
      /\ Passed' = Passed /\ file' = file /\ ranges = <<>>
    BY DEF InsertIndexes, runVars, Completion, Iteration, Active, Passed,
           Inv, Shape, TypeOK
<1> DEFINE rows == {[module |-> file.uuid, index |-> i] : i \in indexes}
<1>2. db' = db /\ work' = [work EXCEPT !.diagIndexes = @ \cup rows]
    BY <1>1 DEF InsertIndexes, Write
<1>3. \A i \in IndexesOf(file) : i \in indexes
    BY <1>1 DEF Indexing, Counting
<1>4. \A i \in IndexesOf(file) : [module |-> file.uuid, index |-> i] \in rows
    BY <1>3
<1> HIDE DEF rows
<1>5. work'.diagIndexes = work.diagIndexes \cup rows
    BY <1>2, IndexesEdit DEF Inv, Shape
<1>6. Stored(work', file')
    BY <1>1, <1>4, <1>5 DEF Stored
<1> QED BY <1>1, <1>2, <1>5, <1>6, IndexesAside DEF Indexing

LEMMA InsertOperationIndexing ==
    ASSUME Inv, Completion, Indexing, NEW o \in opsLeft, InsertOperation(o)
    PROVE  Indexing'
<1>1. CASE Stop("aborted")
    BY <1>1, StopIndexing
<1>2. CASE ~Stop("aborted")
  <2>1. /\ Active /\ stage = "ops" /\ stage' = "ops" /\ ended' # "completed" /\ txn
        /\ Passed' = Passed /\ file' = file
      BY <1>2 DEF InsertOperation, runVars, Completion, Iteration, Active,
         Passed, Inv, Shape, TypeOK
  <2>2. db' = db /\ work' = [work EXCEPT !.operations = @ \cup {RowOf(o)}]
      BY <1>2, <2>1 DEF InsertOperation, Write, RowOf
  <2>3. work'.diagIndexes = work.diagIndexes
      BY <2>2, OperationsEdit DEF Inv, Shape
  <2>4. Stored(work', file')
      BY <2>1, <2>3 DEF Indexing, Stored
  <2> QED BY <2>1, <2>2, <2>3, <2>4, IndexesAside DEF Indexing
<1> QED BY <1>1, <1>2

LEMMA InsertModuleIndexing ==
    ASSUME Inv, Completion, Indexing, InsertModule
    PROVE  Indexing'
<1>1. CASE file.uuid \in work.modules
    BY <1>1, StopIndexing DEF InsertModule
<1>2. CASE file.uuid \notin work.modules
  <2>1. /\ Active /\ stage = "ops" /\ stage' = "pick" /\ ended' # "completed"
        /\ Passed' = Passed
      BY <1>2 DEF InsertModule, runVars, Completion, Iteration, Active, Passed
  <2>2. /\ db'.diagIndexes = work.diagIndexes /\ work' = db'
      BY <1>2, ModulesEdit DEF InsertModule, Commit, Inv, Shape
  <2>3. Stored(db', file)
      BY <2>1, <2>2 DEF Indexing, Stored
  <2> QED BY <2>1, <2>2, <2>3, IndexesAside DEF Indexing
<1> QED BY <1>1, <1>2

(* A string table changes no index; its commit makes final what is there.  *)
LEMMA TableIndexing ==
    ASSUME Inv, Completion, Indexing, BeginTable \/ InsertTable \/ InsertValues
    PROVE  Indexing'
<1>1. CASE Stop("aborted")
    BY <1>1, StopIndexing
<1>2. CASE ~Stop("aborted")
  <2>1. /\ Active /\ stage' \notin {"indexes", "ops"} /\ ended' # "completed"
        /\ Passed' = Passed /\ file \in TableFiles
      BY <1>2 DEF BeginTable, InsertTable, InsertValues, fileVars, runVars,
         Completion, Iteration, Active, Passed, Inv, Shape
  <2>2. /\ work'.diagIndexes = work.diagIndexes
        /\ db'.diagIndexes \in {db.diagIndexes, work.diagIndexes}
    <3>1. CASE BeginTable
        BY <3>1, WithoutTableIs DEF BeginTable, Begin, Inv, Shape
    <3>2. CASE InsertTable
        BY <3>2, TablesEdit DEF InsertTable, Write, dbVars, Inv, Shape, TypeOK
    <3>3. CASE InsertValues
      <4> DEFINE vs == {[table |-> file.uuid, value |-> v] : v \in file.values}
      <4>1. Commit([work EXCEPT !.values = @ \cup vs])
          BY <1>2, <3>3 DEF InsertValues
      <4> HIDE DEF vs
      <4> QED BY <4>1, ValuesEdit DEF Commit, Inv, Shape
    <3> QED BY <3>1, <3>2, <3>3
  <2> QED BY <2>1, <2>2, ReadableFiles, IndexesAside DEF Indexing
<1> QED BY <1>1, <1>2

LEMMA NextIndexing == Inv /\ Completion /\ Indexing /\ [Next]_vars => Indexing'
<1> SUFFICES ASSUME Inv, Completion, Indexing, [Next]_vars PROVE Indexing'
    OBVIOUS
<1>1. CASE \E d \in Disks : StartLoad(d)
    BY <1>1, StartLoadIndexing
<1>2. CASE \E f \in todo : OpenFile(f)
    BY <1>2, OpenFileIndexing
<1>3. CASE RemoveModule
    BY <1>3, RemoveModuleIndexing
<1>4. CASE BeginModule
    BY <1>4, BeginModuleIndexing
<1>5. CASE NextIndex
    BY <1>5, NextIndexIndexing
<1>6. CASE InsertIndexes
    BY <1>6, InsertIndexesIndexing
<1>7. CASE \E o \in opsLeft : InsertOperation(o)
    BY <1>7, InsertOperationIndexing
<1>8. CASE RejectModule \/ Crash
    BY <1>8, StopIndexing DEF RejectModule, Crash
<1>9. CASE InsertModule
    BY <1>9, InsertModuleIndexing
<1>10. CASE BeginTable \/ InsertTable \/ InsertValues
    BY <1>10, TableIndexing
<1>11. CASE FinishLoad
    BY <1>11, FinishIndexing
<1>12. CASE UNCHANGED vars
    BY <1>12 DEF vars, dbVars, loadVars, fileVars, runVars, Indexing, Counting,
       Stored, IndexesStored, Active, Passed
<1> QED BY <1>1, <1>2, <1>3, <1>4, <1>5, <1>6, <1>7, <1>8, <1>9, <1>10, <1>11,
           <1>12 DEF Next, Step

(* A load that ends normally has stored every index of every file, those   *)
(* within its ranges with both ends, for every largest number and through  *)
(* the wrap-around of the loop (parseEcuFile).                             *)
THEOREM LoadsStoreIndexes == Spec => []IndexesStored
<1>1. Indexing => IndexesStored
    BY DEF Indexing
<1> QED BY <1>1, InitCompletion, NextCompletion, Inductive, InitIndexing,
           NextIndexing, PTL DEF Spec
=============================================================================
