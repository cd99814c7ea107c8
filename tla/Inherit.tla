------------------------------- MODULE Inherit -------------------------------
(***************************************************************************)
(* ControlUnit::loadByUuid (libds2/controlunit.cpp): a control unit is put *)
(* together from its module definition and those it descends from.  An     *)
(* operation may extend one of an ancestor (parent_id), and so may a       *)
(* result.  SQLite returns the rows of a query in any order.               *)
(*                                                                         *)
(* Of a result only the place of its definition matters here: the uuid of  *)
(* the row that gives its type, display format, length and conversions.    *)
(***************************************************************************)
EXTENDS Naturals, FiniteSets

CONSTANTS
    Databases,  \* contents of the modules, operations and results tables
    None        \* the null uuid, protocol or command

(* Rows are records, and the tables keep uuids apart, the names of the     *)
(* operations of a module, and those of the results of an operation, which *)
(* belong to some module or operation (initializeDatabase).  Nothing in    *)
(* the loader or the tables refuses a cycle of parents; those of results   *)
(* are assumed to have none, as Definer takes the whole of their loop in   *)
(* one step.                                                               *)
NoCycle(rows) ==
    \A S \in SUBSET rows : S # {} =>
        \E r \in S : \A s \in S : r.parent # s.uuid
Keyed(rows) ==
    /\ IsFiniteSet(rows)
    /\ \A r \in rows : r.uuid # None
    /\ \A r, s \in rows : r.uuid = s.uuid => r = s
ASSUME InheritAssumption ==
    \A d \in Databases :
        /\ Keyed(d.modules) /\ Keyed(d.operations) /\ Keyed(d.results)
        /\ \A o, p \in d.operations :
              /\ o.module # None
              /\ o.module = p.module /\ o.name = p.name => o = p
        /\ \A r, s \in d.results :
              /\ r.operation # None
              /\ r.operation = s.operation /\ r.name = s.name => r = s
        /\ NoCycle(d.results)

VARIABLES
    db,         \* the database; fixed
    self,       \* aUuid
    module,     \* moduleParent
    protocol,   \* _protocol
    rows,       \* rows of operationsForModuleQuery still to come
    row,        \* opRecord
    op,         \* the operation being put together
    walk,       \* curOpUuid
    ops,        \* _operations: by name
    stage       \* where the loops are

vars == <<db, self, module, protocol, rows, row, op, walk, ops, stage>>

-----------------------------------------------------------------------------
(* Queries.                                                                *)

Named(table, uuid) == {r \in table : r.uuid = uuid}
(* The parent in the record of uuid, null when there is no such row.       *)
ParentIn(table, uuid) ==
    IF \E r \in table : r.uuid = uuid
    THEN (CHOOSE r \in table : r.uuid = uuid).parent
    ELSE None

RowsOf(m) == {o \in db.operations : o.module = m}
ResultsOf(o) == {r \in db.results : r.operation = o}

(* The row a result takes its type from: the nearest on its chain of       *)
(* parents that has one.                                                   *)
Definer(r) ==
    LET n == Cardinality(db.results)
        at[i \in 0..n] ==
            IF i = 0 THEN r
            ELSE IF at[i - 1].typed \/ Named(db.results, at[i - 1].parent) = {}
                 THEN at[i - 1]
                 ELSE CHOOSE s \in db.results : s.uuid = at[i - 1].parent
    IN  at[n].uuid

-----------------------------------------------------------------------------
(* An empty protocol is skipped, in the hope that the parent gives one;    *)
(* but only the module's own record is asked.                              *)
ProtocolOf(m) ==
    IF \E r \in db.modules : r.uuid = m /\ r.protocol # None
    THEN (CHOOSE r \in db.modules : r.uuid = m).protocol
    ELSE "DS2"

Protocols == {"DS2", "KWP0"}
BadProtocol ==
    module = self /\ \E m \in Named(db.modules, self) :
                        m.protocol \notin Protocols \cup {None}

Init ==
    /\ db \in Databases
    /\ self = None /\ module = None /\ protocol = "DS2"
    /\ rows = {} /\ row = None /\ op = None /\ walk = None
    /\ ops = [n \in {} |-> None]
    /\ stage = "idle"

(* The constructor calls loadByUuid, which clears _operations.             *)
Construct(u) ==
    /\ stage = "idle"
    /\ self' = u /\ module' = u /\ protocol' = "DS2"
    /\ ops' = [n \in {} |-> None]
    /\ stage' = "module"
    /\ UNCHANGED <<db, rows, row, op, walk>>

(* Any other protocol: std::invalid_argument.                              *)
RefuseModule ==
    /\ stage = "module" /\ module # None /\ BadProtocol
    /\ stage' = "thrown"
    /\ UNCHANGED <<db, self, module, protocol, rows, row, op, walk, ops>>

(* The record of the module, and the query for its operations.             *)
VisitModule ==
    /\ stage = "module" /\ module # None /\ ~BadProtocol
    /\ protocol' = IF module = self THEN ProtocolOf(self) ELSE protocol
    /\ rows' = RowsOf(module)
    /\ stage' = "rows"
    /\ UNCHANGED <<db, self, module, row, op, walk, ops>>

Overridden(r) == r.name \in DOMAIN ops /\ ops[r.name].parent # r.uuid
Extended(r) == r.name \in DOMAIN ops /\ ops[r.name].parent = r.uuid

SkipRow(r) ==
    /\ stage = "rows" /\ r \in rows
    /\ Overridden(r)
    /\ rows' = rows \ {r}
    /\ UNCHANGED <<db, self, module, protocol, row, op, walk, ops, stage>>

(* The command of an operation that has none comes from its parent.        *)
WithCommand_Never(o, r) == o
WithCommand_Last(o, r) == [o EXCEPT !.command = r.command]
WithCommand(o, r) ==
    IF o.command = None THEN [o EXCEPT !.command = r.command] ELSE o

TakeRow(r) ==
    /\ stage = "rows" /\ r \in rows
    /\ ~Overridden(r)
    /\ rows' = rows \ {r}
    /\ row' = r
    /\ op' = IF Extended(r)
             THEN WithCommand(ops[r.name], r)
             ELSE [uuid |-> r.uuid, parent |-> r.parent, command |-> r.command,
                   results |-> [n \in {} |-> None]]
    /\ walk' = r.uuid
    /\ stage' = "walk"
    /\ UNCHANGED <<db, self, module, protocol, ops>>

(* Results already there have a higher priority.                           *)
WithResults_Replaced(f, found) ==
    [n \in DOMAIN f \cup {r.name : r \in found} |->
        IF \E r \in found : r.name = n
        THEN Definer(CHOOSE r \in found : r.name = n)
        ELSE f[n]]
WithResults(f, found) ==
    [n \in DOMAIN f \cup {r.name : r \in found} |->
        IF n \in DOMAIN f THEN f[n]
        ELSE Definer(CHOOSE r \in found : r.name = n)]

(* curOpRecord is replaced by the parent's in each round.                  *)
ParentOp_OfRow(uuid) == row.parent
ParentOp(uuid) == ParentIn(db.operations, uuid)

(* One round of the loop over the parents of the operation.                *)
WalkUp ==
    /\ stage = "walk" /\ walk # None
    /\ op' = [op EXCEPT !.results = WithResults(@, ResultsOf(walk))]
    /\ walk' = ParentOp(walk)
    /\ UNCHANGED <<db, self, module, protocol, rows, row, ops, stage>>

StoreOp ==
    /\ stage = "walk" /\ walk = None
    /\ ops' = [n \in DOMAIN ops \cup {row.name} |->
                  IF n = row.name THEN op ELSE ops[n]]
    /\ stage' = "rows"
    /\ UNCHANGED <<db, self, module, protocol, rows, row, op, walk>>

NextModule ==
    /\ stage = "rows" /\ rows = {}
    /\ module' = ParentIn(db.modules, module)
    /\ stage' = "module"
    /\ UNCHANGED <<db, self, protocol, rows, row, op, walk, ops>>

Finish ==
    /\ stage = "module" /\ module = None
    /\ stage' = "done"
    /\ UNCHANGED <<db, self, module, protocol, rows, row, op, walk, ops>>

LoadStep ==
    \/ RefuseModule
    \/ VisitModule
    \/ \E r \in rows : SkipRow(r) \/ TakeRow(r)
    \/ WalkUp
    \/ StoreOp
    \/ NextModule
    \/ Finish

Next ==
    \/ \E u \in {r.uuid : r \in db.modules} : Construct(u)
    \/ LoadStep

Spec == Init /\ [][Next]_vars

(* One thread over a local database.                                       *)
FairSpec == Spec /\ WF_vars(Next)

-----------------------------------------------------------------------------
(* The chain of parents of a uuid, itself first.                           *)
ChainOf(table, uuid) ==
    LET n == Cardinality(table)
        at[i \in 1..(n + 2)] == IF i = 1 THEN uuid
                                ELSE ParentIn(table, at[i - 1])
    IN  at
Place(table, uuid, x) ==
    {i \in 1..(Cardinality(table) + 2) : ChainOf(table, uuid)[i] = x}

Inherited(n) == {o \in db.operations :
                    o.name = n /\ Place(db.modules, self, o.module) # {}}
NearestOp(n) ==
    CHOOSE o \in Inherited(n) : \A p \in Inherited(n) :
        \E i \in Place(db.modules, self, o.module) :
            \A j \in Place(db.modules, self, p.module) : i <= j
Reachable(o, n) == {r \in db.results :
                       r.name = n /\ Place(db.operations, o, r.operation) # {}}
NearestResult(o, n) ==
    CHOOSE r \in Reachable(o, n) : \A s \in Reachable(o, n) :
        \E i \in Place(db.operations, o, r.operation) :
            \A j \in Place(db.operations, o, s.operation) : i <= j

(* Type invariant: what is being put together belongs to the row in hand.  *)
TypeOK ==
    /\ stage \in {"idle", "module", "rows", "walk", "done", "thrown"}
    /\ protocol \in Protocols
    /\ rows \subseteq RowsOf(module)
    /\ stage = "walk" => row.module = module /\ op.uuid \in
          {o.uuid : o \in Inherited(row.name)}
    /\ stage = "done" => module = None /\ rows = {}

(* "Merged recursively with all parent ECUs, with items higher up on the   *)
(* tree taking a lower precedence" (dpp-json/README.md): the operations    *)
(* are those of all ancestors, each the nearest of its name; and each has  *)
(* the results of all operations it extends, each the nearest of its name. *)
MergedByPrecedence ==
    stage = "done" =>
        /\ DOMAIN ops = {o.name : o \in {p \in db.operations :
                            Place(db.modules, self, p.module) # {}}}
        /\ \A n \in DOMAIN ops :
              /\ ops[n].uuid = NearestOp(n).uuid
              /\ DOMAIN ops[n].results =
                    {r.name : r \in {s \in db.results :
                        Place(db.operations, ops[n].uuid, s.operation) # {}}}
              /\ \A k \in DOMAIN ops[n].results :
                    ops[n].results[k] = Definer(NearestResult(ops[n].uuid, k))

(* Priority never turns round while loading: an operation, its command and *)
(* its results stay once they are known ("If we've not yet set the command *)
(* from a higher priority operation, use this one").                       *)
HigherPriorityStays ==
    [][stage # "idle" => \A n \in DOMAIN ops :
          /\ n \in DOMAIN ops'
          /\ ops'[n].uuid = ops[n].uuid
          /\ ops[n].command # None => ops'[n].command = ops[n].command
          /\ \A k \in DOMAIN ops[n].results :
                /\ k \in DOMAIN ops'[n].results
                /\ ops'[n].results[k] = ops[n].results[k]]_vars

(* The operations that one extends, itself among them; and the nearest of  *)
(* those that have a command.                                              *)
Commanding(u) ==
    {o \in db.operations : o.command # None /\ Place(db.operations, u, o.uuid) # {}}
NearestCommanding(u) ==
    CHOOSE o \in Commanding(u) : \A p \in Commanding(u) :
        \E i \in Place(db.operations, u, o.uuid) :
            \A j \in Place(db.operations, u, p.uuid) : i <= j
NearestCommand(u) ==
    IF Commanding(u) = {} THEN None ELSE NearestCommanding(u).command

(* "Merged recursively with all parent ECUs" (dpp-json/README.md): each    *)
(* operation has the command of the nearest one it extends that gives one, *)
(* itself included, over any number of generations.                        *)
CommandsInherited ==
    stage = "done" =>
        \A n \in DOMAIN ops : ops[n].command = NearestCommand(ops[n].uuid)

(* What loadByUuid keeps of this, in any order of rows: a command that is  *)
(* there is that of the nearest operation that gives one, never one from   *)
(* further up or of a namesake that is not extended; and none is missing   *)
(* that the operation itself gives, or the one it extends directly and by  *)
(* its own name.                                                           *)
CommandsAreNearest ==
    stage = "done" =>
        \A n \in DOMAIN ops :
            IF ops[n].command # None
            THEN ops[n].command = NearestCommand(ops[n].uuid)
            ELSE /\ NearestOp(n).command = None
                 /\ \A p \in Inherited(n) :
                       p.uuid = NearestOp(n).parent => p.command = None

(* Loading ends exactly when the parents it follows have an end: those of  *)
(* the module, and of the operations that are taken from it.  For a cycle  *)
(* among them, which nothing refuses, the loops never end (loadByUuid).    *)
HasEnd(table, uuid) == Place(table, uuid, None) # {}
Ends ==
    /\ HasEnd(db.modules, self)
    /\ \A n \in {o.name : o \in db.operations} :
          Inherited(n) # {} => HasEnd(db.operations, NearestOp(n).uuid)
LoadingEnds ==
    /\ (stage = "module" /\ Ends) ~> (stage \in {"done", "thrown"})
    /\ [](stage = "done" => Ends)
=============================================================================
