---------------------------- MODULE InheritProofs ----------------------------
(***************************************************************************)
(* A control unit that is put together from its definition and those it    *)
(* inherits from, for every database, any order of rows and any depth of   *)
(* inheritance.                                                            *)
(*                                                                         *)
(* Nothing that has been taken from a nearer definition is lost or         *)
(* replaced, whatever the parents of operations are, cycles included:      *)
(* loadByUuid works on the operation of the row in hand and stores it at   *)
(* the end, and what is stored is kept because that operation always keeps *)
(* what the stored one of the same name has (PriorityInv).                 *)
(*                                                                         *)
(* What is there at the end is the nearest of everything: the chains of    *)
(* parents are functions on the numbers, the module in hand is the k-th of *)
(* its chain, and what has been gathered is stated for the k modules       *)
(* before it and the rows of this one that are done with (MergeInv).       *)
(***************************************************************************)
EXTENDS Inherit, FiniteSetTheorems, WellFoundedInduction, TLAPS

IsOp(o) == o = [uuid |-> o.uuid, parent |-> o.parent, command |-> o.command,
                results |-> o.results]

(* p has what o has.                                                       *)
Keeps(o, p) ==
    /\ p.uuid = o.uuid
    /\ o.command # None => p.command = o.command
    /\ \A k \in DOMAIN o.results :
          k \in DOMAIN p.results /\ p.results[k] = o.results[k]

InHand ==
    stage = "walk" =>
        IsOp(op) /\ (row.name \in DOMAIN ops => Keeps(ops[row.name], op))
PriorityInv == (\A n \in DOMAIN ops : IsOp(ops[n])) /\ InHand

(* A step as HigherPriorityStays wants it.                                 *)
OpsKept == \A n \in DOMAIN ops : n \in DOMAIN ops' /\ Keeps(ops[n], ops'[n])

-----------------------------------------------------------------------------
LEMMA KeepsSelf == ASSUME NEW o PROVE Keeps(o, o)
    BY DEF Keeps

LEMMA KeepsWithResults ==
    ASSUME NEW o, NEW p, NEW found, IsOp(p), Keeps(o, p)
    PROVE  LET q == [p EXCEPT !.results = WithResults(@, found)]
           IN  IsOp(q) /\ Keeps(o, q)
<1> DEFINE q == [p EXCEPT !.results = WithResults(@, found)]
<1>1. /\ q = [uuid |-> p.uuid, parent |-> p.parent, command |-> p.command,
              results |-> WithResults(p.results, found)]
    BY DEF IsOp
<1>2. IsOp(q)
    BY <1>1 DEF IsOp
<1>3. \A k \in DOMAIN p.results :
         /\ k \in DOMAIN WithResults(p.results, found)
         /\ WithResults(p.results, found)[k] = p.results[k]
    BY DEF WithResults
<1>4. Keeps(o, q)
  <2> HIDE DEF q
  <2>1. q.uuid = p.uuid /\ q.command = p.command
        /\ q.results = WithResults(p.results, found)
      BY <1>1
  <2> QED BY <2>1, <1>3 DEF Keeps
<1> QED BY <1>2, <1>4

LEMMA KeepsWithCommand ==
    ASSUME NEW o, NEW r, IsOp(o)
    PROVE  IsOp(WithCommand(o, r)) /\ Keeps(o, WithCommand(o, r))
<1>1. CASE o.command # None
    BY <1>1, KeepsSelf DEF WithCommand
<1>2. CASE o.command = None
  <2>1. WithCommand(o, r) = [uuid |-> o.uuid, parent |-> o.parent,
                             command |-> r.command, results |-> o.results]
      BY <1>2 DEF WithCommand, IsOp
  <2> QED BY <2>1, <1>2 DEF IsOp, Keeps
<1> QED BY <1>1, <1>2

-----------------------------------------------------------------------------
(* Steps that touch neither the stored operations nor the one in hand.     *)
LEMMA KeptAsIs ==
    ASSUME PriorityInv, UNCHANGED <<row, op, ops>>, stage' # "walk" \/ stage = "walk"
    PROVE  PriorityInv' /\ OpsKept
    BY KeepsSelf DEF PriorityInv, InHand, OpsKept

LEMMA ConstructKeeps ==
    ASSUME NEW u, Construct(u)
    PROVE  PriorityInv'
    BY DEF Construct, PriorityInv, InHand

LEMMA TakeRowKeeps ==
    ASSUME PriorityInv, NEW r \in rows, TakeRow(r)
    PROVE  PriorityInv' /\ OpsKept
<1>1. ops' = ops /\ row' = r /\ stage' = "walk"
    BY DEF TakeRow
<1>2. CASE Extended(r)
  <2>1. op' = WithCommand(ops[r.name], r) /\ r.name \in DOMAIN ops
      BY <1>2 DEF TakeRow, Extended
  <2>2. IsOp(ops[r.name])
      BY <2>1 DEF PriorityInv
  <2>3. IsOp(op') /\ Keeps(ops[r.name], op')
      BY <2>1, <2>2, KeepsWithCommand
  <2> QED BY <1>1, <2>3, KeepsSelf DEF PriorityInv, InHand, OpsKept, IsOp, Keeps
<1>3. CASE ~Extended(r)
  <2>1. r.name \notin DOMAIN ops
      BY <1>3 DEF TakeRow, Extended, Overridden
  <2>2. op' = [uuid |-> r.uuid, parent |-> r.parent, command |-> r.command,
               results |-> [n \in {} |-> None]]
      BY <1>3 DEF TakeRow
  <2> QED BY <1>1, <2>1, <2>2, KeepsSelf DEF PriorityInv, InHand, OpsKept, IsOp
<1> QED BY <1>2, <1>3

LEMMA WalkUpKeeps ==
    ASSUME PriorityInv, WalkUp
    PROVE  PriorityInv' /\ OpsKept
<1>1. /\ stage = "walk" /\ UNCHANGED <<stage, row, ops>>
      /\ op' = [op EXCEPT !.results = WithResults(@, ResultsOf(walk))]
    BY DEF WalkUp
<1>2. IsOp(op) /\ (row.name \in DOMAIN ops => Keeps(ops[row.name], op))
    BY <1>1 DEF PriorityInv, InHand
<1>3. IsOp(op')
    BY <1>1, <1>2, KeepsSelf, KeepsWithResults
<1>4. row.name \in DOMAIN ops => Keeps(ops[row.name], op')
    BY <1>1, <1>2, KeepsWithResults
<1> QED BY <1>1, <1>3, <1>4, KeepsSelf DEF PriorityInv, InHand, OpsKept, IsOp, Keeps

LEMMA StoreOpKeeps ==
    ASSUME PriorityInv, StoreOp
    PROVE  PriorityInv' /\ OpsKept
<1>1. /\ stage = "walk" /\ stage' = "rows"
      /\ ops' = [n \in DOMAIN ops \cup {row.name} |->
                    IF n = row.name THEN op ELSE ops[n]]
    BY DEF StoreOp
<1>2. IsOp(op) /\ (row.name \in DOMAIN ops => Keeps(ops[row.name], op))
    BY <1>1 DEF PriorityInv, InHand
<1>3. OpsKept
    BY <1>1, <1>2, KeepsSelf DEF OpsKept
<1>4. \A n \in DOMAIN ops' : ops'[n] = op \/ (n \in DOMAIN ops /\ ops'[n] = ops[n])
    BY <1>1
<1>5. \A n \in DOMAIN ops' : IsOp(ops'[n])
    BY <1>2, <1>4 DEF PriorityInv
<1> QED BY <1>1, <1>3, <1>5 DEF PriorityInv, InHand, IsOp

LEMMA LoadStepKeeps ==
    ASSUME PriorityInv, LoadStep
    PROVE  PriorityInv' /\ OpsKept
<1>1. CASE RefuseModule
    BY <1>1, KeptAsIs DEF RefuseModule
<1>2. CASE VisitModule
    BY <1>2, KeptAsIs DEF VisitModule
<1>3. ASSUME NEW r \in rows, SkipRow(r)
      PROVE  PriorityInv' /\ OpsKept
    BY <1>3, KeptAsIs DEF SkipRow
<1>4. ASSUME NEW r \in rows, TakeRow(r)
      PROVE  PriorityInv' /\ OpsKept
    BY <1>4, TakeRowKeeps
<1>5. CASE WalkUp
    BY <1>5, WalkUpKeeps
<1>6. CASE StoreOp
    BY <1>6, StoreOpKeeps
<1>7. CASE NextModule
    BY <1>7, KeptAsIs DEF NextModule
<1>8. CASE Finish
    BY <1>8, KeptAsIs DEF Finish
<1> QED BY <1>1, <1>2, <1>3, <1>4, <1>5, <1>6, <1>7, <1>8 DEF LoadStep

LEMMA PriorityInit == Init => PriorityInv
    BY DEF Init, PriorityInv, InHand

(* loadByUuid ("If we've not yet set the command from a higher priority    *)
(* operation, use this one"): an operation, its command and its results    *)
(* stay once they are known.                                               *)
THEOREM LoadingKeepsPriority == Spec => HigherPriorityStays
<1>1. PriorityInv /\ [Next]_vars => PriorityInv'
  <2> SUFFICES ASSUME PriorityInv, [Next]_vars PROVE PriorityInv'
      OBVIOUS
  <2>1. CASE LoadStep
      BY <2>1, LoadStepKeeps
  <2>2. ASSUME NEW u, Construct(u) PROVE PriorityInv'
      BY <2>2, ConstructKeeps
  <2>3. CASE UNCHANGED vars
      BY <2>3, KeptAsIs DEF vars
  <2> QED BY <2>1, <2>2, <2>3 DEF Next
<1>2. PriorityInv /\ [Next]_vars => (stage # "idle" => OpsKept) \/ UNCHANGED vars
  <2> SUFFICES ASSUME PriorityInv, Next, stage # "idle" PROVE OpsKept
      OBVIOUS
  <2>1. CASE LoadStep
      BY <2>1, LoadStepKeeps
  <2>2. ASSUME NEW u, Construct(u) PROVE OpsKept
      BY <2>2 DEF Construct
  <2> QED BY <2>1, <2>2 DEF Next
<1>3. PriorityInv /\ [Next]_vars =>
        [stage # "idle" => \A n \in DOMAIN ops :
            /\ n \in DOMAIN ops'
            /\ ops'[n].uuid = ops[n].uuid
            /\ ops[n].command # None => ops'[n].command = ops[n].command
            /\ \A k \in DOMAIN ops[n].results :
                  /\ k \in DOMAIN ops'[n].results
                  /\ ops'[n].results[k] = ops[n].results[k]]_vars
    BY <1>2 DEF OpsKept, Keeps
<1> QED BY <1>1, <1>3, PriorityInit, PTL DEF Spec, HigherPriorityStays

-----------------------------------------------------------------------------
(* The command of x is that of its own row, or, where that has none, of    *)
(* the row it extends.                                                     *)
OwnOrParents(x) ==
    \E o \in db.operations :
        /\ x.uuid = o.uuid /\ x.parent = o.parent
        /\ \/ x.command = o.command
           \/ /\ o.command = None
              /\ \E p \in db.operations : p.uuid = o.parent /\ x.command = p.command

Busy == stage \in {"module", "rows", "walk", "done"}
CommandInv ==
    Busy =>
        /\ \A n \in DOMAIN ops : OwnOrParents(ops[n])
        /\ stage = "walk" => OwnOrParents(op)

(* Steps that leave what has been put together as it is.                   *)
LEMMA CommandsAsTheyAre ==
    ASSUME CommandInv, Busy, UNCHANGED <<db, op, ops>>, stage' # "walk" \/ stage = "walk"
    PROVE  CommandInv'
BY DEF CommandInv, OwnOrParents

LEMMA TakeRowCommands ==
    ASSUME CommandInv, PriorityInv, NEW r \in rows, r \in db.operations, TakeRow(r)
    PROVE  CommandInv'
<1>1. stage = "rows" /\ UNCHANGED <<db, ops>>
    BY DEF TakeRow
<1>2. \A n \in DOMAIN ops : OwnOrParents(ops[n])
    BY <1>1 DEF CommandInv, Busy
<1>3. OwnOrParents(op')
  <2>1. CASE ~Extended(r)
    <3>1. op' = [uuid |-> r.uuid, parent |-> r.parent, command |-> r.command,
                 results |-> [n \in {} |-> None]]
        BY <2>1 DEF TakeRow
    <3> QED BY <3>1 DEF OwnOrParents
  <2>2. CASE Extended(r)
    <3>1. PICK x : x = ops[r.name]
        OBVIOUS
    <3>2. IsOp(x) /\ OwnOrParents(x) /\ op' = WithCommand(x, r) /\ x.parent = r.uuid
        BY <1>2, <2>2, <3>1 DEF TakeRow, Extended, PriorityInv
    <3>3. CASE x.command # None
        BY <3>2, <3>3 DEF WithCommand
    <3>4. CASE x.command = None
      <4>1. op' = [uuid |-> x.uuid, parent |-> x.parent, command |-> r.command,
                   results |-> x.results]
          BY <3>2, <3>4 DEF WithCommand, IsOp
      <4>2. op'.uuid = x.uuid /\ op'.parent = x.parent /\ op'.command = r.command
          BY <4>1
      <4>3. PICK o \in db.operations :
               /\ x.uuid = o.uuid /\ x.parent = o.parent
               /\ x.command = o.command \/ o.command = None
          BY <3>2 DEF OwnOrParents
      <4>4. o.command = None
          BY <3>4, <4>3
      <4> QED BY <3>2, <4>2, <4>3, <4>4 DEF OwnOrParents
    <3> QED BY <3>3, <3>4
  <2> QED BY <2>1, <2>2
<1>4. OwnOrParents(op)' /\ \A n \in DOMAIN ops' : OwnOrParents(ops[n])'
    BY <1>1, <1>2, <1>3 DEF OwnOrParents
<1> QED BY <1>4 DEF CommandInv

LEMMA WalkUpCommands ==
    ASSUME CommandInv, PriorityInv, WalkUp
    PROVE  CommandInv'
<1>1. /\ stage = "walk" /\ stage' = "walk" /\ UNCHANGED <<db, ops>>
      /\ op' = [op EXCEPT !.results = WithResults(@, ResultsOf(walk))]
    BY DEF WalkUp
<1>2. /\ op = [uuid |-> op.uuid, parent |-> op.parent, command |-> op.command,
               results |-> op.results]
      /\ OwnOrParents(op) /\ \A n \in DOMAIN ops : OwnOrParents(ops[n])
    BY <1>1 DEF PriorityInv, InHand, IsOp, CommandInv, Busy
<1>3. op' = [uuid |-> op.uuid, parent |-> op.parent, command |-> op.command,
             results |-> WithResults(op.results, ResultsOf(walk))]
    BY <1>1, <1>2
<1>4. op'.uuid = op.uuid /\ op'.parent = op.parent /\ op'.command = op.command
    BY <1>3
<1>5. OwnOrParents(op)' /\ \A n \in DOMAIN ops' : OwnOrParents(ops[n])'
    BY <1>1, <1>2, <1>4 DEF OwnOrParents
<1> QED BY <1>5 DEF CommandInv

LEMMA StoreOpCommands ==
    ASSUME CommandInv, StoreOp
    PROVE  CommandInv'
<1>1. /\ stage = "walk" /\ stage' = "rows" /\ UNCHANGED <<db, op>>
      /\ ops' = [n \in DOMAIN ops \cup {row.name} |->
                    IF n = row.name THEN op ELSE ops[n]]
    BY DEF StoreOp
<1>2. OwnOrParents(op) /\ \A n \in DOMAIN ops : OwnOrParents(ops[n])
    BY <1>1 DEF CommandInv, Busy
<1>3. \A n \in DOMAIN ops' : ops'[n] = op \/ (n \in DOMAIN ops /\ ops'[n] = ops[n])
    BY <1>1
<1>4. \A n \in DOMAIN ops' : OwnOrParents(ops[n])'
    BY <1>1, <1>2, <1>3 DEF OwnOrParents
<1> QED BY <1>1, <1>4 DEF CommandInv

LEMMA LoadStepCommands ==
    ASSUME CommandInv, PriorityInv, rows \subseteq db.operations, LoadStep
    PROVE  CommandInv'
<1>1. CASE RefuseModule
    BY <1>1 DEF RefuseModule, CommandInv, Busy
<1>2. CASE VisitModule
    BY <1>2, CommandsAsTheyAre DEF VisitModule, Busy
<1>3. ASSUME NEW r \in rows, SkipRow(r) PROVE CommandInv'
    BY <1>3, CommandsAsTheyAre DEF SkipRow, Busy
<1>4. ASSUME NEW r \in rows, TakeRow(r) PROVE CommandInv'
    BY <1>4, TakeRowCommands
<1>5. CASE WalkUp
    BY <1>5, WalkUpCommands
<1>6. CASE StoreOp
    BY <1>6, StoreOpCommands
<1>7. CASE NextModule
    BY <1>7, CommandsAsTheyAre DEF NextModule, Busy
<1>8. CASE Finish
    BY <1>8, CommandsAsTheyAre DEF Finish, Busy
<1> QED BY <1>1, <1>2, <1>3, <1>4, <1>5, <1>6, <1>7, <1>8 DEF LoadStep

-----------------------------------------------------------------------------
(* Numbers.                                                                *)

(* A non-empty set of numbers has a least one.                             *)
LEMMA LeastNumber ==
    ASSUME NEW T \in SUBSET Nat, T # {}
    PROVE  \E n \in T : \A m \in T : n <= m
<1> DEFINE R == StrictSubsetOrdering(Nat)
           U == {0..n : n \in T}
<1>1. U \subseteq FiniteSubsetsOf(Nat) /\ U # {}
    <2>1. \A n \in T : IsFiniteSet(0..n) /\ 0..n \in SUBSET Nat
        BY FS_Interval
    <2> QED BY <2>1 DEF FiniteSubsetsOf
<1>2. PICK x \in U : \A y \in U : <<y, x>> \notin R
    <2> HIDE DEF U
    <2> QED BY <1>1, WFMin, FS_StrictSubsetOrderingWellFounded
<1>3. PICK n \in T : x = 0..n
    OBVIOUS
<1>4. ASSUME NEW m \in T, m < n PROVE FALSE
    <2>1. 0..m \in U /\ <<0..m, 0..n>> \in R
        BY <1>4 DEF StrictSubsetOrdering
    <2> QED BY <1>2, <1>3, <2>1
<1> QED BY <1>3, <1>4

(* Induction, with a set in place of the predicate.                        *)
LEMMA Induction ==
    ASSUME NEW S, 0 \in S, \A n \in Nat : n \in S => n + 1 \in S
    PROVE  Nat \subseteq S
<1> DEFINE T == Nat \ S
<1> SUFFICES ASSUME T # {} PROVE FALSE
    OBVIOUS
<1>1. PICK n \in T : \A m \in T : n <= m
    <2>1. T \in SUBSET Nat
        OBVIOUS
    <2> HIDE DEF T
    <2> QED BY <2>1, LeastNumber
<1>2. n # 0 /\ n - 1 \in Nat /\ n - 1 \in S
    BY <1>1
<1> QED BY <1>2

-----------------------------------------------------------------------------
(* The parents of a uuid, without the bound of ChainOf.                    *)
Chain(table, u) ==
    LET up[i \in Nat] == IF i = 0 THEN u ELSE ParentIn(table, up[i - 1])
    IN  up
Segment(g, table, u, n) ==
    g = [i \in 0..n |-> IF i = 0 THEN u ELSE ParentIn(table, g[i - 1])]

LEMMA SegmentExists ==
    ASSUME NEW table, NEW u, NEW n \in Nat
    PROVE  \E g : Segment(g, table, u, n)
<1> DEFINE S == {k \in Nat : \E g : Segment(g, table, u, k)}
<1>1. 0 \in S
    <2>1. Segment([i \in 0..0 |-> u], table, u, 0)
        BY DEF Segment
    <2> QED BY <2>1
<1>2. ASSUME NEW k \in Nat, k \in S PROVE k + 1 \in S
    <2>1. PICK g : Segment(g, table, u, k)
        BY <1>2
    <2> DEFINE h == [i \in 0..(k + 1) |->
                        IF i <= k THEN g[i] ELSE ParentIn(table, g[k])]
    <2>2. \A i \in 0..k : g[i] = IF i = 0 THEN u ELSE ParentIn(table, g[i - 1])
        BY <2>1 DEF Segment
    <2>3. ASSUME NEW i \in 0..(k + 1)
          PROVE  h[i] = IF i = 0 THEN u ELSE ParentIn(table, h[i - 1])
        <3>1. CASE i <= k
            <4>1. h[i] = g[i] /\ (i # 0 => h[i - 1] = g[i - 1])
                BY <3>1
            <4> QED BY <2>2, <3>1, <4>1
        <3>2. CASE i = k + 1
            <4>1. h[i] = ParentIn(table, g[k]) /\ h[i - 1] = g[k] /\ i # 0
                BY <3>2
            <4> QED BY <4>1
        <3> QED BY <3>1, <3>2
    <2>4. DOMAIN h = 0..(k + 1) /\ h = [i \in 0..(k + 1) |-> h[i]]
        OBVIOUS
    <2> HIDE DEF h
    <2>5. h = [i \in 0..(k + 1) |-> IF i = 0 THEN u ELSE ParentIn(table, h[i - 1])]
        BY <2>3, <2>4
    <2> QED BY <2>5 DEF Segment
<1> HIDE DEF S
<1>3. n \in S
    BY <1>1, <1>2, Induction
<1> QED BY <1>3 DEF S

LEMMA SegmentUnique ==
    ASSUME NEW table, NEW u, NEW n \in Nat, NEW m \in Nat, NEW g, NEW h,
           Segment(g, table, u, n), Segment(h, table, u, m)
    PROVE  \A i \in 0..n : i \in 0..m => g[i] = h[i]
<1> DEFINE T == {i \in 0..n : i \in 0..m /\ g[i] # h[i]}
<1> SUFFICES ASSUME T # {} PROVE FALSE
    OBVIOUS
<1>1. PICK i \in T : \A j \in T : i <= j
    <2>1. T \in SUBSET Nat
        OBVIOUS
    <2> HIDE DEF T
    <2> QED BY <2>1, LeastNumber
<1>2. /\ g[i] = IF i = 0 THEN u ELSE ParentIn(table, g[i - 1])
      /\ h[i] = IF i = 0 THEN u ELSE ParentIn(table, h[i - 1])
    BY DEF Segment
<1>3. i # 0 /\ i - 1 \in 0..n /\ i - 1 \in 0..m
    BY <1>2
<1>4. g[i - 1] = h[i - 1]
    BY <1>1, <1>3
<1> QED BY <1>2, <1>4

LEMMA ChainSteps ==
    ASSUME NEW table, NEW u
    PROVE  /\ Chain(table, u)[0] = u
           /\ \A i \in Nat : Chain(table, u)[i + 1] = ParentIn(table, Chain(table, u)[i])
<1> DEFINE seg(n) == CHOOSE g : Segment(g, table, u, n)
           f == [n \in Nat |-> seg(n)[n]]
<1>1. \A n \in Nat : Segment(seg(n), table, u, n)
    BY SegmentExists
<1>2. ASSUME NEW n \in Nat
      PROVE  f[n] = IF n = 0 THEN u ELSE ParentIn(table, f[n - 1])
    <2>1. seg(n)[n] = IF n = 0 THEN u ELSE ParentIn(table, seg(n)[n - 1])
        <3> HIDE DEF seg
        <3>1. Segment(seg(n), table, u, n)
            BY <1>1
        <3> QED BY <3>1 DEF Segment
    <2>2. n # 0 => seg(n)[n - 1] = seg(n - 1)[n - 1]
        <3> HIDE DEF seg
        <3> SUFFICES ASSUME n # 0 PROVE seg(n)[n - 1] = seg(n - 1)[n - 1]
            OBVIOUS
        <3>1. n - 1 \in Nat /\ n - 1 \in 0..n /\ n - 1 \in 0..(n - 1)
            OBVIOUS
        <3> QED BY <1>1, <3>1, SegmentUnique
    <2> HIDE DEF seg
    <2> QED BY <2>1, <2>2
<1>3. f = [n \in Nat |-> f[n]]
    OBVIOUS
<1> HIDE DEF f
<1>4. f = [n \in Nat |-> IF n = 0 THEN u ELSE ParentIn(table, f[n - 1])]
    BY <1>2, <1>3
<1> DEFINE c == Chain(table, u)
<1>5. c = [n \in Nat |-> IF n = 0 THEN u ELSE ParentIn(table, c[n - 1])]
    BY <1>4 DEF Chain
<1> HIDE DEF c
<1>6. \A n \in Nat : c[n] = IF n = 0 THEN u ELSE ParentIn(table, c[n - 1])
    BY <1>5
<1>7. c[0] = u /\ \A i \in Nat : c[i + 1] = ParentIn(table, c[i])
    <2>1. \A i \in Nat : i + 1 \in Nat /\ i + 1 # 0 /\ (i + 1) - 1 = i
        OBVIOUS
    <2> QED BY <1>6, <2>1
<1> QED BY <1>7 DEF c

(* A uuid without a row, and so None, is the end.                          *)
LEMMA ChainEnds ==
    ASSUME NEW table, NEW u, Keyed(table), NEW i \in Nat,
           Chain(table, u)[i] = None
    PROVE  \A j \in Nat : i <= j => Chain(table, u)[j] = None
<1> DEFINE c == Chain(table, u)
           S == {d \in Nat : c[i + d] = None}
<1>1. ParentIn(table, None) = None
    BY DEF ParentIn, Keyed
<1>2. \A k \in Nat : c[k + 1] = ParentIn(table, c[k])
    BY ChainSteps
<1> HIDE DEF c
<1>3. c[i] = None
    BY DEF c
<1>4. 0 \in S
    BY <1>3
<1>5. ASSUME NEW d \in Nat, d \in S PROVE d + 1 \in S
    <2>1. i + d \in Nat /\ (i + d) + 1 = i + (d + 1) /\ c[i + d] = None
        BY <1>5
    <2>2. c[(i + d) + 1] = None
        BY <1>1, <1>2, <2>1
    <2> QED BY <2>1, <2>2
<1> HIDE DEF S
<1>6. Nat \subseteq S
    BY <1>4, <1>5, Induction
<1>7. ASSUME NEW j \in Nat, i <= j PROVE c[j] = None
    <2>1. j - i \in S
        BY <1>6, <1>7
    <2> QED BY <2>1, <1>7 DEF S
<1> QED BY <1>7 DEF c

(* From a uuid that comes again the chain goes on as it did.               *)
LEMMA ChainRepeats ==
    ASSUME NEW table, NEW u, NEW a \in Nat, NEW b \in Nat,
           Chain(table, u)[a] = Chain(table, u)[b]
    PROVE  \A d \in Nat : Chain(table, u)[a + d] = Chain(table, u)[b + d]
<1> DEFINE c == Chain(table, u)
           S == {d \in Nat : c[a + d] = c[b + d]}
<1>2. \A k \in Nat : c[k + 1] = ParentIn(table, c[k])
    BY ChainSteps
<1> HIDE DEF c
<1>4. 0 \in S
    BY DEF c
<1>5. ASSUME NEW d \in Nat, d \in S PROVE d + 1 \in S
    <2>1. /\ a + d \in Nat /\ (a + d) + 1 = a + (d + 1)
          /\ b + d \in Nat /\ (b + d) + 1 = b + (d + 1) /\ c[a + d] = c[b + d]
        BY <1>5
    <2> QED BY <1>2, <2>1
<1> HIDE DEF S
<1>6. Nat \subseteq S
    BY <1>4, <1>5, Induction
<1> QED BY <1>6 DEF c, S

(* Whatever is on the chain is there within two steps of the size of the   *)
(* table: up to its first occurrence all uuids but the last two have rows, *)
(* and no two are the same.                                                *)
LEMMA ChainSoon ==
    ASSUME NEW table, NEW u, Keyed(table), NEW j \in Nat
    PROVE  \E i \in 0..(Cardinality(table) + 1) :
              /\ i <= j /\ Chain(table, u)[i] = Chain(table, u)[j]
              /\ \A m \in 0..(i - 1) : Chain(table, u)[m] # Chain(table, u)[j]
<1> DEFINE c == Chain(table, u)
           T == {i \in Nat : c[i] = c[j]}
<1>1. PICK i \in T : \A m \in T : i <= m
    <2>1. T \in SUBSET Nat /\ j \in T
        OBVIOUS
    <2> HIDE DEF T
    <2> QED BY <2>1, LeastNumber
<1>2. /\ i \in Nat /\ i <= j /\ c[i] = c[j]
      /\ \A m \in 0..(i - 1) : c[m] # c[j]
    <2>1. j \in T
        OBVIOUS
    <2> QED BY <1>1, <2>1
<1>s. \A k \in Nat : c[k + 1] = ParentIn(table, c[k])
    BY ChainSteps
<1>n. Cardinality(table) \in Nat
    BY FS_CardinalityType DEF Keyed
<1>3. ASSUME NEW a \in 0..i, NEW b \in 0..i, a < b PROVE c[a] # c[b]
    <2>1. SUFFICES ASSUME c[a] = c[b] PROVE FALSE
        OBVIOUS
    <2>2. i - b \in Nat /\ a + (i - b) \in 0..(i - 1) /\ b + (i - b) = i
        BY <1>2, <1>3
    <2> HIDE DEF c
    <2>3. c[a + (i - b)] = c[b + (i - b)]
        BY <2>1, <2>2, ChainRepeats DEF c
    <2> QED BY <1>2, <2>2, <2>3
<1> HIDE DEF c, T
<1>4. ASSUME NEW m \in 0..(i - 2) PROVE \E r \in table : r.uuid = c[m]
    <2>1. SUFFICES ASSUME ~\E r \in table : r.uuid = c[m] PROVE FALSE
        OBVIOUS
    <2>2. m \in Nat /\ m + 1 \in Nat /\ m + 1 < i /\ m + 1 \in 0..i /\ i \in 0..i /\ m + 1 <= i
        BY <1>2
    <2>3. c[m + 1] = None
        BY <1>s, <2>1, <2>2 DEF ParentIn
    <2>4. c[i] = None
        BY <1>2, <2>2, <2>3, ChainEnds DEF c
    <2> QED BY <1>3, <2>2, <2>3, <2>4
<1>5. i <= Cardinality(table) + 1
    <2>1. SUFFICES ASSUME i > Cardinality(table) + 1 PROVE FALSE
        BY <1>2, <1>n
    <2> DEFINE D == 0..(i - 2)
               f == [m \in D |-> CHOOSE r \in table : r.uuid = c[m]]
    <2>2. \A m \in D : f[m] \in table /\ f[m].uuid = c[m]
        BY <1>4
    <2>3. f \in [D -> table]
        BY <2>2
    <2>4. IsFiniteSet(D) /\ Cardinality(D) = i - 1
        <3>1. i - 2 \in Int /\ ~(0 > i - 2) /\ (i - 2) - 0 + 1 = i - 1
            BY <1>2, <1>n, <2>1
        <3> QED BY <3>1, FS_Interval
    <2>5. \E x, y \in D : x # y /\ f[x] = f[y]
        <3> HIDE DEF f, D
        <3>1. IsFiniteSet(table) /\ Cardinality(table) < Cardinality(D)
            BY <1>n, <1>2, <2>1, <2>4 DEF Keyed
        <3> QED BY <2>3, <2>4, <3>1, FS_PigeonHole
    <2>6. PICK x, y \in D : x < y /\ f[x] = f[y]
        <3> HIDE DEF f
        <3>1. \A x, y \in D : x # y => x < y \/ y < x
            OBVIOUS
        <3> QED BY <2>5, <3>1
    <2> HIDE DEF f
    <2>7. c[x] = c[y]
        BY <2>2, <2>6
    <2>8. x \in 0..i /\ y \in 0..i
        BY <1>2
    <2> QED BY <1>3, <2>6, <2>7, <2>8
<1> QED BY <1>2, <1>5, <1>n DEF c

(* ChainOf is the beginning of the chain.                                  *)
LEMMA ChainOfIsChain ==
    ASSUME NEW table, NEW u, IsFiniteSet(table)
    PROVE  \A i \in 1..(Cardinality(table) + 2) :
              ChainOf(table, u)[i] = Chain(table, u)[i - 1]
<1> DEFINE n == Cardinality(table)
           c == Chain(table, u)
           d == ChainOf(table, u)
           f == [i \in 1..(n + 2) |-> c[i - 1]]
<1>n. n \in Nat
    BY FS_CardinalityType
<1>1. c[0] = u /\ \A i \in Nat : c[i + 1] = ParentIn(table, c[i])
    BY ChainSteps
<1> HIDE DEF n, c
<1>2. ASSUME NEW i \in 1..(n + 2)
      PROVE  f[i] = IF i = 1 THEN u ELSE ParentIn(table, f[i - 1])
    <2>1. CASE i = 1
        BY <1>1, <1>n, <2>1
    <2>2. CASE i # 1
        <3>1. i - 1 \in 1..(n + 2) /\ i - 2 \in Nat /\ (i - 2) + 1 = i - 1 /\ (i - 1) - 1 = i - 2
            BY <1>n, <2>2
        <3>2. f[i] = c[i - 1] /\ f[i - 1] = c[i - 2]
            BY <3>1
        <3> HIDE DEF f
        <3>3. c[(i - 2) + 1] = ParentIn(table, c[i - 2])
            BY <1>1, <3>1
        <3> QED BY <2>2, <3>1, <3>2, <3>3
    <2> QED BY <2>1, <2>2
<1>3. f = [i \in 1..(n + 2) |-> f[i]]
    OBVIOUS
<1> HIDE DEF f
<1>4. f = [i \in 1..(n + 2) |-> IF i = 1 THEN u ELSE ParentIn(table, f[i - 1])]
    BY <1>2, <1>3
<1>5. d = [i \in 1..(n + 2) |-> IF i = 1 THEN u ELSE ParentIn(table, d[i - 1])]
    BY <1>4 DEF ChainOf, n
<1> HIDE DEF d
<1>6. \A i \in 1..(n + 2) : d[i] = IF i = 1 THEN u ELSE ParentIn(table, d[i - 1])
    BY <1>5
<1> DEFINE T == {i \in 1..(n + 2) : d[i] # c[i - 1]}
<1>7. T = {}
    <2> SUFFICES ASSUME T # {} PROVE FALSE
        OBVIOUS
    <2>1. PICK i \in T : \A m \in T : i <= m
        <3>1. T \in SUBSET Nat
            BY <1>n
        <3> HIDE DEF T
        <3> QED BY <3>1, LeastNumber
    <2>2. i # 1
        BY <1>1, <1>6
    <2>3. i - 1 \in 1..(n + 2) /\ i - 1 < i /\ i - 2 \in Nat /\ (i - 2) + 1 = i - 1 /\ (i - 1) - 1 = i - 2
        BY <1>n, <2>2
    <2>4. d[i - 1] = c[i - 2]
        BY <2>1, <2>3
    <2>5. d[i] = ParentIn(table, c[i - 2])
        BY <1>6, <2>2, <2>4
    <2>6. c[(i - 2) + 1] = ParentIn(table, c[i - 2])
        BY <1>1, <2>3
    <2> QED BY <2>3, <2>5, <2>6
<1> QED BY <1>7 DEF n, c, d

(* Where something comes first on the chain is its first place.            *)
LEMMA PlaceOnChain ==
    ASSUME NEW table, NEW u, NEW x, Keyed(table)
    PROVE  /\ \A p \in Place(table, u, x) : p - 1 \in Nat /\ Chain(table, u)[p - 1] = x
           /\ \A j \in Nat : Chain(table, u)[j] = x =>
                 \E i \in 0..j : Chain(table, u)[i] = x /\ i + 1 \in Place(table, u, x)
<1>1. /\ Cardinality(table) \in Nat
      /\ \A i \in 1..(Cardinality(table) + 2) :
            ChainOf(table, u)[i] = Chain(table, u)[i - 1]
    BY ChainOfIsChain, FS_CardinalityType DEF Keyed
<1>2. \A p \in Place(table, u, x) : p - 1 \in Nat /\ Chain(table, u)[p - 1] = x
    BY <1>1 DEF Place
<1>3. ASSUME NEW j \in Nat, Chain(table, u)[j] = x
      PROVE  \E i \in 0..j : Chain(table, u)[i] = x /\ i + 1 \in Place(table, u, x)
    <2>1. PICK i \in 0..(Cardinality(table) + 1) :
             i <= j /\ Chain(table, u)[i] = Chain(table, u)[j]
        BY ChainSoon
    <2>2. i \in 0..j /\ i + 1 \in 1..(Cardinality(table) + 2) /\ (i + 1) - 1 = i
        BY <1>1, <2>1
    <2> QED BY <1>1, <1>3, <2>1, <2>2 DEF Place
<1> QED BY <1>2, <1>3

-----------------------------------------------------------------------------
(* How far the loops have come.                                            *)

ModuleAt(i) == Chain(db.modules, self)[i]
OpAt(u, i) == Chain(db.operations, u)[i]

(* The module in hand is the k-th of the chain, and none before was null.  *)
Position(k) ==
    /\ k \in Nat /\ module = ModuleAt(k)
    /\ \A j \in 0..(k - 1) : ModuleAt(j) # None
    /\ stage \in {"rows", "walk"} => module # None

(* The rows the loader is done with.                                       *)
Passed(k) ==
    {o \in db.operations :
        \/ \E j \in 0..(k - 1) : o.module = ModuleAt(j)
        \/ /\ stage \in {"rows", "walk"} /\ o.module = module /\ o \notin rows
           /\ ~(stage = "walk" /\ o = row)}

(* o is the nearest operation of name n, at most k modules away.           *)
Nearest(o, n, k) ==
    /\ o \in db.operations /\ o.name = n
    /\ \E j \in 0..k :
          /\ o.module = ModuleAt(j)
          /\ \A i \in 0..(j - 1) : \A p \in db.operations :
                p.name = n => p.module # ModuleAt(i)
IsNearest(x, n, k) ==
    \E o \in db.operations : Nearest(o, n, k) /\ x.uuid = o.uuid /\ x.parent = o.parent

(* f has the results of the first w operations on the chain of u, those    *)
(* further down where there are several of a name.                         *)
NearestOf(r, k, u, w) ==
    /\ r \in db.results /\ r.name = k
    /\ \E j \in 0..(w - 1) :
          /\ r.operation = OpAt(u, j)
          /\ \A i \in 0..(j - 1) : \A s \in db.results :
                s.name = k => s.operation # OpAt(u, i)
Gathered(u, w, f) ==
    /\ DOMAIN f = {r.name : r \in {s \in db.results :
                        \E j \in 0..(w - 1) : s.operation = OpAt(u, j)}}
    /\ \A k \in DOMAIN f : \E r \in db.results : NearestOf(r, k, u, w) /\ f[k] = Definer(r)
Climbed(u, w) == w \in Nat /\ \A j \in 0..(w - 1) : OpAt(u, j) # None
Complete(u, f) ==
    \E g \in Nat : Climbed(u, g) /\ OpAt(u, g) = None /\ Gathered(u, g, f)

(* A command given by the operation that x extends is not missing.         *)
Commanded(x, n, k) ==
    \A p \in Passed(k) :
        p.name = n /\ p.uuid = x.parent /\ p.command # None => x.command # None

PassedKnown(k) == \A p \in Passed(k) : p.name \in DOMAIN ops
Stored(k) ==
    \A n \in DOMAIN ops :
        /\ IsNearest(ops[n], n, k)
        /\ Complete(ops[n].uuid, ops[n].results)
        /\ Commanded(ops[n], n, k)

(* The operation in hand: its results are gathered up to walk, or further  *)
(* when it extends one that is complete.                                   *)
Growing(u, f) ==
    \E w, g \in Nat :
        /\ w <= g /\ walk = OpAt(u, w)
        /\ Climbed(u, g) /\ Gathered(u, g, f)
        /\ w = g \/ OpAt(u, g) = None
Merging(k) ==
    stage = "walk" =>
        /\ row \in db.operations /\ row.module = module /\ row \notin rows
        /\ IsNearest(op, row.name, k)
        /\ row.name \in DOMAIN ops =>
              op.uuid = ops[row.name].uuid /\ op.parent = ops[row.name].parent
        /\ op.parent = row.uuid /\ row.command # None => op.command # None
        /\ Growing(op.uuid, op.results)

Progress(k) == Position(k) /\ PassedKnown(k) /\ Stored(k) /\ Merging(k)
MergeInv == Busy => \E k \in Nat : Progress(k)

(* The types, and that no rows are left outside the loop over them.        *)
Types ==
    /\ db \in Databases
    /\ stage \in {"idle", "module", "rows", "walk", "done", "thrown"}
    /\ protocol \in Protocols
    /\ rows \subseteq RowsOf(module)
    /\ stage \notin {"rows", "walk"} => rows = {}
    /\ stage = "done" => module = None

LoadInv == Types /\ PriorityInv /\ CommandInv /\ MergeInv

(* What is assumed of the database.                                        *)
LEMMA Tables ==
    ASSUME db \in Databases
    PROVE  /\ Keyed(db.modules) /\ Keyed(db.operations)
           /\ \A o, p \in db.operations :
                 /\ o.module # None
                 /\ o.module = p.module /\ o.name = p.name => o = p
           /\ \A r, s \in db.results :
                 /\ r.operation # None
                 /\ r.operation = s.operation /\ r.name = s.name => r = s
BY InheritAssumption DEF InheritAssumption

LEMMA ModuleSteps ==
    ModuleAt(0) = self /\ \A i \in Nat : ModuleAt(i + 1) = ParentIn(db.modules, ModuleAt(i))
BY ChainSteps DEF ModuleAt

LEMMA OpSteps ==
    ASSUME NEW u
    PROVE  OpAt(u, 0) = u /\ \A i \in Nat : OpAt(u, i + 1) = ParentIn(db.operations, OpAt(u, i))
BY ChainSteps DEF OpAt

LEMMA ParentOfOp ==
    ASSUME db \in Databases, NEW o \in db.operations
    PROVE  ParentIn(db.operations, o.uuid) = o.parent /\ o.uuid # None
<1>1. \A p \in db.operations : p.uuid = o.uuid => p = o
    BY Tables DEF Keyed
<1>2. o.uuid # None
    BY Tables DEF Keyed
<1> QED BY <1>1, <1>2 DEF ParentIn

(* An operation is near in any number of modules that reach it.            *)
LEMMA NearestFurther ==
    ASSUME NEW x, NEW n, NEW k \in Nat, IsNearest(x, n, k)
    PROVE  IsNearest(x, n, k + 1)
BY DEF IsNearest, Nearest

(* The first operation of its name is the nearest.                         *)
LEMMA FirstIsNearest ==
    ASSUME NEW k \in Nat, Progress(k), NEW r \in db.operations, r.module = module,
           r.name \notin DOMAIN ops
    PROVE  Nearest(r, r.name, k)
<1>1. r.module = ModuleAt(k)
    BY DEF Progress, Position
<1>2. ASSUME NEW i \in 0..(k - 1), NEW p \in db.operations, p.name = r.name,
             p.module = ModuleAt(i)
      PROVE  FALSE
    <2>1. p \in Passed(k)
        BY <1>2 DEF Passed
    <2> QED BY <1>2, <2>1 DEF Progress, PassedKnown
<1> QED BY <1>1, <1>2 DEF Nearest

-----------------------------------------------------------------------------
(* The results on the chain of operations.                                 *)

LEMMA NothingGathered ==
    ASSUME NEW u
    PROVE  Gathered(u, 0, [n \in {} |-> None]) /\ Climbed(u, 0)
BY DEF Gathered, Climbed

(* One operation more.                                                     *)
LEMMA GatherMore ==
    ASSUME db \in Databases, NEW u, NEW w \in Nat, NEW f, Gathered(u, w, f),
           OpAt(u, w) # None
    PROVE  Gathered(u, w + 1, WithResults(f, ResultsOf(OpAt(u, w))))
<1> DEFINE found == ResultsOf(OpAt(u, w))
           g == WithResults(f, found)
<1>1. DOMAIN g = DOMAIN f \cup {r.name : r \in found}
    BY DEF WithResults
<1>2. DOMAIN g = {r.name : r \in {s \in db.results :
                     \E j \in 0..w : s.operation = OpAt(u, j)}}
    <2>1. 0..w = 0..(w - 1) \cup {w}
        OBVIOUS
    <2> QED BY <1>1, <2>1 DEF Gathered, ResultsOf
<1>3. ASSUME NEW k \in DOMAIN f
      PROVE  \E r \in db.results : NearestOf(r, k, u, w + 1) /\ g[k] = Definer(r)
    <2>1. PICK r \in db.results : NearestOf(r, k, u, w) /\ f[k] = Definer(r)
        BY DEF Gathered
    <2>2. g[k] = f[k]
        BY DEF WithResults
    <2>3. NearestOf(r, k, u, w + 1)
        BY <2>1 DEF NearestOf
    <2> QED BY <2>1, <2>2, <2>3
<1>4. ASSUME NEW k \in DOMAIN g, k \notin DOMAIN f
      PROVE  \E r \in db.results : NearestOf(r, k, u, w + 1) /\ g[k] = Definer(r)
    <2>1. \E r \in found : r.name = k
        BY <1>1, <1>4
    <2> DEFINE r == CHOOSE r \in found : r.name = k
    <2>2. r \in found /\ r.name = k
        BY <2>1
    <2>3. g[k] = Definer(r)
        BY <1>4 DEF WithResults
    <2> HIDE DEF r
    <2>4. r \in db.results /\ r.operation = OpAt(u, w)
        BY <2>2 DEF ResultsOf
    <2>5. ASSUME NEW i \in 0..(w - 1), NEW s \in db.results, s.name = k,
                 s.operation = OpAt(u, i)
          PROVE  FALSE
        <3>1. s.name \in DOMAIN f
            BY <2>5 DEF Gathered
        <3> QED BY <1>4, <2>5, <3>1
    <2>6. w \in 0..((w + 1) - 1)
        OBVIOUS
    <2>7. NearestOf(r, k, u, w + 1)
        BY <2>2, <2>4, <2>5, <2>6 DEF NearestOf
    <2> QED BY <2>3, <2>4, <2>7
<1>5. (w + 1) - 1 = w
    OBVIOUS
<1> HIDE DEF g
<1> QED BY <1>2, <1>3, <1>4, <1>5 DEF Gathered, g, found

(* An operation whose results are known gives nothing.                     *)
LEMMA GatherAgain ==
    ASSUME NEW u, NEW g \in Nat, NEW w \in 0..(g - 1), NEW f, Gathered(u, g, f)
    PROVE  Gathered(u, g, WithResults(f, ResultsOf(OpAt(u, w))))
<1> DEFINE h == WithResults(f, ResultsOf(OpAt(u, w)))
<1>1. \A r \in ResultsOf(OpAt(u, w)) : r.name \in DOMAIN f
    BY DEF ResultsOf, Gathered
<1>2. DOMAIN h = DOMAIN f
    BY <1>1 DEF WithResults
<1>3. \A k \in DOMAIN f : h[k] = f[k]
    BY DEF WithResults
<1> HIDE DEF h
<1> QED BY <1>2, <1>3 DEF Gathered, h

-----------------------------------------------------------------------------
(* What is said of the tables stays as they do.                            *)
LEMMA DefinerKept ==
    ASSUME UNCHANGED db
    PROVE  \A r : Definer(r)' = Definer(r)
BY DEF Definer, Named

LEMMA GatheredKept ==
    ASSUME UNCHANGED db, NEW u, NEW g, NEW f, Gathered(u, g, f)
    PROVE  Gathered(u, g, f)'
<1>1. \A r, k, w : NearestOf(r, k, u, w)' <=> NearestOf(r, k, u, w)
    BY DEF NearestOf, OpAt
<1> QED BY <1>1, DefinerKept DEF Gathered, OpAt

LEMMA CompleteKept ==
    ASSUME UNCHANGED db, NEW u, NEW f, Complete(u, f)
    PROVE  Complete(u, f)'
<1>1. PICK g \in Nat : Climbed(u, g) /\ OpAt(u, g) = None /\ Gathered(u, g, f)
    BY DEF Complete
<1>2. Gathered(u, g, f)'
    BY <1>1, GatheredKept
<1>3. Climbed(u, g)' /\ (OpAt(u, g) = None)'
    BY <1>1 DEF Climbed, OpAt
<1> QED BY <1>2, <1>3 DEF Complete

LEMMA GrowingNext ==
    ASSUME UNCHANGED db, NEW u, NEW f, NEW w \in Nat, NEW g \in Nat, w <= g,
           walk' = OpAt(u, w), Climbed(u, g), Gathered(u, g, f),
           w = g \/ OpAt(u, g) = None
    PROVE  Growing(u, f)'
<1>1. Gathered(u, g, f)'
    BY GatheredKept
<1>2. Climbed(u, g)' /\ OpAt(u, g)' = OpAt(u, g) /\ OpAt(u, w)' = OpAt(u, w)
    BY DEF Climbed, OpAt
<1> QED BY <1>1, <1>2 DEF Growing

-----------------------------------------------------------------------------
(* The steps of the loader.  What is stored stays as it should be when the *)
(* rows that are done with are the same, or others that are overridden.    *)
LEMMA StoredKept ==
    ASSUME UNCHANGED <<db, self, ops>>, NEW k \in Nat, NEW l \in {k, k + 1},
           Stored(k), PassedKnown(k),
           \A p \in Passed(l)' :
              \/ p \in Passed(k)
              \/ p.name \in DOMAIN ops /\ p.uuid # ops[p.name].parent
    PROVE  Stored(l)' /\ PassedKnown(l)'
<1>1. PassedKnown(l)'
    BY DEF PassedKnown
<1>2. ASSUME NEW n \in DOMAIN ops
      PROVE  /\ IsNearest(ops[n], n, l)'
             /\ Complete(ops[n].uuid, ops[n].results)'
             /\ Commanded(ops[n], n, l)'
    <2>1. /\ IsNearest(ops[n], n, k) /\ Complete(ops[n].uuid, ops[n].results)
          /\ Commanded(ops[n], n, k)
        BY DEF Stored
    <2>2. IsNearest(ops[n], n, l)
        BY <2>1, NearestFurther
    <2>3. IsNearest(ops[n], n, l)'
        BY <2>2 DEF IsNearest, Nearest, ModuleAt
    <2>4. Complete(ops[n].uuid, ops[n].results)'
        <3>1. PICK u, f : u = ops[n].uuid /\ f = ops[n].results
            OBVIOUS
        <3>2. Complete(u, f)'
            BY <2>1, <3>1, CompleteKept
        <3> QED BY <3>1, <3>2
    <2>5. Commanded(ops[n], n, l)'
        BY <2>1 DEF Commanded
    <2> QED BY <2>3, <2>4, <2>5
<1> QED BY <1>1, <1>2 DEF Stored

LEMMA VisitModuleMerges ==
    ASSUME NEW k \in Nat, Progress(k), VisitModule
    PROVE  Progress(k)'
<1>1. /\ stage = "module" /\ stage' = "rows" /\ rows' = RowsOf(module)
      /\ module # None /\ UNCHANGED <<db, self, module, row, op, walk, ops>>
    BY DEF VisitModule
<1>2. \A p \in Passed(k)' : p \in Passed(k)
    BY <1>1 DEF Passed, ModuleAt, RowsOf
<1>3. Stored(k)' /\ PassedKnown(k)'
    BY <1>1, <1>2, StoredKept DEF Progress
<1>4. Position(k)'
    BY <1>1 DEF Progress, Position, ModuleAt
<1>5. Merging(k)'
    BY <1>1 DEF Merging
<1> QED BY <1>3, <1>4, <1>5 DEF Progress

LEMMA SkipRowMerges ==
    ASSUME NEW k \in Nat, Progress(k), NEW r \in rows, SkipRow(r)
    PROVE  Progress(k)'
<1>1. /\ stage = "rows" /\ stage' = "rows" /\ rows' = rows \ {r}
      /\ r.name \in DOMAIN ops /\ ops[r.name].parent # r.uuid
      /\ UNCHANGED <<db, self, module, row, op, walk, ops>>
    BY DEF SkipRow, Overridden
<1>2. \A p \in Passed(k)' : p \in Passed(k) \/ p = r
    BY <1>1 DEF Passed, ModuleAt
<1>3. Stored(k)' /\ PassedKnown(k)'
    BY <1>1, <1>2, StoredKept DEF Progress
<1>4. Position(k)'
    BY <1>1 DEF Progress, Position, ModuleAt
<1>5. Merging(k)'
    BY <1>1 DEF Merging
<1> QED BY <1>3, <1>4, <1>5 DEF Progress

LEMMA NextModuleMerges ==
    ASSUME NEW k \in Nat, Progress(k), NextModule
    PROVE  Progress(k + 1)'
<1>1. /\ stage = "rows" /\ stage' = "module" /\ rows = {}
      /\ module' = ParentIn(db.modules, module)
      /\ UNCHANGED <<db, self, rows, row, op, walk, ops>>
    BY DEF NextModule
<1>2. module = ModuleAt(k) /\ module # None /\ \A j \in 0..(k - 1) : ModuleAt(j) # None
    BY <1>1 DEF Progress, Position
<1>r. 0..((k + 1) - 1) = 0..(k - 1) \cup {k}
    OBVIOUS
<1>3. \A p \in Passed(k + 1)' : p \in Passed(k)
    BY <1>1, <1>2, <1>r DEF Passed, ModuleAt
<1>4. Stored(k + 1)' /\ PassedKnown(k + 1)'
    BY <1>1, <1>3, StoredKept DEF Progress
<1>5. Position(k + 1)'
    <2>1. module' = ModuleAt(k + 1)
        BY <1>1, <1>2, ModuleSteps
    <2> QED BY <1>1, <1>2, <1>r, <2>1 DEF Position, ModuleAt
<1>6. Merging(k + 1)'
    BY <1>1 DEF Merging
<1> QED BY <1>4, <1>5, <1>6 DEF Progress

LEMMA FinishMerges ==
    ASSUME NEW k \in Nat, Progress(k), Finish
    PROVE  Progress(k)'
<1>1. /\ stage = "module" /\ stage' = "done"
      /\ UNCHANGED <<db, self, module, rows, row, op, walk, ops>>
    BY DEF Finish
<1>2. \A p \in Passed(k)' : p \in Passed(k)
    BY <1>1 DEF Passed, ModuleAt
<1>3. Stored(k)' /\ PassedKnown(k)'
    BY <1>1, <1>2, StoredKept DEF Progress
<1>4. Position(k)'
    BY <1>1 DEF Progress, Position, ModuleAt
<1>5. Merging(k)'
    BY <1>1 DEF Merging
<1> QED BY <1>3, <1>4, <1>5 DEF Progress

LEMMA ConstructMerges ==
    ASSUME NEW u, Construct(u)
    PROVE  Progress(0)'
<1>1. /\ self' = u /\ module' = u /\ stage' = "module"
      /\ ops' = [n \in {} |-> None]
    BY DEF Construct
<1>2. Position(0)'
    BY <1>1, ChainSteps DEF Position, ModuleAt
<1>3. Passed(0)' = {}
    BY <1>1 DEF Passed
<1> QED BY <1>1, <1>2, <1>3 DEF Progress, PassedKnown, Stored, Merging

(* A row that is taken has results to be gathered, from its own operation  *)
(* on or from the one after it.                                            *)
LEMMA TakeRowMerges ==
    ASSUME db \in Databases, PriorityInv, rows \subseteq RowsOf(module),
           NEW k \in Nat, Progress(k), NEW r \in rows, TakeRow(r)
    PROVE  Progress(k)'
<1>1. /\ stage = "rows" /\ stage' = "walk" /\ rows' = rows \ {r} /\ row' = r
      /\ walk' = r.uuid /\ UNCHANGED <<db, self, module, ops>>
    BY DEF TakeRow
<1>2. r \in db.operations /\ r.module = module /\ r.uuid # None
    BY ParentOfOp DEF RowsOf
<1>3. \A p \in Passed(k)' : p \in Passed(k)
    BY <1>1 DEF Passed, ModuleAt
<1>4. Stored(k)' /\ PassedKnown(k)'
    BY <1>1, <1>3, StoredKept DEF Progress
<1>5. Position(k)'
    BY <1>1 DEF Progress, Position, ModuleAt
<1>6. CASE Extended(r)
    <2> DEFINE o == ops[r.name]
    <2>1. /\ r.name \in DOMAIN ops /\ o.parent = r.uuid
          /\ op' = WithCommand(o, r) /\ IsOp(o)
        BY <1>6 DEF TakeRow, Extended, PriorityInv
    <2>2. /\ op'.uuid = o.uuid /\ op'.parent = o.parent /\ op'.results = o.results
          /\ r.command # None => op'.command # None
        <3>1. o = [uuid |-> o.uuid, parent |-> o.parent, command |-> o.command,
                   results |-> o.results]
            BY <2>1 DEF IsOp
        <3>2. o.command = None =>
                 op' = [uuid |-> o.uuid, parent |-> o.parent, command |-> r.command,
                        results |-> o.results]
            BY <2>1, <3>1 DEF WithCommand
        <3>3. o.command # None => op' = o
            BY <2>1 DEF WithCommand
        <3> HIDE DEF o
        <3> QED BY <3>2, <3>3
    <2>3. IsNearest(o, r.name, k) /\ Complete(o.uuid, o.results)
        BY <2>1 DEF Progress, Stored
    <2>4. PICK g \in Nat : /\ Climbed(o.uuid, g) /\ OpAt(o.uuid, g) = None
                           /\ Gathered(o.uuid, g, o.results)
        BY <2>3 DEF Complete
    <2>5. PICK p \in db.operations : o.uuid = p.uuid /\ o.parent = p.parent
        BY <2>3 DEF IsNearest
    <2>6. /\ OpAt(o.uuid, 0) = o.uuid /\ OpAt(o.uuid, 1) = r.uuid
          /\ o.uuid # None
        <3>1. OpAt(o.uuid, 0 + 1) = ParentIn(db.operations, OpAt(o.uuid, 0))
            BY OpSteps
        <3> QED BY <2>1, <2>5, <3>1, ParentOfOp, OpSteps
    <2>7. 1 <= g
        BY <2>4, <2>6
    <2> HIDE DEF o
    <2>9. Growing(op.uuid, op.results)'
        <3>1. PICK u, f : u = o.uuid /\ f = o.results
            OBVIOUS
        <3>2. Growing(u, f)'
            BY <1>1, <2>4, <2>6, <2>7, <3>1, GrowingNext
        <3>3. u = op'.uuid /\ f = op'.results
            BY <2>2, <3>1
        <3> QED BY <3>2, <3>3
    <2>10. IsNearest(op, row.name, k)'
        BY <1>1, <2>2, <2>3 DEF IsNearest, Nearest, ModuleAt
    <2>11. Merging(k)'
        BY <1>1, <1>2, <2>1, <2>2, <2>9, <2>10 DEF Merging, o
    <2> QED BY <1>4, <1>5, <2>11 DEF Progress
<1>7. CASE ~Extended(r)
    <2>1. r.name \notin DOMAIN ops
        BY <1>7 DEF TakeRow, Extended, Overridden
    <2>2. op' = [uuid |-> r.uuid, parent |-> r.parent, command |-> r.command,
                 results |-> [n \in {} |-> None]]
        BY <1>7 DEF TakeRow
    <2>3. IsNearest(op, row.name, k)'
        <3>1. Nearest(r, r.name, k)
            BY <1>2, <2>1, FirstIsNearest
        <3> QED BY <1>1, <1>2, <2>2, <3>1 DEF IsNearest, Nearest, ModuleAt
    <2>4. Growing(op.uuid, op.results)'
        <3>1. OpAt(r.uuid, 0) = r.uuid
            BY OpSteps
        <3>2. Gathered(r.uuid, 0, [n \in {} |-> None]) /\ Climbed(r.uuid, 0)
            BY NothingGathered
        <3>3. op'.uuid = r.uuid /\ op'.results = [n \in {} |-> None]
            BY <2>2
        <3> QED BY <1>1, <3>1, <3>2, <3>3
                DEF Growing, Climbed, Gathered, NearestOf, OpAt, Definer, Named
    <2>5. Merging(k)'
        BY <1>1, <1>2, <2>1, <2>2, <2>3, <2>4 DEF Merging
    <2> QED BY <1>4, <1>5, <2>5 DEF Progress
<1> QED BY <1>6, <1>7

LEMMA WalkUpMerges ==
    ASSUME db \in Databases, PriorityInv, NEW k \in Nat, Progress(k), WalkUp
    PROVE  Progress(k)'
<1>1. /\ stage = "walk" /\ stage' = "walk" /\ walk # None
      /\ op' = [op EXCEPT !.results = WithResults(@, ResultsOf(walk))]
      /\ walk' = ParentIn(db.operations, walk)
      /\ UNCHANGED <<db, self, module, rows, row, ops>>
    BY DEF WalkUp, ParentOp
<1>2. \A p \in Passed(k)' : p \in Passed(k)
    BY <1>1 DEF Passed, ModuleAt
<1>3. Stored(k)' /\ PassedKnown(k)'
    BY <1>1, <1>2, StoredKept DEF Progress
<1>4. Position(k)'
    BY <1>1 DEF Progress, Position, ModuleAt
<1>5. Merging(k)
    BY DEF Progress
<1>6. /\ op'.uuid = op.uuid /\ op'.parent = op.parent /\ op'.command = op.command
      /\ op'.results = WithResults(op.results, ResultsOf(walk))
    <2>1. op = [uuid |-> op.uuid, parent |-> op.parent, command |-> op.command,
                results |-> op.results]
        BY <1>1 DEF PriorityInv, InHand, IsOp
    <2>2. op' = [uuid |-> op.uuid, parent |-> op.parent, command |-> op.command,
                 results |-> WithResults(op.results, ResultsOf(walk))]
        BY <1>1, <2>1
    <2> QED BY <2>2
<1>7. Growing(op.uuid, op.results)'
    <2>1. PICK u, f, h : /\ u = op.uuid /\ f = op.results
                         /\ h = WithResults(f, ResultsOf(walk))
        OBVIOUS
    <2>2. PICK w, g \in Nat : /\ w <= g /\ walk = OpAt(u, w)
                              /\ Climbed(u, g) /\ Gathered(u, g, f)
                              /\ w = g \/ OpAt(u, g) = None
        BY <1>1, <1>5, <2>1 DEF Merging, Growing
    <2>3. walk' = OpAt(u, w + 1)
        BY <1>1, <2>2, OpSteps
    <2>4. CASE w = g
        <3>1. Gathered(u, g + 1, h)
            BY <1>1, <2>1, <2>2, <2>4, GatherMore
        <3>2. Climbed(u, g + 1)
            BY <1>1, <2>2, <2>4 DEF Climbed
        <3> QED BY <1>1, <1>6, <2>1, <2>3, <2>4, <3>1, <3>2, GrowingNext
    <2>5. CASE w # g
        <3>1. w \in 0..(g - 1) /\ w + 1 <= g /\ OpAt(u, g) = None
            BY <2>2, <2>5
        <3>2. Gathered(u, g, h)
            BY <2>1, <2>2, <3>1, GatherAgain
        <3>3. Growing(u, h)'
            BY <1>1, <2>2, <2>3, <3>1, <3>2, GrowingNext
        <3> QED BY <1>6, <2>1, <3>3
    <2> QED BY <2>4, <2>5
<1>8. IsNearest(op, row.name, k)'
    BY <1>1, <1>5, <1>6 DEF Merging, IsNearest, Nearest, ModuleAt
<1>9. Merging(k)'
    BY <1>1, <1>5, <1>6, <1>7, <1>8 DEF Merging
<1> QED BY <1>3, <1>4, <1>9 DEF Progress

(* The operation is stored when it has been followed to the end, and its   *)
(* row is done with.                                                       *)
LEMMA StoreOpMerges ==
    ASSUME db \in Databases, PriorityInv, NEW k \in Nat, Progress(k), StoreOp
    PROVE  Progress(k)'
<1>1. /\ stage = "walk" /\ stage' = "rows" /\ walk = None
      /\ ops' = [n \in DOMAIN ops \cup {row.name} |->
                    IF n = row.name THEN op ELSE ops[n]]
      /\ UNCHANGED <<db, self, module, rows, row, op, walk>>
    BY DEF StoreOp
<1>2. Position(k)'
    BY <1>1 DEF Progress, Position, ModuleAt
<1>3. Merging(k)'
    BY <1>1 DEF Merging
<1>4. Merging(k) /\ Stored(k) /\ PassedKnown(k)
    BY DEF Progress
<1>5. \A p \in Passed(k)' : p \in Passed(k) \/ p = row
    BY <1>1 DEF Passed, ModuleAt
<1>6. /\ DOMAIN ops' = DOMAIN ops \cup {row.name} /\ ops'[row.name] = op
      /\ \A n \in DOMAIN ops : n # row.name => ops'[n] = ops[n]
    BY <1>1
<1>7. PassedKnown(k)'
    BY <1>1, <1>4, <1>5, <1>6 DEF PassedKnown
<1>8. ASSUME NEW n \in DOMAIN ops'
      PROVE  /\ IsNearest(ops[n], n, k)' /\ Commanded(ops[n], n, k)'
             /\ Complete(ops[n].uuid, ops[n].results)'
    <2>1. CASE n = row.name
        <3>1. ops'[n] = op
            BY <1>6, <2>1
        <3>2. IsNearest(ops[n], n, k)'
            BY <1>1, <1>4, <2>1, <3>1 DEF Merging, IsNearest, Nearest, ModuleAt
        <3>3. Complete(ops[n].uuid, ops[n].results)'
            <4>1. PICK u, f : u = op.uuid /\ f = op.results
                OBVIOUS
            <4>2. PICK w, g \in Nat : /\ w <= g /\ walk = OpAt(u, w)
                                      /\ Climbed(u, g) /\ Gathered(u, g, f)
                                      /\ w = g \/ OpAt(u, g) = None
                BY <1>1, <1>4, <4>1 DEF Merging, Growing
            <4>3. Complete(u, f)
                BY <1>1, <4>2 DEF Complete
            <4>4. Complete(u, f)'
                BY <1>1, <4>3, CompleteKept
            <4> QED BY <3>1, <4>1, <4>4
        <3>4. Commanded(ops[n], n, k)'
            <4>1. ASSUME NEW p \in Passed(k)', p.name = n, p.uuid = op.parent,
                         p.command # None
                  PROVE  op.command # None
                <5>1. CASE p = row
                    BY <1>1, <1>4, <4>1, <5>1 DEF Merging
                <5>2. CASE p \in Passed(k)
                    <6>1. n \in DOMAIN ops
                        BY <1>4, <4>1, <5>2 DEF PassedKnown
                    <6>2. op.parent = ops[n].parent /\ Keeps(ops[n], op)
                        BY <1>1, <1>4, <2>1, <6>1 DEF Merging, PriorityInv, InHand
                    <6>3. ops[n].command # None
                        BY <1>4, <4>1, <5>2, <6>1, <6>2 DEF Stored, Commanded
                    <6> QED BY <6>2, <6>3 DEF Keeps
                <5> QED BY <1>5, <5>1, <5>2
            <4> QED BY <3>1, <4>1 DEF Commanded
        <3> QED BY <3>2, <3>3, <3>4
    <2>2. CASE n # row.name
        <3>1. n \in DOMAIN ops /\ ops'[n] = ops[n]
            BY <1>6, <2>2
        <3>2. /\ IsNearest(ops[n], n, k) /\ Complete(ops[n].uuid, ops[n].results)
              /\ Commanded(ops[n], n, k)
            BY <1>4, <3>1 DEF Stored
        <3>3. IsNearest(ops[n], n, k)'
            BY <1>1, <3>1, <3>2 DEF IsNearest, Nearest, ModuleAt
        <3>4. Complete(ops[n].uuid, ops[n].results)'
            <4>1. PICK u, f : u = ops[n].uuid /\ f = ops[n].results
                OBVIOUS
            <4>2. Complete(u, f)'
                BY <1>1, <3>2, <4>1, CompleteKept
            <4> QED BY <3>1, <4>1, <4>2
        <3>5. Commanded(ops[n], n, k)'
            <4>1. \A p \in Passed(k)' : p.name = n => p \in Passed(k)
                BY <1>5, <2>2
            <4> QED BY <3>1, <3>2, <4>1 DEF Commanded
        <3> QED BY <3>3, <3>4, <3>5
    <2> QED BY <2>1, <2>2
<1>9. Stored(k)'
    BY <1>8 DEF Stored
<1> QED BY <1>2, <1>3, <1>7, <1>9 DEF Progress

LEMMA LoadStepMerges ==
    ASSUME Types, PriorityInv, MergeInv, LoadStep
    PROVE  MergeInv'
<1>1. CASE RefuseModule
    BY <1>1 DEF RefuseModule, MergeInv, Busy
<1>2. CASE ~RefuseModule
    <2>1. db \in Databases /\ rows \subseteq RowsOf(module)
        BY DEF Types
    <2>2. Busy
        BY <1>2 DEF LoadStep, Busy, VisitModule, SkipRow, TakeRow, WalkUp, StoreOp,
           NextModule, Finish
    <2>3. PICK k \in Nat : Progress(k)
        BY <2>2 DEF MergeInv
    <2>4. Progress(k)' \/ Progress(k + 1)'
        BY <1>2, <2>1, <2>3, VisitModuleMerges, SkipRowMerges, TakeRowMerges,
           WalkUpMerges, StoreOpMerges, NextModuleMerges, FinishMerges DEF LoadStep
    <2>5. k + 1 \in Nat
        OBVIOUS
    <2> QED BY <2>3, <2>4, <2>5 DEF MergeInv
<1> QED BY <1>1, <1>2

(* The protocol of a module is one of those known, as its record is the    *)
(* only one with its uuid.                                                 *)
LEMMA ProtocolKnown ==
    ASSUME db \in Databases, module = self, ~BadProtocol
    PROVE  ProtocolOf(self) \in Protocols
<1>1. \A r, s \in db.modules : r.uuid = s.uuid => r = s
    BY Tables DEF Keyed
<1>2. \A m \in db.modules : m.uuid = self => m.protocol \in Protocols \cup {None}
    BY DEF BadProtocol, Named
<1>3. CASE \E r \in db.modules : r.uuid = self /\ r.protocol # None
    <2>1. PICK r \in db.modules : r.uuid = self /\ r.protocol # None
        BY <1>3
    <2>2. (CHOOSE s \in db.modules : s.uuid = self) = r
        BY <1>1, <2>1
    <2> QED BY <1>2, <1>3, <2>1, <2>2 DEF ProtocolOf
<1>4. CASE ~\E r \in db.modules : r.uuid = self /\ r.protocol # None
    BY <1>4 DEF ProtocolOf, Protocols
<1> QED BY <1>3, <1>4

LEMMA LoadStepTypes ==
    ASSUME Types, LoadStep
    PROVE  Types'
<1>1. CASE RefuseModule
    BY <1>1 DEF RefuseModule, Types, RowsOf
<1>2. CASE VisitModule
    BY <1>2, ProtocolKnown DEF VisitModule, Types, RowsOf
<1>3. ASSUME NEW r \in rows, SkipRow(r) PROVE Types'
    BY <1>3 DEF SkipRow, Types, RowsOf
<1>4. ASSUME NEW r \in rows, TakeRow(r) PROVE Types'
    BY <1>4 DEF TakeRow, Types, RowsOf
<1>5. CASE WalkUp
    BY <1>5 DEF WalkUp, Types, RowsOf
<1>6. CASE StoreOp
    BY <1>6 DEF StoreOp, Types, RowsOf
<1>7. CASE NextModule
    BY <1>7 DEF NextModule, Types, RowsOf
<1>8. CASE Finish
    BY <1>8 DEF Finish, Types, RowsOf
<1> QED BY <1>1, <1>2, <1>3, <1>4, <1>5, <1>6, <1>7, <1>8 DEF LoadStep

LEMMA ConstructLoads ==
    ASSUME LoadInv, NEW u, Construct(u)
    PROVE  LoadInv'
<1>1. Types'
    BY DEF LoadInv, Types, Construct, RowsOf, Protocols
<1>2. PriorityInv'
    BY ConstructKeeps
<1>3. MergeInv'
    BY ConstructMerges DEF MergeInv
<1>4. CommandInv'
    BY DEF Construct, CommandInv
<1> QED BY <1>1, <1>2, <1>3, <1>4 DEF LoadInv

LEMMA LoadStepLoads ==
    ASSUME LoadInv, LoadStep
    PROVE  LoadInv'
<1>1. rows \subseteq db.operations
    BY DEF LoadInv, Types, RowsOf
<1> QED BY <1>1, LoadStepTypes, LoadStepKeeps, LoadStepCommands, LoadStepMerges DEF LoadInv

LEMMA LoadInit == Init => LoadInv
BY PriorityInit DEF Init, LoadInv, Types, CommandInv, MergeInv, Busy, Protocols

LEMMA LoadStutters ==
    ASSUME LoadInv, UNCHANGED vars
    PROVE  LoadInv'
<1>1. Types'
    BY DEF LoadInv, Types, RowsOf, vars
<1>2. PriorityInv'
    BY KeptAsIs DEF LoadInv, vars
<1>3. MergeInv'
    <2>1. SUFFICES ASSUME Busy PROVE \E k \in Nat : Progress(k)'
        BY DEF MergeInv, Busy, vars
    <2>2. PICK k \in Nat : Progress(k)
        BY <2>1 DEF LoadInv, MergeInv
    <2>3. UNCHANGED <<db, self, module, rows, row, op, walk, ops, stage>>
        BY DEF vars
    <2>4. Passed(k)' = Passed(k)
        BY <2>3 DEF Passed, ModuleAt
    <2>5. Stored(k)' /\ PassedKnown(k)'
        BY <2>2, <2>3, <2>4, StoredKept DEF Progress
    <2>6. Position(k)'
        BY <2>2, <2>3 DEF Progress, Position, ModuleAt
    <2>7. Merging(k)'
        <3>1. SUFFICES ASSUME stage = "walk" PROVE Merging(k)'
            BY <2>3 DEF Merging
        <3>2. Merging(k)
            BY <2>2 DEF Progress
        <3>3. IsNearest(op, row.name, k)'
            BY <2>3, <3>1, <3>2 DEF Merging, IsNearest, Nearest, ModuleAt
        <3>4. Growing(op.uuid, op.results)'
            <4>1. PICK u, f : u = op.uuid /\ f = op.results
                OBVIOUS
            <4>2. PICK w, g \in Nat : /\ w <= g /\ walk = OpAt(u, w)
                                      /\ Climbed(u, g) /\ Gathered(u, g, f)
                                      /\ w = g \/ OpAt(u, g) = None
                BY <3>1, <3>2, <4>1 DEF Merging, Growing
            <4>3. Growing(u, f)'
                BY <2>3, <4>2, GrowingNext
            <4> QED BY <2>3, <4>1, <4>3
        <3> QED BY <2>3, <3>1, <3>2, <3>3, <3>4 DEF Merging
    <2> QED BY <2>5, <2>6, <2>7 DEF Progress
<1>4. CommandInv'
    BY DEF LoadInv, CommandInv, OwnOrParents, Busy, vars
<1> QED BY <1>1, <1>2, <1>3, <1>4 DEF LoadInv

LEMMA LoadInvHolds == Spec => []LoadInv
<1>1. LoadInv /\ [Next]_vars => LoadInv'
    BY ConstructLoads, LoadStepLoads, LoadStutters DEF Next
<1> QED BY <1>1, LoadInit, PTL DEF Spec

-----------------------------------------------------------------------------
(* What has been put together when loading is done.                        *)

(* A place is found for what is on the chain, and for nothing else before  *)
(* its end; the first is where it comes first.                             *)
LEMMA PlacesBeforeEnd ==
    ASSUME NEW table, NEW u, Keyed(table), NEW x, x # None, NEW g \in Nat,
           Chain(table, u)[g] = None
    PROVE  Place(table, u, x) # {} <=> \E j \in 0..(g - 1) : x = Chain(table, u)[j]
<1>1. ASSUME NEW p \in Place(table, u, x)
      PROVE  \E j \in 0..(g - 1) : x = Chain(table, u)[j]
    <2>1. p - 1 \in Nat /\ Chain(table, u)[p - 1] = x
        BY PlaceOnChain
    <2>2. ~(g <= p - 1)
        BY <2>1, ChainEnds
    <2> QED BY <2>1, <2>2
<1>2. ASSUME NEW j \in 0..(g - 1), x = Chain(table, u)[j]
      PROVE  Place(table, u, x) # {}
    <2>1. j \in Nat
        OBVIOUS
    <2> QED BY <1>2, <2>1, PlaceOnChain
<1> QED BY <1>1, <1>2

LEMMA FirstPlace ==
    ASSUME NEW table, NEW u, Keyed(table), NEW j \in Nat,
           \A i \in 0..(j - 1) : Chain(table, u)[i] # Chain(table, u)[j]
    PROVE  j + 1 \in Place(table, u, Chain(table, u)[j])
<1>1. PICK i \in 0..j : /\ Chain(table, u)[i] = Chain(table, u)[j]
                        /\ i + 1 \in Place(table, u, Chain(table, u)[j])
    BY PlaceOnChain
<1> QED BY <1>1

(* The operation that Nearest describes is the one NearestOp chooses.      *)
LEMMA NearestIsChosen ==
    ASSUME db \in Databases, NEW o, NEW n, NEW k \in Nat, Nearest(o, n, k)
    PROVE  o \in Inherited(n) /\ NearestOp(n) = o
<1> DEFINE First(q) == \A p \in Inherited(n) :
                          \E i \in Place(db.modules, self, q.module) :
                              \A j \in Place(db.modules, self, p.module) : i <= j
<1>1. Keyed(db.modules) /\ \A p, q \in db.operations :
                               p.module = q.module /\ p.name = q.name => p = q
    BY Tables
<1>2. PICK j \in 0..k : /\ o.module = ModuleAt(j)
                        /\ \A i \in 0..(j - 1) : \A p \in db.operations :
                               p.name = n => p.module # ModuleAt(i)
    BY DEF Nearest
<1>3. o \in db.operations /\ o.name = n /\ j \in Nat
    BY DEF Nearest
<1>4. j + 1 \in Place(db.modules, self, o.module)
    BY <1>1, <1>2, <1>3, FirstPlace DEF ModuleAt
<1>5. o \in Inherited(n)
    BY <1>3, <1>4 DEF Inherited
<1>6. ASSUME NEW p \in Inherited(n), NEW i \in Place(db.modules, self, p.module)
      PROVE  i \in Nat /\ j + 1 <= i /\ (i = j + 1 => p.module = o.module)
    <2>1. i - 1 \in Nat /\ ModuleAt(i - 1) = p.module
        BY <1>1, PlaceOnChain DEF ModuleAt
    <2>2. i \in Nat
        BY <1>1, FS_CardinalityType DEF Place, Keyed
    <2>3. p \in db.operations /\ p.name = n
        BY DEF Inherited
    <2>4. i - 1 \notin 0..(j - 1)
        BY <1>2, <2>1, <2>3
    <2>5. j <= i - 1 /\ j + 1 <= i
        BY <1>3, <2>1, <2>2, <2>4
    <2>6. i = j + 1 => i - 1 = j
        BY <1>3, <2>2
    <2> QED BY <1>2, <2>1, <2>2, <2>5, <2>6
<1>7. First(o)
    BY <1>4, <1>6
<1>8. ASSUME NEW q \in Inherited(n), First(q) PROVE q = o
    <2>1. PICK i \in Place(db.modules, self, q.module) :
             \A l \in Place(db.modules, self, o.module) : i <= l
        BY <1>5, <1>8
    <2>2. i \in Nat /\ j + 1 <= i /\ i <= j + 1 /\ (i = j + 1 => q.module = o.module)
        BY <1>4, <1>6, <2>1
    <2>3. q.module = o.module
        BY <1>3, <2>2
    <2> QED BY <1>1, <1>3, <2>3 DEF Inherited
<1>9. NearestOp(n) = CHOOSE q \in Inherited(n) : First(q)
    BY DEF NearestOp
<1> HIDE DEF First
<1> QED BY <1>5, <1>7, <1>8, <1>9

LEMMA NearestResultIsChosen ==
    ASSUME db \in Databases, NEW u, NEW r, NEW n, NEW g \in Nat, NearestOf(r, n, u, g)
    PROVE  NearestResult(u, n) = r
<1> DEFINE First(q) == \A p \in Reachable(u, n) :
                          \E i \in Place(db.operations, u, q.operation) :
                              \A j \in Place(db.operations, u, p.operation) : i <= j
<1>1. Keyed(db.operations) /\ \A p, q \in db.results :
                                  p.operation = q.operation /\ p.name = q.name => p = q
    BY Tables
<1>2. PICK j \in 0..(g - 1) : /\ r.operation = OpAt(u, j)
                              /\ \A i \in 0..(j - 1) : \A p \in db.results :
                                     p.name = n => p.operation # OpAt(u, i)
    BY DEF NearestOf
<1>3. r \in db.results /\ r.name = n /\ j \in Nat
    BY DEF NearestOf
<1>c. /\ \A i \in 0..(j - 1) : Chain(db.operations, u)[i] # Chain(db.operations, u)[j]
      /\ r.operation = Chain(db.operations, u)[j]
    BY <1>2, <1>3 DEF OpAt
<1>4. j + 1 \in Place(db.operations, u, r.operation)
    BY <1>1, <1>3, <1>c, FirstPlace
<1>5. r \in Reachable(u, n)
    BY <1>3, <1>4 DEF Reachable
<1>6. ASSUME NEW p \in Reachable(u, n), NEW i \in Place(db.operations, u, p.operation)
      PROVE  i \in Nat /\ j + 1 <= i /\ (i = j + 1 => p.operation = r.operation)
    <2>1. i - 1 \in Nat /\ OpAt(u, i - 1) = p.operation
        BY <1>1, PlaceOnChain DEF OpAt
    <2>2. i \in Nat
        BY <1>1, FS_CardinalityType DEF Place, Keyed
    <2>3. p \in db.results /\ p.name = n
        BY DEF Reachable
    <2>4. i - 1 \notin 0..(j - 1)
        BY <1>2, <2>1, <2>3
    <2>5. j <= i - 1 /\ j + 1 <= i
        BY <1>3, <2>1, <2>2, <2>4
    <2>6. i = j + 1 => i - 1 = j
        BY <1>3, <2>2
    <2> QED BY <1>2, <2>1, <2>2, <2>5, <2>6
<1>7. First(r)
    BY <1>4, <1>6
<1>8. ASSUME NEW q \in Reachable(u, n), First(q) PROVE q = r
    <2>1. PICK i \in Place(db.operations, u, q.operation) :
             \A l \in Place(db.operations, u, r.operation) : i <= l
        BY <1>5, <1>8
    <2>2. i \in Nat /\ j + 1 <= i /\ i <= j + 1 /\ (i = j + 1 => q.operation = r.operation)
        BY <1>4, <1>6, <2>1
    <2>3. q.operation = r.operation
        BY <1>3, <2>2
    <2> QED BY <1>1, <1>3, <2>3 DEF Reachable
<1>9. NearestResult(u, n) = CHOOSE q \in Reachable(u, n) : First(q)
    BY DEF NearestResult
<1> HIDE DEF First
<1> QED BY <1>5, <1>7, <1>8, <1>9

(* The operations inherited are those that were passed.                    *)
LEMMA PassedInherited ==
    ASSUME LoadInv, stage = "done", NEW k \in Nat, Progress(k)
    PROVE  Passed(k) = {o \in db.operations : Place(db.modules, self, o.module) # {}}
<1>1. db \in Databases /\ ModuleAt(k) = None
    BY DEF LoadInv, Types, Progress, Position
<1>2. ASSUME NEW o \in db.operations
      PROVE  Place(db.modules, self, o.module) # {} <=>
                \E j \in 0..(k - 1) : o.module = ModuleAt(j)
    <2>1. Keyed(db.modules) /\ o.module # None
        BY <1>1, Tables
    <2> QED BY <1>1, <2>1, PlacesBeforeEnd DEF ModuleAt
<1> QED BY <1>2 DEF Passed

LEMMA LoadedTypeOK == LoadInv => TypeOK
<1> SUFFICES ASSUME LoadInv PROVE TypeOK
    OBVIOUS
<1>1. ASSUME stage = "walk"
      PROVE  row.module = module /\ op.uuid \in {o.uuid : o \in Inherited(row.name)}
    <2>1. PICK k \in Nat : Progress(k)
        BY <1>1 DEF LoadInv, MergeInv, Busy
    <2>2. PICK o : Nearest(o, row.name, k) /\ op.uuid = o.uuid
        BY <1>1, <2>1 DEF Progress, Merging, IsNearest
    <2>3. o \in Inherited(row.name)
        BY <2>2, NearestIsChosen DEF LoadInv, Types
    <2> QED BY <1>1, <2>1, <2>2, <2>3 DEF Progress, Merging
<1> QED BY <1>1 DEF LoadInv, Types, TypeOK

LEMMA LoadedOp ==
    ASSUME LoadInv, stage = "done", NEW n \in DOMAIN ops
    PROVE  /\ ops[n].uuid = NearestOp(n).uuid
           /\ DOMAIN ops[n].results =
                 {r.name : r \in {s \in db.results :
                     Place(db.operations, ops[n].uuid, s.operation) # {}}}
           /\ \A k \in DOMAIN ops[n].results :
                 ops[n].results[k] = Definer(NearestResult(ops[n].uuid, k))
           /\ HasEnd(db.operations, ops[n].uuid)
<1> DEFINE u == ops[n].uuid
           f == ops[n].results
<1>1. db \in Databases
    BY DEF LoadInv, Types
<1>2. PICK k \in Nat : Progress(k)
    BY DEF LoadInv, MergeInv, Busy
<1>3. IsNearest(ops[n], n, k) /\ Complete(u, f)
    BY <1>2 DEF Progress, Stored
<1>4. u = NearestOp(n).uuid
    <2>1. PICK o : Nearest(o, n, k) /\ u = o.uuid
        BY <1>3 DEF IsNearest
    <2> QED BY <1>1, <2>1, NearestIsChosen
<1>5. PICK g \in Nat : OpAt(u, g) = None /\ Gathered(u, g, f)
    BY <1>3 DEF Complete
<1> HIDE DEF u, f
<1>6. Keyed(db.operations) /\ \A s \in db.results : s.operation # None
    BY <1>1, Tables
<1>7. \A s \in db.results : Place(db.operations, u, s.operation) # {} <=>
                                \E j \in 0..(g - 1) : s.operation = OpAt(u, j)
    BY <1>5, <1>6, PlacesBeforeEnd DEF OpAt
<1>8. DOMAIN f = {r.name : r \in {s \in db.results :
                    Place(db.operations, u, s.operation) # {}}}
    BY <1>5, <1>7 DEF Gathered
<1>9. ASSUME NEW x \in DOMAIN f PROVE f[x] = Definer(NearestResult(u, x))
    <2>1. PICK r \in db.results : NearestOf(r, x, u, g) /\ f[x] = Definer(r)
        BY <1>5 DEF Gathered
    <2> QED BY <1>1, <2>1, NearestResultIsChosen
<1>10. HasEnd(db.operations, u)
    BY <1>5, <1>6, PlaceOnChain DEF HasEnd, OpAt
<1> QED BY <1>4, <1>8, <1>9, <1>10 DEF u, f

LEMMA LoadedNames ==
    ASSUME LoadInv, stage = "done"
    PROVE  DOMAIN ops = {o.name : o \in {p \in db.operations :
                            Place(db.modules, self, p.module) # {}}}
<1>1. db \in Databases
    BY DEF LoadInv, Types
<1>2. PICK k \in Nat : Progress(k)
    BY DEF LoadInv, MergeInv, Busy
<1>3. ASSUME NEW n \in DOMAIN ops
      PROVE  \E o \in db.operations : o.name = n /\ Place(db.modules, self, o.module) # {}
    <2>1. PICK o \in db.operations : Nearest(o, n, k)
        BY <1>2 DEF Progress, Stored, IsNearest
    <2> QED BY <1>1, <2>1, NearestIsChosen DEF Inherited
<1>4. \A p \in Passed(k) : p.name \in DOMAIN ops
    BY <1>2 DEF Progress, PassedKnown
<1> QED BY <1>2, <1>3, <1>4, PassedInherited

LEMMA LoadedMerged == LoadInv => MergedByPrecedence
BY LoadedOp, LoadedNames DEF MergedByPrecedence

(* The nearest command on the chain of an operation, when it has one of    *)
(* its own or the next one has.                                            *)
LEMMA CommandIsNearest ==
    ASSUME db \in Databases, NEW o \in db.operations, NEW p \in db.operations,
           p.command # None,
           p = o \/ (o.command = None /\ p.uuid = o.parent)
    PROVE  NearestCommand(o.uuid) = p.command
<1> DEFINE u == o.uuid
           at(x) == Place(db.operations, u, x)
           First(q) == \A s \in Commanding(u) :
                          \E i \in at(q.uuid) : \A j \in at(s.uuid) : i <= j
<1>1. Keyed(db.operations) /\ \A q, s \in db.operations : q.uuid = s.uuid => q = s
    BY Tables DEF Keyed
<1>2. /\ OpAt(u, 0) = u /\ OpAt(u, 1) = o.parent
    <2>1. OpAt(u, 0 + 1) = ParentIn(db.operations, OpAt(u, 0)) /\ OpAt(u, 0) = u
        BY OpSteps
    <2> QED BY <2>1, ParentOfOp
<1>3. \A q \in db.operations : \A i \in at(q.uuid) :
         i \in Nat /\ i - 1 \in Nat /\ OpAt(u, i - 1) = q.uuid
    <2>1. \A x, i : i \in at(x) => i \in Nat
        BY <1>1, FS_CardinalityType DEF Place, Keyed
    <2> QED BY <1>1, <2>1, PlaceOnChain DEF OpAt
<1>4. \A q \in db.operations : q.uuid = u => q = o
    BY <1>1
<1>5. PICK k \in {1, 2} : /\ k \in at(p.uuid)
                          /\ \A q \in Commanding(u) : \A i \in at(q.uuid) : k <= i
    <2>1. CASE p = o
        <3>1. 1 \in at(p.uuid)
            BY <1>1, <2>1, FirstPlace, <1>2 DEF OpAt
        <3> QED BY <1>3, <3>1 DEF Commanding
    <2>2. CASE p # o
        <3>1. o.command = None /\ p.uuid = o.parent /\ p.uuid # u
            BY <1>4, <2>2
        <3>2. 2 \in at(p.uuid)
            <4>1. \A i \in 0..(1 - 1) : Chain(db.operations, u)[i] # Chain(db.operations, u)[1]
                BY <1>2, <3>1 DEF OpAt
            <4>2. 1 + 1 \in at(Chain(db.operations, u)[1])
                BY <1>1, <4>1, FirstPlace
            <4> QED BY <1>2, <3>1, <4>2 DEF OpAt
        <3>3. ASSUME NEW q \in Commanding(u), NEW i \in at(q.uuid) PROVE 2 <= i
            <4>1. q \in db.operations /\ q.command # None
                BY DEF Commanding
            <4>2. i \in Nat /\ i - 1 \in Nat /\ OpAt(u, i - 1) = q.uuid
                BY <1>3, <4>1
            <4>3. i - 1 # 0
                BY <1>2, <1>4, <3>1, <4>1, <4>2
            <4> QED BY <4>2, <4>3
        <3> QED BY <3>2, <3>3
    <2> QED BY <2>1, <2>2
<1>6. p \in Commanding(u) /\ First(p)
    BY <1>5 DEF Commanding
<1>7. ASSUME NEW q \in Commanding(u), First(q) PROVE q = p
    <2>1. PICK i \in at(q.uuid) : \A j \in at(p.uuid) : i <= j
        BY <1>6, <1>7
    <2>2. q \in db.operations
        BY DEF Commanding
    <2>3. i \in Nat /\ i <= k /\ k <= i
        BY <1>3, <1>5, <2>1, <2>2
    <2>4. i = k
        BY <2>3
    <2>5. OpAt(u, i - 1) = q.uuid /\ OpAt(u, k - 1) = p.uuid
        BY <1>3, <1>5, <2>2
    <2>6. q.uuid = p.uuid
        BY <2>4, <2>5
    <2> QED BY <1>1, <2>2, <2>6
<1>8. NearestCommanding(u) = CHOOSE q \in Commanding(u) : First(q)
    BY DEF NearestCommanding
<1> HIDE DEF First
<1>9. NearestCommanding(u) = p
    BY <1>6, <1>7, <1>8
<1> QED BY <1>6, <1>9 DEF NearestCommand

LEMMA LoadedCommands == LoadInv => CommandsAreNearest
<1> SUFFICES ASSUME LoadInv, stage = "done", NEW n \in DOMAIN ops
             PROVE  IF ops[n].command # None
                    THEN ops[n].command = NearestCommand(ops[n].uuid)
                    ELSE /\ NearestOp(n).command = None
                         /\ \A p \in Inherited(n) :
                               p.uuid = NearestOp(n).parent => p.command = None
    BY DEF CommandsAreNearest
<1>1. db \in Databases /\ \A q, s \in db.operations : q.uuid = s.uuid => q = s
    BY Tables DEF LoadInv, Types, Keyed
<1>2. PICK k \in Nat : Progress(k)
    BY DEF LoadInv, MergeInv, Busy
<1>3. PICK o \in db.operations :
         /\ ops[n].uuid = o.uuid /\ ops[n].parent = o.parent
         /\ \/ ops[n].command = o.command
            \/ /\ o.command = None
               /\ \E p \in db.operations :
                      p.uuid = o.parent /\ ops[n].command = p.command
    BY DEF LoadInv, CommandInv, Busy, OwnOrParents
<1>4. NearestOp(n) = o
    <2>1. PICK q \in db.operations : Nearest(q, n, k) /\ ops[n].uuid = q.uuid
        BY <1>2 DEF Progress, Stored, IsNearest
    <2> QED BY <1>1, <1>3, <2>1, NearestIsChosen
<1>5. CASE ops[n].command # None
    <2>1. CASE ops[n].command = o.command
        BY <1>1, <1>3, <1>5, <2>1, CommandIsNearest
    <2>2. CASE ops[n].command # o.command
        <3>1. PICK p \in db.operations : p.uuid = o.parent /\ ops[n].command = p.command
            BY <1>3, <2>2
        <3>2. o.command = None
            BY <1>3, <2>2
        <3> QED BY <1>1, <1>3, <1>5, <3>1, <3>2, CommandIsNearest
    <2> QED BY <2>1, <2>2
<1>6. CASE ops[n].command = None
    <2>1. o.command = None
        BY <1>3, <1>6
    <2>2. ASSUME NEW p \in Inherited(n), p.uuid = o.parent, p.command # None
          PROVE  FALSE
        <3>1. p \in Passed(k) /\ p.name = n
            BY <1>2, PassedInherited DEF Inherited
        <3> QED BY <1>2, <1>3, <1>6, <2>2, <3>1 DEF Progress, Stored, Commanded
    <2> QED BY <1>4, <1>6, <2>1, <2>2
<1> QED BY <1>5, <1>6

LEMMA LoadedEnds == LoadInv /\ stage = "done" => Ends
<1> SUFFICES ASSUME LoadInv, stage = "done" PROVE Ends
    OBVIOUS
<1>1. db \in Databases
    BY DEF LoadInv, Types
<1>2. PICK k \in Nat : Progress(k)
    BY DEF LoadInv, MergeInv, Busy
<1>3. HasEnd(db.modules, self)
    <2>1. ModuleAt(k) = None
        BY <1>2 DEF LoadInv, Types, Progress, Position
    <2> QED BY <1>1, <2>1, Tables, PlaceOnChain DEF HasEnd, ModuleAt
<1>4. ASSUME NEW n, Inherited(n) # {} PROVE HasEnd(db.operations, NearestOp(n).uuid)
    <2>1. n \in DOMAIN ops
        BY <1>4, LoadedNames DEF Inherited
    <2> QED BY <2>1, LoadedOp
<1> QED BY <1>3, <1>4 DEF Ends

(* loadByUuid: the operation in hand is one of its row's name that a       *)
(* module on the chain of parents has; no rows are left when it is done.   *)
THEOREM LoadTypeOK == Spec => []TypeOK
BY LoadInvHolds, LoadedTypeOK, PTL

(* "Merged recursively with all parent ECUs, with items higher up on the   *)
(* tree taking a lower precedence" (dpp-json/README.md): for any tables,   *)
(* any depth of inheritance and any order of rows.                         *)
THEOREM LoadedByPrecedence == Spec => []MergedByPrecedence
BY LoadInvHolds, LoadedMerged, PTL

(* loadByUuid, for any tables, any number of generations and any order of  *)
(* rows: a command that is there is that of the nearest operation on the   *)
(* chain of extension that gives one, and none is missing that the         *)
(* operation or the namesake it directly extends gives.                    *)
THEOREM LoadedWithCommands == Spec => []CommandsAreNearest
BY LoadInvHolds, LoadedCommands, PTL

(* loadByUuid returns only when the chains of parents it has followed      *)
(* end: of the module, and of the operations taken from it.                *)
THEOREM LoadedWhenEnding == Spec => [](stage = "done" => Ends)
BY LoadInvHolds, LoadedEnds, PTL
=============================================================================
