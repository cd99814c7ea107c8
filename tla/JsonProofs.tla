----------------------------- MODULE JsonProofs ------------------------------
(***************************************************************************)
(* Theorems about modules JsonReader, JsonGrammar and Output: the reader,  *)
(* for documents of every length and any depth of nesting, the placing of  *)
(* results in the JSON of a response, for names of any number and depth,   *)
(* and that the reader accepts exactly JSON.                               *)
(***************************************************************************)
EXTENDS JsonGrammar, Output, FiniteSetTheorems, TLAPS

Active == {"value", "name", "separator"}

(* An unfinished value is an object or an array.                           *)
Unfinished(node) ==
    /\ node = [value |-> node.value, name |-> node.name]
    /\ IsObject(node.value) \/ IsArray(node.value)
IsStack(s) ==
    /\ s \in Seq({s[k] : k \in DOMAIN s})
    /\ \A k \in DOMAIN s : Unfinished(s[k])

(* One error from where reading failed on, and a value only at an end      *)
(* without one.                                                            *)
Verdict ==
    /\ errors \in Seq(Nat)
    /\ mode \in Active => errors = <<>> /\ result = {}
    /\ mode = "recover" => Len(errors) = 1 /\ result = {}
    /\ mode = "done" =>
          \/ errors = <<>> /\ result # {}
          \/ Len(errors) = 1 /\ result = {}

Shape ==
    /\ doc \in Documents
    /\ at \in 1..(Len(doc) + 1)
    /\ mode \in Modes
    /\ IsStack(nodes)
    /\ mode \in {"name", "separator", "recover"} => nodes # <<>>
    /\ mode = "name" => InObject
    /\ mode = "done" => nodes = <<>>

ReaderInv == Shape /\ Verdict

-----------------------------------------------------------------------------
(* Stacks of nodes.                                                        *)

LEMMA SeqOfItems ==
    ASSUME NEW S, NEW s \in Seq(S)
    PROVE  s \in Seq({s[k] : k \in DOMAIN s})
<1>1. s \in [1..Len(s) -> S] /\ Len(s) \in Nat
    OBVIOUS
<1>2. s \in [1..Len(s) -> {s[k] : k \in DOMAIN s}]
    BY <1>1
<1> QED BY <1>1, <1>2

LEMMA PushedStack ==
    ASSUME NEW s, IsStack(s), NEW node, Unfinished(node)
    PROVE  /\ IsStack(Append(s, node))
           /\ Append(s, node) # <<>>
           /\ Append(s, node)[Len(Append(s, node))] = node
           /\ Len(Append(s, node)) = Len(s) + 1
<1> DEFINE S == {s[k] : k \in DOMAIN s} \cup {node}
<1>1. s \in Seq(S)
    BY DEF IsStack
<1> HIDE DEF S
<1>2. node \in S
    BY DEF S
<1>3. /\ Append(s, node) \in Seq(S)
      /\ Len(Append(s, node)) = Len(s) + 1
      /\ \A k \in 1..Len(s) : Append(s, node)[k] = s[k]
      /\ Append(s, node)[Len(s) + 1] = node
    BY <1>1, <1>2
<1>4. \A k \in DOMAIN Append(s, node) : Unfinished(Append(s, node)[k])
    BY <1>1, <1>3 DEF IsStack
<1>5. Append(s, node) # <<>>
    BY <1>1, <1>3
<1> QED BY <1>3, <1>4, <1>5, SeqOfItems DEF IsStack

LEMMA PoppedStack ==
    ASSUME NEW s, IsStack(s), s # <<>>
    PROVE  /\ IsStack(SubSeq(s, 1, Len(s) - 1))
           /\ Len(SubSeq(s, 1, Len(s) - 1)) = Len(s) - 1
<1> DEFINE S == {s[k] : k \in DOMAIN s}
           t == SubSeq(s, 1, Len(s) - 1)
<1>1. s \in Seq(S) /\ Len(s) \in Nat \ {0}
    BY DEF IsStack
<1> HIDE DEF S
<1>2. t \in Seq(S) /\ Len(t) = Len(s) - 1 /\ \A k \in 1..Len(t) : t[k] = s[k]
    BY <1>1
<1>3. \A k \in DOMAIN t : Unfinished(t[k])
    BY <1>1, <1>2 DEF IsStack
<1> QED BY <1>2, <1>3, SeqOfItems DEF IsStack

LEMMA ChangedStack ==
    ASSUME NEW s, IsStack(s), s # <<>>, NEW node, Unfinished(node)
    PROVE  /\ IsStack([s EXCEPT ![Len(s)] = node])
           /\ [s EXCEPT ![Len(s)] = node] # <<>>
           /\ Len([s EXCEPT ![Len(s)] = node]) = Len(s)
           /\ [s EXCEPT ![Len(s)] = node][Len(s)] = node
<1> DEFINE S == {s[k] : k \in DOMAIN s} \cup {node}
           t == [s EXCEPT ![Len(s)] = node]
<1>1. s \in Seq(S) /\ Len(s) \in Nat \ {0}
    BY DEF IsStack
<1> HIDE DEF S
<1>2. node \in S
    BY DEF S
<1>3. /\ t \in Seq(S) /\ Len(t) = Len(s)
      /\ \A k \in 1..Len(s) : t[k] = IF k = Len(s) THEN node ELSE s[k]
    BY <1>1, <1>2
<1>4. \A k \in DOMAIN t : Unfinished(t[k])
    BY <1>1, <1>3 DEF IsStack
<1>5. t # <<>> /\ t[Len(s)] = node
    BY <1>1, <1>3
<1> HIDE DEF t
<1>6. IsStack(t)
    BY <1>3, <1>4, SeqOfItems DEF IsStack
<1> QED BY <1>3, <1>5, <1>6 DEF t

LEMMA TopUnfinished ==
    ASSUME NEW s, IsStack(s), s # <<>>
    PROVE  Unfinished(s[Len(s)])
<1>1. s \in Seq({s[k] : k \in DOMAIN s})
    BY DEF IsStack
<1>2. Len(s) \in DOMAIN s
    BY <1>1
<1> QED BY <1>2 DEF IsStack

LEMMA FilledUnfinished ==
    ASSUME NEW node, Unfinished(node), NEW v
    PROVE  /\ Unfinished(Filled(node, v))
           /\ IsObject(Filled(node, v).value) <=> IsObject(node.value)
<1> DEFINE value == IF IsObject(node.value)
                    THEN WithMember(node.value, node.name, v)
                    ELSE Appended(node.value, v)
<1>1. Filled(node, v) = [node EXCEPT !.value = value]
    BY Zenon DEF Filled
<1>2. /\ IsObject(value) \/ IsArray(value)
      /\ IsObject(value) <=> IsObject(node.value)
    BY DEF WithMember, Object, IsObject, Appended, WithItem, Array, IsArray
<1> HIDE DEF value
<1>3. Filled(node, v) = [value |-> value, name |-> node.name]
    BY <1>1 DEF Unfinished
<1> QED BY <1>2, <1>3 DEF Unfinished

-----------------------------------------------------------------------------
(* Tokens.                                                                 *)

LEMMA LeastOf ==
    ASSUME NEW T \in SUBSET Nat, T # {}
    PROVE  \E m \in T : \A k \in T : m <= k
<1> DEFINE below == {0..m : m \in T}
           order == StrictSubsetOrdering(Nat)
<1>1. below \subseteq FiniteSubsetsOf(Nat) /\ below # {}
  <2>1. \A m \in T : IsFiniteSet(0..m) /\ 0..m \in SUBSET Nat
      BY FS_Interval
  <2> QED BY <2>1 DEF FiniteSubsetsOf
<1>2. \E x \in below : \A y \in below : ~(<<y, x>> \in order)
  <2> HIDE DEF below, order
  <2>1. IsWellFoundedOn(order, FiniteSubsetsOf(Nat))
      BY FS_StrictSubsetOrderingWellFounded DEF order
  <2> QED BY <1>1, <2>1, WFMin
<1>3. PICK m \in T : \A k \in T : ~(<<0..k, 0..m>> \in order)
    BY <1>2
<1>4. ASSUME NEW k \in T, k < m PROVE FALSE
  <2>1. k \in Nat /\ m \in Nat
      OBVIOUS
  <2>2. 0..k \subseteq 0..m /\ 0..k # 0..m
      BY <2>1, <1>4
  <2>3. 0..k \in SUBSET Nat /\ 0..m \in SUBSET Nat
      BY <2>1
  <2> HIDE DEF order
  <2>4. <<0..k, 0..m>> \in StrictSubsetOrdering(Nat)
      BY <2>2, <2>3 DEF StrictSubsetOrdering
  <2> QED BY <1>3, <2>4 DEF order
<1> QED BY <1>4

(* Every document ends, and what is not the end is a token.                *)
LEMMA TokensOf ==
    ASSUME doc \in Documents
    PROVE  /\ Len(doc) \in Nat /\ DOMAIN doc = 1..Len(doc)
           /\ \A i \in Nat \ {0} : TypeAt(i) = "end" <=> i > Len(doc)
<1>1. doc \in Seq({doc[i] : i \in DOMAIN doc})
    BY ReaderAssumption
<1>2. Len(doc) \in Nat /\ DOMAIN doc = 1..Len(doc)
    BY <1>1
<1>3. \A i \in 1..Len(doc) : doc[i].type \in TokenTypes
    BY <1>2, ReaderAssumption
<1>4. "end" \notin TokenTypes
    BY DEF TokenTypes
<1> QED BY <1>2, <1>3, <1>4 DEF TypeAt

LEMMA AfterIs ==
    ASSUME doc \in Documents, NEW i \in 1..(Len(doc) + 1)
    PROVE  /\ After(i) \in i..(Len(doc) + 1)
           /\ TypeAt(i) # "end" => After(i) = i + 1
    BY TokensOf DEF After

LEMMA NonCommentIs ==
    ASSUME doc \in Documents, NEW i \in 1..(Len(doc) + 1)
    PROVE  /\ NonComment(i) \in i..(Len(doc) + 1)
           /\ TypeAt(NonComment(i)) # "comment"
<1> DEFINE T == {j \in i..(Len(doc) + 1) : TypeAt(j) # "comment"}
<1>1. T \in SUBSET Nat /\ Len(doc) + 1 \in T
    BY TokensOf
<1>2. PICK m \in T : \A k \in T : m <= k
    BY <1>1, LeastOf
<1>3. /\ m \in i..(Len(doc) + 1)
      /\ TypeAt(m) # "comment"
      /\ \A k \in i..(m - 1) : TypeAt(k) = "comment"
    BY <1>1, <1>2, TokensOf
<1> QED BY <1>3 DEF NonComment

LEMMA PastEndIs ==
    ASSUME doc \in Documents, NEW i \in 1..(Len(doc) + 1), NEW type
    PROVE  PastEnd(i, type) \in i..(Len(doc) + 1)
<1> DEFINE T == {j \in i..(Len(doc) + 1) : TypeAt(j) \in {type, "end"}}
           j0 == CHOOSE j \in i..(Len(doc) + 1) :
                    /\ TypeAt(j) \in {type, "end"}
                    /\ \A k \in i..(j - 1) : TypeAt(k) # type
<1>1. T \in SUBSET Nat /\ Len(doc) + 1 \in T
    BY TokensOf
<1>2. PICK m \in T : \A k \in T : m <= k
    BY <1>1, LeastOf
<1>3. /\ m \in i..(Len(doc) + 1)
      /\ TypeAt(m) \in {type, "end"}
      /\ \A k \in i..(m - 1) : TypeAt(k) # type
    BY <1>1, <1>2, TokensOf
<1>4. j0 \in i..(Len(doc) + 1)
    BY <1>3
<1>5. PastEnd(i, type) = After(j0)
    BY DEF PastEnd
<1> QED BY <1>4, <1>5, AfterIs, TokensOf

-----------------------------------------------------------------------------
(* The two ways out of a value.  Depth is what a step adds to the number   *)
(* of unfinished values.                                                   *)
Goes(depth) ==
    /\ doc' = doc
    /\ at' \in at..(Len(doc) + 1)
    /\ Len(nodes') \in Nat /\ Len(nodes) \in Nat
    /\ Len(nodes') <= Len(nodes) + depth

LEMMA ReturnKeeps ==
    ASSUME ReaderInv, mode \in Active, at' \in at..(Len(doc) + 1),
           NEW v, NEW callers, IsStack(callers), Len(callers) <= Len(nodes),
           Return(v, callers)
    PROVE  ReaderInv' /\ Goes(0)
<1> USE DEF ReaderInv
<1>1. /\ doc' = doc /\ errors' = errors /\ errors = <<>> /\ doc \in Documents
      /\ Len(callers) \in Nat /\ Len(nodes) \in Nat
    BY DEF Return, Verdict, Shape, IsStack
<1>2. at' \in 1..(Len(doc') + 1)
    BY <1>1, TokensOf DEF Shape
<1>3. CASE callers = <<>>
  <2>1. mode' = "done" /\ nodes' = <<>> /\ result' = {v}
      BY <1>3 DEF Return
  <2>2. Shape'
      BY <1>1, <1>2, <1>3, <2>1 DEF Shape, Modes
  <2>3. Verdict'
      BY <1>1, <2>1 DEF Verdict, Active
  <2> QED BY <1>1, <1>3, <2>1, <2>2, <2>3 DEF Goes
<1>4. CASE callers # <<>>
  <2> DEFINE node == Filled(callers[Len(callers)], v)
  <2>1. /\ mode' = "separator" /\ result' = result /\ result = {}
        /\ nodes' = [callers EXCEPT ![Len(callers)] = node]
      BY <1>4 DEF Return, Verdict
  <2>2. Unfinished(node)
      BY <1>4, TopUnfinished, FilledUnfinished
  <2> HIDE DEF node
  <2>3. IsStack(nodes') /\ nodes' # <<>> /\ Len(nodes') = Len(callers)
      BY <1>4, <2>1, <2>2, ChangedStack
  <2>4. Shape'
      BY <1>1, <1>2, <2>1, <2>3 DEF Shape, Modes
  <2>5. Verdict'
      BY <1>1, <2>1 DEF Verdict, Active
  <2> QED BY <1>1, <2>3, <2>4, <2>5 DEF Goes
<1> QED BY <1>3, <1>4

LEMMA AddErrorKeeps ==
    ASSUME ReaderInv, mode \in Active, NEW i \in at..(Len(doc) + 1),
           AddError(i, nodes)
    PROVE  ReaderInv' /\ Goes(0) /\ mode' \notin Active
<1> USE DEF ReaderInv
<1>1. /\ doc' = doc /\ doc \in Documents /\ nodes' = nodes
      /\ errors' = Append(errors, i) /\ errors = <<>> /\ result' = result /\ result = {}
      /\ at' = After(i) /\ at \in Nat /\ Len(nodes) \in Nat
      /\ mode' = IF nodes = <<>> THEN "done" ELSE "recover"
    BY DEF AddError, ReturnFalse, Verdict, Shape, IsStack
<1>2. i \in 1..(Len(doc) + 1) /\ at' \in at..(Len(doc) + 1) /\ at' \in 1..(Len(doc) + 1)
    BY <1>1, AfterIs, TokensOf DEF Shape
<1>3. Shape'
    BY <1>1, <1>2 DEF Shape, Modes
<1>4. errors' = <<i>> /\ i \in Nat
    BY <1>1, <1>2
<1>5. Verdict'
    BY <1>1, <1>4 DEF Verdict, Active
<1> QED BY <1>1, <1>2, <1>3, <1>5 DEF Goes, Active

(* A new node, or the same.                                                *)
LEMMA GoesOn ==
    ASSUME ReaderInv, mode \in Active, at' \in at..(Len(doc) + 1),
           IsStack(nodes'), mode' \in Active,
           mode' = "name" => nodes' # <<>> /\ IsObject(nodes'[Len(nodes')].value),
           mode' = "separator" => nodes' # <<>>,
           UNCHANGED <<doc, errors, result>>
    PROVE  ReaderInv'
<1>1. /\ doc' = doc /\ errors' = errors /\ errors = <<>> /\ doc \in Documents
      /\ result' = result /\ result = {}
    BY DEF ReaderInv, Verdict, Shape
<1>2. at' \in 1..(Len(doc') + 1)
    BY <1>1, TokensOf DEF ReaderInv, Shape
<1>3. Shape'
    BY <1>1, <1>2 DEF Shape, Modes, Active, InObject, CurrentNode
<1>4. Verdict'
    BY <1>1 DEF Verdict, Active
<1> QED BY <1>3, <1>4 DEF ReaderInv

-----------------------------------------------------------------------------
(* Remaining.                                                              *)

LEMMA RemainingIs ==
    ASSUME ReaderInv
    PROVE  /\ Len(doc) \in Nat /\ at \in 1..(Len(doc) + 1) /\ Len(nodes) \in Nat
           /\ Remaining = 2 * (Len(doc) + 1 - at) + Len(nodes)
                            + (IF mode \in Active THEN 1 ELSE 0)
           /\ Remaining \in Nat
<1>1. Len(doc) \in Nat /\ at \in 1..(Len(doc) + 1) /\ Len(nodes) \in Nat
    BY TokensOf DEF ReaderInv, Shape, IsStack
<1>2. Remaining = 2 * (Len(doc) + 1 - at) + Len(nodes)
                    + (IF mode \in Active THEN 1 ELSE 0)
    BY DEF Remaining, Active
<1> QED BY <1>1, <1>2

(* A token is taken, for one more unfinished value at most.                *)
LEMMA LessByToken ==
    ASSUME ReaderInv, mode \in Active, Goes(1), at' > at
    PROVE  Remaining' < Remaining
<1>1. Remaining' = 2 * (Len(doc) + 1 - at') + Len(nodes')
                     + (IF mode' \in Active THEN 1 ELSE 0)
    BY DEF Remaining, Goes, Active
<1>2. /\ at' \in at..(Len(doc) + 1) /\ Len(nodes') \in Nat
      /\ Len(nodes') <= Len(nodes) + 1
    BY DEF Goes
<1>3. /\ Len(doc) \in Nat /\ at \in 1..(Len(doc) + 1) /\ Len(nodes) \in Nat
      /\ Remaining = 2 * (Len(doc) + 1 - at) + Len(nodes) + 1
    BY RemainingIs
<1>4. ASSUME NEW d \in Nat, NEW a \in Nat, NEW b \in Nat, NEW m \in Nat,
             NEW n \in Nat, NEW k \in 0..1, a < b, n <= m + 1
      PROVE  2 * (d + 1 - b) + n + k < 2 * (d + 1 - a) + m + 1
    BY <1>4
<1>5. at \in Nat /\ at' \in Nat /\ (IF mode' \in Active THEN 1 ELSE 0) \in 0..1
    BY <1>2, <1>3
<1> HIDE DEF Active
<1> QED BY <1>1, <1>2, <1>3, <1>4, <1>5

(* An error ends the reading of the value.                                 *)
LEMMA LessByError ==
    ASSUME ReaderInv, mode \in Active, Goes(0), mode' \notin Active
    PROVE  Remaining' < Remaining
<1>1. /\ at' \in at..(Len(doc) + 1) /\ Len(nodes') \in Nat
      /\ Len(nodes') <= Len(nodes)
    BY DEF Goes
<1>2. /\ Len(doc) \in Nat /\ at \in 1..(Len(doc) + 1) /\ Len(nodes) \in Nat
      /\ Remaining = 2 * (Len(doc) + 1 - at) + Len(nodes) + 1
    BY RemainingIs
<1>3. Remaining' = 2 * (Len(doc) + 1 - at') + Len(nodes')
    BY <1>1, <1>2 DEF Remaining, Goes, Active
<1>4. ASSUME NEW d \in Nat, NEW a \in Nat, NEW b \in Nat, NEW m \in Nat,
             NEW n \in Nat, a <= b, n <= m
      PROVE  2 * (d + 1 - b) + n < 2 * (d + 1 - a) + m + 1
    BY <1>4
<1>5. at \in Nat /\ at' \in Nat /\ at <= at'
    BY <1>1, <1>2
<1> QED BY <1>1, <1>2, <1>3, <1>4, <1>5

LEMMA GoesMore == Goes(0) => Goes(1)
    BY DEF Goes

(* The next token is taken.                                                *)
LEMMA TakesToken ==
    ASSUME ReaderInv, NEW i \in at..(Len(doc) + 1), TypeAt(i) # "end"
    PROVE  /\ i <= Len(doc) /\ i + 1 \in at..(Len(doc) + 1)
           /\ After(i) = i + 1 /\ i + 1 > at
<1>1. doc \in Documents /\ at \in 1..(Len(doc) + 1) /\ Len(doc) \in Nat
    BY TokensOf DEF ReaderInv, Shape
<1>2. i \in Nat \ {0} /\ i >= at /\ i \in 1..(Len(doc) + 1)
    BY <1>1
<1> QED BY <1>1, <1>2, AfterIs, TokensOf

LEMMA NextToken ==
    ASSUME ReaderInv
    PROVE  NonComment(at) \in at..(Len(doc) + 1)
PROOF BY NonCommentIs DEF ReaderInv, Shape

LEMMA CallersAre ==
    ASSUME ReaderInv, nodes # <<>>
    PROVE  IsStack(Callers) /\ Len(Callers) = Len(nodes) - 1 /\ Len(nodes) \in Nat \ {0}
<1>1. Len(nodes) \in Nat /\ nodes \in Seq({nodes[k] : k \in DOMAIN nodes})
    BY DEF ReaderInv, Shape, IsStack
<1>2. Len(nodes) # 0
    BY <1>1
<1> QED BY <1>1, <1>2, PoppedStack DEF ReaderInv, Shape, Callers

(* A value ends with the token at i, for the caller or the callers of the  *)
(* object or array.                                                        *)
LEMMA ValueReturns ==
    ASSUME ReaderInv, mode \in Active, NEW i \in at..(Len(doc) + 1), TypeAt(i) # "end",
           at' = After(i), NEW v, NEW callers,
           IsStack(callers), Len(callers) <= Len(nodes), Return(v, callers)
    PROVE  ReaderInv' /\ Remaining' < Remaining
<1>1. at' \in at..(Len(doc) + 1) /\ at' > at
    BY TakesToken
<1>2. ReaderInv' /\ Goes(0)
    BY <1>1, ReturnKeeps
<1> QED BY <1>1, <1>2, GoesMore, LessByToken

LEMMA ErrorEnds ==
    ASSUME ReaderInv, mode \in Active, NEW i \in at..(Len(doc) + 1), AddError(i, nodes)
    PROVE  ReaderInv' /\ Remaining' < Remaining
PROOF BY AddErrorKeeps, LessByError

-----------------------------------------------------------------------------
(* The steps of readValue.                                                 *)

LEMMA ReadScalarStep ==
    ASSUME ReaderInv, ReadScalar
    PROVE  ReaderInv' /\ Remaining' < Remaining
<1> DEFINE i == NonComment(at)
<1>1. i \in at..(Len(doc) + 1)
    BY NextToken
<1>2. /\ mode \in Active /\ TypeAt(i) # "end" /\ at' = After(i)
      /\ Return(doc[i].value, nodes)
    BY DEF ReadScalar, Active
<1>3. IsStack(nodes) /\ Len(nodes) <= Len(nodes)
    BY RemainingIs DEF ReaderInv, Shape
<1> HIDE DEF i
<1> QED BY <1>1, <1>2, <1>3, ValueReturns

LEMMA BeginObjectStep ==
    ASSUME ReaderInv, BeginObject
    PROVE  ReaderInv' /\ Remaining' < Remaining
<1> DEFINE i == NonComment(at)
           node == NewNode(EmptyObject)
<1>1. i \in at..(Len(doc) + 1)
    BY NextToken
<1>2. /\ mode \in Active /\ TypeAt(i) # "end" /\ at' = After(i)
      /\ mode' = "name" /\ nodes' = Append(nodes, node)
      /\ UNCHANGED <<doc, errors, result>>
    BY DEF BeginObject, Active
<1>3. at' \in at..(Len(doc) + 1) /\ at' > at
    BY <1>1, <1>2, TakesToken
<1>4. Unfinished(node) /\ IsObject(node.value)
    BY DEF Unfinished, NewNode, EmptyObject, Object, IsObject
<1> HIDE DEF i, node
<1>5. /\ IsStack(nodes') /\ nodes' # <<>> /\ nodes'[Len(nodes')] = node
      /\ Len(nodes') = Len(nodes) + 1
    BY <1>2, <1>4, PushedStack DEF ReaderInv, Shape
<1>6. ReaderInv'
    BY <1>2, <1>3, <1>4, <1>5, GoesOn DEF Active
<1>7. Goes(1)
    BY <1>2, <1>3, <1>5, RemainingIs DEF Goes
<1> QED BY <1>2, <1>3, <1>6, <1>7, LessByToken

LEMMA BeginArrayStep ==
    ASSUME ReaderInv, BeginArray
    PROVE  ReaderInv' /\ Remaining' < Remaining
<1> DEFINE i == NonComment(at)
           node == NewNode(EmptyArray)
<1>1. /\ i \in at..(Len(doc) + 1) /\ TypeAt(i) # "end" /\ mode \in Active
    BY NextToken DEF BeginArray, Active
<1>2. i + 1 \in at..(Len(doc) + 1) /\ After(i) = i + 1 /\ i + 1 > at
    BY <1>1, TakesToken
<1>3. CASE /\ TypeAt(i + 1) = "]" /\ at' = After(i + 1)
           /\ Return(EmptyArray, nodes)
  <2>1. IsStack(nodes) /\ Len(nodes) <= Len(nodes) /\ TypeAt(i + 1) # "end"
      BY <1>3, RemainingIs DEF ReaderInv, Shape
  <2> HIDE DEF i
  <2> QED BY <1>1, <1>2, <1>3, <2>1, ValueReturns
<1>4. CASE /\ at' = After(i) /\ mode' = "value" /\ nodes' = Append(nodes, node)
           /\ UNCHANGED <<doc, errors, result>>
  <2>1. Unfinished(node)
      BY DEF Unfinished, NewNode, EmptyArray, Array, IsArray
  <2> HIDE DEF i, node
  <2>2. IsStack(nodes') /\ Len(nodes') = Len(nodes) + 1
      BY <1>4, <2>1, PushedStack DEF ReaderInv, Shape
  <2>3. at' \in at..(Len(doc) + 1) /\ at' > at
      BY <1>2, <1>4
  <2>4. ReaderInv'
      BY <1>1, <1>4, <2>2, <2>3, GoesOn DEF Active
  <2>5. Goes(1)
      BY <1>4, <2>2, <2>3, RemainingIs DEF Goes
  <2> QED BY <1>1, <2>3, <2>4, <2>5, LessByToken
<1> QED BY <1>3, <1>4 DEF BeginArray

LEMMA MissingValueStep ==
    ASSUME ReaderInv, MissingValue
    PROVE  ReaderInv' /\ Remaining' < Remaining
<1>1. mode \in Active /\ AddError(NonComment(at), nodes)
    BY DEF MissingValue, Active
<1> QED BY <1>1, NextToken, ErrorEnds

-----------------------------------------------------------------------------
(* The steps of readObject.                                                *)

(* EndEmptyObject, EndObject and EndArray.                                 *)
LEMMA ClosingStep ==
    ASSUME ReaderInv, mode \in {"name", "separator"},
           TypeAt(NonComment(at)) # "end", at' = After(NonComment(at)),
           NEW v, Return(v, Callers)
    PROVE  ReaderInv' /\ Remaining' < Remaining
<1>1. nodes # <<>> /\ mode \in Active
    BY DEF ReaderInv, Shape, Active
<1>2. IsStack(Callers) /\ Len(Callers) <= Len(nodes)
    BY <1>1, CallersAre
<1> QED BY <1>1, <1>2, NextToken, ValueReturns

LEMMA EndEmptyObjectStep ==
    ASSUME ReaderInv, EndEmptyObject
    PROVE  ReaderInv' /\ Remaining' < Remaining
<1>1. /\ mode = "name" /\ TypeAt(NonComment(at)) # "end"
      /\ at' = After(NonComment(at)) /\ Return(CurrentNode.value, Callers)
    BY DEF EndEmptyObject
<1> QED BY <1>1, ClosingStep

LEMMA EndObjectStep ==
    ASSUME ReaderInv, EndObject
    PROVE  ReaderInv' /\ Remaining' < Remaining
<1>1. /\ mode = "separator" /\ TypeAt(NonComment(at)) # "end"
      /\ at' = After(NonComment(at)) /\ Return(CurrentNode.value, Callers)
    BY DEF EndObject
<1> QED BY <1>1, ClosingStep

LEMMA ReadNameStep ==
    ASSUME ReaderInv, ReadName
    PROVE  ReaderInv' /\ Remaining' < Remaining
<1> DEFINE i == NonComment(at)
           node == [value |-> WithPlace(CurrentNode.value, doc[i].value.text),
                    name |-> doc[i].value.text]
<1>1. /\ i \in at..(Len(doc) + 1) /\ TypeAt(i) # "end"
      /\ mode = "name" /\ mode \in Active
    BY NextToken DEF ReadName, Active
<1>2. i + 1 \in at..(Len(doc) + 1) /\ i + 1 > at
    BY <1>1, TakesToken
<1>3. CASE AddError(i + 1, nodes)
    BY <1>1, <1>2, <1>3, ErrorEnds
<1>4. CASE /\ TypeAt(i + 1) = ":" /\ at' = After(i + 1) /\ mode' = "value"
           /\ nodes' = [nodes EXCEPT ![Len(nodes)] = node]
           /\ UNCHANGED <<doc, errors, result>>
  <2>1. nodes # <<>> /\ IsStack(nodes)
      BY <1>1 DEF ReaderInv, Shape
  <2>2. Unfinished(node)
      BY DEF Unfinished, WithPlace, WithMember, Object, IsObject
  <2> HIDE DEF i, node
  <2>3. IsStack(nodes') /\ Len(nodes') = Len(nodes)
      BY <1>4, <2>1, <2>2, ChangedStack
  <2>4. at' \in at..(Len(doc) + 1) /\ at' > at
      BY <1>2, <1>4, TakesToken
  <2>5. ReaderInv'
      BY <1>1, <1>4, <2>3, <2>4, GoesOn DEF Active
  <2>6. Goes(1)
      BY <1>4, <2>3, <2>4, RemainingIs DEF Goes
  <2> QED BY <1>1, <2>4, <2>5, <2>6, LessByToken
<1> QED BY <1>3, <1>4 DEF ReadName, CurrentNode

LEMMA MissingNameStep ==
    ASSUME ReaderInv, MissingName
    PROVE  ReaderInv' /\ Remaining' < Remaining
<1>1. mode \in Active /\ AddError(NonComment(at), nodes)
    BY DEF MissingName, Active
<1> QED BY <1>1, NextToken, ErrorEnds

(* A comma is taken, and perhaps comments before it.                       *)
LEMMA SeparatorStep ==
    ASSUME ReaderInv, mode = "separator",
           at' \in at..(Len(doc) + 1), at' > at,
           mode' \in {"name", "value"}, mode' = "name" => InObject,
           UNCHANGED <<doc, nodes, errors, result>>
    PROVE  ReaderInv' /\ Remaining' < Remaining
<1>1. mode \in Active /\ mode' \in Active /\ nodes # <<>> /\ IsStack(nodes)
    BY DEF Active, ReaderInv, Shape
<1>2. ReaderInv'
    BY <1>1, GoesOn DEF InObject, CurrentNode
<1>3. Goes(1)
    BY RemainingIs DEF Goes
<1> QED BY <1>1, <1>2, <1>3, LessByToken

LEMMA NextMemberStep ==
    ASSUME ReaderInv, NextMember
    PROVE  ReaderInv' /\ Remaining' < Remaining
<1> DEFINE i == NonComment(at)
<1>1. /\ doc \in Documents /\ at \in 1..(Len(doc) + 1) /\ Len(doc) \in Nat
      /\ i \in at..(Len(doc) + 1) /\ at' = After(i)
      /\ TypeAt(at) # "end"
    BY NextToken, RemainingIs DEF NextMember, ReaderInv, Shape
<1> HIDE DEF i
<1>2. i \in 1..(Len(doc) + 1) /\ After(i) \in i..(Len(doc) + 1)
    BY <1>1, AfterIs
<1>3. CASE TypeAt(i) # "end"
  <2>1. After(i) = i + 1
      BY <1>1, <1>2, <1>3, AfterIs
  <2>2. at' \in at..(Len(doc) + 1) /\ at' > at
      BY <1>1, <1>2, <2>1
  <2> QED BY <2>2, SeparatorStep DEF NextMember
<1>4. CASE TypeAt(i) = "end"
  <2>1. i # at
      BY <1>1, <1>4
  <2>2. at' \in at..(Len(doc) + 1) /\ at' > at
      BY <1>1, <1>2, <2>1
  <2> QED BY <2>2, SeparatorStep DEF NextMember
<1> QED BY <1>3, <1>4

LEMMA MissingCommaStep ==
    ASSUME ReaderInv, MissingComma
    PROVE  ReaderInv' /\ Remaining' < Remaining
<1>1. mode \in Active /\ AddError(at, nodes)
    BY DEF MissingComma, Active
<1>2. at \in at..(Len(doc) + 1)
    BY RemainingIs
<1> QED BY <1>1, <1>2, ErrorEnds

-----------------------------------------------------------------------------
(* The steps of readArray, and the recovery.                               *)

LEMMA EndArrayStep ==
    ASSUME ReaderInv, EndArray
    PROVE  ReaderInv' /\ Remaining' < Remaining
<1>1. /\ mode = "separator" /\ TypeAt(NonComment(at)) # "end"
      /\ at' = After(NonComment(at)) /\ Return(CurrentNode.value, Callers)
    BY DEF EndArray
<1> QED BY <1>1, ClosingStep

LEMMA NextItemStep ==
    ASSUME ReaderInv, NextItem
    PROVE  ReaderInv' /\ Remaining' < Remaining
<1>1. TypeAt(NonComment(at)) # "end" /\ at' = After(NonComment(at))
    BY DEF NextItem
<1>2. at' \in at..(Len(doc) + 1) /\ at' > at
    BY <1>1, NextToken, TakesToken
<1> QED BY <1>2, SeparatorStep DEF NextItem

LEMMA MissingItemCommaStep ==
    ASSUME ReaderInv, MissingItemComma
    PROVE  ReaderInv' /\ Remaining' < Remaining
<1>1. mode \in Active /\ AddError(NonComment(at), nodes)
    BY DEF MissingItemComma, Active
<1> QED BY <1>1, NextToken, ErrorEnds

LEMMA Descends ==
    ASSUME NEW l \in Int, NEW i \in Int, NEW j \in Int, NEW n \in Int, i <= j
    PROVE  2 * (l + 1 - j) + (n - 1) < 2 * (l + 1 - i) + n
OBVIOUS

LEMMA RecoverStep ==
    ASSUME ReaderInv, Recover
    PROVE  ReaderInv' /\ Remaining' < Remaining
<1>1. /\ doc \in Documents /\ at \in 1..(Len(doc) + 1) /\ Len(doc) \in Nat
      /\ nodes # <<>> /\ mode = "recover" /\ errors' = errors /\ doc' = doc
      /\ Len(errors) = 1 /\ errors \in Seq(Nat) /\ result' = result /\ result = {}
      /\ nodes' = Callers
      /\ mode' = IF Callers = <<>> THEN "done" ELSE "recover"
    BY RemainingIs DEF Recover, ReturnFalse, ReaderInv, Shape, Verdict
<1>2. at' \in at..(Len(doc) + 1)
    BY <1>1, PastEndIs DEF Recover
<1>3. IsStack(nodes') /\ Len(nodes') = Len(nodes) - 1 /\ Len(nodes) \in Nat \ {0}
    BY <1>1, CallersAre
<1>4. Shape'
    BY <1>1, <1>2, <1>3 DEF Shape, Modes
<1>5. Verdict'
    BY <1>1 DEF Verdict, Active
<1>6. /\ Remaining = 2 * (Len(doc) + 1 - at) + Len(nodes)
      /\ Remaining' = 2 * (Len(doc) + 1 - at') + Len(nodes')
    BY <1>1, <1>2, <1>3 DEF Remaining
<1>7. /\ Len(doc) \in Int /\ at \in Int /\ at' \in Int /\ at <= at'
      /\ Len(nodes) \in Int
    BY <1>1, <1>2, <1>3
<1>8. 2 * (Len(doc) + 1 - at') + (Len(nodes) - 1)
        < 2 * (Len(doc) + 1 - at) + Len(nodes)
    BY <1>7, Descends
<1>9. Remaining' < Remaining
    BY <1>3, <1>6, <1>8
<1> QED BY <1>4, <1>5, <1>9 DEF ReaderInv

LEMMA ReaderStep ==
    ASSUME ReaderInv, ReaderNext
    PROVE  ReaderInv' /\ Remaining' < Remaining
PROOF
    BY ReadScalarStep, BeginObjectStep, BeginArrayStep, MissingValueStep,
       EndEmptyObjectStep, ReadNameStep, MissingNameStep, EndObjectStep,
       NextMemberStep, MissingCommaStep, EndArrayStep, NextItemStep,
       MissingItemCommaStep, RecoverStep
    DEF ReaderNext

LEMMA ReaderInvHolds == ReaderSpec => []ReaderInv
<1>1. ReaderInit => ReaderInv
  <2> SUFFICES ASSUME ReaderInit PROVE ReaderInv
      OBVIOUS
  <2>1. Len(doc) \in Nat
      BY TokensOf DEF ReaderInit
  <2>2. IsStack(<<>>)
      BY DEF IsStack
  <2> QED BY <2>1, <2>2 DEF ReaderInit, ReaderStart, ReaderInv, Shape, Verdict, Modes, Active
<1>2. ReaderInv /\ [ReaderNext]_readerVars => ReaderInv'
  <2>1. CASE ReaderNext
      BY <2>1, ReaderStep
  <2>2. CASE UNCHANGED readerVars
      BY <2>2 DEF readerVars, ReaderInv, Shape, Verdict, InObject, CurrentNode
  <2> QED BY <2>1, <2>2
<1> QED BY <1>1, <1>2, PTL DEF ReaderSpec

-----------------------------------------------------------------------------
(* Json::Reader keeps its stack as it should: only objects and arrays are  *)
(* unfinished, the one whose names are read is an object, and nothing is   *)
(* unfinished at the end.                                                  *)
THEOREM ReaderTypes == ReaderSpec => []ReaderTypeOK
<1>1. ReaderInv => ReaderTypeOK
    BY DEF ReaderInv, Shape, ReaderTypeOK, IsStack, Unfinished
<1> QED BY <1>1, ReaderInvHolds, PTL

(* readValue and recoverFromError: whatever the document, at most one      *)
(* error is kept, and it is refused exactly when there is one.             *)
THEOREM ReaderOneError == ReaderSpec => []OneError
<1>1. ReaderInv => OneError
  <2> SUFFICES ASSUME ReaderInv PROVE OneError
      OBVIOUS
  <2>1. errors \in Seq(Nat) /\ mode \in Modes
      BY DEF ReaderInv, Shape, Verdict
  <2>2. Len(errors) = 0 \/ Len(errors) = 1
      BY <2>1 DEF ReaderInv, Verdict, Modes, Active
  <2>3. errors = <<>> <=> Len(errors) = 0
      BY <2>1
  <2>4. mode = "done" => (result = {} <=> errors # <<>>)
      BY <2>3 DEF ReaderInv, Verdict
  <2>5. Len(errors) <= 1
    <3>1. \A n \in Nat : n = 0 \/ n = 1 => n <= 1
        OBVIOUS
    <3>2. Len(errors) \in Nat
        BY <2>1
    <3> QED BY <2>2, <3>1, <3>2, Zenon
  <2> QED BY <2>4, <2>5, Zenon DEF OneError
<1> QED BY <1>1, ReaderInvHolds, PTL

(* The loops of the reader end: every step makes a natural number smaller. *)
THEOREM ReaderEnds == ReaderSpec => ReaderProgress
<1>1. ReaderInv /\ [ReaderNext]_readerVars =>
        [doc' = doc => Remaining' < Remaining /\ Remaining >= 0]_readerVars
    BY ReaderStep, RemainingIs
<1> QED BY <1>1, ReaderInvHolds, PTL DEF ReaderSpec, ReaderProgress

-----------------------------------------------------------------------------
(* Paths.  Induction up to a number, with a set in place of the predicate. *)

LEMMA UpTo ==
    ASSUME NEW n \in Nat, NEW S, 0 \in S, \A i \in 0..(n - 1) : i \in S => i + 1 \in S
    PROVE  \A i \in 0..n : i \in S
<1> DEFINE T == {i \in 0..n : i \notin S}
<1> SUFFICES ASSUME T # {} PROVE FALSE
    OBVIOUS
<1>1. PICK i \in T : \A k \in T : i <= k
    <2>1. T \in SUBSET Nat
        OBVIOUS
    <2> HIDE DEF T
    <2> QED BY <2>1, LeastOf
<1>2. i \in 1..n /\ i - 1 \in 0..(n - 1) /\ (i - 1) + 1 = i
    BY <1>1
<1>3. i - 1 \in S
    BY <1>1, <1>2
<1> QED BY <1>1, <1>2, <1>3

(* The definition of Reached by recursion says what it seems to say.       *)
LEMMA ReachedIs ==
    ASSUME NEW v, NEW path, Len(path) \in Nat
    PROVE  /\ Reached(v, path)[0] = v
           /\ \A i \in 1..Len(path) :
                 Reached(v, path)[i] = Child(Reached(v, path)[i - 1], path[i])
<1>0. PICK n \in Nat : n = Len(path)
    OBVIOUS
<1> DEFINE Is(f, k) == f = [i \in 0..k |-> IF i = 0 THEN v ELSE Child(f[i - 1], path[i])]
           S == {k \in Nat : \E f : Is(f, k)}
<1>1. 0 \in S
    <2> DEFINE f == [i \in 0..0 |-> v]
    <2>1. Is(f, 0)
        OBVIOUS
    <2> QED BY <2>1
<1>2. ASSUME NEW k \in 0..(n - 1), k \in S PROVE k + 1 \in S
    <2>1. PICK f : Is(f, k)
        BY <1>2
    <2> DEFINE h == [i \in 0..(k + 1) |-> IF i <= k THEN f[i] ELSE Child(f[k], path[k + 1])]
    <2>2. \A i \in 0..k : f[i] = IF i = 0 THEN v ELSE Child(f[i - 1], path[i])
        BY <2>1
    <2>3. ASSUME NEW i \in 0..(k + 1)
          PROVE  h[i] = IF i = 0 THEN v ELSE Child(h[i - 1], path[i])
        <3>1. CASE i <= k
            <4>1. h[i] = f[i] /\ (i # 0 => h[i - 1] = f[i - 1]) /\ i \in 0..k
                BY <3>1
            <4> HIDE DEF h
            <4> QED BY <2>2, <4>1
        <3>2. CASE i = k + 1
            <4>1. h[i] = Child(f[k], path[k + 1]) /\ i - 1 = k /\ h[k] = f[k] /\ i # 0
                BY <3>2
            <4> HIDE DEF h
            <4> QED BY <3>2, <4>1
        <3> QED BY <3>1, <3>2
    <2>4. h = [i \in 0..(k + 1) |-> h[i]]
        OBVIOUS
    <2> HIDE DEF h
    <2>5. Is(h, k + 1)
        BY <2>3, <2>4
    <2> HIDE DEF Is
    <2> QED BY <2>5
<1> HIDE DEF S
<1>3. n \in S
    <2>1. \A k \in 0..(n - 1) : k \in S => k + 1 \in S
        BY <1>2
    <2>2. \A k \in 0..n : k \in S
        BY <1>1, <2>1, UpTo, Zenon
    <2> QED BY <2>2
<1> DEFINE reach == CHOOSE f : Is(f, n)
<1>4. Is(reach, n)
    BY <1>3 DEF S
<1>5. Reached(v, path) = reach
    BY <1>0 DEF Reached
<1> HIDE DEF reach
<1>6. reach[0] = v /\ \A i \in 1..n : reach[i] = Child(reach[i - 1], path[i])
    BY <1>4
<1> QED BY <1>0, <1>5, <1>6

(* So does Placed: what is at each place of the path once the leaf is put. *)
PlacedAlong(b, v, path, leaf) ==
    /\ b[Len(path)] = leaf
    /\ \A i \in 0..(Len(path) - 1) : b[i] = WithChild(Place(v, path, i), path[i + 1], b[i + 1])

LEMMA PlacedIs ==
    ASSUME NEW v, NEW path, Len(path) \in Nat, NEW leaf
    PROVE  \E b : b[0] = Placed(v, path, leaf) /\ PlacedAlong(b, v, path, leaf)
<1>0. PICK n \in Nat : n = Len(path)
    OBVIOUS
<1> DEFINE With(i, w) == WithChild(Place(v, path, i), path[i + 1], w)
           Is(f, k) == f = [i \in k..n |-> IF i = n THEN leaf ELSE With(i, f[i + 1])]
           S == {k \in Nat : \E f : Is(f, n - k)}
<1>1. 0 \in S
    <2> DEFINE f == [i \in n..n |-> leaf]
    <2>1. Is(f, n) /\ n - 0 = n
        <3> HIDE DEF With
        <3> QED OBVIOUS
    <2> HIDE DEF Is
    <2> QED BY <2>1
<1>2. ASSUME NEW k \in 0..(n - 1), k \in S PROVE k + 1 \in S
    <2>0. PICK m \in 1..n : m = n - k
        OBVIOUS
    <2>1. PICK f : Is(f, m)
        <3> HIDE DEF Is
        <3> QED BY <1>2, <2>0
    <2> HIDE DEF With
    <2> DEFINE h == [i \in (m - 1)..n |-> IF i >= m THEN f[i] ELSE With(i, f[m])]
    <2>2. \A i \in m..n : f[i] = IF i = n THEN leaf ELSE With(i, f[i + 1])
        BY <2>1
    <2>3. ASSUME NEW i \in (m - 1)..n
          PROVE  h[i] = IF i = n THEN leaf ELSE With(i, h[i + 1])
        <3>1. CASE i >= m
            <4>1. h[i] = f[i] /\ (i # n => h[i + 1] = f[i + 1]) /\ i \in m..n
                BY <3>1
            <4> HIDE DEF h
            <4> QED BY <2>2, <4>1
        <3>2. CASE i = m - 1
            <4>1. h[i] = With(i, f[m]) /\ i + 1 = m /\ h[m] = f[m] /\ i # n
                BY <3>2
            <4> HIDE DEF h
            <4> QED BY <4>1
        <3> QED BY <3>1, <3>2
    <2>4. h = [i \in (m - 1)..n |-> h[i]]
        OBVIOUS
    <2> HIDE DEF h
    <2>5. Is(h, m - 1)
        BY <2>3, <2>4, Zenon
    <2>6. n - (k + 1) = m - 1
        BY <2>0
    <2> HIDE DEF Is
    <2> QED BY <2>5, <2>6
<1> HIDE DEF S
<1>3. n \in S
    <2>1. \A k \in 0..(n - 1) : k \in S => k + 1 \in S
        BY <1>2
    <2>2. \A k \in 0..n : k \in S
        BY <1>1, <2>1, UpTo, Zenon
    <2> QED BY <2>2
<1> DEFINE b == CHOOSE f : Is(f, 0)
<1>4. Is(b, 0)
    <2>1. n - n = 0
        OBVIOUS
    <2> HIDE DEF Is
    <2>2. \E f : Is(f, 0)
        BY <1>3, <2>1 DEF S
    <2> QED BY <2>2
<1>5. Placed(v, path, leaf) = b[0]
    BY <1>0 DEF Placed
<1> HIDE DEF b
<1>6. b[n] = leaf /\ \A i \in 0..(n - 1) : b[i] = With(i, b[i + 1])
    <2> HIDE DEF With
    <2> QED BY <1>4
<1> QED BY <1>0, <1>5, <1>6 DEF PlacedAlong

(* A child of what was given a child.                                      *)
Kinds == {"array", "object", "null"}

LEMMA ChildOfWith ==
    ASSUME NEW v, v.kind \in Kinds, NEW key, NEW child
    PROVE  /\ Child(WithChild(v, key, child), key) = child
           /\ WithChild(v, key, child).kind = IF v.kind = "array" THEN "array" ELSE "object"
           /\ \A k : (IF v.kind = "array" THEN Index(k) # Index(key) ELSE k # key) =>
                 Child(WithChild(v, key, child), k) = Child(v, k)
<1>1. CASE v.kind = "array"
    BY <1>1 DEF Child, WithChild, WithItem, Item, Put, IsArray, IsNull, Array
<1>2. CASE v.kind = "object"
    BY <1>2 DEF Child, WithChild, WithMember, Member, Put, IsArray, IsObject, IsNull, Object
<1>3. CASE v.kind = "null"
    BY <1>3 DEF Child, WithChild, WithMember, Member, Put, IsArray, IsObject, IsNull, Object, Nothing, Null
<1> QED BY <1>1, <1>2, <1>3 DEF Kinds

LEMMA ChildOfNothing ==
    ASSUME NEW v, v.kind = "null" \/ v \in {EmptyArray, EmptyObject}, NEW key
    PROVE  Child(v, key) = Null
BY DEF Child, Item, Member, IsArray, IsObject, EmptyArray, EmptyObject, Array, Object, Nothing
LEMMA SharedReached ==
    ASSUME NEW v, NEW p, NEW q, Len(p) \in Nat, Len(q) \in Nat,
           NEW k \in Nat, k <= Len(p), k <= Len(q), \A j \in 1..k : p[j] = q[j]
    PROVE  \A i \in 0..k : Reached(v, p)[i] = Reached(v, q)[i]
<1> DEFINE S == {i \in 0..k : Reached(v, p)[i] = Reached(v, q)[i]}
<1>1. 0 \in S
    BY ReachedIs
<1>2. ASSUME NEW i \in 0..(k - 1), i \in S PROVE i + 1 \in S
    <2>1. i + 1 \in 1..k /\ i + 1 \in 1..Len(p) /\ i + 1 \in 1..Len(q) /\ (i + 1) - 1 = i
        OBVIOUS
    <2>2. /\ Reached(v, p)[i + 1] = Child(Reached(v, p)[(i + 1) - 1], p[i + 1])
          /\ Reached(v, q)[i + 1] = Child(Reached(v, q)[(i + 1) - 1], q[i + 1])
        BY <2>1, ReachedIs
    <2>3. p[i + 1] = q[i + 1] /\ Reached(v, p)[i] = Reached(v, q)[i]
        BY <1>2, <2>1
    <2>4. Reached(v, p)[i + 1] = Reached(v, q)[i + 1]
        BY <2>1, <2>2, <2>3
    <2> QED BY <2>1, <2>4
<1>3. \A i \in 0..(k - 1) : i \in S => i + 1 \in S
    BY <1>2
<1>4. \A i \in 0..k : i \in S
    <2> HIDE DEF S
    <2> QED BY <1>1, <1>3, UpTo, Zenon
<1> QED BY <1>4

(* Where names part, and the kinds of the places before.                   *)
KindAt(path, i) == IF ByIndex(path, i + 1) THEN "array" ELSE "object"

LEMMA KindsAgree ==
    ASSUME NEW p, NEW q, Len(p) \in Nat, Len(q) \in Nat, NEW f \in Nat \ {0}, PartAt(p, q, f)
    PROVE  /\ PartAt(q, p, f)
           /\ \A i \in 0..(f - 1) : KindAt(p, i) = KindAt(q, i)
<1>1. PartAt(q, p, f)
    BY DEF PartAt
<1>2. ASSUME NEW i \in 0..(f - 1) PROVE ByIndex(p, i + 1) = ByIndex(q, i + 1)
    <2>1. CASE i + 1 = f
        BY <2>1 DEF PartAt
    <2>2. CASE i + 1 # f
        <3>1. i + 1 \in 1..(f - 1) /\ i + 1 < Len(p) /\ i + 1 < Len(q)
            BY <2>2 DEF PartAt
        <3>2. p[i + 1] = q[i + 1]
            BY <3>1 DEF PartAt
        <3> QED BY <3>1, <3>2 DEF ByIndex
    <2> QED BY <2>1, <2>2
<1> QED BY <1>1, <1>2 DEF KindAt

LEMMA ChildOfPlace ==
    ASSUME NEW v, NEW path, NEW i, NEW key
    PROVE  Child(Place(v, path, i), key) = Child(Reached(v, path)[i], key)
<1>1. CASE i > 0 /\ IsNull(Reached(v, path)[i])
    <2>1. Place(v, path, i) \in {EmptyArray, EmptyObject}
        BY <1>1 DEF Place, NewPlace
    <2>2. Reached(v, path)[i].kind = "null"
        BY <1>1 DEF IsNull
    <2> QED BY <2>1, <2>2, ChildOfNothing
<1>2. CASE ~(i > 0 /\ IsNull(Reached(v, path)[i]))
    BY <1>2 DEF Place
<1> QED BY <1>1, <1>2

(* All places of a path can be gone through.                               *)
Open(v, path) ==
    \A i \in 0..(Len(path) - 1) :
        /\ Place(v, path, i).kind \in Kinds
        /\ Place(v, path, i).kind = "array" <=> ByIndex(path, i + 1)

(* u is v once a leaf is put at the end of the path.                       *)
IsPlaced(u, v, path, leaf) == u = Placed(v, path, leaf)
OnItsWay(u, v, path, leaf) ==
    /\ Reached(u, path)[Len(path)] = leaf
    /\ \A i \in 0..(Len(path) - 1) : Reached(u, path)[i].kind = KindAt(path, i)
    /\ \A i \in 0..(Len(path) - 1) : \E w :
          Reached(u, path)[i] = WithChild(Place(v, path, i), path[i + 1], w)
OffItsWay(u, v, path, f) ==
    /\ \A i \in 0..(f - 1) : Reached(u, path)[i].kind = KindAt(path, i)
    /\ \A i \in f..Len(path) : Reached(u, path)[i] = Reached(v, path)[i]

LEMMA AlongPath ==
    ASSUME NEW v, NEW path, Len(path) \in Nat, NEW leaf, Open(v, path),
           NEW u, IsPlaced(u, v, path, leaf)
    PROVE  OnItsWay(u, v, path, leaf)
<1>0. PICK n \in Nat : n = Len(path)
    OBVIOUS
<1>1. PICK b : b[0] = Placed(v, path, leaf) /\ PlacedAlong(b, v, path, leaf)
    BY PlacedIs
<1>2. PICK r : r = Reached(u, path)
    OBVIOUS
<1>3. r[0] = b[0] /\ \A i \in 1..n : r[i] = Child(r[i - 1], path[i])
    BY <1>0, <1>1, <1>2, ReachedIs DEF IsPlaced
<1>4. \A i \in 0..(n - 1) : b[i] = WithChild(Place(v, path, i), path[i + 1], b[i + 1])
    BY <1>0, <1>1 DEF PlacedAlong
<1> DEFINE S == {i \in 0..n : r[i] = b[i]}
<1>5. 0 \in S
    BY <1>3
<1>6. ASSUME NEW i \in 0..(n - 1), i \in S PROVE i + 1 \in S
    <2>1. i + 1 \in 1..n /\ (i + 1) - 1 = i
        OBVIOUS
    <2>2. r[i + 1] = Child(b[i], path[i + 1])
        BY <1>3, <1>6, <2>1
    <2>3. Place(v, path, i).kind \in Kinds
        BY <1>0 DEF Open
    <2>4. Child(b[i], path[i + 1]) = b[i + 1]
        BY <1>4, <2>3, ChildOfWith
    <2> QED BY <2>1, <2>2, <2>4
<1>7. \A i \in 0..n : r[i] = b[i]
    <2>1. \A i \in 0..(n - 1) : i \in S => i + 1 \in S
        BY <1>6
    <2>2. \A i \in 0..n : i \in S
        <3> HIDE DEF S
        <3> QED BY <1>5, <2>1, UpTo, Zenon
    <2> QED BY <2>2
<1>8. ASSUME NEW i \in 0..(n - 1)
      PROVE  /\ r[i] = WithChild(Place(v, path, i), path[i + 1], b[i + 1])
             /\ r[i].kind = KindAt(path, i)
    <2>1. r[i] = WithChild(Place(v, path, i), path[i + 1], b[i + 1])
        BY <1>4, <1>7
    <2>2. /\ Place(v, path, i).kind \in Kinds
          /\ Place(v, path, i).kind = "array" <=> ByIndex(path, i + 1)
        BY <1>0 DEF Open
    <2>3. r[i].kind = IF Place(v, path, i).kind = "array" THEN "array" ELSE "object"
        BY <2>1, <2>2, ChildOfWith
    <2> QED BY <2>1, <2>2, <2>3 DEF KindAt
<1>9. r[n] = leaf
    BY <1>0, <1>1, <1>7 DEF PlacedAlong
<1> QED BY <1>0, <1>2, <1>8, <1>9 DEF OnItsWay

(* A path that parts from it reaches the same as before from there on.     *)
LEMMA OffPath ==
    ASSUME NEW v, NEW p, NEW q, Len(p) \in Nat, Len(q) \in Nat, NEW leaf, Open(v, q),
           NEW f \in Nat \ {0}, PartAt(p, q, f), NEW u, IsPlaced(u, v, q, leaf)
    PROVE  OffItsWay(u, v, p, f)
<1>0. PICK n \in Nat : n = Len(p)
    OBVIOUS
<1>1. OnItsWay(u, v, q, leaf)
    BY AlongPath
<1>2. PICK r : r = Reached(u, p)
    OBVIOUS
<1>3. /\ f <= n /\ f <= Len(q) /\ f - 1 \in Nat /\ f - 1 <= Len(p) /\ f - 1 <= Len(q)
      /\ \A j \in 1..(f - 1) : p[j] = q[j]
    BY <1>0 DEF PartAt
<1>4. \A i \in 0..(f - 1) : r[i] = Reached(u, q)[i] /\ Reached(v, p)[i] = Reached(v, q)[i]
    <2>1. \A i \in 0..(f - 1) : Reached(u, p)[i] = Reached(u, q)[i]
        BY <1>3, SharedReached
    <2>2. \A i \in 0..(f - 1) : Reached(v, p)[i] = Reached(v, q)[i]
        BY <1>3, SharedReached
    <2> QED BY <1>2, <2>1, <2>2
<1>5. ASSUME NEW i \in 0..(f - 1) PROVE r[i].kind = KindAt(p, i)
    <2>1. i \in 0..(Len(q) - 1)
        BY <1>3
    <2>2. Reached(u, q)[i].kind = KindAt(q, i)
        BY <2>1, <1>1 DEF OnItsWay
    <2> QED BY <1>4, <2>2, KindsAgree
<1>6. r[f] = Reached(v, p)[f]
    <2>1. PICK e \in 0..(Len(q) - 1) : e = f - 1 /\ e + 1 = f /\ e \in 0..(f - 1)
        BY <1>3
    <2>2. PICK w : Reached(u, q)[e] = WithChild(Place(v, q, e), q[f], w)
        <3>1. \A i \in 0..(Len(q) - 1) : \E w :
                 Reached(u, q)[i] = WithChild(Place(v, q, i), q[i + 1], w)
            BY <1>1 DEF OnItsWay
        <3>2. \E w : Reached(u, q)[e] = WithChild(Place(v, q, e), q[e + 1], w)
            BY <3>1
        <3> QED BY <2>1, <3>2
    <2>3. /\ Place(v, q, e).kind \in Kinds
          /\ Place(v, q, e).kind = "array" <=> ByIndex(q, f)
        BY <2>1 DEF Open
    <2>4. IF Place(v, q, e).kind = "array" THEN Index(p[f]) # Index(q[f]) ELSE p[f] # q[f]
        BY <2>3 DEF PartAt
    <2>5. Child(Reached(u, q)[e], p[f]) = Child(Place(v, q, e), p[f])
        BY <2>2, <2>3, <2>4, ChildOfWith
    <2>6. Child(Place(v, q, e), p[f]) = Child(Reached(v, q)[e], p[f])
        BY ChildOfPlace
    <2>7. r[f] = Child(r[e], p[f]) /\ Reached(v, p)[f] = Child(Reached(v, p)[e], p[f])
        <3>1. f \in 1..Len(p)
            BY <1>0, <1>3
        <3> QED BY <1>2, <2>1, <3>1, ReachedIs
    <2>8. r[e] = Reached(u, q)[e] /\ Reached(v, p)[e] = Reached(v, q)[e]
        BY <1>4, <2>1
    <2> QED BY <2>5, <2>6, <2>7, <2>8
<1> DEFINE S == {k \in 0..(n - f) : r[f + k] = Reached(v, p)[f + k]}
<1>7. 0 \in S
    BY <1>3, <1>6
<1>8. ASSUME NEW k \in 0..((n - f) - 1), k \in S PROVE k + 1 \in S
    <2>1. PICK i \in 1..Len(p) : i = f + (k + 1) /\ i - 1 = f + k
        BY <1>0
    <2>2. r[i] = Child(r[i - 1], p[i]) /\ Reached(v, p)[i] = Child(Reached(v, p)[i - 1], p[i])
        BY <1>2, ReachedIs
    <2>3. r[i - 1] = Reached(v, p)[i - 1]
        BY <1>8, <2>1
    <2>4. r[f + (k + 1)] = Reached(v, p)[f + (k + 1)]
        BY <2>1, <2>2, <2>3
    <2>5. k + 1 \in 0..(n - f)
        BY <1>3
    <2> QED BY <2>4, <2>5
<1>9. \A i \in f..n : r[i] = Reached(v, p)[i]
    <2>1. n - f \in Nat /\ \A k \in 0..((n - f) - 1) : k \in S => k + 1 \in S
        BY <1>3, <1>8
    <2>2. \A k \in 0..(n - f) : k \in S
        <3> HIDE DEF S
        <3> QED BY <1>7, <2>1, UpTo, Zenon
    <2>3. ASSUME NEW i \in f..n PROVE i - f \in 0..(n - f) /\ f + (i - f) = i
        BY <1>3
    <2> QED BY <2>2, <2>3
<1> QED BY <1>0, <1>2, <1>5, <1>9 DEF OffItsWay
-----------------------------------------------------------------------------
(* The response being printed.  What has been placed stands, and the rest  *)
(* of every other path is still free.                                      *)
Done == DOMAIN hash \ unplaced
Stands(n) ==
    /\ \A i \in 0..(Len(Paths[n]) - 1) :
          Reached(json, Paths[n])[i].kind = KindAt(Paths[n], i)
    /\ Reached(json, Paths[n])[Len(Paths[n])] = JsonOf(hash[n])
Shared(p, q, i) == i <= Len(p) /\ \A k \in 1..i : p[k] = q[k]
IsFree(n) ==
    \A i \in 0..Len(Paths[n]) :
        (\A m \in Done : ~Shared(Paths[m], Paths[n], i)) => Reached(json, Paths[n])[i] = Null

TreeInv ==
    /\ hash \in Responses /\ unplaced \subseteq DOMAIN hash
    /\ OneTree(DOMAIN hash) =>
          /\ phase # "thrown"
          /\ \A n \in Done : Stands(n)
          /\ \A n \in unplaced : IsFree(n)

LEMMA PathsAre ==
    ASSUME TreeInv, NEW n \in DOMAIN hash
    PROVE  Len(Paths[n]) \in Nat \ {0}
BY OutputAssumption DEF TreeInv

LEMMA TheyPart ==
    ASSUME TreeInv, OneTree(DOMAIN hash), NEW m \in DOMAIN hash, NEW n \in DOMAIN hash, m # n
    PROVE  \E f \in Nat \ {0} : PartAt(Paths[m], Paths[n], f)
BY PathsAre DEF OneTree

(* Every place on the way of a name that is not placed yet can be entered. *)
LEMMA WayIsOpen ==
    ASSUME TreeInv, OneTree(DOMAIN hash), NEW n \in unplaced
    PROVE  Open(json, Paths[n])
<1> SUFFICES ASSUME NEW i \in 0..(Len(Paths[n]) - 1)
             PROVE  /\ Place(json, Paths[n], i).kind \in Kinds
                    /\ Place(json, Paths[n], i).kind = "array" <=> ByIndex(Paths[n], i + 1)
    BY DEF Open
<1>0. n \in DOMAIN hash /\ Len(Paths[n]) \in Nat \ {0}
    BY PathsAre DEF TreeInv
<1>1. CASE \E m \in Done : Shared(Paths[m], Paths[n], i)
    <2>1. PICK m \in Done : Shared(Paths[m], Paths[n], i)
        BY <1>1
    <2>2. m \in DOMAIN hash /\ m # n /\ Len(Paths[m]) \in Nat \ {0}
        BY PathsAre DEF Done
    <2>3. PICK f \in Nat \ {0} : PartAt(Paths[m], Paths[n], f)
        BY <1>0, <2>2, TheyPart
    <2>4. i < f
        <3>1. CASE f <= i
            <4>1. f \in 1..i
                BY <3>1
            <4> QED BY <2>1, <2>3, <4>1 DEF Shared, PartAt
        <3> QED BY <1>0, <3>1
    <2>5. i < Len(Paths[m]) /\ i \in 0..(f - 1) /\ i \in 0..(Len(Paths[m]) - 1)
        BY <1>0, <2>2, <2>3, <2>4 DEF PartAt
    <2>6. Reached(json, Paths[n])[i] = Reached(json, Paths[m])[i]
        <3>1. PICK p, q : p = Paths[n] /\ q = Paths[m]
            OBVIOUS
        <3>2. /\ Len(p) \in Nat /\ Len(q) \in Nat /\ i \in Nat /\ i <= Len(p) /\ i <= Len(q)
              /\ \A k \in 1..i : p[k] = q[k]
            BY <1>0, <2>1, <2>2, <2>5, <3>1 DEF Shared
        <3>3. \A k \in 0..i : Reached(json, p)[k] = Reached(json, q)[k]
            BY <3>2, SharedReached
        <3>4. i \in 0..i
            BY <3>2
        <3> QED BY <3>1, <3>3, <3>4
    <2>7. Reached(json, Paths[m])[i].kind = KindAt(Paths[m], i)
        BY <2>5 DEF TreeInv, Stands
    <2>8. KindAt(Paths[m], i) = KindAt(Paths[n], i)
        BY <1>0, <2>2, <2>3, <2>5, KindsAgree
    <2>9. Reached(json, Paths[n])[i].kind = KindAt(Paths[n], i)
        BY <2>6, <2>7, <2>8
    <2>10. Place(json, Paths[n], i) = Reached(json, Paths[n])[i]
        BY <2>9 DEF Place, IsNull, KindAt
    <2> QED BY <2>9, <2>10 DEF KindAt, Kinds
<1>2. CASE \A m \in Done : ~Shared(Paths[m], Paths[n], i)
    <2>1. Reached(json, Paths[n])[i] = Null
        <3>1. i \in 0..Len(Paths[n])
            BY <1>0
        <3> QED BY <1>2, <3>1 DEF TreeInv, IsFree
    <2>2. CASE i = 0
        <3>1. Place(json, Paths[n], i) = Null /\ ~ByIndex(Paths[n], i + 1)
            BY <2>1, <2>2 DEF Place, ByIndex
        <3> QED BY <3>1 DEF Null, Kinds
    <2>3. CASE i > 0
        <3>1. Place(json, Paths[n], i) = NewPlace(Paths[n], i)
            BY <2>1, <2>3 DEF Place, IsNull, Null
        <3>2. NextIsIndex(Paths[n], i) <=> ByIndex(Paths[n], i + 1)
            <4>1. i < Len(Paths[n]) - 1 <=> i + 1 > 1 /\ i + 1 < Len(Paths[n])
                BY <1>0, <2>3
            <4> QED BY <4>1 DEF NextIsIndex, ByIndex
        <3> QED BY <3>1, <3>2 DEF NewPlace, EmptyArray, EmptyObject, Array, Object, Kinds
    <2> QED BY <1>0, <2>2, <2>3
<1> QED BY <1>1, <1>2

(* So printing does not fail.                                              *)
LEMMA OpenWayHolds ==
    ASSUME NEW path, Len(path) \in Nat \ {0}, NEW v, Open(v, path)
    PROVE  ~Fails(v, path)
<1> SUFFICES ASSUME NEW i \in 0..(Len(path) - 1)
             PROVE  TakesMembers(Place(v, path, i))
                    \/ (IsArray(Place(v, path, i)) /\ i < Len(path) - 1)
    BY DEF Fails
<1>1. /\ Place(v, path, i).kind \in Kinds
      /\ Place(v, path, i).kind = "array" <=> ByIndex(path, i + 1)
    BY DEF Open
<1>2. CASE Place(v, path, i).kind = "array"
    <2>1. i + 1 < Len(path)
        BY <1>1, <1>2 DEF ByIndex
    <2> QED BY <1>2, <2>1 DEF IsArray
<1>3. CASE Place(v, path, i).kind # "array"
    BY <1>1, <1>3 DEF Kinds, TakesMembers
<1> QED BY <1>2, <1>3

LEMMA PlacingKeepsTree ==
    ASSUME TreeInv, OneTree(DOMAIN hash), NEW n \in unplaced, hash' = hash,
           json' = Placed(json, Paths[n], JsonOf(hash[n])), unplaced' = unplaced \ {n}
    PROVE  /\ \A m \in Done' : Stands(m)'
           /\ \A m \in unplaced' : IsFree(m)'
<1>1. /\ n \in DOMAIN hash /\ Len(Paths[n]) \in Nat \ {0} /\ Open(json, Paths[n])
    BY PathsAre, WayIsOpen DEF TreeInv
<1>2. Stands(n)'
    <2>1. PICK q, v, w, leaf : q = Paths[n] /\ v = json /\ w = json' /\ leaf = JsonOf(hash[n])
        OBVIOUS
    <2>2. Len(q) \in Nat /\ Open(v, q) /\ IsPlaced(w, v, q, leaf)
        BY <1>1, <2>1 DEF IsPlaced
    <2>3. OnItsWay(w, v, q, leaf)
        BY <2>2, AlongPath
    <2> QED BY <2>1, <2>3 DEF Stands, OnItsWay
<1>3. ASSUME NEW m \in DOMAIN hash, m # n
      PROVE  \E f \in Nat \ {0} :
                /\ PartAt(Paths[m], Paths[n], f)
                /\ \A i \in 0..(f - 1) : Reached(json', Paths[m])[i].kind = KindAt(Paths[m], i)
                /\ \A i \in f..Len(Paths[m]) :
                      Reached(json', Paths[m])[i] = Reached(json, Paths[m])[i]
    <2>1. PICK f \in Nat \ {0} : PartAt(Paths[m], Paths[n], f)
        BY <1>1, <1>3, TheyPart
    <2>2. PICK p, q, v, w, leaf :
             /\ p = Paths[m] /\ q = Paths[n] /\ v = json /\ w = json' /\ leaf = JsonOf(hash[n])
        OBVIOUS
    <2>3. Len(p) \in Nat /\ Len(q) \in Nat /\ Open(v, q) /\ PartAt(p, q, f) /\ IsPlaced(w, v, q, leaf)
        BY <1>1, <2>1, <2>2, PathsAre DEF IsPlaced
    <2>4. OffItsWay(w, v, p, f)
        BY <2>3, OffPath
    <2> QED BY <2>1, <2>2, <2>4 DEF OffItsWay
<1>4. ASSUME NEW m \in Done', m # n PROVE Stands(m)'
    <2>1. m \in DOMAIN hash /\ m \in Done /\ Len(Paths[m]) \in Nat \ {0}
        BY <1>4, PathsAre DEF Done
    <2>2. PICK f \in Nat \ {0} :
                /\ PartAt(Paths[m], Paths[n], f)
                /\ \A i \in 0..(f - 1) : Reached(json', Paths[m])[i].kind = KindAt(Paths[m], i)
                /\ \A i \in f..Len(Paths[m]) :
                      Reached(json', Paths[m])[i] = Reached(json, Paths[m])[i]
        BY <1>3, <1>4, <2>1
    <2>3. f <= Len(Paths[m])
        BY <2>2 DEF PartAt
    <2>4. /\ \A i \in 0..(Len(Paths[m]) - 1) :
                Reached(json, Paths[m])[i].kind = KindAt(Paths[m], i)
          /\ Reached(json, Paths[m])[Len(Paths[m])] = JsonOf(hash[m])
        BY <2>1 DEF TreeInv, Stands
    <2>5. ASSUME NEW i \in 0..(Len(Paths[m]) - 1)
          PROVE  Reached(json', Paths[m])[i].kind = KindAt(Paths[m], i)
        <3>1. i \in 0..(f - 1) \/ i \in f..Len(Paths[m])
            BY <2>1
        <3> QED BY <2>2, <2>4, <3>1
    <2>6. Len(Paths[m]) \in f..Len(Paths[m])
        BY <2>1, <2>3
    <2> QED BY <2>2, <2>4, <2>5, <2>6 DEF Stands
<1>5. ASSUME NEW m \in unplaced' PROVE IsFree(m)'
    <2>1. m \in DOMAIN hash /\ m \in unplaced /\ m # n /\ Len(Paths[m]) \in Nat \ {0}
          /\ Done' = Done \cup {n}
        BY <1>1, PathsAre DEF TreeInv, Done
    <2>2. PICK f \in Nat \ {0} :
                /\ PartAt(Paths[m], Paths[n], f)
                /\ \A i \in f..Len(Paths[m]) :
                      Reached(json', Paths[m])[i] = Reached(json, Paths[m])[i]
        BY <1>3, <2>1
    <2>3. ASSUME NEW i \in 0..Len(Paths[m]),
                 \A k \in Done' : ~Shared(Paths[k], Paths[m], i)
          PROVE  Reached(json', Paths[m])[i] = Null
        <3>1. ~Shared(Paths[n], Paths[m], i)
            BY <2>1, <2>3
        <3>2. i >= f
            <4>1. CASE i < f
                <5>1. i <= Len(Paths[n]) /\ \A k \in 1..i : k \in 1..(f - 1)
                    BY <1>1, <2>2, <4>1 DEF PartAt
                <5> QED BY <2>2, <3>1, <5>1 DEF PartAt, Shared
            <4> QED BY <2>1, <4>1
        <3>3. Reached(json, Paths[m])[i] = Null
            BY <2>1, <2>3 DEF TreeInv, IsFree
        <3>4. i \in f..Len(Paths[m])
            BY <2>1, <3>2
        <3> QED BY <2>2, <3>3, <3>4
    <2> QED BY <2>3 DEF IsFree
<1> QED BY <1>2, <1>4, <1>5

LEMMA TreeInvHolds == OutputSpec => []TreeInv
<1>1. OutputInit => TreeInv
    <2> SUFFICES ASSUME OutputInit PROVE TreeInv
        OBVIOUS
    <2>1. Done = {} /\ hash \in Responses /\ unplaced \subseteq DOMAIN hash
        BY DEF OutputInit, Done
    <2>2. ASSUME NEW n \in unplaced, NEW i \in 0..Len(Paths[n])
          PROVE  Reached(json, Paths[n])[i] = Null
        <3>1. Len(Paths[n]) \in Nat \ {0}
            BY <2>1, OutputAssumption
        <3> DEFINE S == {k \in 0..Len(Paths[n]) : Reached(json, Paths[n])[k] = Null}
        <3>2. 0 \in S
            BY <3>1, ReachedIs DEF OutputInit
        <3>3. ASSUME NEW k \in 0..(Len(Paths[n]) - 1), k \in S PROVE k + 1 \in S
            <4>1. k + 1 \in 1..Len(Paths[n]) /\ (k + 1) - 1 = k
                BY <3>1
            <4>2. Reached(json, Paths[n])[k + 1] = Child(Reached(json, Paths[n])[k], Paths[n][k + 1])
                <5>1. Len(Paths[n]) \in Nat
                    BY <3>1
                <5> QED BY <4>1, <5>1, ReachedIs
            <4>3. Reached(json, Paths[n])[k].kind = "null"
                BY <3>3 DEF Null
            <4>4. Reached(json, Paths[n])[k + 1] = Null
                BY <4>2, <4>3, ChildOfNothing
            <4> QED BY <4>1, <4>4
        <3>4. i \in S
            <4>1. Len(Paths[n]) \in Nat
                BY <3>1
            <4>2. \A k \in 0..(Len(Paths[n]) - 1) : k \in S => k + 1 \in S
                BY <3>3
            <4> HIDE DEF S
            <4>3. \A k \in 0..Len(Paths[n]) : k \in S
                BY <3>2, <4>1, <4>2, UpTo, Zenon
            <4> QED BY <4>3
        <3> QED BY <3>4
    <2> QED BY <2>1, <2>2 DEF OutputInit, TreeInv, IsFree
<1>2. TreeInv /\ [PlaceResult]_outputVars => TreeInv'
    <2> SUFFICES ASSUME TreeInv, [PlaceResult]_outputVars PROVE TreeInv'
        OBVIOUS
    <2>1. CASE PlaceResult
        <3>1. PICK n \in unplaced :
                 IF Fails(json, Paths[n]) THEN phase' = "thrown" /\ UNCHANGED <<unplaced, json>>
                 ELSE /\ json' = Placed(json, Paths[n], JsonOf(hash[n]))
                      /\ unplaced' = unplaced \ {n}
                      /\ UNCHANGED phase
            BY <2>1 DEF PlaceResult
        <3>2. hash' = hash /\ hash' \in Responses /\ unplaced' \subseteq DOMAIN hash'
            BY <2>1, <3>1 DEF PlaceResult, TreeInv
        <3>3. ASSUME OneTree(DOMAIN hash)
              PROVE  /\ phase' # "thrown"
                     /\ \A m \in Done' : Stands(m)'
                     /\ \A m \in unplaced' : IsFree(m)'
            <4>1. n \in DOMAIN hash /\ Len(Paths[n]) \in Nat \ {0}
                BY PathsAre DEF TreeInv
            <4>2. ~Fails(json, Paths[n])
                BY <3>3, <4>1, WayIsOpen, OpenWayHolds
            <4>3. /\ json' = Placed(json, Paths[n], JsonOf(hash[n]))
                  /\ unplaced' = unplaced \ {n} /\ phase' = phase
                BY <3>1, <4>2
            <4>4. /\ \A m \in Done' : Stands(m)'
                  /\ \A m \in unplaced' : IsFree(m)'
                BY <3>2, <3>3, <4>3, PlacingKeepsTree
            <4>5. phase # "thrown"
                BY <3>3 DEF TreeInv
            <4> QED BY <4>3, <4>4, <4>5
        <3>4. OneTree(DOMAIN hash)' => OneTree(DOMAIN hash)
            BY <3>2
        <3> QED BY <3>2, <3>3, <3>4 DEF TreeInv
    <2>2. CASE UNCHANGED outputVars
        BY <2>2 DEF outputVars, TreeInv, Done, Stands, IsFree, OneTree
    <2> QED BY <2>1, <2>2
<1> QED BY <1>1, <1>2, PTL DEF OutputSpec

(* ResponseToJson: if the names of the results make one tree, then in      *)
(* every order of the hash printing does not fail, and no result placed    *)
(* later takes away what is found under the name of another.               *)
THEOREM ResultsArePlaced == OutputSpec => []ResultsPlaced
<1>1. TreeInv => ResultsPlaced
    BY DEF TreeInv, ResultsPlaced, Done, Stands, Found
<1> QED BY <1>1, TreeInvHolds, PTL

-----------------------------------------------------------------------------
(* The grammar.  The SMT solver does not take every token for the name of  *)
(* a string, so the tokens have names of their own, and what is said with  *)
(* them is left to Zenon.                                                  *)
OpenArray == "["
OpenObject == "{"
CloseArray == "]"
CloseObject == "}"
Comma == ","
Colon == ":"
Plain == {"scalar", "string"}

LEMMA TokensDiffer ==
    /\ Closing("array") = CloseArray /\ Closing("object") = CloseObject
    /\ CloseArray # Comma /\ CloseObject # Comma
    /\ OpenArray # "end" /\ OpenObject # "end" /\ CloseArray # "end" /\ CloseObject # "end"
    /\ Comma # "end" /\ Colon # "end" /\ "end" \notin Plain
    /\ OpenArray \notin Plain /\ OpenObject \notin Plain /\ OpenArray # OpenObject
BY Zenon DEF Closing, OpenArray, OpenObject, CloseArray, CloseObject, Comma, Colon, Plain

(* L is the number of tokens, and the first from i on that is no comment   *)
(* is at s: predicates, as the provers would put the terms in their place. *)
Long(ts, L) == L = Len(ts)
Skips(ts, i, s) == s = Skip(ts, i)

LEMMA MoreClosed ==
    ASSUME NEW P, NEW ts, NEW kind, NEW i, NEW n, NEW f, NEW s, Skips(ts, i, s),
           TypeIn(ts, s) = Closing(kind)
    PROVE  MoreEntries(P, ts, kind, i, n, f) = {<<f, s + 1>>}
BY Zenon DEF MoreEntries, Skips

LEMMA MoreFollow ==
    ASSUME NEW P, NEW ts, NEW kind, NEW i, NEW n, NEW f, NEW s, Skips(ts, i, s),
           TypeIn(ts, s) = Comma, TypeIn(ts, s) # Closing(kind)
    PROVE  MoreEntries(P, ts, kind, i, n, f)
              = {<<Over(x[1], f), x[2]>> : x \in P[<<kind, s + 1, n>>]}
BY Zenon DEF MoreEntries, Skips, Comma

LEMMA MoreMissing ==
    ASSUME NEW P, NEW ts, NEW kind, NEW i, NEW n, NEW f, NEW s, Skips(ts, i, s),
           TypeIn(ts, s) # Comma, TypeIn(ts, s) # Closing(kind)
    PROVE  MoreEntries(P, ts, kind, i, n, f) = {}
BY Zenon DEF MoreEntries, Skips, Comma

LEMMA ValuePlain ==
    ASSUME NEW P, NEW ts, NEW i, NEW s, Skips(ts, i, s), TypeIn(ts, s) \in Plain
    PROVE  ValueAt(P, ts, i) = {<<ts[s].value, s + 1>>}
BY Zenon DEF ValueAt, Plain, Skips

LEMMA ValueNoItems ==
    ASSUME NEW P, NEW ts, NEW i, NEW s, Skips(ts, i, s), NEW next, Skips(ts, s + 1, next),
           TypeIn(ts, s) = OpenArray, TypeIn(ts, next) = CloseArray
    PROVE  ValueAt(P, ts, i) = {<<EmptyArray, next + 1>>}
BY Zenon DEF Skips, ValueAt, OpenArray, CloseArray

LEMMA ValueItems ==
    ASSUME NEW P, NEW ts, NEW i, NEW s, Skips(ts, i, s), NEW next, Skips(ts, s + 1, next),
           TypeIn(ts, s) = OpenArray, TypeIn(ts, next) # CloseArray
    PROVE  ValueAt(P, ts, i) = {<<Array(x[1]), x[2]>> : x \in P[<<"array", s + 1, 0>>]}
BY Zenon DEF Skips, ValueAt, OpenArray, CloseArray

LEMMA ValueNoMembers ==
    ASSUME NEW P, NEW ts, NEW i, NEW s, Skips(ts, i, s), NEW next, Skips(ts, s + 1, next),
           TypeIn(ts, s) = OpenObject, TypeIn(ts, next) = CloseObject
    PROVE  ValueAt(P, ts, i) = {<<EmptyObject, next + 1>>}
BY Zenon DEF Skips, ValueAt, OpenObject, CloseObject

LEMMA ValueMembers ==
    ASSUME NEW P, NEW ts, NEW i, NEW s, Skips(ts, i, s), NEW next, Skips(ts, s + 1, next),
           TypeIn(ts, s) = OpenObject, TypeIn(ts, next) # CloseObject
    PROVE  ValueAt(P, ts, i) = {<<Object(x[1]), x[2]>> : x \in P[<<"object", s + 1, 0>>]}
BY Zenon DEF Skips, ValueAt, OpenObject, CloseObject

LEMMA ValueMissing ==
    ASSUME NEW P, NEW ts, NEW i, NEW s, Skips(ts, i, s),
           TypeIn(ts, s) \notin Plain, TypeIn(ts, s) \notin {OpenArray, OpenObject}
    PROVE  ValueAt(P, ts, i) = {}
<1> DEFINE open == TypeIn(ts, s)
<1>1. open \notin Plain => open \notin {"scalar", "string"}
    BY DEF Plain
<1> QED BY <1>1, Zenon DEF Skips, ValueAt, OpenArray, OpenObject

(* An entry, with what is read at j, and those after it.                  *)
Followed(P, ts, kind, n, name, j) ==
    UNION {MoreEntries(P, ts, kind, v[2], n, Put(Nothing, name, v[1])) : v \in ValueAt(P, ts, j)}

LEMMA MembersNamed ==
    ASSUME NEW P, NEW ts, NEW i, NEW s, Skips(ts, i, s), NEW colon, Skips(ts, s + 1, colon),
           TypeIn(ts, s) = "string", TypeIn(ts, colon) = Colon
    PROVE  MembersAt(P, ts, i) =
              Followed(P, ts, "object", 0, ts[s].value.text, colon + 1)
BY Zenon DEF Skips, MembersAt, Colon, Followed

LEMMA MembersMissing ==
    ASSUME NEW P, NEW ts, NEW i, NEW s, Skips(ts, i, s), NEW colon, Skips(ts, s + 1, colon),
           ~(TypeIn(ts, s) = "string" /\ TypeIn(ts, colon) = Colon)
    PROVE  MembersAt(P, ts, i) = {}
BY Zenon DEF Skips, MembersAt, Colon

LEMMA SkipIs ==
    ASSUME NEW ts, NEW L \in Nat, Long(ts, L), NEW i \in 1..(L + 1)
    PROVE  \E s \in i..(L + 1) :
              /\ Skips(ts, i, s)
              /\ TypeIn(ts, s) # "comment"
              /\ TypeIn(ts, i) # "comment" => s = i
              /\ TypeIn(ts, s) # "end" => s \in i..L
<1> DEFINE T == {j \in i..(L + 1) : TypeIn(ts, j) # "comment"}
<1>1. T \in SUBSET Nat /\ L + 1 \in T
    BY DEF TypeIn, Long
<1>2. PICK m \in T : \A k \in T : m <= k
    BY <1>1, LeastOf
<1>3. /\ m \in i..(L + 1)
      /\ TypeIn(ts, m) # "comment"
      /\ \A k \in i..(m - 1) : TypeIn(ts, k) = "comment"
    BY <1>1, <1>2
<1>4. PICK s : Skips(ts, i, s)
    BY DEF Skips
<1>5. /\ s \in i..(L + 1)
      /\ TypeIn(ts, s) # "comment"
      /\ \A k \in i..(s - 1) : TypeIn(ts, k) = "comment"
    BY <1>3, <1>4 DEF Skips, Skip, Long
<1>6. ASSUME TypeIn(ts, i) # "comment" PROVE s = i
    <2>1. i \notin i..(s - 1)
        BY <1>5, <1>6
    <2> QED BY <1>5, <2>1
<1>7. TypeIn(ts, s) # "end" => s \in i..L
    BY <1>5 DEF TypeIn, Long
<1> QED BY <1>4, <1>5, <1>6, <1>7

(* What is read at a position depends on what is behind it only, and ends  *)
(* behind it.                                                              *)
Nesting == {"array", "object"}
Behind(X, L, i) == \A x \in X : x[2] \in (i + 1)..(L + 1)
EndBehind(P, L, i) ==
    \A kind \in Nesting, j \in (i + 1)..(L + 1), n \in Nat : Behind(P[<<kind, j, n>>], L, j)
Agree(P, Q, L, i) ==
    \A kind \in Nesting, j \in (i + 1)..(L + 1), n \in Nat :
        P[<<kind, j, n>>] = Q[<<kind, j, n>>]

LEMMA ClosingIs ==
    ASSUME NEW kind \in Nesting
    PROVE  Closing(kind) # "end" /\ Closing(kind) # Comma
BY TokensDiffer, Zenon DEF Nesting

LEMMA BehindLater ==
    ASSUME NEW P, NEW Q, NEW L \in Nat, NEW i \in 1..(L + 1), NEW j \in i..(L + 1),
           EndBehind(P, L, i), Agree(P, Q, L, i)
    PROVE  EndBehind(P, L, j) /\ Agree(P, Q, L, j)
<1>1. \A k \in (j + 1)..(L + 1) : k \in (i + 1)..(L + 1)
    OBVIOUS
<1> QED BY <1>1, Zenon DEF EndBehind, Agree

LEMMA RowIs ==
    ASSUME NEW P, NEW Q, NEW L \in Nat, NEW i \in 1..(L + 1), NEW j \in (i + 1)..(L + 1),
           NEW kind \in Nesting, NEW n \in Nat,
           EndBehind(P, L, i), Agree(P, Q, L, i)
    PROVE  /\ P[<<kind, j, n>>] = Q[<<kind, j, n>>]
           /\ \A x \in P[<<kind, j, n>>] : x[2] \in (i + 1)..(L + 1)
<1> DEFINE p == <<kind, j, n>>
<1>1. P[p] = Q[p] /\ Behind(P[p], L, j)
    BY DEF EndBehind, Agree
<1> HIDE DEF p
<1>2. \A x \in P[p] : x[2] \in (i + 1)..(L + 1)
    BY <1>1 DEF Behind
<1> QED BY <1>1, <1>2 DEF p

LEMMA MoreIs ==
    ASSUME NEW P, NEW Q, NEW ts, NEW L \in Nat, Long(ts, L), NEW i \in 1..(L + 1),
           NEW kind \in Nesting, NEW n \in Nat, NEW f,
           EndBehind(P, L, i), Agree(P, Q, L, i)
    PROVE  /\ Behind(MoreEntries(P, ts, kind, i, n, f), L, i)
           /\ MoreEntries(P, ts, kind, i, n, f) = MoreEntries(Q, ts, kind, i, n, f)
<1>1. PICK s \in i..(L + 1) : Skips(ts, i, s) /\ (TypeIn(ts, s) # "end" => s \in i..L)
    BY SkipIs
<1>2. CASE TypeIn(ts, s) = Closing(kind)
  <2>1. s + 1 \in (i + 1)..(L + 1)
      BY <1>1, <1>2, ClosingIs
  <2>2. /\ MoreEntries(P, ts, kind, i, n, f) = {<<f, s + 1>>}
        /\ MoreEntries(Q, ts, kind, i, n, f) = {<<f, s + 1>>}
      BY <1>1, <1>2, MoreClosed
  <2> QED BY <2>1, <2>2 DEF Behind
<1>3. CASE TypeIn(ts, s) = Comma /\ TypeIn(ts, s) # Closing(kind)
  <2>1. s + 1 \in (i + 1)..(L + 1)
      BY <1>1, <1>3, TokensDiffer
  <2> DEFINE p == <<kind, s + 1, n>>
  <2>2. P[p] = Q[p] /\ \A x \in P[p] : x[2] \in (i + 1)..(L + 1)
      BY <2>1, RowIs
  <2>3. /\ MoreEntries(P, ts, kind, i, n, f) = {<<Over(x[1], f), x[2]>> : x \in P[p]}
        /\ MoreEntries(Q, ts, kind, i, n, f) = {<<Over(x[1], f), x[2]>> : x \in Q[p]}
      BY <1>1, <1>3, MoreFollow
  <2> HIDE DEF p
  <2>4. \A x \in {<<Over(x[1], f), x[2]>> : x \in P[p]} : x[2] \in (i + 1)..(L + 1)
      BY <2>2
  <2> QED BY <2>2, <2>3, <2>4 DEF Behind
<1>4. CASE TypeIn(ts, s) # Comma /\ TypeIn(ts, s) # Closing(kind)
  <2>1. MoreEntries(P, ts, kind, i, n, f) = {} /\ MoreEntries(Q, ts, kind, i, n, f) = {}
      BY <1>1, <1>4, MoreMissing
  <2> QED BY <2>1 DEF Behind
<1> QED BY <1>2, <1>3, <1>4, Zenon

LEMMA ValueIs ==
    ASSUME NEW P, NEW Q, NEW ts, NEW L \in Nat, Long(ts, L), NEW i \in 1..(L + 1),
           EndBehind(P, L, i), Agree(P, Q, L, i)
    PROVE  Behind(ValueAt(P, ts, i), L, i) /\ ValueAt(P, ts, i) = ValueAt(Q, ts, i)
<1> DEFINE X == ValueAt(P, ts, i)
           Y == ValueAt(Q, ts, i)
<1>1. PICK s \in i..(L + 1) : Skips(ts, i, s) /\ (TypeIn(ts, s) # "end" => s \in i..L)
    BY SkipIs
<1>2. CASE TypeIn(ts, s) \in Plain
  <2>1. s + 1 \in (i + 1)..(L + 1)
      BY <1>1, <1>2, TokensDiffer
  <2>2. X = {<<ts[s].value, s + 1>>} /\ Y = {<<ts[s].value, s + 1>>}
      BY <1>1, <1>2, ValuePlain
  <2> QED BY <2>1, <2>2 DEF Behind
<1>3. CASE TypeIn(ts, s) \in {OpenArray, OpenObject}
  <2>1. s + 1 \in (i + 1)..(L + 1) /\ s + 1 \in 1..(L + 1)
      BY <1>1, <1>3, TokensDiffer
  <2>2. PICK next \in (s + 1)..(L + 1) :
           Skips(ts, s + 1, next) /\ (TypeIn(ts, next) # "end" => next \in (s + 1)..L)
      BY <2>1, SkipIs
  <2>3. CASE TypeIn(ts, s) = OpenArray /\ TypeIn(ts, next) = CloseArray
    <3>1. next + 1 \in (i + 1)..(L + 1)
        BY <2>1, <2>2, <2>3, TokensDiffer
    <3>2. X = {<<EmptyArray, next + 1>>} /\ Y = {<<EmptyArray, next + 1>>}
        BY <1>1, <2>2, <2>3, ValueNoItems
    <3> QED BY <3>1, <3>2 DEF Behind
  <2>4. CASE TypeIn(ts, s) = OpenArray /\ TypeIn(ts, next) # CloseArray
    <3> DEFINE p == <<"array", s + 1, 0>>
    <3>1. /\ X = {<<Array(x[1]), x[2]>> : x \in P[p]}
          /\ Y = {<<Array(x[1]), x[2]>> : x \in Q[p]}
        BY <1>1, <2>2, <2>4, ValueItems
    <3>2. "array" \in Nesting
        BY DEF Nesting
    <3>3. P[p] = Q[p] /\ \A x \in P[p] : x[2] \in (i + 1)..(L + 1)
        BY <2>1, <3>2, RowIs
    <3> HIDE DEF X, Y, p
    <3>4. \A x \in {<<Array(x[1]), x[2]>> : x \in P[p]} : x[2] \in (i + 1)..(L + 1)
        BY <3>3
    <3>5. Behind(X, L, i) /\ X = Y
        BY <3>1, <3>3, <3>4 DEF Behind
    <3> QED BY <3>5 DEF X, Y
  <2>5. CASE TypeIn(ts, s) = OpenObject /\ TypeIn(ts, next) = CloseObject
    <3>1. next + 1 \in (i + 1)..(L + 1)
        BY <2>1, <2>2, <2>5, TokensDiffer
    <3>2. X = {<<EmptyObject, next + 1>>} /\ Y = {<<EmptyObject, next + 1>>}
        BY <1>1, <2>2, <2>5, ValueNoMembers
    <3> QED BY <3>1, <3>2 DEF Behind
  <2>6. CASE TypeIn(ts, s) = OpenObject /\ TypeIn(ts, next) # CloseObject
    <3> DEFINE p == <<"object", s + 1, 0>>
    <3>1. /\ X = {<<Object(x[1]), x[2]>> : x \in P[p]}
          /\ Y = {<<Object(x[1]), x[2]>> : x \in Q[p]}
        BY <1>1, <2>2, <2>6, ValueMembers
    <3>2. "object" \in Nesting
        BY DEF Nesting
    <3>3. P[p] = Q[p] /\ \A x \in P[p] : x[2] \in (i + 1)..(L + 1)
        BY <2>1, <3>2, RowIs
    <3> HIDE DEF X, Y, p
    <3>4. \A x \in {<<Object(x[1]), x[2]>> : x \in P[p]} : x[2] \in (i + 1)..(L + 1)
        BY <3>3
    <3>5. Behind(X, L, i) /\ X = Y
        BY <3>1, <3>3, <3>4 DEF Behind
    <3> QED BY <3>5 DEF X, Y
  <2> QED BY <1>3, <2>3, <2>4, <2>5, <2>6, Zenon
<1>4. CASE TypeIn(ts, s) \notin Plain /\ TypeIn(ts, s) \notin {OpenArray, OpenObject}
  <2>1. X = {} /\ Y = {}
      BY <1>1, <1>4, ValueMissing
  <2> QED BY <2>1 DEF Behind
<1> QED BY <1>2, <1>3, <1>4, Zenon

LEMMA FollowedIs ==
    ASSUME NEW P, NEW Q, NEW ts, NEW L \in Nat, Long(ts, L), NEW i \in 1..(L + 1),
           NEW kind \in Nesting, NEW n \in Nat, NEW name, NEW j \in i..(L + 1),
           EndBehind(P, L, i), Agree(P, Q, L, i)
    PROVE  /\ Behind(Followed(P, ts, kind, n, name, j), L, i)
           /\ Followed(P, ts, kind, n, name, j) = Followed(Q, ts, kind, n, name, j)
<1> DEFINE More(R, v) == MoreEntries(R, ts, kind, v[2], n, Put(Nothing, name, v[1]))
           V == ValueAt(P, ts, j)
<1>1. j \in 1..(L + 1) /\ EndBehind(P, L, j) /\ Agree(P, Q, L, j)
    BY BehindLater
<1>2. Behind(V, L, j) /\ V = ValueAt(Q, ts, j)
    BY <1>1, ValueIs
<1> HIDE DEF V
<1>3. ASSUME NEW v \in V
      PROVE  Behind(More(P, v), L, i) /\ More(P, v) = More(Q, v)
  <2> DEFINE behind == v[2]
             f == Put(Nothing, name, v[1])
  <2>1. behind \in i..(L + 1) /\ behind \in 1..(L + 1)
      BY <1>2 DEF Behind
  <2> HIDE DEF behind, f
  <2>2. EndBehind(P, L, behind) /\ Agree(P, Q, L, behind)
      BY <2>1, BehindLater
  <2>3. /\ Behind(MoreEntries(P, ts, kind, behind, n, f), L, behind)
        /\ MoreEntries(P, ts, kind, behind, n, f) = MoreEntries(Q, ts, kind, behind, n, f)
      BY <2>1, <2>2, MoreIs
  <2>4. Behind(More(P, v), L, behind) /\ More(P, v) = More(Q, v)
      BY <2>3, Zenon DEF behind, f
  <2> HIDE DEF More
  <2>5. Behind(More(P, v), L, i)
      BY <2>1, <2>4 DEF Behind
  <2> QED BY <2>4, <2>5
<1>4. /\ Followed(P, ts, kind, n, name, j) = UNION {More(P, v) : v \in V}
      /\ Followed(Q, ts, kind, n, name, j) = UNION {More(Q, v) : v \in V}
    BY <1>2, Zenon DEF Followed, V
<1> HIDE DEF More
<1>5. UNION {More(P, v) : v \in V} = UNION {More(Q, v) : v \in V}
  <2>1. {More(P, v) : v \in V} = {More(Q, v) : v \in V}
      BY <1>3
  <2> QED BY <2>1, Zenon
<1>6. ASSUME NEW x \in UNION {More(P, v) : v \in V}
      PROVE  x[2] \in (i + 1)..(L + 1)
  <2>1. PICK v \in V : x \in More(P, v)
      BY Zenon
  <2> QED BY <1>3, <2>1 DEF Behind
<1>7. Behind(UNION {More(P, v) : v \in V}, L, i)
    BY <1>6, Zenon DEF Behind
<1> QED BY <1>4, <1>5, <1>7, Zenon

LEMMA EntriesIs ==
    ASSUME NEW P, NEW Q, NEW ts, NEW L \in Nat, Long(ts, L), NEW i \in 1..(L + 1),
           NEW kind \in Nesting, NEW n \in Nat,
           EndBehind(P, L, i), Agree(P, Q, L, i)
    PROVE  /\ Behind(EntriesAt(P, ts, <<kind, i, n>>), L, i)
           /\ EntriesAt(P, ts, <<kind, i, n>>) = EntriesAt(Q, ts, <<kind, i, n>>)
<1> DEFINE X == EntriesAt(P, ts, <<kind, i, n>>)
           Y == EntriesAt(Q, ts, <<kind, i, n>>)
<1>1. CASE kind = "array"
  <2>1. kind \in Nesting /\ n + 1 \in Nat /\ i \in i..(L + 1)
      OBVIOUS
  <2>2. X = ItemsAt(P, ts, i, n) /\ Y = ItemsAt(Q, ts, i, n)
      BY <1>1, Zenon DEF EntriesAt
  <2>3. X = Followed(P, ts, kind, n + 1, n, i) /\ Y = Followed(Q, ts, kind, n + 1, n, i)
      BY <1>1, <2>2, Zenon DEF ItemsAt, Followed
  <2> HIDE DEF X, Y
  <2>4. Behind(X, L, i) /\ X = Y
      BY <2>1, <2>3, FollowedIs
  <2> QED BY <2>4 DEF X, Y
<1>2. CASE kind = "object"
  <2>1. X = MembersAt(P, ts, i) /\ Y = MembersAt(Q, ts, i)
    <3>1. kind # "array"
        BY <1>2
    <3> QED BY <3>1, Zenon DEF EntriesAt
  <2>2. PICK s \in i..(L + 1) : Skips(ts, i, s) /\ (TypeIn(ts, s) # "end" => s \in i..L)
      BY SkipIs
  <2>3. CASE TypeIn(ts, s) = "string"
    <3>1. s + 1 \in (i + 1)..(L + 1) /\ s + 1 \in 1..(L + 1)
        BY <2>2, <2>3
    <3>2. PICK colon \in (s + 1)..(L + 1) :
             Skips(ts, s + 1, colon) /\ (TypeIn(ts, colon) # "end" => colon \in (s + 1)..L)
        BY <3>1, SkipIs
    <3>3. CASE TypeIn(ts, colon) = Colon
      <4>1. colon + 1 \in i..(L + 1)
          BY <2>2, <3>1, <3>2, <3>3, TokensDiffer
      <4> DEFINE name == ts[s].value.text
      <4>2. /\ X = Followed(P, ts, kind, 0, name, colon + 1)
            /\ Y = Followed(Q, ts, kind, 0, name, colon + 1)
        <5>1. /\ MembersAt(P, ts, i) = Followed(P, ts, "object", 0, name, colon + 1)
              /\ MembersAt(Q, ts, i) = Followed(Q, ts, "object", 0, name, colon + 1)
            BY <2>2, <2>3, <3>2, <3>3, MembersNamed
        <5> QED BY <1>2, <2>1, <5>1, Zenon
      <4> HIDE DEF X, Y, name
      <4>3. Behind(X, L, i) /\ X = Y
          BY <4>1, <4>2, FollowedIs
      <4> QED BY <4>3 DEF X, Y
    <3>4. CASE TypeIn(ts, colon) # Colon
      <4>1. X = {} /\ Y = {}
          BY <2>1, <2>2, <3>2, <3>4, MembersMissing
      <4> QED BY <4>1 DEF Behind
    <3> QED BY <3>3, <3>4
  <2>4. CASE TypeIn(ts, s) # "string"
    <3>1. PICK colon : Skips(ts, s + 1, colon)
        BY DEF Skips
    <3>2. X = {} /\ Y = {}
        BY <2>1, <2>2, <2>4, <3>1, MembersMissing
    <3> QED BY <3>2 DEF Behind
  <2> QED BY <2>3, <2>4
<1> QED BY <1>1, <1>2 DEF Nesting

(* So the definition of Entries by recursion says what it seems to say:    *)
(* there is such a table, made from the end of the document on.            *)
Places(L) == Nesting \X (1..(L + 1)) \X Nat
Made(P, ts, L) == P = [p \in Places(L) |-> EntriesAt(P, ts, p)]
MadeBehind(P, ts, L, i) ==
    /\ P = [p \in Places(L) |-> P[p]]
    /\ \A kind \in Nesting, j \in (i + 1)..(L + 1), n \in Nat :
          P[<<kind, j, n>>] = EntriesAt(P, ts, <<kind, j, n>>)
    /\ EndBehind(P, L, i)

LEMMA MadeFurther ==
    ASSUME NEW ts, NEW L \in Nat, Long(ts, L), NEW i \in 1..(L + 1),
           NEW P, MadeBehind(P, ts, L, i)
    PROVE  \E Q : MadeBehind(Q, ts, L, i - 1)
<1> DEFINE Q == [p \in Places(L) |-> EntriesAt(P, ts, p)]
<1>1. \A kind \in Nesting, j \in 1..(L + 1), n \in Nat :
         Q[<<kind, j, n>>] = EntriesAt(P, ts, <<kind, j, n>>)
    BY DEF Places
<1>2. Q = [p \in Places(L) |-> Q[p]]
    OBVIOUS
<1> HIDE DEF Q
<1>3. EndBehind(P, L, i)
    BY DEF MadeBehind
<1>4. Agree(P, Q, L, i)
  <2> SUFFICES ASSUME NEW kind \in Nesting, NEW j \in (i + 1)..(L + 1), NEW n \in Nat
               PROVE  P[<<kind, j, n>>] = Q[<<kind, j, n>>]
      BY Zenon DEF Agree
  <2>1. j \in 1..(L + 1)
      OBVIOUS
  <2>2. Q[<<kind, j, n>>] = EntriesAt(P, ts, <<kind, j, n>>)
      BY <1>1, <2>1, Zenon
  <2>3. P[<<kind, j, n>>] = EntriesAt(P, ts, <<kind, j, n>>)
      BY Zenon DEF MadeBehind
  <2> QED BY <2>2, <2>3, Zenon
<1>5. ASSUME NEW kind \in Nesting, NEW j \in ((i - 1) + 1)..(L + 1), NEW n \in Nat
      PROVE  /\ Q[<<kind, j, n>>] = EntriesAt(Q, ts, <<kind, j, n>>)
             /\ Behind(Q[<<kind, j, n>>], L, j)
  <2>1. j \in i..(L + 1) /\ j \in 1..(L + 1)
      OBVIOUS
  <2>2. EndBehind(P, L, j) /\ Agree(P, Q, L, j)
      BY <1>3, <1>4, <2>1, BehindLater
  <2>3. /\ Behind(EntriesAt(P, ts, <<kind, j, n>>), L, j)
        /\ EntriesAt(P, ts, <<kind, j, n>>) = EntriesAt(Q, ts, <<kind, j, n>>)
      BY <2>1, <2>2, EntriesIs
  <2>4. Q[<<kind, j, n>>] = EntriesAt(P, ts, <<kind, j, n>>)
      BY <1>1, <2>1, Zenon
  <2> QED BY <2>3, <2>4, Zenon
<1>6. MadeBehind(Q, ts, L, i - 1)
    BY <1>2, <1>5, Zenon DEF MadeBehind, EndBehind
<1> QED BY <1>6

LEMMA EntriesMade ==
    ASSUME NEW ts, NEW L \in Nat, Long(ts, L)
    PROVE  \A kind \in Nesting, j \in 1..(L + 1), n \in Nat :
              Entries(ts)[<<kind, j, n>>] = EntriesAt(Entries(ts), ts, <<kind, j, n>>)
<1> DEFINE S == {k \in Nat : \E P : MadeBehind(P, ts, L, L + 1 - k)}
<1>1. 0 \in S
  <2> DEFINE P == [p \in Places(L) |-> {}]
  <2>1. P = [p \in Places(L) |-> P[p]]
      OBVIOUS
  <2>2. \A j : j \notin ((L + 1 - 0) + 1)..(L + 1)
      OBVIOUS
  <2> HIDE DEF P
  <2>3. MadeBehind(P, ts, L, L + 1 - 0)
      BY <2>1, <2>2, Zenon DEF MadeBehind, EndBehind
  <2> QED BY <2>3
<1>2. ASSUME NEW k \in 0..((L + 1) - 1), k \in S PROVE k + 1 \in S
  <2>1. PICK P : MadeBehind(P, ts, L, L + 1 - k)
      BY <1>2
  <2>2. L + 1 - k \in 1..(L + 1) /\ (L + 1 - k) - 1 = L + 1 - (k + 1) /\ k + 1 \in Nat
      OBVIOUS
  <2>3. \E Q : MadeBehind(Q, ts, L, (L + 1 - k) - 1)
      BY <2>1, <2>2, MadeFurther
  <2> QED BY <2>2, <2>3, Zenon
<1>3. \E P : MadeBehind(P, ts, L, 0)
  <2> HIDE DEF S
  <2>1. L + 1 \in Nat /\ \A k \in 0..((L + 1) - 1) : k \in S => k + 1 \in S
      BY <1>2
  <2>2. \A k \in 0..(L + 1) : k \in S
      BY <1>1, <2>1, UpTo
  <2>3. L + 1 \in S /\ L + 1 - (L + 1) = 0
      BY <2>2
  <2> QED BY <2>3, Zenon DEF S
<1>4. PICK P : MadeBehind(P, ts, L, 0)
    BY <1>3
<1>5. Made(P, ts, L)
  <2> SUFFICES ASSUME NEW p \in Places(L)
               PROVE  P[p] = EntriesAt(P, ts, p)
    <3>1. P = [p \in Places(L) |-> P[p]]
        BY <1>4 DEF MadeBehind
    <3> QED BY <3>1, Zenon DEF Made
  <2>1. PICK kind \in Nesting, j \in 1..(L + 1), n \in Nat : p = <<kind, j, n>>
      BY DEF Places
  <2>2. j \in (0 + 1)..(L + 1)
      OBVIOUS
  <2> QED BY <1>4, <2>1, <2>2, Zenon DEF MadeBehind
<1> DEFINE T == CHOOSE f : f = [p \in Places(L) |-> EntriesAt(f, ts, p)]
<1>6. Entries(ts) = T
    BY Zenon DEF Entries, Places, Nesting, Long
<1>7. Made(T, ts, L)
    BY <1>5 DEF Made
<1> HIDE DEF T
<1>8. \A p \in Places(L) : T[p] = EntriesAt(T, ts, p)
    BY <1>7 DEF Made
<1>9. \A kind \in Nesting, j \in 1..(L + 1), n \in Nat :
         T[<<kind, j, n>>] = EntriesAt(T, ts, <<kind, j, n>>)
    BY <1>8 DEF Places
<1> QED BY <1>6, <1>9, Zenon

(* Entries over entries.                                                   *)
LEMMA NothingInside == DOMAIN Nothing = {}
BY DEF Nothing

LEMMA OverNothing ==
    ASSUME NEW f, f = [k \in DOMAIN f |-> f[k]]
    PROVE  Over(f, Nothing) = f
<1>1. DOMAIN f \cup DOMAIN Nothing = DOMAIN f
    BY NothingInside
<1>2. Over(f, Nothing) = [k \in DOMAIN f |-> f[k]]
    BY <1>1 DEF Over
<1> QED BY <1>2

LEMMA PutOver ==
    ASSUME NEW f, NEW k, NEW v
    PROVE  Over(Put(Nothing, k, v), f) = Put(f, k, v)
<1> DEFINE g == Put(Nothing, k, v)
<1>1. DOMAIN g = {k} /\ g[k] = v
    BY NothingInside DEF Put
<1> HIDE DEF g
<1>2. Over(g, f) = [m \in {k} \cup DOMAIN f |-> IF m \in {k} THEN g[m] ELSE f[m]]
    BY <1>1 DEF Over
<1>3. Over(g, f) = Put(f, k, v)
    BY <1>1, <1>2 DEF Put
<1> QED BY <1>3 DEF g

LEMMA OverPut ==
    ASSUME NEW y, NEW f, NEW k, NEW v
    PROVE  Over(Over(y, Put(Nothing, k, v)), f) = Over(y, Put(f, k, v))
<1> DEFINE g == Put(Nothing, k, v)
           h == Put(f, k, v)
           z == Over(y, g)
<1>1. DOMAIN g = {k} /\ g[k] = v
    BY NothingInside DEF Put
<1>2. DOMAIN h = DOMAIN f \cup {k} /\ \A m \in DOMAIN h : h[m] = IF m = k THEN v ELSE f[m]
    BY DEF Put
<1> HIDE DEF g, h
<1>3. /\ DOMAIN z = DOMAIN y \cup {k}
      /\ \A m \in DOMAIN z : z[m] = IF m \in DOMAIN y THEN y[m] ELSE v
    BY <1>1 DEF Over
<1> HIDE DEF z
<1>4. Over(z, f) = [m \in DOMAIN z \cup DOMAIN f |-> IF m \in DOMAIN z THEN z[m] ELSE f[m]]
    BY DEF Over
<1>5. Over(y, h) = [m \in DOMAIN y \cup DOMAIN h |-> IF m \in DOMAIN y THEN y[m] ELSE h[m]]
    BY DEF Over
<1>6. DOMAIN z \cup DOMAIN f = DOMAIN y \cup DOMAIN h
    BY <1>2, <1>3
<1>7. \A m \in DOMAIN y \cup DOMAIN h :
         (IF m \in DOMAIN z THEN z[m] ELSE f[m]) = (IF m \in DOMAIN y THEN y[m] ELSE h[m])
    BY <1>2, <1>3
<1>8. Over(z, f) = Over(y, h)
    BY <1>4, <1>5, <1>6, <1>7
<1> QED BY <1>8 DEF g, h, z

LEMMA PutPut ==
    ASSUME NEW f, NEW k, NEW u, NEW v
    PROVE  Put(Put(f, k, u), k, v) = Put(f, k, v)
BY DEF Put

LEMMA MoreOver ==
    ASSUME NEW P, NEW ts, NEW kind, NEW i, NEW n, NEW f, NEW k, NEW v
    PROVE  {<<Over(x[1], f), x[2]>> : x \in MoreEntries(P, ts, kind, i, n, Put(Nothing, k, v))}
              = MoreEntries(P, ts, kind, i, n, Put(f, k, v))
<1> DEFINE g == Put(Nothing, k, v)
           h == Put(f, k, v)
           X == MoreEntries(P, ts, kind, i, n, g)
           Y == MoreEntries(P, ts, kind, i, n, h)
<1>1. Over(g, f) = h /\ \A y : Over(Over(y, g), f) = Over(y, h)
    BY PutOver, OverPut
<1>2. PICK s : Skips(ts, i, s)
    BY DEF Skips
<1> HIDE DEF g, h
<1>3. CASE TypeIn(ts, s) = Closing(kind)
  <2>1. X = {<<g, s + 1>>} /\ Y = {<<h, s + 1>>}
      BY <1>2, <1>3, MoreClosed
  <2> HIDE DEF X, Y
  <2>2. {<<Over(x[1], f), x[2]>> : x \in X} = {<<Over(g, f), s + 1>>}
      BY <2>1
  <2>3. {<<Over(x[1], f), x[2]>> : x \in X} = Y
      BY <1>1, <2>1, <2>2, Zenon
  <2> QED BY <2>3, Zenon DEF X, Y, g, h
<1>4. CASE TypeIn(ts, s) = Comma /\ TypeIn(ts, s) # Closing(kind)
  <2> DEFINE R == P[<<kind, s + 1, n>>]
  <2>1. /\ X = {<<Over(x[1], g), x[2]>> : x \in R}
        /\ Y = {<<Over(x[1], h), x[2]>> : x \in R}
      BY <1>2, <1>4, MoreFollow
  <2> HIDE DEF X, Y, R
  <2>2. {<<Over(x[1], f), x[2]>> : x \in X} = {<<Over(Over(x[1], g), f), x[2]>> : x \in R}
    <3>1. ASSUME NEW x \in X PROVE \E y \in R : x = <<Over(y[1], g), y[2]>>
        BY <2>1
    <3>2. ASSUME NEW y \in R PROVE <<Over(y[1], g), y[2]>> \in X
        BY <2>1
    <3>3. ASSUME NEW x \in X
          PROVE  <<Over(x[1], f), x[2]>> \in {<<Over(Over(y[1], g), f), y[2]>> : y \in R}
      <4>1. PICK y \in R : x = <<Over(y[1], g), y[2]>>
          BY <3>1
      <4>2. x[1] = Over(y[1], g) /\ x[2] = y[2]
          BY <4>1
      <4> QED BY <4>2, Zenon
    <3>4. ASSUME NEW y \in R
          PROVE  <<Over(Over(y[1], g), f), y[2]>> \in {<<Over(x[1], f), x[2]>> : x \in X}
      <4> DEFINE x == <<Over(y[1], g), y[2]>>
      <4>1. x \in X /\ x[1] = Over(y[1], g) /\ x[2] = y[2]
          BY <3>2
      <4> HIDE DEF x
      <4> QED BY <4>1, Zenon
    <3> QED BY <3>3, <3>4, Zenon
  <2>3. {<<Over(Over(x[1], g), f), x[2]>> : x \in R} = {<<Over(x[1], h), x[2]>> : x \in R}
      BY <1>1
  <2>4. {<<Over(x[1], f), x[2]>> : x \in X} = Y
      BY <2>1, <2>2, <2>3, Zenon
  <2> QED BY <2>4, Zenon DEF X, Y, g, h
<1>5. CASE TypeIn(ts, s) # Comma /\ TypeIn(ts, s) # Closing(kind)
  <2>1. X = {} /\ Y = {}
      BY <1>2, <1>5, MoreMissing
  <2> HIDE DEF X, Y
  <2>2. {<<Over(x[1], f), x[2]>> : x \in X} = Y
      BY <2>1
  <2> QED BY <2>2, Zenon DEF X, Y, g, h
<1> QED BY <1>3, <1>4, <1>5, Zenon

(* What an unfinished array or object will be, and what can be read after  *)
(* what it holds by now.                                                   *)
KindOf(node) == IF IsObject(node.value) THEN "object" ELSE "array"
CountOf(node) == IF IsObject(node.value) THEN 0 ELSE Size(node.value)
Contents(node) == IF IsObject(node.value) THEN node.value.members ELSE node.value.items
Whole(node, f) == IF IsObject(node.value) THEN Object(f) ELSE Array(f)
Rest(d, node, i) ==
    {<<Whole(node, x[1]), x[2]>> :
        x \in MoreEntries(Entries(d), d, KindOf(node), i, CountOf(node), Contents(node))}
Through(d, node, X) == UNION {Rest(d, Filled(node, x[1]), x[2]) : x \in X}

Beyond(node, f, X) == {<<Whole(node, Over(x[1], f)), x[2]>> : x \in X}

(* Its contents are those of no other kind, and items have no holes.       *)
WellMade(node) ==
    /\ Unfinished(node)
    /\ \E f : \/ node.value = Object(f)
              \/ \E n \in Nat : DOMAIN f = 0..(n - 1) /\ node.value = Array(f)

LEMMA SizeOfArray ==
    ASSUME NEW n \in Nat, NEW f, DOMAIN f = 0..(n - 1)
    PROVE  Size(Array(f)) = n
<1>1. CASE n = 0
  <2>1. DOMAIN f = {}
      BY <1>1
  <2> QED BY <1>1, <2>1 DEF Size, Array
<1>2. CASE n # 0
  <2>1. n - 1 \in DOMAIN f /\ \A j \in DOMAIN f : j <= n - 1
      BY <1>2
  <2> DEFINE last == CHOOSE i \in DOMAIN f : \A j \in DOMAIN f : j <= i
  <2>2. last \in DOMAIN f /\ \A j \in DOMAIN f : j <= last
      BY <2>1
  <2> HIDE DEF last
  <2>3. last = n - 1
    <3>1. last \in 0..(n - 1) /\ n - 1 <= last
        BY <2>1, <2>2, Zenon
    <3> QED BY <3>1
  <2>4. Size(Array(f)) = 1 + last
      BY <2>1 DEF Size, Array, last
  <2> QED BY <2>3, <2>4
<1> QED BY <1>1, <1>2

(* Filled with v, it goes on from the contents f and v under the name.     *)
Becomes(node, kind, n, name, f) ==
    \A v : /\ KindOf(Filled(node, v)) = kind
           /\ CountOf(Filled(node, v)) = n
           /\ Contents(Filled(node, v)) = Put(f, name, v)
           /\ \A g : Whole(Filled(node, v), g) = Whole(node, g)
           /\ WellMade(Filled(node, v))

LEMMA ArrayNode ==
    ASSUME NEW node, Unfinished(node), NEW n \in Nat, NEW f, DOMAIN f = 0..(n - 1),
           node.value = Array(f)
    PROVE  /\ KindOf(node) = "array" /\ CountOf(node) = n /\ Contents(node) = f
           /\ \A g : Whole(node, g) = Array(g)
           /\ Becomes(node, "array", n + 1, n, f)
<1>1. ~IsObject(node.value) /\ ~IsNull(node.value) /\ node.value.items = f
    BY DEF Array, IsObject, IsNull
<1>2. Size(node.value) = n
    BY SizeOfArray
<1>3. KindOf(node) = "array" /\ CountOf(node) = n /\ Contents(node) = f
    BY <1>1, <1>2 DEF KindOf, CountOf, Contents
<1>4. \A g : Whole(node, g) = Array(g)
    BY <1>1 DEF Whole
<1>5. ASSUME NEW v
      PROVE  /\ KindOf(Filled(node, v)) = "array"
             /\ CountOf(Filled(node, v)) = n + 1
             /\ Contents(Filled(node, v)) = Put(f, n, v)
             /\ \A g : Whole(Filled(node, v), g) = Whole(node, g)
             /\ WellMade(Filled(node, v))
  <2> DEFINE h == Put(f, n, v)
             filled == Filled(node, v)
  <2>1. filled = [node EXCEPT !.value = Array(h)]
      BY <1>1, <1>2, Zenon DEF Filled, Appended, WithItem
  <2>2. DOMAIN h = 0..((n + 1) - 1)
      BY DEF Put
  <2> HIDE DEF h
  <2>3. filled.value = Array(h)
      BY <2>1 DEF Unfinished
  <2>4. Unfinished(filled)
      BY FilledUnfinished
  <2> HIDE DEF filled
  <2>5. ~IsObject(filled.value) /\ filled.value.items = h
      BY <2>3 DEF Array, IsObject
  <2>6. n + 1 \in Nat
      OBVIOUS
  <2>7. Size(filled.value) = n + 1
      BY <2>2, <2>3, <2>6, SizeOfArray, Zenon
  <2>8. \A g : Whole(filled, g) = Whole(node, g)
      BY <1>4, <2>5 DEF Whole
  <2>9. WellMade(filled)
      BY <2>2, <2>3, <2>4, <2>6, Zenon DEF WellMade
  <2> QED BY <2>5, <2>7, <2>8, <2>9 DEF KindOf, CountOf, Contents, filled, h
<1> QED BY <1>3, <1>4, <1>5, Zenon DEF Becomes

LEMMA ObjectNode ==
    ASSUME NEW node, Unfinished(node), NEW f, node.value = Object(f)
    PROVE  /\ KindOf(node) = "object" /\ CountOf(node) = 0 /\ Contents(node) = f
           /\ \A g : Whole(node, g) = Object(g)
           /\ Becomes(node, "object", 0, node.name, f)
<1>1. IsObject(node.value) /\ ~IsNull(node.value) /\ node.value.members = f
    BY DEF Object, IsObject, IsNull
<1>2. KindOf(node) = "object" /\ CountOf(node) = 0 /\ Contents(node) = f
    BY <1>1 DEF KindOf, CountOf, Contents
<1>3. \A g : Whole(node, g) = Object(g)
    BY <1>1 DEF Whole
<1>4. ASSUME NEW v
      PROVE  /\ KindOf(Filled(node, v)) = "object"
             /\ CountOf(Filled(node, v)) = 0
             /\ Contents(Filled(node, v)) = Put(f, node.name, v)
             /\ \A g : Whole(Filled(node, v), g) = Whole(node, g)
             /\ WellMade(Filled(node, v))
  <2> DEFINE h == Put(f, node.name, v)
             filled == Filled(node, v)
  <2>1. filled = [node EXCEPT !.value = Object(h)]
      BY <1>1, Zenon DEF Filled, WithMember
  <2> HIDE DEF h
  <2>2. filled.value = Object(h)
      BY <2>1 DEF Unfinished
  <2>3. Unfinished(filled)
      BY FilledUnfinished
  <2> HIDE DEF filled
  <2>4. IsObject(filled.value) /\ filled.value.members = h
      BY <2>2 DEF Object, IsObject
  <2>5. \A g : Whole(filled, g) = Whole(node, g)
      BY <1>3, <2>4 DEF Whole
  <2>6. WellMade(filled)
      BY <2>2, <2>3 DEF WellMade
  <2> QED BY <2>4, <2>5, <2>6 DEF KindOf, CountOf, Contents, filled, h
<1> QED BY <1>2, <1>3, <1>4, Zenon DEF Becomes

LEMMA FollowedThrough ==
    ASSUME NEW d, NEW node, NEW kind, NEW n, NEW name, NEW f, NEW j,
           Becomes(node, kind, n, name, f)
    PROVE  Beyond(node, f, Followed(Entries(d), d, kind, n, name, j))
              = Through(d, node, ValueAt(Entries(d), d, j))
<1> DEFINE P == Entries(d)
           V == ValueAt(P, d, j)
           More(v) == MoreEntries(P, d, kind, v[2], n, Put(Nothing, name, v[1]))
           After_(v) == Rest(d, Filled(node, v[1]), v[2])
           With(X) == {<<Whole(node, Over(x[1], f)), x[2]>> : x \in X}
<1>1. ASSUME NEW v \in V PROVE After_(v) = With(More(v))
  <2> DEFINE X == More(v)
             Y == MoreEntries(P, d, kind, v[2], n, Put(f, name, v[1]))
  <2>1. Y = {<<Over(x[1], f), x[2]>> : x \in X}
      BY MoreOver
  <2>2. After_(v) = {<<Whole(node, y[1]), y[2]>> : y \in Y}
    <3> DEFINE filled == Filled(node, v[1])
    <3>1. /\ KindOf(filled) = kind /\ CountOf(filled) = n
          /\ Contents(filled) = Put(f, name, v[1])
          /\ \A g : Whole(filled, g) = Whole(node, g)
        BY Zenon DEF Becomes
    <3> HIDE DEF filled
    <3>2. Rest(d, filled, v[2]) = {<<Whole(filled, y[1]), y[2]>> : y \in Y}
        BY <3>1, Zenon DEF Rest
    <3>3. {<<Whole(filled, y[1]), y[2]>> : y \in Y} = {<<Whole(node, y[1]), y[2]>> : y \in Y}
      <4>1. ASSUME NEW y PROVE <<Whole(filled, y[1]), y[2]>> = <<Whole(node, y[1]), y[2]>>
          BY <3>1, Zenon
      <4> HIDE DEF Y
      <4> QED BY <4>1
    <3> QED BY <3>2, <3>3, Zenon DEF filled
  <2> HIDE DEF X, Y
  <2>3. {<<Whole(node, y[1]), y[2]>> : y \in Y} = With(X)
    <3>1. ASSUME NEW y \in Y PROVE <<Whole(node, y[1]), y[2]>> \in With(X)
      <4>1. PICK x \in X : y = <<Over(x[1], f), x[2]>>
          BY <2>1
      <4>2. y[1] = Over(x[1], f) /\ y[2] = x[2]
          BY <4>1
      <4> QED BY <4>2, Zenon
    <3>2. ASSUME NEW x \in X
          PROVE  <<Whole(node, Over(x[1], f)), x[2]>> \in {<<Whole(node, y[1]), y[2]>> : y \in Y}
      <4> DEFINE y == <<Over(x[1], f), x[2]>>
      <4>1. y \in Y /\ y[1] = Over(x[1], f) /\ y[2] = x[2]
          BY <2>1
      <4> HIDE DEF y
      <4> QED BY <4>1, Zenon
    <3> QED BY <3>1, <3>2, Zenon
  <2> QED BY <2>2, <2>3, Zenon DEF X
<1>2. Followed(P, d, kind, n, name, j) = UNION {More(v) : v \in V}
    BY Zenon DEF Followed
<1>3. Through(d, node, V) = UNION {After_(v) : v \in V}
    BY Zenon DEF Through
<1> HIDE DEF P, V, More, After_
<1>4. With(UNION {More(v) : v \in V}) = UNION {After_(v) : v \in V}
  <2>1. ASSUME NEW x \in UNION {More(v) : v \in V}
        PROVE  <<Whole(node, Over(x[1], f)), x[2]>> \in UNION {After_(v) : v \in V}
    <3>1. PICK v \in V : x \in More(v)
        BY Zenon
    <3> QED BY <1>1, <3>1, Zenon
  <2>2. ASSUME NEW z \in UNION {After_(v) : v \in V}
        PROVE  z \in With(UNION {More(v) : v \in V})
    <3>1. PICK v \in V : z \in After_(v)
        BY Zenon
    <3>2. PICK x \in More(v) : z = <<Whole(node, Over(x[1], f)), x[2]>>
        BY <1>1, <3>1, Zenon
    <3>3. x \in UNION {More(w) : w \in V}
        BY Zenon
    <3> QED BY <3>2, <3>3, Zenon
  <2> QED BY <2>1, <2>2, Zenon
<1> QED BY <1>2, <1>3, <1>4, Zenon DEF P, V, Beyond

(* What a document is the text of, if what is read next is one of X and    *)
(* the first m of the nodes are unfinished.                                *)
Meaning(d, ns, m, X) ==
    \E R : /\ R[m] = X
           /\ \A k \in 1..m : R[k - 1] = Through(d, ns[k], R[k])
           /\ Json(d) = {x[1] : x \in R[0]}

LEMMA MeaningStarts ==
    ASSUME NEW d, NEW ns
    PROVE  Meaning(d, ns, 0, ValueAt(Entries(d), d, 1))
<1> DEFINE R == [k \in {0} |-> ValueAt(Entries(d), d, 1)]
<1>1. R[0] = ValueAt(Entries(d), d, 1) /\ \A k : k \notin 1..0
    OBVIOUS
<1> HIDE DEF R
<1> QED BY <1>1, Zenon DEF Meaning, Json

LEMMA MeaningDeepens ==
    ASSUME NEW d, NEW ns, NEW ms, NEW m \in Nat, NEW X, NEW Y, Meaning(d, ns, m, X),
           \A k \in 1..m : ms[k] = ns[k], X = Through(d, ms[m + 1], Y)
    PROVE  Meaning(d, ms, m + 1, Y)
<1>1. PICK R : /\ R[m] = X
               /\ \A k \in 1..m : R[k - 1] = Through(d, ns[k], R[k])
               /\ Json(d) = {x[1] : x \in R[0]}
    BY DEF Meaning
<1> DEFINE T == [k \in 0..(m + 1) |-> IF k = m + 1 THEN Y ELSE R[k]]
<1>2. T[m + 1] = Y /\ \A k \in 0..m : T[k] = R[k]
    OBVIOUS
<1> HIDE DEF T
<1>3. ASSUME NEW k \in 1..(m + 1) PROVE T[k - 1] = Through(d, ms[k], T[k])
  <2>1. CASE k = m + 1
    <3>1. k - 1 = m /\ m \in 0..m
        BY <2>1
    <3> QED BY <1>1, <1>2, <2>1, <3>1, Zenon
  <2>2. CASE k # m + 1
    <3>1. k \in 1..m /\ k \in 0..m /\ k - 1 \in 0..m
        BY <2>2
    <3> QED BY <1>1, <1>2, <3>1, Zenon
  <2> QED BY <2>1, <2>2
<1>4. T[0] = R[0]
    BY <1>2
<1> QED BY <1>1, <1>2, <1>3, <1>4, Zenon DEF Meaning

LEMMA MeaningAgrees ==
    ASSUME NEW d, NEW ns, NEW ms, NEW m \in Nat, NEW X, Meaning(d, ns, m, X),
           \A k \in 1..m : ms[k] = ns[k]
    PROVE  Meaning(d, ms, m, X)
BY Zenon DEF Meaning

LEMMA MeaningRises ==
    ASSUME NEW d, NEW ns, NEW m \in Nat \ {0}, NEW X, Meaning(d, ns, m, X)
    PROVE  Meaning(d, ns, m - 1, Through(d, ns[m], X))
<1>1. PICK R : /\ R[m] = X
               /\ \A k \in 1..m : R[k - 1] = Through(d, ns[k], R[k])
               /\ Json(d) = {x[1] : x \in R[0]}
    BY DEF Meaning
<1>2. m \in 1..m /\ \A k \in 1..(m - 1) : k \in 1..m
    OBVIOUS
<1> QED BY <1>1, <1>2, Zenon DEF Meaning

LEMMA MeaningOfNone ==
    ASSUME NEW d, NEW ns, NEW m \in Nat, Meaning(d, ns, m, {})
    PROVE  Json(d) = {}
<1>1. PICK R : /\ R[m] = {}
               /\ \A k \in 1..m : R[k - 1] = Through(d, ns[k], R[k])
               /\ Json(d) = {x[1] : x \in R[0]}
    BY DEF Meaning
<1> DEFINE S == {k \in Nat : R[m - k] = {}}
<1>2. 0 \in S
    BY <1>1
<1>3. ASSUME NEW k \in 0..(m - 1), k \in S PROVE k + 1 \in S
  <2>1. m - k \in 1..m /\ (m - k) - 1 = m - (k + 1) /\ k + 1 \in Nat
      OBVIOUS
  <2>2. R[m - k] = {}
      BY <1>3
  <2>3. R[m - (k + 1)] = Through(d, ns[m - k], {})
      BY <1>1, <2>1, <2>2, Zenon
  <2>4. R[m - (k + 1)] = {}
      BY <2>3, Zenon DEF Through
  <2> QED BY <2>1, <2>4
<1> HIDE DEF S
<1>4. m \in S
  <2>1. \A k \in 0..(m - 1) : k \in S => k + 1 \in S
      BY <1>3
  <2>2. \A k \in 0..m : k \in S
      BY <1>2, <2>1, UpTo
  <2> QED BY <2>2
<1>5. R[0] = {}
    BY <1>4 DEF S
<1> QED BY <1>1, <1>5, Zenon

LEMMA MeaningOfOne ==
    ASSUME NEW d, NEW ns, NEW v, NEW i, Meaning(d, ns, 0, {<<v, i>>})
    PROVE  Json(d) = {v}
<1>1. Json(d) = {x[1] : x \in {<<v, i>>}}
    BY Zenon DEF Meaning
<1> QED BY <1>1

LEMMA ThroughOne ==
    ASSUME NEW d, NEW node, NEW v, NEW i
    PROVE  Through(d, node, {<<v, i>>}) = Rest(d, Filled(node, v), i)
<1> DEFINE X == {<<v, i>>}
<1>1. \A x : x \in X <=> x = <<v, i>>
    OBVIOUS
<1>2. <<v, i>>[1] = v /\ <<v, i>>[2] = i
    OBVIOUS
<1> HIDE DEF X
<1>3. Through(d, node, X) = UNION {Rest(d, Filled(node, x[1]), x[2]) : x \in X}
    BY Zenon DEF Through
<1> QED BY <1>1, <1>2, <1>3, Zenon DEF X

(* What can be read after a value, and in place of a name.                 *)
MembersRest(d, node, j) ==
    Beyond(node, Contents(node), MembersAt(Entries(d), d, j))
NameRest(d, node, i) ==
    IF node.name = <<>> /\ TypeIn(d, Skip(d, i)) = "}"
    THEN {<<node.value, Skip(d, i) + 1>>}
    ELSE MembersRest(d, node, i)

LEMMA KindsOfNodes ==
    ASSUME NEW node, Unfinished(node)
    PROVE  /\ KindOf(node) \in Nesting
           /\ IsObject(node.value) => KindOf(node) = "object" /\ Closing(KindOf(node)) = CloseObject
           /\ IsArray(node.value) => KindOf(node) = "array" /\ Closing(KindOf(node)) = CloseArray
           /\ IsObject(node.value) => ~IsArray(node.value)
<1>1. /\ IsObject(node.value) => KindOf(node) = "object"
      /\ IsArray(node.value) => KindOf(node) = "array"
      /\ IsObject(node.value) \/ IsArray(node.value)
      /\ IsObject(node.value) => ~IsArray(node.value)
    BY DEF KindOf, Unfinished, IsObject, IsArray
<1> QED BY <1>1, TokensDiffer, Zenon DEF Nesting

LEMMA WholeValue ==
    ASSUME NEW node, WellMade(node)
    PROVE  Whole(node, Contents(node)) = node.value
<1>1. PICK f : \/ node.value = Object(f)
               \/ \E n \in Nat : DOMAIN f = 0..(n - 1) /\ node.value = Array(f)
    BY DEF WellMade
<1>2. CASE node.value = Object(f)
  <2>1. IsObject(node.value) /\ node.value.members = f
      BY <1>2 DEF Object, IsObject
  <2> QED BY <1>2, <2>1, Zenon DEF Whole, Contents
<1>3. CASE node.value = Array(f)
  <2>1. ~IsObject(node.value) /\ node.value.items = f
      BY <1>3 DEF Array, IsObject
  <2> QED BY <1>3, <2>1, Zenon DEF Whole, Contents
<1> QED BY <1>1, <1>2, <1>3, Zenon

LEMMA RestClosed ==
    ASSUME NEW d, NEW node, WellMade(node), NEW i, NEW s, Skips(d, i, s),
           TypeIn(d, s) = Closing(KindOf(node))
    PROVE  Rest(d, node, i) = {<<node.value, s + 1>>}
<1> DEFINE f == Contents(node)
           X == MoreEntries(Entries(d), d, KindOf(node), i, CountOf(node), f)
<1>1. X = {<<f, s + 1>>}
    BY MoreClosed
<1>2. Rest(d, node, i) = {<<Whole(node, x[1]), x[2]>> : x \in X}
    BY Zenon DEF Rest
<1> HIDE DEF X, f
<1>3. {<<Whole(node, x[1]), x[2]>> : x \in X} = {<<Whole(node, f), s + 1>>}
    BY <1>1
<1>4. Whole(node, f) = node.value
    BY WholeValue DEF f
<1> QED BY <1>2, <1>3, <1>4, Zenon

LEMMA RestMissing ==
    ASSUME NEW d, NEW node, NEW i, NEW s, Skips(d, i, s),
           TypeIn(d, s) # Comma, TypeIn(d, s) # Closing(KindOf(node))
    PROVE  Rest(d, node, i) = {}
<1> DEFINE X == MoreEntries(Entries(d), d, KindOf(node), i, CountOf(node), Contents(node))
<1>1. X = {}
    BY MoreMissing
<1>2. Rest(d, node, i) = {<<Whole(node, x[1]), x[2]>> : x \in X}
    BY Zenon DEF Rest
<1> HIDE DEF X
<1> QED BY <1>1, <1>2

LEMMA RestFollows ==
    ASSUME NEW d, NEW node, Unfinished(node), NEW i, NEW s, Skips(d, i, s),
           TypeIn(d, s) = Comma
    PROVE  Rest(d, node, i) =
              Beyond(node, Contents(node), Entries(d)[<<KindOf(node), s + 1, CountOf(node)>>])
<1> DEFINE f == Contents(node)
           R == Entries(d)[<<KindOf(node), s + 1, CountOf(node)>>]
           X == MoreEntries(Entries(d), d, KindOf(node), i, CountOf(node), f)
<1>1. TypeIn(d, s) # Closing(KindOf(node))
    BY KindsOfNodes, ClosingIs
<1>2. X = {<<Over(x[1], f), x[2]>> : x \in R}
    BY <1>1, MoreFollow
<1>3. Rest(d, node, i) = {<<Whole(node, x[1]), x[2]>> : x \in X}
    BY Zenon DEF Rest
<1> HIDE DEF X, f, R
<1>4. ASSUME NEW y \in X
      PROVE  <<Whole(node, y[1]), y[2]>> \in {<<Whole(node, Over(x[1], f)), x[2]>> : x \in R}
  <2>1. PICK x \in R : y = <<Over(x[1], f), x[2]>>
      BY <1>2
  <2>2. y[1] = Over(x[1], f) /\ y[2] = x[2]
      BY <2>1
  <2> QED BY <2>2, Zenon
<1>5. ASSUME NEW x \in R
      PROVE  <<Whole(node, Over(x[1], f)), x[2]>> \in {<<Whole(node, y[1]), y[2]>> : y \in X}
  <2> DEFINE y == <<Over(x[1], f), x[2]>>
  <2>1. y \in X /\ y[1] = Over(x[1], f) /\ y[2] = x[2]
      BY <1>2
  <2> HIDE DEF y
  <2> QED BY <2>1, Zenon
<1>6. Rest(d, node, i) = {<<Whole(node, Over(x[1], f)), x[2]>> : x \in R}
    BY <1>3, <1>4, <1>5, Zenon
<1> QED BY <1>6, Zenon DEF f, R, Beyond

(* An item follows.                                                        *)
LEMMA ItemsFollow ==
    ASSUME NEW d, NEW L \in Nat, Long(d, L), NEW node, WellMade(node), IsArray(node.value),
           NEW i, NEW s \in 1..L, Skips(d, i, s), TypeIn(d, s) = Comma
    PROVE  Rest(d, node, i) = Through(d, node, ValueAt(Entries(d), d, s + 1))
<1>1. Unfinished(node)
    BY DEF WellMade
<1>2. PICK f : \E n \in Nat : DOMAIN f = 0..(n - 1) /\ node.value = Array(f)
  <2>1. PICK f : \/ node.value = Object(f)
                 \/ \E n \in Nat : DOMAIN f = 0..(n - 1) /\ node.value = Array(f)
      BY DEF WellMade
  <2>2. node.value # Object(f)
      BY DEF IsArray, Object
  <2> QED BY <2>1, <2>2, Zenon
<1> PICK n \in Nat : DOMAIN f = 0..(n - 1) /\ node.value = Array(f)
    BY <1>2
<1>3. /\ KindOf(node) = "array" /\ CountOf(node) = n /\ Contents(node) = f
      /\ Becomes(node, "array", n + 1, n, f)
    BY <1>1, ArrayNode
<1>4. "array" \in Nesting /\ s + 1 \in 1..(L + 1)
    BY DEF Nesting
<1>5. Entries(d)[<<"array", s + 1, n>>] = Followed(Entries(d), d, "array", n + 1, n, s + 1)
  <2>1. Entries(d)[<<"array", s + 1, n>>] = EntriesAt(Entries(d), d, <<"array", s + 1, n>>)
      BY <1>4, EntriesMade
  <2>2. EntriesAt(Entries(d), d, <<"array", s + 1, n>>) = ItemsAt(Entries(d), d, s + 1, n)
      BY Zenon DEF EntriesAt
  <2> QED BY <2>1, <2>2, Zenon DEF ItemsAt, Followed
<1> DEFINE row == Entries(d)[<<KindOf(node), s + 1, CountOf(node)>>]
           all == Followed(Entries(d), d, "array", n + 1, n, s + 1)
<1>6. row = all
    BY <1>3, <1>5, Zenon
<1>7. Rest(d, node, i) = Beyond(node, Contents(node), row)
    BY <1>1, RestFollows, Zenon
<1>8. Beyond(node, f, all)
         = Through(d, node, ValueAt(Entries(d), d, s + 1))
    BY <1>3, FollowedThrough
<1> HIDE DEF row, all
<1> QED BY <1>3, <1>6, <1>7, <1>8, Zenon

LEMMA MembersInTable ==
    ASSUME NEW d, NEW L \in Nat, Long(d, L), NEW j \in 1..(L + 1)
    PROVE  Entries(d)[<<"object", j, 0>>] = MembersAt(Entries(d), d, j)
<1>1. "object" \in Nesting /\ 0 \in Nat
    BY DEF Nesting
<1>2. Entries(d)[<<"object", j, 0>>] = EntriesAt(Entries(d), d, <<"object", j, 0>>)
    BY <1>1, EntriesMade
<1>3. EntriesAt(Entries(d), d, <<"object", j, 0>>) = MembersAt(Entries(d), d, j)
    BY Zenon DEF EntriesAt
<1> QED BY <1>2, <1>3, Zenon

(* A member follows.                                                       *)
LEMMA MembersFollow ==
    ASSUME NEW d, NEW L \in Nat, Long(d, L), NEW node, WellMade(node), IsObject(node.value),
           NEW i, NEW s \in 1..L, Skips(d, i, s), TypeIn(d, s) = Comma
    PROVE  Rest(d, node, i) = MembersRest(d, node, s + 1)
<1>1. Unfinished(node)
    BY DEF WellMade
<1>2. KindOf(node) = "object" /\ CountOf(node) = 0
    BY <1>1, KindsOfNodes DEF CountOf
<1> DEFINE row == Entries(d)[<<KindOf(node), s + 1, CountOf(node)>>]
<1>3. row = MembersAt(Entries(d), d, s + 1)
  <2>1. s + 1 \in 1..(L + 1)
      OBVIOUS
  <2> QED BY <1>2, <2>1, MembersInTable, Zenon
<1>4. Rest(d, node, i) = Beyond(node, Contents(node), row)
    BY <1>1, RestFollows, Zenon
<1> HIDE DEF row
<1> QED BY <1>3, <1>4, Zenon DEF MembersRest

(* What follows an opening bracket or brace, and what a name is read of.   *)
IsMap(f) == f = [k \in DOMAIN f |-> f[k]]

LEMMA FollowedMaps ==
    ASSUME NEW P, NEW ts, NEW kind, NEW n, NEW name, NEW j
    PROVE  \A x \in Followed(P, ts, kind, n, name, j) : IsMap(x[1])
<1> SUFFICES ASSUME NEW x \in Followed(P, ts, kind, n, name, j) PROVE IsMap(x[1])
    OBVIOUS
<1>1. PICK v \in ValueAt(P, ts, j) :
         x \in MoreEntries(P, ts, kind, v[2], n, Put(Nothing, name, v[1]))
    BY Zenon DEF Followed
<1> DEFINE i == v[2]
           f == Put(Nothing, name, v[1])
<1>2. PICK s : Skips(ts, i, s)
    BY DEF Skips
<1>3. IsMap(f)
    BY DEF IsMap, Put
<1>4. \A g, h : IsMap(Over(g, h))
    BY DEF IsMap, Over
<1>5. x \in MoreEntries(P, ts, kind, i, n, f)
    BY <1>1
<1> HIDE DEF i, f
<1>6. CASE TypeIn(ts, s) = Closing(kind)
  <2>1. x \in {<<f, s + 1>>}
      BY <1>2, <1>5, <1>6, MoreClosed
  <2>2. x[1] = f
      BY <2>1
  <2> QED BY <1>3, <2>2
<1>7. CASE TypeIn(ts, s) = Comma /\ TypeIn(ts, s) # Closing(kind)
  <2> DEFINE R == P[<<kind, s + 1, n>>]
  <2>1. x \in {<<Over(y[1], f), y[2]>> : y \in R}
      BY <1>2, <1>5, <1>7, MoreFollow
  <2> HIDE DEF R
  <2>2. PICK y \in R : x = <<Over(y[1], f), y[2]>>
      BY <2>1
  <2>3. x[1] = Over(y[1], f)
      BY <2>2
  <2> QED BY <1>4, <2>3
<1>8. CASE TypeIn(ts, s) # Comma /\ TypeIn(ts, s) # Closing(kind)
  <2>1. x \in {}
      BY <1>2, <1>5, <1>8, MoreMissing
  <2> QED BY <2>1
<1> QED BY <1>6, <1>7, <1>8, Zenon

LEMMA BeyondNothing ==
    ASSUME NEW node, NEW X, \A x \in X : IsMap(x[1])
    PROVE  Beyond(node, Nothing, X) = {<<Whole(node, x[1]), x[2]>> : x \in X}
<1>1. ASSUME NEW x \in X PROVE Over(x[1], Nothing) = x[1]
    BY OverNothing DEF IsMap
<1> QED BY <1>1 DEF Beyond

LEMMA ArrayOpens ==
    ASSUME NEW d, NEW L \in Nat, Long(d, L), NEW i, NEW s \in 1..L, Skips(d, i, s),
           NEW next, Skips(d, s + 1, next),
           TypeIn(d, s) = OpenArray, TypeIn(d, next) # CloseArray
    PROVE  ValueAt(Entries(d), d, i)
              = Through(d, NewNode(EmptyArray), ValueAt(Entries(d), d, s + 1))
<1> DEFINE node == NewNode(EmptyArray)
           row == Entries(d)[<<"array", s + 1, 0>>]
           all == Followed(Entries(d), d, "array", 0 + 1, 0, s + 1)
<1>1. /\ \A g : Whole(node, g) = Array(g)
      /\ Becomes(node, "array", 0 + 1, 0, Nothing)
  <2>1. Unfinished(node) /\ node.value = Array(Nothing)
      BY DEF NewNode, EmptyArray, Array, IsArray, Unfinished
  <2>2. DOMAIN Nothing = 0..(0 - 1) /\ 0 \in Nat
      BY NothingInside
  <2> HIDE DEF node
  <2> QED BY <2>1, <2>2, ArrayNode
<1>2. row = all
  <2>1. "array" \in Nesting /\ s + 1 \in 1..(L + 1) /\ 0 \in Nat
      BY DEF Nesting
  <2>2. row = EntriesAt(Entries(d), d, <<"array", s + 1, 0>>)
      BY <2>1, EntriesMade
  <2>3. EntriesAt(Entries(d), d, <<"array", s + 1, 0>>) = ItemsAt(Entries(d), d, s + 1, 0)
      BY Zenon DEF EntriesAt
  <2> QED BY <2>2, <2>3, Zenon DEF ItemsAt, Followed
<1>3. ValueAt(Entries(d), d, i) = {<<Array(x[1]), x[2]>> : x \in row}
    BY ValueItems
<1>4. \A x \in all : IsMap(x[1])
    BY FollowedMaps
<1>5. Beyond(node, Nothing, all) = Through(d, node, ValueAt(Entries(d), d, s + 1))
    BY <1>1, FollowedThrough
<1> HIDE DEF node, row, all
<1>6. Beyond(node, Nothing, all) = {<<Whole(node, x[1]), x[2]>> : x \in all}
    BY <1>4, BeyondNothing, Zenon
<1>7. {<<Whole(node, x[1]), x[2]>> : x \in all} = {<<Array(x[1]), x[2]>> : x \in all}
  <2>1. ASSUME NEW x PROVE <<Whole(node, x[1]), x[2]>> = <<Array(x[1]), x[2]>>
      BY <1>1, Zenon
  <2> QED BY <2>1
<1>8. ValueAt(Entries(d), d, i) = Through(d, node, ValueAt(Entries(d), d, s + 1))
    BY <1>2, <1>3, <1>5, <1>6, <1>7, Zenon
<1> QED BY <1>8 DEF node

LEMMA MembersMaps ==
    ASSUME NEW P, NEW d, NEW j
    PROVE  \A x \in MembersAt(P, d, j) : IsMap(x[1])
<1> SUFFICES ASSUME NEW x \in MembersAt(P, d, j) PROVE IsMap(x[1])
    OBVIOUS
<1>1. PICK s, colon : Skips(d, j, s) /\ Skips(d, s + 1, colon)
    BY DEF Skips
<1>2. CASE TypeIn(d, s) = "string" /\ TypeIn(d, colon) = Colon
  <2>1. x \in Followed(P, d, "object", 0, d[s].value.text, colon + 1)
      BY <1>1, <1>2, MembersNamed
  <2> QED BY <2>1, FollowedMaps
<1>3. CASE ~(TypeIn(d, s) = "string" /\ TypeIn(d, colon) = Colon)
  <2>1. x \in {}
      BY <1>1, <1>3, MembersMissing
  <2> QED BY <2>1
<1> QED BY <1>2, <1>3

LEMMA ObjectOpens ==
    ASSUME NEW d, NEW L \in Nat, Long(d, L), NEW i, NEW s \in 1..L, Skips(d, i, s),
           TypeIn(d, s) = OpenObject
    PROVE  ValueAt(Entries(d), d, i) = NameRest(d, NewNode(EmptyObject), s + 1)
<1> DEFINE node == NewNode(EmptyObject)
           X == MembersAt(Entries(d), d, s + 1)
<1>1. /\ Unfinished(node) /\ node.value = EmptyObject /\ node.name = <<>>
      /\ EmptyObject = Object(Nothing)
    BY DEF NewNode, EmptyObject, Object, IsObject, Unfinished
<1>2. /\ \A g : Whole(node, g) = Object(g)
      /\ Contents(node) = Nothing
  <2> HIDE DEF node
  <2>1. node.value = Object(Nothing)
      BY <1>1, Zenon
  <2> QED BY <1>1, <2>1, ObjectNode
<1>3. PICK next : Skips(d, s + 1, next)
    BY DEF Skips
<1>4. next = Skip(d, s + 1)
    BY <1>3 DEF Skips
<1> HIDE DEF node, X
<1>5. CASE TypeIn(d, next) = CloseObject
  <2>1. ValueAt(Entries(d), d, i) = {<<EmptyObject, next + 1>>}
      BY <1>3, <1>5, ValueNoMembers
  <2>2. NameRest(d, node, s + 1) = {<<EmptyObject, next + 1>>}
      BY <1>1, <1>4, <1>5, Zenon DEF NameRest, CloseObject
  <2> QED BY <2>1, <2>2 DEF node
<1>6. CASE TypeIn(d, next) # CloseObject
  <2>1. s + 1 \in 1..(L + 1)
      OBVIOUS
  <2>2. Entries(d)[<<"object", s + 1, 0>>] = X
      BY <2>1, MembersInTable DEF X
  <2>3. ValueAt(Entries(d), d, i) = {<<Object(x[1]), x[2]>> : x \in X}
      BY <1>3, <1>6, <2>2, ValueMembers
  <2>4. NameRest(d, node, s + 1) = Beyond(node, Nothing, X)
      BY <1>2, <1>4, <1>6, Zenon DEF NameRest, MembersRest, CloseObject, X
  <2>5. \A x \in X : IsMap(x[1])
      BY MembersMaps DEF X
  <2>6. Beyond(node, Nothing, X) = {<<Whole(node, x[1]), x[2]>> : x \in X}
      BY <2>5, BeyondNothing, Zenon
  <2>7. {<<Whole(node, x[1]), x[2]>> : x \in X} = {<<Object(x[1]), x[2]>> : x \in X}
    <3>1. ASSUME NEW x PROVE <<Whole(node, x[1]), x[2]>> = <<Object(x[1]), x[2]>>
        BY <1>2, Zenon
    <3> QED BY <3>1
  <2> QED BY <2>3, <2>4, <2>6, <2>7, Zenon DEF node
<1> QED BY <1>5, <1>6

(* The node once a name is read.                                           *)
Named(node, name) == [value |-> WithPlace(node.value, name), name |-> name]

LEMMA NameOpens ==
    ASSUME NEW d, NEW node, WellMade(node), IsObject(node.value), NEW i,
           NEW s, Skips(d, i, s), NEW colon, Skips(d, s + 1, colon),
           TypeIn(d, s) = "string", TypeIn(d, colon) = Colon, NEW name, name = d[s].value.text
    PROVE  /\ WellMade(Named(node, name)) /\ IsObject(Named(node, name).value)
           /\ NameRest(d, node, i)
                 = Through(d, Named(node, name), ValueAt(Entries(d), d, colon + 1))
<1> DEFINE after == Named(node, name)
<1>1. PICK f : node.value = Object(f)
  <2>1. PICK f : \/ node.value = Object(f)
                 \/ \E n \in Nat : DOMAIN f = 0..(n - 1) /\ node.value = Array(f)
      BY DEF WellMade
  <2>2. node.value # Array(f)
      BY DEF IsObject, Array
  <2> QED BY <2>1, <2>2, Zenon
<1>2. Unfinished(node)
    BY DEF WellMade
<1>3. Contents(node) = f /\ \A g : Whole(node, g) = Object(g)
    BY <1>1, <1>2, ObjectNode
<1> DEFINE u == Member(node.value, name)
           h == Put(f, name, u)
<1>4. /\ after.value = Object(h) /\ after.name = name
      /\ after = [value |-> after.value, name |-> after.name]
  <2>1. ~IsNull(node.value) /\ node.value.members = f
      BY <1>1 DEF IsNull, Object
  <2>2. WithPlace(node.value, name) = Object(h)
      BY <2>1, Zenon DEF WithPlace, WithMember
  <2> HIDE DEF h, u
  <2> QED BY <2>2 DEF Named
<1> HIDE DEF after, u
<1>5. IsObject(after.value) /\ Unfinished(after)
    BY <1>4 DEF IsObject, Object, Unfinished
<1>6. WellMade(after)
    BY <1>4, <1>5 DEF WellMade
<1>7. Becomes(after, "object", 0, name, h) /\ \A g : Whole(after, g) = Object(g)
    BY <1>4, <1>5, ObjectNode
<1>8. \A v : Put(h, name, v) = Put(f, name, v)
    BY PutPut
<1> HIDE DEF h
<1>9. Becomes(after, "object", 0, name, f)
    BY <1>7, <1>8, Zenon DEF Becomes
<1> DEFINE all == Followed(Entries(d), d, "object", 0, name, colon + 1)
<1>10. Beyond(after, f, all) = Through(d, after, ValueAt(Entries(d), d, colon + 1))
    BY <1>9, FollowedThrough
<1>11. MembersAt(Entries(d), d, i) = all
    BY MembersNamed
<1> HIDE DEF all
<1>12. Beyond(after, f, all) = Beyond(node, f, all)
  <2>1. ASSUME NEW x
        PROVE  <<Whole(after, Over(x[1], f)), x[2]>> = <<Whole(node, Over(x[1], f)), x[2]>>
      BY <1>3, <1>7, Zenon
  <2> QED BY <2>1 DEF Beyond
<1>13. NameRest(d, node, i) = MembersRest(d, node, i)
  <2>1. TypeIn(d, Skip(d, i)) = "string"
      BY DEF Skips
  <2>2. TypeIn(d, Skip(d, i)) # "}"
      BY <2>1, Zenon
  <2> QED BY <2>2, Zenon DEF NameRest
<1>14. MembersRest(d, node, i) = Beyond(node, f, all)
    BY <1>3, <1>11, Zenon DEF MembersRest
<1> QED BY <1>5, <1>6, <1>10, <1>12, <1>13, <1>14, Zenon DEF after

LEMMA NameMissing ==
    ASSUME NEW d, NEW node, NEW i, NEW s, Skips(d, i, s), NEW colon, Skips(d, s + 1, colon),
           ~(TypeIn(d, s) = "string" /\ TypeIn(d, colon) = Colon),
           ~(TypeIn(d, s) = CloseObject /\ node.name = <<>>)
    PROVE  NameRest(d, node, i) = {}
<1>1. MembersAt(Entries(d), d, i) = {}
    BY MembersMissing
<1>2. NameRest(d, node, i) = MembersRest(d, node, i)
    BY Zenon DEF Skips, NameRest, CloseObject
<1>3. Beyond(node, Contents(node), {}) = {}
    BY DEF Beyond
<1> QED BY <1>1, <1>2, <1>3, Zenon DEF MembersRest

-----------------------------------------------------------------------------
(* The reader follows the grammar: as long as it reads, what it holds and  *)
(* what the grammar has from here on make up what the document is the text *)
(* of; and a document it finds an error in is the text of nothing.         *)
Opened(ns, d, i) ==
    \A k \in DOMAIN ns :
        /\ WellMade(ns[k])
        /\ IsObject(ns[k].value) => \E j \in 1..(i - 1) : TypeIn(d, j) = OpenObject
Titled(ns, d, m) ==
    \A k \in 1..m : IsObject(ns[k].value) =>
        \E j \in 1..Len(d) : TypeIn(d, j) = "string" /\ d[j].value.text = ns[k].name

Meant ==
    /\ mode = "value" => Meaning(doc, nodes, Len(nodes), ValueAt(Entries(doc), doc, at))
    /\ mode = "name" => Meaning(doc, nodes, Len(nodes) - 1, NameRest(doc, CurrentNode, at))
    /\ mode = "separator" => Meaning(doc, nodes, Len(nodes) - 1, Rest(doc, CurrentNode, at))
    /\ errors # <<>> => Json(doc) = {}
    /\ mode = "done" /\ errors = <<>> => result = Json(doc)

Reading ==
    /\ mode \in Active => Opened(nodes, doc, at)
    /\ mode \in {"value", "separator"} => Titled(nodes, doc, Len(nodes))
    /\ mode = "name" => Titled(nodes, doc, Len(nodes) - 1)
    /\ mode = "separator" => at > 1 /\ TypeIn(doc, at - 1) \in ValueEnds
    /\ Meant

PlainDoc(d) == PlainComments(d) /\ PlainNames(d)

LEMMA EndsOfValues ==
    /\ ValueEnds = {"scalar", "string", CloseObject, CloseArray}
    /\ \A t \in Plain : t \in ValueEnds
    /\ CloseObject \in ValueEnds /\ CloseArray \in ValueEnds
BY Zenon DEF ValueEnds, CloseObject, CloseArray, Plain

LEMMA CommentsArePlain ==
    ASSUME NEW d, NEW L \in Nat, Long(d, L), PlainComments(d), NEW i \in 2..L,
           TypeIn(d, i) = "comment", NEW s, Skips(d, i, s)
    PROVE  /\ ~(TypeIn(d, i - 1) = "string" /\ TypeIn(d, s) = Colon)
           /\ ~(TypeIn(d, i - 1) = OpenArray /\ TypeIn(d, s) = CloseArray)
           /\ TypeIn(d, i - 1) \in ValueEnds =>
                 \/ TypeIn(d, s) \in {Comma, CloseObject, "end"}
                 \/ TypeIn(d, s) = CloseArray /\ \A j \in 1..i : TypeIn(d, j) # OpenObject
<1>1. /\ d[i].type = "comment" /\ TypeIn(d, i - 1) = d[i - 1].type
      /\ \A j \in 1..i : TypeIn(d, j) = d[j].type
    BY DEF TypeIn, Long
<1>2. s = Skip(d, i) /\ i \in 2..Len(d)
    BY DEF Skips, Long
<1>3. /\ ~(d[i - 1].type = "string" /\ TypeIn(d, s) = ":")
      /\ ~(d[i - 1].type = "[" /\ TypeIn(d, s) = "]")
      /\ d[i - 1].type \in ValueEnds =>
            \/ TypeIn(d, s) \in {",", "}", "end"}
            \/ TypeIn(d, s) = "]" /\ \A j \in 1..i : d[j].type # "{"
    BY <1>1, <1>2, Zenon DEF PlainComments
<1> QED BY <1>1, <1>3, Zenon DEF Colon, OpenArray, CloseArray, Comma, CloseObject, OpenObject

LEMMA NamesArePlain ==
    ASSUME NEW d, NEW L \in Nat, Long(d, L), PlainNames(d), NEW s \in 1..L,
           TypeIn(d, s) = Comma, NEW next, Skips(d, s + 1, next), TypeIn(d, next) = CloseObject,
           NEW j \in 1..L, TypeIn(d, j) = "string", DOMAIN d = 1..L
    PROVE  d[j].value.text # <<>>
<1>1. d[s].type = "," /\ d[j].type = "string" /\ TypeIn(d, Skip(d, s + 1)) = "}"
  <2>1. d[s].type = TypeIn(d, s) /\ d[j].type = TypeIn(d, j)
      BY DEF TypeIn, Long
  <2> QED BY <2>1, Zenon DEF Skips, Comma, CloseObject
<1> QED BY <1>1, Zenon DEF PlainNames

LEMMA SameTokens ==
    /\ \A i : TypeAt(i) = TypeIn(doc, i)
    /\ \A i : Skips(doc, i, NonComment(i))
<1>1. \A i : TypeAt(i) = TypeIn(doc, i)
    BY Zenon DEF TypeAt, TypeIn
<1>2. \A i : NonComment(i) = Skip(doc, i)
    BY <1>1 DEF NonComment, Skip
<1> QED BY <1>1, <1>2, Zenon DEF Skips

(* The next token, if it is not the end.                                   *)
LEMMA TokenTaken ==
    ASSUME ReaderInv, NEW i \in 1..(Len(doc) + 1), TypeIn(doc, NonComment(i)) # "end"
    PROVE  /\ NonComment(i) \in i..Len(doc) /\ NonComment(i) \in 1..Len(doc)
           /\ After(NonComment(i)) = NonComment(i) + 1
<1>1. doc \in Documents
    BY DEF ReaderInv, Shape
<1> DEFINE s == NonComment(i)
<1>2. s \in i..(Len(doc) + 1) /\ TypeAt(s) # "end" /\ Len(doc) \in Nat
    BY <1>1, NonCommentIs, SameTokens, TokensOf
<1> HIDE DEF s
<1>3. s \in Nat \ {0}
    BY <1>2
<1>4. s <= Len(doc)
    BY <1>1, <1>2, <1>3, TokensOf
<1> QED BY <1>2, <1>3, <1>4 DEF After, s

LEMMA FilledWell ==
    ASSUME NEW node, WellMade(node), NEW v
    PROVE  /\ WellMade(Filled(node, v))
           /\ IsObject(Filled(node, v).value) <=> IsObject(node.value)
           /\ Filled(node, v).name = node.name
<1>1. Unfinished(node)
    BY DEF WellMade
<1>2. IsObject(Filled(node, v).value) <=> IsObject(node.value)
    BY <1>1, FilledUnfinished
<1>3. Filled(node, v).name = node.name
    BY <1>1 DEF Filled, Unfinished
<1>4. PICK f : \/ node.value = Object(f)
               \/ \E n \in Nat : DOMAIN f = 0..(n - 1) /\ node.value = Array(f)
    BY DEF WellMade
<1>5. CASE node.value = Object(f)
  <2>1. Becomes(node, "object", 0, node.name, f)
      BY <1>1, <1>5, ObjectNode
  <2> QED BY <1>2, <1>3, <2>1, Zenon DEF Becomes
<1>6. CASE \E n \in Nat : DOMAIN f = 0..(n - 1) /\ node.value = Array(f)
  <2>1. PICK n \in Nat : DOMAIN f = 0..(n - 1) /\ node.value = Array(f)
      BY <1>6
  <2>2. Becomes(node, "array", n + 1, n, f)
      BY <1>1, <2>1, ArrayNode
  <2> QED BY <1>2, <1>3, <2>2, Zenon DEF Becomes
<1> QED BY <1>4, <1>5, <1>6

(* The two ways out of a value.                                            *)
LEMMA OpenedFurther ==
    ASSUME NEW ns, NEW d, NEW i \in Nat, NEW j \in Nat, i <= j, Opened(ns, d, i)
    PROVE  Opened(ns, d, j)
<1>1. \A k \in 1..(i - 1) : k \in 1..(j - 1)
    OBVIOUS
<1> QED BY <1>1, Zenon DEF Opened

LEMMA ReturnMeans ==
    ASSUME ReaderInv, mode \in Active, Opened(nodes, doc, at),
           NEW v, NEW callers, IsStack(callers), Len(callers) <= Len(nodes),
           \A k \in 1..Len(callers) : callers[k] = nodes[k],
           Titled(nodes, doc, Len(callers)),
           at' \in at..(Len(doc) + 1), at' > 1, TypeIn(doc, at' - 1) \in ValueEnds,
           Meaning(doc, nodes, Len(callers), {<<v, at'>>}),
           Return(v, callers)
    PROVE  Reading'
<1>1. /\ doc' = doc /\ errors' = errors /\ errors = <<>>
      /\ Len(callers) \in Nat /\ Len(nodes) \in Nat
      /\ DOMAIN nodes = 1..Len(nodes) /\ DOMAIN callers = 1..Len(callers)
      /\ at \in Nat /\ at' \in Nat /\ at <= at'
    BY TokensOf DEF Return, ReaderInv, Verdict, Shape, IsStack
<1> DEFINE m == Len(callers)
<1>2. CASE callers = <<>>
  <2>1. mode' = "done" /\ nodes' = <<>> /\ result' = {v} /\ m = 0
      BY <1>2 DEF Return
  <2>2. Json(doc) = {v}
      BY <2>1, MeaningOfOne, Zenon
  <2>3. Meant'
      BY <1>1, <2>1, <2>2, Zenon DEF Meant
  <2> QED BY <2>1, <2>3 DEF Reading, Active
<1>3. CASE callers # <<>>
  <2> DEFINE top == Filled(callers[m], v)
  <2>1. /\ mode' = "separator" /\ nodes' = [callers EXCEPT ![m] = top]
        /\ m \in 1..m /\ m \in DOMAIN nodes /\ callers[m] = nodes[m] /\ m \in Nat \ {0}
      BY <1>1, <1>3 DEF Return, IsStack
  <2>2. WellMade(nodes[m])
      BY <2>1, Zenon DEF Opened
  <2>3. /\ WellMade(top)
        /\ IsObject(top.value) <=> IsObject(nodes[m].value)
        /\ top.name = nodes[m].name
      BY <2>1, <2>2, FilledWell
  <2> HIDE DEF top, m
  <2>4. /\ Len(nodes') = m /\ DOMAIN nodes' = 1..m /\ nodes'[m] = top
        /\ \A k \in 1..(m - 1) : nodes'[k] = nodes[k]
    <3>1. /\ callers \in Seq({callers[k] : k \in DOMAIN callers}) /\ m = Len(callers)
        BY DEF IsStack, m
    <3>2. Len([callers EXCEPT ![m] = top]) = m /\ DOMAIN [callers EXCEPT ![m] = top] = 1..m
        BY <1>1, <3>1
    <3>3. /\ [callers EXCEPT ![m] = top][m] = top
          /\ \A k \in 1..(m - 1) : [callers EXCEPT ![m] = top][k] = callers[k]
        BY <1>1, <2>1, <3>1
    <3>4. \A k \in 1..(m - 1) : callers[k] = nodes[k]
        BY <1>1, <3>1
    <3> QED BY <2>1, <3>2, <3>3, <3>4, Zenon
  <2>5. \A k \in 1..m : k \in 1..(m - 1) \/ k = m
      BY <2>1
  <2>6. \A k \in 1..m : k \in DOMAIN nodes
      BY <1>1, <2>1 DEF m
  <2>7. Opened(nodes, doc, at')
      BY <1>1, OpenedFurther
  <2>8. Opened(nodes', doc, at')
    <3> SUFFICES ASSUME NEW k \in 1..m
                 PROVE  /\ WellMade(nodes'[k])
                        /\ IsObject(nodes'[k].value) =>
                              \E j \in 1..(at' - 1) : TypeIn(doc, j) = OpenObject
        BY <2>4, Zenon DEF Opened
    <3>1. CASE k = m
        BY <2>1, <2>3, <2>4, <2>7, <3>1, Zenon DEF Opened
    <3>2. CASE k \in 1..(m - 1)
        BY <2>4, <2>6, <2>7, <3>2, Zenon DEF Opened
    <3> QED BY <2>5, <3>1, <3>2, Zenon
  <2>9. Titled(nodes', doc, m)
    <3> SUFFICES ASSUME NEW k \in 1..m, IsObject(nodes'[k].value)
                 PROVE  \E j \in 1..Len(doc) : /\ TypeIn(doc, j) = "string"
                                               /\ doc[j].value.text = nodes'[k].name
        BY Zenon DEF Titled
    <3>1. IsObject(nodes[k].value) /\ nodes'[k].name = nodes[k].name
        BY <2>3, <2>4, <2>5, Zenon
    <3> QED BY <3>1, Zenon DEF Titled, m
  <2>10. Meaning(doc, nodes', m - 1, Rest(doc, top, at'))
    <3>1. Meaning(doc, nodes, m - 1, Through(doc, nodes[m], {<<v, at'>>}))
        BY <2>1, MeaningRises DEF m
    <3>2. Through(doc, nodes[m], {<<v, at'>>}) = Rest(doc, top, at')
      <4>1. Through(doc, nodes[m], {<<v, at'>>}) = Rest(doc, Filled(nodes[m], v), at')
          BY ThroughOne
      <4>2. top = Filled(nodes[m], v)
          BY <2>1, Zenon DEF top
      <4> QED BY <4>1, <4>2, Zenon
    <3>3. Meaning(doc, nodes, m - 1, Rest(doc, top, at'))
        BY <3>1, <3>2, Zenon
    <3>4. m - 1 \in Nat
        BY <2>1
    <3> QED BY <2>4, <3>3, <3>4, MeaningAgrees, Zenon
  <2>11. CurrentNode' = top
      BY <2>4, Zenon DEF CurrentNode
  <2>12. Meant'
      BY <1>1, <2>1, <2>4, <2>10, <2>11 DEF Meant
  <2>13. \A d : Titled(nodes', d, m) => Titled(nodes', d, Len(nodes'))
      BY <2>4, Zenon
  <2> QED BY <1>1, <2>1, <2>8, <2>9, <2>12, <2>13 DEF Reading, Active
<1> QED BY <1>2, <1>3

LEMMA ErrorMeans ==
    ASSUME ReaderInv, NEW i, NEW callers, Json(doc) = {}, AddError(i, callers)
    PROVE  Reading'
<1>1. /\ doc' = doc /\ mode' \in {"done", "recover"} /\ errors' = Append(errors, i)
    BY DEF AddError, ReturnFalse
<1>2. errors' # <<>>
    BY <1>1 DEF ReaderInv, Verdict
<1>3. Meant'
    BY <1>1, <1>2 DEF Meant
<1> QED BY <1>1, <1>3 DEF Reading, Active

(* The callers of the value on top.                                        *)
LEMMA Below ==
    ASSUME ReaderInv, nodes # <<>>
    PROVE  /\ IsStack(Callers) /\ Len(Callers) = Len(nodes) - 1
           /\ Len(nodes) \in Nat \ {0} /\ Len(nodes) \in DOMAIN nodes
           /\ DOMAIN nodes = 1..Len(nodes)
           /\ \A k \in 1..Len(Callers) : Callers[k] = nodes[k]
<1>1. IsStack(nodes)
    BY DEF ReaderInv, Shape
<1>2. /\ IsStack(Callers) /\ Len(Callers) = Len(nodes) - 1
    BY <1>1, PoppedStack DEF Callers
<1>3. nodes \in Seq({nodes[k] : k \in DOMAIN nodes})
    BY <1>1 DEF IsStack
<1>4. Len(nodes) \in Nat \ {0} /\ Len(nodes) \in DOMAIN nodes /\ DOMAIN nodes = 1..Len(nodes)
    BY <1>3
<1>5. \A k \in 1..(Len(nodes) - 1) : SubSeq(nodes, 1, Len(nodes) - 1)[k] = nodes[k]
    BY <1>3, <1>4
<1> QED BY <1>2, <1>4, <1>5 DEF Callers

-----------------------------------------------------------------------------
(* The steps of readValue.                                                 *)
Follows == ReaderInv /\ PlainDoc(doc) /\ Reading

LEMMA Known ==
    ASSUME Follows
    PROVE  /\ ReaderInv /\ Len(doc) \in Nat /\ Long(doc, Len(doc)) /\ DOMAIN doc = 1..Len(doc)
           /\ at \in 1..(Len(doc) + 1) /\ NonComment(at) \in at..(Len(doc) + 1)
           /\ Skips(doc, at, NonComment(at))
           /\ IsStack(nodes) /\ Len(nodes) \in Nat /\ DOMAIN nodes = 1..Len(nodes)
           /\ TypeIn(doc, NonComment(at)) # "end" =>
                 /\ NonComment(at) \in at..Len(doc) /\ NonComment(at) \in 1..Len(doc)
                 /\ After(NonComment(at)) = NonComment(at) + 1
<1>1. ReaderInv /\ doc \in Documents /\ at \in 1..(Len(doc) + 1) /\ IsStack(nodes)
    BY DEF Follows, ReaderInv, Shape
<1>2. Len(nodes) \in Nat /\ DOMAIN nodes = 1..Len(nodes)
    BY <1>1 DEF IsStack
<1>3. Long(doc, Len(doc))
    BY DEF Long
<1>4. Len(doc) \in Nat /\ DOMAIN doc = 1..Len(doc)
    BY <1>1, TokensOf
<1>5. NonComment(at) \in at..(Len(doc) + 1)
    BY <1>1, NextToken
<1>6. Skips(doc, at, NonComment(at))
    BY SameTokens
<1>7. TypeIn(doc, NonComment(at)) # "end" =>
         /\ NonComment(at) \in at..Len(doc) /\ NonComment(at) \in 1..Len(doc)
         /\ After(NonComment(at)) = NonComment(at) + 1
    BY <1>1, TokenTaken
<1> QED BY <1>1, <1>2, <1>3, <1>4, <1>5, <1>6, <1>7

(* A token that is no comment is the next one.                             *)
LEMMA NoComment ==
    ASSUME Follows, NEW i \in 1..(Len(doc) + 1), TypeIn(doc, i) # "comment"
    PROVE  Skips(doc, i, i)
<1>1. PICK s \in i..(Len(doc) + 1) : Skips(doc, i, s) /\ (TypeIn(doc, i) # "comment" => s = i)
    BY Known, SkipIs
<1> QED BY <1>1

LEMMA ReadScalarMeans ==
    ASSUME Follows, ReadScalar
    PROVE  Reading'
<1> DEFINE s == NonComment(at)
<1>1. /\ mode = "value" /\ TypeIn(doc, s) \in Plain
      /\ at' = After(s) /\ Return(doc[s].value, nodes)
    BY SameTokens, Zenon DEF ReadScalar, Plain
<1>2. TypeIn(doc, s) # "end" /\ TypeIn(doc, s) \in ValueEnds
    BY <1>1, TokensDiffer, EndsOfValues
<1>3. /\ s \in at..Len(doc) /\ at' = s + 1 /\ Skips(doc, at, s)
    BY <1>1, <1>2, Known
<1> DEFINE v == doc[s].value
<1>4. ValueAt(Entries(doc), doc, at) = {<<v, s + 1>>}
    BY <1>1, <1>3, ValuePlain
<1> HIDE DEF s, v
<1>5. Meaning(doc, nodes, Len(nodes), {<<v, at'>>})
    BY <1>1, <1>3, <1>4, Zenon DEF Follows, Reading, Meant
<1>6. at' \in at..(Len(doc) + 1) /\ at' > 1 /\ at' - 1 = s
    BY <1>3, Known
<1>7. Opened(nodes, doc, at) /\ Titled(nodes, doc, Len(nodes)) /\ mode \in Active
    BY <1>1 DEF Follows, Reading, Active
<1>8. /\ \A k \in 1..Len(nodes) : nodes[k] = nodes[k]
      /\ Len(nodes) <= Len(nodes) /\ IsStack(nodes) /\ ReaderInv
      /\ TypeIn(doc, at' - 1) \in ValueEnds /\ Return(v, nodes)
    BY <1>1, <1>2, <1>6, Known DEF s, v
<1> QED BY <1>5, <1>6, <1>7, <1>8, ReturnMeans

LEMMA MissingValueMeans ==
    ASSUME Follows, MissingValue
    PROVE  Reading'
<1> DEFINE s == NonComment(at)
<1>1. mode = "value" /\ AddError(s, nodes)
    BY DEF MissingValue
<1>2. TypeIn(doc, s) \notin Plain /\ TypeIn(doc, s) \notin {OpenArray, OpenObject}
    BY SameTokens, Zenon DEF MissingValue, Plain, OpenArray, OpenObject
<1>3. ValueAt(Entries(doc), doc, at) = {}
    BY <1>2, Known, ValueMissing
<1>4. Meaning(doc, nodes, Len(nodes), {})
    BY <1>1, <1>3, Zenon DEF Follows, Reading, Meant
<1>5. Json(doc) = {}
    BY <1>4, Known, MeaningOfNone
<1> QED BY <1>1, <1>5, ErrorMeans, Known

(* A node goes on top.                                                     *)
LEMMA PushedMeans ==
    ASSUME Follows, NEW node
    PROVE  LET ns == Append(nodes, node)
           IN  /\ Len(ns) = Len(nodes) + 1 /\ DOMAIN ns = 1..(Len(nodes) + 1)
               /\ ns[Len(nodes) + 1] = node
               /\ \A k \in 1..Len(nodes) : ns[k] = nodes[k]
<1>1. nodes \in Seq({nodes[k] : k \in DOMAIN nodes})
    BY Known DEF IsStack
<1> DEFINE S == {nodes[k] : k \in DOMAIN nodes} \cup {node}
<1>2. nodes \in Seq(S) /\ node \in S
    BY <1>1
<1> HIDE DEF S
<1> QED BY <1>2

LEMMA BeginObjectMeans ==
    ASSUME Follows, BeginObject
    PROVE  Reading'
<1> DEFINE s == NonComment(at)
           node == NewNode(EmptyObject)
           ns == Append(nodes, node)
<1>1. /\ mode = "value" /\ mode' = "name" /\ doc' = doc /\ errors' = errors
      /\ nodes' = ns /\ at' = After(s)
    BY DEF BeginObject
<1>2. TypeIn(doc, s) = OpenObject
    BY SameTokens, Zenon DEF BeginObject, OpenObject
<1>3. TypeIn(doc, s) # "end"
    BY <1>2, TokensDiffer
<1>4. s \in at..Len(doc) /\ s \in 1..Len(doc) /\ at' = s + 1 /\ Skips(doc, at, s)
    BY <1>1, <1>3, Known
<1>5. WellMade(node)
    BY DEF WellMade, Unfinished, NewNode, EmptyObject, Object, IsObject
<1>6. ValueAt(Entries(doc), doc, at) = NameRest(doc, node, s + 1)
    BY <1>2, <1>4, Known, ObjectOpens
<1> HIDE DEF s, node
<1>7. /\ Len(ns) = Len(nodes) + 1 /\ DOMAIN ns = 1..(Len(nodes) + 1)
      /\ ns[Len(nodes) + 1] = node
      /\ \A k \in 1..Len(nodes) : ns[k] = nodes[k]
    BY PushedMeans, Zenon
<1> HIDE DEF ns
<1>8. /\ Meaning(doc, nodes, Len(nodes), ValueAt(Entries(doc), doc, at))
      /\ Opened(nodes, doc, at) /\ Titled(nodes, doc, Len(nodes))
      /\ errors = <<>>
    BY <1>1 DEF Follows, Reading, Meant, Active, ReaderInv, Verdict
<1>9. Meaning(doc, ns, Len(nodes), NameRest(doc, node, at'))
    BY <1>4, <1>6, <1>7, <1>8, Known, MeaningAgrees
<1>10. Opened(ns, doc, at')
  <2>1. Opened(nodes, doc, at')
      BY <1>4, <1>8, Known, OpenedFurther
  <2>2. s \in 1..(at' - 1)
      BY <1>4
  <2>3. \A k \in 1..(Len(nodes) + 1) : k \in 1..Len(nodes) \/ k = Len(nodes) + 1
      BY Known
  <2> QED BY <1>2, <1>5, <1>7, <2>1, <2>2, <2>3, Known, Zenon DEF Opened
<1>11. Titled(ns, doc, Len(nodes))
    BY <1>7, <1>8, Zenon DEF Titled
<1>12. Len(nodes') - 1 = Len(nodes) /\ CurrentNode' = node
    BY <1>1, <1>7, Known DEF CurrentNode
<1>13. Meant'
    BY <1>1, <1>8, <1>9, <1>12 DEF Meant
<1> QED BY <1>1, <1>10, <1>11, <1>12, <1>13 DEF Reading

LEMMA BeginArrayMeans ==
    ASSUME Follows, BeginArray
    PROVE  Reading'
<1> DEFINE s == NonComment(at)
<1>1. mode = "value" /\ mode \in Active
    BY DEF BeginArray, Active
<1>2. TypeIn(doc, s) = OpenArray
    BY SameTokens, Zenon DEF BeginArray, OpenArray
<1>3. TypeIn(doc, s) # "end"
    BY <1>2, TokensDiffer
<1>4. /\ s \in at..Len(doc) /\ s \in 1..Len(doc) /\ Skips(doc, at, s)
      /\ s + 1 \in 1..(Len(doc) + 1) /\ After(s) = s + 1
    BY <1>3, Known
<1>5. /\ Meaning(doc, nodes, Len(nodes), ValueAt(Entries(doc), doc, at))
      /\ Opened(nodes, doc, at) /\ Titled(nodes, doc, Len(nodes))
      /\ errors = <<>>
    BY <1>1 DEF Follows, Reading, Meant, ReaderInv, Verdict
<1>6. \/ /\ TypeIn(doc, s + 1) = CloseArray
         /\ at' = After(s + 1) /\ Return(EmptyArray, nodes)
      \/ /\ TypeIn(doc, s + 1) # CloseArray
         /\ at' = After(s) /\ mode' = "value" /\ nodes' = Append(nodes, NewNode(EmptyArray))
         /\ doc' = doc /\ errors' = errors
    BY SameTokens, Zenon DEF BeginArray, CloseArray
<1> HIDE DEF s
<1>7. CASE /\ TypeIn(doc, s + 1) = CloseArray
           /\ at' = After(s + 1) /\ Return(EmptyArray, nodes)
  <2>1. CloseArray # "comment" /\ CloseArray # "end" /\ CloseArray \in ValueEnds
    <3>1. CloseArray # "comment"
        BY Zenon DEF CloseArray
    <3> QED BY <3>1, TokensDiffer, EndsOfValues
  <2>2. Skips(doc, s + 1, s + 1) /\ s + 1 \in 1..Len(doc)
    <3>1. Skips(doc, s + 1, s + 1)
        BY <1>4, <1>7, <2>1, NoComment
    <3>2. s + 1 <= Len(doc)
        BY <1>4, <1>7, <2>1, Known DEF TypeIn
    <3> QED BY <1>4, <3>1, <3>2, Known
  <2>3. After(s + 1) = s + 2 /\ (s + 1) + 1 = s + 2
      BY <1>4, <2>2, Known DEF After
  <2>4. ValueAt(Entries(doc), doc, at) = {<<EmptyArray, (s + 1) + 1>>}
      BY <1>2, <1>4, <1>7, <2>2, ValueNoItems
  <2>5. Meaning(doc, nodes, Len(nodes), {<<EmptyArray, at'>>})
      BY <1>5, <1>7, <2>3, <2>4, Zenon
  <2>6. at' \in at..(Len(doc) + 1) /\ at' > 1 /\ at' - 1 = s + 1
      BY <1>4, <1>7, <2>2, <2>3, Known
  <2>7. /\ \A k \in 1..Len(nodes) : nodes[k] = nodes[k]
        /\ Len(nodes) <= Len(nodes) /\ IsStack(nodes) /\ ReaderInv
        /\ TypeIn(doc, at' - 1) \in ValueEnds /\ Return(EmptyArray, nodes)
      BY <1>7, <2>1, <2>6, Known
  <2> QED BY <1>1, <1>5, <2>5, <2>6, <2>7, ReturnMeans
<1>8. CASE /\ TypeIn(doc, s + 1) # CloseArray
           /\ at' = After(s) /\ mode' = "value" /\ nodes' = Append(nodes, NewNode(EmptyArray))
           /\ doc' = doc /\ errors' = errors
  <2> DEFINE node == NewNode(EmptyArray)
             ns == Append(nodes, node)
  <2>1. PICK next \in (s + 1)..(Len(doc) + 1) :
           Skips(doc, s + 1, next) /\ (TypeIn(doc, s + 1) # "comment" => next = s + 1)
      BY <1>4, Known, SkipIs
  <2>2. TypeIn(doc, next) # CloseArray
    <3>1. CASE TypeIn(doc, s + 1) # "comment"
        BY <1>8, <2>1, <3>1
    <3>2. CASE TypeIn(doc, s + 1) = "comment"
      <4>1. s + 1 <= Len(doc)
          BY <1>4, <3>2, Known DEF TypeIn
      <4>2. s + 1 \in 2..Len(doc) /\ (s + 1) - 1 = s
          BY <1>4, <4>1, Known
      <4>3. PlainComments(doc)
          BY DEF Follows, PlainDoc
      <4> QED BY <1>2, <2>1, <3>2, <4>2, <4>3, Known, CommentsArePlain
    <3> QED BY <3>1, <3>2
  <2>3. ValueAt(Entries(doc), doc, at) = Through(doc, node, ValueAt(Entries(doc), doc, s + 1))
      BY <1>2, <1>4, <2>1, <2>2, Known, ArrayOpens
  <2>4. WellMade(node) /\ ~IsObject(node.value)
    <3>1. Unfinished(node) /\ node.value = Array(Nothing) /\ ~IsObject(node.value)
        BY DEF Unfinished, NewNode, EmptyArray, Array, IsArray, IsObject
    <3>2. DOMAIN Nothing = 0..(0 - 1) /\ 0 \in Nat
        BY NothingInside
    <3> HIDE DEF node
    <3> QED BY <3>1, <3>2 DEF WellMade
  <2> HIDE DEF node
  <2>5. /\ Len(ns) = Len(nodes) + 1 /\ DOMAIN ns = 1..(Len(nodes) + 1)
        /\ ns[Len(nodes) + 1] = node
        /\ \A k \in 1..Len(nodes) : ns[k] = nodes[k]
      BY PushedMeans, Zenon
  <2>6. nodes' = ns
      BY <1>8 DEF node
  <2> HIDE DEF ns
  <2>7. Meaning(doc, ns, Len(nodes) + 1, ValueAt(Entries(doc), doc, s + 1))
    <3>1. ValueAt(Entries(doc), doc, at)
             = Through(doc, ns[Len(nodes) + 1], ValueAt(Entries(doc), doc, s + 1))
        BY <2>3, <2>5, Zenon
    <3>2. Len(nodes) \in Nat
        BY Known
    <3> QED BY <1>5, <2>5, <3>1, <3>2, MeaningDeepens
  <2>8. \A k \in 1..(Len(nodes) + 1) : k \in 1..Len(nodes) \/ k = Len(nodes) + 1
      BY Known
  <2>9. Opened(ns, doc, at')
    <3>1. Opened(nodes, doc, at')
        BY <1>4, <1>5, <1>8, Known, OpenedFurther
    <3> QED BY <2>4, <2>5, <2>8, <3>1, Known, Zenon DEF Opened
  <2>10. Titled(ns, doc, Len(ns))
      BY <1>5, <2>4, <2>5, <2>8, Zenon DEF Titled
  <2>11. Meant'
    <3>1. Meaning(doc, ns, Len(ns), ValueAt(Entries(doc), doc, at'))
        BY <1>4, <1>8, <2>5, <2>7, Zenon
    <3> QED BY <1>5, <1>8, <2>6, <3>1 DEF Meant
  <2> QED BY <1>8, <2>6, <2>9, <2>10, <2>11 DEF Reading
<1> QED BY <1>6, <1>7, <1>8

-----------------------------------------------------------------------------
(* The steps of readObject.                                                *)

LEMMA InName ==
    ASSUME Follows, mode = "name"
    PROVE  /\ mode \in Active /\ nodes # <<>> /\ errors = <<>>
           /\ WellMade(CurrentNode) /\ IsObject(CurrentNode.value)
           /\ Meaning(doc, nodes, Len(nodes) - 1, NameRest(doc, CurrentNode, at))
           /\ Opened(nodes, doc, at) /\ Titled(nodes, doc, Len(nodes) - 1)
           /\ Len(nodes) - 1 \in Nat
<1>1. nodes # <<>> /\ InObject /\ ReaderInv /\ errors = <<>>
    BY DEF Follows, ReaderInv, Shape, Verdict, Active
<1>2. Len(nodes) \in DOMAIN nodes /\ Len(nodes) - 1 \in Nat
    BY <1>1, Below
<1>3. /\ Meaning(doc, nodes, Len(nodes) - 1, NameRest(doc, CurrentNode, at))
      /\ Opened(nodes, doc, at) /\ Titled(nodes, doc, Len(nodes) - 1)
    BY DEF Follows, Reading, Meant, Active
<1>4. WellMade(CurrentNode) /\ IsObject(CurrentNode.value)
    BY <1>1, <1>2, <1>3, Zenon DEF Opened, CurrentNode, InObject
<1> QED BY <1>1, <1>2, <1>3, <1>4 DEF Active

(* The object or array on top ends with the token at s.                    *)
LEMMA ClosingMeans ==
    ASSUME Follows, mode \in Active, nodes # <<>>,
           Opened(nodes, doc, at), Titled(nodes, doc, Len(nodes) - 1),
           TypeIn(doc, NonComment(at)) \in {CloseObject, CloseArray},
           at' = After(NonComment(at)),
           Meaning(doc, nodes, Len(nodes) - 1, {<<CurrentNode.value, NonComment(at) + 1>>}),
           Return(CurrentNode.value, Callers)
    PROVE  Reading'
<1> DEFINE s == NonComment(at)
<1>1. TypeIn(doc, s) # "end" /\ TypeIn(doc, s) \in ValueEnds
    BY TokensDiffer, EndsOfValues
<1>2. s \in at..Len(doc) /\ at' = s + 1
    BY <1>1, Known
<1> HIDE DEF s
<1>3. at' \in at..(Len(doc) + 1) /\ at' > 1 /\ at' - 1 = s
    BY <1>2, Known
<1>4. /\ IsStack(Callers) /\ Len(Callers) = Len(nodes) - 1 /\ Len(Callers) <= Len(nodes)
      /\ \A k \in 1..Len(Callers) : Callers[k] = nodes[k]
  <2>1. ReaderInv
      BY DEF Follows
  <2>2. /\ IsStack(Callers) /\ Len(Callers) = Len(nodes) - 1 /\ Len(nodes) \in Nat
        /\ \A k \in 1..Len(Callers) : Callers[k] = nodes[k]
      BY <2>1, Below
  <2>3. Len(nodes) - 1 <= Len(nodes)
      BY <2>2
  <2> QED BY <2>2, <2>3, Zenon
<1>5. Titled(nodes, doc, Len(Callers))
    BY <1>4, Zenon
<1>6. Meaning(doc, nodes, Len(Callers), {<<CurrentNode.value, at'>>})
    BY <1>2, <1>4, Zenon DEF s
<1>7. TypeIn(doc, at' - 1) \in ValueEnds /\ ReaderInv
    BY <1>1, <1>3, Known
<1> QED BY <1>3, <1>4, <1>5, <1>6, <1>7, ReturnMeans

LEMMA EndEmptyObjectMeans ==
    ASSUME Follows, EndEmptyObject
    PROVE  Reading'
<1> DEFINE s == NonComment(at)
<1>1. /\ mode = "name" /\ CurrentNode.name = <<>> /\ at' = After(s)
      /\ Return(CurrentNode.value, Callers)
    BY DEF EndEmptyObject
<1>2. TypeIn(doc, s) = CloseObject
    BY SameTokens, Zenon DEF EndEmptyObject, CloseObject
<1>3. NameRest(doc, CurrentNode, at) = {<<CurrentNode.value, s + 1>>}
  <2>1. s = Skip(doc, at)
      BY Known DEF Skips
  <2>2. TypeIn(doc, Skip(doc, at)) = "}"
      BY <1>2, <2>1, Zenon DEF CloseObject
  <2> QED BY <1>1, <2>1, <2>2, Zenon DEF NameRest
<1>4. Meaning(doc, nodes, Len(nodes) - 1, {<<CurrentNode.value, s + 1>>})
    BY <1>1, <1>3, InName
<1> QED BY <1>1, <1>2, <1>4, InName, ClosingMeans

LEMMA MissingNameMeans ==
    ASSUME Follows, MissingName
    PROVE  Reading'
<1> DEFINE s == NonComment(at)
<1>1. mode = "name" /\ AddError(s, nodes)
    BY DEF MissingName
<1>2. TypeIn(doc, s) # "string" /\ ~(TypeIn(doc, s) = CloseObject /\ CurrentNode.name = <<>>)
    BY SameTokens, Zenon DEF MissingName, CloseObject
<1>3. PICK colon : Skips(doc, s + 1, colon)
    BY DEF Skips
<1>4. NameRest(doc, CurrentNode, at) = {}
    BY <1>2, <1>3, Known, NameMissing
<1>5. Meaning(doc, nodes, Len(nodes) - 1, {}) /\ Len(nodes) - 1 \in Nat
    BY <1>1, <1>4, InName
<1>6. Json(doc) = {}
    BY <1>5, MeaningOfNone
<1> QED BY <1>1, <1>6, ErrorMeans, Known

LEMMA ReadNameMeans ==
    ASSUME Follows, ReadName
    PROVE  Reading'
<1> DEFINE s == NonComment(at)
           name == doc[s].value.text
           top == CurrentNode
           m == Len(nodes) - 1
<1>1. mode = "name" /\ TypeIn(doc, s) = "string"
    BY SameTokens, Zenon DEF ReadName
<1>2. \/ /\ TypeIn(doc, s + 1) = Colon /\ at' = After(s + 1) /\ mode' = "value"
         /\ nodes' = [nodes EXCEPT ![Len(nodes)] = Named(top, name)]
         /\ doc' = doc /\ errors' = errors
      \/ TypeIn(doc, s + 1) # Colon /\ AddError(s + 1, nodes)
    BY SameTokens, Zenon DEF ReadName, Colon, Named, CurrentNode
<1>3. /\ s \in at..Len(doc) /\ s \in 1..Len(doc) /\ Skips(doc, at, s)
      /\ s + 1 \in 1..(Len(doc) + 1)
    BY <1>1, Known
<1>4. PICK colon \in (s + 1)..(Len(doc) + 1) :
         Skips(doc, s + 1, colon) /\ (TypeIn(doc, s + 1) # "comment" => colon = s + 1)
    BY <1>3, Known, SkipIs
<1> HIDE DEF s, name, top
<1>5. CASE TypeIn(doc, s + 1) # Colon /\ AddError(s + 1, nodes)
  <2>1. TypeIn(doc, colon) # Colon
    <3>1. CASE TypeIn(doc, s + 1) # "comment"
        BY <1>4, <1>5, <3>1
    <3>2. CASE TypeIn(doc, s + 1) = "comment"
      <4>1. s + 1 <= Len(doc)
          BY <1>3, <3>2, Known DEF TypeIn
      <4>2. s + 1 \in 2..Len(doc) /\ (s + 1) - 1 = s
          BY <1>3, <4>1, Known
      <4>3. PlainComments(doc)
          BY DEF Follows, PlainDoc
      <4> QED BY <1>1, <1>4, <3>2, <4>2, <4>3, Known, CommentsArePlain
    <3> QED BY <3>1, <3>2
  <2>2. TypeIn(doc, s) # CloseObject
      BY <1>1, Zenon DEF CloseObject
  <2>3. NameRest(doc, top, at) = {}
      BY <1>3, <1>4, <2>1, <2>2, NameMissing
  <2>4. Meaning(doc, nodes, m, {}) /\ m \in Nat
      BY <1>1, <2>3, InName DEF top
  <2>5. Json(doc) = {}
      BY <2>4, MeaningOfNone
  <2> QED BY <1>5, <2>5, ErrorMeans, Known
<1>6. CASE /\ TypeIn(doc, s + 1) = Colon /\ at' = After(s + 1) /\ mode' = "value"
           /\ nodes' = [nodes EXCEPT ![Len(nodes)] = Named(top, name)]
           /\ doc' = doc /\ errors' = errors
  <2>1. TypeIn(doc, s + 1) # "comment" /\ TypeIn(doc, s + 1) # "end"
    <3>1. Colon # "comment" /\ Colon # "end"
        BY DEF Colon
    <3> QED BY <1>6, <3>1
  <2>2. colon = s + 1 /\ s + 1 \in 1..Len(doc) /\ at' = colon + 1
    <3>1. s + 1 <= Len(doc)
        BY <1>3, <2>1, Known DEF TypeIn
    <3> QED BY <1>3, <1>4, <1>6, <2>1, <3>1, Known DEF After
  <2> DEFINE node == Named(top, name)
             ns == [nodes EXCEPT ![Len(nodes)] = node]
  <2>3. /\ WellMade(node) /\ IsObject(node.value) /\ node.name = name
        /\ NameRest(doc, top, at) = Through(doc, node, ValueAt(Entries(doc), doc, colon + 1))
    <3>1. WellMade(top) /\ IsObject(top.value)
        BY <1>1, InName DEF top
    <3>2. TypeIn(doc, colon) = Colon /\ name = doc[s].value.text
        BY <1>6, <2>2 DEF name
    <3>3. node.name = name
        BY DEF Named
    <3> QED BY <1>1, <1>3, <1>4, <3>1, <3>2, <3>3, NameOpens
  <2> HIDE DEF node
  <2>4. /\ Len(ns) = Len(nodes) /\ DOMAIN ns = 1..Len(nodes) /\ ns[Len(nodes)] = node
        /\ \A k \in 1..m : ns[k] = nodes[k]
        /\ m \in Nat /\ m + 1 = Len(nodes)
    <3>1. nodes \in Seq({nodes[k] : k \in DOMAIN nodes}) /\ Len(nodes) \in Nat \ {0}
        BY <1>1, InName, Known DEF IsStack
    <3> QED BY <3>1
  <2>5. nodes' = ns
      BY <1>6 DEF node
  <2> HIDE DEF ns, m
  <2>6. Meaning(doc, ns, m + 1, ValueAt(Entries(doc), doc, at'))
    <3>1. Meaning(doc, nodes, m, NameRest(doc, top, at))
        BY <1>1, InName DEF top, m
    <3>2. NameRest(doc, top, at) = Through(doc, ns[m + 1], ValueAt(Entries(doc), doc, at'))
        BY <2>2, <2>3, <2>4, Zenon
    <3> QED BY <2>4, <3>1, <3>2, MeaningDeepens
  <2>7. \A k \in 1..Len(nodes) : k \in 1..m \/ k = Len(nodes)
    <3>1. \A k \in 1..(m + 1) : k \in 1..m \/ k = m + 1
        BY <2>4
    <3> QED BY <2>4, <3>1, Zenon
  <2>8. Opened(nodes, doc, at') /\ Titled(nodes, doc, m) /\ Opened(nodes, doc, at)
    <3>1. at \in Nat /\ at' \in Nat /\ at <= at'
        BY <1>3, <2>2, Known
    <3>2. Opened(nodes, doc, at) /\ Titled(nodes, doc, m)
        BY <1>1, InName DEF m
    <3> QED BY <3>1, <3>2, OpenedFurther
  <2>9. Opened(ns, doc, at')
    <3> SUFFICES ASSUME NEW k \in 1..Len(nodes)
                 PROVE  /\ WellMade(ns[k])
                        /\ IsObject(ns[k].value) =>
                              \E j \in 1..(at' - 1) : TypeIn(doc, j) = OpenObject
        BY <2>4, Zenon DEF Opened
    <3>1. k \in DOMAIN nodes
        BY Known
    <3>2. CASE k = Len(nodes)
      <4>1. IsObject(nodes[k].value)
          BY <1>1, <3>2, InName, Zenon DEF CurrentNode
      <4> QED BY <2>3, <2>4, <2>8, <3>1, <3>2, <4>1, Zenon DEF Opened
    <3>3. CASE k \in 1..m
        BY <2>4, <2>8, <3>1, <3>3, Zenon DEF Opened
    <3> QED BY <2>7, <3>2, <3>3
  <2>10. Titled(ns, doc, Len(ns))
    <3> SUFFICES ASSUME NEW k \in 1..Len(nodes), IsObject(ns[k].value)
                 PROVE  \E j \in 1..Len(doc) : /\ TypeIn(doc, j) = "string"
                                               /\ doc[j].value.text = ns[k].name
        BY <2>4, Zenon DEF Titled
    <3>1. CASE k = Len(nodes)
        BY <1>1, <1>3, <2>3, <2>4, <3>1, Zenon DEF name
    <3>2. CASE k \in 1..m
        BY <2>4, <2>8, <3>2, Zenon DEF Titled
    <3> QED BY <2>7, <3>1, <3>2
  <2>11. errors' = <<>>
      BY <1>1, <1>6, InName
  <2>12. Meaning(doc, ns, Len(ns), ValueAt(Entries(doc), doc, at'))
      BY <2>4, <2>6, Zenon
  <2>13. Meant'
      BY <1>6, <2>5, <2>11, <2>12 DEF Meant
  <2> QED BY <1>6, <2>5, <2>9, <2>10, <2>13 DEF Reading
<1> QED BY <1>2, <1>5, <1>6

(* After a value in an object or array.                                    *)
LEMMA InSeparator ==
    ASSUME Follows, mode = "separator"
    PROVE  /\ mode \in Active /\ nodes # <<>> /\ errors = <<>>
           /\ WellMade(CurrentNode)
           /\ Meaning(doc, nodes, Len(nodes) - 1, Rest(doc, CurrentNode, at))
           /\ Opened(nodes, doc, at)
           /\ Titled(nodes, doc, Len(nodes)) /\ Titled(nodes, doc, Len(nodes) - 1)
           /\ Len(nodes) - 1 \in Nat /\ Len(nodes) \in 1..Len(nodes)
           /\ at > 1 /\ TypeIn(doc, at - 1) \in ValueEnds
<1>1. nodes # <<>> /\ ReaderInv /\ errors = <<>>
    BY DEF Follows, ReaderInv, Shape, Verdict, Active
<1>2. Len(nodes) \in DOMAIN nodes /\ Len(nodes) \in Nat \ {0}
    BY <1>1, Below
<1>3. /\ Meaning(doc, nodes, Len(nodes) - 1, Rest(doc, CurrentNode, at))
      /\ Opened(nodes, doc, at) /\ Titled(nodes, doc, Len(nodes))
      /\ at > 1 /\ TypeIn(doc, at - 1) \in ValueEnds
    BY DEF Follows, Reading, Meant, Active
<1>4. WellMade(CurrentNode)
    BY <1>2, <1>3, Zenon DEF Opened, CurrentNode
<1>5. /\ Len(nodes) - 1 \in Nat /\ Len(nodes) \in 1..Len(nodes)
      /\ \A k \in 1..(Len(nodes) - 1) : k \in 1..Len(nodes)
    BY <1>2
<1>6. Titled(nodes, doc, Len(nodes) - 1)
    BY <1>3, <1>5, Zenon DEF Titled
<1> QED BY <1>1, <1>3, <1>4, <1>5, <1>6 DEF Active

LEMMA EndMeans ==
    ASSUME Follows, mode = "separator",
           TypeIn(doc, NonComment(at)) = Closing(KindOf(CurrentNode)),
           at' = After(NonComment(at)), Return(CurrentNode.value, Callers)
    PROVE  Reading'
<1>1. WellMade(CurrentNode) /\ nodes # <<>> /\ mode \in Active
    BY InSeparator
<1>2. Closing(KindOf(CurrentNode)) \in {CloseObject, CloseArray}
    BY <1>1, KindsOfNodes DEF WellMade, Unfinished
<1>3. Rest(doc, CurrentNode, at) = {<<CurrentNode.value, NonComment(at) + 1>>}
    BY <1>1, Known, RestClosed
<1>4. Meaning(doc, nodes, Len(nodes) - 1, {<<CurrentNode.value, NonComment(at) + 1>>})
    BY <1>3, InSeparator
<1> QED BY <1>1, <1>2, <1>4, InSeparator, ClosingMeans

LEMMA NoEntryMeans ==
    ASSUME Follows, mode = "separator",
           TypeIn(doc, NonComment(at)) # Comma,
           TypeIn(doc, NonComment(at)) # Closing(KindOf(CurrentNode)),
           NEW i, AddError(i, nodes)
    PROVE  Reading'
<1>1. Rest(doc, CurrentNode, at) = {}
    BY Known, RestMissing
<1>2. Meaning(doc, nodes, Len(nodes) - 1, {}) /\ Len(nodes) - 1 \in Nat
    BY <1>1, InSeparator
<1>3. Json(doc) = {}
    BY <1>2, MeaningOfNone
<1> QED BY <1>3, ErrorMeans, Known

LEMMA KindOnTop ==
    ASSUME Follows, mode = "separator"
    PROVE  /\ InObject => /\ IsObject(CurrentNode.value)
                          /\ Closing(KindOf(CurrentNode)) = CloseObject
           /\ InArray => /\ IsArray(CurrentNode.value)
                         /\ Closing(KindOf(CurrentNode)) = CloseArray
<1>1. Unfinished(CurrentNode)
    BY InSeparator DEF WellMade
<1> QED BY <1>1, KindsOfNodes DEF InObject, InArray

LEMMA EndObjectMeans ==
    ASSUME Follows, EndObject
    PROVE  Reading'
<1>1. /\ mode = "separator" /\ InObject /\ at' = After(NonComment(at))
      /\ Return(CurrentNode.value, Callers)
    BY DEF EndObject
<1>2. TypeIn(doc, NonComment(at)) = CloseObject
    BY SameTokens, Zenon DEF EndObject, CloseObject
<1>3. TypeIn(doc, NonComment(at)) = Closing(KindOf(CurrentNode))
    BY <1>1, <1>2, KindOnTop
<1> QED BY <1>1, <1>3, EndMeans

LEMMA MissingCommaMeans ==
    ASSUME Follows, MissingComma
    PROVE  Reading'
<1>1. mode = "separator" /\ InObject /\ AddError(at, nodes)
    BY DEF MissingComma
<1>2. TypeIn(doc, at) # CloseObject /\ TypeIn(doc, at) # Comma /\ TypeIn(doc, at) # "comment"
    BY SameTokens, Zenon DEF MissingComma, CloseObject, Comma
<1>3. NonComment(at) = at
    BY <1>2, Known, NoComment DEF Skips
<1> HIDE DEF MissingComma
<1>4. /\ TypeIn(doc, NonComment(at)) # Comma
      /\ TypeIn(doc, NonComment(at)) # Closing(KindOf(CurrentNode))
    BY <1>1, <1>2, <1>3, KindOnTop
<1> QED BY <1>1, <1>4, NoEntryMeans

LEMMA NextMemberMeans ==
    ASSUME Follows, NextMember
    PROVE  Reading'
<1> DEFINE s == NonComment(at)
           top == CurrentNode
<1>1. /\ mode = "separator" /\ InObject /\ at' = After(s) /\ mode' = "name"
      /\ doc' = doc /\ nodes' = nodes /\ errors' = errors
    BY DEF NextMember
<1>2. TypeIn(doc, s) # CloseObject /\ TypeIn(doc, at) \in {Comma, "comment"}
    BY SameTokens, Zenon DEF NextMember, CloseObject, Comma
<1>3. /\ WellMade(top) /\ IsObject(top.value) /\ Closing(KindOf(top)) = CloseObject
      /\ Meaning(doc, nodes, Len(nodes) - 1, Rest(doc, top, at))
      /\ errors = <<>> /\ Len(nodes) \in 1..Len(nodes) /\ Len(nodes) - 1 \in Nat
      /\ Opened(nodes, doc, at) /\ Titled(nodes, doc, Len(nodes))
      /\ Titled(nodes, doc, Len(nodes) - 1)
      /\ at > 1 /\ TypeIn(doc, at - 1) \in ValueEnds
    BY <1>1, InSeparator, KindOnTop
<1>4. /\ Skips(doc, at, s) /\ s \in at..(Len(doc) + 1) /\ at \in 1..(Len(doc) + 1)
      /\ Len(doc) \in Nat /\ Long(doc, Len(doc)) /\ DOMAIN doc = 1..Len(doc)
      /\ Len(nodes) \in DOMAIN nodes
    BY <1>3, Known
<1>5. TypeIn(doc, s) = Comma \/ TypeIn(doc, s) = "end"
  <2>1. CASE TypeIn(doc, at) = Comma
    <3>1. Comma # "comment"
        BY Zenon DEF Comma
    <3>2. Skips(doc, at, at)
        BY <1>4, <2>1, <3>1, NoComment
    <3>3. s = at
        BY <1>4, <3>2 DEF Skips
    <3> QED BY <2>1, <3>3
  <2>2. CASE TypeIn(doc, at) = "comment"
    <3>1. at \in 2..Len(doc)
        BY <1>3, <1>4, <2>2 DEF TypeIn
    <3>2. PlainComments(doc)
        BY DEF Follows, PlainDoc
    <3> HIDE DEF s
    <3>3. \/ TypeIn(doc, s) \in {Comma, CloseObject, "end"}
          \/ TypeIn(doc, s) = CloseArray /\ \A j \in 1..at : TypeIn(doc, j) # OpenObject
        BY <1>3, <1>4, <2>2, <3>1, <3>2, CommentsArePlain
    <3>4. PICK j \in 1..(at - 1) : TypeIn(doc, j) = OpenObject
        BY <1>3, <1>4, Zenon DEF Opened, top, CurrentNode
    <3>5. j \in 1..at
        BY <1>4
    <3> QED BY <1>2, <3>3, <3>4, <3>5
  <2> QED BY <1>2, <2>1, <2>2
<1> HIDE DEF s, top
<1>6. at' \in Nat /\ at \in Nat /\ at <= at' /\ Rest(doc, top, at) = NameRest(doc, top, at')
  <2>1. CASE TypeIn(doc, s) = Comma
    <3>1. s \in at..Len(doc) /\ s \in 1..Len(doc) /\ at' = s + 1
        BY <1>1, <2>1, TokensDiffer, Known DEF s
    <3>2. Rest(doc, top, at) = MembersRest(doc, top, s + 1)
        BY <1>3, <1>4, <2>1, <3>1, MembersFollow
    <3>3. PICK next : Skips(doc, s + 1, next)
        BY DEF Skips
    <3>4. TypeIn(doc, next) = CloseObject => top.name # <<>>
      <4> SUFFICES ASSUME TypeIn(doc, next) = CloseObject PROVE top.name # <<>>
          OBVIOUS
      <4>1. PICK j \in 1..Len(doc) :
               TypeIn(doc, j) = "string" /\ doc[j].value.text = top.name
          BY <1>3, Zenon DEF Titled, top, CurrentNode
      <4>2. PlainNames(doc)
          BY DEF Follows, PlainDoc
      <4>3. doc[j].value.text # <<>>
          BY <1>4, <2>1, <3>1, <3>3, <4>1, <4>2, NamesArePlain
      <4> QED BY <4>1, <4>3
    <3>5. NameRest(doc, top, s + 1) = MembersRest(doc, top, s + 1)
      <4>1. next = Skip(doc, s + 1)
          BY <3>3 DEF Skips
      <4> QED BY <3>4, <4>1, Zenon DEF NameRest, CloseObject
    <3>6. at' \in Nat /\ at \in Nat /\ at <= at'
        BY <3>1, <1>4
    <3> QED BY <3>1, <3>2, <3>5, <3>6, Zenon
  <2>2. CASE TypeIn(doc, s) = "end"
    <3>1. s \in 1..(Len(doc) + 1) /\ at' \in s..(Len(doc) + 1)
      <4>1. doc \in Documents
          BY DEF Follows, ReaderInv, Shape
      <4>2. s \in 1..(Len(doc) + 1)
          BY <1>4
      <4> QED BY <1>1, <4>1, <4>2, AfterIs
    <3>2. s = Len(doc) + 1 /\ at' = s
      <4>1. ReaderInv /\ TypeAt(s) = "end" /\ doc \in Documents
          BY <2>2, SameTokens DEF Follows, ReaderInv, Shape
      <4>2. s > Len(doc)
          BY <1>4, <3>1, <4>1, TokensOf
      <4> QED BY <1>4, <3>1, <4>2
    <3>3. "end" # Comma /\ "end" # CloseObject /\ "end" # "string"
        BY TokensDiffer
    <3>4. Rest(doc, top, at) = {}
        BY <1>3, <1>4, <2>2, <3>3, RestMissing
    <3>5. Skips(doc, s, s)
        BY <2>2, <3>1, NoComment
    <3>6. PICK colon : Skips(doc, s + 1, colon)
        BY DEF Skips
    <3>7. NameRest(doc, top, s) = {}
        BY <2>2, <3>3, <3>5, <3>6, NameMissing
    <3>8. at' \in Nat /\ at \in Nat /\ at <= at'
        BY <3>1, <3>2, <1>4
    <3> QED BY <3>2, <3>4, <3>7, <3>8
  <2> QED BY <1>5, <2>1, <2>2
<1>7. Opened(nodes, doc, at')
    BY <1>3, <1>6, OpenedFurther
<1>8. CurrentNode' = top
    BY <1>1 DEF CurrentNode, top
<1>9. Meant'
    BY <1>1, <1>3, <1>6, <1>8 DEF Meant
<1> QED BY <1>1, <1>3, <1>7, <1>9 DEF Reading

-----------------------------------------------------------------------------
(* The steps of readArray, and the recovery.                               *)

LEMMA EndArrayMeans ==
    ASSUME Follows, EndArray
    PROVE  Reading'
<1>1. /\ mode = "separator" /\ InArray /\ at' = After(NonComment(at))
      /\ Return(CurrentNode.value, Callers)
    BY DEF EndArray
<1>2. TypeIn(doc, NonComment(at)) = CloseArray
    BY SameTokens, Zenon DEF EndArray, CloseArray
<1>3. TypeIn(doc, NonComment(at)) = Closing(KindOf(CurrentNode))
    BY <1>1, <1>2, KindOnTop
<1> QED BY <1>1, <1>3, EndMeans

LEMMA MissingItemCommaMeans ==
    ASSUME Follows, MissingItemComma
    PROVE  Reading'
<1>1. mode = "separator" /\ InArray /\ AddError(NonComment(at), nodes)
    BY DEF MissingItemComma
<1>2. TypeIn(doc, NonComment(at)) # CloseArray /\ TypeIn(doc, NonComment(at)) # Comma
    BY SameTokens, Zenon DEF MissingItemComma, CloseArray, Comma
<1>3. TypeIn(doc, NonComment(at)) # Closing(KindOf(CurrentNode))
    BY <1>1, <1>2, KindOnTop
<1> QED BY <1>1, <1>2, <1>3, NoEntryMeans

LEMMA NextItemMeans ==
    ASSUME Follows, NextItem
    PROVE  Reading'
<1> DEFINE s == NonComment(at)
           top == CurrentNode
<1>1. /\ mode = "separator" /\ InArray /\ at' = After(s) /\ mode' = "value"
      /\ doc' = doc /\ nodes' = nodes /\ errors' = errors
    BY DEF NextItem
<1>2. TypeIn(doc, s) = Comma /\ TypeIn(doc, s) # "end"
  <2>1. TypeIn(doc, s) = Comma
      BY SameTokens, Zenon DEF NextItem, Comma
  <2> QED BY <2>1, TokensDiffer
<1>3. /\ WellMade(top) /\ IsArray(top.value)
      /\ Meaning(doc, nodes, Len(nodes) - 1, Rest(doc, top, at))
      /\ errors = <<>> /\ Len(nodes) - 1 \in Nat
      /\ Opened(nodes, doc, at) /\ Titled(nodes, doc, Len(nodes))
    BY <1>1, InSeparator, KindOnTop
<1>4. /\ s \in at..Len(doc) /\ s \in 1..Len(doc) /\ at' = s + 1 /\ Skips(doc, at, s)
      /\ Len(doc) \in Nat /\ Long(doc, Len(doc)) /\ at \in 1..(Len(doc) + 1)
    BY <1>1, <1>2, Known
<1> HIDE DEF s, top
<1>5. Rest(doc, top, at) = Through(doc, top, ValueAt(Entries(doc), doc, s + 1))
    BY <1>2, <1>3, <1>4, ItemsFollow
<1>6. Meaning(doc, nodes, (Len(nodes) - 1) + 1, ValueAt(Entries(doc), doc, at'))
  <2>1. nodes[(Len(nodes) - 1) + 1] = top
    <3>1. (Len(nodes) - 1) + 1 = Len(nodes)
        BY <1>3
    <3> QED BY <3>1, Zenon DEF top, CurrentNode
  <2>2. Rest(doc, top, at)
           = Through(doc, nodes[(Len(nodes) - 1) + 1], ValueAt(Entries(doc), doc, at'))
      BY <1>4, <1>5, <2>1, Zenon
  <2>3. \A k \in 1..(Len(nodes) - 1) : nodes[k] = nodes[k]
      OBVIOUS
  <2> DEFINE m == Len(nodes) - 1
  <2> HIDE DEF m
  <2>4. m \in Nat /\ Meaning(doc, nodes, m, Rest(doc, top, at))
      BY <1>3 DEF m
  <2>5. Rest(doc, top, at) = Through(doc, nodes[m + 1], ValueAt(Entries(doc), doc, at'))
      BY <2>2 DEF m
  <2>6. Meaning(doc, nodes, m + 1, ValueAt(Entries(doc), doc, at'))
      BY <2>3, <2>4, <2>5, MeaningDeepens
  <2> QED BY <2>6 DEF m
<1>7. Opened(nodes, doc, at')
    BY <1>3, <1>4, OpenedFurther
<1>8. (Len(nodes) - 1) + 1 = Len(nodes)
    BY <1>3
<1>9. Meant'
    BY <1>1, <1>3, <1>6, <1>8 DEF Meant
<1> QED BY <1>1, <1>3, <1>7, <1>9 DEF Reading

LEMMA RecoverMeans ==
    ASSUME Follows, Recover
    PROVE  Reading'
<1>1. /\ mode = "recover" /\ doc' = doc /\ errors' = errors /\ result' = result
      /\ mode' \in {"done", "recover"}
    BY DEF Recover, ReturnFalse
<1>2. errors # <<>>
    BY <1>1 DEF Follows, ReaderInv, Verdict
<1>3. Json(doc) = {}
    BY <1>2 DEF Follows, Reading, Meant
<1>4. Meant'
    BY <1>1, <1>2, <1>3 DEF Meant
<1> QED BY <1>1, <1>4 DEF Reading, Active

LEMMA ReadingStep ==
    ASSUME Follows, ReaderNext
    PROVE  Reading'
BY ReadScalarMeans, BeginObjectMeans, BeginArrayMeans, MissingValueMeans,
   EndEmptyObjectMeans, ReadNameMeans, MissingNameMeans, EndObjectMeans,
   NextMemberMeans, MissingCommaMeans, EndArrayMeans, NextItemMeans,
   MissingItemCommaMeans, RecoverMeans
DEF ReaderNext

LEMMA DocumentStays ==
    ASSUME ReaderNext
    PROVE  doc' = doc
BY DEF ReaderNext, ReadScalar, BeginObject, BeginArray, MissingValue, EndEmptyObject, ReadName,
       MissingName, EndObject, NextMember, MissingComma, EndArray, NextItem, MissingItemComma,
       Recover, Return, AddError, ReturnFalse

ReadsGrammar == PlainDoc(doc) => Reading

LEMMA ReadingHolds == ReaderSpec => []ReadsGrammar
<1>1. ReaderInit => ReadsGrammar
  <2> SUFFICES ASSUME ReaderInit PROVE Reading
      BY DEF ReadsGrammar
  <2>1. at = 1 /\ mode = "value" /\ nodes = <<>> /\ errors = <<>>
      BY DEF ReaderInit, ReaderStart
  <2>2. Len(nodes) = 0 /\ DOMAIN nodes = {}
      BY <2>1
  <2>3. Opened(nodes, doc, at) /\ Titled(nodes, doc, Len(nodes))
      BY <2>2 DEF Opened, Titled
  <2>4. Meaning(doc, nodes, 0, ValueAt(Entries(doc), doc, 1))
      BY MeaningStarts
  <2>5. Meant
      BY <2>1, <2>2, <2>4 DEF Meant
  <2> QED BY <2>1, <2>3, <2>5 DEF Reading
<1>2. ReaderInv /\ ReadsGrammar /\ [ReaderNext]_readerVars => ReadsGrammar'
  <2> SUFFICES ASSUME ReaderInv, ReadsGrammar, [ReaderNext]_readerVars, PlainDoc(doc')
               PROVE  Reading'
      BY Zenon DEF ReadsGrammar, PlainDoc, PlainComments, PlainNames
  <2>1. CASE ReaderNext
    <3>1. doc' = doc
        BY <2>1, DocumentStays
    <3>2. Follows
        BY <3>1 DEF Follows, ReadsGrammar
    <3> QED BY <2>1, <3>2, ReadingStep
  <2>2. CASE UNCHANGED readerVars
    <3>1. /\ doc' = doc /\ at' = at /\ mode' = mode /\ nodes' = nodes
          /\ errors' = errors /\ result' = result
        BY <2>2 DEF readerVars
    <3>2. Reading
        BY <3>1 DEF ReadsGrammar
    <3>3. CurrentNode' = CurrentNode
        BY <3>1 DEF CurrentNode
    <3> QED BY <3>1, <3>2, <3>3 DEF Reading, Meant
  <2> QED BY <2>1, <2>2
<1> QED BY <1>1, <1>2, ReaderInvHolds, PTL DEF ReaderSpec

(* Reader::parse: whatever the document, as long as comments and empty     *)
(* names stand where the reader allows them, it is accepted exactly if its *)
(* beginning is JSON, with the value JSON gives it.                        *)
THEOREM GrammarIsAccepted == ReaderSpec => []GrammarAccepted
<1>1. ReaderInv /\ ReadsGrammar => GrammarAccepted
  <2> SUFFICES ASSUME ReaderInv, ReadsGrammar, mode = "done",
                      PlainComments(doc), PlainNames(doc)
               PROVE  result = Json(doc)
      BY DEF GrammarAccepted
  <2>1. Reading
      BY DEF ReadsGrammar, PlainDoc
  <2>2. CASE errors = <<>>
      BY <2>1, <2>2 DEF Reading, Meant
  <2>3. CASE errors # <<>>
      BY <2>1, <2>3 DEF Reading, Meant, ReaderInv, Verdict
  <2> QED BY <2>2, <2>3
<1> QED BY <1>1, ReaderInvHolds, ReadingHolds, PTL
=============================================================================
