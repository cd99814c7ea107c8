----------------------------- MODULE JsonValue ------------------------------
(***************************************************************************)
(* Json::Value (src/jsoncpp/json_value.cpp) as the program uses it: the    *)
(* kinds of values, access to members and items, and the conversions the   *)
(* loader asks for.  An array is a map from indices, as in the code: it    *)
(* may have holes, and its size is one more than its highest index.        *)
(* An operation that throws has no outcome: it denotes the empty set.      *)
(*                                                                         *)
(* Keys and strings are sequences of symbols; a symbol is a character, or  *)
(* a run of characters that nothing distinguishes.  Doubles are exact      *)
(* rationals <<numerator, denominator>> in lowest terms; a zero            *)
(* denominator is an infinity or, over zero, not a number.                 *)
(***************************************************************************)
EXTENDS Integers, Sequences, FiniteSets

CONSTANTS
    IntBits,      \* bits of Value::Int; bound: fewer in the runs
    LargestBits   \* bits of Value::LargestInt; bound: fewer in the runs

ASSUME JsonValueAssumption ==
    /\ IntBits \in Nat \ {0} /\ LargestBits \in Nat
    /\ LargestBits >= IntBits

MaxInt == 2^(IntBits - 1) - 1
MinInt == -(2^(IntBits - 1))
MaxLargestUInt == 2^LargestBits - 1
MinLargestInt == -(2^(LargestBits - 1))

-----------------------------------------------------------------------------
(* Constructors.  intValue and uintValue are one kind: which of the two a  *)
(* number is shows only in the range checks below.                         *)
Null == [kind |-> "null"]
Boolean(b) == [kind |-> "boolean", truth |-> b]
Integer(n) == [kind |-> "integer", number |-> n]
Real(q) == [kind |-> "real", ratio |-> q]
String(t) == [kind |-> "string", text |-> t]
Array(f) == [kind |-> "array", items |-> f]
Object(f) == [kind |-> "object", members |-> f]

Nothing == <<>>               \* the empty map
EmptyArray == Array(Nothing)
EmptyObject == Object(Nothing)

IsNull(v) == v.kind = "null"
IsArray(v) == v.kind = "array"
IsObject(v) == v.kind = "object"
IsString(v) == v.kind = "string"

-----------------------------------------------------------------------------
(* Members and items.                                                      *)

(* size(): one more than the last index, so holes count.                   *)
Size(v) ==
    CASE v.kind = "array" ->
            IF DOMAIN v.items = {} THEN 0
            ELSE 1 + (CHOOSE i \in DOMAIN v.items : \A j \in DOMAIN v.items : j <= i)
      [] v.kind = "object" -> Cardinality(DOMAIN v.members)
      [] OTHER -> 0

(* operator[] of a constant value: null for what is not there.             *)
Item(v, i) ==
    IF IsArray(v) /\ i \in DOMAIN v.items THEN v.items[i] ELSE Null
Member(v, key) ==
    IF IsObject(v) /\ key \in DOMAIN v.members THEN v.members[key] ELSE Null

(* operator[] of a variable value refers to a place: it makes an array or  *)
(* an object of null, throws for every other kind, and what is assigned    *)
(* replaces the whole value at the place.                                  *)
TakesMembers(v) == v.kind \in {"null", "object"}

Put(f, key, v) == [k \in DOMAIN f \cup {key} |-> IF k = key THEN v ELSE f[k]]

WithItem(v, i, item) ==
    Array(Put(IF IsNull(v) THEN Nothing ELSE v.items, i, item))
WithMember(v, key, member) ==
    Object(Put(IF IsNull(v) THEN Nothing ELSE v.members, key, member))

(* append(): at the size, which is after the last item also when there     *)
(* are holes.                                                              *)
Appended(v, item) == WithItem(v, Size(v), item)

(* currentValue()[name], currentValue()[index]: the place is null until    *)
(* something is assigned.                                                  *)
WithPlace(v, key) == WithMember(v, key, Member(v, key))

-----------------------------------------------------------------------------
(* Conversions.                                                            *)

Finite(q) == q[2] # 0
Within(q, low, high) == Finite(q) /\ low * q[2] <= q[1] /\ q[1] <= high * q[2]
Cut(q) == IF q[1] >= 0 THEN q[1] \div q[2] ELSE -((-q[1]) \div q[2])

Converted(v, low, high) ==
    CASE v.kind = "integer" -> {n \in {v.number} : low <= n /\ n <= high}
      [] v.kind = "real" -> {Cut(q) : q \in {r \in {v.ratio} : Within(r, low, high)}}
      [] v.kind = "null" -> {0}
      [] v.kind = "boolean" -> {IF v.truth THEN 1 ELSE 0}
      [] OTHER -> {}

AsInt(v) == Converted(v, MinInt, MaxInt)
AsCString(v) == IF IsString(v) THEN {v.text} ELSE {}
=============================================================================
