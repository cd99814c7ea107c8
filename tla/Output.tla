------------------------------- MODULE Output -------------------------------
(***************************************************************************)
(* ResponseToJson (src/libds2/basepacket.cpp): a response is a hash from   *)
(* names to variants; a name such as error_code.codes.0.dtc is a path      *)
(* through objects and arrays.                                             *)
(*                                                                         *)
(* A path is the sequence of its keys, a key the sequence of its symbols.  *)
(***************************************************************************)
EXTENDS JsonLexer

CONSTANTS
    Paths,       \* names of results to their paths
    Responses    \* hashes from names to variants

(* split(".") finds at least one key.                                      *)
ASSUME OutputAssumption ==
    /\ \A n \in DOMAIN Paths : Len(Paths[n]) \in Nat \ {0}
    /\ \A h \in Responses : DOMAIN h \subseteq DOMAIN Paths

VARIABLES
    phase,     \* "print", or "thrown" by an assertion of jsoncpp
    hash,      \* aResponse: names to variants
    unplaced,  \* names the loop has not visited
    json       \* root of ResponseToJson

outputVars == <<phase, hash, unplaced, json>>

-----------------------------------------------------------------------------
(* toUInt of a key: its number, if every character is a digit, else 0.     *)
IsIndex(key) == key # <<>> /\ \A i \in DOMAIN key : IsDigit(key[i])
Index(key) == IF IsIndex(key) THEN DigitsValue(key) ELSE 0

(* curVal[key]: an item of an array, a member of everything else.          *)
Child(v, key) == IF IsArray(v) THEN Item(v, Index(key)) ELSE Member(v, key)
WithChild(v, key, child) ==
    IF IsArray(v) THEN WithItem(v, Index(key), child) ELSE WithMember(v, key, child)

(* What is reached after each key of a path; null where nothing is.        *)
Reached(v, path) ==
    LET reach[i \in 0..Len(path)] == IF i = 0 THEN v ELSE Child(reach[i - 1], path[i])
    IN  reach
Found(v, path) == Reached(v, path)[Len(path)]

(* nextType, after key i: the next key is looked at only when it is not    *)
(* the last, so the last is always the name of a member.                   *)
NextIsIndex_AlsoLast(path, i) == i < Len(path) /\ IsIndex(path[i + 1])
NextIsIndex(path, i) == i < Len(path) - 1 /\ IsIndex(path[i + 1])
NewPlace(path, i) == IF NextIsIndex(path, i) THEN EmptyArray ELSE EmptyObject

(* curVal after i keys: what is there, or what is made of null.            *)
Place_New(v, path, i) == IF i > 0 THEN NewPlace(path, i) ELSE Reached(v, path)[i]
Place(v, path, i) ==
    LET there == Reached(v, path)[i]
    IN  IF i > 0 /\ IsNull(there) THEN NewPlace(path, i) ELSE there

(* An index or a name of a value that is neither array, object nor null,   *)
(* and a name of an array, fail an assertion.                              *)
Fails(v, path) ==
    \E i \in 0..(Len(path) - 1) :
        LET place == Place(v, path, i)
        IN  ~TakesMembers(place) /\ ~(IsArray(place) /\ i < Len(path) - 1)

(* The leaf at the end of the path, and all places on the way to it.       *)
Placed(v, path, leaf) ==
    LET placed[i \in 0..Len(path)] ==
            IF i = Len(path) THEN leaf
            ELSE WithChild(Place(v, path, i), path[i + 1], placed[i + 1])
    IN  placed[0]

-----------------------------------------------------------------------------
(* Variants.  qPrintable ends at a NUL; an empty string, and a type that   *)
(* is not known (the bool of a raw boolean), is printed as null.           *)
UpToNul(text) == SubSeq(text, 1, First(text, 1, LAMBDA i : text[i] = CharOf[0]) - 1)

TextVariant(text) == [type |-> "QString", text |-> text]
IntegerVariant(n) == [type |-> "LongLong", number |-> n]
DoubleVariant(q) == [type |-> "Double", ratio |-> q]
AddressesVariant(as) == [type |-> "QList<uchar>", addresses |-> as]
BoolVariant == [type |-> "Bool"]

JsonOf(variant) ==
    CASE variant.type = "QString" ->
            IF variant.text = <<>> THEN Null ELSE String(UpToNul(variant.text))
      [] variant.type = "LongLong" -> Integer(variant.number)
      [] variant.type = "Double" -> Real(variant.ratio)
      [] variant.type = "QList<uchar>" ->
            FoldLeft(LAMBDA list, a : Appended(list, Integer(a)), EmptyArray,
                     variant.addresses)
      [] OTHER -> Null

-----------------------------------------------------------------------------
(* ResponseToJson: one turn of the loop over the names, in the order of    *)
(* the hash.                                                               *)
OutputInit ==
    /\ phase = "print" /\ json = Null
    /\ hash \in Responses /\ unplaced = DOMAIN hash

PlaceResult ==
    /\ phase = "print"
    /\ \E n \in unplaced :
          IF Fails(json, Paths[n]) THEN phase' = "thrown" /\ UNCHANGED <<unplaced, json>>
          ELSE /\ json' = Placed(json, Paths[n], JsonOf(hash[n]))
               /\ unplaced' = unplaced \ {n}
               /\ UNCHANGED phase
    /\ UNCHANGED hash

OutputSpec == OutputInit /\ [][PlaceResult]_outputVars

-----------------------------------------------------------------------------
(* Properties.                                                             *)

(* Names that make one tree: none goes through another, and where two of   *)
(* them part, both go on to items of an array, and to different ones, or   *)
(* both to members of an object.                                           *)
ByIndex(path, i) == i > 1 /\ i < Len(path) /\ IsIndex(path[i])
PartAt(p, q, i) ==
    /\ i <= Len(p) /\ i <= Len(q) /\ p[i] # q[i]
    /\ \A k \in 1..(i - 1) : p[k] = q[k]
    /\ ByIndex(p, i) = ByIndex(q, i)
    /\ ByIndex(p, i) => Index(p[i]) # Index(q[i])
OneTree(names) ==
    \A m, n \in names : m # n => \E i \in 1..Len(Paths[m]) : PartAt(Paths[m], Paths[n], i)

(* In every order of the hash: if the names make one tree, printing does   *)
(* not fail, and every result placed so far is found under its name, for   *)
(* any number of names and depth of paths.                                 *)
ResultsPlaced ==
    OneTree(DOMAIN hash) =>
        /\ phase = "thrown" => unplaced = {}
        /\ \A n \in DOMAIN hash \ unplaced : Found(json, Paths[n]) = JsonOf(hash[n])
=============================================================================
