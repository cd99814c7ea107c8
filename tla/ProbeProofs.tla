----------------------------- MODULE ProbeProofs -----------------------------
(***************************************************************************)
(* Proofs about module Probe, for every dictionary of addresses, database, *)
(* car and order of the hash: its types, that matching is right (Inv: how  *)
(* far the search has come), and that the table probe-all prints is        *)
(* complete when nothing was lost (AllInv).  For the latter the addresses  *)
(* tried are a prefix of Known; those dealt with are reported as they      *)
(* should be, and the one in hand is on its way to the outcome its unit    *)
(* decides.                                                                *)
(***************************************************************************)
EXTENDS Probe, SequenceTheorems, FiniteSetTheorems, TLAPS

-----------------------------------------------------------------------------
(* How far the search has come.  Accepted m's flags are complete.          *)
Exact(m) == Matches(m, reply) /\ FlagsFor(m, reply) = AllFlags

Fixed ==
    /\ car \in [Addresses -> Units \cup {NoUnit}]
    /\ mode \in {"probe-all", "probe", "operation", "data-log"}
    /\ todo \in Seq(Addresses)
    /\ address \in Addresses \cup {0}
    /\ runs \in 1..Iterations
    /\ lost \in BOOLEAN

Stages ==
    /\ stage \in {"next", "ds2", "kwp", "match", "found", "identify", "vin",
                  "count", "done", "aborted"}
    /\ target \in Addresses \cup {0}
    /\ stage \in {"ds2", "kwp", "match"} => target \in Addresses
    /\ stage \in {"ds2", "kwp", "found", "match", "identify", "vin", "count"}
          => address \in Addresses
    /\ stage \in {"ds2", "kwp"} =>
          found = NoModule /\ reply = NoReply /\ left = {}
    /\ stage = "match" => reply # NoReply
    /\ stage \in {"match", "found"} => found # Root
    /\ stage \in {"identify", "vin", "count"} =>
          found # NoModule /\ home \in Addresses

Search ==
    /\ reply # NoReply => target \in Addresses /\ reply = ReplyOf(target)
    /\ left \subseteq CandidatesAt(target)
    /\ found \in Modules \cup {NoModule, Root}
    /\ flags \subseteq AllFlags
    /\ found \in Modules =>
          /\ reply # NoReply
          /\ found \in CandidatesAt(target)
          /\ Matches(found, reply)
          /\ flags = FlagsFor(found, reply)
          /\ stage \in {"identify", "vin", "count"} => home = target

(* The definitions already examined: none is better than found.            *)
Examined ==
    stage \in {"match", "found"} /\ reply # NoReply =>
        /\ stage = "found" => left = {}
        /\ found \in Modules /\ flags = AllFlags => left = {}
        /\ \/ found \in Modules /\ flags = AllFlags
           \/ \A m \in CandidatesAt(target) \ left :
                 Matches(m, reply) => found \in Modules /\ ~Exact(m)

Table ==
    /\ rows \in Seq([probed : Addresses, module : Modules \cup {NoModule, Root},
                     home : Addresses, flags : SUBSET AllFlags])
    /\ \A i \in 1..Len(rows) : rows[i].module \in Modules =>
          rows[i].flags = FlagsFor(rows[i].module, ReplyOf(rows[i].home))

Inv == Fixed /\ Stages /\ Search /\ Examined /\ Table
-----------------------------------------------------------------------------
(* A reply that was heard is a reply.                                      *)
LEMMA ReplyIsReal ==
    ASSUME NEW p \in {"DS2", "KWP"}, car[target].protocol = p
    PROVE  ReplyOf(target) # NoReply
BY DEF ReplyOf, NoReply, NoUnit

(* The address lists hold addresses.                                       *)
LEMMA KnownAreAddresses == Known \in Seq(Addresses)
<1>1. Known \in Seq(Nat)
    BY ProbeAssumption DEF ProbeAssumption
<1>2. Len(Known) \in Nat /\ DOMAIN Known = 1..Len(Known)
    BY <1>1
<1>3. Known = [i \in 1..Len(Known) |-> Known[i]]
    BY <1>1, <1>2
<1>4. \A i \in 1..Len(Known) : Known[i] \in Addresses
    BY DEF Addresses
<1> HIDE DEF Addresses
<1> QED
    BY <1>2, <1>3, <1>4, IsASeq

(* The invariant holds initially.                                          *)
LEMMA InitInv == Init => Inv
<1> SUFFICES ASSUME Init PROVE Inv
    OBVIOUS
<1> USE ProbeAssumption DEF Init, ProbeAssumption
<1>1. Fixed
    <2>1. todo \in Seq(Addresses)
        BY KnownAreAddresses
    <2>2. lost \in BOOLEAN
        OBVIOUS
    <2>3. runs \in 1..Iterations
        OBVIOUS
    <2>4. car \in [Addresses -> Units \cup {NoUnit}]
        OBVIOUS
    <2> QED
        BY <2>1, <2>2, <2>3, <2>4 DEF Fixed
<1>2. Stages
    BY DEF Stages, NoModule, Root
<1>3. Search
    BY DEF Search
<1>4. Examined
    BY DEF Examined
<1>5. Table
    BY DEF Table
<1> QED BY <1>1, <1>2, <1>3, <1>4, <1>5 DEF Inv

(* The address of the next attempt.                                        *)
LEMMA NextAddress ==
    ASSUME Inv, TryAddress
    PROVE  Tail(todo) \in Seq(Addresses) /\ Head(todo) \in Addresses
<1>1. todo \in Seq(Addresses) /\ todo # <<>>
    BY DEF TryAddress, Inv, Fixed
<1> QED
    BY <1>1, HeadTailProperties

(* What the search does not touch keeps its type.                          *)
LEMMA FixedKept == Inv /\ [Next]_vars => Fixed'
<1> SUFFICES ASSUME Inv, [Next]_vars PROVE Fixed'
    OBVIOUS
<1>0. Fixed
    BY DEF Inv
<1> USE DEF Next, vars, findVars, TryAddress, NoMoreAddresses, Ds2Ident,
            KwpIdent, StartMatching, Examine, MatchDone, UseFound, UseRoot,
            GiveUpAddress, Identify, ReadVin, CountFaults, QueryFails
<1>1. UNCHANGED <<car, mode>>
    OBVIOUS
<1>2. UNCHANGED <<todo, address>> \/ TryAddress
    OBVIOUS
<1>3. runs' = runs \/ (runs > 1 /\ runs' = runs - 1)
    OBVIOUS
<1>4. lost' = lost \/ \E a, p : lost' = (lost \/ Speaks(a, p))
    BY DEF Heard, Unheard, Try
<1>5. todo' \in Seq(Addresses) /\ address' \in Addresses \cup {0}
    BY <1>0, <1>2, NextAddress DEF Fixed
<1>6. runs' \in 1..Iterations
    BY <1>0, <1>3, ProbeAssumption DEF ProbeAssumption, Fixed
<1>7. lost' \in BOOLEAN
    BY <1>0, <1>4 DEF Fixed, Speaks
<1> QED
    BY <1>0, <1>1, <1>5, <1>6, <1>7 DEF Fixed

(* The stages follow one another.                                          *)
LEMMA StagesKept == Inv /\ [Next]_vars => Stages'
<1> SUFFICES ASSUME Inv, [Next]_vars PROVE Stages'
    OBVIOUS
<1>0. Stages
    BY DEF Inv
<1>a. \A a \in Addresses : KwpTarget(a) \in Addresses
    BY ProbeAssumption DEF ProbeAssumption, KwpTarget
<1>1. CASE TryAddress
    BY <1>0, <1>1, NextAddress DEF TryAddress, Stages
<1>2. CASE Ds2Ident
    <2>1. CASE Heard(target, "DS2") /\ StartMatching
        <3>1. ReplyOf(target) # NoReply
            BY <2>1, ReplyIsReal DEF Heard, Speaks
        <3> QED
            BY <1>0, <1>2, <2>1, <3>1
            DEF Ds2Ident, StartMatching, Stages, NoModule, Root
    <2>2. CASE ~(Heard(target, "DS2") /\ StartMatching)
        BY <1>0, <1>a, <1>2, <2>2 DEF Ds2Ident, Stages
    <2> QED
        BY <1>2, <2>1, <2>2 DEF Ds2Ident
<1>3. CASE KwpIdent
    <2>1. CASE Heard(target, "KWP") /\ StartMatching
        <3>1. ReplyOf(target) # NoReply
            BY <2>1, ReplyIsReal DEF Heard, Speaks
        <3> QED
            BY <1>0, <1>3, <2>1, <3>1
            DEF KwpIdent, StartMatching, Stages, NoModule, Root
    <2>2. CASE ~(Heard(target, "KWP") /\ StartMatching)
        BY <1>0, <1>3, <2>2 DEF KwpIdent, findVars, Stages, NoModule, Root
    <2> QED
        BY <1>3, <2>1, <2>2 DEF KwpIdent
<1>4. ASSUME NEW m \in Modules, Examine(m) PROVE Stages'
    BY <1>0, <1>4, ProbeAssumption DEF ProbeAssumption, Examine, Stages
<1>5. CASE UseFound
    <2>1. found \in Modules
        BY <1>0, <1>5 DEF UseFound, Inv, Search, Stages
    <2>2. Records[found].address \in Addresses
        BY <2>1, ProbeAssumption DEF ProbeAssumption
    <2> QED
        BY <1>0, <1>5, <2>1, <2>2 DEF UseFound, findVars, Stages
<1>6. CASE UseRoot
    BY <1>0, <1>6 DEF UseRoot, Stages, NoModule, Root
<1>7. CASE NoMoreAddresses
    BY <1>0, <1>7 DEF NoMoreAddresses, findVars, Stages
<1>8. CASE MatchDone
    BY <1>0, <1>8 DEF MatchDone, findVars, Stages
<1>9. CASE GiveUpAddress
    BY <1>0, <1>9 DEF GiveUpAddress, findVars, Stages
<1>10. CASE Identify
    BY <1>0, <1>10 DEF Identify, AfterIdentify, AfterSilence, findVars, Stages
<1>11. CASE ReadVin
    BY <1>0, <1>11 DEF ReadVin, findVars, Stages
<1>12. CASE CountFaults
    BY <1>0, <1>12 DEF CountFaults, findVars, Stages
<1>13. CASE QueryFails
    BY <1>0, <1>13 DEF QueryFails, findVars, Stages
<1>14. CASE UNCHANGED vars
    BY <1>0, <1>14 DEF vars, findVars, Stages
<1> QED
    BY <1>1, <1>2, <1>3, <1>4, <1>5, <1>6, <1>7, <1>8, <1>9, <1>10, <1>11,
       <1>12, <1>13, <1>14 DEF Next

(* A reply that was heard starts the matching.                             *)
Answered ==
    /\ StartMatching /\ target \in Addresses /\ ReplyOf(target) # NoReply
    /\ found = NoModule /\ reply = NoReply

(* Most steps leave the search alone.                                      *)
Rests ==
    /\ UNCHANGED <<car, findVars>>
    /\ stage' \in {"identify", "vin", "count"} =>
          stage \in {"identify", "vin", "count"} /\ UNCHANGED home
    /\ stage' = "match" => stage = "match"
    /\ stage' = "found" =>
          \/ stage = "found" \/ reply = NoReply
          \/ stage = "match" /\ left = {}

LEMMA SearchSteps ==
    ASSUME Inv, [Next]_vars
    PROVE  \/ TryAddress \/ Answered \/ UseFound \/ UseRoot \/ Rests
           \/ Ds2Ident /\ stage' = "kwp"
           \/ \E m \in Modules : Examine(m)
<1>1. CASE Ds2Ident
    <2>1. CASE Heard(target, "DS2") /\ StartMatching
        BY <1>1, <2>1, ReplyIsReal DEF Ds2Ident, Heard, Speaks, Answered, Inv, Stages
    <2> QED
        BY <1>1, <2>1 DEF Ds2Ident
<1>2. CASE KwpIdent
    <2>1. CASE Heard(target, "KWP") /\ StartMatching
        BY <1>2, <2>1, ReplyIsReal DEF KwpIdent, Heard, Speaks, Answered, Inv, Stages
    <2>2. CASE ~(Heard(target, "KWP") /\ StartMatching)
        BY <1>2, <2>2 DEF KwpIdent, Rests, findVars, Inv, Stages
    <2> QED
        BY <2>1, <2>2
<1>3. CASE NoMoreAddresses
    BY <1>3 DEF NoMoreAddresses, findVars, Rests
<1>4. CASE MatchDone
    BY <1>4 DEF MatchDone, findVars, Rests
<1>5. CASE GiveUpAddress
    BY <1>5 DEF GiveUpAddress, findVars, Rests
<1>6. CASE Identify
    BY <1>6 DEF Identify, AfterIdentify, AfterSilence, findVars, Rests
<1>7. CASE ReadVin
    BY <1>7 DEF ReadVin, findVars, Rests
<1>8. CASE CountFaults
    BY <1>8 DEF CountFaults, findVars, Rests
<1>9. CASE QueryFails
    BY <1>9 DEF QueryFails, findVars, Rests
<1>10. CASE UNCHANGED vars
    BY <1>10 DEF vars, findVars, Rests
<1> QED
    BY <1>1, <1>2, <1>3, <1>4, <1>5, <1>6, <1>7, <1>8, <1>9, <1>10 DEF Next

(* The car is the same for ever, and so is what each unit replies.         *)
LEMMA SameCar ==
    ASSUME [Next]_vars
    PROVE  car' = car /\ \A a : ReplyOf(a)' = ReplyOf(a)
<1>1. car' = car
    BY DEF Next, vars, findVars, TryAddress, NoMoreAddresses, Ds2Ident,
           KwpIdent, StartMatching, Examine, MatchDone, UseFound, UseRoot,
           GiveUpAddress, Identify, ReadVin, CountFaults, QueryFails
<1> QED
    BY <1>1 DEF ReplyOf

(* What was found was accepted, with the flags it deserves.                *)
LEMMA SearchKept == Inv /\ [Next]_vars => Search'
<1> SUFFICES ASSUME Inv, [Next]_vars PROVE Search'
    OBVIOUS
<1>0. Search /\ Stages
    BY DEF Inv
<1>a. car' = car
    BY SameCar
<1>b. \A m, r : FlagsFor(m, r) \subseteq AllFlags
    BY DEF FlagsFor
<1>1. CASE TryAddress
    BY <1>1, <1>a, NextAddress, ProbeAssumption
    DEF TryAddress, Search, ReplyOf, ProbeAssumption
<1>2. CASE Answered
    BY <1>0, <1>2, <1>a, ProbeAssumption
    DEF Answered, StartMatching, Candidates, Search, ReplyOf, ProbeAssumption
<1>3. CASE UseFound
    <2>1. found \in Modules
        BY <1>0, <1>3 DEF UseFound, Search, Stages
    <2>2. Records[found].address = target
        BY <1>0, <2>1 DEF Search, CandidatesAt
    <2> QED
        BY <1>0, <1>3, <1>a, <2>1, <2>2 DEF UseFound, findVars, Search, ReplyOf
<1>4. CASE UseRoot
    BY <1>0, <1>4, <1>a, ProbeAssumption DEF UseRoot, Search, ReplyOf, ProbeAssumption
<1>5. CASE Rests
    BY <1>0, <1>5, <1>a DEF Rests, findVars, Search, ReplyOf
<1>6. CASE Ds2Ident /\ stage' = "kwp"
    <2>1. found = NoModule /\ reply = NoReply /\ left = {} /\ left' = {}
        BY <1>0, <1>6 DEF Ds2Ident, StartMatching, Stages
    <2> QED
        BY <1>0, <1>6, <1>a, <2>1, ProbeAssumption
        DEF Ds2Ident, StartMatching, Search, ReplyOf, ProbeAssumption
<1>7. ASSUME NEW m \in Modules, Examine(m) PROVE Search'
    <2>1. left' \subseteq left /\ m \in CandidatesAt(target)
        BY <1>0, <1>7 DEF Examine, AfterExamine, Search
    <2>2. reply # NoReply
        BY <1>0, <1>7 DEF Examine, Stages
    <2>3. CASE Matches(m, reply)
        <3>1. found' = m /\ flags' = FlagsFor(m, reply)
            BY <1>7, <2>3 DEF Examine, FlagsAfter
        <3> QED
            BY <1>0, <1>7, <1>a, <1>b, <2>1, <2>2, <2>3, <3>1 DEF Examine, Search, ReplyOf
    <2>4. CASE ~Matches(m, reply)
        BY <1>0, <1>7, <1>a, <2>1, <2>2, <2>4 DEF Examine, Search, ReplyOf
    <2> QED
        BY <2>3, <2>4
<1> QED
    BY <1>1, <1>2, <1>3, <1>4, <1>5, <1>6, <1>7, SearchSteps

(* No definition already examined beats the one kept.                      *)
LEMMA ExaminedKept == Inv /\ [Next]_vars => Examined'
<1> SUFFICES ASSUME Inv, [Next]_vars PROVE Examined'
    OBVIOUS
<1>0. Search /\ Stages /\ Examined
    BY DEF Inv
<1>1. CASE TryAddress
    BY <1>1 DEF TryAddress, Examined
<1>2. CASE Answered
    BY <1>2, ProbeAssumption
    DEF Answered, StartMatching, Candidates, Examined, ProbeAssumption
<1>3. CASE UseFound
    BY <1>3 DEF UseFound, Examined
<1>4. CASE UseRoot
    BY <1>4 DEF UseRoot, Examined
<1>5. CASE Rests
    BY <1>0, <1>5 DEF Rests, findVars, Examined, Exact
<1>6. CASE Ds2Ident /\ stage' = "kwp"
    BY <1>6 DEF Ds2Ident, Examined
<1>7. ASSUME NEW m \in Modules, Examine(m) PROVE Examined'
    <2>0. CASE stage' = "aborted"
        BY <2>0 DEF Examined
    <2> SUFFICES ASSUME stage' # "aborted" PROVE Examined'
        BY <2>0
    <2>1. /\ stage = "match" /\ stage' = "match" /\ m \in left
          /\ reply' = reply /\ target' = target /\ reply # NoReply
        BY <1>0, <1>7 DEF Examine, Stages
    <2>2. /\ ~(found \in Modules /\ flags = AllFlags)
          /\ \A k \in CandidatesAt(target) \ left :
                Matches(k, reply) => found \in Modules /\ ~Exact(k)
        BY <1>0, <2>1 DEF Examined
    <2>3. CASE Matches(m, reply) /\ FlagsFor(m, reply) = AllFlags
        BY <1>7, <2>1, <2>3 DEF Examine, AfterExamine, FlagsAfter, Examined
    <2>4. CASE Matches(m, reply) /\ FlagsFor(m, reply) # AllFlags
        <3>1. found' = m /\ flags' # AllFlags /\ left' = left \ {m}
            BY <1>7, <2>4 DEF Examine, AfterExamine, FlagsAfter
        <3>2. ~Exact(m)
            BY <2>4 DEF Exact
        <3>3. \A k \in CandidatesAt(target) \ left' : ~Matches(k, reply) \/ ~Exact(k)
            BY <2>2, <3>1, <3>2
        <3> QED
            BY <2>1, <3>1, <3>3 DEF Examined, Exact
    <2>5. CASE ~Matches(m, reply)
        <3>1. found' = found /\ flags' = flags /\ left' = left \ {m}
            BY <1>7, <2>5 DEF Examine, AfterExamine
        <3>2. \A k \in CandidatesAt(target) \ left' :
                 Matches(k, reply) => found \in Modules /\ ~Exact(k)
            BY <2>2, <2>5, <3>1
        <3> QED
            BY <2>1, <2>2, <3>1, <3>2 DEF Examined, Exact
    <2> QED
        BY <2>3, <2>4, <2>5
<1> QED
    BY <1>1, <1>2, <1>3, <1>4, <1>5, <1>6, <1>7, SearchSteps

(* Rows are kept, and the one added describes its unit.                    *)
LEMMA TableKept == Inv /\ [Next]_vars => Table'
<1> SUFFICES ASSUME Inv, [Next]_vars PROVE Table'
    OBVIOUS
<1>0. Search /\ Stages /\ Table
    BY DEF Inv
<1>a. \A a : ReplyOf(a)' = ReplyOf(a)
    BY SameCar
<1>1. CASE rows' = rows
    BY <1>0, <1>1, <1>a DEF Table
<1>2. CASE CountFaults
    <2> DEFINE Rows == [probed : Addresses, module : Modules \cup {NoModule, Root},
                        home : Addresses, flags : SUBSET AllFlags]
    <2>1. rows \in Seq(Rows) /\ rows' = Append(rows, Row)
        BY <1>0, <1>2 DEF CountFaults, Table
    <2>2. Row \in Rows
        BY <1>0, <1>2 DEF CountFaults, Row, Stages, Search
    <2>3. Row.module \in Modules => Row.flags = FlagsFor(Row.module, ReplyOf(Row.home))
        BY <1>0, <1>2 DEF CountFaults, Row, Stages, Search
    <2>4. /\ rows' \in Seq(Rows) /\ Len(rows') = Len(rows) + 1
          /\ \A i \in 1..Len(rows) : rows'[i] = rows[i]
          /\ rows'[Len(rows) + 1] = Row
        <3> HIDE DEF Rows
        <3> QED
            BY <2>1, <2>2
    <2>5. \A i \in 1..Len(rows') : rows'[i].module \in Modules =>
             rows'[i].flags = FlagsFor(rows'[i].module, ReplyOf(rows'[i].home))
        <3> SUFFICES ASSUME NEW i \in 1..Len(rows'), rows'[i].module \in Modules
                     PROVE  rows'[i].flags =
                               FlagsFor(rows'[i].module, ReplyOf(rows'[i].home))
            OBVIOUS
        <3>1. CASE i \in 1..Len(rows)
            BY <1>0, <2>4, <3>1 DEF Table
        <3>2. CASE i = Len(rows) + 1
            BY <2>3, <2>4, <3>2
        <3>3. Len(rows) \in Nat
            BY <2>1, LenProperties
        <3> QED
            BY <2>4, <3>1, <3>2, <3>3
    <2> QED
        BY <1>a, <2>4, <2>5 DEF Table
<1>3. rows' = rows \/ CountFaults
    BY DEF Next, vars, findVars, TryAddress, NoMoreAddresses, Ds2Ident,
           KwpIdent, StartMatching, Examine, MatchDone, UseFound, UseRoot,
           GiveUpAddress, Identify, ReadVin, QueryFails
<1> QED
    BY <1>1, <1>2, <1>3

(* The invariant of the search.                                            *)
THEOREM SearchInvariant == Spec => []Inv
<1>1. Inv /\ [Next]_vars => Inv'
    BY FixedKept, StagesKept, SearchKept, ExaminedKept, TableKept DEF Inv
<1> QED
    BY InitInv, <1>1, PTL DEF Spec

(* TypeOK holds for every database, car and family dictionary.             *)
THEOREM ProbeTypeCorrect == Spec => []TypeOK
<1>1. Inv => TypeOK
    BY DEF Inv, Fixed, Stages, Search, TypeOK
<1> QED
    BY SearchInvariant, <1>1, PTL

(* Flags are true of the definition found and of every row printed,        *)
(* whatever was found before in the same loop.                             *)
THEOREM FlagsAreTrue == Spec => []FlagsDescribeFound
<1>1. Inv => FlagsDescribeFound
    BY DEF Inv, Search, Table, FlagsDescribeFound
<1> QED
    BY SearchInvariant, <1>1, PTL

(* In every order of the hash a unit is recognised exactly when some       *)
(* definition accepts it, and an exact match is never passed over.         *)
THEOREM BestMatchIsFound == Spec => []BestMatchWins
<1>1. ASSUME Inv, stage = "found", reply # NoReply
      PROVE  LET Accepting == {m \in CandidatesAt(reply.address) : Matches(m, reply)}
             IN  /\ found = NoModule <=> Accepting = {}
                 /\ (\E m \in Accepting : FlagsFor(m, reply) = AllFlags) =>
                       flags = AllFlags
    <2>1. reply.address = target /\ left = {} /\ found \in Modules \cup {NoModule}
        BY <1>1 DEF Inv, Search, Examined, Stages, ReplyOf
    <2>2. \/ found \in Modules /\ flags = AllFlags
          \/ \A m \in CandidatesAt(target) :
                Matches(m, reply) => found \in Modules /\ ~Exact(m)
        BY <1>1, <2>1 DEF Inv, Examined
    <2>3. found \in Modules => found \in CandidatesAt(target) /\ Matches(found, reply)
        BY <1>1 DEF Inv, Search
    <2>4. NoModule \notin Modules
        BY ProbeAssumption DEF ProbeAssumption
    <2> QED
        BY <2>1, <2>2, <2>3, <2>4 DEF Exact
<1>2. Inv => BestMatchWins
    BY <1>1 DEF BestMatchWins
<1> QED
    BY SearchInvariant, <1>2, PTL

-----------------------------------------------------------------------------
(* The table of probe-all.                                                 *)

InHand == stage \notin {"next", "done"}
Interrogated == stage \in {"identify", "vin", "count"}
Tried == Len(Known) - Len(todo)
Settled ==
    {Known[i] : i \in 1..(IF InHand THEN Tried - 1 ELSE Tried)}

Walk ==
    /\ Len(todo) \in 0..Len(Known)
    /\ \A j \in 1..Len(todo) : todo[j] = Known[Tried + j]
    /\ InHand => Tried > 0 /\ address = Known[Tried]
    /\ stage = "done" => todo = <<>>

SettledReported ==
    /\ \A i \in 1..Len(rows) : rows[i].probed \in Settled
    /\ ~lost => \A a \in Settled : Reported(a)

(* Where the identification of the unit in hand has come to.               *)
Unanswered ==
    ~Speaks(address, "DS2") /\ ~Speaks(KwpTarget(address), "KWP")
AnsweredBy ==
    \/ target = address /\ Speaks(address, "DS2")
    \/ /\ ~Speaks(address, "DS2")
       /\ target = KwpTarget(address) /\ Speaks(target, "KWP")

Attempt ==
    ~lost =>
        /\ stage = "ds2" => target = address
        /\ stage = "kwp" => ~Speaks(address, "DS2") /\ target = KwpTarget(address)
        /\ stage \in {"match", "found"} \/ Interrogated =>
              IF reply = NoReply THEN Unanswered ELSE AnsweredBy
        /\ Interrogated /\ found = Root =>
              /\ home = address
              /\ reply # NoReply => \A m \in CandidatesAt(target) : ~Matches(m, reply)
        /\ stage \in {"vin", "count"} => Speaks(home, Protocol)

AllInv == mode = "probe-all" => Walk /\ SettledReported /\ Attempt

-----------------------------------------------------------------------------
(* Whether the unit in hand gets a row was decided when it was identified, *)
(* unless a definition for the other protocol is mistaken for its own.     *)
LEMMA Outcome ==
    ASSUME Inv, Attempt, ~lost, Interrogated
    PROVE  /\ home = address /\ Speaks(home, Protocol) => Reportable(address)
           /\ Reportable(address) /\ ~Mistaken(address) =>
                 home = address /\ Speaks(home, Protocol)
<1>0. /\ found \in Modules \cup {Root}
      /\ IF reply = NoReply THEN Unanswered ELSE AnsweredBy
      /\ reply # NoReply => reply = ReplyOf(target)
      /\ Root \notin Modules
    BY ProbeAssumption
    DEF Inv, Search, Stages, Attempt, Interrogated, ProbeAssumption
<1>k. /\ address \in {DmeAddress, DscAddress} => KwpTarget(address) = address
      /\ KwpTarget(address) \in {DmeAddress, DscAddress}
    BY DEF KwpTarget
<1>1. CASE found = Root
    <2>1. /\ home = address /\ Protocol = "DS2"
          /\ reply # NoReply => \A m \in CandidatesAt(target) : ~Matches(m, reply)
        BY <1>1 DEF Attempt, Protocol
    <2>2. Speaks(address, "KWP") /\ address \in {DmeAddress, DscAddress} =>
             reply # NoReply /\ target = address
        BY <1>0, <1>k DEF Unanswered, AnsweredBy
    <2> QED
        BY <1>0, <2>1, <2>2 DEF Reportable
<1>2. CASE found \in Modules
    <2>1. /\ reply # NoReply /\ home = target /\ found \in CandidatesAt(target)
          /\ Matches(found, reply)
        BY <1>2 DEF Inv, Search, Interrogated
    <2>2. AnsweredBy
        BY <1>0, <2>1
    <2>3. target = address => Reportable(address)
        BY <1>0, <1>k, <2>1, <2>2 DEF AnsweredBy, Reportable
    <2>4. target # address => ~Reportable(address)
        BY <1>k, <2>2 DEF AnsweredBy, Reportable
    <2>5. target = address /\ ~Mistaken(address) => Speaks(home, Protocol)
        BY <1>0, <1>2, <2>1 DEF Mistaken, Protocol
    <2> QED
        BY <2>1, <2>3, <2>4, <2>5
<1> QED BY <1>0, <1>1, <1>2

-----------------------------------------------------------------------------
LEMMA AllInit == Init => AllInv
<1> SUFFICES ASSUME Init, mode = "probe-all"
             PROVE  Walk /\ SettledReported /\ Attempt
    BY DEF AllInv
<1>1. todo = Known /\ stage = "next" /\ rows = <<>>
    BY DEF Init
<1>2. Len(Known) \in Nat
    BY ProbeAssumption DEF ProbeAssumption
<1>3. Walk
    BY <1>1, <1>2 DEF Walk, Tried, InHand
<1>4. Settled = {}
    BY <1>1, <1>2 DEF Settled, Tried, InHand
<1> QED
    BY <1>1, <1>3, <1>4 DEF SettledReported, Attempt, Interrogated

(* The kinds of step probe-all takes.                                      *)
Keeps == UNCHANGED <<todo, address, rows>> /\ (InHand' <=> InHand)
Drops ==
    /\ Identify /\ Unheard(home, Protocol) /\ stage' = "next"
    /\ UNCHANGED <<todo, address, rows>>

LEMMA AllSteps ==
    ASSUME Inv, [Next]_vars, mode = "probe-all"
    PROVE  TryAddress \/ NoMoreAddresses \/ Drops \/ CountFaults
              \/ (Keeps /\ stage' # "done") \/ UNCHANGED vars
<1> USE DEF Keeps, InHand
<1>1. CASE Ds2Ident
    BY <1>1 DEF Ds2Ident, StartMatching
<1>2. CASE KwpIdent
    BY <1>2 DEF KwpIdent, StartMatching
<1>3. ASSUME NEW m \in Modules, Examine(m)
      PROVE  Keeps /\ stage' # "done"
    BY <1>3 DEF Examine
<1>4. CASE MatchDone
    BY <1>4 DEF MatchDone
<1>5. CASE UseFound
    BY <1>5 DEF UseFound
<1>6. CASE UseRoot
    BY <1>6 DEF UseRoot
<1>7. ~GiveUpAddress
    BY DEF GiveUpAddress, FallsBack
<1>8. CASE Identify
    BY <1>8 DEF Identify, AfterIdentify, AfterSilence, Drops
<1>9. CASE ReadVin
    BY <1>9 DEF ReadVin
<1>10. CASE QueryFails
    BY <1>10 DEF QueryFails
<1> QED
    BY <1>1, <1>2, <1>3, <1>4, <1>5, <1>6, <1>7, <1>8, <1>9, <1>10 DEF Next

(* A lost answer stays lost, and the command does not change.              *)
LEMMA LostForGood ==
    ASSUME Inv, [Next]_vars
    PROVE  (lost => lost') /\ mode' = mode
BY DEF Inv, Fixed, Next, vars, findVars, TryAddress, NoMoreAddresses,
       Ds2Ident, KwpIdent, StartMatching, Examine, MatchDone, UseFound,
       UseRoot, GiveUpAddress, Identify, ReadVin, CountFaults, QueryFails,
       Try, Heard, Unheard

(* The addresses are tried in the order of the dictionary.                 *)
LEMMA WalkKept ==
    ASSUME Inv, Walk, [Next]_vars, mode = "probe-all"
    PROVE  Walk'
<1>0. Len(Known) \in Nat
    BY ProbeAssumption DEF ProbeAssumption
<1>1. CASE TryAddress
    <2>1. todo \in Seq(Addresses) /\ todo # <<>>
        BY <1>1 DEF TryAddress, Inv, Fixed
    <2>2. /\ Len(todo) \in Nat /\ Len(todo) > 0
          /\ Len(Tail(todo)) = Len(todo) - 1
          /\ \A j \in 1..(Len(todo) - 1) : Tail(todo)[j] = todo[j + 1]
          /\ Head(todo) = todo[1]
        BY <2>1, HeadTailProperties
    <2>3. /\ todo' = Tail(todo) /\ address' = Head(todo) /\ stage' = "ds2"
        BY <1>1 DEF TryAddress
    <2>4. Tried' = Tried + 1 /\ Tried \in Nat /\ Len(todo') \in 0..Len(Known)
        <3>1. Len(todo') = Len(todo) - 1
            BY <2>2, <2>3
        <3>2. Len(todo) \in 0..Len(Known)
            BY DEF Walk
        <3>3. Tried' = Len(Known) - Len(todo')
            BY DEF Tried
        <3>4. Len(todo') \in 0..Len(Known)
            BY <1>0, <2>2, <3>1, <3>2
        <3> QED
            BY <1>0, <3>1, <3>2, <3>3, <3>4 DEF Tried
    <2>5. \A j \in 1..Len(todo') : todo'[j] = Known[Tried' + j]
        BY <2>2, <2>3, <2>4 DEF Walk
    <2>6. address' = Known[Tried'] /\ Tried' > 0
        BY <2>2, <2>3, <2>4 DEF Walk
    <2> QED
        BY <2>3, <2>4, <2>5, <2>6 DEF Walk
<1>2. CASE NoMoreAddresses
    BY <1>2 DEF NoMoreAddresses, Walk, Tried, InHand
<1>3. CASE Drops
    BY <1>3 DEF Drops, Walk, Tried, InHand
<1>4. CASE CountFaults
    BY <1>4 DEF CountFaults, Walk, Tried, InHand
<1>5. CASE Keeps /\ stage' # "done"
    BY <1>5 DEF Keeps, Walk, Tried
<1>6. CASE UNCHANGED vars
    BY <1>6 DEF vars, Walk, Tried, InHand
<1> QED BY <1>1, <1>2, <1>3, <1>4, <1>5, <1>6, AllSteps

(* The identification of a unit goes where its protocol leads.             *)
LEMMA AttemptKept ==
    ASSUME Inv, Attempt, [Next]_vars, mode = "probe-all"
    PROVE  Attempt'
<1> SUFFICES ASSUME ~lost' PROVE Attempt'
    BY DEF Attempt
<1>0. ~lost /\ car' = car
    BY LostForGood, SameCar
<1> USE <1>0 DEF Interrogated, Speaks
<1>1. CASE TryAddress
    BY <1>1 DEF TryAddress, Attempt
<1>2. CASE Ds2Ident
    <2>1. stage = "ds2" /\ target = address /\ reply = NoReply /\ found = NoModule
        BY <1>2 DEF Ds2Ident, Attempt, Inv, Stages
    <2>2. CASE Heard(target, "DS2") /\ StartMatching
        <3>1. ReplyOf(target) # NoReply
            BY <2>2, ReplyIsReal DEF Heard
        <3> QED
            BY <2>1, <2>2, <3>1 DEF Heard, StartMatching, Attempt, AnsweredBy
    <2>3. CASE Unheard(target, "DS2") /\ stage' = "kwp"
        BY <1>2, <2>1, <2>3 DEF Unheard, Ds2Ident, StartMatching, Attempt
    <2> QED
        BY <1>2, <2>2, <2>3 DEF Ds2Ident
<1>3. CASE KwpIdent
    <2>1. /\ stage = "kwp" /\ reply = NoReply /\ found = NoModule
          /\ ~Speaks(address, "DS2") /\ target = KwpTarget(address)
        BY <1>3 DEF KwpIdent, Attempt, Inv, Stages
    <2>2. CASE Heard(target, "KWP") /\ StartMatching
        <3>1. ReplyOf(target) # NoReply
            BY <2>2, ReplyIsReal DEF Heard
        <3> QED
            BY <2>1, <2>2, <3>1 DEF Heard, StartMatching, Attempt, AnsweredBy
    <2>3. CASE Unheard(target, "KWP") /\ stage' = "found"
        BY <1>3, <2>1, <2>3 DEF Unheard, KwpIdent, StartMatching, findVars, Attempt, Unanswered
    <2> QED
        BY <1>3, <2>2, <2>3 DEF KwpIdent
<1>4. ASSUME NEW m \in Modules, Examine(m) PROVE Attempt'
    BY <1>4 DEF Examine, Attempt, Unanswered, AnsweredBy
<1>5. CASE UseFound
    <2>1. found # Root
        BY <1>5 DEF UseFound, Inv, Stages
    <2> QED
        BY <1>5, <2>1 DEF UseFound, findVars, Attempt, Unanswered, AnsweredBy
<1>6. CASE UseRoot
    <2>1. reply # NoReply => \A m \in CandidatesAt(target) : ~Matches(m, reply)
        <3>1. stage = "found" /\ found = NoModule /\ NoModule \notin Modules
            BY <1>6, ProbeAssumption DEF UseRoot, ProbeAssumption
        <3> QED
            BY <3>1 DEF Inv, Examined
    <2> QED
        BY <1>6, <2>1 DEF UseRoot, Attempt, Unanswered, AnsweredBy
<1>7. CASE Identify
    <2>1. CASE Heard(home, Protocol)
        BY <1>7, <2>1 DEF Identify, AfterIdentify, AfterSilence, findVars, Heard, Attempt, Unanswered,
                 AnsweredBy, Protocol
    <2>2. CASE Unheard(home, Protocol) /\ stage' = AfterSilence
        BY <2>2 DEF AfterSilence, Attempt
    <2> QED
        BY <1>7, <2>1, <2>2 DEF Identify
<1>8. CASE ReadVin
    BY <1>8 DEF ReadVin, findVars, Attempt, Unanswered, AnsweredBy, Protocol
<1>9. CASE stage' \in {"next", "done", "aborted"}
    BY <1>9 DEF Attempt
<1>10. CASE MatchDone
    BY <1>10 DEF MatchDone, findVars, Attempt, Unanswered, AnsweredBy
<1>11. CASE UNCHANGED vars
    BY <1>11 DEF vars, findVars, Attempt, Unanswered, AnsweredBy, Protocol
<1>12. NoMoreAddresses \/ GiveUpAddress \/ CountFaults \/ QueryFails =>
          stage' \in {"next", "done", "aborted"}
    BY DEF NoMoreAddresses, GiveUpAddress, CountFaults, QueryFails
<1> QED
    BY <1>1, <1>2, <1>3, <1>4, <1>5, <1>6, <1>7, <1>8, <1>9, <1>10, <1>11,
       <1>12 DEF Next

-----------------------------------------------------------------------------
(* Which addresses have been dealt with, before and after a step.          *)
LEMMA SettledKept ==
    ASSUME Inv, Walk, [Next]_vars, mode = "probe-all",
           TryAddress \/ NoMoreAddresses \/ Keeps \/ UNCHANGED vars
    PROVE  Settled' = Settled
<1>0. Len(Known) \in Nat /\ Len(todo) \in Nat
    BY ProbeAssumption DEF ProbeAssumption, Walk
<1>1. CASE TryAddress
    <2>1. todo \in Seq(Addresses) /\ todo # <<>>
        BY <1>1 DEF TryAddress, Inv, Fixed
    <2>2. Len(Tail(todo)) = Len(todo) - 1
        BY <2>1, HeadTailProperties
    <2>3. ~InHand /\ InHand' /\ todo' = Tail(todo)
        BY <1>1 DEF TryAddress, InHand
    <2>4. Tried' - 1 = Tried
        <3>1. Len(todo') = Len(todo) - 1
            BY <2>2, <2>3
        <3>2. Tried' = Len(Known) - Len(todo')
            BY DEF Tried
        <3> QED
            BY <1>0, <3>1, <3>2 DEF Tried
    <2> QED
        BY <2>3, <2>4 DEF Settled
<1>2. CASE NoMoreAddresses
    BY <1>2 DEF NoMoreAddresses, Settled, Tried, InHand
<1>3. CASE Keeps
    BY <1>3 DEF Keeps, Settled, Tried
<1>4. CASE UNCHANGED vars
    BY <1>4 DEF vars, Settled, Tried, InHand
<1> QED BY <1>1, <1>2, <1>3, <1>4

LEMMA SettledGrows ==
    ASSUME Inv, Walk, InHand, stage' = "next", UNCHANGED todo
    PROVE  address \notin Settled /\ Settled' = Settled \cup {address}
<1>0. Len(Known) \in Nat /\ Len(todo) \in 0..Len(Known) /\ Tried' = Tried
    BY ProbeAssumption DEF ProbeAssumption, Walk, Tried
<1>1. Tried \in 1..Len(Known) /\ address = Known[Tried]
    BY <1>0 DEF Walk, Tried
<1>2. /\ Settled = {Known[i] : i \in 1..(Tried - 1)}
      /\ Settled' = {Known[i] : i \in 1..Tried}
    BY <1>0 DEF Settled, InHand
<1>3. \A i \in 1..(Tried - 1) : Known[i] < Known[Tried]
    BY <1>1, ProbeAssumption DEF ProbeAssumption
<1>4. \A i \in 1..(Tried - 1) : Known[i] # Known[Tried]
    <2>1. \A i \in 1..Len(Known) : Known[i] \in Nat
        BY ProbeAssumption DEF ProbeAssumption
    <2> QED
        BY <1>1, <1>3, <2>1
<1> QED
    BY <1>1, <1>2, <1>4

(* What belongs in the table does not change.                              *)
LEMMA UnitsStay ==
    ASSUME [Next]_vars, NEW a
    PROVE  (Reportable(a)' <=> Reportable(a)) /\ (Mistaken(a)' <=> Mistaken(a))
<1>1. /\ \A p : Speaks(a, p)' = Speaks(a, p)
      /\ ReplyOf(a)' = ReplyOf(a)
    BY SameCar DEF Speaks
<1> QED
    BY <1>1 DEF Reportable, Mistaken

(* An address is reported as it should be whatever is added elsewhere.     *)
LEMMA RowsElsewhere ==
    ASSUME Inv, [Next]_vars, NEW a,
           rows' = rows \/ (rows' = Append(rows, Row) /\ a # address)
    PROVE  RowsFor(a)' = RowsFor(a) /\ (Reported(a) => Reported(a)')
<1>2. RowsFor(a)' = RowsFor(a)
    <2>1. CASE rows' = rows
        BY <2>1 DEF RowsFor
    <2>2. CASE rows' = Append(rows, Row) /\ a # address
        <3> DEFINE Rows == [probed : Addresses, module : Modules \cup {NoModule, Root},
                            home : Addresses, flags : SUBSET AllFlags]
        <3>1. rows \in Seq(Rows)
            BY DEF Inv, Table
        <3>2. Row.probed = address
            BY DEF Row
        <3> HIDE DEF Rows
        <3>3. /\ Len(rows') = Len(rows) + 1 /\ Len(rows) \in Nat
              /\ \A i \in 1..Len(rows) : rows'[i] = rows[i]
              /\ rows'[Len(rows) + 1] = Row
            BY <2>2, <3>1
        <3> QED
            BY <2>2, <3>2, <3>3 DEF RowsFor
    <2> QED BY <2>1, <2>2
<1>3. (Reportable(a)' <=> Reportable(a)) /\ (Mistaken(a)' <=> Mistaken(a))
    BY UnitsStay
<1> QED
    BY <1>2, <1>3 DEF Reported

(* The row that is added, and the address that gets none.                  *)
LEMMA RowAdded ==
    ASSUME Inv, Walk, SettledReported, Attempt, CountFaults,
           [Next]_vars, mode = "probe-all", ~lost'
    PROVE  Reported(address)'
<1>0. ~lost /\ rows' = Append(rows, Row) /\ stage = "count" /\ address' = address
    BY LostForGood DEF CountFaults
<1>1. /\ home = address => Reportable(address)
      /\ Reportable(address) /\ ~Mistaken(address) => home = address
    BY <1>0, Outcome DEF Attempt, Interrogated
<1>2. \A i \in 1..Len(rows) : rows[i].probed # address
    BY <1>0, SettledGrows DEF SettledReported, CountFaults, InHand
<1>3. /\ Len(rows') = Len(rows) + 1 /\ Len(rows) \in Nat
      /\ \A i \in 1..Len(rows) : rows'[i] = rows[i]
      /\ rows'[Len(rows) + 1] = Row
    <2> DEFINE Rows == [probed : Addresses, module : Modules \cup {NoModule, Root},
                        home : Addresses, flags : SUBSET AllFlags]
    <2>1. rows \in Seq(Rows)
        BY DEF Inv, Table
    <2> HIDE DEF Rows
    <2> QED
        BY <1>0, <2>1
<1>4. RowsFor(address)' = IF home = address THEN {Len(rows) + 1} ELSE {}
    BY <1>0, <1>2, <1>3 DEF RowsFor, Row
<1>5. /\ Reportable(address)' <=> Reportable(address)
      /\ Mistaken(address)' <=> Mistaken(address)
    BY <1>0, SameCar DEF Reportable, Mistaken, Speaks
<1>6. CASE home = address
    <2>1. Cardinality(RowsFor(address)') = 1 /\ RowsFor(address)' # {}
        BY <1>4, <1>6, FS_Singleton
    <2> QED
        BY <1>0, <1>1, <1>5, <1>6, <2>1 DEF Reported, RowsFor, Reportable, Mistaken, Speaks
<1>7. CASE home # address
    BY <1>0, <1>1, <1>4, <1>5, <1>7 DEF Reported, RowsFor, Reportable, Mistaken, Speaks
<1> QED BY <1>6, <1>7

LEMMA RowDropped ==
    ASSUME Inv, Walk, SettledReported, Attempt, Drops,
           [Next]_vars, mode = "probe-all", ~lost'
    PROVE  Reported(address)'
<1>0. ~lost /\ rows' = rows /\ stage = "identify" /\ address' = address
    BY LostForGood DEF Drops, Identify
<1>1. ~Speaks(home, Protocol)
    BY DEF Drops, Unheard
<1>2. Reportable(address) => Mistaken(address)
    BY <1>0, <1>1, Outcome DEF Interrogated
<1>3. RowsFor(address) = {}
    BY <1>0, SettledGrows DEF SettledReported, Drops, InHand, RowsFor
<1>4. Reported(address)
    BY <1>2, <1>3 DEF Reported
<1> QED
    BY <1>0, <1>4, RowsElsewhere

LEMMA ReportedKept ==
    ASSUME Inv, Walk, SettledReported, Attempt, [Next]_vars, mode = "probe-all"
    PROVE  SettledReported'
<1>1. CASE CountFaults \/ Drops
    <2>1. /\ Settled' = Settled \cup {address} /\ address \notin Settled
          /\ InHand
        BY <1>1, SettledGrows DEF CountFaults, Drops, Identify, InHand
    <2>2. rows' = rows \/ rows' = Append(rows, Row)
        BY <1>1 DEF CountFaults, Drops
    <2>3. \A i \in 1..Len(rows') : rows'[i].probed \in Settled'
        <3> DEFINE Rows == [probed : Addresses, module : Modules \cup {NoModule, Root},
                            home : Addresses, flags : SUBSET AllFlags]
        <3>1. rows \in Seq(Rows)
            BY DEF Inv, Table
        <3>2. Row.probed = address
            BY DEF Row
        <3> HIDE DEF Rows
        <3> QED
            BY <2>1, <2>2, <3>1, <3>2 DEF SettledReported
    <2>4. ASSUME ~lost', NEW a \in Settled' PROVE Reported(a)'
        <3>0. ~lost /\ address' = address
            BY <1>1, <2>4, LostForGood DEF CountFaults, Drops
        <3>1. CASE a = address
            BY <1>1, <2>4, <3>0, <3>1, RowAdded, RowDropped
        <3>2. CASE a # address
            BY <2>1, <2>2, <2>4, <3>0, <3>2, RowsElsewhere DEF SettledReported
        <3> QED BY <3>1, <3>2
    <2> QED
        BY <2>3, <2>4 DEF SettledReported
<1>2. CASE TryAddress \/ NoMoreAddresses \/ Keeps \/ UNCHANGED vars
    <2>1. Settled' = Settled /\ rows' = rows
        BY <1>2, SettledKept DEF TryAddress, NoMoreAddresses, Keeps, vars
    <2>2. lost => lost'
        BY LostForGood
    <2>3. \A a : Reported(a) => Reported(a)'
        BY <2>1, RowsElsewhere
    <2> QED
        BY <2>1, <2>2, <2>3 DEF SettledReported
<1> QED BY <1>1, <1>2, AllSteps

-----------------------------------------------------------------------------
(* Nothing in the car is left out of the table, and nothing else is in it. *)
THEOREM TableIsComplete == Spec => []EveryUnitReported
<1>1. Inv /\ AllInv /\ [Next]_vars => AllInv'
    BY WalkKept, ReportedKept, AttemptKept, LostForGood DEF AllInv
<1>2. Inv /\ AllInv => EveryUnitReported
    <2> SUFFICES ASSUME Inv, AllInv, mode = "probe-all", stage = "done", ~lost,
                        NEW a \in Addresses
                 PROVE  Reported(a)
        BY DEF EveryUnitReported
    <2>1. Len(Known) \in Nat /\ todo = <<>>
        BY ProbeAssumption DEF ProbeAssumption, AllInv, Walk
    <2>2. Settled = Addresses
        BY <2>1 DEF Settled, Tried, InHand, Addresses
    <2> QED
        BY <2>2 DEF AllInv, SettledReported
<1> QED
    BY AllInit, SearchInvariant, <1>1, <1>2, PTL DEF Spec
=============================================================================
