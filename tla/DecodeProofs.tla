---------------------------- MODULE DecodeProofs ----------------------------
(***************************************************************************)
(* What the decoder shows of a line, for every line, operation, program    *)
(* and order of the hash.                                                  *)
(*                                                                         *)
(* First numbers: induction with a set in place of the predicate, from the *)
(* well-foundedness of finite sets, for the powers and bits of Decode.     *)
(* Then the operators on which the steps rest: stack and arithmetic        *)
(* (CombinedTyped, DepthStep), frames (FrameWithLast, FrameWithoutLast),   *)
(* checksums (OneWrongChecksum) and 6-bit text (SixBitTextsAreRead).       *)
(* Then four invariants, each with a lemma per action that disturbs it:    *)
(* DecodeInv (types, the result in hand, the depth of its stack), FrameInv *)
(* (the packet is that of the line), OutcomeInv (which results have a      *)
(* value) and MeantInv (which value).  The theorems are at the end.        *)
(***************************************************************************)
EXTENDS Decode, FiniteSetTheorems, WellFoundedInduction, TLAPS

-----------------------------------------------------------------------------
(* Numbers.                                                                *)

(* A non-empty set of numbers has a least one.                             *)
LEMMA LeastNumber ==
    ASSUME NEW T \in SUBSET Nat, T # {}
    PROVE  \E n \in T : \A m \in T : n <= m
<1> DEFINE R == StrictSubsetOrdering(Nat)
           U == {0..n : n \in T}
<1>1. U \subseteq FiniteSubsetsOf(Nat) /\ U # {}
    <2>1. \A n \in T : IsFiniteSet(0..n) /\ 0..n \in SUBSET Nat
        BY FS_Interval
    <2> QED BY <2>1 DEF FiniteSubsetsOf
<1>2. PICK x \in U : \A y \in U : <<y, x>> \notin R
    <2> HIDE DEF U
    <2> QED BY <1>1, WFMin, FS_StrictSubsetOrderingWellFounded
<1>3. PICK n \in T : x = 0..n
    OBVIOUS
<1>4. ASSUME NEW m \in T, m < n PROVE FALSE
    <2>1. 0..m \in U /\ <<0..m, 0..n>> \in R
        BY <1>4 DEF StrictSubsetOrdering
    <2> QED BY <1>2, <1>3, <2>1
<1> QED BY <1>3, <1>4

(* Induction, with a set in place of the predicate.                        *)
LEMMA Induction ==
    ASSUME NEW S, 0 \in S, \A n \in Nat : n \in S => n + 1 \in S
    PROVE  Nat \subseteq S
<1> DEFINE T == Nat \ S
<1> SUFFICES ASSUME T # {} PROVE FALSE
    OBVIOUS
<1>1. PICK n \in T : \A m \in T : n <= m
    <2>1. T \in SUBSET Nat
        OBVIOUS
    <2> HIDE DEF T
    <2> QED BY <2>1, LeastNumber
<1>2. n # 0 /\ n - 1 \in Nat /\ n - 1 \in S
    BY <1>1
<1> QED BY <1>2

(* Numbers that are made one from the other: there is such a function.     *)
LEMMA RecursionExists ==
    ASSUME NEW c \in Nat, NEW step \in [Nat -> [Nat -> Nat]], NEW n \in Nat
    PROVE  \E g \in [0..n -> Nat] :
              g[0] = c /\ \A i \in 1..n : g[i] = step[i - 1][g[i - 1]]
<1>1. PICK X : X = Nat
    OBVIOUS
<1> DEFINE Is(g, k) ==
             g[0] = c /\ \A i \in 1..k : g[i] = step[i - 1][g[i - 1]]
           S == {k \in Nat : \E g \in [0..k -> X] : Is(g, k)}
<1>2. c \in X /\ step \in [Nat -> [X -> X]]
    BY <1>1
<1>3. 0 \in S
    <2>1. [i \in 0..0 |-> c] \in [0..0 -> X] /\ Is([i \in 0..0 |-> c], 0)
        BY <1>2
    <2> HIDE DEF Is
    <2> QED BY <2>1
<1>4. ASSUME NEW k \in Nat, k \in S PROVE k + 1 \in S
    <2>1. PICK g \in [0..k -> X] : Is(g, k)
        BY <1>4
    <2> DEFINE h == [i \in 0..(k + 1) |-> IF i <= k THEN g[i] ELSE step[k][g[k]]]
    <2>2. h \in [0..(k + 1) -> X]
        <3>1. step[k][g[k]] \in X
            BY <1>2
        <3> QED BY <3>1
    <2>3. Is(h, k + 1)
        <3>1. h[0] = c
            BY <2>1
        <3>2. ASSUME NEW i \in 1..(k + 1) PROVE h[i] = step[i - 1][h[i - 1]]
            <4>1. i - 1 \in 0..k /\ h[i - 1] = g[i - 1]
                OBVIOUS
            <4>2. CASE i <= k
                <5>1. h[i] = g[i] /\ i \in 1..k
                    BY <4>2
                <5> QED BY <2>1, <4>1, <5>1
            <4>3. CASE i = k + 1
                <5>1. h[i] = step[k][g[k]] /\ i - 1 = k
                    BY <4>3
                <5> QED BY <4>1, <5>1
            <4> QED BY <4>2, <4>3
        <3> QED BY <3>1, <3>2
    <2> HIDE DEF h, Is
    <2> QED BY <2>2, <2>3
<1> HIDE DEF S
<1>5. n \in S
    BY <1>3, <1>4, Induction
<1> HIDE DEF Is
<1>6. \E g \in [0..n -> X] : Is(g, n)
    BY <1>5 DEF S
<1> QED BY <1>1, <1>6, Zenon DEF Is

LEMMA PowerStep ==
    /\ Power[0] = 1
    /\ \A i \in 1..WordBits : Power[i] = 2 * Power[i - 1]
<1> DEFINE step == [i \in Nat |-> [x \in Nat |-> 2 * x]]
<1>1. step \in [Nat -> [Nat -> Nat]] /\ WordBits \in Nat /\ 1 \in Nat
    BY DecodeAssumption
<1>2. PICK g \in [0..WordBits -> Nat] :
         g[0] = 1 /\ \A i \in 1..WordBits : g[i] = step[i - 1][g[i - 1]]
    <2> HIDE DEF step
    <2>1. step \in [Nat -> [Nat -> Nat]]
        BY <1>1
    <2>2. WordBits \in Nat /\ 1 \in Nat
        BY <1>1
    <2> QED BY <2>1, <2>2, RecursionExists, Zenon
<1>3. \A i \in 0..WordBits : g[i] = IF i = 0 THEN 1 ELSE 2 * g[i - 1]
    <2>1. ASSUME NEW i \in 1..WordBits PROVE g[i] = 2 * g[i - 1]
        <3>1. i - 1 \in Nat /\ g[i - 1] \in Nat
            BY <1>1
        <3> QED BY <1>2, <3>1
    <2> QED BY <1>1, <1>2, <2>1
<1>4. g = [i \in 0..WordBits |-> IF i = 0 THEN 1 ELSE 2 * g[i - 1]]
    <2>1. g = [i \in 0..WordBits |-> g[i]]
        OBVIOUS
    <2> QED BY <1>3, <2>1
<1>5. Power = [i \in 0..WordBits |-> IF i = 0 THEN 1 ELSE 2 * Power[i - 1]]
    BY <1>4 DEF Power
<1> QED BY <1>1, <1>5

LEMMA PowerPositive == \A i \in 0..WordBits : Power[i] \in Nat \ {0}
<1> DEFINE S == {i \in Nat : i <= WordBits => Power[i] \in Nat \ {0}}
<1>1. WordBits \in Nat
    BY DecodeAssumption
<1>2. 0 \in S
    BY PowerStep
<1>3. ASSUME NEW i \in Nat, i \in S PROVE i + 1 \in S
    <2>1. ASSUME i + 1 <= WordBits PROVE Power[i + 1] \in Nat \ {0}
        <3>1. Power[i] \in Nat \ {0} /\ i + 1 \in 1..WordBits /\ (i + 1) - 1 = i
            BY <1>1, <1>3, <2>1
        <3>2. Power[i + 1] = 2 * Power[i]
            BY <3>1, PowerStep
        <3> QED BY <3>1, <3>2
    <2> QED BY <2>1
<1> HIDE DEF S
<1>4. Nat \subseteq S
    BY <1>2, <1>3, Induction
<1> QED BY <1>1, <1>4 DEF S

LEMMA WordsPositive == Words \in Nat \ {0} /\ Words >= 2
<1>1. WordBits \in 1..WordBits /\ WordBits - 1 \in 0..WordBits
    BY DecodeAssumption
<1>2. Words = 2 * Power[WordBits - 1] /\ Power[WordBits - 1] \in Nat \ {0}
    BY <1>1, PowerStep, PowerPositive DEF Words
<1> QED BY <1>2

(* A remainder and a quotient by a positive number.                        *)
LEMMA Division ==
    ASSUME NEW x \in Int, NEW n \in Nat \ {0}
    PROVE  x % n \in 0..(n - 1) /\ x \div n \in Int /\ (x \in Nat => x \div n \in Nat)
    OBVIOUS

(* What FromBits has put together after each bit.                          *)
Low(f, n, low) ==
    /\ low \in [0..n -> Nat] /\ low[0] = 0
    /\ \A i \in 1..n : low[i] = low[i - 1] + Power[i - 1] * f[i - 1]

LEMMA FromBitsSteps ==
    ASSUME NEW n \in 0..WordBits, NEW f \in [0..(n - 1) -> {0, 1}]
    PROVE  \E low : Low(f, n, low) /\ FromBits(f, n) = low[n]
<1> DEFINE term(i) == Power[i] * f[i]
           step == [i \in Nat |-> [s \in Nat |-> IF i < n THEN s + term(i) ELSE s]]
<1>0. n \in Nat /\ WordBits \in Nat /\ n <= WordBits
    BY DecodeAssumption
<1>1. \A i \in 0..(n - 1) : term(i) \in Nat
    <2> TAKE i \in 0..(n - 1)
    <2>1. Power[i] \in Nat \ {0}
        BY <1>0, PowerPositive
    <2>2. f[i] \in {0, 1}
        OBVIOUS
    <2> QED BY <2>1, <2>2
<1> HIDE DEF term
<1>2. step \in [Nat -> [Nat -> Nat]] /\ 0 \in Nat
    BY <1>0, <1>1
<1>3. PICK g \in [0..n -> Nat] :
         g[0] = 0 /\ \A i \in 1..n : g[i] = step[i - 1][g[i - 1]]
    <2> HIDE DEF step
    <2> QED BY <1>0, <1>2, RecursionExists, Zenon
<1>4. \A i \in 0..n : g[i] = IF i = 0 THEN 0 ELSE g[i - 1] + term(i - 1)
    <2>1. ASSUME NEW i \in 1..n PROVE g[i] = g[i - 1] + term(i - 1)
        <3>1. i - 1 \in Nat /\ i - 1 < n /\ g[i - 1] \in Nat
            BY <1>0
        <3> QED BY <1>3, <3>1
    <2> QED BY <1>0, <1>3, <2>1
<1>5. g = [i \in 0..n |-> IF i = 0 THEN 0 ELSE g[i - 1] + term(i - 1)]
    <2>1. g = [i \in 0..n |-> g[i]]
        OBVIOUS
    <2> QED BY <1>4, <2>1
<1> DEFINE low == CHOOSE h : h = [i \in 0..n |->
                       IF i = 0 THEN 0 ELSE h[i - 1] + term(i - 1)]
<1>6. low = [i \in 0..n |-> IF i = 0 THEN 0 ELSE low[i - 1] + term(i - 1)]
    BY <1>5
<1>7. FromBits(f, n) = low[n]
    BY DEF FromBits, term
<1> HIDE DEF low
<1> DEFINE S == {i \in Nat : i <= n => low[i] \in Nat}
<1>8. 0 \in S
    BY <1>0, <1>6
<1>9. ASSUME NEW i \in Nat, i \in S PROVE i + 1 \in S
    <2>1. ASSUME i + 1 <= n PROVE low[i + 1] \in Nat
        <3>1. /\ low[i] \in Nat /\ i \in 0..(n - 1)
              /\ i + 1 \in 0..n /\ (i + 1) - 1 = i /\ i + 1 # 0
            BY <1>0, <1>9, <2>1
        <3>2. low[i + 1] = low[i] + term(i)
            BY <1>6, <3>1
        <3> QED BY <1>1, <3>1, <3>2
    <2> QED BY <2>1
<1> HIDE DEF S
<1>10. Nat \subseteq S
    BY <1>8, <1>9, Induction
<1>11. low \in [0..n -> Nat]
    <2>1. \A i \in 0..n : low[i] \in Nat
        BY <1>0, <1>10 DEF S
    <2> QED BY <1>6, <2>1
<1>12. low[0] = 0 /\ \A i \in 1..n : low[i] = low[i - 1] + term(i - 1)
    BY <1>0, <1>6
<1> QED BY <1>7, <1>11, <1>12 DEF Low, term

(* The bits so far make a number below the next power.                     *)
LEMMA LowBelow ==
    ASSUME NEW n \in 0..WordBits, NEW f \in [0..(n - 1) -> {0, 1}], NEW low, Low(f, n, low)
    PROVE  \A i \in 0..n : low[i] < Power[i]
<1> DEFINE S == {i \in Nat : i <= n => low[i] < Power[i]}
<1>1. n \in Nat /\ WordBits \in Nat /\ n <= WordBits
    BY DecodeAssumption
<1>2. 0 \in S
    BY PowerStep DEF Low
<1>3. ASSUME NEW i \in Nat, i \in S PROVE i + 1 \in S
    <2>1. ASSUME i + 1 <= n PROVE low[i + 1] < Power[i + 1]
        <3>1. /\ i \in 0..n /\ i \in 0..(n - 1) /\ i + 1 \in 1..n /\ (i + 1) - 1 = i
              /\ i + 1 \in 1..WordBits /\ i \in 0..WordBits
            BY <1>1, <2>1
        <3>2. Power[i] \in Nat /\ Power[i + 1] = 2 * Power[i]
            BY <3>1, PowerStep, PowerPositive
        <3>3. low[i] \in Nat /\ low[i] < Power[i]
            BY <1>3, <3>1 DEF Low
        <3>4. low[i + 1] = low[i] + Power[i] * f[i]
            BY <3>1 DEF Low
        <3>5. f[i] = 0 \/ f[i] = 1
            BY <3>1
        <3> QED BY <3>2, <3>3, <3>4, <3>5
    <2> QED BY <2>1
<1> HIDE DEF S
<1>4. Nat \subseteq S
    BY <1>2, <1>3, Induction
<1> QED BY <1>1, <1>4 DEF S

LEMMA FromBitsIsNumber ==
    ASSUME NEW n \in 0..WordBits, NEW f \in [0..(n - 1) -> {0, 1}]
    PROVE  FromBits(f, n) \in Nat /\ FromBits(f, n) < Power[n]
<1>1. PICK low : Low(f, n, low) /\ FromBits(f, n) = low[n]
    BY FromBitsSteps
<1>2. n \in 0..n
    BY DecodeAssumption
<1>3. low[n] \in Nat /\ low[n] < Power[n]
    BY <1>1, <1>2, LowBelow DEF Low
<1> QED BY <1>1, <1>3

(* Different bits make different numbers.                                  *)
LEMMA FromBitsDiffer ==
    ASSUME NEW n \in 0..WordBits, NEW f \in [0..(n - 1) -> {0, 1}],
           NEW g \in [0..(n - 1) -> {0, 1}], NEW k \in 0..(n - 1), f[k] # g[k]
    PROVE  FromBits(f, n) # FromBits(g, n)
<1>1. PICK low : Low(f, n, low) /\ FromBits(f, n) = low[n]
    BY FromBitsSteps
<1>2. PICK other : Low(g, n, other) /\ FromBits(g, n) = other[n]
    BY FromBitsSteps
<1>3. n \in Nat /\ WordBits \in Nat /\ n <= WordBits
    BY DecodeAssumption
<1>4. \A i \in 0..n : low[i] \in Nat /\ other[i] \in Nat
                     /\ low[i] < Power[i] /\ other[i] < Power[i]
    BY <1>1, <1>2, LowBelow DEF Low
<1> DEFINE S == {i \in Nat : k < i /\ i <= n => low[i] # other[i]}
<1>5. 0 \in S
    OBVIOUS
<1>6. ASSUME NEW i \in Nat, i \in S PROVE i + 1 \in S
    <2>1. ASSUME k < i + 1, i + 1 <= n PROVE low[i + 1] # other[i + 1]
        <3>1. /\ i \in 0..n /\ i \in 0..(n - 1) /\ i + 1 \in 1..n /\ (i + 1) - 1 = i
              /\ i \in 0..WordBits
            BY <1>3, <2>1
        <3>2. /\ low[i] \in Nat /\ other[i] \in Nat /\ Power[i] \in Nat
              /\ low[i] < Power[i] /\ other[i] < Power[i]
            BY <1>4, <3>1, PowerPositive
        <3>3. /\ low[i + 1] = low[i] + Power[i] * f[i]
              /\ other[i + 1] = other[i] + Power[i] * g[i]
            BY <1>1, <1>2, <3>1 DEF Low
        <3>4. (f[i] = 0 \/ f[i] = 1) /\ (g[i] = 0 \/ g[i] = 1)
            BY <3>1
        <3>5. f[i] # g[i] \/ low[i] # other[i]
            BY <1>6, <2>1, <3>1
        <3> QED BY <3>2, <3>3, <3>4, <3>5
    <2> QED BY <2>1
<1> HIDE DEF S
<1>7. Nat \subseteq S
    BY <1>5, <1>6, Induction
<1>8. low[n] # other[n]
    BY <1>3, <1>7 DEF S
<1> QED BY <1>1, <1>2, <1>8

LEMMA BitIsBit ==
    ASSUME NEW x \in Int, NEW i \in 0..WordBits
    PROVE  Bit(x, i) \in {0, 1}
<1>1. Power[i] \in Nat \ {0}
    BY PowerPositive
<1>2. x \div Power[i] \in Int
    BY <1>1, Division
<1> QED BY <1>2 DEF Bit

LEMMA BitAndIsNumber ==
    ASSUME NEW x \in Int, NEW y \in Int
    PROVE  BitAnd(x, y) \in Nat
<1> DEFINE f == [i \in 0..(WordBits - 1) |-> Bit(x, i) * Bit(y, i)]
<1>1. WordBits \in 0..WordBits
    BY DecodeAssumption
<1>2. f \in [0..(WordBits - 1) -> {0, 1}]
    <2>1. ASSUME NEW i \in 0..(WordBits - 1) PROVE Bit(x, i) * Bit(y, i) \in {0, 1}
        <3>1. i \in 0..WordBits
            BY <1>1
        <3>2. Bit(x, i) \in {0, 1} /\ Bit(y, i) \in {0, 1}
            BY <3>1, BitIsBit
        <3> QED BY <3>2
    <2> QED BY <2>1
<1>3. BitAnd(x, y) = FromBits(f, WordBits)
    BY DEF BitAnd
<1> HIDE DEF f
<1> QED BY <1>1, <1>2, <1>3, FromBitsIsNumber

-----------------------------------------------------------------------------
(* Quantities: pairs of a whole number and a denominator, which is 1 on a  *)
(* stack of integers.                                                      *)
Quantity(q, isReal) == q \in Int \X Nat /\ (~isReal => q[2] = 1)

LEMMA QuantityParts ==
    ASSUME NEW q, NEW isReal, Quantity(q, isReal)
    PROVE  q[1] \in Int /\ q[2] \in Nat /\ (~isReal => q[2] = 1)
BY DEF Quantity

LEMMA QuantityMade ==
    ASSUME NEW n \in Int, NEW d \in Nat, NEW isReal, ~isReal => d = 1
    PROVE  Quantity(<<n, d>>, isReal)
BY DEF Quantity

LEMMA Product == ASSUME NEW m \in Nat, NEW n \in Nat PROVE m * n \in Nat
<1>1. m * n \in Int /\ m >= 0 /\ n >= 0
    OBVIOUS
<1>2. m * n >= 0
    BY <1>1
<1> QED BY <1>1, <1>2

LEMMA TruncateIsWhole ==
    ASSUME NEW q \in Int \X Nat, q[2] # 0
    PROVE  Truncate(q) \in Int
<1>1. q[1] \in Int /\ q[2] \in Nat \ {0}
    OBVIOUS
<1> PICK n, d : n = q[1] /\ d = q[2]
    OBVIOUS
<1>2. n \div d \in Int /\ (-n) \div d \in Int
    <2>1. n \in Int /\ -n \in Int /\ d \in Nat \ {0}
        BY <1>1
    <2> QED BY <2>1, Division
<1>3. CASE q[1] >= 0
    BY <1>1, <1>2, <1>3 DEF Truncate
<1>4. CASE ~(q[1] >= 0)
    BY <1>1, <1>2, <1>4 DEF Truncate
<1> QED BY <1>3, <1>4

LEMMA PushedTyped ==
    ASSUME NEW q \in Int \X Nat, NEW isReal, ~isReal => q[2] # 0
    PROVE  Quantity(Pushed(q, isReal), isReal)
<1>1. CASE isReal
    BY <1>1 DEF Pushed, Quantity
<1>2. CASE ~isReal
    BY <1>2, TruncateIsWhole DEF Pushed, Quantity
<1> QED BY <1>1, <1>2

LEMMA CastIsWhole ==
    ASSUME NEW q \in Int \X Nat, NEW type, NEW n \in Cast(q, type)
    PROVE  n \in Int
<1>1. StrayWords \subseteq Int
    BY DecodeAssumption
<1> QED BY <1>1, TruncateIsWhole DEF Cast

LEMMA UnsignedIsWhole ==
    ASSUME NEW q, NEW isReal, Quantity(q, isReal), NEW n \in Unsigned(q, isReal)
    PROVE  n \in Int
<1>1. q \in Int \X Nat /\ q[1] \in Int
    BY DEF Quantity
<1>2. CASE isReal
    BY <1>1, <1>2, CastIsWhole DEF Unsigned
<1>3. CASE ~isReal
    <2>1. q[1] % Words \in Int
        BY <1>1, WordsPositive, Division
    <2> QED BY <1>3, <2>1 DEF Unsigned
<1> QED BY <1>2, <1>3

LEMMA BackTyped ==
    ASSUME NEW n \in Int, NEW isReal
    PROVE  Quantity(Back(n, isReal), isReal)
<1>1. Words \in Nat \ {0} /\ n % Words \in Nat
    BY WordsPositive, Division
<1>2. Words \div 2 \in Int
    BY <1>1
<1>3. Signed(n % Words, Words) \in Int
    BY <1>1, <1>2 DEF Signed
<1>4. (IF isReal THEN n % Words ELSE Signed(n % Words, Words)) \in Int
    BY <1>1, <1>3
<1> QED BY <1>4, QuantityMade DEF Back

LEMMA ShiftPossible ==
    ASSUME NEW n \in Int, NEW c \in Shifts(n)
    PROVE  c \in 0..WordBits /\ Power[c] \in Nat \ {0}
<1>1. WordBits \in Nat \ {0}
    BY DecodeAssumption
<1>2. n % WordBits \in 0..(WordBits - 1)
    BY <1>1, Division
<1>3. c \in 0..WordBits
    BY <1>1, <1>2 DEF Shifts
<1> QED BY <1>3, PowerPositive

LEMMA QuotientTyped ==
    ASSUME NEW b \in Int \X Nat, NEW a \in Int \X Nat
    PROVE  /\ Quotient(b, a) \in Int \X Nat
           /\ a[1] # 0 /\ b[2] # 0 => Quotient(b, a)[2] # 0
<1>1. a[1] \in Int /\ a[2] \in Nat /\ b[1] \in Int /\ b[2] \in Nat
    OBVIOUS
<1>2. b[1] * a[2] \in Int /\ -b[1] * a[2] \in Int
    BY <1>1
<1>3. CASE a[1] > 0
    <2>1. b[2] * a[1] \in Nat
        BY <1>1, <1>3, Product
    <2>2. b[2] # 0 => b[2] * a[1] # 0
        BY <1>1, <1>3
    <2> QED BY <1>1, <1>2, <1>3, <2>1, <2>2 DEF Quotient
<1>4. CASE a[1] < 0
    <2>1. -a[1] \in Nat /\ -a[1] > 0
        BY <1>1, <1>4
    <2>2. b[2] * (-a[1]) \in Nat
        BY <1>1, <2>1, Product
    <2>3. b[2] # 0 => b[2] * (-a[1]) # 0
        BY <1>1, <2>1
    <2>4. ~(a[1] > 0)
        BY <1>1, <1>4
    <2> QED BY <1>1, <1>2, <1>4, <2>2, <2>3, <2>4 DEF Quotient
<1>5. CASE a[1] = 0
    BY <1>1, <1>2, <1>5 DEF Quotient
<1> QED BY <1>1, <1>3, <1>4, <1>5

LEMMA CombinedTyped ==
    ASSUME NEW op \in Operators, NEW b, NEW a, NEW isReal \in BOOLEAN,
           Quantity(b, isReal), Quantity(a, isReal),
           op = "/" /\ ~isReal => a[1] # 0,
           NEW v \in Combined(op, b, a, isReal)
    PROVE  Quantity(v, isReal)
<1>1. /\ a[1] \in Int /\ a[2] \in Nat /\ b[1] \in Int /\ b[2] \in Nat
      /\ ~isReal => a[2] = 1 /\ b[2] = 1
    BY QuantityParts
<1>2. b[2] * a[2] \in Nat /\ (~isReal => b[2] * a[2] = 1)
    BY <1>1, Product
<1>3. CASE op = "+"
    <2>1. v = <<b[1] * a[2] + a[1] * b[2], b[2] * a[2]>>
        BY <1>3 DEF Combined
    <2>2. b[1] * a[2] + a[1] * b[2] \in Int
        BY <1>1
    <2> QED BY <1>2, <2>1, <2>2, QuantityMade
<1>4. CASE op = "-"
    <2>1. v = <<b[1] * a[2] - a[1] * b[2], b[2] * a[2]>>
        BY <1>4 DEF Combined, Difference
    <2>2. b[1] * a[2] - a[1] * b[2] \in Int
        BY <1>1
    <2> QED BY <1>2, <2>1, <2>2, QuantityMade
<1>5. CASE op = "*"
    <2>1. v = <<b[1] * a[1], b[2] * a[2]>>
        BY <1>5 DEF Combined
    <2>2. b[1] * a[1] \in Int
        BY <1>1
    <2> QED BY <1>2, <2>1, <2>2, QuantityMade
<1>6. CASE op = "/"
    <2>1. v = Pushed(Quotient(b, a), isReal)
        BY <1>6 DEF Combined
    <2>2. a \in Int \X Nat /\ b \in Int \X Nat
        BY DEF Quantity
    <2>3. /\ Quotient(b, a) \in Int \X Nat
          /\ ~isReal => Quotient(b, a)[2] # 0
        BY <1>1, <1>6, <2>2, QuotientTyped
    <2> QED BY <2>1, <2>3, PushedTyped
<1>7. CASE op = "&"
    <2>1. PICK m \in Unsigned(b, isReal), n \in Unsigned(a, isReal) :
             v = Back(BitAnd(m, n), isReal)
        BY <1>7 DEF Combined
    <2>2. BitAnd(m, n) \in Int
        BY UnsignedIsWhole, BitAndIsNumber
    <2> QED BY <2>1, <2>2, BackTyped
<1> DEFINE counts == UNION {Shifts(n) : n \in Unsigned(a, isReal)}
<1>8. \A c \in counts : Power[c] \in Nat \ {0}
    BY UnsignedIsWhole, ShiftPossible
<1>9. CASE op = ">>"
    <2>1. PICK m \in Unsigned(b, isReal), c \in counts :
             v = Back(m \div Power[c], isReal)
        BY <1>9 DEF Combined
    <2> HIDE DEF counts
    <2>2. m \in Int /\ Power[c] \in Nat \ {0}
        BY <1>8, UnsignedIsWhole
    <2>3. m \div Power[c] \in Int
        BY <2>2, Division
    <2> QED BY <2>1, <2>3, BackTyped
<1>10. CASE op = "<<"
    <2>1. PICK m \in Unsigned(b, isReal), c \in counts :
             v = Back(m * Power[c], isReal)
        BY <1>10 DEF Combined
    <2> HIDE DEF counts
    <2>2. m \in Int /\ Power[c] \in Nat \ {0}
        BY <1>8, UnsignedIsWhole
    <2>3. m * Power[c] \in Int
        BY <2>2
    <2> QED BY <2>1, <2>3, BackTyped
<1> QED BY <1>3, <1>4, <1>5, <1>6, <1>7, <1>9, <1>10 DEF Operators

(* The number of operands among the first tokens.                          *)
LEMMA DepthStep ==
    ASSUME NEW rpn, NEW n \in Nat
    PROVE  /\ Depth(rpn, 0) = 0
           /\ Depth(rpn, n) \in Int
           /\ Depth(rpn, n + 1) = Depth(rpn, n) +
                (IF IsOperand(rpn[n + 1]) THEN 1 ELSE -1)
<1> DEFINE S(k) == {i \in 1..k : IsOperand(rpn[i])}
<1>1. S(0) = {} /\ Cardinality(S(0)) = 0
    BY FS_EmptySet
<1>2. IsFiniteSet(S(n)) /\ Cardinality(S(n)) \in Nat
    <2>1. IsFiniteSet(1..n)
        BY FS_Interval
    <2>2. S(n) \subseteq 1..n
        OBVIOUS
    <2> HIDE DEF S
    <2> QED BY <2>1, <2>2, FS_Subset, FS_CardinalityType
<1>3. CASE IsOperand(rpn[n + 1])
    <2>1. S(n + 1) = S(n) \cup {n + 1} /\ n + 1 \notin S(n)
        BY <1>3
    <2> HIDE DEF S
    <2>2. Cardinality(S(n + 1)) = Cardinality(S(n)) + 1
        BY <1>2, <2>1, FS_AddElement
    <2> QED BY <1>1, <1>2, <1>3, <2>2 DEF Depth, S
<1>4. CASE ~IsOperand(rpn[n + 1])
    <2>1. S(n + 1) = S(n)
        BY <1>4
    <2> HIDE DEF S
    <2>2. Cardinality(S(n + 1)) = Cardinality(S(n))
        BY <2>1
    <2> QED BY <1>1, <1>2, <1>4, <2>2 DEF Depth, S
<1> QED BY <1>3, <1>4

-----------------------------------------------------------------------------
(* Frames.                                                                 *)

Packets ==
    {p \in [protocol : {"DS2", "KWP"}, target : Bytes, source : Bytes, data : Seq(Bytes)] :
        p.protocol = "DS2" => p.source = 0}
Body(p) == Header(p) \o p.data

LEMMA Suffix ==
    ASSUME NEW S, NEW s \in Seq(S), NEW t \in Seq(S)
    PROVE  SubSeq(s \o t, Len(s) + 1, Len(s \o t)) = t
<1> DEFINE u == SubSeq(s \o t, Len(s) + 1, Len(s \o t))
<1>1. /\ Len(s) \in Nat /\ Len(t) \in Nat /\ s \o t \in Seq(S)
      /\ Len(s \o t) = Len(s) + Len(t)
    OBVIOUS
<1>2. u = [i \in 1..Len(t) |-> (s \o t)[i + Len(s)]]
    BY <1>1
<1>3. \A i \in 1..Len(t) : (s \o t)[i + Len(s)] = t[i]
    BY <1>1
<1>4. t = [i \in 1..Len(t) |-> t[i]]
    OBVIOUS
<1> HIDE DEF u
<1>5. u = t
    BY <1>2, <1>3, <1>4
<1> QED BY <1>5 DEF u

LEMMA FrontOfAppend ==
    ASSUME NEW S, NEW s \in Seq(S), NEW c \in S
    PROVE  Front(Append(s, c)) = s /\ Last(Append(s, c)) = c
BY DEF Front, Last

LEMMA PacketParts ==
    ASSUME NEW p \in Packets
    PROVE  /\ p = [protocol |-> p.protocol, target |-> p.target,
                   source |-> p.source, data |-> p.data]
           /\ p.protocol \in {"DS2", "KWP"} /\ p.target \in Bytes
           /\ p.source \in Bytes /\ p.data \in Seq(Bytes)
           /\ p.protocol = "DS2" => p.source = 0
BY DEF Packets

LEMMA HeaderTyped ==
    ASSUME NEW p \in Packets
    PROVE  /\ Header(p) \in Seq(Bytes)
           /\ Len(Header(p)) = IF p.protocol = "KWP" THEN 4 ELSE 2
<1>1. /\ p.target \in Bytes /\ p.source \in Bytes /\ p.data \in Seq(Bytes)
      /\ Len(p.data) \in Nat
    BY PacketParts
<1>2. \A n \in Nat : n % 256 \in 0..255 /\ (n + 3) % 256 \in 0..255
    OBVIOUS
<1>3. Len(p.data) % 256 \in Bytes /\ (Len(p.data) + 3) % 256 \in Bytes /\ Magic \in Bytes
    <2>1. Len(p.data) % 256 \in 0..255 /\ (Len(p.data) + 3) % 256 \in 0..255
        BY <1>1, <1>2
    <2>2. Magic \in 0..255
        BY DEF Magic
    <2> QED BY <2>1, <2>2, Zenon DEF Bytes
<1>4. CASE p.protocol = "KWP"
    <2>1. PICK a \in Bytes, b \in Bytes, c \in Bytes, d \in Bytes :
             Header(p) = <<a, b, c, d>>
        BY <1>1, <1>3, <1>4, Zenon DEF Header
    <2> QED BY <1>4, <2>1
<1>5. CASE p.protocol # "KWP"
    <2>1. PICK a \in Bytes, b \in Bytes : Header(p) = <<a, b>>
        BY <1>1, <1>3, <1>5, Zenon DEF Header
    <2> QED BY <1>5, <2>1
<1> QED BY <1>4, <1>5

LEMMA Wider ==
    ASSUME NEW S, NEW T, S \subseteq T, NEW s \in Seq(S)
    PROVE  s \in Seq(T)
OBVIOUS

(* What the constructors make of a header and any bytes behind it.         *)
LEMMA AsReadBehind ==
    ASSUME NEW p \in Packets, NEW S, Bytes \subseteq S, NEW bytes \in Seq(S)
    PROVE  AsRead(p.protocol, Header(p) \o bytes) =
              [protocol |-> p.protocol, target |-> p.target, source |-> p.source,
               length |-> IF p.protocol = "KWP" THEN Len(p.data) % 256
                          ELSE (Len(p.data) + 3) % 256,
               data |-> bytes]
<1> DEFINE line == Header(p) \o bytes
<1>1. /\ Header(p) \in Seq(S)
      /\ Len(Header(p)) = IF p.protocol = "KWP" THEN 4 ELSE 2
    BY HeaderTyped, Wider
<1>2. SubSeq(line, Len(Header(p)) + 1, Len(line)) = bytes
    BY <1>1, Suffix
<1>3. \A i \in 1..Len(Header(p)) : line[i] = Header(p)[i]
    BY <1>1
<1>4. p.protocol \in {"DS2", "KWP"} /\ (p.protocol = "DS2" => p.source = 0)
    BY PacketParts
<1> HIDE DEF line
<1>5. CASE p.protocol = "KWP"
    <2>1. SubSeq(line, 5, Len(line)) = bytes
        BY <1>1, <1>2, <1>5
    <2>2. line[2] = Header(p)[2] /\ line[3] = Header(p)[3] /\ line[4] = Header(p)[4]
        BY <1>1, <1>3, <1>5
    <2>3. Header(p) = <<Magic, p.target, p.source, Len(p.data) % 256>>
        BY <1>5 DEF Header
    <2>4. /\ line[2] = p.target /\ line[3] = p.source
          /\ line[4] = Len(p.data) % 256
        BY <2>2, <2>3
    <2> QED BY <1>5, <2>1, <2>4 DEF AsRead, line
<1>6. CASE p.protocol = "DS2"
    <2>1. SubSeq(line, 3, Len(line)) = bytes
        BY <1>1, <1>2, <1>6
    <2>2. line[1] = Header(p)[1] /\ line[2] = Header(p)[2]
        BY <1>1, <1>3, <1>6
    <2>3. Header(p) = <<p.target, (Len(p.data) + 3) % 256>>
        BY <1>6 DEF Header
    <2>4. line[1] = p.target /\ line[2] = (Len(p.data) + 3) % 256
        BY <2>2, <2>3
    <2> QED BY <1>4, <1>6, <2>1, <2>4 DEF AsRead, line
<1> QED BY <1>4, <1>5, <1>6

(* The length that the constructors expect with the checksum.              *)
LEMMA LengthExpected ==
    ASSUME NEW p \in Packets
    PROVE  LengthWithChecksum(p.protocol,
               IF p.protocol = "KWP" THEN Len(p.data) % 256
               ELSE (Len(p.data) + 3) % 256) = (Len(p.data) + 1) % 256
<1>1. Len(p.data) \in Nat /\ p.protocol \in {"DS2", "KWP"}
    BY PacketParts
<1>2. \A n \in Nat : /\ ((n % 256) + 1) % 256 = (n + 1) % 256
                     /\ (((n + 3) % 256) + 256 - 2) % 256 = (n + 1) % 256
    OBVIOUS
<1> QED BY <1>1, <1>2 DEF LengthWithChecksum

(* One record for what both constructors look at.                          *)
LEMMA ReadBehind ==
    ASSUME NEW p \in Packets, NEW S, Bytes \subseteq S, NEW bytes \in Seq(S)
    PROVE  LET r == AsRead(p.protocol, Header(p) \o bytes)
           IN  /\ LengthWithChecksum(p.protocol, r.length) = (Len(p.data) + 1) % 256
               /\ r.data = bytes
               /\ Unframed(r) = [protocol |-> p.protocol, target |-> p.target,
                                 source |-> p.source, data |-> bytes]
<1> DEFINE r == AsRead(p.protocol, Header(p) \o bytes)
<1>1. r = [protocol |-> p.protocol, target |-> p.target, source |-> p.source,
           length |-> IF p.protocol = "KWP" THEN Len(p.data) % 256
                      ELSE (Len(p.data) + 3) % 256,
           data |-> bytes]
    BY AsReadBehind
<1> HIDE DEF r
<1>2. LengthWithChecksum(p.protocol, r.length) = (Len(p.data) + 1) % 256
    <2>1. r.length = IF p.protocol = "KWP" THEN Len(p.data) % 256
                     ELSE (Len(p.data) + 3) % 256
        BY <1>1
    <2> QED BY <2>1, LengthExpected
<1>3. /\ r.data = bytes
      /\ Unframed(r) = [protocol |-> p.protocol, target |-> p.target,
                        source |-> p.source, data |-> bytes]
    BY <1>1 DEF Unframed
<1> QED BY <1>2, <1>3 DEF r

(* The packet, if n is the length that was expected.                       *)
LEMMA AcceptedByLength ==
    ASSUME NEW protocol, NEW line
    PROVE  LET r == AsRead(protocol, line)
               n == LengthWithChecksum(protocol, r.length)
           IN
           /\ n - 1 = Len(r.data) => Accepted(protocol, line) = {Unframed(r)}
           /\ n - 1 # Len(r.data) /\ n = Len(r.data) =>
                 Accepted(protocol, line) = {q \in {WithoutLast(r)} : ChecksumFits(r)}
           /\ n - 1 # Len(r.data) /\ n # Len(r.data) => Accepted(protocol, line) = {}
BY DEF Accepted

(* A frame with any last byte.                                             *)
LEMMA FrameWithLast ==
    ASSUME NEW p \in Packets, NEW c
    PROVE  Accepted(p.protocol, Append(Body(p), c)) =
              IF Len(p.data) <= 254 /\ c = Checksum(Body(p)) THEN {p} ELSE {}
<1> DEFINE n == Len(p.data)
           S == Bytes \cup {c, Checksum(Body(p))}
           bytes == Append(p.data, c)
           r == AsRead(p.protocol, Header(p) \o bytes)
<1>1. /\ Bytes \subseteq S /\ p.data \in Seq(S) /\ n \in Nat /\ Header(p) \in Seq(S)
      /\ c \in S /\ Checksum(Body(p)) \in S
    BY PacketParts, HeaderTyped, Wider
<1>2. p = [protocol |-> p.protocol, target |-> p.target, source |-> p.source,
           data |-> p.data]
    BY PacketParts
<1> HIDE DEF S
<1>3. bytes \in Seq(S) /\ Len(bytes) = n + 1
    BY <1>1
<1>4. Front(bytes) = p.data /\ Last(bytes) = c
    BY <1>1, FrontOfAppend
<1>5. Append(Body(p), c) = Header(p) \o bytes
    <2>1. Append(Header(p) \o p.data, c) = Header(p) \o Append(p.data, c)
        <3>1. PICK s \in Seq(S), t \in Seq(S), x \in S :
                 s = Header(p) /\ t = p.data /\ x = c
            BY <1>1
        <3>2. Append(s \o t, x) = s \o Append(t, x)
            OBVIOUS
        <3> QED BY <3>1, <3>2
    <2> QED BY <2>1 DEF Body
<1> HIDE DEF bytes
<1>6. /\ LengthWithChecksum(p.protocol, r.length) = (n + 1) % 256
      /\ r.data = bytes
      /\ Unframed(r) = [protocol |-> p.protocol, target |-> p.target,
                        source |-> p.source, data |-> bytes]
    BY <1>1, <1>3, ReadBehind
<1> HIDE DEF r
<1>7. WithoutLast(r) = p
    <2>1. WithoutLast(r) = [protocol |-> p.protocol, target |-> p.target,
                            source |-> p.source, data |-> Front(bytes)]
        BY <1>6 DEF WithoutLast
    <2> QED BY <1>2, <1>4, <2>1
<1>8. Last(ToByteArray(p)) = Checksum(Body(p))
    <2>1. Body(p) \in Seq(S)
        BY <1>1 DEF Body
    <2>2. ToByteArray(p) = Append(Body(p), Checksum(Body(p)))
        BY DEF ToByteArray, Body
    <2> QED BY <1>1, <2>1, <2>2, FrontOfAppend
<1>9. ChecksumFits(r) <=> c = Checksum(Body(p))
    BY <1>4, <1>6, <1>7, <1>8 DEF ChecksumFits
<1>10. r = AsRead(p.protocol, Append(Body(p), c))
    BY <1>5 DEF r
<1> HIDE DEF n
<1>11. (n + 1) % 256 \in 0..255 /\ (n <= 254 => (n + 1) % 256 = n + 1)
    BY <1>1
<1>12. CASE n <= 254
    <2>1. ((n + 1) % 256) - 1 # Len(r.data) /\ (n + 1) % 256 = Len(r.data)
        BY <1>1, <1>3, <1>6, <1>11, <1>12
    <2>2. Accepted(p.protocol, Append(Body(p), c)) = {q \in {WithoutLast(r)} : ChecksumFits(r)}
        BY <1>6, <1>10, <2>1, AcceptedByLength
    <2> QED BY <1>7, <1>9, <1>12, <2>2 DEF n
<1>13. CASE ~(n <= 254)
    <2>1. ((n + 1) % 256) - 1 # Len(r.data) /\ (n + 1) % 256 # Len(r.data)
        BY <1>1, <1>3, <1>6, <1>11, <1>13
    <2>2. Accepted(p.protocol, Append(Body(p), c)) = {}
        BY <1>6, <1>10, <2>1, AcceptedByLength
    <2> QED BY <1>13, <2>2 DEF n
<1> QED BY <1>12, <1>13

(* A frame without its checksum.                                           *)
LEMMA FrameWithoutLast ==
    ASSUME NEW p \in Packets
    PROVE  Accepted(p.protocol, Body(p)) = IF Len(p.data) <= 254 THEN {p} ELSE {}
<1> DEFINE n == Len(p.data)
           r == AsRead(p.protocol, Header(p) \o p.data)
<1>1. p.data \in Seq(Bytes) /\ n \in Nat
    BY PacketParts
<1>2. /\ LengthWithChecksum(p.protocol, r.length) = (n + 1) % 256
      /\ r.data = p.data
      /\ Unframed(r) = [protocol |-> p.protocol, target |-> p.target,
                        source |-> p.source, data |-> p.data]
    BY <1>1, ReadBehind
<1>3. Unframed(r) = p
    BY <1>2, PacketParts
<1>4. r = AsRead(p.protocol, Body(p))
    BY DEF Body
<1> HIDE DEF r
<1>5. Len(r.data) = n
    BY <1>2
<1> HIDE DEF n
<1>6. (n + 1) % 256 \in 0..255 /\ (n <= 254 => (n + 1) % 256 = n + 1)
    BY <1>1
<1>7. CASE n <= 254
    <2>1. ((n + 1) % 256) - 1 = Len(r.data)
        BY <1>1, <1>5, <1>6, <1>7
    <2>2. Accepted(p.protocol, Body(p)) = {Unframed(r)}
        BY <1>2, <1>4, <2>1, AcceptedByLength
    <2> QED BY <1>3, <1>7, <2>2 DEF n
<1>8. CASE ~(n <= 254)
    <2>1. ((n + 1) % 256) - 1 # Len(r.data) /\ (n + 1) % 256 # Len(r.data)
        BY <1>1, <1>5, <1>6, <1>8
    <2>2. Accepted(p.protocol, Body(p)) = {}
        BY <1>2, <1>4, <2>1, AcceptedByLength
    <2> QED BY <1>8, <2>2 DEF n
<1> QED BY <1>7, <1>8

-----------------------------------------------------------------------------
(* Checksums.                                                              *)

(* The bits of a byte are those below 256.                                 *)
LEMMA SmallPowers ==
    /\ Power[0] = 1 /\ Power[1] = 2 /\ Power[2] = 4 /\ Power[3] = 8 /\ Power[4] = 16
    /\ Power[5] = 32 /\ Power[6] = 64 /\ Power[7] = 128 /\ Power[8] = 256
<1>1. \A i \in 1..8 : Power[i] = 2 * Power[i - 1]
    BY PowerStep, DecodeAssumption
<1>2. Power[0] = 1
    BY PowerStep
<1>3. Power[1] = 2 /\ Power[2] = 4 /\ Power[3] = 8 /\ Power[4] = 16
    BY <1>1, <1>2
<1> QED BY <1>1, <1>2, <1>3

LEMMA BytesDiffer ==
    ASSUME NEW b \in Bytes, NEW c \in Bytes, b # c
    PROVE  \E i \in 0..7 : Bit(b, i) # Bit(c, i)
<1> SUFFICES ASSUME \A i \in 0..7 : Bit(b, i) = Bit(c, i) PROVE FALSE
    OBVIOUS
<1>1. b \in 0..255 /\ c \in 0..255
    BY DEF Bytes
<1>2. /\ (b \div 1) % 2 = (c \div 1) % 2 /\ (b \div 2) % 2 = (c \div 2) % 2
      /\ (b \div 4) % 2 = (c \div 4) % 2 /\ (b \div 8) % 2 = (c \div 8) % 2
      /\ (b \div 16) % 2 = (c \div 16) % 2 /\ (b \div 32) % 2 = (c \div 32) % 2
      /\ (b \div 64) % 2 = (c \div 64) % 2 /\ (b \div 128) % 2 = (c \div 128) % 2
    BY SmallPowers DEF Bit
<1>3. ASSUME NEW x \in 0..255
      PROVE  /\ x \div 1 = 2 * (x \div 2) + ((x \div 1) % 2)
             /\ x \div 2 = 2 * (x \div 4) + ((x \div 2) % 2)
             /\ x \div 4 = 2 * (x \div 8) + ((x \div 4) % 2)
             /\ x \div 8 = 2 * (x \div 16) + ((x \div 8) % 2)
             /\ x \div 16 = 2 * (x \div 32) + ((x \div 16) % 2)
             /\ x \div 32 = 2 * (x \div 64) + ((x \div 32) % 2)
             /\ x \div 64 = 2 * (x \div 128) + ((x \div 64) % 2)
             /\ x \div 128 = (x \div 128) % 2 /\ x \div 1 = x
    <2>1. x \div 1 = 2 * (x \div 2) + ((x \div 1) % 2)
        OBVIOUS
    <2>2. x \div 2 = 2 * (x \div 4) + ((x \div 2) % 2)
        OBVIOUS
    <2>3. x \div 4 = 2 * (x \div 8) + ((x \div 4) % 2)
        OBVIOUS
    <2>4. x \div 8 = 2 * (x \div 16) + ((x \div 8) % 2)
        OBVIOUS
    <2>5. x \div 16 = 2 * (x \div 32) + ((x \div 16) % 2)
        OBVIOUS
    <2>6. x \div 32 = 2 * (x \div 64) + ((x \div 32) % 2)
        OBVIOUS
    <2>7. x \div 64 = 2 * (x \div 128) + ((x \div 64) % 2)
        OBVIOUS
    <2>8. x \div 128 = (x \div 128) % 2 /\ x \div 1 = x
        OBVIOUS
    <2> QED BY <2>1, <2>2, <2>3, <2>4, <2>5, <2>6, <2>7, <2>8
<1>4. b \div 128 = c \div 128
    BY <1>1, <1>2, <1>3
<1>5. b \div 64 = c \div 64
    <2>1. /\ b \div 64 = 2 * (b \div 128) + ((b \div 64) % 2)
          /\ c \div 64 = 2 * (c \div 128) + ((c \div 64) % 2)
        BY <1>1, <1>3, Zenon
    <2>2. (b \div 64) % 2 = (c \div 64) % 2
        BY <1>2, Zenon
    <2> QED BY <2>1, <2>2, <1>4, Zenon
<1>6. b \div 32 = c \div 32
    <2>1. /\ b \div 32 = 2 * (b \div 64) + ((b \div 32) % 2)
          /\ c \div 32 = 2 * (c \div 64) + ((c \div 32) % 2)
        BY <1>1, <1>3, Zenon
    <2>2. (b \div 32) % 2 = (c \div 32) % 2
        BY <1>2, Zenon
    <2> QED BY <2>1, <2>2, <1>5, Zenon
<1>7. b \div 16 = c \div 16
    <2>1. /\ b \div 16 = 2 * (b \div 32) + ((b \div 16) % 2)
          /\ c \div 16 = 2 * (c \div 32) + ((c \div 16) % 2)
        BY <1>1, <1>3, Zenon
    <2>2. (b \div 16) % 2 = (c \div 16) % 2
        BY <1>2, Zenon
    <2> QED BY <2>1, <2>2, <1>6, Zenon
<1>8. b \div 8 = c \div 8
    <2>1. /\ b \div 8 = 2 * (b \div 16) + ((b \div 8) % 2)
          /\ c \div 8 = 2 * (c \div 16) + ((c \div 8) % 2)
        BY <1>1, <1>3, Zenon
    <2>2. (b \div 8) % 2 = (c \div 8) % 2
        BY <1>2, Zenon
    <2> QED BY <2>1, <2>2, <1>7, Zenon
<1>9. b \div 4 = c \div 4
    <2>1. /\ b \div 4 = 2 * (b \div 8) + ((b \div 4) % 2)
          /\ c \div 4 = 2 * (c \div 8) + ((c \div 4) % 2)
        BY <1>1, <1>3, Zenon
    <2>2. (b \div 4) % 2 = (c \div 4) % 2
        BY <1>2, Zenon
    <2> QED BY <2>1, <2>2, <1>8, Zenon
<1>10. b \div 2 = c \div 2
    <2>1. /\ b \div 2 = 2 * (b \div 4) + ((b \div 2) % 2)
          /\ c \div 2 = 2 * (c \div 4) + ((c \div 2) % 2)
        BY <1>1, <1>3, Zenon
    <2>2. (b \div 2) % 2 = (c \div 2) % 2
        BY <1>2, Zenon
    <2> QED BY <2>1, <2>2, <1>9, Zenon
<1>11. b \div 1 = c \div 1
    <2>1. /\ b \div 1 = 2 * (b \div 2) + ((b \div 1) % 2)
          /\ c \div 1 = 2 * (c \div 2) + ((c \div 1) % 2)
        BY <1>1, <1>3, Zenon
    <2>2. (b \div 1) % 2 = (c \div 1) % 2
        BY <1>2, Zenon
    <2> QED BY <2>1, <2>2, <1>10, Zenon
<1> QED BY <1>1, <1>3, <1>11

(* Two sequences that differ in one byte.                                  *)
OneWrong(s, t) ==
    /\ DOMAIN t = DOMAIN s
    /\ \E i \in DOMAIN s : t[i] # s[i] /\ \A k \in DOMAIN s \ {i} : t[k] = s[k]

BitsSet(bytes, i) == {k \in DOMAIN bytes : Bit(bytes[k], i) = 1}

LEMMA ParityKnown ==
    ASSUME NEW s \in Seq(Bytes), NEW i \in 0..7
    PROVE  /\ IsFiniteSet(BitsSet(s, i)) /\ Cardinality(BitsSet(s, i)) \in Nat
           /\ Cardinality(BitsSet(s, i)) % 2 \in {0, 1}
<1>1. DOMAIN s = 1..Len(s) /\ Len(s) \in Nat
    OBVIOUS
<1>2. IsFiniteSet(BitsSet(s, i))
    <2>1. IsFiniteSet(1..Len(s)) /\ BitsSet(s, i) \subseteq 1..Len(s)
        BY <1>1, FS_Interval DEF BitsSet
    <2> QED BY <2>1, FS_Subset
<1>3. Cardinality(BitsSet(s, i)) \in Nat
    BY <1>2, FS_CardinalityType
<1> QED BY <1>2, <1>3

(* One byte more or less with a bit changes its parity.                    *)
LEMMA ParityChanges ==
    ASSUME NEW S, NEW T, NEW x, IsFiniteSet(T), x \in S, T = S \ {x}
    PROVE  Cardinality(S) % 2 # Cardinality(T) % 2
<1>1. S = T \cup {x} /\ x \notin T
    OBVIOUS
<1>2. Cardinality(S) = Cardinality(T) + 1
    BY <1>1, FS_AddElement
<1>3. Cardinality(T) \in Nat
    BY FS_CardinalityType
<1> QED BY <1>2, <1>3

LEMMA OneWrongChecksum ==
    ASSUME NEW s \in Seq(Bytes), NEW t \in Seq(Bytes), OneWrong(s, t)
    PROVE  Checksum(s) # Checksum(t)
<1>1. PICK j \in DOMAIN s : t[j] # s[j] /\ \A k \in DOMAIN s \ {j} : t[k] = s[k]
    BY DEF OneWrong
<1>2. DOMAIN t = DOMAIN s /\ DOMAIN s = 1..Len(s) /\ s[j] \in Bytes /\ t[j] \in Bytes
    BY DEF OneWrong
<1>3. PICK i \in 0..7 : Bit(s[j], i) # Bit(t[j], i)
    BY <1>1, <1>2, BytesDiffer
<1>4. Bit(s[j], i) \in {0, 1} /\ Bit(t[j], i) \in {0, 1}
    <2>1. i \in 0..WordBits
        BY DecodeAssumption
    <2>2. s[j] \in Int /\ t[j] \in Int
        <3>1. \A b \in Bytes : b \in Int
            BY DEF Bytes
        <3> QED BY <1>2, <3>1
    <2> QED BY <2>1, <2>2, BitIsBit
<1>5. Cardinality(BitsSet(s, i)) % 2 # Cardinality(BitsSet(t, i)) % 2
    <2>1. CASE Bit(s[j], i) = 1
        <3>1. j \in BitsSet(s, i) /\ BitsSet(t, i) = BitsSet(s, i) \ {j}
            BY <1>1, <1>2, <1>3, <2>1 DEF BitsSet
        <3> QED BY <3>1, ParityKnown, ParityChanges
    <2>2. CASE Bit(s[j], i) # 1
        <3>1. j \in BitsSet(t, i) /\ BitsSet(s, i) = BitsSet(t, i) \ {j}
            BY <1>1, <1>2, <1>3, <1>4, <2>2 DEF BitsSet
        <3> QED BY <3>1, ParityKnown, ParityChanges
    <2> QED BY <2>1, <2>2
<1> DEFINE f == [k \in 0..7 |-> Cardinality(BitsSet(s, k)) % 2]
           g == [k \in 0..7 |-> Cardinality(BitsSet(t, k)) % 2]
<1>6. Checksum(s) = FromBits(f, 8) /\ Checksum(t) = FromBits(g, 8)
    BY DEF Checksum, BitsSet
<1>7. f \in [0..(8 - 1) -> {0, 1}] /\ g \in [0..(8 - 1) -> {0, 1}]
    <2>1. 8 - 1 = 7
        OBVIOUS
    <2> QED BY <2>1, ParityKnown
<1>8. f[i] # g[i] /\ i \in 0..(8 - 1) /\ 8 \in 0..WordBits
    BY <1>5, DecodeAssumption
<1> HIDE DEF f, g
<1> QED BY <1>6, <1>7, <1>8, FromBitsDiffer

-----------------------------------------------------------------------------
(* Six-bit text.                                                           *)

(* The bits of a string, the highest of the first byte being number 0, and *)
(* the number that six of them make.                                       *)
StringBit(bytes, j) == Bit(bytes[(j \div 8) + 1], 7 - (j % 8))
SixFrom(bytes, j) ==
    32 * StringBit(bytes, j) + 16 * StringBit(bytes, j + 1) + 8 * StringBit(bytes, j + 2)
        + 4 * StringBit(bytes, j + 3) + 2 * StringBit(bytes, j + 4) + StringBit(bytes, j + 5)

(* The lowest bits of a byte, and the highest.                             *)
LEMMA ByteParts ==
    ASSUME NEW b \in Bytes
    PROVE  /\ b % 64 = 32 * Bit(b, 5) + 16 * Bit(b, 4) + 8 * Bit(b, 3)
                          + 4 * Bit(b, 2) + 2 * Bit(b, 1) + Bit(b, 0)
           /\ b % 16 = 8 * Bit(b, 3) + 4 * Bit(b, 2) + 2 * Bit(b, 1) + Bit(b, 0)
           /\ b % 4 = 2 * Bit(b, 1) + Bit(b, 0)
           /\ b \div 64 = 2 * Bit(b, 7) + Bit(b, 6)
           /\ b \div 16 = 8 * Bit(b, 7) + 4 * Bit(b, 6) + 2 * Bit(b, 5) + Bit(b, 4)
           /\ b \div 4 = 32 * Bit(b, 7) + 16 * Bit(b, 6) + 8 * Bit(b, 5)
                            + 4 * Bit(b, 4) + 2 * Bit(b, 3) + Bit(b, 2)
           /\ Bit(b, 0) \in Nat /\ Bit(b, 1) \in Nat /\ Bit(b, 2) \in Nat
           /\ Bit(b, 3) \in Nat /\ Bit(b, 4) \in Nat /\ Bit(b, 5) \in Nat
           /\ Bit(b, 6) \in Nat /\ Bit(b, 7) \in Nat
<1> DEFINE q(k) == b \div k
<1>1. b \in 0..255
    BY DEF Bytes
<1>2. /\ Bit(b, 0) = q(1) % 2 /\ Bit(b, 1) = q(2) % 2 /\ Bit(b, 2) = q(4) % 2
      /\ Bit(b, 3) = q(8) % 2 /\ Bit(b, 4) = q(16) % 2 /\ Bit(b, 5) = q(32) % 2
      /\ Bit(b, 6) = q(64) % 2 /\ Bit(b, 7) = q(128) % 2
    BY SmallPowers DEF Bit
<1>3. q(1) = b /\ b = 2 * q(2) + (q(1) % 2)
    BY <1>1
<1>4. q(2) = 2 * q(4) + (q(2) % 2)
    BY <1>1
<1>5. q(4) = 2 * q(8) + (q(4) % 2)
    BY <1>1
<1>6. q(8) = 2 * q(16) + (q(8) % 2)
    BY <1>1
<1>7. q(16) = 2 * q(32) + (q(16) % 2)
    BY <1>1
<1>8. q(32) = 2 * q(64) + (q(32) % 2)
    BY <1>1
<1>9. q(64) = 2 * q(128) + (q(64) % 2)
    BY <1>1
<1>10. q(128) = q(128) % 2
    BY <1>1
<1>11. b % 64 = b - 64 * q(64) /\ b % 16 = b - 16 * q(16) /\ b % 4 = b - 4 * q(4)
    BY <1>1
<1>12. \A k \in {1, 2, 4, 8, 16, 32, 64, 128} : q(k) \in Nat /\ q(k) % 2 \in Nat
    BY <1>1
<1> HIDE DEF q
<1>13. /\ q(1) \in Nat /\ q(2) \in Nat /\ q(4) \in Nat /\ q(8) \in Nat
       /\ q(16) \in Nat /\ q(32) \in Nat /\ q(64) \in Nat /\ q(128) \in Nat
    BY <1>12
<1>14. /\ q(1) % 2 \in Nat /\ q(2) % 2 \in Nat /\ q(4) % 2 \in Nat /\ q(8) % 2 \in Nat
       /\ q(16) % 2 \in Nat /\ q(32) % 2 \in Nat /\ q(64) % 2 \in Nat /\ q(128) % 2 \in Nat
    BY <1>12
<1>15. /\ b \div 64 = q(64) /\ b \div 16 = q(16) /\ b \div 4 = q(4)
    BY DEF q
<1>16. b % 64 = 32 * Bit(b, 5) + 16 * Bit(b, 4) + 8 * Bit(b, 3)
                   + 4 * Bit(b, 2) + 2 * Bit(b, 1) + Bit(b, 0)
    <2>1. q(1) = 8 * q(8) + 4 * (q(4) % 2) + 2 * (q(2) % 2) + (q(1) % 2)
        BY <1>3, <1>4, <1>5, <1>13, <1>14
    <2>2. q(8) = 8 * q(64) + 4 * (q(32) % 2) + 2 * (q(16) % 2) + (q(8) % 2)
        BY <1>6, <1>7, <1>8, <1>13, <1>14
    <2>3. q(1) - 64 * q(64) = 32 * (q(32) % 2) + 16 * (q(16) % 2) + 8 * (q(8) % 2)
                                 + 4 * (q(4) % 2) + 2 * (q(2) % 2) + (q(1) % 2)
        BY <2>1, <2>2, <1>13, <1>14
    <2> QED BY <1>2, <1>3, <1>11, <2>3
<1>17. /\ b % 16 = 8 * Bit(b, 3) + 4 * Bit(b, 2) + 2 * Bit(b, 1) + Bit(b, 0)
       /\ b % 4 = 2 * Bit(b, 1) + Bit(b, 0)
    BY <1>1, <1>2, <1>3, <1>4, <1>5, <1>6, <1>11, <1>13, <1>14
<1>18. /\ b \div 64 = 2 * Bit(b, 7) + Bit(b, 6)
       /\ b \div 16 = 8 * Bit(b, 7) + 4 * Bit(b, 6) + 2 * Bit(b, 5) + Bit(b, 4)
    BY <1>2, <1>7, <1>8, <1>9, <1>10, <1>13, <1>14, <1>15
<1>19. b \div 4 = 32 * Bit(b, 7) + 16 * Bit(b, 6) + 8 * Bit(b, 5)
                     + 4 * Bit(b, 4) + 2 * Bit(b, 3) + Bit(b, 2)
    BY <1>2, <1>5, <1>6, <1>7, <1>8, <1>9, <1>10, <1>13, <1>14, <1>15
<1> QED BY <1>2, <1>14, <1>16, <1>17, <1>18, <1>19

LEMMA Weighed ==
    ASSUME NEW d \in Nat, NEW e \in Nat, NEW f \in Nat, NEW g \in Nat,
           NEW h \in Nat, NEW i \in Nat
    PROVE  /\ (8 * d + 4 * e + 2 * f + g) * 4 + (2 * h + i) =
                 32 * d + 16 * e + 8 * f + 4 * g + 2 * h + i
           /\ (2 * d + e) * 16 + (8 * f + 4 * g + 2 * h + i) =
                 32 * d + 16 * e + 8 * f + 4 * g + 2 * h + i
    OBVIOUS

LEMMA TwoParts ==
    ASSUME NEW b \in Bytes, NEW c \in Bytes
    PROVE  /\ (b % 16) * 4 + (c \div 64) =
                 32 * Bit(b, 3) + 16 * Bit(b, 2) + 8 * Bit(b, 1) + 4 * Bit(b, 0)
                    + 2 * Bit(c, 7) + Bit(c, 6)
           /\ (b % 4) * 16 + (c \div 16) =
                 32 * Bit(b, 1) + 16 * Bit(b, 0) + 8 * Bit(c, 7) + 4 * Bit(c, 6)
                    + 2 * Bit(c, 5) + Bit(c, 4)
<1>1. PICK d \in Nat, e \in Nat, f \in Nat, g \in Nat, h \in Nat, i \in Nat,
           k \in Nat, l \in Nat :
         /\ d = Bit(b, 3) /\ e = Bit(b, 2) /\ f = Bit(b, 1) /\ g = Bit(b, 0)
         /\ h = Bit(c, 7) /\ i = Bit(c, 6) /\ k = Bit(c, 5) /\ l = Bit(c, 4)
    BY ByteParts
<1>2. /\ b % 16 = 8 * d + 4 * e + 2 * f + g /\ b % 4 = 2 * f + g
      /\ c \div 64 = 2 * h + i /\ c \div 16 = 8 * h + 4 * i + 2 * k + l
    BY <1>1, ByteParts
<1>3. (b % 16) * 4 + (c \div 64) = 32 * d + 16 * e + 8 * f + 4 * g + 2 * h + i
    BY <1>2, Weighed
<1>4. (b % 4) * 16 + (c \div 16) = 32 * f + 16 * g + 8 * h + 4 * i + 2 * k + l
    BY <1>2, Weighed
<1> QED BY <1>1, <1>3, <1>4

(* decode_vin_char yields the six bits behind start, in one byte or two.   *)
LEMMA SixBitsAreSuccessive ==
    ASSUME NEW bytes \in Seq(Bytes), NEW start \in Nat, start % 2 = 1,
           start + 6 < 8 * Len(bytes)
    PROVE  SixBits(bytes, start) = {SixFrom(bytes, start + 1)}
<1> DEFINE w == start \div 8
<1>1. /\ w \in Nat /\ w + 1 \in 1..Len(bytes)
      /\ \/ start = 8 * w + 1 \/ start = 8 * w + 3 \/ start = 8 * w + 5
         \/ start = 8 * w + 7
    OBVIOUS
<1>2. start # 8 * w + 1 => w + 2 \in 1..Len(bytes)
    BY <1>1
<1>3. \A m \in 0..7 : (8 * w + m) \div 8 = w /\ (8 * w + m) % 8 = m
    BY <1>1
<1> HIDE DEF w
<1>4. PICK b \in Bytes : b = bytes[w + 1]
    BY <1>1
<1>5. /\ StringBit(bytes, 8 * w + 2) = Bit(b, 5) /\ StringBit(bytes, 8 * w + 3) = Bit(b, 4)
      /\ StringBit(bytes, 8 * w + 4) = Bit(b, 3) /\ StringBit(bytes, 8 * w + 5) = Bit(b, 2)
      /\ StringBit(bytes, 8 * w + 6) = Bit(b, 1) /\ StringBit(bytes, 8 * w + 7) = Bit(b, 0)
    <2>1. ASSUME NEW m \in 0..7
          PROVE  StringBit(bytes, 8 * w + m) = Bit(b, 7 - m)
        <3>1. (8 * w + m) \div 8 = w /\ (8 * w + m) % 8 = m
            BY <1>3
        <3> QED BY <1>4, <3>1 DEF StringBit
    <2>2. 7 - 2 = 5 /\ 7 - 3 = 4 /\ 7 - 4 = 3 /\ 7 - 5 = 2 /\ 7 - 6 = 1 /\ 7 - 7 = 0
        OBVIOUS
    <2> QED BY <2>1, <2>2
<1>6. CASE start = 8 * w + 1
    <2>1. start \div 8 = w /\ start % 8 = 1
        BY <1>1, <1>3, <1>6
    <2>2. SixBits(bytes, start) = {b % 64}
        BY <1>4, <2>1 DEF SixBits
    <2>3. SixFrom(bytes, start + 1) =
             32 * Bit(b, 5) + 16 * Bit(b, 4) + 8 * Bit(b, 3) + 4 * Bit(b, 2)
                + 2 * Bit(b, 1) + Bit(b, 0)
        <3>1. /\ start + 1 = 8 * w + 2 /\ (start + 1) + 1 = 8 * w + 3
              /\ (start + 1) + 2 = 8 * w + 4 /\ (start + 1) + 3 = 8 * w + 5
              /\ (start + 1) + 4 = 8 * w + 6 /\ (start + 1) + 5 = 8 * w + 7
            BY <1>1, <1>6
        <3> QED BY <1>5, <3>1 DEF SixFrom
    <2> QED BY <2>2, <2>3, ByteParts
<1>7. ASSUME start # 8 * w + 1 PROVE SixBits(bytes, start) = {SixFrom(bytes, start + 1)}
    <2>1. PICK c \in Bytes : c = bytes[w + 2]
        BY <1>2, <1>7
    <2>9. /\ StringBit(bytes, 8 * w + 8) = Bit(c, 7) /\ StringBit(bytes, 8 * w + 9) = Bit(c, 6)
          /\ StringBit(bytes, 8 * w + 10) = Bit(c, 5) /\ StringBit(bytes, 8 * w + 11) = Bit(c, 4)
          /\ StringBit(bytes, 8 * w + 12) = Bit(c, 3) /\ StringBit(bytes, 8 * w + 13) = Bit(c, 2)
        <3>1. ASSUME NEW m \in 0..7
              PROVE  StringBit(bytes, 8 * w + (8 + m)) = Bit(c, 7 - m)
            <4>1. (8 * w + (8 + m)) \div 8 = w + 1 /\ (8 * w + (8 + m)) % 8 = m
                BY <1>1
            <4>2. (w + 1) + 1 = w + 2
                BY <1>1
            <4> QED BY <2>1, <4>1, <4>2 DEF StringBit
        <3>2. /\ 7 - 0 = 7 /\ 7 - 1 = 6 /\ 7 - 2 = 5 /\ 7 - 3 = 4 /\ 7 - 4 = 3 /\ 7 - 5 = 2
              /\ 8 + 0 = 8 /\ 8 + 1 = 9 /\ 8 + 2 = 10 /\ 8 + 3 = 11 /\ 8 + 4 = 12 /\ 8 + 5 = 13
            OBVIOUS
        <3> QED BY <3>1, <3>2
    <2>2. CASE start = 8 * w + 3
        <3>1. start \div 8 = w /\ start % 8 = 3
            BY <1>1, <1>3, <2>2
        <3>2. SixBits(bytes, start) =
                 {(bytes[w + 1] % Power[8 - (3 + 1)]) * Power[(3 + 1) - 2]
                      + (bytes[(w + 1) + 1] \div Power[10 - (3 + 1)])}
            BY <3>1 DEF SixBits
        <3>3. 8 - (3 + 1) = 4 /\ (3 + 1) - 2 = 2 /\ 10 - (3 + 1) = 6
              /\ (w + 1) + 1 = w + 2
            BY <1>1
        <3>4. SixBits(bytes, start) = {(b % 16) * 4 + (c \div 64)}
            BY <1>4, <2>1, <3>2, <3>3, SmallPowers
        <3>5. SixFrom(bytes, start + 1) =
                 32 * Bit(b, 3) + 16 * Bit(b, 2) + 8 * Bit(b, 1) + 4 * Bit(b, 0)
                    + 2 * Bit(c, 7) + Bit(c, 6)
            <4>1. /\ start + 1 = 8 * w + 4 /\ (start + 1) + 1 = 8 * w + 5
                  /\ (start + 1) + 2 = 8 * w + 6 /\ (start + 1) + 3 = 8 * w + 7
                  /\ (start + 1) + 4 = 8 * w + 8 /\ (start + 1) + 5 = 8 * w + 9
                BY <1>1, <2>2
            <4> QED BY <1>5, <2>9, <4>1 DEF SixFrom
        <3> QED BY <3>4, <3>5, TwoParts
    <2>3. CASE start = 8 * w + 5
        <3>1. start \div 8 = w /\ start % 8 = 5
            BY <1>1, <1>3, <2>3
        <3>2. SixBits(bytes, start) =
                 {(bytes[w + 1] % Power[8 - (5 + 1)]) * Power[(5 + 1) - 2]
                      + (bytes[(w + 1) + 1] \div Power[10 - (5 + 1)])}
            BY <3>1 DEF SixBits
        <3>3. 8 - (5 + 1) = 2 /\ (5 + 1) - 2 = 4 /\ 10 - (5 + 1) = 4
              /\ (w + 1) + 1 = w + 2
            BY <1>1
        <3>4. SixBits(bytes, start) = {(b % 4) * 16 + (c \div 16)}
            BY <1>4, <2>1, <3>2, <3>3, SmallPowers
        <3>5. SixFrom(bytes, start + 1) =
                 32 * Bit(b, 1) + 16 * Bit(b, 0) + 8 * Bit(c, 7) + 4 * Bit(c, 6)
                    + 2 * Bit(c, 5) + Bit(c, 4)
            <4>1. /\ start + 1 = 8 * w + 6 /\ (start + 1) + 1 = 8 * w + 7
                  /\ (start + 1) + 2 = 8 * w + 8 /\ (start + 1) + 3 = 8 * w + 9
                  /\ (start + 1) + 4 = 8 * w + 10 /\ (start + 1) + 5 = 8 * w + 11
                BY <1>1, <2>3
            <4> QED BY <1>5, <2>9, <4>1 DEF SixFrom
        <3> QED BY <3>4, <3>5, TwoParts
    <2>4. CASE start = 8 * w + 7
        <3>1. start \div 8 = w /\ start % 8 = 7
            BY <1>1, <1>3, <2>4
        <3>2. SixBits(bytes, start) =
                 {(bytes[w + 1] % Power[8 - (7 + 1)]) * Power[(7 + 1) - 2]
                      + (bytes[(w + 1) + 1] \div Power[10 - (7 + 1)])}
            BY <3>1 DEF SixBits
        <3>3. 8 - (7 + 1) = 0 /\ (7 + 1) - 2 = 6 /\ 10 - (7 + 1) = 2
              /\ (w + 1) + 1 = w + 2
            BY <1>1
        <3>4. SixBits(bytes, start) = {(b % 1) * 64 + (c \div 4)}
            BY <1>4, <2>1, <3>2, <3>3, SmallPowers
        <3>5. SixFrom(bytes, start + 1) =
                 32 * Bit(c, 7) + 16 * Bit(c, 6) + 8 * Bit(c, 5) + 4 * Bit(c, 4)
                    + 2 * Bit(c, 3) + Bit(c, 2)
            <4>1. /\ start + 1 = 8 * w + 8 /\ (start + 1) + 1 = 8 * w + 9
                  /\ (start + 1) + 2 = 8 * w + 10 /\ (start + 1) + 3 = 8 * w + 11
                  /\ (start + 1) + 4 = 8 * w + 12 /\ (start + 1) + 5 = 8 * w + 13
                BY <1>1, <2>4
            <4> QED BY <1>5, <2>9, <4>1 DEF SixFrom
        <3>6. b % 1 = 0 /\ c \div 4 \in Int
            BY DEF Bytes
        <3>7. (b % 1) * 64 + (c \div 4) = c \div 4
            BY <3>6
        <3> QED BY <3>4, <3>5, <3>7, ByteParts
    <2> QED BY <1>1, <1>7, <2>2, <2>3, <2>4
<1> QED BY <1>6, <1>7

(* Character k of a 6-bit string, for fields of any length: the six bits   *)
(* at its place behind those that are left over at the front, which none   *)
(* of the byte boundaries in between disturbs (parseOperation,             *)
(* decode_vin_char).  The first character of a field whose bits are a      *)
(* multiple of six is excepted: it is decoded by an undefined shift.       *)
THEOREM SixBitTextsAreRead ==
    ASSUME NEW bytes \in Seq(Bytes), NEW t \in SixBitTexts(bytes)
    PROVE  LET n == (8 * Len(bytes)) \div 6
               spare == (8 * Len(bytes)) % 6
           IN  /\ DOMAIN t = 1..n
               /\ \A k \in 1..n : k > 1 \/ spare > 0 =>
                     t[k] = SixBitChar(SixFrom(bytes, spare + 6 * (k - 1)))
<1> DEFINE bits == 8 * Len(bytes)
           n == bits \div 6
           spare == bits % 6
           codes(k) == SixBits(bytes, bits - 6 * (n - k + 1) - 1)
<1>1. PICK c \in codes(1) :
         t = [k \in 1..n |-> SixBitChar(IF k = 1 THEN c ELSE CHOOSE x \in codes(k) : TRUE)]
    BY DEF SixBitTexts
<1>2. /\ bits \in Nat /\ n \in Nat /\ spare \in 0..5 /\ bits = 6 * n + spare
      /\ Len(bytes) \in Nat /\ bits % 2 = 0
    OBVIOUS
<1>3. bits = 8 * Len(bytes)
    OBVIOUS
<1> HIDE DEF bits, n, spare
<1>4. ASSUME NEW k \in 1..n, k > 1 \/ spare > 0
      PROVE  codes(k) = {SixFrom(bytes, spare + 6 * (k - 1))}
    <2>1. PICK start : start = bits - 6 * (n - k + 1) - 1
        OBVIOUS
    <2>2. start = spare + 6 * (k - 1) - 1 /\ start + 1 = spare + 6 * (k - 1)
        BY <1>2, <2>1
    <2>3. spare % 2 = 0
        BY <1>2
    <2>4. start \in Nat /\ start % 2 = 1
        BY <1>2, <1>4, <2>2, <2>3
    <2>5. start + 6 < 8 * Len(bytes)
        BY <1>2, <1>3, <2>2
    <2> QED BY <2>1, <2>2, <2>4, <2>5, SixBitsAreSuccessive
<1>5. DOMAIN t = 1..n
    BY <1>1
<1>6. ASSUME NEW k \in 1..n, k > 1 \/ spare > 0
      PROVE  t[k] = SixBitChar(SixFrom(bytes, spare + 6 * (k - 1)))
    <2>1. codes(k) = {SixFrom(bytes, spare + 6 * (k - 1))}
        BY <1>4, <1>6
    <2>2. t[k] = SixBitChar(IF k = 1 THEN c ELSE CHOOSE x \in codes(k) : TRUE)
        BY <1>1
    <2>3. c \in codes(1) /\ (k = 1 => c \in codes(k))
        OBVIOUS
    <2> HIDE DEF codes
    <2> QED BY <2>1, <2>2, <2>3
<1> QED BY <1>5, <1>6 DEF n, spare, bits

-----------------------------------------------------------------------------
(* Invariants.                                                             *)

Types ==
    /\ job \in Jobs
    /\ stage \in {"line", "ds2", "results", "rpn", "done", "error", "killed"}
    /\ todo \subseteq job.results
    /\ real \in BOOLEAN /\ pc \in Nat /\ num \in Int
    /\ stack \in Seq(Int \X Nat)
    /\ \A i \in 1..Len(stack) : Quantity(stack[i], real)

(* Before and after there is a packet.                                     *)
PacketInv ==
    /\ stage \in {"line", "ds2"} => packet = NoPacket
    /\ stage \in {"results", "rpn", "done", "killed"} => packet # NoPacket
    /\ packet # NoPacket => packet.data \in Seq(Bytes)
    /\ packet = NoPacket => todo = job.results /\ current = {} /\ response = <<>>

(* The machine has one result at a time, and on its stack as many numbers  *)
(* as the tokens so far leave there.                                       *)
Running(r) ==
    /\ InRange(r) /\ Numeric(r) /\ ~WrongLength(r)
    /\ Short(r) => real
    /\ real => Short(r) \/ r.display = "float"
    /\ pc \in 0..Len(r.rpn) /\ Len(stack) = Depth(r.rpn, pc)
    /\ pc > 0 => stack # <<>>
    /\ ~Unreadable(r, pc)
MachineInv ==
    /\ current = {} \/ \E r \in job.results \ todo : current = {r}
    /\ stage \in {"results", "done"} => current = {}
    /\ stage = "done" => todo = {}
    /\ stage = "rpn" => \E r \in job.results \ todo : current = {r} /\ Running(r)

DecodeInv == Types /\ PacketInv /\ MachineInv

-----------------------------------------------------------------------------
LEMMA JobTyped ==
    ASSUME NEW j \in Jobs
    PROVE  /\ j.line \in Seq(Bytes) /\ Len(j.line) >= 3
           /\ j.line[1] = Magic => Len(j.line) >= 5
BY DecodeAssumption

LEMMA ResultTyped ==
    ASSUME NEW j \in Jobs, NEW r \in j.results
    PROVE  /\ r.start \in Nat /\ r.length \in Nat /\ r.mask \in Nat
           /\ WellFormed(r.rpn)
BY DecodeAssumption

LEMMA NamesUnique ==
    ASSUME NEW j \in Jobs, NEW r \in j.results, NEW s \in j.results, r.name = s.name
    PROVE  r = s
BY DecodeAssumption

LEMMA AcceptedTyped ==
    ASSUME NEW j \in Jobs, NEW protocol \in {"DS2", "KWP"},
           protocol = "KWP" => j.line[1] = Magic,
           NEW q \in Accepted(protocol, j.line)
    PROVE  q # NoPacket /\ q.data \in Seq(Bytes)
<1> DEFINE p == AsRead(protocol, j.line)
           first == IF protocol = "KWP" THEN 5 ELSE 3
<1>1. /\ j.line \in Seq(Bytes) /\ Len(j.line) \in Nat
      /\ first \in 1..Len(j.line)
    BY JobTyped
<1>2. p.protocol = protocol /\ p.data = SubSeq(j.line, first, Len(j.line))
    BY DEF AsRead
<1> HIDE DEF p, first
<1>3. p.data \in Seq(Bytes) /\ Len(p.data) >= 1
    <2>1. PICK s \in Seq(Bytes), i \in Nat : s = j.line /\ i = first
        BY <1>1
    <2>2. i \in 1..Len(s)
        BY <1>1, <2>1
    <2>3. SubSeq(s, i, Len(s)) \in Seq(Bytes) /\ Len(SubSeq(s, i, Len(s))) = Len(s) - i + 1
        BY <2>2
    <2> QED BY <1>2, <2>1, <2>2, <2>3
<1>4. Front(p.data) \in Seq(Bytes)
    BY <1>3 DEF Front
<1>5. Unframed(p).protocol = protocol /\ Unframed(p).data = p.data
    BY <1>2 DEF Unframed
<1>6. WithoutLast(p).protocol = protocol /\ WithoutLast(p).data = Front(p.data)
    BY <1>2 DEF WithoutLast, Unframed
<1>7. q = Unframed(p) \/ q = WithoutLast(p)
    BY DEF Accepted, p
<1> QED BY <1>3, <1>4, <1>5, <1>6, <1>7 DEF NoPacket

LEMMA ByteIsNumber == \A b \in Bytes : b \in Nat /\ b \in Int
BY DEF Bytes

LEMMA MaskedTyped ==
    ASSUME NEW r \in job.results, job \in Jobs, packet.data \in Seq(Bytes), InRange(r)
    PROVE  Masked(r) \in Nat
<1>1. r.start \in Nat /\ r.mask \in Nat
    BY ResultTyped
<1>2. r.start + 1 \in 1..Len(packet.data)
    BY <1>1 DEF InRange, Data
<1>3. PICK b \in Bytes, m \in Nat : b = packet.data[r.start + 1] /\ m = r.mask
    BY <1>1, <1>2
<1>4. b \in Nat /\ b \in Int /\ m \in Int
    BY ByteIsNumber
<1>5. BitAnd(b, m) \in Nat
    BY <1>4, BitAndIsNumber, Zenon
<1> QED BY <1>3, <1>4, <1>5 DEF Masked, Data

LEMMA SignedTyped ==
    ASSUME NEW x \in Int, NEW n \in Nat
    PROVE  Signed(x, n) \in Int
BY DEF Signed

LEMMA ShortTyped ==
    ASSUME NEW r \in job.results, job \in Jobs, packet.data \in Seq(Bytes), InRange(r),
           r.length = 2
    PROVE  ShortOf(r) \in Int
<1>1. r.start \in Nat
    BY ResultTyped
<1>2. r.start + 1 \in 1..Len(packet.data) /\ r.start + 2 \in 1..Len(packet.data)
    BY <1>1 DEF InRange, Data
<1>3. PICK s \in Seq(Bytes), i \in Nat : s = packet.data /\ i = r.start
    BY <1>1
<1>4. i + 1 \in 1..Len(s) /\ i + 2 \in 1..Len(s)
    BY <1>2, <1>3
<1>5. SubSeq(s, i + 1, i + 2)[1] = s[i + 1] /\ SubSeq(s, i + 1, i + 2)[2] = s[i + 2]
    BY <1>4
<1>6. s[i + 1] \in Bytes /\ s[i + 2] \in Bytes
    BY <1>4
<1>7. Field(r)[1] \in Int /\ Field(r)[2] \in Int
    <2>1. Field(r) = SubSeq(s, i + 1, i + 2)
        BY <1>3 DEF Field, Data
    <2>2. s[i + 1] \in Int /\ s[i + 2] \in Int
        BY <1>6, ByteIsNumber
    <2> QED BY <1>5, <2>1, <2>2
<1> DEFINE n == IF job.bigEndian THEN Field(r)[1] * 256 + Field(r)[2]
                ELSE Field(r)[2] * 256 + Field(r)[1]
<1>8. n \in Int
    BY <1>7
<1>9. ShortOf(r) = IF r.type = "signed_short" THEN Signed(n, 65536) ELSE n
    BY DEF ShortOf
<1> HIDE DEF n
<1> QED BY <1>8, <1>9, SignedTyped

LEMMA ArgumentTyped ==
    ASSUME NEW r \in job.results, job \in Jobs, packet.data \in Seq(Bytes), InRange(r),
           ~WrongLength(r), NEW isReal
    PROVE  Quantity(Argument(r), isReal)
<1>1. Short(r) => ShortOf(r) \in Int
    BY ShortTyped DEF WrongLength
<1>2. Masked(r) \in Int /\ Signed(Masked(r), 256) \in Int
    <2>1. Masked(r) \in Nat
        BY MaskedTyped
    <2> QED BY <2>1, SignedTyped
<1>3. PICK n \in Int : Argument(r) = <<n, 1>>
    <2>1. Argument(r) = <<IF Short(r) THEN ShortOf(r)
                          ELSE IF r.type = "signed_byte" THEN Signed(Masked(r), 256)
                          ELSE Masked(r), 1>>
        BY DEF Argument, Short
    <2> QED BY <1>1, <1>2, <2>1
<1> QED BY <1>3, QuantityMade

-----------------------------------------------------------------------------
(* Steps.                                                                  *)

LEMMA DecodeInit == Init => DecodeInv
<1> SUFFICES ASSUME Init PROVE DecodeInv
    OBVIOUS
<1>1. Types
    <2>1. stack = <<>> /\ real \in BOOLEAN
        BY DEF Init
    <2>2. stack \in Seq(Int \X Nat) /\ \A i \in 1..Len(stack) : Quantity(stack[i], real)
        BY <2>1
    <2> QED BY <2>1, <2>2 DEF Init, Types
<1>2. PacketInv /\ MachineInv
    BY DEF Init, PacketInv, MachineInv
<1> QED BY <1>1, <1>2 DEF DecodeInv

(* What a result depends on stays.                                         *)
LEMMA SameReply ==
    ASSUME job' = job, packet' = packet, NEW r
    PROVE  /\ InRange(r)' <=> InRange(r)
           /\ Argument(r)' = Argument(r)
           /\ Masked(r)' = Masked(r)
<1>1. Data' = Data
    BY DEF Data
<1>2. Field(r)' = Field(r)
    BY <1>1 DEF Field
<1>3. InRange(r)' <=> InRange(r)
    BY <1>1 DEF InRange
<1>4. Masked(r)' = Masked(r)
    BY <1>1 DEF Masked
<1>5. ShortOf(r)' = ShortOf(r)
    BY <1>2 DEF ShortOf
<1>6. Argument(r)' = Argument(r)
    BY <1>4, <1>5 DEF Argument
<1> QED BY <1>3, <1>4, <1>6

(* Nothing but the stage changes.                                          *)
LEMMA StageOnly ==
    ASSUME DecodeInv, UNCHANGED <<job, packet, todo, response, machineVars>>,
           \/ stage' = "error"
           \/ stage' = "killed" /\ stage = "rpn"
           \/ stage' = "ds2" /\ stage = "line"
           \/ stage' = "done" /\ stage = "results" /\ todo = {}
           \/ stage' = stage
    PROVE  DecodeInv'
<1>1. Types'
    BY DEF DecodeInv, Types, machineVars, Quantity
<1>2. PacketInv'
    BY DEF DecodeInv, PacketInv, machineVars
<1>3. MachineInv'
    <2>1. \A r : Running(r)' <=> Running(r)
        BY SameReply DEF Running, machineVars, Unreadable, Depth
    <2> QED BY <2>1 DEF DecodeInv, MachineInv, machineVars
<1> QED BY <1>1, <1>2, <1>3 DEF DecodeInv

LEMMA ReadTypes ==
    ASSUME DecodeInv, NEW protocol \in {"DS2", "KWP"},
           protocol = "KWP" => job.line[1] = Magic,
           stage \in {"line", "ds2"}, Read(protocol)
    PROVE  DecodeInv'
<1>1. /\ packet = NoPacket /\ todo = job.results /\ current = {} /\ response = <<>>
      /\ job \in Jobs
    BY DEF DecodeInv, PacketInv, Types
<1>2. UNCHANGED <<job, todo, response, machineVars>>
    BY DEF Read
<1>3. CASE Accepted(protocol, job.line) = {}
    BY <1>2, <1>3, StageOnly DEF Read
<1>4. CASE Accepted(protocol, job.line) # {}
    <2>1. stage' = "results" /\ packet' \in Accepted(protocol, job.line)
        BY <1>4 DEF Read
    <2>2. packet' # NoPacket /\ packet'.data \in Seq(Bytes)
        BY <1>1, <2>1, AcceptedTyped
    <2>3. Types'
        BY <1>2, <2>1 DEF DecodeInv, Types, machineVars, Quantity
    <2>4. PacketInv'
        BY <2>1, <2>2 DEF PacketInv
    <2>5. MachineInv'
        BY <1>1, <1>2, <2>1 DEF MachineInv, machineVars
    <2> QED BY <2>3, <2>4, <2>5 DEF DecodeInv
<1> QED BY <1>3, <1>4

(* One result less to visit, and the machine at rest.                      *)
LEMMA VisitTypes ==
    ASSUME DecodeInv, stage = "results", NEW r \in todo, todo' = todo \ {r},
           UNCHANGED <<job, stage, packet, machineVars>>
    PROVE  DecodeInv'
<1>1. Types'
    BY DEF DecodeInv, Types, machineVars, Quantity
<1>2. PacketInv'
    BY DEF DecodeInv, PacketInv
<1>3. MachineInv'
    BY DEF DecodeInv, MachineInv, machineVars
<1> QED BY <1>1, <1>2, <1>3 DEF DecodeInv

LEMMA StartTypes == ASSUME DecodeInv, StartProgram PROVE DecodeInv'
<1>1. PICK r \in todo :
         /\ InRange(r) /\ Numeric(r) /\ ~WrongLength(r)
         /\ stage' = "rpn" /\ current' = {r} /\ todo' = todo \ {r}
         /\ real' = Short(r) /\ pc' = 0 /\ stack' = <<>>
    BY DEF StartProgram
<1>2. stage = "results" /\ UNCHANGED <<job, packet, num, response>>
    BY DEF StartProgram
<1>3. r \in job.results /\ job \in Jobs
    BY DEF DecodeInv, Types
<1>4. Types'
    BY <1>1, <1>2 DEF DecodeInv, Types, Quantity, Short
<1>5. PacketInv'
    BY <1>1, <1>2 DEF DecodeInv, PacketInv
<1>6. Running(r)'
    <2>1. InRange(r)'
        BY <1>1, <1>2, SameReply
    <2>2. Len(r.rpn) \in Nat
        BY <1>3, ResultTyped DEF WellFormed
    <2>3. Depth(r.rpn, 0) = 0
        BY DepthStep
    <2> QED BY <1>1, <2>1, <2>2, <2>3 DEF Running, Unreadable
<1>7. MachineInv'
    BY <1>1, <1>2, <1>3, <1>6 DEF MachineInv
<1> QED BY <1>4, <1>5, <1>7 DEF DecodeInv

(* The result in hand.                                                     *)
LEMMA InHand ==
    ASSUME DecodeInv, stage = "rpn"
    PROVE  /\ current = {TheResult} /\ TheResult \in job.results \ todo
           /\ Running(TheResult) /\ job \in Jobs /\ packet # NoPacket
           /\ packet.data \in Seq(Bytes)
           /\ WellFormed(Program) /\ Len(Program) \in Nat
           /\ \A b : Quantity(Argument(TheResult), b)
<1>1. PICK r \in job.results \ todo : current = {r} /\ Running(r)
    BY DEF DecodeInv, MachineInv
<1>2. TheResult = r
    BY <1>1 DEF TheResult
<1>3. job \in Jobs /\ packet # NoPacket /\ packet.data \in Seq(Bytes)
    BY DEF DecodeInv, Types, PacketInv
<1>4. WellFormed(Program) /\ Len(Program) \in Nat
    BY <1>1, <1>2, <1>3, ResultTyped DEF Program, WellFormed
<1>5. InRange(r) /\ ~WrongLength(r)
    BY <1>1 DEF Running
<1>6. \A b : Quantity(Argument(TheResult), b)
    BY <1>1, <1>2, <1>3, <1>5, ArgumentTyped
<1> QED BY <1>1, <1>2, <1>3, <1>4, <1>6

LEMMA QuantitiesAppended ==
    ASSUME NEW s \in Seq(Int \X Nat), NEW isReal, NEW v, Quantity(v, isReal),
           \A i \in 1..Len(s) : Quantity(s[i], isReal)
    PROVE  /\ Append(s, v) \in Seq(Int \X Nat) /\ Len(Append(s, v)) = Len(s) + 1
           /\ Append(s, v) # <<>>
           /\ \A i \in 1..Len(Append(s, v)) : Quantity(Append(s, v)[i], isReal)
<1>1. v \in Int \X Nat
    BY DEF Quantity
<1>2. /\ Append(s, v) \in Seq(Int \X Nat) /\ Len(Append(s, v)) = Len(s) + 1
      /\ Len(s) \in Nat
    BY <1>1
<1>3. \A i \in 1..(Len(s) + 1) : Append(s, v)[i] = IF i <= Len(s) THEN s[i] ELSE v
    BY <1>1
<1>4. Append(s, v) # <<>>
    <2>1. Len(Append(s, v)) # 0
        BY <1>2
    <2>2. Len(<<>>) = 0
        OBVIOUS
    <2> QED BY <2>1, <2>2, Zenon
<1>5. ASSUME NEW i \in 1..Len(Append(s, v)) PROVE Quantity(Append(s, v)[i], isReal)
    <2>1. i \in 1..(Len(s) + 1)
        BY <1>2
    <2>2. CASE i <= Len(s)
        BY <1>2, <1>3, <2>1, <2>2
    <2>3. CASE ~(i <= Len(s))
        <3>1. Append(s, v)[i] = v
            BY <1>3, <2>1, <2>3
        <3> QED BY <3>1
    <2> QED BY <2>2, <2>3
<1> QED BY <1>2, <1>4, <1>5

LEMMA OneTaken ==
    ASSUME NEW S, NEW s \in Seq(S), Len(s) >= 1
    PROVE  /\ Front(s) \in Seq(S) /\ Len(Front(s)) = Len(s) - 1
           /\ \A i \in 1..(Len(s) - 1) : Front(s)[i] = s[i]
<1>1. Len(s) \in Nat /\ Len(s) - 1 \in Nat
    OBVIOUS
<1>2. PICK n \in Nat : n = Len(s) - 1
    BY <1>1
<1>3. SubSeq(s, 1, n) \in Seq(S)
    <2>1. \A i \in 1..n : s[i] \in S
        BY <1>1, <1>2
    <2> QED BY <2>1
<1>4. Len(SubSeq(s, 1, n)) = n /\ \A i \in 1..n : SubSeq(s, 1, n)[i] = s[i]
    OBVIOUS
<1> QED BY <1>2, <1>3, <1>4 DEF Front

LEMMA TwoTaken ==
    ASSUME NEW S, NEW s \in Seq(S), Len(s) >= 2
    PROVE  /\ Front(Front(s)) \in Seq(S) /\ Len(Front(Front(s))) = Len(s) - 2
           /\ \A i \in 1..(Len(s) - 2) : Front(Front(s))[i] = s[i]
<1>1. Len(s) \in Nat /\ Len(s) >= 1
    OBVIOUS
<1>2. PICK t \in Seq(S) : /\ t = Front(s) /\ Len(t) = Len(s) - 1
                          /\ \A i \in 1..(Len(s) - 1) : t[i] = s[i]
    BY <1>1, OneTaken
<1>3. Len(t) >= 1
    BY <1>1, <1>2
<1>4. PICK u \in Seq(S) : /\ u = Front(t) /\ Len(u) = Len(t) - 1
                          /\ \A i \in 1..(Len(t) - 1) : u[i] = t[i]
    BY <1>3, OneTaken
<1>5. Len(u) = Len(s) - 2 /\ \A i \in 1..(Len(s) - 2) : u[i] = s[i]
    BY <1>1, <1>2, <1>4
<1>6. u = Front(Front(s))
    BY <1>2, <1>4
<1> QED BY <1>5, <1>6

(* One token more.                                                         *)
LEMMA TokenTypes ==
    ASSUME DecodeInv, stage = "rpn", pc < Len(Program),
           Token.op # "unreadable",
           stack' \in Seq(Int \X Nat), stack' # <<>>,
           \A i \in 1..Len(stack') : Quantity(stack'[i], real),
           Len(stack') = Len(stack) + (IF IsOperand(Token) THEN 1 ELSE -1),
           pc' = pc + 1,
           UNCHANGED <<job, stage, packet, todo, current, real, num, response>>
    PROVE  DecodeInv'
<1>1. PICK r : /\ r = TheResult
               /\ current = {r} /\ r \in job.results \ todo /\ Running(r)
               /\ Len(r.rpn) \in Nat
    BY InHand DEF Program
<1>2. pc \in 0..Len(r.rpn) /\ pc + 1 \in 0..Len(r.rpn)
    BY <1>1 DEF Running, Program
<1>3. Token = r.rpn[pc + 1]
    BY <1>1 DEF Token, Program
<1>4. Types'
    BY <1>2 DEF DecodeInv, Types
<1>5. PacketInv'
    BY DEF DecodeInv, PacketInv
<1>6. Running(r)'
    <2>1. InRange(r)'
        BY <1>1, SameReply DEF Running
    <2>2. Len(stack') = Depth(r.rpn, pc + 1)
        <3>1. Depth(r.rpn, pc + 1) = Depth(r.rpn, pc) + (IF IsOperand(r.rpn[pc + 1]) THEN 1 ELSE -1)
            BY DepthStep, Zenon DEF DecodeInv, Types
        <3> QED BY <1>1, <1>3, <3>1 DEF Running
    <2>3. ~Unreadable(r, pc + 1)
        <3>1. ~Unreadable(r, pc)
            BY <1>1 DEF Running
        <3>2. \A k \in 1..(pc + 1) : k \in 1..pc \/ k = pc + 1
            BY <1>1, <1>2
        <3> QED BY <1>3, <3>1, <3>2 DEF Unreadable
    <2> QED BY <1>1, <1>2, <2>1, <2>2, <2>3 DEF Running
<1>7. MachineInv'
    BY <1>1, <1>6 DEF DecodeInv, MachineInv
<1> QED BY <1>4, <1>5, <1>7 DEF DecodeInv

LEMMA PushTypes == ASSUME DecodeInv, PushToken PROVE DecodeInv'
<1>1. /\ stage = "rpn" /\ pc < Len(Program) /\ IsOperand(Token) /\ pc' = pc + 1
      /\ UNCHANGED <<job, stage, packet, todo, current, real, num, response>>
    BY DEF PushToken
<1> DEFINE v == IF Token.op = "N" THEN Argument(TheResult) ELSE Pushed(Token.value, real)
<1>2. Quantity(v, real)
    <2>1. pc + 1 \in 1..Len(Program)
        BY <1>1, InHand DEF DecodeInv, Types
    <2>2. Token.op = "number" => Token.value \in Int \X (Nat \ {0})
        BY <1>1, <2>1, InHand DEF WellFormed, Token
    <2>3. CASE Token.op = "N"
        BY <1>1, <2>3, InHand
    <2>4. CASE Token.op = "number"
        <3>1. Token.value \in Int \X Nat /\ Token.value[2] # 0
            BY <2>2, <2>4
        <3> QED BY <2>4, <3>1, PushedTyped
    <2> QED BY <1>1, <2>3, <2>4 DEF IsOperand
<1>3. stack' = Append(stack, v)
    BY DEF PushToken
<1> HIDE DEF v
<1>4. /\ stack' \in Seq(Int \X Nat) /\ stack' # <<>> /\ Len(stack') = Len(stack) + 1
      /\ \A i \in 1..Len(stack') : Quantity(stack'[i], real)
    BY <1>2, <1>3, QuantitiesAppended DEF DecodeInv, Types
<1>5. Token.op # "unreadable"
    BY <1>1 DEF IsOperand
<1> QED BY <1>1, <1>4, <1>5, TokenTypes

(* There are two numbers for an operator.                                  *)
LEMMA TwoOperands ==
    ASSUME DecodeInv, stage = "rpn", pc < Len(Program), Token.op \in Operators
    PROVE  Len(stack) >= 2
<1>1. /\ Running(TheResult) /\ WellFormed(Program) /\ pc + 1 \in 1..Len(Program)
      /\ pc \in Nat
    BY InHand DEF DecodeInv, Types
<1>2. \/ \E k \in 1..(pc + 1) : Program[k].op = "unreadable"
      \/ Depth(Program, (pc + 1) - 1) >= 2
    BY <1>1 DEF WellFormed, Token
<1>3. ~\E k \in 1..(pc + 1) : Program[k].op = "unreadable"
    <2>1. Token.op # "unreadable"
        BY DEF Operators
    <2> QED BY <1>1, <2>1 DEF Running, Unreadable, Token, Program
<1>4. (pc + 1) - 1 = pc
    BY <1>1
<1> QED BY <1>1, <1>2, <1>3, <1>4 DEF Running, Program

LEMMA ApplyTypes == ASSUME DecodeInv, ApplyToken PROVE DecodeInv'
<1>1. /\ stage = "rpn" /\ pc < Len(Program) /\ Token.op \in Operators
      /\ ~Fatal(Token, Top) /\ pc' = pc + 1
      /\ UNCHANGED <<job, stage, packet, todo, current, real, num, response>>
    BY DEF ApplyToken
<1>2. PICK v \in Combined(Token.op, Second, Top, real) :
         stack' = Append(Front(Front(stack)), v)
    BY DEF ApplyToken
<1>3. /\ stack \in Seq(Int \X Nat) /\ Len(stack) \in Nat /\ real \in BOOLEAN
      /\ \A i \in 1..Len(stack) : Quantity(stack[i], real)
    BY DEF DecodeInv, Types
<1>4. Len(stack) >= 2
    BY <1>1, TwoOperands
<1>5. Quantity(Top, real) /\ Quantity(Second, real)
    BY <1>3, <1>4 DEF Top, Second, Last
<1>6. Token.op = "/" /\ ~real => Top[1] # 0
    BY <1>1 DEF Fatal
<1>7. Quantity(v, real)
    BY <1>1, <1>3, <1>5, <1>6, CombinedTyped
<1>8. PICK f \in Seq(Int \X Nat) :
         /\ f = Front(Front(stack)) /\ Len(f) = Len(stack) - 2
         /\ \A i \in 1..Len(f) : Quantity(f[i], real)
    <2>1. /\ Front(Front(stack)) \in Seq(Int \X Nat)
          /\ Len(Front(Front(stack))) = Len(stack) - 2
          /\ \A i \in 1..(Len(stack) - 2) : Front(Front(stack))[i] = stack[i]
        BY <1>3, <1>4, TwoTaken
    <2>2. PICK f \in Seq(Int \X Nat) : f = Front(Front(stack))
        BY <2>1
    <2>3. Len(f) = Len(stack) - 2 /\ \A i \in 1..(Len(stack) - 2) : f[i] = stack[i]
        BY <2>1, <2>2
    <2>4. \A i \in 1..(Len(stack) - 2) : Quantity(stack[i], real)
        BY <1>3
    <2>5. \A i \in 1..Len(f) : Quantity(f[i], real)
        BY <2>3, <2>4
    <2> QED BY <2>2, <2>3, <2>5
<1>9. stack' = Append(f, v)
    BY <1>2, <1>8
<1>10. /\ Append(f, v) \in Seq(Int \X Nat) /\ Append(f, v) # <<>>
       /\ Len(Append(f, v)) = Len(f) + 1
       /\ \A i \in 1..Len(Append(f, v)) : Quantity(Append(f, v)[i], real)
    BY <1>7, <1>8, QuantitiesAppended
<1>11. Len(stack') = Len(stack) + (IF IsOperand(Token) THEN 1 ELSE -1)
    <2>1. ~IsOperand(Token)
        BY <1>1 DEF Operators, IsOperand
    <2> QED BY <1>3, <1>8, <1>9, <1>10, <2>1
<1>12. Token.op # "unreadable"
    BY <1>1 DEF Operators
<1> QED BY <1>1, <1>9, <1>10, <1>11, <1>12, TokenTypes

LEMMA OutcomeTyped ==
    ASSUME DecodeInv, ProgramEnds
    PROVE  Quantity(Outcome, real)
<1>1. /\ stage = "rpn" /\ pc = Len(Program)
    BY DEF ProgramEnds
<1>2. CASE Program = <<>>
    BY <1>1, <1>2, InHand DEF Outcome
<1>3. CASE Program # <<>>
    <2>1. Program \in Seq(ToSet(Program)) /\ Running(TheResult) /\ Len(Program) \in Nat
        BY <1>1, InHand DEF WellFormed
    <2>2. pc > 0
        BY <1>1, <1>3, <2>1
    <2>3. stack # <<>> /\ stack \in Seq(Int \X Nat)
        BY <2>1, <2>2 DEF Running, DecodeInv, Types
    <2>4. Quantity(Head(stack), real)
        BY <2>3 DEF DecodeInv, Types
    <2> QED BY <1>3, <2>4 DEF Outcome
<1> QED BY <1>2, <1>3

LEMMA AgainTypes == ASSUME DecodeInv, RunAgain PROVE DecodeInv'
<1>1. /\ ProgramEnds /\ stage = "rpn" /\ TheResult.display = "float"
      /\ real' = TRUE /\ pc' = 0 /\ stack' = <<>> /\ num' = Outcome[1]
      /\ UNCHANGED <<job, stage, packet, todo, current, response>>
    BY DEF RunAgain, ProgramEnds
<1>2. PICK r : /\ r = TheResult
               /\ current = {r} /\ r \in job.results \ todo /\ Running(r)
               /\ Len(r.rpn) \in Nat
    BY <1>1, InHand DEF Program
<1>3. num' \in Int
    BY <1>1, OutcomeTyped, QuantityParts
<1>4. Types'
    <2>1. stack' \in Seq(Int \X Nat) /\ \A i \in 1..Len(stack') : Quantity(stack'[i], real')
        BY <1>1
    <2> QED BY <1>1, <1>3, <2>1 DEF DecodeInv, Types
<1>5. PacketInv'
    BY <1>1 DEF DecodeInv, PacketInv
<1>6. Running(r)'
    <2>1. InRange(r)'
        BY <1>1, <1>2, SameReply DEF Running
    <2>2. Len(stack') = Depth(r.rpn, 0)
        BY <1>1, DepthStep
    <2> QED BY <1>1, <1>2, <2>1, <2>2 DEF Running, Unreadable
<1>7. MachineInv'
    BY <1>1, <1>2, <1>6 DEF MachineInv
<1> QED BY <1>4, <1>5, <1>7 DEF DecodeInv

LEMMA FinishTypes == ASSUME DecodeInv, FinishProgram PROVE DecodeInv'
<1>1. ProgramEnds /\ stage = "rpn"
    BY DEF FinishProgram, ProgramEnds
<1>2. CASE FinalValues(TheResult, real, Outcome) = {}
    <2>1. Throw
        BY <1>2 DEF FinishProgram
    <2> QED BY <2>1, StageOnly DEF Throw
<1>3. CASE FinalValues(TheResult, real, Outcome) # {}
    <2>1. /\ stage' = "results" /\ current' = {} /\ real' = FALSE /\ pc' = 0
          /\ stack' = <<>> /\ num' = 0 /\ UNCHANGED <<job, packet, todo>>
        BY <1>3 DEF FinishProgram
    <2>2. Types'
        <3>1. stack' \in Seq(Int \X Nat) /\ \A i \in 1..Len(stack') : Quantity(stack'[i], real')
            <4>1. stack' = <<>>
                BY <2>1
            <4> QED BY <4>1
        <3>2. real' \in BOOLEAN
            BY <2>1, Zenon
        <3>3. num' \in Int /\ pc' \in Nat
            BY <2>1
        <3> QED BY <2>1, <3>1, <3>2, <3>3 DEF DecodeInv, Types
    <2>3. PacketInv'
        BY <1>1, <2>1 DEF DecodeInv, PacketInv
    <2>4. MachineInv'
        BY <2>1 DEF MachineInv
    <2> QED BY <2>2, <2>3, <2>4 DEF DecodeInv
<1> QED BY <1>2, <1>3

LEMMA DecodeKept == DecodeInv /\ [Next]_vars => DecodeInv'
<1> SUFFICES ASSUME DecodeInv, [Next]_vars PROVE DecodeInv'
    OBVIOUS
<1>1. CASE ReadKwp
    BY <1>1, ReadTypes DEF ReadKwp
<1>2. CASE NotKwp
    BY <1>2, StageOnly DEF NotKwp
<1>3. CASE ReadDs2
    BY <1>3, ReadTypes DEF ReadDs2
<1>4. CASE SkipResult
    <2>1. PICK r \in todo : todo' = todo \ {r}
        BY <1>4 DEF SkipResult, Left
    <2> QED BY <1>4, <2>1, VisitTypes DEF SkipResult
<1>5. CASE RejectResult \/ RejectToken
    BY <1>5, StageOnly DEF RejectResult, RejectToken, Throw
<1>6. CASE DecodeField
    <2>1. PICK r \in todo : todo' = todo \ {r}
        BY <1>6 DEF DecodeField
    <2> QED BY <1>6, <2>1, VisitTypes DEF DecodeField
<1>7. CASE DivideByZero
    BY <1>7, StageOnly DEF DivideByZero
<1>8. CASE Show
    BY <1>8, StageOnly DEF Show
<1>9. CASE UNCHANGED vars
    BY <1>9, StageOnly DEF vars, machineVars
<1> QED BY <1>1, <1>2, <1>3, <1>4, <1>5, <1>6, <1>7, <1>8, <1>9, StartTypes, PushTypes,
        ApplyTypes, AgainTypes, FinishTypes DEF Next

-----------------------------------------------------------------------------
(* What is read, shown and lost.                                           *)

(* The line as the constructor that is chosen by its first byte reads it.  *)
Protocol == IF job.line[1] = Magic THEN "KWP" ELSE "DS2"
FrameInv ==
    /\ stage = "ds2" => job.line[1] # Magic
    /\ packet # NoPacket => packet \in Accepted(Protocol, job.line)
    /\ packet = NoPacket /\ stage = "error" => Accepted(Protocol, job.line) = {}

(* Definitions whose program may divide integers.                          *)
Dividing(r) ==
    Numeric(r) /\ ~Short(r) /\ \E i \in 1..Len(r.rpn) : r.rpn[i].op = "/"

Answering(r) == InRange(r) /\ ~Ignored(r)
Visited == job.results \ (todo \cup current)
OutcomeInv ==
    packet # NoPacket =>
        /\ DOMAIN response = {r.name : r \in {x \in Visited : Answering(x)}}
        /\ \A r \in Visited : InRange(r) => ~Undecodable(r)
        /\ stage = "error" => \E r \in job.results : InRange(r) /\ Undecodable(r)
        /\ stage = "killed" => \E r \in job.results : InRange(r) /\ Dividing(r)

(* What a program comes to on its own: token i turns the stack s into t,   *)
(* and h is the stack after each token.                                    *)
Turns(rpn, arg, isReal, i, s, t) ==
    \/ /\ IsOperand(rpn[i])
       /\ t = Append(s, IF rpn[i].op = "N" THEN arg ELSE Pushed(rpn[i].value, isReal))
    \/ /\ rpn[i].op \in Operators /\ ~(rpn[i].op = "/" /\ ~isReal /\ Last(s)[1] = 0)
       /\ \E v \in Combined(rpn[i].op, s[Len(s) - 1], Last(s), isReal) :
             t = Append(Front(Front(s)), v)
Computes(rpn, arg, isReal, n, s) ==
    \E h : /\ DOMAIN h = 0..n /\ h[0] = <<>> /\ h[n] = s
           /\ \A i \in 1..n : Turns(rpn, arg, isReal, i, h[i - 1], h[i])
ComesTo(r, isReal, q) ==
    IF r.rpn = <<>> THEN q = Argument(r)
    ELSE \E s : Computes(r.rpn, Argument(r), isReal, Len(r.rpn), s) /\ q = Head(s)

(* v is what the reply holds for r, whatever the other results are and     *)
(* whenever r is visited.  The program of a byte has ended on integers,    *)
(* whatever is shown.                                                      *)
AsReal(r) == Short(r) \/ r.display = "float"
Survives(r) == \E s : Computes(r.rpn, Argument(r), FALSE, Len(r.rpn), s)
Meant(r, v) ==
    \/ ~Numeric(r) /\ v \in Values(r)
    \/ /\ Numeric(r) /\ (~Short(r) => Survives(r))
       /\ \E q : ComesTo(r, AsReal(r), q) /\ v \in FinalValues(r, AsReal(r), q)

MeantInv ==
    /\ packet # NoPacket =>
          \A r \in Visited : Answering(r) => Meant(r, response[r.name])
    /\ stage \in {"rpn", "killed"} =>
          \A r \in current : /\ Computes(r.rpn, Argument(r), real, pc, stack)
                             /\ real /\ ~Short(r) => Survives(r)
    /\ stage = "killed" =>
          \E r \in job.results :
             /\ current = {r} /\ InRange(r) /\ Numeric(r) /\ ~Short(r) /\ ~WrongLength(r)
             /\ pc + 1 \in 1..Len(r.rpn) /\ r.rpn[pc + 1].op = "/"
             /\ ~real /\ Last(stack)[1] = 0

-----------------------------------------------------------------------------
LEMMA InsertParts ==
    ASSUME NEW r, NEW v, Insert(r, v)
    PROVE  /\ DOMAIN response' = DOMAIN response \cup {r.name}
           /\ response'[r.name] = v
           /\ \A n \in DOMAIN response : n # r.name => response'[n] = response[n]
BY DEF Insert

LEMMA ValueDecodable ==
    ASSUME NEW r, ~Numeric(r), ~WrongLength(r)
    PROVE  /\ Ignored(r) => ~Undecodable(r)
           /\ Values(r) # {} => ~Undecodable(r) /\ ~Ignored(r)
<1>1. ~Short(r)
    BY DEF Numeric, Short
<1>2. Ignored(r) => ~Undecodable(r)
    BY <1>1 DEF Ignored, Undecodable
<1>3. ASSUME Values(r) # {} PROVE ~Undecodable(r) /\ ~Ignored(r)
    <2>1. \/ r.type = "string" /\ r.display \in {"string", "hex_string", "int"}
          \/ r.type \in {"short_vin", "6bit-string"}
          \/ r.type = "hex_string" /\ r.display \in Formats
          \/ r.type = "boolean" /\ r.display = "string" /\ ~BadLevels(r.levels)
          \/ r.type = "boolean" /\ r.display = "raw"
        BY <1>3 DEF Values, Formats
    <2> QED BY <1>1, <2>1 DEF Undecodable, Ignored
<1> QED BY <1>2, <1>3

LEMMA CastPossible == ASSUME NEW q, NEW type PROVE Cast(q, type) # {}
BY DecodeAssumption DEF Cast

LEMMA FinalDecodable ==
    ASSUME NEW r, NEW isReal, NEW q,
           Numeric(r), ~WrongLength(r), ~Unreadable(r, Len(r.rpn)), isReal <=> AsReal(r)
    PROVE  FinalValues(r, isReal, q) = {} <=> Undecodable(r)
<1>1. Undecodable(r) <=>
         \/ Short(r) /\ r.display \notin {"int", "float"}
         \/ /\ ~Short(r)
            /\ \/ r.display \notin {"raw", "hex_string", "hex_int", "string_table", "enum", "float"}
               \/ r.display = "enum" /\ BadLevels(r.levels)
    BY DEF Undecodable, Numeric
<1>2. CASE isReal /\ r.display = "float"
    <2>1. FinalValues(r, isReal, q) = {Number(q)}
        BY <1>2 DEF FinalValues
    <2> QED BY <1>1, <1>2, <2>1
<1>3. CASE Short(r) /\ r.display = "int"
    <2> DEFINE type == IF r.type = "signed_short" THEN SignedWords ELSE UnsignedWords
    <2>1. FinalValues(r, isReal, q) = {Number(<<n, 1>>) : n \in Cast(q, type)}
        BY <1>3 DEF FinalValues
    <2>2. Cast(q, type) # {}
        BY CastPossible
    <2> HIDE DEF type
    <2> QED BY <1>1, <1>3, <2>1, <2>2
<1>4. CASE Short(r) /\ r.display \notin {"int", "float"}
    <2>1. FinalValues(r, isReal, q) = {}
        BY <1>4 DEF FinalValues
    <2> QED BY <1>1, <1>4, <2>1
<1>5. CASE ~Short(r) /\ r.display # "float"
    <2>1. ~isReal
        BY <1>5 DEF AsReal
    <2>2. FinalValues(r, isReal, q) = ByteValues(r, q[1])
        BY <1>5, <2>1 DEF FinalValues
    <2>3. ByteValues(r, q[1]) = {} <=>
             \/ r.display \notin {"raw", "hex_string", "hex_int", "string_table", "enum"}
             \/ r.display = "enum" /\ BadLevels(r.levels)
        BY DEF ByteValues
    <2> QED BY <1>1, <1>5, <2>2, <2>3
<1> QED BY <1>2, <1>3, <1>4, <1>5 DEF AsReal

-----------------------------------------------------------------------------
(* The line.                                                               *)

LEMMA FrameReading ==
    ASSUME Protocol \in {"DS2", "KWP"}, FrameInv, Read(Protocol), stage \in {"line", "ds2"},
           packet = NoPacket
    PROVE  FrameInv'
<1>1. job' = job /\ Protocol' = Protocol
    BY DEF Read, Protocol
<1>2. CASE Accepted(Protocol, job.line) = {}
    <2>1. stage' = "error" /\ packet' = packet
        BY <1>2 DEF Read
    <2> QED BY <1>1, <1>2, <2>1 DEF FrameInv
<1>3. CASE Accepted(Protocol, job.line) # {}
    <2>1. stage' = "results" /\ packet' \in Accepted(Protocol, job.line)
        BY <1>3 DEF Read
    <2> QED BY <1>1, <2>1 DEF FrameInv
<1> QED BY <1>2, <1>3

LEMMA FrameKept == DecodeInv /\ FrameInv /\ [Next]_vars => FrameInv'
<1> SUFFICES ASSUME DecodeInv, FrameInv, [Next]_vars PROVE FrameInv'
    OBVIOUS
<1>1. Protocol \in {"DS2", "KWP"}
    BY DEF Protocol
<1>2. CASE ReadKwp
    <2>1. Read(Protocol) /\ stage = "line" /\ packet = NoPacket
        BY <1>2 DEF ReadKwp, Protocol, DecodeInv, PacketInv
    <2> QED BY <1>1, <2>1, FrameReading
<1>3. CASE ReadDs2
    <2>1. Read(Protocol) /\ stage = "ds2" /\ packet = NoPacket
        BY <1>3 DEF ReadDs2, Protocol, DecodeInv, PacketInv, FrameInv
    <2> QED BY <1>1, <2>1, FrameReading
<1>4. CASE NotKwp
    BY <1>4 DEF NotKwp, FrameInv, Protocol
<1>5. CASE ~ReadKwp /\ ~ReadDs2 /\ ~NotKwp
    <2>1. UNCHANGED <<job, packet>>
        BY <1>5 DEF Next, vars, SkipResult, RejectResult, DecodeField, StartProgram, PushToken,
           ApplyToken, RejectToken, DivideByZero, RunAgain, FinishProgram, Show, Throw
    <2>2. stage' # "ds2" \/ stage' = stage
        BY <1>5 DEF Next, vars, SkipResult, RejectResult, DecodeField, StartProgram, PushToken,
           ApplyToken, RejectToken, DivideByZero, RunAgain, FinishProgram, Show, Throw
    <2>3. packet # NoPacket \/ stage' = stage
        <3>1. stage \in {"results", "rpn"} => packet # NoPacket
            BY DEF DecodeInv, PacketInv
        <3>2. stage \in {"results", "rpn"} \/ stage' = stage
            BY <1>5 DEF Next, vars, SkipResult, RejectResult, DecodeField, StartProgram, PushToken,
               ApplyToken, RejectToken, DivideByZero, RunAgain, FinishProgram, ProgramEnds, Show
        <3> QED BY <3>1, <3>2
    <2> QED BY <2>1, <2>2, <2>3 DEF FrameInv, Protocol
<1> QED BY <1>2, <1>3, <1>4, <1>5

-----------------------------------------------------------------------------
(* Which results are in the response.                                      *)

LEMMA OutcomeSame ==
    ASSUME OutcomeInv, UNCHANGED <<job, packet, response>>, Visited' = Visited,
           packet # NoPacket /\ stage' = "error" /\ stage' # stage =>
              \E r \in job.results : InRange(r) /\ Undecodable(r),
           packet # NoPacket /\ stage' = "killed" /\ stage' # stage =>
              \E r \in job.results : InRange(r) /\ Dividing(r)
    PROVE  OutcomeInv'
<1>1. \A r : (InRange(r)' <=> InRange(r)) /\ (Answering(r)' <=> Answering(r))
    BY SameReply DEF Answering
<1> QED BY <1>1 DEF OutcomeInv

LEMMA OutcomeGrows ==
    ASSUME OutcomeInv, packet # NoPacket, UNCHANGED <<job, packet>>, stage' = "results",
           NEW r, Visited' = Visited \cup {r},
           InRange(r) => ~Undecodable(r),
           Answering(r) => DOMAIN response' = DOMAIN response \cup {r.name},
           ~Answering(r) => DOMAIN response' = DOMAIN response
    PROVE  OutcomeInv'
<1>1. \A x : (InRange(x)' <=> InRange(x)) /\ (Answering(x)' <=> Answering(x))
    BY SameReply DEF Answering
<1>2. DOMAIN response = {x.name : x \in {y \in Visited : Answering(y)}}
    BY DEF OutcomeInv
<1>3. DOMAIN response' = {x.name : x \in {y \in Visited \cup {r} : Answering(y)}}
    <2>1. CASE Answering(r)
        BY <1>2, <2>1
    <2>2. CASE ~Answering(r)
        <3>1. {y \in Visited \cup {r} : Answering(y)} = {y \in Visited : Answering(y)}
            BY <2>2
        <3> QED BY <1>2, <2>2, <3>1
    <2> QED BY <2>1, <2>2
<1>4. \A x \in Visited' : InRange(x) => ~Undecodable(x)
    BY DEF OutcomeInv
<1> QED BY <1>1, <1>3, <1>4 DEF OutcomeInv

(* After a constructor nothing has been visited.                           *)
LEMMA ReadingVisits ==
    ASSUME DecodeInv, stage \in {"line", "ds2"}, NEW protocol, Read(protocol)
    PROVE  /\ Visited' = {} /\ response' = <<>> /\ current' = {}
           /\ packet' # NoPacket => stage' = "results"
<1>1. packet = NoPacket /\ todo = job.results /\ response = <<>> /\ current = {}
    BY DEF DecodeInv, PacketInv
<1>2. UNCHANGED <<job, todo, response, machineVars>>
    BY DEF Read
<1>3. packet' # NoPacket => stage' = "results"
    BY <1>1 DEF Read
<1> QED BY <1>1, <1>2, <1>3 DEF Visited, machineVars

LEMMA OutcomeRead ==
    ASSUME DecodeInv, stage \in {"line", "ds2"}, NEW protocol, Read(protocol)
    PROVE  OutcomeInv'
<1>1. /\ Visited' = {} /\ response' = <<>>
      /\ packet' # NoPacket => stage' = "results"
    BY ReadingVisits
<1>2. DOMAIN response' = {}
    BY <1>1
<1> QED BY <1>1, <1>2 DEF OutcomeInv

(* A result leaves todo, or the machine.                                   *)
LEMMA VisitedNext ==
    ASSUME DecodeInv, NEW r
    PROVE  /\ stage = "results" /\ r \in todo /\ todo' = todo \ {r} /\ UNCHANGED <<job, current>> =>
                 r \in job.results /\ r \notin Visited /\ Visited' = Visited \cup {r}
           /\ stage = "results" /\ r \in todo /\ todo' = todo \ {r} /\ current' = {r} /\ job' = job =>
                 Visited' = Visited
           /\ current = {r} /\ stage = "rpn" /\ current' = {} /\ UNCHANGED <<job, todo>> =>
                 r \in job.results /\ r \notin Visited /\ Visited' = Visited \cup {r}
<1>1. todo \subseteq job.results /\ (stage = "results" => current = {})
    BY DEF DecodeInv, Types, MachineInv
<1>2. stage = "rpn" => current \subseteq job.results \ todo
    BY DEF DecodeInv, MachineInv
<1> QED BY <1>1, <1>2 DEF Visited

(* The value of a field that needs no arithmetic.                          *)
LEMMA FieldStep ==
    ASSUME DecodeInv, DecodeField
    PROVE  \E r \in todo :
              /\ InRange(r) /\ ~Numeric(r) /\ ~Undecodable(r) /\ todo' = todo \ {r}
              /\ \/ Ignored(r) /\ response' = response
                 \/ ~Ignored(r) /\ \E v \in Values(r) : Insert(r, v)
<1>1. PICK r \in todo :
         /\ InRange(r) /\ ~Numeric(r) /\ ~WrongLength(r) /\ todo' = todo \ {r}
         /\ \/ Ignored(r) /\ response' = response
            \/ \E v \in Values(r) : Insert(r, v)
    BY DEF DecodeField
<1>2. /\ Ignored(r) => ~Undecodable(r)
      /\ Values(r) # {} => ~Undecodable(r) /\ ~Ignored(r)
    BY <1>1, ValueDecodable
<1> QED BY <1>1, <1>2

(* The end of a program that is not the first of two.                      *)
LEMMA FinishStep ==
    ASSUME DecodeInv, FinishProgram
    PROVE  LET r == TheResult
           IN  /\ InRange(r) /\ Numeric(r) /\ ~Ignored(r) /\ real = AsReal(r)
               /\ stage = "rpn" /\ pc = Len(r.rpn) /\ current = {r}
               /\ r \in job.results /\ packet # NoPacket
               /\ \/ Undecodable(r) /\ Throw
                  \/ /\ ~Undecodable(r) /\ \E v \in FinalValues(r, real, Outcome) : Insert(r, v)
                     /\ stage' = "results" /\ current' = {} /\ UNCHANGED <<job, packet, todo>>
<1>1. PICK r : r = TheResult
    OBVIOUS
<1>2. /\ stage = "rpn" /\ pc = Len(r.rpn) /\ (real \/ r.display # "float")
    BY <1>1 DEF FinishProgram, ProgramEnds, Program
<1>3. Running(r) /\ current = {r} /\ r \in job.results /\ packet # NoPacket
    BY <1>1, <1>2, InHand
<1>4. real = AsReal(r)
    <2>1. real \in BOOLEAN
        BY DEF DecodeInv, Types
    <2>2. real <=> AsReal(r)
        BY <1>2, <1>3 DEF Running, AsReal
    <2> QED BY <2>1, <2>2, Zenon DEF AsReal
<1>5. /\ InRange(r) /\ Numeric(r) /\ ~WrongLength(r) /\ ~Unreadable(r, Len(r.rpn))
    BY <1>2, <1>3 DEF Running
<1>6. ~Ignored(r)
    BY <1>5 DEF Numeric, Ignored
<1>7. FinalValues(r, real, Outcome) = {} <=> Undecodable(r)
    BY <1>4, <1>5, FinalDecodable
<1>8. \/ FinalValues(r, real, Outcome) = {} /\ Throw
      \/ /\ FinalValues(r, real, Outcome) # {}
         /\ \E v \in FinalValues(r, real, Outcome) : Insert(r, v)
         /\ stage' = "results" /\ current' = {} /\ UNCHANGED <<job, packet, todo>>
    BY <1>1 DEF FinishProgram
<1> QED BY <1>1, <1>2, <1>3, <1>4, <1>5, <1>6, <1>7, <1>8

LEMMA OutcomeKept == DecodeInv /\ OutcomeInv /\ [Next]_vars => OutcomeInv'
<1> SUFFICES ASSUME DecodeInv, OutcomeInv, [Next]_vars PROVE OutcomeInv'
    OBVIOUS
<1>0. stage \in {"results", "rpn"} => packet # NoPacket
    BY DEF DecodeInv, PacketInv
<1>1. CASE ReadKwp \/ ReadDs2
    BY <1>1, OutcomeRead DEF ReadKwp, ReadDs2
<1>2. CASE NotKwp \/ Show \/ UNCHANGED vars
    <2>1. /\ UNCHANGED <<job, packet, response>> /\ Visited' = Visited
          /\ stage' \notin {"error", "killed"} \/ stage' = stage
        BY <1>2 DEF NotKwp, Show, vars, Visited, machineVars
    <2> QED BY <2>1, OutcomeSame
<1>3. CASE SkipResult
    <2>1. PICK r \in todo : ~InRange(r) /\ todo' = todo \ {r}
        BY <1>3 DEF SkipResult, Left
    <2>2. stage = "results" /\ stage' = "results"
          /\ UNCHANGED <<job, packet, response, current>>
        BY <1>3 DEF SkipResult, machineVars
    <2>3. Visited' = Visited \cup {r}
        BY <2>1, <2>2, VisitedNext
    <2> QED BY <1>0, <2>1, <2>2, <2>3, OutcomeGrows DEF Answering
<1>4. CASE RejectResult
    <2>1. PICK r \in todo : InRange(r) /\ Undecodable(r)
        BY <1>4 DEF RejectResult, Undecodable
    <2>2. r \in job.results
        BY DEF DecodeInv, Types
    <2>3. UNCHANGED <<job, packet, response>> /\ Visited' = Visited /\ stage' = "error"
        BY <1>4 DEF RejectResult, Throw, Visited, machineVars
    <2> QED BY <2>1, <2>2, <2>3, OutcomeSame
<1>5. CASE DecodeField
    <2>1. PICK r \in todo :
              /\ InRange(r) /\ ~Numeric(r) /\ ~Undecodable(r) /\ todo' = todo \ {r}
              /\ \/ Ignored(r) /\ response' = response
                 \/ ~Ignored(r) /\ \E v \in Values(r) : Insert(r, v)
        BY <1>5, FieldStep
    <2>2. stage = "results" /\ stage' = "results" /\ UNCHANGED <<job, packet, current>>
        BY <1>5 DEF DecodeField, machineVars
    <2>3. Visited' = Visited \cup {r}
        BY <2>1, <2>2, VisitedNext
    <2>4. /\ Answering(r) => DOMAIN response' = DOMAIN response \cup {r.name}
          /\ ~Answering(r) => DOMAIN response' = DOMAIN response
        BY <2>1, InsertParts DEF Answering
    <2> QED BY <1>0, <2>1, <2>2, <2>3, <2>4, OutcomeGrows
<1>6. CASE StartProgram
    <2>1. PICK r \in todo : todo' = todo \ {r} /\ current' = {r} /\ stage' = "rpn"
        BY <1>6 DEF StartProgram
    <2>2. stage = "results" /\ UNCHANGED <<job, packet, response>>
        BY <1>6 DEF StartProgram
    <2>3. Visited' = Visited
        BY <2>1, <2>2, VisitedNext
    <2> QED BY <2>1, <2>2, <2>3, OutcomeSame
<1>7. CASE PushToken \/ ApplyToken \/ RunAgain
    <2>1. UNCHANGED <<job, packet, todo, current, response, stage>>
        BY <1>7 DEF PushToken, ApplyToken, RunAgain
    <2>2. Visited' = Visited
        BY <2>1 DEF Visited
    <2> QED BY <2>1, <2>2, OutcomeSame
<1>8. CASE RejectToken \/ DivideByZero
    <2>1. UNCHANGED <<job, packet, todo, current, response>> /\ stage = "rpn"
          /\ pc < Len(Program) /\ pc \in Nat
        BY <1>8 DEF RejectToken, DivideByZero, Throw, machineVars, DecodeInv, Types
    <2>2. Visited' = Visited
        BY <2>1 DEF Visited
    <2>3. PICK r : r = TheResult
        OBVIOUS
    <2>4. r \in job.results /\ Running(r) /\ Len(r.rpn) \in Nat
        BY <2>1, <2>3, InHand DEF Program
    <2>5. pc + 1 \in 1..Len(r.rpn) /\ Token = r.rpn[pc + 1]
        BY <2>1, <2>3, <2>4 DEF Token, Program
    <2>6. CASE RejectToken
        <3>1. stage' = "error" /\ Token.op = "unreadable"
            BY <2>6 DEF RejectToken, Throw
        <3>2. InRange(r) /\ Undecodable(r)
            BY <2>4, <2>5, <3>1 DEF Running, Undecodable, Unreadable
        <3> QED BY <2>1, <2>2, <2>4, <3>1, <3>2, OutcomeSame
    <2>7. CASE DivideByZero
        <3>1. stage' = "killed" /\ Token.op = "/" /\ ~real
            BY <2>7 DEF DivideByZero, Fatal
        <3>2. InRange(r) /\ Dividing(r)
            BY <2>4, <2>5, <3>1 DEF Running, Dividing
        <3> QED BY <2>1, <2>2, <2>4, <3>1, <3>2, OutcomeSame
    <2> QED BY <1>8, <2>6, <2>7
<1>9. CASE FinishProgram
    <2>1. PICK r :
             /\ r = TheResult /\ InRange(r) /\ ~Ignored(r) /\ stage = "rpn"
             /\ current = {r} /\ r \in job.results /\ packet # NoPacket
             /\ \/ Undecodable(r) /\ Throw
                \/ /\ ~Undecodable(r) /\ \E v \in FinalValues(r, real, Outcome) : Insert(r, v)
                   /\ stage' = "results" /\ current' = {} /\ UNCHANGED <<job, packet, todo>>
        BY <1>9, FinishStep
    <2>2. CASE Undecodable(r) /\ Throw
        <3>1. UNCHANGED <<job, packet, response>> /\ Visited' = Visited /\ stage' = "error"
            BY <2>2 DEF Throw, Visited, machineVars
        <3> QED BY <2>1, <2>2, <3>1, OutcomeSame
    <2>3. CASE ~(Undecodable(r) /\ Throw)
        <3>1. PICK v : Insert(r, v)
            BY <2>1, <2>3
        <3>2. /\ stage' = "results" /\ current' = {} /\ UNCHANGED <<job, packet, todo>>
              /\ ~Undecodable(r)
            BY <2>1, <2>3
        <3>3. Visited' = Visited \cup {r}
            BY <2>1, <3>2, VisitedNext
        <3>4. DOMAIN response' = DOMAIN response \cup {r.name}
            BY <3>1, InsertParts
        <3> QED BY <2>1, <3>2, <3>3, <3>4, OutcomeGrows DEF Answering
    <2> QED BY <2>2, <2>3
<1> QED BY <1>1, <1>2, <1>3, <1>4, <1>5, <1>6, <1>7, <1>8, <1>9 DEF Next


-----------------------------------------------------------------------------
(* What the values mean.                                                   *)

LEMMA SameMeaning ==
    ASSUME job' = job, packet' = packet, NEW r
    PROVE  /\ InRange(r)' <=> InRange(r)
           /\ Answering(r)' <=> Answering(r)
           /\ Argument(r)' = Argument(r)
           /\ Survives(r)' <=> Survives(r)
           /\ \A v : Meant(r, v)' <=> Meant(r, v)
<1>1. /\ InRange(r)' <=> InRange(r)
      /\ Argument(r)' = Argument(r)
      /\ Masked(r)' = Masked(r)
    BY SameReply
<1>2. Data' = Data /\ Field(r)' = Field(r)
    BY DEF Data, Field
<1>3. Values(r)' = Values(r)
    BY <1>2 DEF Values
<1>4. \A n : ByteValues(r, n)' = ByteValues(r, n)
    BY <1>1 DEF ByteValues
<1>5. \A b, q : FinalValues(r, b, q)' = FinalValues(r, b, q)
    BY <1>4 DEF FinalValues
<1>6. \A b, q : ComesTo(r, b, q)' <=> ComesTo(r, b, q)
    BY <1>1 DEF ComesTo
<1>7. Survives(r)' <=> Survives(r)
    BY <1>1 DEF Survives
<1>8. \A v : Meant(r, v)' <=> Meant(r, v)
    BY <1>3, <1>5, <1>6, <1>7 DEF Meant
<1> QED BY <1>1, <1>7, <1>8 DEF Answering

(* One token more.                                                         *)
LEMMA ComputesNothing ==
    ASSUME NEW rpn, NEW arg, NEW isReal
    PROVE  Computes(rpn, arg, isReal, 0, <<>>)
<1> DEFINE h == [i \in 0..0 |-> <<>>]
<1>1. DOMAIN h = 0..0 /\ h[0] = <<>> /\ 1..0 = {}
    OBVIOUS
<1> HIDE DEF h
<1> QED BY <1>1 DEF Computes

LEMMA ComputesMore ==
    ASSUME NEW rpn, NEW arg, NEW isReal, NEW n \in Nat, NEW s, NEW t,
           Computes(rpn, arg, isReal, n, s), Turns(rpn, arg, isReal, n + 1, s, t)
    PROVE  Computes(rpn, arg, isReal, n + 1, t)
<1>1. PICK h : /\ DOMAIN h = 0..n /\ h[0] = <<>> /\ h[n] = s
               /\ \A i \in 1..n : Turns(rpn, arg, isReal, i, h[i - 1], h[i])
    BY DEF Computes
<1> DEFINE g == [i \in 0..(n + 1) |-> IF i = n + 1 THEN t ELSE h[i]]
<1>2. DOMAIN g = 0..(n + 1) /\ g[0] = <<>> /\ g[n + 1] = t
    BY <1>1
<1>3. ASSUME NEW i \in 1..(n + 1)
      PROVE  Turns(rpn, arg, isReal, i, g[i - 1], g[i])
    <2>1. CASE i = n + 1
        <3>1. g[i - 1] = s /\ g[i] = t
            BY <1>1, <2>1
        <3> QED BY <2>1, <3>1
    <2>2. CASE i # n + 1
        <3>1. i \in 1..n /\ g[i - 1] = h[i - 1] /\ g[i] = h[i]
            BY <2>2
        <3> QED BY <1>1, <3>1
    <2> QED BY <2>1, <2>2
<1> HIDE DEF g
<1> QED BY <1>2, <1>3 DEF Computes

(* No value changes, and the machine is as far as it was or at rest.       *)
LEMMA MeantSame ==
    ASSUME MeantInv, UNCHANGED <<job, packet, response>>, Visited' = Visited,
           stage' = "killed" => stage = "killed" /\ UNCHANGED vars,
           stage' = "rpn" =>
              \A r \in current' : /\ Computes(r.rpn, Argument(r), real', pc', stack')
                                  /\ real' /\ ~Short(r) => Survives(r)
    PROVE  MeantInv'
<1>1. \A r : /\ Answering(r)' <=> Answering(r)
             /\ Argument(r)' = Argument(r)
             /\ InRange(r)' <=> InRange(r)
             /\ Survives(r)' <=> Survives(r)
             /\ \A v : Meant(r, v)' <=> Meant(r, v)
    BY SameMeaning
<1>2. (\A r \in Visited : Answering(r) => Meant(r, response[r.name]))' <=>
      \A r \in Visited : Answering(r) => Meant(r, response[r.name])
    BY <1>1
<1>3. CASE stage' = "killed"
    BY <1>1, <1>2, <1>3 DEF MeantInv, vars
<1>4. CASE stage' # "killed"
    BY <1>1, <1>2, <1>4 DEF MeantInv
<1> QED BY <1>3, <1>4

(* Of a new result the value is meant; the others keep theirs, since the   *)
(* names are not the same.                                                 *)
LEMMA MeantGrows ==
    ASSUME DecodeInv, OutcomeInv, MeantInv, packet # NoPacket,
           UNCHANGED <<job, packet>>, stage' = "results",
           NEW r \in job.results, r \notin Visited, Visited' = Visited \cup {r},
           \/ ~Answering(r) /\ response' = response
           \/ \E v : Meant(r, v) /\ Insert(r, v)
    PROVE  MeantInv'
<1>1. \A x : /\ Answering(x)' <=> Answering(x)
             /\ \A v : Meant(x, v)' <=> Meant(x, v)
    BY SameMeaning
<1>2. DOMAIN response = {x.name : x \in {y \in Visited : Answering(y)}}
    BY DEF OutcomeInv
<1>3. \A x \in Visited : Answering(x) => Meant(x, response[x.name])
    BY DEF MeantInv
<1>4. ASSUME NEW x \in Visited \cup {r}, Answering(x)
      PROVE  Meant(x, response'[x.name])
    <2>1. CASE response' = response /\ ~Answering(r)
        BY <1>3, <1>4, <2>1
    <2>2. CASE ~(response' = response /\ ~Answering(r))
        <3>1. PICK v : Meant(r, v) /\ Insert(r, v)
            BY <2>2
        <3>2. CASE x = r
            BY <3>1, <3>2, InsertParts
        <3>3. CASE x # r
            <4>1. x \in Visited /\ x \in job.results /\ job \in Jobs
                BY <3>3 DEF Visited, DecodeInv, Types
            <4>2. x.name # r.name
                BY <3>3, <4>1, NamesUnique
            <4>3. x.name \in DOMAIN response
                BY <1>2, <1>4, <4>1
            <4>4. response'[x.name] = response[x.name]
                BY <3>1, <4>2, <4>3, InsertParts
            <4> QED BY <1>3, <1>4, <4>1, <4>4
        <3> QED BY <3>2, <3>3
    <2> QED BY <2>1, <2>2
<1> QED BY <1>1, <1>4 DEF MeantInv

(* A token turns the stack.                                                *)
LEMMA TokenMeant ==
    ASSUME DecodeInv, MeantInv, PushToken \/ ApplyToken
    PROVE  \A r \in current : Computes(r.rpn, Argument(r), real, pc + 1, stack')
<1>1. stage = "rpn" /\ pc \in Nat
    BY DEF PushToken, ApplyToken, DecodeInv, Types
<1>2. PICK r : r = TheResult
    OBVIOUS
<1>3. current = {r}
    BY <1>1, <1>2, InHand
<1>4. Computes(r.rpn, Argument(r), real, pc, stack)
    BY <1>1, <1>3 DEF MeantInv
<1>5. Token = r.rpn[pc + 1]
    BY <1>2 DEF Token, Program
<1>6. Turns(r.rpn, Argument(r), real, pc + 1, stack, stack')
    <2>1. CASE PushToken
        BY <1>2, <1>5, <2>1 DEF PushToken, Turns
    <2>2. CASE ApplyToken
        BY <1>5, <2>2 DEF ApplyToken, Fatal, Turns, Top, Second
    <2> QED BY <2>1, <2>2
<1> QED BY <1>1, <1>3, <1>4, <1>6, ComputesMore

(* The outcome is what the program comes to.                               *)
LEMMA OutcomeMeant ==
    ASSUME DecodeInv, MeantInv, ProgramEnds
    PROVE  ComesTo(TheResult, real, Outcome)
<1>1. stage = "rpn" /\ pc = Len(Program)
    BY DEF ProgramEnds
<1>2. current = {TheResult}
    BY <1>1, InHand
<1>3. Computes(Program, Argument(TheResult), real, pc, stack)
    BY <1>1, <1>2 DEF MeantInv, Program
<1>4. CASE Program = <<>>
    BY <1>4 DEF ComesTo, Outcome, Program
<1>5. CASE Program # <<>>
    BY <1>1, <1>3, <1>5 DEF ComesTo, Outcome, Program
<1> QED BY <1>4, <1>5

(* Where the process ends, the next token divides an integer by zero.      *)
LEMMA DeathMeant ==
    ASSUME DecodeInv, MeantInv, DivideByZero
    PROVE  MeantInv'
<1>1. /\ UNCHANGED <<job, packet, todo, response, current, real, pc, stack>>
      /\ stage = "rpn" /\ stage' = "killed" /\ pc < Len(Program)
      /\ Token.op = "/" /\ ~real /\ Top[1] = 0
    BY DEF DivideByZero, machineVars, Fatal
<1>2. PICK r : r = TheResult
    OBVIOUS
<1>3. current = {r} /\ r \in job.results /\ Running(r)
    BY <1>1, <1>2, InHand
<1>4. pc \in Nat /\ pc + 1 \in 1..Len(r.rpn) /\ r.rpn[pc + 1].op = "/"
    BY <1>1, <1>2, <1>3 DEF DecodeInv, Types, Token, Program, Running
<1>5. InRange(r) /\ Numeric(r) /\ ~Short(r) /\ ~WrongLength(r)
    <2>1. Short(r) => real
        BY <1>3 DEF Running
    <2> QED BY <1>1, <1>3, <2>1 DEF Running
<1>6. \A x : /\ Answering(x)' <=> Answering(x)
             /\ InRange(x)' <=> InRange(x)
             /\ Argument(x)' = Argument(x)
             /\ Survives(x)' <=> Survives(x)
             /\ \A v : Meant(x, v)' <=> Meant(x, v)
    BY <1>1, SameMeaning
<1>7. (\A x \in Visited : Answering(x) => Meant(x, response[x.name]))' <=>
      \A x \in Visited : Answering(x) => Meant(x, response[x.name])
    BY <1>1, <1>6 DEF Visited
<1> QED BY <1>1, <1>3, <1>4, <1>5, <1>6, <1>7 DEF MeantInv, Top

LEMMA MeantKept == DecodeInv /\ OutcomeInv /\ MeantInv /\ [Next]_vars => MeantInv'
<1> SUFFICES ASSUME DecodeInv, OutcomeInv, MeantInv, [Next]_vars PROVE MeantInv'
    OBVIOUS
<1>0. stage \in {"results", "rpn"} => packet # NoPacket
    BY DEF DecodeInv, PacketInv
<1>1. CASE ReadKwp \/ ReadDs2
    <2>1. PICK protocol : Read(protocol) /\ stage \in {"line", "ds2"}
        BY <1>1 DEF ReadKwp, ReadDs2
    <2>2. /\ Visited' = {} /\ current' = {}
        BY <2>1, ReadingVisits
    <2>3. stage' # "killed"
        BY <2>1 DEF Read
    <2> QED BY <2>2, <2>3 DEF MeantInv
<1>2. CASE NotKwp \/ Show \/ UNCHANGED vars
    <2>1. /\ UNCHANGED <<job, packet, response, machineVars>> /\ Visited' = Visited
          /\ stage' # "rpn" \/ stage' = stage
        BY <1>2 DEF NotKwp, Show, vars, Visited, machineVars
    <2>2. stage' = "rpn" =>
             \A r \in current' : /\ Computes(r.rpn, Argument(r), real', pc', stack')
                                 /\ real' /\ ~Short(r) => Survives(r)
        BY <2>1 DEF MeantInv, machineVars
    <2>3. stage' = "killed" => stage = "killed" /\ UNCHANGED vars
        BY <1>2 DEF NotKwp, Show, vars
    <2> QED BY <2>1, <2>2, <2>3, MeantSame
<1>3. CASE SkipResult
    <2>1. PICK r \in todo : ~InRange(r) /\ todo' = todo \ {r}
        BY <1>3 DEF SkipResult, Left
    <2>2. stage = "results" /\ stage' = "results"
          /\ UNCHANGED <<job, packet, response, current>>
        BY <1>3 DEF SkipResult, machineVars
    <2>3. r \in job.results /\ r \notin Visited /\ Visited' = Visited \cup {r}
        BY <2>1, <2>2, VisitedNext
    <2> QED BY <1>0, <2>1, <2>2, <2>3, MeantGrows DEF Answering
<1>4. CASE RejectResult \/ RejectToken
    <2>1. UNCHANGED <<job, packet, response>> /\ Visited' = Visited /\ stage' = "error"
        BY <1>4 DEF RejectResult, RejectToken, Throw, Visited, machineVars
    <2> QED BY <2>1, MeantSame
<1>10. CASE DivideByZero
    BY <1>10, DeathMeant
<1>5. CASE DecodeField
    <2>1. PICK r \in todo :
              /\ InRange(r) /\ ~Numeric(r) /\ ~Undecodable(r) /\ todo' = todo \ {r}
              /\ \/ Ignored(r) /\ response' = response
                 \/ ~Ignored(r) /\ \E v \in Values(r) : Insert(r, v)
        BY <1>5, FieldStep
    <2>2. stage = "results" /\ stage' = "results" /\ UNCHANGED <<job, packet, current>>
        BY <1>5 DEF DecodeField, machineVars
    <2>3. r \in job.results /\ r \notin Visited /\ Visited' = Visited \cup {r}
        BY <2>1, <2>2, VisitedNext
    <2>4. \/ ~Answering(r) /\ response' = response
          \/ \E v : Meant(r, v) /\ Insert(r, v)
        BY <2>1 DEF Answering, Meant
    <2> QED BY <1>0, <2>2, <2>3, <2>4, MeantGrows
<1>6. CASE StartProgram
    <2>1. PICK r \in todo : /\ todo' = todo \ {r} /\ current' = {r} /\ stage' = "rpn"
                            /\ pc' = 0 /\ stack' = <<>>
        BY <1>6 DEF StartProgram
    <2>2. stage = "results" /\ UNCHANGED <<job, packet, response>>
        BY <1>6 DEF StartProgram
    <2>3. Visited' = Visited
        BY <2>1, <2>2, VisitedNext
    <2>4. \A x \in current' : Computes(x.rpn, Argument(x), real', pc', stack')
        BY <2>1, ComputesNothing
    <2>5. \A x \in current' : real' => Short(x)
        BY <1>6 DEF StartProgram
    <2> QED BY <2>1, <2>2, <2>3, <2>4, <2>5, MeantSame
<1>7. CASE PushToken \/ ApplyToken
    <2>1. UNCHANGED <<job, packet, todo, current, response, real>> /\ pc' = pc + 1
        BY <1>7 DEF PushToken, ApplyToken
    <2>2. Visited' = Visited
        BY <2>1 DEF Visited
    <2>3. \A r \in current' : Computes(r.rpn, Argument(r), real', pc', stack')
        BY <1>7, <2>1, TokenMeant
    <2>4. stage' = "rpn" /\ stage = "rpn"
        BY <1>7 DEF PushToken, ApplyToken
    <2>5. \A r \in current' : real' /\ ~Short(r) => Survives(r)
        BY <2>1, <2>4 DEF MeantInv
    <2> QED BY <2>1, <2>2, <2>3, <2>4, <2>5, MeantSame
<1>8. CASE RunAgain
    <2>1. /\ UNCHANGED <<job, packet, todo, current, response>>
          /\ pc' = 0 /\ stack' = <<>>
        BY <1>8 DEF RunAgain
    <2>2. Visited' = Visited
        BY <2>1 DEF Visited
    <2>3. \A r \in current' : Computes(r.rpn, Argument(r), real', pc', stack')
        BY <2>1, ComputesNothing
    <2>4. stage' = "rpn" /\ stage = "rpn" /\ ~real /\ pc = Len(Program)
        BY <1>8 DEF RunAgain, ProgramEnds
    <2>5. \A r \in current' : Survives(r)
        <3>1. current' = {TheResult}
            BY <2>1, <2>4, InHand
        <3>2. Computes(Program, Argument(TheResult), FALSE, Len(Program), stack)
            <4>1. real = FALSE
                BY <2>4 DEF DecodeInv, Types
            <4> QED BY <2>1, <2>4, <3>1, <4>1 DEF MeantInv, Program
        <3> QED BY <3>1, <3>2 DEF Survives, Program
    <2> QED BY <2>1, <2>2, <2>3, <2>4, <2>5, MeantSame
<1>9. CASE FinishProgram
    <2>1. PICK r :
             /\ r = TheResult /\ InRange(r) /\ Numeric(r) /\ ~Ignored(r) /\ stage = "rpn"
             /\ real = AsReal(r) /\ current = {r} /\ packet # NoPacket
             /\ \/ Undecodable(r) /\ Throw
                \/ /\ ~Undecodable(r) /\ \E v \in FinalValues(r, real, Outcome) : Insert(r, v)
                   /\ stage' = "results" /\ current' = {} /\ UNCHANGED <<job, packet, todo>>
        BY <1>9, FinishStep
    <2>2. CASE Undecodable(r) /\ Throw
        <3>1. UNCHANGED <<job, packet, response>> /\ Visited' = Visited /\ stage' = "error"
            BY <2>2 DEF Throw, Visited, machineVars
        <3> QED BY <3>1, MeantSame
    <2>3. CASE ~(Undecodable(r) /\ Throw)
        <3>1. PICK v \in FinalValues(r, real, Outcome) : Insert(r, v)
            BY <2>1, <2>3
        <3>2. stage' = "results" /\ current' = {} /\ UNCHANGED <<job, packet, todo>>
            BY <2>1, <2>3
        <3>3. r \in job.results /\ r \notin Visited /\ Visited' = Visited \cup {r}
            BY <2>1, <3>2, VisitedNext
        <3>4. ComesTo(r, AsReal(r), Outcome)
            BY <1>9, <2>1, OutcomeMeant DEF FinishProgram
        <3>6. ~Short(r) => Survives(r)
            <4>1. CASE real
                BY <2>1, <4>1 DEF MeantInv
            <4>2. CASE ~real
                <5>1. Computes(r.rpn, Argument(r), real, Len(r.rpn), stack) /\ real = FALSE
                    BY <1>9, <2>1, <4>2 DEF MeantInv, FinishProgram, ProgramEnds, Program,
                       DecodeInv, Types
                <5> QED BY <5>1 DEF Survives
            <4> QED BY <4>1, <4>2
        <3>5. Meant(r, v)
            BY <2>1, <3>1, <3>4, <3>6 DEF Meant
        <3> QED BY <2>1, <3>1, <3>2, <3>3, <3>5, MeantGrows
    <2> QED BY <2>2, <2>3
<1> QED BY <1>1, <1>2, <1>3, <1>4, <1>5, <1>6, <1>7, <1>8, <1>9, <1>10 DEF Next

-----------------------------------------------------------------------------
(* Theorems.                                                               *)

DecoderInv == DecodeInv /\ FrameInv /\ OutcomeInv /\ MeantInv

LEMMA DecoderAlways == Spec => []DecoderInv
<1>1. Init => DecoderInv
    <2> SUFFICES ASSUME Init PROVE DecoderInv
        OBVIOUS
    <2>1. stage = "line" /\ packet = NoPacket
        BY DEF Init
    <2> QED BY <2>1, DecodeInit DEF DecoderInv, FrameInv, OutcomeInv, MeantInv
<1>2. DecoderInv /\ [Next]_vars => DecoderInv'
    BY DecodeKept, FrameKept, OutcomeKept, MeantKept DEF DecoderInv
<1> QED BY <1>1, <1>2, PTL DEF Spec

(* The machine has one result in hand, only whole numbers on a stack of    *)
(* integers (the deque of runRpnForResult<qint64>), and values only under  *)
(* the names of results of the operation.                                  *)
THEOREM DecodeTypes == Spec => []TypeOK
<1>1. DecoderInv => TypeOK
    <2> SUFFICES ASSUME DecoderInv PROVE TypeOK
        OBVIOUS
    <2>1. DecodeInv /\ OutcomeInv
        BY DEF DecoderInv
    <2>2. current \subseteq job.results /\ Cardinality(current) <= 1
        <3>1. CASE current = {}
            BY <3>1, FS_EmptySet
        <3>2. CASE current # {}
            <4>1. PICK r \in job.results : current = {r}
                BY <2>1, <3>2 DEF DecodeInv, MachineInv
            <4> QED BY <4>1, FS_Singleton
        <3> QED BY <3>1, <3>2
    <2>3. stage = "rpn" => current # {}
        BY <2>1 DEF DecodeInv, MachineInv
    <2>4. \A i \in 1..Len(stack) : stack[i] \in Int \X Nat /\ (~real => stack[i][2] = 1)
        BY <2>1 DEF DecodeInv, Types, Quantity
    <2>5. DOMAIN response \subseteq {r.name : r \in job.results}
        <3>1. CASE packet = NoPacket
            BY <2>1, <3>1 DEF DecodeInv, PacketInv
        <3>2. CASE packet # NoPacket
            BY <2>1, <3>2 DEF OutcomeInv, Visited
        <3> QED BY <3>1, <3>2
    <2> QED BY <2>1, <2>2, <2>3, <2>4, <2>5 DEF TypeOK, DecodeInv, Types, PacketInv
<1> QED BY <1>1, DecoderAlways, PTL

(* A line that toByteArray wrote, with its checksum or without, is read    *)
(* back as the packet it was made from, or refused if there are more than  *)
(* 254 bytes of data.  With another byte in place of the checksum it is    *)
(* refused, and so is one with a wrong address or data byte: the packet q  *)
(* differs from p in one byte, the checksum is that of p (the string       *)
(* constructors of DS2Packet and KWPPacket).  A DS2 packet for the address *)
(* KWP_MAGIC_BYTE is taken for one of KWP by DataCollection::runOperation  *)
(* and left out.                                                           *)
Recognisable == {p \in Packets : p.protocol = "DS2" => p.target # Magic}
FramesRead ==
    \A p \in Recognisable :
        /\ job.line \in {ToByteArray(p), Body(p)} =>
              /\ packet # NoPacket => packet = p
              /\ packet = NoPacket /\ stage = "error" => Len(p.data) > 254
        /\ \A c \in Bytes \ {Checksum(Body(p))} :
              job.line = Append(Body(p), c) => packet = NoPacket
        /\ \A q \in Recognisable :
              OneWrong(Body(p), Body(q)) /\ job.line = Append(Body(q), Checksum(Body(p))) =>
                 packet = NoPacket

(* The constructor that is chosen is that of the protocol.                 *)
LEMMA ProtocolOf ==
    ASSUME NEW p \in Recognisable,
           job.line = Body(p) \/ \E c : job.line = Append(Body(p), c)
    PROVE  Protocol = p.protocol
<1>0. p \in Packets /\ (p.protocol = "DS2" => p.target # Magic)
    BY DEF Recognisable
<1>1. /\ Header(p) \in Seq(Bytes) /\ p.data \in Seq(Bytes) /\ Len(Header(p)) >= 1
    <2>1. p.data \in Seq(Bytes)
        BY <1>0, PacketParts
    <2>2. /\ Header(p) \in Seq(Bytes)
          /\ Len(Header(p)) = IF p.protocol = "KWP" THEN 4 ELSE 2
        BY <1>0, HeaderTyped
    <2> QED BY <2>1, <2>2
<1>2. Body(p) \in Seq(Bytes) /\ Len(Body(p)) >= 1 /\ Body(p)[1] = Header(p)[1]
    BY <1>1 DEF Body
<1>3. \A c : Append(Body(p), c)[1] = Body(p)[1]
    <2> SUFFICES ASSUME NEW c PROVE Append(Body(p), c)[1] = Body(p)[1]
        OBVIOUS
    <2>1. Body(p) \in Seq(Bytes \cup {c})
        BY <1>2, Wider
    <2> QED BY <1>2, <2>1
<1>4. job.line[1] = Header(p)[1]
    BY <1>2, <1>3
<1>5. Header(p)[1] = IF p.protocol = "KWP" THEN Magic ELSE p.target
    BY DEF Header
<1>6. p.protocol \in {"DS2", "KWP"}
    BY <1>0, PacketParts
<1> QED BY <1>0, <1>4, <1>5, <1>6 DEF Protocol

LEMMA FramesNow == DecoderInv => FramesRead
<1> SUFFICES ASSUME DecoderInv, NEW p \in Recognisable
             PROVE  /\ job.line \in {ToByteArray(p), Body(p)} =>
                          /\ packet # NoPacket => packet = p
                          /\ packet = NoPacket /\ stage = "error" => Len(p.data) > 254
                    /\ \A c \in Bytes \ {Checksum(Body(p))} :
                          job.line = Append(Body(p), c) => packet = NoPacket
                    /\ \A q \in Recognisable :
                          /\ OneWrong(Body(p), Body(q))
                          /\ job.line = Append(Body(q), Checksum(Body(p)))
                          => packet = NoPacket
    BY DEF FramesRead
<1>1. /\ packet # NoPacket => packet \in Accepted(Protocol, job.line)
      /\ packet = NoPacket /\ stage = "error" => Accepted(Protocol, job.line) = {}
    BY DEF DecoderInv, FrameInv
<1>2. ToByteArray(p) = Append(Body(p), Checksum(Body(p)))
    BY DEF ToByteArray, Body
<1>3. p \in Packets
    BY DEF Recognisable
<1>4. ASSUME job.line \in {ToByteArray(p), Body(p)}
      PROVE  /\ Accepted(Protocol, job.line) = IF Len(p.data) <= 254 THEN {p} ELSE {}
             /\ Len(p.data) \in Nat
    <2>1. Protocol = p.protocol
        BY <1>2, <1>4, ProtocolOf
    <2>2. Accepted(p.protocol, job.line) = IF Len(p.data) <= 254 THEN {p} ELSE {}
        BY <1>2, <1>3, <1>4, FrameWithLast, FrameWithoutLast
    <2> QED BY <1>3, <2>1, <2>2, PacketParts
<1>5. ASSUME NEW q \in Recognisable, NEW c, job.line = Append(Body(q), c),
             c # Checksum(Body(q))
      PROVE  Accepted(Protocol, job.line) = {}
    <2>1. Protocol = q.protocol /\ q \in Packets
        BY <1>5, ProtocolOf DEF Recognisable
    <2> QED BY <1>5, <2>1, FrameWithLast
<1>6. ASSUME NEW q \in Recognisable, OneWrong(Body(p), Body(q))
      PROVE  Checksum(Body(p)) # Checksum(Body(q))
    <2>1. q \in Packets
        BY DEF Recognisable
    <2>2. Body(p) \in Seq(Bytes) /\ Body(q) \in Seq(Bytes)
        BY <1>3, <2>1, PacketParts, HeaderTyped DEF Body
    <2> QED BY <1>6, <2>2, OneWrongChecksum
<1>7. ASSUME job.line \in {ToByteArray(p), Body(p)}
      PROVE  /\ packet # NoPacket => packet = p
             /\ packet = NoPacket /\ stage = "error" => Len(p.data) > 254
    BY <1>1, <1>4, <1>7
<1>8. ASSUME NEW c \in Bytes \ {Checksum(Body(p))}, job.line = Append(Body(p), c)
      PROVE  packet = NoPacket
    BY <1>1, <1>5, <1>8
<1>9. ASSUME NEW q \in Recognisable, OneWrong(Body(p), Body(q)),
             job.line = Append(Body(q), Checksum(Body(p)))
      PROVE  packet = NoPacket
    BY <1>1, <1>5, <1>6, <1>9
<1> QED BY <1>7, <1>8, <1>9

(* FramesRead, in every state: what the constructors of KWPPacket and      *)
(* DS2Packet make of a line.                                               *)
THEOREM FramesAreRead == Spec => []FramesRead
BY FramesNow, DecoderAlways, PTL

(* A response that is shown has a value for exactly the results that lie   *)
(* in the reply, but for those of a type or display format that            *)
(* parseOperation passes over; it fails as a whole for a result in range   *)
(* that cannot be decoded, and the process dies only of a division in the  *)
(* program of a byte.                                                      *)
ResponseComplete ==
    /\ stage = "done" =>
          /\ DOMAIN response = {r.name : r \in {x \in job.results : Answering(x)}}
          /\ \A r \in job.results : InRange(r) => ~Undecodable(r)
    /\ stage = "error" /\ packet # NoPacket =>
          \E r \in job.results : InRange(r) /\ Undecodable(r)
    /\ stage = "killed" => \E r \in job.results : InRange(r) /\ Dividing(r)

LEMMA CompleteNow == DecoderInv => ResponseComplete
<1> SUFFICES ASSUME DecoderInv PROVE ResponseComplete
    OBVIOUS
<1>1. DecodeInv /\ OutcomeInv
    BY DEF DecoderInv
<1>2. stage \in {"done", "killed"} => packet # NoPacket
    BY <1>1 DEF DecodeInv, PacketInv
<1>3. stage = "done" => Visited = job.results
    BY <1>1 DEF DecodeInv, MachineInv, Visited
<1> QED BY <1>1, <1>2, <1>3 DEF OutcomeInv, ResponseComplete

(* ResponseComplete, in every state: which results parseOperation shows,   *)
(* and what an operation is lost to.                                       *)
THEOREM ResponsesAreComplete == Spec => []ResponseComplete
BY CompleteNow, DecoderAlways, PTL

(* Every value in the response is what the bytes of its result come to on  *)
(* their own, by its program if it has one: neither the order of the hash, *)
(* nor the other results, nor the integer run before a byte is computed    *)
(* again as a double has a part in it.                                     *)
ResponseMeant ==
    \A r \in job.results : r.name \in DOMAIN response =>
        Answering(r) /\ Meant(r, response[r.name])

LEMMA MeantNow == DecoderInv => ResponseMeant
<1> SUFFICES ASSUME DecoderInv, NEW r \in job.results, r.name \in DOMAIN response
             PROVE  Answering(r) /\ Meant(r, response[r.name])
    BY DEF ResponseMeant
<1>1. DecodeInv /\ OutcomeInv /\ MeantInv
    BY DEF DecoderInv
<1>2. packet # NoPacket
    BY <1>1 DEF DecodeInv, PacketInv
<1>3. PICK x \in Visited : Answering(x) /\ x.name = r.name
    BY <1>1, <1>2 DEF OutcomeInv
<1>4. x = r
    <2>1. x \in job.results /\ job \in Jobs
        BY <1>1 DEF Visited, DecodeInv, Types
    <2> QED BY <1>3, <2>1, NamesUnique
<1> QED BY <1>1, <1>2, <1>3, <1>4 DEF MeantInv

(* ResponseMeant, in every state: what parseOperation shows of a result is *)
(* independent of the order in which it visits them.                       *)
THEOREM ResponsesAreMeant == Spec => []ResponseMeant
BY MeantNow, DecoderAlways, PTL

LEMMA InsertedAnew ==
    ASSUME DecoderInv, packet # NoPacket, NEW r \in job.results, r \notin Visited,
           NEW v, Insert(r, v)
    PROVE  ValuesStay
<1>1. DecodeInv /\ OutcomeInv
    BY DEF DecoderInv
<1>2. r.name \notin DOMAIN response
    <2> SUFFICES ASSUME r.name \in DOMAIN response PROVE FALSE
        OBVIOUS
    <2>1. PICK x \in Visited : x.name = r.name
        BY <1>1 DEF OutcomeInv
    <2>2. x \in job.results /\ job \in Jobs
        BY <1>1 DEF Visited, DecodeInv, Types
    <2> QED BY <2>1, <2>2, NamesUnique
<1> QED BY <1>2, InsertParts DEF ValuesStay

(* A value once in the response is neither replaced nor taken away         *)
(* (parseOperation fills one hash, result by result).                      *)
THEOREM ValuesAreKept == Spec => ValuesKept
<1>1. DecoderInv /\ [Next]_vars => [ValuesStay]_vars
    <2> SUFFICES ASSUME DecoderInv, Next PROVE ValuesStay
        OBVIOUS
    <2>0. DecodeInv /\ (stage \in {"results", "rpn"} => packet # NoPacket)
        BY DEF DecoderInv, DecodeInv, PacketInv
    <2>1. CASE DecodeField
        <3>1. PICK r \in todo : \/ response' = response
                               \/ \E v \in Values(r) : Insert(r, v)
            BY <2>0, <2>1, FieldStep
        <3>2. stage = "results" /\ r \in job.results /\ r \notin Visited
            BY <2>0, <2>1 DEF DecodeField, DecodeInv, Types, Visited
        <3> QED BY <2>0, <3>1, <3>2, InsertedAnew DEF ValuesStay
    <2>2. CASE FinishProgram
        <3>1. PICK r :
                 /\ stage = "rpn" /\ current = {r} /\ r \in job.results
                 /\ \/ Throw
                    \/ \E v \in FinalValues(r, real, Outcome) : Insert(r, v)
            BY <2>0, <2>2, FinishStep
        <3>2. r \notin Visited
            BY <3>1 DEF Visited
        <3> QED BY <2>0, <3>1, <3>2, InsertedAnew DEF ValuesStay, Throw
    <2>3. CASE ~DecodeField /\ ~FinishProgram
        <3>1. response' = response
            BY <2>3 DEF Next, ReadKwp, NotKwp, ReadDs2, Read, SkipResult, RejectResult,
               StartProgram, PushToken, ApplyToken, RejectToken, DivideByZero, RunAgain, Show, Throw
        <3> QED BY <3>1 DEF ValuesStay
    <2> QED BY <2>1, <2>2, <2>3
<1> QED BY <1>1, DecoderAlways, PTL DEF Spec, ValuesKept

=============================================================================
