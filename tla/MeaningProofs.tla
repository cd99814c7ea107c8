---------------------------- MODULE MeaningProofs ----------------------------
(***************************************************************************)
(* What a control unit means is what the tester shows: for every word      *)
(* size, every expression, field, operation and order of the hash.         *)
(*                                                                         *)
(* First the arithmetic: quotients and powers, bits and masks, decimal     *)
(* digits, hexadecimal text, six-bit characters.  From these, that frames  *)
(* are read as the packets they were made of.  Then expressions: by        *)
(* induction over trees, the machine leaves of a program what its          *)
(* expression comes to (RunMeans).  Then one lemma for each kind of field, *)
(* that all it can come to is what was meant.  Last, what an operation is  *)
(* lost to.  The invariant under all of it is DecoderInv of DecodeProofs.  *)
(***************************************************************************)
EXTENDS DecodeProofs, Meaning, SequenceTheorems

-----------------------------------------------------------------------------
(* Quotients and powers.                                                   *)

LEMMA Euclid ==
    ASSUME NEW x \in Int, NEW n \in Nat \ {0}
    PROVE  x = n * (x \div n) + (x % n) /\ x \div n \in Int /\ x % n \in 0..(n - 1)
    OBVIOUS

LEMMA SmallMultiple ==
    ASSUME NEW n \in Nat \ {0}, NEW t \in Int, n * t < n, -n < n * t
    PROVE  t = 0
<1>1. CASE t >= 1
    <2>1. n * (t - 1) \in Nat
        BY <1>1, Product
    <2>2. n * t = n * (t - 1) + n
        OBVIOUS
    <2> QED BY <2>1, <2>2
<1>2. CASE t <= -1
    <2>1. n * (-t - 1) \in Nat
        BY <1>2, Product
    <2>2. n * t = -(n * (-t - 1)) - n
        OBVIOUS
    <2> QED BY <2>1, <2>2
<1> QED BY <1>1, <1>2

(* A quotient and a remainder are the only ones.                           *)
LEMMA QuotientIs ==
    ASSUME NEW n \in Nat \ {0}, NEW a \in 0..(n - 1), NEW q \in Int
    PROVE  (n * q + a) \div n = q /\ (n * q + a) % n = a
<1>1. PICK x \in Int : x = n * q + a
    OBVIOUS
<1>2. PICK d \in Int, r \in 0..(n - 1) : d = x \div n /\ r = x % n /\ x = n * d + r
    BY Euclid
<1>3. n * (q - d) = r - a
    <2>1. n * (q - d) = n * q - n * d
        OBVIOUS
    <2>2. n * q \in Int /\ n * d \in Int
        OBVIOUS
    <2> QED BY <1>1, <1>2, <2>1, <2>2
<1>4. q - d = 0
    BY <1>3, SmallMultiple
<1> QED BY <1>1, <1>2, <1>3, <1>4

LEMMA PowerOf ==
    ASSUME NEW i \in 0..WordBits
    PROVE  /\ Power[i] \in Nat \ {0}
           /\ i < WordBits => i + 1 \in 0..WordBits /\ Power[i + 1] = 2 * Power[i]
<1>1. WordBits \in Nat
    BY DecodeAssumption
<1>2. Power[i] \in Nat \ {0}
    BY PowerPositive
<1>3. ASSUME i < WordBits PROVE i + 1 \in 0..WordBits /\ Power[i + 1] = 2 * Power[i]
    <2>1. i + 1 \in 1..WordBits /\ (i + 1) - 1 = i
        BY <1>1, <1>3
    <2> QED BY <2>1, PowerStep
<1> QED BY <1>2, <1>3

(* A power is a multiple of each before it.                                *)
LEMMA PowerMultiple ==
    ASSUME NEW j \in 0..WordBits, NEW i \in j..WordBits
    PROVE  \E r \in Nat \ {0} : Power[i] = Power[j] * r
<1> DEFINE S == {n \in Nat : j + n <= WordBits =>
                    \E r \in Nat \ {0} : Power[j + n] = Power[j] * r}
<1>1. WordBits \in Nat /\ j \in Nat /\ i \in Nat /\ Power[j] \in Nat \ {0}
    BY DecodeAssumption, PowerOf
<1>2. 0 \in S
    <2>1. j + 0 = j /\ Power[j] = Power[j] * 1
        BY <1>1
    <2> QED BY <2>1
<1>3. ASSUME NEW n \in Nat, n \in S PROVE n + 1 \in S
    <2>1. ASSUME j + (n + 1) <= WordBits
          PROVE  \E r \in Nat \ {0} : Power[j + (n + 1)] = Power[j] * r
        <3>1. PICK r \in Nat \ {0} : Power[j + n] = Power[j] * r
            BY <1>1, <1>3, <2>1
        <3>2. j + n \in 0..WordBits /\ j + n < WordBits /\ (j + n) + 1 = j + (n + 1)
            BY <1>1, <2>1
        <3>3. Power[j + (n + 1)] = 2 * (Power[j] * r)
            BY <3>1, <3>2, PowerOf
        <3>4. 2 * (Power[j] * r) = Power[j] * (2 * r) /\ 2 * r \in Nat \ {0}
            BY <1>1
        <3> QED BY <3>3, <3>4
    <2> QED BY <2>1
<1> HIDE DEF S
<1>4. i - j \in S
    BY <1>1, <1>2, <1>3, Induction
<1>5. j + (i - j) = i /\ i - j \in Nat
    BY <1>1
<1> QED BY <1>4, <1>5 DEF S

LEMMA PowerGrows ==
    ASSUME NEW j \in 0..WordBits, NEW i \in j..WordBits
    PROVE  Power[j] <= Power[i]
<1>1. PICK r \in Nat \ {0} : Power[i] = Power[j] * r
    BY PowerMultiple
<1>2. Power[j] \in Nat \ {0}
    BY PowerOf
<1>3. Power[j] * (r - 1) \in Nat
    BY <1>2, Product
<1>4. Power[j] * r = Power[j] * (r - 1) + Power[j]
    BY <1>2
<1>5. PICK p \in Nat, m \in Nat : p = Power[j] /\ m = Power[j] * (r - 1)
    BY <1>2, <1>3
<1> QED BY <1>1, <1>4, <1>5

LEMMA WordsHoldBytes == Words >= 256 /\ 8 \in 0..WordBits /\ Power[8] = 256
<1>1. 8 \in 0..WordBits /\ WordBits \in 8..WordBits
    BY DecodeAssumption
<1> QED BY <1>1, PowerGrows, PowerOf, SmallPowers DEF Words

-----------------------------------------------------------------------------
(* Bits.                                                                   *)

LEMMA BitOfParts ==
    ASSUME NEW k \in 0..WordBits, NEW a \in 0..(Power[k] - 1), NEW q \in Int
    PROVE  Bit(Power[k] * q + a, k) = q % 2
<1>1. Power[k] \in Nat \ {0}
    BY PowerOf
<1>2. (Power[k] * q + a) \div Power[k] = q
    BY <1>1, QuotientIs
<1> QED BY <1>2 DEF Bit

(* The bits of a number put together from bits are these.                  *)
LEMMA BitOfBits ==
    ASSUME NEW n \in 0..WordBits, NEW f \in [0..(n - 1) -> {0, 1}], NEW k \in 0..(n - 1)
    PROVE  Bit(FromBits(f, n), k) = f[k]
<1>1. PICK low : Low(f, n, low) /\ FromBits(f, n) = low[n]
    BY FromBitsSteps
<1>2. n \in Nat /\ WordBits \in Nat /\ n <= WordBits /\ k \in 0..WordBits
    BY DecodeAssumption
<1>3. low \in [0..n -> Nat] /\ \A i \in 0..n : low[i] < Power[i]
    BY <1>1, LowBelow DEF Low
<1> DEFINE P == Power[k]
           S == {m \in Nat : (k + 1) + m <= n =>
                    \E q \in Int : low[(k + 1) + m] = P * (f[k] + 2 * q) + low[k]}
<1>4. P \in Nat \ {0} /\ f[k] \in {0, 1} /\ low[k] \in 0..(P - 1)
    BY <1>2, <1>3, PowerOf
<1>5. 0 \in S
    <2>1. low[k + 1] = low[k] + P * f[k]
        <3>1. k + 1 \in 1..n /\ (k + 1) - 1 = k
            BY <1>2
        <3> QED BY <1>1, <3>1 DEF Low
    <2>2. low[(k + 1) + 0] = P * (f[k] + 2 * 0) + low[k]
        BY <1>2, <1>4, <2>1
    <2>3. \E q \in Int : low[(k + 1) + 0] = P * (f[k] + 2 * q) + low[k]
        <3> HIDE DEF P
        <3> WITNESS 0 \in Int
        <3> QED BY <2>2
    <2> QED BY <2>3
<1>6. ASSUME NEW m \in Nat, m \in S PROVE m + 1 \in S
    <2>1. ASSUME (k + 1) + (m + 1) <= n
          PROVE  \E q \in Int : low[(k + 1) + (m + 1)] = P * (f[k] + 2 * q) + low[k]
        <3> DEFINE i == (k + 1) + m
        <3>1. i \in 0..(n - 1) /\ i + 1 \in 1..n /\ (i + 1) - 1 = i /\ i \in (k + 1)..WordBits
              /\ k + 1 \in 0..WordBits /\ i + 1 = (k + 1) + (m + 1) /\ k < WordBits
            BY <1>2, <2>1
        <3>2. PICK q \in Int : low[i] = P * (f[k] + 2 * q) + low[k]
            BY <1>6, <3>1
        <3>3. PICK r \in Nat : Power[i] = Power[k + 1] * r
            <4> HIDE DEF i
            <4> QED BY <3>1, PowerMultiple
        <3>4. Power[k + 1] = 2 * P
            BY <1>2, <3>1, PowerOf
        <3>5. low[i + 1] = low[i] + Power[i] * f[i]
            BY <1>1, <3>1 DEF Low
        <3>6. f[i] = 0 \/ f[i] = 1
            BY <3>1
        <3>7. low[i + 1] = P * (f[k] + 2 * (q + r * f[i])) + low[k]
            <4> HIDE DEF i, P
            <4>1. CASE f[i] = 0
                BY <1>3, <1>4, <3>1, <3>2, <3>3, <3>4, <3>5, <4>1
            <4>2. CASE f[i] = 1
                <5>1. low[i + 1] = (P * (f[k] + 2 * q) + low[k]) + (2 * P) * r
                    BY <1>4, <3>2, <3>3, <3>4, <3>5, <4>2
                <5>2. P * (f[k] + 2 * (q + r)) = P * (f[k] + 2 * q) + (2 * P) * r
                    BY <1>4
                <5>3. PICK u \in Int, w \in Int, l \in Int : u = P * (f[k] + 2 * q) /\ w = (2 * P) * r /\ l = low[k]
                    BY <1>4
                <5> QED BY <4>2, <5>1, <5>2, <5>3
            <4> QED BY <3>6, <4>1, <4>2
        <3>8. q + r * f[i] \in Int
            BY <3>6
        <3> QED BY <3>1, <3>7, <3>8
    <2> QED BY <2>1
<1> HIDE DEF S
<1>7. Nat \subseteq S
    BY <1>5, <1>6, Induction
<1>8. PICK m \in Nat : (k + 1) + m = n
    <2>1. n - (k + 1) \in Nat /\ (k + 1) + (n - (k + 1)) = n
        BY <1>2
    <2> QED BY <2>1
<1>9. PICK q \in Int : low[n] = P * (f[k] + 2 * q) + low[k]
    <2>1. m \in S /\ (k + 1) + m <= n
        BY <1>2, <1>7, <1>8
    <2> HIDE DEF P
    <2>2. \E q \in Int : low[(k + 1) + m] = P * (f[k] + 2 * q) + low[k]
        BY <2>1 DEF S
    <2> QED BY <1>8, <2>2
<1>10. Bit(low[n], k) = (f[k] + 2 * q) % 2
    <2>1. PICK t \in Int : t = f[k] + 2 * q
        BY <1>4
    <2>2. low[k] \in 0..(Power[k] - 1) /\ low[n] = Power[k] * t + low[k]
        BY <1>4, <1>9, <2>1
    <2> QED BY <1>2, <2>1, <2>2, BitOfParts
<1>11. (f[k] + 2 * q) % 2 = f[k]
    BY <1>4
<1> QED BY <1>1, <1>10, <1>11

(* The first bits of x are its remainder.                                  *)
LEMMA RemainderGrows ==
    ASSUME NEW x \in Int, NEW i \in 0..WordBits, i < WordBits
    PROVE  x % Power[i + 1] = (x % Power[i]) + Power[i] * Bit(x, i)
<1>1. PICK P \in Nat \ {0} : P = Power[i] /\ Power[i + 1] = 2 * P
    BY PowerOf
<1>2. PICK d \in Int, r \in 0..(P - 1) : d = x \div P /\ r = x % P /\ x = P * d + r
    BY Euclid
<1>3. PICK e \in Int, b \in {0, 1} : d = 2 * e + b /\ b = d % 2
    <2>1. d = 2 * (d \div 2) + (d % 2) /\ d % 2 \in {0, 1} /\ d \div 2 \in Int
        BY <1>2
    <2> QED BY <2>1
<1>4. x = (2 * P) * e + (P * b + r)
    <2>1. P * d = (2 * P) * e + P * b
        BY <1>1, <1>3
    <2>2. PICK u \in Int, w \in Int, z \in Int : u = P * d /\ w = (2 * P) * e /\ z = P * b
        BY <1>1, <1>3
    <2> QED BY <1>2, <2>1, <2>2
<1>5. P * b + r \in 0..(2 * P - 1)
    <2>1. CASE b = 0
        <3>1. P * b = 0
            BY <2>1
        <3> QED BY <1>2, <3>1
    <2>2. CASE b = 1
        <3>1. P * b = P
            BY <2>2
        <3> QED BY <1>2, <3>1
    <2> QED BY <1>3, <2>1, <2>2
<1>6. x % (2 * P) = P * b + r
    <2>1. 2 * P \in Nat \ {0}
        BY <1>1
    <2>2. PICK n \in Nat \ {0}, a \in Nat : n = 2 * P /\ a = P * b + r /\ a \in 0..(n - 1)
        BY <1>5, <2>1
    <2>3. x = n * e + a
        BY <1>4, <2>2
    <2> QED BY <2>2, <2>3, QuotientIs
<1>7. Bit(x, i) = b
    BY <1>1, <1>2, <1>3 DEF Bit
<1>8. P * b \in Int
    BY <1>3
<1> QED BY <1>1, <1>2, <1>6, <1>7, <1>8

(* The k lowest bits alone.                                                *)
LEMMA LowBits ==
    ASSUME NEW x \in Int, NEW k \in 0..WordBits,
           NEW f \in [0..(WordBits - 1) -> {0, 1}],
           \A i \in 0..(WordBits - 1) : f[i] = IF i < k THEN Bit(x, i) ELSE 0
    PROVE  FromBits(f, WordBits) = x % Power[k]
<1>1. WordBits \in Nat /\ WordBits \in 0..WordBits /\ k \in Nat
    BY DecodeAssumption
<1>2. PICK low : Low(f, WordBits, low) /\ FromBits(f, WordBits) = low[WordBits]
    BY <1>1, FromBitsSteps
<1> DEFINE S == {i \in Nat : i <= WordBits => low[i] = x % Power[IF i < k THEN i ELSE k]}
<1>3. 0 \in S
    <2>1. low[0] = 0 /\ Power[0] = 1 /\ (IF 0 < k THEN 0 ELSE k) = 0
        BY <1>1, <1>2, PowerStep DEF Low
    <2>2. x % 1 = 0
        OBVIOUS
    <2> QED BY <2>1, <2>2
<1>4. ASSUME NEW i \in Nat, i \in S PROVE i + 1 \in S
    <2>1. ASSUME i + 1 <= WordBits
          PROVE  low[i + 1] = x % Power[IF i + 1 < k THEN i + 1 ELSE k]
        <3>1. i \in 0..(WordBits - 1) /\ i \in 0..WordBits /\ i < WordBits
              /\ i + 1 \in 1..WordBits /\ (i + 1) - 1 = i
            BY <1>1, <2>1
        <3>2. low[i + 1] = low[i] + Power[i] * f[i]
            BY <1>2, <3>1 DEF Low
        <3>3. low[i] = x % Power[IF i < k THEN i ELSE k] /\ Power[i] \in Nat \ {0}
            BY <1>4, <3>1, PowerOf
        <3>4. CASE i < k
            <4>1. f[i] = Bit(x, i) /\ low[i] = x % Power[i]
                BY <3>1, <3>3, <3>4
            <4>2. (IF i + 1 < k THEN i + 1 ELSE k) = i + 1
                BY <1>1, <3>4
            <4>3. x % Power[i + 1] = (x % Power[i]) + Power[i] * Bit(x, i)
                BY <3>1, RemainderGrows
            <4> QED BY <3>2, <4>1, <4>2, <4>3
        <3>5. CASE ~(i < k)
            <4>1. f[i] = 0 /\ low[i] = x % Power[k]
                BY <3>1, <3>3, <3>5
            <4>2. (IF i + 1 < k THEN i + 1 ELSE k) = k
                BY <1>1, <3>5
            <4>3. low[i] \in Nat
                BY <1>2, <3>1 DEF Low
            <4> QED BY <3>2, <3>3, <4>1, <4>2, <4>3
        <3> QED BY <3>4, <3>5
    <2> QED BY <2>1
<1> HIDE DEF S
<1>5. WordBits \in S
    BY <1>1, <1>3, <1>4, Induction
<1>6. Power[IF WordBits < k THEN WordBits ELSE k] = Power[k]
    BY <1>1
<1> QED BY <1>2, <1>5, <1>6 DEF S

(* The bits of a power, and of the number below it.                        *)
LEMMA BitsOfPower ==
    ASSUME NEW k \in 0..WordBits, NEW i \in 0..WordBits
    PROVE  /\ Bit(Power[k], i) = IF i = k THEN 1 ELSE 0
           /\ Bit(Power[k] - 1, i) = IF i < k THEN 1 ELSE 0
<1>1. /\ Power[k] \in Nat \ {0} /\ Power[i] \in Nat \ {0} /\ WordBits \in Nat
      /\ k \in Nat /\ i \in Nat
    BY PowerOf, DecodeAssumption
<1>2. CASE i < k
    <2>1. i + 1 \in 0..WordBits /\ k \in (i + 1)..WordBits /\ Power[i + 1] = 2 * Power[i]
        BY <1>1, <1>2, PowerOf
    <2>2. PICK r \in Nat \ {0} : Power[k] = Power[i + 1] * r
        BY <2>1, PowerMultiple
    <2>3. PICK P \in Nat \ {0} : P = Power[i] /\ Power[k] = (2 * P) * r
        BY <1>1, <2>1, <2>2
    <2>4. Power[k] = Power[i] * (2 * r) + 0 /\ 0 \in 0..(Power[i] - 1) /\ 2 * r \in Int
        BY <2>3
    <2>5. Power[k] - 1 = Power[i] * (2 * r - 1) + (Power[i] - 1)
        <3>1. P * (2 * r - 1) = (2 * P) * r - P
            OBVIOUS
        <3>2. PICK u \in Int : u = (2 * P) * r
            OBVIOUS
        <3> QED BY <2>3, <3>1, <3>2
    <2>6. Power[i] - 1 \in 0..(Power[i] - 1) /\ 2 * r - 1 \in Int
        BY <2>3
    <2>7. Bit(Power[k], i) = (2 * r) % 2 /\ Bit(Power[k] - 1, i) = (2 * r - 1) % 2
        <3>1. Bit(Power[i] * (2 * r) + 0, i) = (2 * r) % 2
            BY <2>4, BitOfParts
        <3>2. Bit(Power[i] * (2 * r - 1) + (Power[i] - 1), i) = (2 * r - 1) % 2
            BY <2>6, BitOfParts
        <3> QED BY <2>4, <2>5, <3>1, <3>2
    <2>8. (2 * r) % 2 = 0 /\ (2 * r - 1) % 2 = 1
        OBVIOUS
    <2> QED BY <1>1, <1>2, <2>7, <2>8
<1>3. ASSUME NEW x \in 0..(Power[i] - 1) PROVE Bit(x, i) = 0
    <2>1. Power[i] * 0 + x = x
        BY <1>1
    <2>2. Bit(Power[i] * 0 + x, i) = 0 % 2
        BY BitOfParts
    <2> QED BY <2>1, <2>2
<1>4. CASE i = k
    <2>1. Power[k] - 1 \in 0..(Power[i] - 1) /\ Power[k] = Power[k] * 1 + 0
          /\ 0 \in 0..(Power[k] - 1)
        BY <1>1, <1>4
    <2>2. Bit(Power[k] * 1 + 0, k) = 1 % 2
        BY <2>1, BitOfParts
    <2> QED BY <1>3, <1>4, <2>1, <2>2
<1>5. CASE i > k
    <2>1. Power[k] < Power[i]
        <3>1. k + 1 \in 0..WordBits /\ i \in (k + 1)..WordBits /\ Power[k + 1] = 2 * Power[k]
            BY <1>1, <1>5, PowerOf
        <3>2. Power[k + 1] <= Power[i]
            BY <3>1, PowerGrows
        <3> QED BY <1>1, <3>1, <3>2
    <2>2. Power[k] \in 0..(Power[i] - 1) /\ Power[k] - 1 \in 0..(Power[i] - 1)
        BY <1>1, <2>1
    <2> QED BY <1>1, <1>3, <1>5, <2>2
<1> QED BY <1>1, <1>2, <1>4, <1>5

AndBits(x, y) == [i \in 0..(WordBits - 1) |-> Bit(x, i) * Bit(y, i)]

LEMMA AndOfBits ==
    ASSUME NEW x \in Int, NEW y \in Int
    PROVE  /\ AndBits(x, y) \in [0..(WordBits - 1) -> {0, 1}]
           /\ BitAnd(x, y) = FromBits(AndBits(x, y), WordBits)
           /\ \A i \in 0..(WordBits - 1) : i \in 0..WordBits
           /\ WordBits \in 0..WordBits
<1>1. WordBits \in Nat /\ WordBits \in 0..WordBits /\ \A i \in 0..(WordBits - 1) : i \in 0..WordBits
    BY DecodeAssumption
<1>2. ASSUME NEW i \in 0..(WordBits - 1) PROVE Bit(x, i) * Bit(y, i) \in {0, 1}
    <2>1. Bit(x, i) \in {0, 1} /\ Bit(y, i) \in {0, 1}
        BY <1>1, BitIsBit
    <2> QED BY <2>1
<1> QED BY <1>1, <1>2 DEF AndBits, BitAnd

(* With ones below bit k.                                                  *)
LEMMA AndLowMask ==
    ASSUME NEW x \in Int, NEW k \in 0..WordBits
    PROVE  BitAnd(x, Power[k] - 1) = x % Power[k]
<1>1. Power[k] - 1 \in Int
    BY PowerOf
<1>2. PICK y \in Int : y = Power[k] - 1
    BY <1>1
<1>3. ASSUME NEW i \in 0..(WordBits - 1)
      PROVE  AndBits(x, y)[i] = IF i < k THEN Bit(x, i) ELSE 0
    <2>1. i \in 0..WordBits
        BY AndOfBits
    <2>2. Bit(y, i) = (IF i < k THEN 1 ELSE 0) /\ Bit(x, i) \in {0, 1}
        BY <1>2, <2>1, BitsOfPower, BitIsBit
    <2>3. AndBits(x, y)[i] = Bit(x, i) * Bit(y, i)
        BY DEF AndBits
    <2> QED BY <2>2, <2>3
<1>4. PICK f : f = AndBits(x, y)
    OBVIOUS
<1>5. f \in [0..(WordBits - 1) -> {0, 1}] /\ BitAnd(x, y) = FromBits(f, WordBits)
    BY <1>4, AndOfBits
<1>6. \A i \in 0..(WordBits - 1) : f[i] = IF i < k THEN Bit(x, i) ELSE 0
    BY <1>3, <1>4
<1>7. FromBits(f, WordBits) = x % Power[k]
    BY <1>5, <1>6, LowBits
<1> QED BY <1>2, <1>5, <1>7

(* With bit k alone.                                                       *)
LEMMA AndOneBit ==
    ASSUME NEW x \in Int, NEW k \in 0..(WordBits - 1)
    PROVE  BitAnd(x, Power[k]) > 0 <=> Bit(x, k) = 1
<1>1. k \in 0..WordBits /\ WordBits \in 0..WordBits
    BY AndOfBits
<1>2. PICK y \in Int : y = Power[k]
    BY <1>1, PowerOf
<1>3. BitAnd(x, y) \in Nat
    BY BitAndIsNumber
<1>4. ASSUME NEW i \in 0..(WordBits - 1)
      PROVE  AndBits(x, y)[i] = IF i = k THEN Bit(x, k) ELSE 0
    <2>1. i \in 0..WordBits
        BY AndOfBits
    <2>2. Bit(y, i) = (IF i = k THEN 1 ELSE 0) /\ Bit(x, i) \in {0, 1}
        BY <1>1, <1>2, <2>1, BitsOfPower, BitIsBit
    <2>3. AndBits(x, y)[i] = Bit(x, i) * Bit(y, i)
        BY DEF AndBits
    <2> QED BY <2>2, <2>3
<1> DEFINE none == [i \in 0..(WordBits - 1) |-> 0]
<1>5. none \in [0..(WordBits - 1) -> {0, 1}]
    OBVIOUS
<1>6. FromBits(none, WordBits) = 0
    <2>1. 0 \in 0..WordBits /\ Power[0] = 1 /\ 0 % 1 = 0
        BY PowerStep, DecodeAssumption
    <2>2. PICK z \in Int, j \in 0..WordBits : z = 0 /\ j = 0
        BY <2>1
    <2>3. \A i \in 0..(WordBits - 1) : none[i] = IF i < j THEN Bit(z, i) ELSE 0
        BY <2>2
    <2> HIDE DEF none
    <2>4. FromBits(none, WordBits) = z % Power[j]
        BY <1>5, <2>3, LowBits
    <2> QED BY <2>1, <2>2, <2>4
<1>7. CASE Bit(x, k) = 1
    <2>1. AndBits(x, y)[k] = 1 /\ none[k] = 0
        BY <1>4, <1>7
    <2> HIDE DEF none
    <2>2. FromBits(AndBits(x, y), WordBits) # FromBits(none, WordBits)
        <3>1. PICK n \in 0..WordBits : n = WordBits
            BY <1>1
        <3>5. PICK f : f = AndBits(x, y)
            OBVIOUS
        <3>2. f \in [0..(n - 1) -> {0, 1}] /\ none \in [0..(n - 1) -> {0, 1}] /\ k \in 0..(n - 1)
              /\ f[k] # none[k]
            BY <1>5, <2>1, <3>1, <3>5, AndOfBits
        <3>3. FromBits(f, n) # FromBits(none, n)
            BY <3>2, FromBitsDiffer
        <3> QED BY <3>1, <3>3, <3>5
    <2> QED BY <1>2, <1>3, <1>6, <1>7, <2>2, AndOfBits
<1>8. CASE Bit(x, k) # 1
    <2>1. Bit(x, k) = 0
        BY <1>1, <1>8, BitIsBit
    <2>2. AndBits(x, y) = none
        <3>1. \A i \in 0..(WordBits - 1) : AndBits(x, y)[i] = 0
            BY <1>4, <2>1
        <3>2. AndBits(x, y) = [i \in 0..(WordBits - 1) |-> AndBits(x, y)[i]]
            BY DEF AndBits
        <3> QED BY <3>1, <3>2
    <2> QED BY <1>2, <1>6, <1>8, <2>2, AndOfBits
<1> QED BY <1>7, <1>8

(* The mask 255 takes nothing from a byte.                                 *)
LEMMA WholeByte ==
    ASSUME NEW b \in Bytes
    PROVE  BitAnd(b, 255) = b
<1>1. b \in Int /\ 8 \in 0..WordBits /\ Power[8] = 256 /\ 256 - 1 = 255
    BY WordsHoldBytes DEF Bytes
<1>2. BitAnd(b, Power[8] - 1) = b % Power[8]
    BY <1>1, AndLowMask
<1>3. b % 256 = b
    BY DEF Bytes
<1> QED BY <1>1, <1>2, <1>3

(* The bits that are set.                                                  *)
LEMMA BitsThatAreSet ==
    ASSUME NEW on
    PROVE  /\ ByteOf(on) \in Bytes
           /\ \A k \in 0..7 : Bit(ByteOf(on), k) = IF k \in on THEN 1 ELSE 0
           /\ \A k \in 0..7 : k \in 0..(WordBits - 1) /\ (BitAnd(ByteOf(on), Power[k]) > 0 <=> k \in on)
<1> DEFINE f == [i \in 0..7 |-> IF i \in on THEN 1 ELSE 0]
<1>1. 8 \in 0..WordBits /\ Power[8] = 256 /\ 8 - 1 = 7 /\ WordBits \in Nat /\ WordBits >= 8
    BY WordsHoldBytes, DecodeAssumption
<1>2. PICK n \in 0..WordBits :
         n = 8 /\ n - 1 = 7 /\ f \in [0..(n - 1) -> {0, 1}] /\ ByteOf(on) = FromBits(f, n)
    BY <1>1 DEF ByteOf
<1>3. \A k \in 0..7 : f[k] = IF k \in on THEN 1 ELSE 0
    OBVIOUS
<1> HIDE DEF f
<1>4. ByteOf(on) \in Bytes
    <2>1. FromBits(f, n) \in Nat /\ FromBits(f, n) < Power[n]
        BY <1>2, FromBitsIsNumber
    <2> QED BY <1>1, <1>2, <2>1 DEF Bytes
<1>5. \A k \in 0..7 : Bit(ByteOf(on), k) = IF k \in on THEN 1 ELSE 0
    <2> SUFFICES ASSUME NEW k \in 0..7 PROVE Bit(ByteOf(on), k) = IF k \in on THEN 1 ELSE 0
        OBVIOUS
    <2>1. k \in 0..(n - 1)
        BY <1>2
    <2>2. Bit(FromBits(f, n), k) = f[k]
        BY <1>2, <2>1, BitOfBits
    <2> QED BY <1>2, <1>3, <2>2
<1>6. ASSUME NEW k \in 0..7
      PROVE  k \in 0..(WordBits - 1) /\ (BitAnd(ByteOf(on), Power[k]) > 0 <=> k \in on)
    <2>1. k \in 0..(WordBits - 1) /\ ByteOf(on) \in Int
        BY <1>1, <1>4 DEF Bytes
    <2> QED BY <1>5, <2>1, AndOneBit
<1> QED BY <1>4, <1>5, <1>6

-----------------------------------------------------------------------------
(* Decimal digits.                                                         *)

DecimalSoFar(text, low) ==
    /\ low \in [0..Len(text) -> Nat] /\ low[0] = 0
    /\ \A i \in 1..Len(text) : low[i] = 10 * low[i - 1] + text[i]

LEMMA DecimalSteps ==
    ASSUME NEW text \in Seq(0..9)
    PROVE  \E low : /\ DecimalSoFar(text, low)
                    /\ Decimal(text) = IF low[Len(text)] < Words THEN low[Len(text)] ELSE 0
<1>0. PICK n \in Nat : n = Len(text)
    OBVIOUS
<1> DEFINE step == [i \in Nat |-> [s \in Nat |-> IF i < n THEN 10 * s + text[i + 1] ELSE s]]
<1>1. \A i \in 1..n : text[i] \in 0..9
    BY <1>0
<1>2. step \in [Nat -> [Nat -> Nat]] /\ 0 \in Nat
    <2>1. \A i \in Nat : i < n => text[i + 1] \in Nat
        BY <1>1
    <2> QED BY <2>1
<1>3. PICK g \in [0..n -> Nat] :
         g[0] = 0 /\ \A i \in 1..n : g[i] = step[i - 1][g[i - 1]]
    <2> HIDE DEF step
    <2> QED BY <1>2, RecursionExists, Zenon
<1>4. \A i \in 0..n : g[i] = IF i = 0 THEN 0 ELSE 10 * g[i - 1] + text[i]
    <2>1. ASSUME NEW i \in 1..n PROVE g[i] = 10 * g[i - 1] + text[i]
        <3>1. i - 1 \in Nat /\ i - 1 < n /\ g[i - 1] \in Nat /\ (i - 1) + 1 = i
            OBVIOUS
        <3> QED BY <1>3, <3>1
    <2> QED BY <1>3, <2>1
<1>5. g = [i \in 0..n |-> IF i = 0 THEN 0 ELSE 10 * g[i - 1] + text[i]]
    <2>1. g = [i \in 0..n |-> g[i]]
        OBVIOUS
    <2> QED BY <1>4, <2>1
<1> DEFINE low == CHOOSE h : h = [i \in 0..n |-> IF i = 0 THEN 0 ELSE 10 * h[i - 1] + text[i]]
<1>6. low = [i \in 0..n |-> IF i = 0 THEN 0 ELSE 10 * low[i - 1] + text[i]]
    BY <1>5
<1>7. Decimal(text) = IF low[n] < Words THEN low[n] ELSE 0
    <2>1. DOMAIN text = 1..n /\ \A i \in 1..n : text[i] < 10
        BY <1>0, <1>1
    <2>2. Decimal(text) = IF (\A i \in DOMAIN text : text[i] < 10) /\ low[n] < Words
                          THEN low[n] ELSE 0
        BY <1>0 DEF Decimal
    <2> HIDE DEF low
    <2> QED BY <2>1, <2>2
<1> HIDE DEF low
<1> DEFINE S == {i \in Nat : i <= n => low[i] \in Nat}
<1>8. 0 \in S
    BY <1>6
<1>9. ASSUME NEW i \in Nat, i \in S PROVE i + 1 \in S
    <2>1. ASSUME i + 1 <= n PROVE low[i + 1] \in Nat
        <3>1. low[i] \in Nat /\ i + 1 \in 0..n /\ i + 1 \in 1..n /\ (i + 1) - 1 = i /\ i + 1 # 0
            BY <1>9, <2>1
        <3>2. low[i + 1] = 10 * low[(i + 1) - 1] + text[i + 1]
            BY <1>6, <3>1, Zenon
        <3>3. text[i + 1] \in Nat
            <4>1. text[i + 1] \in 0..9
                BY <1>1, <3>1, Zenon
            <4> QED BY <4>1
        <3> QED BY <3>1, <3>2, <3>3
    <2> QED BY <2>1
<1> HIDE DEF S
<1>10. Nat \subseteq S
    BY <1>8, <1>9, Induction
<1>11. low \in [0..n -> Nat]
    <2>1. \A i \in 0..n : low[i] \in Nat
        BY <1>10 DEF S
    <2> QED BY <1>6, <2>1
<1>12. low[0] = 0 /\ \A i \in 1..n : low[i] = 10 * low[i - 1] + text[i]
    BY <1>6
<1> QED BY <1>0, <1>7, <1>11, <1>12 DEF DecimalSoFar

LEMMA QuotientSteps ==
    ASSUME NEW v \in Nat, NEW count \in Nat
    PROVE  /\ Quotients(v, count) \in [0..count -> Nat] /\ Quotients(v, count)[0] = v
           /\ \A i \in 1..count :
                 Quotients(v, count)[i] = Quotients(v, count)[i - 1] \div 10
<1> DEFINE step == [i \in Nat |-> [s \in Nat |-> s \div 10]]
<1>1. step \in [Nat -> [Nat -> Nat]]
    OBVIOUS
<1>2. PICK g \in [0..count -> Nat] :
         g[0] = v /\ \A i \in 1..count : g[i] = step[i - 1][g[i - 1]]
    <2> HIDE DEF step
    <2> QED BY <1>1, RecursionExists, Zenon
<1>3. g = [i \in 0..count |-> IF i = 0 THEN v ELSE g[i - 1] \div 10]
    <2>1. g = [i \in 0..count |-> g[i]]
        OBVIOUS
    <2>2. ASSUME NEW i \in 0..count
          PROVE  g[i] = IF i = 0 THEN v ELSE g[i - 1] \div 10
        <3>1. i # 0 => i \in 1..count /\ i - 1 \in Nat /\ g[i - 1] \in Nat
            OBVIOUS
        <3> QED BY <1>2, <3>1
    <2> QED BY <2>1, <2>2
<1> DEFINE left == CHOOSE h : h = [i \in 0..count |-> IF i = 0 THEN v ELSE h[i - 1] \div 10]
<1>4. left = [i \in 0..count |-> IF i = 0 THEN v ELSE left[i - 1] \div 10]
    BY <1>3
<1>5. Quotients(v, count) = left
    BY DEF Quotients
<1> HIDE DEF left
<1> DEFINE S == {i \in Nat : i <= count => left[i] \in Nat}
<1>6. 0 \in S
    BY <1>4
<1>7. ASSUME NEW i \in Nat, i \in S PROVE i + 1 \in S
    <2>1. ASSUME i + 1 <= count PROVE left[i + 1] \in Nat
        <3>1. left[i] \in Nat /\ i + 1 \in 0..count /\ (i + 1) - 1 = i /\ i + 1 # 0
            BY <1>7, <2>1
        <3>2. left[i + 1] = left[i] \div 10
            BY <1>4, <3>1
        <3> QED BY <3>1, <3>2
    <2> QED BY <2>1
<1> HIDE DEF S
<1>8. Nat \subseteq S
    BY <1>6, <1>7, Induction
<1>9. \A i \in 0..count : left[i] \in Nat
    BY <1>8 DEF S
<1>10. left[0] = v /\ \A i \in 1..count : left[i] = left[i - 1] \div 10
    BY <1>4
<1>11. left \in [0..count -> Nat]
    BY <1>4, <1>9
<1> QED BY <1>5, <1>10, <1>11

(* A number that has no more digits is the value of its numeral.           *)
LEMMA DecimalOfNumeral ==
    ASSUME NEW v \in Nat, NEW count \in Nat
    PROVE  /\ Numeral(v, count) \in Seq(0..9) /\ Len(Numeral(v, count)) = count
           /\ Quotients(v, count)[count] = 0 /\ v < Words => Decimal(Numeral(v, count)) = v
<1>1. PICK left : left = Quotients(v, count)
    OBVIOUS
<1>2. /\ left \in [0..count -> Nat] /\ left[0] = v
      /\ \A i \in 1..count : left[i] = left[i - 1] \div 10
    BY <1>1, QuotientSteps
<1>3. PICK text : text = Numeral(v, count)
    OBVIOUS
<1>4. text = [i \in 1..count |-> left[count - i] % 10]
    BY <1>1, <1>3 DEF Numeral
<1>5. \A i \in 1..count : count - i \in 0..count /\ left[count - i] \in Nat
    BY <1>2
<1>6. text \in Seq(0..9) /\ Len(text) = count
    <2>1. \A i \in 1..count : left[count - i] % 10 \in 0..9
        BY <1>5
    <2> QED BY <1>4, <2>1
<1>7. ASSUME left[count] = 0, v < Words PROVE Decimal(text) = v
    <2>1. PICK low : DecimalSoFar(text, low)
                     /\ Decimal(text) = IF low[Len(text)] < Words THEN low[Len(text)] ELSE 0
        BY <1>6, DecimalSteps
    <2>2. /\ low \in [0..count -> Nat] /\ low[0] = 0
          /\ \A i \in 1..count : low[i] = 10 * low[i - 1] + text[i]
        BY <1>6, <2>1 DEF DecimalSoFar
    <2> DEFINE S == {i \in Nat : i <= count => low[i] = left[count - i]}
    <2>3. 0 \in S
        BY <1>7, <2>2
    <2>4. ASSUME NEW i \in Nat, i \in S PROVE i + 1 \in S
        <3>1. ASSUME i + 1 <= count PROVE low[i + 1] = left[count - (i + 1)]
            <4>1. i + 1 \in 1..count /\ (i + 1) - 1 = i /\ count - i \in 1..count
                  /\ (count - i) - 1 = count - (i + 1) /\ count - (i + 1) \in 0..count
                BY <3>1
            <4>2. PICK d \in Nat : d = left[count - (i + 1)]
                BY <1>2, <4>1
            <4>3. low[i] = d \div 10
                <5>1. left[count - i] = left[(count - i) - 1] \div 10
                    BY <1>2, <4>1
                <5> QED BY <2>4, <4>1, <4>2, <5>1
            <4>4. text[i + 1] = d % 10
                BY <1>4, <4>1, <4>2
            <4>5. low[i + 1] = 10 * (d \div 10) + (d % 10)
                BY <2>2, <4>1, <4>3, <4>4
            <4> QED BY <4>2, <4>5
        <3> QED BY <3>1
    <2> HIDE DEF S
    <2>5. count \in S
        BY <2>3, <2>4, Induction
    <2>6. low[count] = left[0]
        BY <2>5 DEF S
    <2> QED BY <1>2, <1>6, <1>7, <2>1, <2>6
<1> QED BY <1>1, <1>3, <1>6, <1>7

(* Two digits in one byte.                                                 *)
LEMMA DecimalOfByte ==
    ASSUME NEW n \in 0..99
    PROVE  /\ 16 * (n \div 10) + (n % 10) \in Bytes
           /\ Decimal(Hex(16 * (n \div 10) + (n % 10))) = n
<1>1. PICK b \in Bytes : b = 16 * (n \div 10) + (n % 10)
    BY DEF Bytes
<1>2. b \div 16 = n \div 10 /\ b % 16 = n % 10
    BY <1>1
<1>3. PICK text \in Seq(0..9) : text = <<n \div 10, n % 10>> /\ Len(text) = 2
    <2>1. PICK d \in 0..9, u \in 0..9 : d = n \div 10 /\ u = n % 10
        OBVIOUS
    <2>2. <<d, u>> \in Seq(0..9) /\ Len(<<d, u>>) = 2
        OBVIOUS
    <2> QED BY <2>1, <2>2
<1>4. PICK low : DecimalSoFar(text, low)
                 /\ Decimal(text) = IF low[Len(text)] < Words THEN low[Len(text)] ELSE 0
    BY DecimalSteps
<1>5. low[0] = 0 /\ low[1] = 10 * low[0] + text[1] /\ low[2] = 10 * low[1] + text[2]
    <2>1. 1 \in 1..Len(text) /\ 2 \in 1..Len(text) /\ 1 - 1 = 0 /\ 2 - 1 = 1
        BY <1>3
    <2> QED BY <1>4, <2>1 DEF DecimalSoFar
<1>6. low[2] = n
    BY <1>3, <1>5
<1>7. n < Words
    BY WordsHoldBytes, WordsPositive
<1>8. Hex(b) = text
    BY <1>2, <1>3 DEF Hex
<1> QED BY <1>1, <1>3, <1>4, <1>6, <1>7, <1>8

-----------------------------------------------------------------------------
(* Hexadecimal text.  What FlattenSeq has put together after each piece.   *)

Flattened(seqs) ==
    LET flatten[i \in 1..Len(seqs)] ==
            IF i = 1 THEN seqs[i] ELSE flatten[i-1] \o seqs[i]
    IN  flatten

LEMMA FlattenExists ==
    ASSUME NEW seqs, NEW n \in Nat
    PROVE  \E f : f = [i \in 1..n |-> IF i = 1 THEN seqs[i] ELSE f[i-1] \o seqs[i]]
<1> DEFINE Is(f, k) == f = [i \in 1..k |-> IF i = 1 THEN seqs[i] ELSE f[i-1] \o seqs[i]]
           S == {k \in Nat : \E f : Is(f, k)}
<1>1. 0 \in S
    <2>1. Is([i \in {} |-> <<>>], 0)
        OBVIOUS
    <2> QED BY <2>1
<1>2. ASSUME NEW k \in Nat, k \in S PROVE k + 1 \in S
    <2>1. PICK f : Is(f, k)
        BY <1>2
    <2> DEFINE h == [i \in 1..(k + 1) |-> IF i <= k THEN f[i]
                                          ELSE IF i = 1 THEN seqs[i] ELSE f[k] \o seqs[i]]
    <2>2. \A i \in 1..k : f[i] = IF i = 1 THEN seqs[i] ELSE f[i-1] \o seqs[i]
        BY <2>1
    <2>3. ASSUME NEW i \in 1..(k + 1)
          PROVE  h[i] = IF i = 1 THEN seqs[i] ELSE h[i-1] \o seqs[i]
        <3>1. CASE i <= k
            <4>1. h[i] = f[i] /\ (i # 1 => h[i-1] = f[i-1]) /\ i \in 1..k
                BY <3>1
            <4> HIDE DEF h
            <4> QED BY <2>2, <4>1
        <3>2. CASE i = k + 1
            <4>1. /\ h[i] = IF i = 1 THEN seqs[i] ELSE f[k] \o seqs[i]
                  /\ i # 1 => h[i-1] = f[k]
                BY <3>2
            <4> HIDE DEF h
            <4> QED BY <4>1
        <3> QED BY <3>1, <3>2
    <2>4. h = [i \in 1..(k + 1) |-> h[i]]
        OBVIOUS
    <2> HIDE DEF h
    <2>5. Is(h, k + 1)
        BY <2>3, <2>4
    <2> HIDE DEF Is
    <2> QED BY <2>5
<1> HIDE DEF S
<1>3. n \in S
    BY <1>1, <1>2, Induction
<1> QED BY <1>3 DEF S

LEMMA Joined ==
    ASSUME NEW S, NEW s \in Seq(S), NEW t \in Seq(S)
    PROVE  /\ s \o t \in Seq(S) /\ Len(s \o t) = Len(s) + Len(t)
           /\ \A k \in 1..Len(s) : (s \o t)[k] = s[k]
           /\ \A k \in 1..Len(t) : (s \o t)[Len(s) + k] = t[k]
    OBVIOUS

LEMMA Element ==
    ASSUME NEW S, NEW s \in Seq(S), NEW i \in 1..Len(s)
    PROVE  s[i] \in S
    OBVIOUS

LEMMA Sequence ==
    ASSUME NEW S, NEW n \in Nat, NEW f \in [1..n -> S]
    PROVE  f \in Seq(S) /\ Len(f) = n
    OBVIOUS

LEMMA OneMore ==
    ASSUME NEW S, NEW s \in Seq(S), NEW x \in S
    PROVE  /\ s \o <<x>> \in Seq(S) /\ Len(s \o <<x>>) = Len(s) + 1
           /\ (s \o <<x>>)[Len(s) + 1] = x
           /\ \A k \in 1..Len(s) : (s \o <<x>>)[k] = s[k]
<1>1. PICK t \in Seq(S) : t = <<x>> /\ Len(t) = 1 /\ t[1] = x
    <2>1. <<x>> \in Seq(S)
        OBVIOUS
    <2>2. Len(<<x>>) = 1 /\ <<x>>[1] = x
        OBVIOUS
    <2> QED BY <2>1, <2>2, Zenon
<1>2. /\ s \o t \in Seq(S) /\ Len(s \o t) = Len(s) + Len(t)
      /\ \A k \in 1..Len(s) : (s \o t)[k] = s[k]
      /\ \A k \in 1..Len(t) : (s \o t)[Len(s) + k] = t[k]
    BY Joined
<1>3. 1 \in 1..Len(t)
    BY <1>1
<1> QED BY <1>1, <1>2, <1>3

LEMMA WithoutFirst ==
    ASSUME NEW S, NEW s \in Seq(S), s # <<>>
    PROVE  /\ Tail(s) \in Seq(S) /\ Len(Tail(s)) = Len(s) - 1
           /\ \A k \in 1..(Len(s) - 1) : Tail(s)[k] = s[k + 1]
    BY HeadTailProperties

(* Pieces of a text, one behind the other, are put together as the text:   *)
(* off[i] is where piece i ends.                                           *)
LEMMA PiecesJoined ==
    ASSUME NEW X, NEW seqs \in Seq(Seq(X)), NEW all \in Seq(X), seqs # <<>>,
           NEW off \in [0..Len(seqs) -> Nat], off[0] = 0, off[Len(seqs)] = Len(all),
           \A i \in 1..Len(seqs) :
              /\ off[i] = off[i - 1] + Len(seqs[i])
              /\ \A k \in 1..Len(seqs[i]) : seqs[i][k] = all[off[i - 1] + k]
    PROVE  FlattenSeq(seqs) = all
<1>1. PICK n \in Nat \ {0} : n = Len(seqs)
    BY EmptySeq
<1>2. PICK f : f = Flattened(seqs)
    OBVIOUS
<1>3. f = [i \in 1..n |-> IF i = 1 THEN seqs[i] ELSE f[i-1] \o seqs[i]]
    BY <1>1, <1>2, FlattenExists DEF Flattened
<1>4. FlattenSeq(seqs) = f[n]
    BY <1>1, <1>2 DEF FlattenSeq, Flattened
<1>5. \A i \in 1..n : seqs[i] \in Seq(X)
    BY <1>1
<1> DEFINE Is(i) == /\ f[i] \in Seq(X) /\ Len(f[i]) = off[i]
                    /\ \A k \in 1..off[i] : f[i][k] = all[k]
           S == {i \in Nat : i + 1 <= n => Is(i + 1)}
<1>6. 0 \in S
    <2>1. f[1] = seqs[1] /\ 1 \in 1..n /\ off[1] \in Nat
        BY <1>1, <1>3
    <2>2. off[1] = Len(seqs[1]) /\ \A k \in 1..off[1] : seqs[1][k] = all[k]
        <3>1. /\ off[1] = off[1 - 1] + Len(seqs[1])
              /\ \A k \in 1..Len(seqs[1]) : seqs[1][k] = all[off[1 - 1] + k]
            BY <1>1, <2>1
        <3>2. off[1 - 1] = 0 /\ \A k \in 1..Len(seqs[1]) : 0 + k = k
            OBVIOUS
        <3>3. Len(seqs[1]) \in Nat
            BY <1>5, <2>1
        <3> QED BY <3>1, <3>2, <3>3
    <2>3. Is(0 + 1)
        BY <1>5, <2>1, <2>2
    <2> HIDE DEF Is
    <2> QED BY <2>3
<1>7. ASSUME NEW i \in Nat, i \in S PROVE i + 1 \in S
    <2>1. ASSUME (i + 1) + 1 <= n PROVE Is((i + 1) + 1)
        <3>1. PICK j \in 2..n : j = (i + 1) + 1 /\ j - 1 = i + 1 /\ j \in 1..n /\ j # 1
            BY <2>1
        <3>2. Is(j - 1)
            <4> HIDE DEF Is
            <4> QED BY <1>7, <3>1
        <3>3. f[j] = f[j - 1] \o seqs[j]
            BY <1>3, <3>1
        <3>4. PICK s \in Seq(X), t \in Seq(X), a \in Nat, b \in Nat :
                 s = f[j - 1] /\ t = seqs[j] /\ a = off[j - 1] /\ b = off[j]
            BY <1>1, <1>5, <3>1, <3>2
        <3>5. Len(s) = a /\ b = a + Len(t) /\ (\A k \in 1..a : s[k] = all[k])
              /\ \A k \in 1..Len(t) : t[k] = all[a + k]
            BY <1>1, <3>1, <3>2, <3>4
        <3>6. /\ s \o t \in Seq(X) /\ Len(s \o t) = Len(s) + Len(t)
              /\ \A k \in 1..Len(s) : (s \o t)[k] = s[k]
              /\ \A k \in 1..Len(t) : (s \o t)[Len(s) + k] = t[k]
            BY Joined
        <3>7. ASSUME NEW k \in 1..b PROVE (s \o t)[k] = all[k]
            <4>1. CASE k <= a
                BY <3>5, <3>6, <4>1
            <4>2. CASE k > a
                <5>1. PICK m \in Nat : m = k - a
                    BY <4>2
                <5>2. m \in 1..Len(t) /\ a + m = k /\ Len(s) = a
                    BY <3>5, <4>2, <5>1
                <5>3. (s \o t)[Len(s) + m] = t[m] /\ t[m] = all[a + m]
                    BY <3>5, <3>6, <5>2
                <5> QED BY <5>2, <5>3
            <4>3. k <= a \/ k > a
                OBVIOUS
            <4> QED BY <4>1, <4>2, <4>3, Zenon
        <3>8. Is(j)
            BY <3>3, <3>4, <3>5, <3>6, <3>7
        <3> HIDE DEF Is
        <3> QED BY <3>1, <3>8
    <2> HIDE DEF Is
    <2> QED BY <2>1
<1> HIDE DEF S
<1>8. n - 1 \in S /\ (n - 1) + 1 = n
    BY <1>6, <1>7, Induction
<1> HIDE DEF Is
<1>9. Is(n)
    BY <1>8 DEF S
<1>10. PICK s \in Seq(X) : s = f[n] /\ Len(s) = Len(all) /\ \A k \in 1..Len(all) : s[k] = all[k]
    BY <1>1, <1>9 DEF Is
<1> QED BY <1>4, <1>10, SeqEqual

HexPiece(bytes, format, i) ==
    CASE i = 1 /\ format \in {"int", "string"} -> <<bytes[i] % 16>>
      [] i = Len(bytes) /\ format \in {"chk_int", "chk_string"} -> <<Character(bytes[i])>>
      [] OTHER -> Hex(bytes[i])

PieceOf(p, all, a, b) ==
    /\ p \in Seq(Nat) /\ b = a + Len(p)
    /\ \A k \in 1..Len(p) : p[k] = all[a + k]

LEMMA PieceOfOne ==
    ASSUME NEW all, NEW a \in Nat, NEW x \in Nat, all[a + 1] = x
    PROVE  PieceOf(<<x>>, all, a, a + 1)
<1>1. <<x>> \in Seq(Nat) /\ Len(<<x>>) = 1 /\ <<x>>[1] = x /\ \A k \in 1..1 : k = 1
    OBVIOUS
<1> QED BY <1>1 DEF PieceOf

LEMMA PieceOfTwo ==
    ASSUME NEW all, NEW a \in Nat, NEW x \in Nat, NEW y \in Nat, all[a + 1] = x, all[a + 2] = y
    PROVE  PieceOf(<<x, y>>, all, a, a + 2)
<1>1. <<x, y>> \in Seq(Nat) /\ Len(<<x, y>>) = 2 /\ <<x, y>>[1] = x /\ <<x, y>>[2] = y
      /\ \A k \in 1..2 : k = 1 \/ k = 2
    OBVIOUS
<1> QED BY <1>1 DEF PieceOf

LEMMA HexTextJoined ==
    ASSUME NEW bytes \in Seq(Bytes), bytes # <<>>, NEW format, NEW all \in Seq(Nat),
           NEW off \in [0..Len(bytes) -> Nat], off[0] = 0, off[Len(bytes)] = Len(all),
           \A i \in 1..Len(bytes) : PieceOf(HexPiece(bytes, format, i), all, off[i - 1], off[i])
    PROVE  HexText(bytes, format) = all
<1>1. PICK n \in Nat : n = Len(bytes) /\ n # 0
    BY EmptySeq
<1> DEFINE seqs == [i \in 1..n |-> HexPiece(bytes, format, i)]
<1>2. HexText(bytes, format) = FlattenSeq(seqs)
    BY <1>1 DEF HexText, HexPiece
<1>3. DOMAIN seqs = 1..n /\ \A i \in 1..n : seqs[i] = HexPiece(bytes, format, i)
    OBVIOUS
<1>4. \A i \in 1..n : /\ seqs[i] \in Seq(Nat) /\ off[i] = off[i - 1] + Len(seqs[i])
                      /\ \A k \in 1..Len(seqs[i]) : seqs[i][k] = all[off[i - 1] + k]
    BY <1>1, <1>3 DEF PieceOf
<1>5. seqs \in Seq(Seq(Nat)) /\ Len(seqs) = n /\ seqs # <<>>
    <2>1. seqs \in [1..n -> Seq(Nat)]
        BY <1>4
    <2> HIDE DEF seqs
    <2>2. seqs \in Seq(Seq(Nat)) /\ Len(seqs) = n
        BY <2>1, Sequence
    <2> QED BY <1>1, <2>2
<1> HIDE DEF seqs
<1>6. FlattenSeq(seqs) = all
    <2>1. PICK ss \in Seq(Seq(Nat)) : ss = seqs /\ Len(ss) = n /\ ss # <<>>
        BY <1>5
    <2>2. /\ off \in [0..Len(ss) -> Nat] /\ off[0] = 0 /\ off[Len(ss)] = Len(all)
          /\ \A i \in 1..Len(ss) : /\ off[i] = off[i - 1] + Len(ss[i])
                                   /\ \A k \in 1..Len(ss[i]) : ss[i][k] = all[off[i - 1] + k]
        BY <1>1, <1>4, <2>1
    <2>3. FlattenSeq(ss) = all
        BY <2>1, <2>2, PiecesJoined
    <2> QED BY <2>1, <2>3
<1> QED BY <1>2, <1>6

(* Digits in pairs make bytes.                                             *)
LEMMA PairsMade ==
    ASSUME NEW ds \in Seq(0..15), Len(ds) % 2 = 0
    PROVE  /\ Pairs(ds) \in Seq(Bytes) /\ 2 * Len(Pairs(ds)) = Len(ds)
           /\ \A k \in 1..Len(Pairs(ds)) :
                 /\ 2 * k - 1 \in 1..Len(ds) /\ 2 * k \in 1..Len(ds)
                 /\ Pairs(ds)[k] \div 16 = ds[2 * k - 1] /\ Pairs(ds)[k] % 16 = ds[2 * k]
<1>1. PICK n \in Nat : n = Len(ds) \div 2 /\ Len(ds) = 2 * n
    OBVIOUS
<1>2. PICK s : s = Pairs(ds)
    OBVIOUS
<1>3. s = [k \in 1..n |-> 16 * ds[2 * k - 1] + ds[2 * k]]
    BY <1>1, <1>2 DEF Pairs
<1>4. ASSUME NEW k \in 1..n
      PROVE  /\ 2 * k - 1 \in 1..Len(ds) /\ 2 * k \in 1..Len(ds) /\ s[k] \in Bytes
             /\ s[k] \div 16 = ds[2 * k - 1] /\ s[k] % 16 = ds[2 * k]
    <2>1. 2 * k - 1 \in 1..Len(ds) /\ 2 * k \in 1..Len(ds)
        BY <1>1
    <2>2. PICK d \in 0..15, u \in 0..15 : d = ds[2 * k - 1] /\ u = ds[2 * k]
        BY <2>1, Element
    <2>3. s[k] = 16 * d + u
        BY <1>3, <2>2
    <2>4. 16 * d + u \in 0..255 /\ (16 * d + u) \div 16 = d /\ (16 * d + u) % 16 = u
        OBVIOUS
    <2> QED BY <2>1, <2>2, <2>3, <2>4 DEF Bytes
<1>5. s \in Seq(Bytes) /\ Len(s) = n
    BY <1>3, <1>4
<1> QED BY <1>1, <1>2, <1>4, <1>5

(* The text of digits sent in pairs: all of them, all but the first, or    *)
(* with a character behind them.                                           *)
LEMMA HexTextOfPairs ==
    ASSUME NEW ds \in Seq(0..15), ds # <<>>, Len(ds) % 2 = 0
    PROVE  /\ \A format \in {"full_int", "full_string"} : HexText(Pairs(ds), format) = ds
           /\ \A format \in {"int", "string"} : HexText(Pairs(ds), format) = Tail(ds)
           /\ \A c \in Bytes : HexText(Pairs(ds) \o <<c>>, "chk_string") = ds \o <<Character(c)>>
<1>1. PICK n \in Nat \ {0} : Len(ds) = 2 * n
    BY EmptySeq
<1>2. PICK bytes \in Seq(Bytes) :
         /\ bytes = Pairs(ds) /\ Len(bytes) = n
         /\ \A k \in 1..n : /\ 2 * k - 1 \in 1..Len(ds) /\ 2 * k \in 1..Len(ds)
                            /\ bytes[k] \div 16 = ds[2 * k - 1] /\ bytes[k] % 16 = ds[2 * k]
    <2>1. PICK bytes \in Seq(Bytes) :
             /\ bytes = Pairs(ds) /\ 2 * Len(bytes) = Len(ds)
             /\ \A k \in 1..Len(bytes) :
                   /\ 2 * k - 1 \in 1..Len(ds) /\ 2 * k \in 1..Len(ds)
                   /\ bytes[k] \div 16 = ds[2 * k - 1] /\ bytes[k] % 16 = ds[2 * k]
        BY PairsMade
    <2>2. Len(bytes) = n
        BY <1>1, <2>1
    <2> QED BY <2>1, <2>2
<1>3. bytes # <<>> /\ ds \in Seq(Nat)
    BY <1>2, Wider
<1>4. ASSUME NEW k \in 1..n
      PROVE  /\ ds[2 * k - 1] \in Nat /\ ds[2 * k] \in Nat
             /\ Hex(bytes[k]) = <<ds[2 * k - 1], ds[2 * k]>>
    <2>1. ds[2 * k - 1] \in Nat /\ ds[2 * k] \in Nat
        BY <1>2, <1>3, Element
    <2> QED BY <1>2, <2>1 DEF Hex
<1>5. ASSUME NEW format \in {"full_int", "full_string"}
      PROVE  HexText(bytes, format) = ds
    <2> DEFINE off == [i \in 0..n |-> 2 * i]
    <2>1. off \in [0..Len(bytes) -> Nat] /\ off[0] = 0 /\ off[Len(bytes)] = Len(ds)
        BY <1>1, <1>2
    <2>2. ASSUME NEW i \in 1..n
          PROVE  PieceOf(HexPiece(bytes, format, i), ds, off[i - 1], off[i])
        <3>1. HexPiece(bytes, format, i) = Hex(bytes[i])
            BY DEF HexPiece
        <3>2. PICK a \in Nat : a = 2 * i - 2 /\ a + 1 = 2 * i - 1 /\ a + 2 = 2 * i
            OBVIOUS
        <3>3. off[i - 1] = a /\ off[i] = a + 2
            BY <3>2
        <3>4. PICK x \in Nat, y \in Nat : x = ds[2 * i - 1] /\ y = ds[2 * i]
            BY <1>4
        <3>5. PieceOf(<<x, y>>, ds, a, a + 2)
            BY <3>2, <3>4, PieceOfTwo
        <3> HIDE DEF off
        <3> QED BY <1>4, <3>1, <3>3, <3>4, <3>5
    <2> HIDE DEF off
    <2> QED BY <1>2, <1>3, <2>1, <2>2, HexTextJoined
<1>6. ASSUME NEW format \in {"int", "string"}
      PROVE  HexText(bytes, format) = Tail(ds)
    <2> DEFINE off == [i \in 0..n |-> IF i = 0 THEN 0 ELSE 2 * i - 1]
    <2>0. PICK t \in Seq(Nat) :
             t = Tail(ds) /\ Len(t) = 2 * n - 1 /\ \A k \in 1..(2 * n - 1) : t[k] = ds[k + 1]
        <3>1. PICK m \in Nat : m = 2 * n - 1 /\ Len(ds) - 1 = m
            BY <1>1
        <3>2. ds \in Seq(Nat) /\ ds # <<>>
            BY <1>3
        <3>3. /\ Tail(ds) \in Seq(Nat) /\ Len(Tail(ds)) = Len(ds) - 1
              /\ \A k \in 1..(Len(ds) - 1) : Tail(ds)[k] = ds[k + 1]
            BY <3>2, WithoutFirst, Zenon
        <3> QED BY <3>1, <3>3, Zenon
    <2>1. off \in [0..Len(bytes) -> Nat] /\ off[0] = 0 /\ off[Len(bytes)] = Len(t)
        BY <1>1, <1>2, <2>0
    <2>2. ASSUME NEW i \in 1..n
          PROVE  PieceOf(HexPiece(bytes, format, i), t, off[i - 1], off[i])
        <3>1. CASE i = 1
            <4>1. HexPiece(bytes, format, i) = <<ds[2]>>
                <5>1. bytes[1] % 16 = ds[2 * 1] /\ 2 * 1 = 2
                    BY <1>2
                <5> QED BY <3>1, <5>1 DEF HexPiece
            <4>2. off[i - 1] = 0 /\ off[i] = 0 + 1 /\ t[0 + 1] = ds[2] /\ ds[2] \in Nat
                BY <1>4, <2>0, <3>1
            <4> HIDE DEF off
            <4> QED BY <4>1, <4>2, PieceOfOne
        <3>2. CASE i # 1
            <4>1. HexPiece(bytes, format, i) = Hex(bytes[i])
                BY <3>2 DEF HexPiece
            <4>2. PICK a \in Nat : a = 2 * i - 3 /\ a + 1 = 2 * i - 2 /\ a + 2 = 2 * i - 1
                BY <3>2
            <4>3. off[i - 1] = a /\ off[i] = a + 2
                BY <3>2, <4>2
            <4>4. t[a + 1] = ds[2 * i - 1] /\ t[a + 2] = ds[2 * i]
                <5>1. a + 1 \in 1..(2 * n - 1) /\ a + 2 \in 1..(2 * n - 1)
                      /\ (a + 1) + 1 = 2 * i - 1 /\ (a + 2) + 1 = 2 * i
                    BY <3>2, <4>2
                <5> QED BY <2>0, <5>1
            <4> HIDE DEF off
            <4>5. PICK x \in Nat, y \in Nat : x = ds[2 * i - 1] /\ y = ds[2 * i]
                BY <1>4, <4>1
            <4>6. PieceOf(<<x, y>>, t, a, a + 2)
                BY <4>4, <4>5, PieceOfTwo
            <4> QED BY <1>4, <4>1, <4>3, <4>5, <4>6
        <3> QED BY <3>1, <3>2
    <2> HIDE DEF off
    <2>6. HexText(bytes, format) = t
        <3>1. \A i \in 1..Len(bytes) : PieceOf(HexPiece(bytes, format, i), t, off[i - 1], off[i])
            BY <1>2, <2>2
        <3> QED BY <1>3, <2>1, <3>1, HexTextJoined
    <2> QED BY <2>0, <2>6
<1>7. ASSUME NEW c \in Bytes
      PROVE  HexText(bytes \o <<c>>, "chk_string") = ds \o <<Character(c)>>
    <2> DEFINE off == [i \in 0..(n + 1) |-> IF i = n + 1 THEN 2 * n + 1 ELSE 2 * i]
    <2>0. PICK b \in Seq(Bytes) :
             b = bytes \o <<c>> /\ Len(b) = n + 1 /\ b[n + 1] = c /\ \A k \in 1..n : b[k] = bytes[k]
        <3>1. /\ bytes \o <<c>> \in Seq(Bytes) /\ Len(bytes \o <<c>>) = Len(bytes) + 1
              /\ (bytes \o <<c>>)[Len(bytes) + 1] = c
              /\ \A k \in 1..Len(bytes) : (bytes \o <<c>>)[k] = bytes[k]
            BY OneMore
        <3> QED BY <1>2, <3>1, Zenon
    <2>1. Character(c) \in Nat
        BY DEF Character, Bytes
    <2>2. PICK t \in Seq(Nat) :
             /\ t = ds \o <<Character(c)>> /\ Len(t) = 2 * n + 1 /\ t[2 * n + 1] = Character(c)
             /\ \A k \in 1..(2 * n) : t[k] = ds[k]
        <3>1. PICK x \in Nat : x = Character(c)
            BY <2>1
        <3>2. PICK m \in Nat : m = 2 * n /\ Len(ds) = m
            BY <1>1
        <3>3. /\ ds \o <<x>> \in Seq(Nat) /\ Len(ds \o <<x>>) = m + 1 /\ (ds \o <<x>>)[m + 1] = x
              /\ \A k \in 1..m : (ds \o <<x>>)[k] = ds[k]
            <4>1. /\ ds \o <<x>> \in Seq(Nat) /\ Len(ds \o <<x>>) = Len(ds) + 1
                  /\ (ds \o <<x>>)[Len(ds) + 1] = x
                  /\ \A k \in 1..Len(ds) : (ds \o <<x>>)[k] = ds[k]
                BY <1>3, OneMore
            <4> QED BY <3>2, <4>1, Zenon
        <3> QED BY <3>1, <3>2, <3>3
    <2>3. off \in [0..Len(b) -> Nat] /\ off[0] = 0 /\ off[Len(b)] = Len(t)
        <3>1. off \in [0..(n + 1) -> Nat] /\ off[0] = 0 /\ off[n + 1] = 2 * n + 1
            OBVIOUS
        <3> HIDE DEF off
        <3> QED BY <2>0, <2>2, <3>1
    <2>4. ASSUME NEW i \in 1..(n + 1)
          PROVE  PieceOf(HexPiece(b, "chk_string", i), t, off[i - 1], off[i])
        <3>1. CASE i = n + 1
            <4>1. HexPiece(b, "chk_string", i) = <<Character(c)>>
                BY <2>0, <3>1 DEF HexPiece
            <4>2. PICK a \in Nat : a = 2 * n
                OBVIOUS
            <4>4. off[i - 1] = a /\ off[i] = a + 1
                BY <3>1, <4>2
            <4>3. off[i - 1] = a /\ off[i] = a + 1 /\ t[a + 1] = Character(c)
                BY <2>2, <4>2, <4>4
            <4> HIDE DEF off
            <4> QED BY <2>1, <4>1, <4>3, PieceOfOne
        <3>2. CASE i # n + 1
            <4>1. HexPiece(b, "chk_string", i) = Hex(bytes[i]) /\ i \in 1..n
                BY <2>0, <3>2 DEF HexPiece
            <4>2. PICK a \in Nat : a = 2 * i - 2 /\ a + 1 = 2 * i - 1 /\ a + 2 = 2 * i
                OBVIOUS
            <4>3. off[i - 1] = a /\ off[i] = a + 2
                BY <3>2, <4>2
            <4>4. t[a + 1] = ds[2 * i - 1] /\ t[a + 2] = ds[2 * i]
                <5>1. a + 1 \in 1..(2 * n) /\ a + 2 \in 1..(2 * n)
                    BY <4>1, <4>2
                <5> QED BY <2>2, <4>2, <5>1
            <4> HIDE DEF off
            <4>5. PICK x \in Nat, y \in Nat : x = ds[2 * i - 1] /\ y = ds[2 * i]
                BY <1>4, <4>1
            <4>6. PieceOf(<<x, y>>, t, a, a + 2)
                BY <4>4, <4>5, PieceOfTwo
            <4> QED BY <1>4, <4>1, <4>3, <4>5, <4>6
        <3> QED BY <3>1, <3>2
    <2>5. b # <<>>
        BY <2>0
    <2> HIDE DEF off
    <2>6. HexText(b, "chk_string") = t
        <3>1. \A i \in 1..Len(b) : PieceOf(HexPiece(b, "chk_string", i), t, off[i - 1], off[i])
            BY <2>0, <2>4
        <3> QED BY <2>3, <2>5, <3>1, HexTextJoined
    <2> QED BY <2>0, <2>2, <2>6
<1> QED BY <1>2, <1>5, <1>6, <1>7

-----------------------------------------------------------------------------
(* Characters of six bits.                                                 *)

PackedBit(codes, pad, p) ==
    IF p < pad THEN 0 ELSE Bit(codes[((p - pad) \div 6) + 1], 5 - ((p - pad) % 6))

(* Each bit of the string is there that was put there.                     *)
LEMMA PackedBits ==
    ASSUME NEW length \in Nat, NEW codes \in Seq(0..(Bang - 1)),
           Len(codes) = (8 * length) \div 6
    PROVE  /\ Pack(codes, length) \in Seq(Bytes) /\ Len(Pack(codes, length)) = length
           /\ \A p \in 0..(8 * length - 1) :
                 StringBit(Pack(codes, length), p) = PackedBit(codes, (8 * length) % 6, p)
<1>1. PICK pad \in 0..5, n \in Nat : pad = (8 * length) % 6 /\ n = Len(codes) /\ 8 * length = 6 * n + pad
    OBVIOUS
<1> DEFINE f(k) == [i \in 0..7 |-> PackedBit(codes, pad, 8 * (k - 1) + 7 - i)]
<1>2. Pack(codes, length) = [k \in 1..length |-> FromBits(f(k), 8)]
    BY <1>1 DEF Pack, PackedBit
<1>3. ASSUME NEW p \in 0..(8 * length - 1) PROVE PackedBit(codes, pad, p) \in {0, 1}
    <2>1. CASE p < pad
        BY <2>1 DEF PackedBit
    <2>2. CASE ~(p < pad)
        <3>1. PICK c \in Nat, i \in 0..5 : c = ((p - pad) \div 6) + 1 /\ i = 5 - ((p - pad) % 6)
            BY <2>2
        <3>2. c \in 1..n
            BY <1>1, <2>2, <3>1
        <3>3. codes[c] \in Int
            <4>1. codes[c] \in 0..(Bang - 1)
                BY <1>1, <3>2, Element
            <4>2. \A x \in 0..(Bang - 1) : x \in Int
                BY DEF Bang
            <4> QED BY <4>1, <4>2
        <3>4. i \in 0..WordBits
            BY WordsHoldBytes, DecodeAssumption
        <3>5. Bit(codes[c], i) \in {0, 1}
            BY <3>3, <3>4, BitIsBit
        <3> QED BY <2>2, <3>1, <3>5 DEF PackedBit
    <2> QED BY <2>1, <2>2
<1>4. PICK eight \in 0..WordBits : eight = 8 /\ eight - 1 = 7
    BY WordsHoldBytes
<1>5. ASSUME NEW k \in 1..length
      PROVE  f(k) \in [0..(eight - 1) -> {0, 1}]
    <2>1. ASSUME NEW i \in 0..7 PROVE PackedBit(codes, pad, 8 * (k - 1) + 7 - i) \in {0, 1}
        <3>1. 8 * (k - 1) + 7 - i \in 0..(8 * length - 1)
            OBVIOUS
        <3> QED BY <1>3, <3>1
    <2> QED BY <1>4, <2>1
<1>6. ASSUME NEW k \in 1..length, NEW i \in 0..7
      PROVE  f(k)[i] = PackedBit(codes, pad, 8 * (k - 1) + 7 - i)
    OBVIOUS
<1> HIDE DEF f
<1>7. PICK s : s = Pack(codes, length)
    OBVIOUS
<1>8. ASSUME NEW k \in 1..length
      PROVE  /\ s[k] \in Bytes
             /\ \A i \in 0..7 : Bit(s[k], i) = PackedBit(codes, pad, 8 * (k - 1) + 7 - i)
    <2>1. s[k] = FromBits(f(k), eight)
        BY <1>2, <1>4, <1>7
    <2>2. PICK g \in [0..(eight - 1) -> {0, 1}] : g = f(k)
        BY <1>5
    <2>3. FromBits(g, eight) \in Nat /\ FromBits(g, eight) < Power[eight]
        BY FromBitsIsNumber
    <2>4. Power[eight] = 256
        BY <1>4, SmallPowers
    <2>5. s[k] \in 0..255
        <3>1. PICK v \in Nat : v = FromBits(g, eight) /\ v < Power[eight]
            BY <2>3
        <3>2. s[k] = v
            BY <2>1, <2>2, <3>1, Zenon
        <3>3. v < 256
            BY <2>4, <3>1
        <3>4. v \in 0..255
            BY <3>3
        <3> QED BY <3>2, <3>4
    <2>6. ASSUME NEW i \in 0..7
          PROVE  Bit(s[k], i) = PackedBit(codes, pad, 8 * (k - 1) + 7 - i)
        <3>1. i \in 0..(eight - 1)
            BY <1>4
        <3>2. Bit(FromBits(g, eight), i) = g[i]
            BY <3>1, BitOfBits
        <3> QED BY <1>6, <2>1, <2>2, <3>2
    <2> QED BY <2>5, <2>6 DEF Bytes
<1>9. s \in Seq(Bytes) /\ Len(s) = length
    <2>1. s \in [1..length -> Bytes]
        BY <1>2, <1>7, <1>8
    <2> QED BY <2>1, Sequence
<1>10. ASSUME NEW p \in 0..(8 * length - 1)
       PROVE  StringBit(s, p) = PackedBit(codes, pad, p)
    <2>1. PICK w \in Nat, m \in 0..7 : w = p \div 8 /\ m = p % 8 /\ p = 8 * w + m
        OBVIOUS
    <2>2. w + 1 \in 1..length /\ 7 - m \in 0..7
        BY <2>1
    <2>3. PICK k \in 1..length, i \in 0..7 : k = w + 1 /\ i = 7 - m /\ 8 * (k - 1) + 7 - i = p
        BY <2>1, <2>2
    <2>4. Bit(s[k], i) = PackedBit(codes, pad, p)
        BY <1>8, <2>3
    <2> QED BY <2>1, <2>3, <2>4 DEF StringBit
<1> QED BY <1>1, <1>7, <1>9, <1>10

(* And six bits are the code they were taken from.                         *)
LEMMA PackedCodes ==
    ASSUME NEW length \in Nat, NEW codes \in Seq(0..(Bang - 1)),
           Len(codes) = (8 * length) \div 6, NEW k \in 1..Len(codes)
    PROVE  /\ SixFrom(Pack(codes, length), ((8 * length) % 6) + 6 * (k - 1)) = codes[k]
           /\ SixBitChar(codes[k]) = codes[k] /\ codes[k] \in Nat
<1>1. PICK pad \in 0..5, n \in Nat : pad = (8 * length) % 6 /\ n = Len(codes) /\ 8 * length = 6 * n + pad
    OBVIOUS
<1>2. PICK c \in 0..35 : c = codes[k]
    <2>1. codes[k] \in 0..(Bang - 1)
        BY Element
    <2>2. 0..(Bang - 1) = 0..35
        BY DEF Bang
    <2> QED BY <2>1, <2>2
<1>3. PICK s : s = Pack(codes, length)
    OBVIOUS
<1>4. ASSUME NEW m \in 0..5
      PROVE  StringBit(s, (pad + 6 * (k - 1)) + m) = Bit(c, 5 - m)
    <2>1. PICK p \in Nat : p = (pad + 6 * (k - 1)) + m
        OBVIOUS
    <2>2. p \in 0..(8 * length - 1)
        BY <1>1, <2>1
    <2>3. ~(p < pad) /\ (p - pad) \div 6 = k - 1 /\ (p - pad) % 6 = m
        <3>1. p - pad = 6 * (k - 1) + m /\ k - 1 \in Nat
            BY <2>1
        <3>2. \A x \in Nat : (6 * x + m) \div 6 = x /\ (6 * x + m) % 6 = m
            OBVIOUS
        <3> QED BY <2>1, <3>1, <3>2
    <2>4. StringBit(s, p) = PackedBit(codes, pad, p)
        BY <1>1, <1>3, <2>2, PackedBits
    <2>5. (k - 1) + 1 = k
        OBVIOUS
    <2> QED BY <1>2, <2>1, <2>3, <2>4, <2>5 DEF PackedBit
<1>5. PICK j \in Nat : j = pad + 6 * (k - 1)
    OBVIOUS
<1>6. /\ StringBit(s, j) = Bit(c, 5) /\ StringBit(s, j + 1) = Bit(c, 4)
      /\ StringBit(s, j + 2) = Bit(c, 3) /\ StringBit(s, j + 3) = Bit(c, 2)
      /\ StringBit(s, j + 4) = Bit(c, 1) /\ StringBit(s, j + 5) = Bit(c, 0)
    <2>1. \A m \in 0..5 : StringBit(s, j + m) = Bit(c, 5 - m)
        BY <1>4, <1>5
    <2>2. j + 0 = j /\ 5 - 0 = 5 /\ 5 - 1 = 4 /\ 5 - 2 = 3 /\ 5 - 3 = 2 /\ 5 - 4 = 1 /\ 5 - 5 = 0
        OBVIOUS
    <2> QED BY <2>1, <2>2
<1>7. SixFrom(s, j) = c % 64
    <2>1. c \in Bytes
        BY DEF Bytes
    <2> QED BY <1>6, <2>1, ByteParts DEF SixFrom
<1>8. c % 64 = c
    OBVIOUS
<1>9. SixBitChar(c) = c
    BY DEF SixBitChar, Bang
<1> QED BY <1>1, <1>2, <1>3, <1>5, <1>7, <1>8, <1>9

(* Packed text is read as it was, but for a first character without bits   *)
(* before it.                                                              *)
LEMMA PackedTextRead ==
    ASSUME NEW length \in Nat \ {0}, NEW codes \in Seq(0..(Bang - 1)),
           Len(codes) = (8 * length) \div 6, NEW t \in SixBitTexts(Pack(codes, length))
    PROVE  /\ Len(t) = Len(codes) /\ Tail(t) = Tail(codes)
           /\ length % 3 # 0 => t = codes
<1>1. PICK n \in Nat, pad \in 0..5 :
         n = Len(codes) /\ pad = (8 * length) % 6 /\ n >= 1 /\ (length % 3 # 0 => pad > 0)
    OBVIOUS
<1>2. Pack(codes, length) \in Seq(Bytes) /\ Len(Pack(codes, length)) = length
    BY PackedBits
<1>3. /\ DOMAIN t = 1..n
      /\ \A k \in 1..n : k > 1 \/ pad > 0 =>
            t[k] = SixBitChar(SixFrom(Pack(codes, length), pad + 6 * (k - 1)))
    BY <1>1, <1>2, SixBitTextsAreRead
<1>4. \A k \in 1..n : k > 1 \/ pad > 0 => t[k] = codes[k]
    <2> SUFFICES ASSUME NEW k \in 1..n, k > 1 \/ pad > 0 PROVE t[k] = codes[k]
        OBVIOUS
    <2>1. /\ SixFrom(Pack(codes, length), pad + 6 * (k - 1)) = codes[k]
          /\ SixBitChar(codes[k]) = codes[k]
        BY <1>1, PackedCodes
    <2> QED BY <1>3, <2>1
<1>5. PICK S : codes \in Seq(S) /\ t \in Seq(S) /\ Len(t) = n
    <2> DEFINE S == 0..(Bang - 1) \cup {t[k] : k \in 1..n}
    <2>1. t = [k \in 1..n |-> t[k]]
        BY <1>3 DEF SixBitTexts
    <2>2. t \in [1..n -> S] /\ 0..(Bang - 1) \subseteq S
        BY <2>1
    <2> HIDE DEF S
    <2>3. t \in Seq(S) /\ Len(t) = n
        BY <2>2, Sequence
    <2>4. codes \in Seq(S)
        BY <2>2, Wider
    <2> QED BY <2>3, <2>4
<1>6. Tail(t) = Tail(codes)
    <2>1. t # <<>> /\ codes # <<>>
        BY <1>1, <1>5
    <2>2. PICK s \in Seq(S), u \in Seq(S) : s = Tail(t) /\ u = Tail(codes)
        BY <1>5, <2>1, WithoutFirst
    <2>3. /\ Len(s) = n - 1 /\ Len(u) = n - 1
          /\ \A k \in 1..(n - 1) : s[k] = t[k + 1] /\ u[k] = codes[k + 1]
        BY <1>1, <1>5, <2>1, <2>2, WithoutFirst
    <2>4. \A k \in 1..(n - 1) : t[k + 1] = codes[k + 1]
        BY <1>1, <1>4
    <2>5. s = u
        BY <2>3, <2>4, SeqEqual
    <2> QED BY <2>2, <2>5
<1>7. ASSUME length % 3 # 0 PROVE t = codes
    BY <1>1, <1>4, <1>5, <1>7, SeqEqual
<1> QED BY <1>1, <1>5, <1>6, <1>7

-----------------------------------------------------------------------------
(* Frames.                                                                 *)

LEMMA ChecksumIsByte ==
    ASSUME NEW s \in Seq(Bytes)
    PROVE  Checksum(s) \in Bytes
<1> DEFINE f == [i \in 0..7 |-> Cardinality(BitsSet(s, i)) % 2]
<1>1. 8 \in 0..WordBits /\ Power[8] = 256 /\ 8 - 1 = 7
    BY WordsHoldBytes
<1>2. \A i \in 0..7 : Cardinality(BitsSet(s, i)) % 2 \in {0, 1}
    BY ParityKnown
<1>3. Checksum(s) = FromBits(f, 8)
    BY DEF Checksum, BitsSet
<1>4. PICK n \in 0..WordBits :
         n = 8 /\ f \in [0..(n - 1) -> {0, 1}] /\ Checksum(s) = FromBits(f, n)
    BY <1>1, <1>2, <1>3
<1> HIDE DEF f
<1>5. FromBits(f, n) \in Nat /\ FromBits(f, n) < Power[n]
    BY <1>4, FromBitsIsNumber
<1>6. PICK c : c = Checksum(s)
    OBVIOUS
<1>7. c \in 0..255
    <2>1. n = 8 /\ c = FromBits(f, n)
        BY <1>4, <1>6
    <2>2. Power[n] = 256
        BY <1>1, <2>1
    <2>3. c \in Nat /\ c < 256
        BY <1>5, <2>1, <2>2
    <2> QED BY <2>3
<1>8. 0..255 = Bytes
    BY DEF Bytes
<1> QED BY <1>6, <1>7, <1>8

LEMMA SentIsPacket ==
    ASSUME NEW j \in Jobs
    PROVE  /\ j.sent \in Recognisable
           /\ LineOf(j) /\ j.line \in Seq(Bytes)
           /\ Body(j.sent) \in Seq(Bytes) /\ Checksum(Body(j.sent)) \in Bytes
           /\ ToByteArray(j.sent) = Append(Body(j.sent), Checksum(Body(j.sent)))
<1>1. PICK p : p = j.sent
    OBVIOUS
<1>2. SentPacket(p) /\ LineOf(j) /\ j.line \in Seq(Bytes)
    BY <1>1, MeaningAssumption, JobTyped
<1>3. p \in Packets /\ (p.protocol = "DS2" => p.target # Magic)
    BY <1>2 DEF SentPacket, Packets
<1>4. Body(p) \in Seq(Bytes)
    BY <1>3, PacketParts, HeaderTyped DEF Body
<1>5. Checksum(Body(p)) \in Bytes
    BY <1>4, ChecksumIsByte
<1> QED BY <1>1, <1>2, <1>3, <1>4, <1>5 DEF Recognisable, ToByteArray, Body

(* A line with one byte wrong before the checksum is that of another       *)
(* packet, with the checksum of the first.                                 *)
LEMMA WrongPacket ==
    ASSUME NEW p \in Recognisable, NEW line \in Seq(Bytes),
           Len(line) = Len(Body(p)) + 1, line[Len(line)] = Checksum(Body(p)),
           line[1] = Magic <=> p.protocol = "KWP",
           NEW i \in 1..Len(Body(p)), i \notin (IF p.protocol = "KWP" THEN {1, 4} ELSE {2}),
           line[i] # Body(p)[i], \A k \in 1..Len(Body(p)) : k # i => line[k] = Body(p)[k]
    PROVE  \E q \in Recognisable :
              OneWrong(Body(p), Body(q)) /\ line = Append(Body(q), Checksum(Body(p)))
<1>0. PICK h \in {2, 4}, n \in Nat :
         h = (IF p.protocol = "KWP" THEN 4 ELSE 2) /\ n = Len(p.data)
    BY PacketParts DEF Recognisable
<1> DEFINE data == [k \in 1..n |-> line[h + k]]
           q == [protocol |-> p.protocol,
                 target |-> line[IF p.protocol = "KWP" THEN 2 ELSE 1],
                 source |-> IF p.protocol = "KWP" THEN line[3] ELSE 0,
                 data |-> data]
<1>1. /\ p \in Packets /\ p.protocol \in {"DS2", "KWP"} /\ p.data \in Seq(Bytes)
      /\ Len(p.data) = n /\ Header(p) \in Seq(Bytes) /\ Len(Header(p)) = h
    BY <1>0, PacketParts, HeaderTyped DEF Recognisable
<1>2. /\ Body(p) \in Seq(Bytes) /\ Len(Body(p)) = h + n
      /\ \A k \in 1..h : Body(p)[k] = Header(p)[k]
    BY <1>1, Joined DEF Body
<1>3. Len(line) = h + n + 1 /\ \A k \in 1..(h + n + 1) : line[k] \in Bytes
    <2>1. Len(line) = h + n + 1
        BY <1>2
    <2> QED BY <2>1
<1>4. data \in Seq(Bytes) /\ Len(data) = n
    <2>1. \A k \in 1..n : line[h + k] \in Bytes
        <3> SUFFICES ASSUME NEW k \in 1..n PROVE line[h + k] \in Bytes
            OBVIOUS
        <3>1. h + k \in 1..(h + n + 1)
            OBVIOUS
        <3> QED BY <1>3, <3>1
    <2> QED BY <2>1
<1> HIDE DEF data
<1>5. q \in Packets
    BY <1>1, <1>3, <1>4 DEF Packets, Bytes
<1>6. /\ q.protocol = p.protocol /\ q.data = data
      /\ q.target = line[IF p.protocol = "KWP" THEN 2 ELSE 1]
      /\ q.source = IF p.protocol = "KWP" THEN line[3] ELSE 0
    OBVIOUS
<1> HIDE DEF q
<1>7. q \in Recognisable
    BY <1>1, <1>5, <1>6 DEF Recognisable
<1>8. Header(q) \in Seq(Bytes) /\ Len(Header(q)) = h
    BY <1>0, <1>5, <1>6, HeaderTyped
<1>9. \A k \in 1..h : Header(q)[k] = line[k]
    <2>1. CASE p.protocol = "KWP"
        <3>1. Header(p) = <<Magic, p.target, p.source, Len(p.data) % 256>>
              /\ Header(q) = <<Magic, q.target, q.source, Len(data) % 256>>
            BY <1>6, <2>1 DEF Header
        <3>2. line[4] = Header(p)[4] /\ line[1] = Magic
            <4>1. h = 4 /\ 4 \in 1..Len(Body(p)) /\ 4 # i
                BY <1>0, <1>2, <2>1
            <4> QED BY <1>2, <2>1, <4>1
        <3>3. Header(q)[1] = Magic /\ Header(q)[2] = q.target /\ Header(q)[3] = q.source
              /\ Header(q)[4] = Len(data) % 256 /\ Header(p)[4] = Len(p.data) % 256
            BY <3>1
        <3>4. h = 4 /\ Len(data) = Len(p.data) /\ q.target = line[2] /\ q.source = line[3]
            BY <1>0, <1>4, <1>6, <2>1
        <3>5. Header(q)[1] = line[1] /\ Header(q)[2] = line[2] /\ Header(q)[3] = line[3]
              /\ Header(q)[4] = line[4]
            BY <3>2, <3>3, <3>4
        <3>6. \A k \in 1..4 : k = 1 \/ k = 2 \/ k = 3 \/ k = 4
            OBVIOUS
        <3> QED BY <3>4, <3>5, <3>6
    <2>2. CASE p.protocol # "KWP"
        <3>1. Header(p) = <<p.target, (Len(p.data) + 3) % 256>>
              /\ Header(q) = <<q.target, (Len(data) + 3) % 256>>
            BY <1>6, <2>2 DEF Header
        <3>2. line[2] = Header(p)[2]
            <4>1. h = 2 /\ 2 \in 1..Len(Body(p)) /\ 2 # i
                BY <1>0, <1>2, <2>2
            <4> QED BY <1>2, <4>1
        <3>3. Header(q)[1] = q.target /\ Header(q)[2] = (Len(data) + 3) % 256
              /\ Header(p)[2] = (Len(p.data) + 3) % 256
            BY <3>1
        <3>4. h = 2 /\ Len(data) = Len(p.data) /\ q.target = line[1]
            BY <1>0, <1>4, <1>6, <2>2
        <3>5. Header(q)[1] = line[1] /\ Header(q)[2] = line[2]
            BY <3>2, <3>3, <3>4
        <3>6. \A k \in 1..2 : k = 1 \/ k = 2
            OBVIOUS
        <3> QED BY <3>4, <3>5, <3>6
    <2> QED BY <2>1, <2>2
<1>10. /\ Body(q) \in Seq(Bytes) /\ Len(Body(q)) = h + n
       /\ \A k \in 1..(h + n) : Body(q)[k] = line[k]
    <2>1. /\ Body(q) \in Seq(Bytes) /\ Len(Body(q)) = h + n
          /\ \A k \in 1..h : Body(q)[k] = Header(q)[k]
          /\ \A k \in 1..n : Body(q)[h + k] = data[k]
        <3>1. PICK s \in Seq(Bytes), t \in Seq(Bytes) : s = Header(q) /\ t = q.data
            BY <1>4, <1>6, <1>8
        <3>2. /\ s \o t \in Seq(Bytes) /\ Len(s \o t) = Len(s) + Len(t)
              /\ \A k \in 1..Len(s) : (s \o t)[k] = s[k]
              /\ \A k \in 1..Len(t) : (s \o t)[Len(s) + k] = t[k]
            BY Joined
        <3>3. Body(q) = s \o t /\ Len(s) = h /\ Len(t) = n /\ t = data
            BY <1>4, <1>6, <1>8, <3>1 DEF Body
        <3> QED BY <3>1, <3>2, <3>3
    <2>2. ASSUME NEW k \in 1..(h + n) PROVE Body(q)[k] = line[k]
        <3>1. CASE k <= h
            BY <1>9, <2>1, <3>1
        <3>2. CASE k > h
            <4>1. k - h \in 1..n /\ h + (k - h) = k
                BY <3>2
            <4>2. data[k - h] = line[h + (k - h)]
                BY <4>1 DEF data
            <4> QED BY <2>1, <4>1, <4>2
        <3> QED BY <3>1, <3>2
    <2> QED BY <2>1, <2>2
<1>11. OneWrong(Body(p), Body(q))
    <2>1. DOMAIN Body(p) = 1..(h + n) /\ DOMAIN Body(q) = 1..(h + n)
        BY <1>2, <1>10
    <2>2. i \in 1..(h + n) /\ Body(q)[i] # Body(p)[i]
          /\ \A k \in 1..(h + n) : k # i => Body(q)[k] = Body(p)[k]
        BY <1>2, <1>10
    <2> QED BY <2>1, <2>2 DEF OneWrong
<1>12. line = Append(Body(q), Checksum(Body(p)))
    <2>1. PICK b \in Seq(Bytes), c \in Bytes : b = Body(q) /\ c = Checksum(Body(p))
        BY <1>1, <1>2, <1>3, <1>10
    <2>2. /\ Append(b, c) \in Seq(Bytes) /\ Len(Append(b, c)) = Len(line)
          /\ \A k \in 1..Len(line) : Append(b, c)[k] = line[k]
        <3>1. Len(b) = h + n /\ (\A k \in 1..Len(b) : b[k] = line[k]) /\ line[h + n + 1] = c
              /\ Len(line) = Len(b) + 1
            BY <1>2, <1>3, <1>10, <2>1
        <3>2. PICK m \in Nat : m = Len(b)
            OBVIOUS
        <3> QED BY <3>1, <3>2
    <2>3. PICK t \in Seq(Bytes) : t = Append(b, c)
        BY <2>2
    <2> QED BY <2>1, <2>2, <2>3, SeqEqual
<1> QED BY <1>7, <1>11, <1>12

LEMMA FramesCheckedNow == DecoderInv => FramesChecked
<1> SUFFICES ASSUME DecoderInv PROVE FramesChecked
    OBVIOUS
<1> DEFINE p == job.sent
           c == Checksum(Body(p))
<1>1. job \in Jobs /\ FramesRead
    BY FramesNow DEF DecoderInv, DecodeInv, Types
<1>2. /\ p \in Recognisable /\ LineOf(job) /\ job.line \in Seq(Bytes)
      /\ Body(p) \in Seq(Bytes) /\ c \in Bytes /\ ToByteArray(p) = Append(Body(p), c)
    BY <1>1, SentIsPacket
<1>3. Len(p.data) \in Nat
    BY <1>2, PacketParts DEF Recognisable
<1>4. ASSUME job.checked = "intact", stage \notin {"line", "ds2"} PROVE packet = p
    <2>1. Len(p.data) <= 254 /\ job.line \in {ToByteArray(p), Front(ToByteArray(p))}
        BY <1>2, <1>4 DEF LineOf
    <2>2. Front(ToByteArray(p)) = Body(p)
        BY <1>2, FrontOfAppend
    <2>3. packet = NoPacket => stage = "error"
        BY <1>4 DEF DecoderInv, DecodeInv, PacketInv, Types
    <2>4. job.line \in {ToByteArray(p), Body(p)}
        BY <2>1, <2>2
    <2>5. /\ packet # NoPacket => packet = p
          /\ packet = NoPacket /\ stage = "error" => Len(p.data) > 254
        BY <1>1, <1>2, <2>4, Zenon DEF FramesRead
    <2>6. ~(Len(p.data) > 254)
        BY <1>3, <2>1
    <2> QED BY <2>3, <2>5, <2>6, Zenon
<1>5. ASSUME job.checked = "refused" PROVE packet = NoPacket
    <2>1. \/ job.line = ToByteArray(p) /\ Len(p.data) > 254
          \/ OneByteWrong(p, job.line)
        BY <1>2, <1>5 DEF LineOf
    <2>2. CASE job.line = ToByteArray(p) /\ Len(p.data) > 254
        <3>1. Protocol = p.protocol /\ p \in Packets
            BY <1>2, <2>2, ProtocolOf DEF Recognisable
        <3>2. Accepted(p.protocol, Append(Body(p), c)) =
                 IF Len(p.data) <= 254 /\ c = Checksum(Body(p)) THEN {p} ELSE {}
            BY <3>1, FrameWithLast
        <3>4. ~(Len(p.data) <= 254)
            BY <1>3, <2>2
        <3>3. Accepted(Protocol, job.line) = {}
            BY <1>2, <2>2, <3>1, <3>2, <3>4
        <3> QED BY <3>3 DEF DecoderInv, FrameInv
    <2>3. CASE OneByteWrong(p, job.line)
        <3> HIDE DEF c
        <3>1. /\ Len(job.line) = Len(Body(p)) + 1 /\ Len(Body(p)) \in Nat
              /\ ToByteArray(p)[Len(Body(p)) + 1] = c
              /\ \A k \in 1..Len(Body(p)) : ToByteArray(p)[k] = Body(p)[k]
              /\ Len(ToByteArray(p)) = Len(Body(p)) + 1
            BY <1>2, <2>3 DEF OneByteWrong
        <3>2. /\ job.line[1] = Magic <=> p.protocol = "KWP"
              /\ \E i \in Covered(p) :
                    /\ job.line[i] # ToByteArray(p)[i]
                    /\ \A k \in 1..Len(job.line) : k # i => job.line[k] = ToByteArray(p)[k]
            BY <2>3 DEF OneByteWrong
        <3>3. PICK i \in Covered(p) :
                    /\ job.line[i] # ToByteArray(p)[i]
                    /\ \A k \in 1..Len(job.line) : k # i => job.line[k] = ToByteArray(p)[k]
            BY <3>2
        <3>4. i \in 1..(Len(Body(p)) + 1) /\ i \notin (IF p.protocol = "KWP" THEN {1, 4} ELSE {2})
            BY <3>1 DEF Covered
        <3>5. CASE i = Len(Body(p)) + 1
            <4>1. PICK x \in Bytes : x = job.line[i] /\ x # c
                BY <1>2, <3>1, <3>3, <3>5
            <4>2. job.line = Append(Body(p), x)
                <5>1. PICK b \in Seq(Bytes) : b = Body(p)
                    BY <1>2
                <5>2. /\ Append(b, x) \in Seq(Bytes) /\ Len(Append(b, x)) = Len(job.line)
                      /\ \A k \in 1..Len(job.line) : Append(b, x)[k] = job.line[k]
                    BY <3>1, <3>3, <3>5, <4>1, <5>1
                <5>3. PICK t \in Seq(Bytes) : t = Append(b, x)
                    BY <5>2
                <5> QED BY <1>2, <5>1, <5>2, <5>3, SeqEqual
            <4> QED BY <1>1, <1>2, <4>1, <4>2 DEF FramesRead, c
        <3>6. CASE i # Len(Body(p)) + 1
            <4>1. i \in 1..Len(Body(p)) /\ job.line[i] # Body(p)[i]
                  /\ job.line[Len(job.line)] = c
                  /\ \A k \in 1..Len(Body(p)) : k # i => job.line[k] = Body(p)[k]
                BY <3>1, <3>3, <3>4, <3>6
            <4>2. \E q \in Recognisable :
                    OneWrong(Body(p), Body(q)) /\ job.line = Append(Body(q), Checksum(Body(p)))
                BY <1>2, <3>1, <3>2, <3>4, <4>1, WrongPacket DEF c
            <4> QED BY <1>1, <1>2, <4>2 DEF FramesRead
        <3> QED BY <3>5, <3>6
    <2> QED BY <2>1, <2>2, <2>3
<1> QED BY <1>4, <1>5 DEF FramesChecked

(* A line that a control unit sends is read as its packet, and one that is *)
(* too long or has a wrong byte is refused (the string constructors of     *)
(* DS2Packet and KWPPacket).                                               *)
THEOREM FramesAreChecked == Spec => []FramesChecked
BY FramesCheckedNow, DecoderAlways, PTL

-----------------------------------------------------------------------------
(* Expressions.                                                            *)

LEMMA ExpressionParts ==
    ASSUME NEW e \in Expressions
    PROVE  /\ Height(e) \in Nat
           /\ Leaf(e) => e.op = "N" \/ (e.op = "number" /\ e.value \in Int \X (Nat \ {0}))
           /\ ~Leaf(e) => /\ e.op \in Operators /\ e.left \in Expressions /\ e.right \in Expressions
                          /\ Height(e.left) < Height(e) /\ Height(e.right) < Height(e)
<1>1. CASE Leaf(e)
    <2>1. e.op \in {"N", "number"} /\ Height(e) = 0 /\ e.op \notin Operators
        BY <1>1 DEF Leaf, Height, Operators
    <2> QED BY <1>1, <2>1, ExpressionAssumption
<1>2. CASE ~Leaf(e)
    <2>1. e.op \notin {"N", "number"} /\ Height(e) = e.height
        BY <1>2 DEF Leaf, Height
    <2> QED BY <1>2, <2>1, ExpressionAssumption
<1> QED BY <1>1, <1>2

(* Induction over trees, with a set in place of the predicate.             *)
LEMMA TreeInduction ==
    ASSUME NEW T,
           \A e \in Expressions : Leaf(e) => e \in T,
           \A e \in Expressions : ~Leaf(e) /\ e.left \in T /\ e.right \in T => e \in T
    PROVE  Expressions \subseteq T
<1> DEFINE S == {k \in Nat : \A e \in Expressions : Height(e) < k => e \in T}
<1>1. 0 \in S
    BY ExpressionParts
<1>2. ASSUME NEW k \in Nat, k \in S PROVE k + 1 \in S
    <2> SUFFICES ASSUME NEW e \in Expressions, Height(e) < k + 1 PROVE e \in T
        OBVIOUS
    <2>1. CASE Leaf(e)
        BY <2>1
    <2>2. CASE ~Leaf(e)
        <3>1. /\ e.left \in Expressions /\ e.right \in Expressions
              /\ Height(e.left) < k /\ Height(e.right) < k
            <4>1. Height(e) \in Nat /\ Height(e) <= k
                BY ExpressionParts
            <4>2. /\ e.left \in Expressions /\ e.right \in Expressions
                  /\ Height(e.left) < Height(e) /\ Height(e.right) < Height(e)
                BY <2>2, ExpressionParts
            <4>3. Height(e.left) \in Nat /\ Height(e.right) \in Nat
                BY <4>2, ExpressionParts
            <4> QED BY <4>1, <4>2, <4>3
        <3> QED BY <1>2, <2>2, <3>1
    <2> QED BY <2>1, <2>2
<1> HIDE DEF S
<1>3. Nat \subseteq S
    BY <1>1, <1>2, Induction
<1>4. ASSUME NEW e \in Expressions PROVE e \in T
    <2>1. Height(e) \in Nat /\ Height(e) + 1 \in S /\ Height(e) < Height(e) + 1
        BY <1>3, ExpressionParts
    <2> QED BY <2>1 DEF S
<1> QED BY <1>4

(* The two functions on trees, Postfix and Evaluation, at a leaf and at a  *)
(* node.                                                                   *)
OfTree(what, n, exact, e, l, r) ==
    IF what = "program"
    THEN IF Leaf(e) THEN <<e>> ELSE l \o r \o <<[op |-> e.op]>>
    ELSE CASE e.op = "N" -> Known(<<n, 1>>)
           [] e.op = "number" -> Known(IF exact THEN e.value ELSE Whole(e.value))
           [] OTHER -> Combine(e.op, l, r, exact)
Lower(k) == {e \in Expressions : Height(e) < k}
OnTrees(what, n, exact, k, g) ==
    \A e \in Lower(k) : g[e] =
        OfTree(what, n, exact, e, IF Leaf(e) THEN 0 ELSE g[e.left],
                                  IF Leaf(e) THEN 0 ELSE g[e.right])

OnAllTrees(what, n, exact, g) ==
    g = [e \in Expressions |-> OfTree(what, n, exact, e, IF Leaf(e) THEN 0 ELSE g[e.left],
                                                         IF Leaf(e) THEN 0 ELSE g[e.right])]

LEMMA BelowNode ==
    ASSUME NEW k \in Nat, NEW e \in Lower(k), ~Leaf(e)
    PROVE  /\ e \in Expressions /\ e.left \in Expressions /\ e.right \in Expressions
           /\ k # 0 /\ e.left \in Lower(k - 1) /\ e.right \in Lower(k - 1)
           /\ e.left \in Lower(k) /\ e.right \in Lower(k)
<1>1. e \in Expressions /\ Height(e) < k
    BY DEF Lower
<1>2. /\ Height(e) \in Nat /\ e.left \in Expressions /\ e.right \in Expressions
      /\ Height(e.left) < Height(e) /\ Height(e.right) < Height(e)
    BY <1>1, ExpressionParts
<1>3. Height(e.left) \in Nat /\ Height(e.right) \in Nat
    BY <1>2, ExpressionParts
<1>4. PICK h, a, b \in Nat : h = Height(e) /\ a = Height(e.left) /\ b = Height(e.right)
    BY <1>2, <1>3
<1>5. h < k /\ a < h /\ b < h
    BY <1>1, <1>2, <1>4
<1>6. k # 0 /\ a < k - 1 /\ b < k - 1 /\ a < k /\ b < k
    BY <1>5
<1> QED BY <1>1, <1>2, <1>4, <1>6 DEF Lower

LEMMA TreeStep ==
    ASSUME NEW what, NEW n, NEW exact, NEW k \in Nat, NEW g, OnTrees(what, n, exact, k, g)
    PROVE  \E h : OnTrees(what, n, exact, k + 1, h)
<1> DEFINE h == [e \in Expressions |->
                   IF e \in Lower(k) THEN g[e]
                   ELSE OfTree(what, n, exact, e, IF Leaf(e) THEN 0 ELSE g[e.left],
                                                  IF Leaf(e) THEN 0 ELSE g[e.right])]
<1>1. \A e \in Expressions : h[e] =
         IF e \in Lower(k) THEN g[e]
         ELSE OfTree(what, n, exact, e, IF Leaf(e) THEN 0 ELSE g[e.left],
                                        IF Leaf(e) THEN 0 ELSE g[e.right])
    BY Zenon
<1>2. \A e \in Lower(k) : h[e] = g[e]
    BY <1>1 DEF Lower
<1> HIDE DEF h
<1>3. ASSUME NEW e \in Lower(k + 1)
      PROVE  h[e] = OfTree(what, n, exact, e, IF Leaf(e) THEN 0 ELSE h[e.left],
                                              IF Leaf(e) THEN 0 ELSE h[e.right])
    <2>1. h[e] = OfTree(what, n, exact, e, IF Leaf(e) THEN 0 ELSE g[e.left],
                                           IF Leaf(e) THEN 0 ELSE g[e.right])
        BY <1>1 DEF Lower, OnTrees
    <2>2. ~Leaf(e) => e.left \in Lower(k) /\ e.right \in Lower(k)
        <3>1. k + 1 \in Nat /\ (k + 1) - 1 = k
            OBVIOUS
        <3>2. ~Leaf(e) => e.left \in Lower((k + 1) - 1) /\ e.right \in Lower((k + 1) - 1)
            BY <3>1, BelowNode
        <3> QED BY <3>1, <3>2
    <2> QED BY <1>2, <2>1, <2>2
<1> QED BY <1>3 DEF OnTrees

LEMMA TreesAgree ==
    ASSUME NEW what, NEW n, NEW exact, NEW k \in Nat, NEW m \in Nat, NEW g, NEW h,
           OnTrees(what, n, exact, k, g), OnTrees(what, n, exact, m, h)
    PROVE  \A e \in Lower(k) \cap Lower(m) : g[e] = h[e]
<1> DEFINE T == {e \in Expressions : e \in Lower(k) \cap Lower(m) => g[e] = h[e]}
<1>1. ASSUME NEW e \in Expressions, Leaf(e) PROVE e \in T
    BY <1>1 DEF OnTrees
<1>2. ASSUME NEW e \in Expressions, ~Leaf(e), e.left \in T, e.right \in T PROVE e \in T
    <2> SUFFICES ASSUME e \in Lower(k), e \in Lower(m) PROVE g[e] = h[e]
        OBVIOUS
    <2>1. e.left \in Lower(k) \cap Lower(m) /\ e.right \in Lower(k) \cap Lower(m)
        BY <1>2, BelowNode
    <2>2. g[e.left] = h[e.left] /\ g[e.right] = h[e.right]
        BY <1>2, <2>1
    <2> QED BY <1>2, <2>2 DEF OnTrees
<1> HIDE DEF T
<1>3. Expressions \subseteq T
    BY <1>1, <1>2, TreeInduction
<1> QED BY <1>3 DEF T, Lower

LEMMA TreeFunction ==
    ASSUME NEW what, NEW n, NEW exact
    PROVE  \E g : OnAllTrees(what, n, exact, g)
<1> DEFINE S == {k \in Nat : \E g : OnTrees(what, n, exact, k, g)}
<1>1. 0 \in S
    <2>1. Lower(0) = {}
        BY ExpressionParts DEF Lower
    <2> QED BY <2>1 DEF OnTrees
<1>2. \A k \in Nat : k \in S => k + 1 \in S
    BY TreeStep
<1> HIDE DEF S
<1>3. Nat \subseteq S
    BY <1>1, <1>2, Induction
<1>4. \A k \in Nat : \E g : OnTrees(what, n, exact, k, g)
    BY <1>3 DEF S
<1> DEFINE level[k \in Nat] == CHOOSE g : OnTrees(what, n, exact, k, g)
<1>5. \A k \in Nat : OnTrees(what, n, exact, k, level[k])
    BY <1>4
<1> HIDE DEF level
<1> DEFINE f == [e \in Expressions |-> level[Height(e) + 1][e]]
<1>6. \A e \in Expressions : Height(e) \in Nat /\ Height(e) + 1 \in Nat /\ e \in Lower(Height(e) + 1)
    BY ExpressionParts DEF Lower
<1>7. \A e \in Expressions : f[e] = level[Height(e) + 1][e]
    OBVIOUS
<1>8. f = [e \in Expressions |-> f[e]]
    OBVIOUS
<1> HIDE DEF f
<1>9. ASSUME NEW e \in Expressions
      PROVE  f[e] = OfTree(what, n, exact, e, IF Leaf(e) THEN 0 ELSE f[e.left],
                                              IF Leaf(e) THEN 0 ELSE f[e.right])
    <2>1. PICK k \in Nat : k = Height(e) + 1 /\ e \in Lower(k)
        BY <1>6
    <2>2. OnTrees(what, n, exact, k, level[k]) /\ f[e] = level[k][e]
        BY <1>5, <1>7, <2>1
    <2>3. ASSUME NEW d \in Lower(k) PROVE level[k][d] = f[d]
        <3>1. PICK m \in Nat : m = Height(d) + 1 /\ d \in Lower(m) /\ d \in Expressions
            BY <1>6 DEF Lower
        <3>2. OnTrees(what, n, exact, m, level[m]) /\ f[d] = level[m][d]
            BY <1>5, <1>7, <3>1
        <3>3. PICK u, v : u = level[k] /\ v = level[m]
            OBVIOUS
        <3>4. OnTrees(what, n, exact, k, u) /\ OnTrees(what, n, exact, m, v)
            BY <2>2, <3>2, <3>3
        <3>5. \A x \in Lower(k) \cap Lower(m) : u[x] = v[x]
            BY <3>4, TreesAgree
        <3> QED BY <3>1, <3>2, <3>3, <3>5
    <2>4. ~Leaf(e) => level[k][e.left] = f[e.left] /\ level[k][e.right] = f[e.right]
        BY <2>1, <2>3, BelowNode
    <2>5. f[e] = OfTree(what, n, exact, e, IF Leaf(e) THEN 0 ELSE level[k][e.left],
                                           IF Leaf(e) THEN 0 ELSE level[k][e.right])
        BY <2>1, <2>2 DEF OnTrees
    <2> QED BY <2>4, <2>5
<1>10. f = [e \in Expressions |->
              OfTree(what, n, exact, e, IF Leaf(e) THEN 0 ELSE f[e.left],
                                        IF Leaf(e) THEN 0 ELSE f[e.right])]
    BY <1>8, <1>9
<1> QED BY <1>10 DEF OnAllTrees

(* What Postfix and Evaluation are at each tree.                           *)
LEMMA PostfixOf ==
    ASSUME NEW e \in Expressions
    PROVE  Postfix[e] = IF Leaf(e) THEN <<e>>
                        ELSE Postfix[e.left] \o Postfix[e.right] \o <<[op |-> e.op]>>
<1>0. PICK what, n, exact : what = "program" /\ n = 0 /\ exact = FALSE
    OBVIOUS
<1>1. PICK g : OnAllTrees(what, n, exact, g)
    BY TreeFunction
<1>2. g = [x \in Expressions |-> IF Leaf(x) THEN <<x>>
                                 ELSE g[x.left] \o g[x.right] \o <<[op |-> x.op]>>]
    <2>1. \A x \in Expressions : g[x] = IF Leaf(x) THEN <<x>>
                                 ELSE g[x.left] \o g[x.right] \o <<[op |-> x.op]>>
        BY <1>0, <1>1 DEF OnAllTrees, OfTree
    <2>2. g = [x \in Expressions |-> g[x]]
        BY <1>1 DEF OnAllTrees
    <2> QED BY <2>1, <2>2
<1>3. Postfix = [x \in Expressions |-> IF Leaf(x) THEN <<x>>
                    ELSE Postfix[x.left] \o Postfix[x.right] \o <<[op |-> x.op]>>]
    BY <1>2 DEF Postfix
<1> QED BY <1>3

LEMMA EvaluationOf ==
    ASSUME NEW n, NEW exact, NEW e \in Expressions
    PROVE  Evaluation(n, exact)[e] =
              CASE e.op = "N" -> Known(<<n, 1>>)
                [] e.op = "number" -> Known(IF exact THEN e.value ELSE Whole(e.value))
                [] OTHER -> Combine(e.op, Evaluation(n, exact)[e.left],
                                          Evaluation(n, exact)[e.right], exact)
<1>0. PICK what : what = "value"
    OBVIOUS
<1>1. PICK g : OnAllTrees(what, n, exact, g)
    BY TreeFunction
<1>2. g = [x \in Expressions |->
              CASE x.op = "N" -> Known(<<n, 1>>)
                [] x.op = "number" -> Known(IF exact THEN x.value ELSE Whole(x.value))
                [] OTHER -> Combine(x.op, g[x.left], g[x.right], exact)]
    <2>1. \A x \in Expressions : g[x] =
              CASE x.op = "N" -> Known(<<n, 1>>)
                [] x.op = "number" -> Known(IF exact THEN x.value ELSE Whole(x.value))
                [] OTHER -> Combine(x.op, g[x.left], g[x.right], exact)
        BY <1>0, <1>1 DEF OnAllTrees, OfTree, Leaf
    <2>2. g = [x \in Expressions |-> g[x]]
        BY <1>1 DEF OnAllTrees
    <2> QED BY <2>1, <2>2
<1> DEFINE v == CHOOSE h : h = [x \in Expressions |->
              CASE x.op = "N" -> Known(<<n, 1>>)
                [] x.op = "number" -> Known(IF exact THEN x.value ELSE Whole(x.value))
                [] OTHER -> Combine(x.op, h[x.left], h[x.right], exact)]
<1>3. v = [x \in Expressions |->
              CASE x.op = "N" -> Known(<<n, 1>>)
                [] x.op = "number" -> Known(IF exact THEN x.value ELSE Whole(x.value))
                [] OTHER -> Combine(x.op, v[x.left], v[x.right], exact)]
    BY <1>2
<1>4. Evaluation(n, exact) = v
    BY DEF Evaluation
<1> HIDE DEF v
<1> QED BY <1>3, <1>4

-----------------------------------------------------------------------------
(* The machine and the expression do the same with two quantities.         *)

LEMMA HalfOfWords ==
    /\ WordBits - 1 \in 0..WordBits /\ Power[WordBits - 1] \in Nat \ {0}
    /\ Words = 2 * Power[WordBits - 1] /\ Words \div 2 = Power[WordBits - 1]
    /\ Ordinary = 0..(Power[WordBits - 1] - 1) /\ Words \in Nat \ {0}
<1>1. WordBits - 1 \in 0..WordBits /\ WordBits - 1 < WordBits /\ (WordBits - 1) + 1 = WordBits
    BY DecodeAssumption
<1>2. PICK p \in Nat \ {0} : p = Power[WordBits - 1] /\ Power[WordBits] = 2 * p
    BY <1>1, PowerOf
<1>3. (2 * p) \div 2 = p /\ 2 * p \in Nat \ {0}
    BY <1>2
<1> QED BY <1>1, <1>2, <1>3 DEF Words, Ordinary

LEMMA BackOrdinary ==
    ASSUME NEW n \in Ordinary, NEW isReal
    PROVE  Back(n, isReal) = <<n, 1>>
<1>1. PICK w, p \in Nat \ {0} : w = Words /\ p = Words \div 2 /\ w = 2 * p /\ n \in 0..(p - 1)
    BY HalfOfWords
<1>2. n % w = n /\ ~(n >= p)
    BY <1>1
<1>3. n % Words = n /\ Signed(n, Words) = n
    BY <1>1, <1>2 DEF Signed
<1> QED BY <1>3 DEF Back

(* A whole number below half a word is itself as a word, of either kind.   *)
LEMMA UnsignedOrdinary ==
    ASSUME NEW q, NEW isReal \in BOOLEAN, Quantity(q, isReal), q[2] # 0,
           Truncate(q) \in Ordinary
    PROVE  Unsigned(q, isReal) = {Truncate(q)}
<1>1. PICK w \in Nat \ {0}, p \in Nat \ {0}, t \in Int :
         t = Truncate(q) /\ w = Words /\ w = 2 * p /\ t \in 0..(p - 1)
    <2>1. PICK p \in Nat \ {0} : p = Power[WordBits - 1]
        BY HalfOfWords
    <2>2. Words = 2 * p /\ Words \in Nat \ {0} /\ Truncate(q) \in 0..(p - 1)
        BY <2>1, HalfOfWords
    <2>3. PICK w, t : w = Words /\ t = Truncate(q)
        OBVIOUS
    <2>4. w \in Nat \ {0} /\ t \in Int /\ w = 2 * p /\ t \in 0..(p - 1)
        BY <2>2, <2>3
    <2> QED BY <2>3, <2>4
<1>2. CASE isReal
    <2>1. t \in 0..(w - 1)
        BY <1>1
    <2>2. Truncate(q) \in UnsignedWords
        BY <1>1, <2>1 DEF UnsignedWords
    <2> QED BY <1>2, <2>2 DEF Unsigned, Cast
<1>3. CASE ~isReal
    <2>1. q[1] \in Int /\ q[2] = 1
        BY <1>3, QuantityParts
    <2>2. PICK n \in Int : n = q[1]
        BY <2>1
    <2>3. n \div 1 = n /\ -((-n) \div 1) = n
        OBVIOUS
    <2>4. Truncate(q) = n
        BY <2>1, <2>2, <2>3 DEF Truncate
    <2>5. t % w = t
        BY <1>1
    <2> QED BY <1>1, <1>3, <2>2, <2>4, <2>5 DEF Unsigned
<1> QED BY <1>2, <1>3

LEMMA WholeOfWhole ==
    ASSUME NEW n \in Int
    PROVE  Whole(<<n, 1>>) = <<n, 1>>
<1>1. n \div 1 = n /\ -((-n) \div 1) = n
    OBVIOUS
<1> QED BY <1>1 DEF Whole, Truncate

(* The operators on bits, where the expression has a value.                *)
LEMMA WordsMean ==
    ASSUME NEW op \in {"&", ">>", "<<"}, NEW b, NEW a, NEW isReal \in BOOLEAN,
           Quantity(b, isReal), Quantity(a, isReal),
           NEW w \in Arithmetic(op, b, a)
    PROVE  \E m \in Ordinary : w = <<m, 1>> /\ Combined(op, b, a, isReal) = {w}
<1>1. /\ ~(0 \in {b[2], a[2]} \/ {Truncate(b), Truncate(a)} \ Ordinary # {})
      /\ \E m \in OnWords(op, Truncate(b), Truncate(a)) : w = <<m, 1>>
    BY DEF Arithmetic
<1>2. b[2] # 0 /\ a[2] # 0 /\ Truncate(b) \in Ordinary /\ Truncate(a) \in Ordinary
    BY <1>1
<1>3. PICK p \in Ordinary, c \in Ordinary :
         /\ p = Truncate(b) /\ c = Truncate(a)
         /\ Unsigned(b, isReal) = {p} /\ Unsigned(a, isReal) = {c}
    BY <1>2, UnsignedOrdinary
<1>4. PICK m \in OnWords(op, p, c) : w = <<m, 1>>
    BY <1>1, <1>3
<1>5. PICK h \in Nat \ {0} :
         /\ h = Power[WordBits - 1] /\ Ordinary = 0..(h - 1)
         /\ p \in 0..(h - 1) /\ c \in 0..(h - 1)
    BY HalfOfWords
<1>6. WordBits \in Nat /\ \A k \in 0..(WordBits - 1) :
         k \in 0..WordBits /\ Power[k] \in Nat \ {0} /\ Power[k] <= h
    <2>1. WordBits \in Nat
        BY DecodeAssumption
    <2> SUFFICES ASSUME NEW k \in 0..(WordBits - 1)
                 PROVE  k \in 0..WordBits /\ Power[k] \in Nat \ {0} /\ Power[k] <= h
        BY <2>1
    <2>2. k \in 0..WordBits /\ WordBits - 1 \in 0..WordBits /\ WordBits - 1 \in k..WordBits
        BY <2>1
    <2> QED BY <1>5, <2>2, PowerOf, PowerGrows
<1>7. CASE op = "&"
    <2>1. m = p % (c + 1) /\ LowMask(c)
        BY <1>7 DEF OnWords
    <2>2. PICK k \in 0..(WordBits - 1) : c + 1 = Power[k]
        BY <2>1 DEF LowMask
    <2>3. PICK P \in Nat \ {0} : P = Power[k] /\ P <= h /\ c = P - 1 /\ k \in 0..WordBits
        BY <1>5, <1>6, <2>2
    <2>4. BitAnd(p, Power[k] - 1) = p % Power[k]
        <3>1. p \in Int
            BY <1>5
        <3> QED BY <2>3, <3>1, AndLowMask
    <2>5. BitAnd(p, c) = m
        BY <2>1, <2>2, <2>3, <2>4
    <2>6. m \in 0..(h - 1)
        <3>1. \A x \in Int, y \in Nat \ {0} : x % y \in 0..(y - 1)
            OBVIOUS
        <3>2. m = p % P /\ p \in Int
            BY <1>5, <2>1, <2>2, <2>3
        <3>3. m \in 0..(P - 1)
            BY <2>3, <3>1, <3>2
        <3> QED BY <2>3, <3>3
    <2>7. Back(m, isReal) = w
        BY <1>4, <1>5, <2>6, BackOrdinary
    <2>8. Combined(op, b, a, isReal) = {Back(BitAnd(p, c), isReal)}
        BY <1>3, <1>7 DEF Combined
    <2> QED BY <1>4, <1>5, <2>5, <2>6, <2>7, <2>8
<1>8. ASSUME op \in {">>", "<<"}
      PROVE  /\ c \in 0..(WordBits - 1)
             /\ UNION {Shifts(n) : n \in Unsigned(a, isReal)} = {c}
    <2>1. c \in 0..(WordBits - 1)
        BY <1>8 DEF OnWords
    <2>2. Shifts(c) = {c}
        BY <2>1 DEF Shifts
    <2>3. UNION {Shifts(n) : n \in {c}} = Shifts(c)
        OBVIOUS
    <2> QED BY <1>3, <2>1, <2>2, <2>3
<1>9. CASE op = ">>"
    <2>1. m = p \div Power[c] /\ c \in 0..(WordBits - 1)
        BY <1>8, <1>9 DEF OnWords
    <2>2. PICK P \in Nat \ {0} : P = Power[c]
        BY <1>6, <2>1
    <2>3. m \in 0..(h - 1)
        <3>1. PICK x \in Int : x = p /\ x < h /\ x \in Nat
            BY <1>5
        <3>2. x \div P \in Nat /\ x % P \in Nat /\ x = P * (x \div P) + (x % P)
            <4>1. x \div P \in Nat /\ x % P \in 0..(P - 1)
                BY <3>1, Division
            <4>2. x = P * (x \div P) + (x % P)
                BY Euclid
            <4> QED BY <4>1, <4>2
        <3>3. PICK y \in Nat, z \in Nat : y = x \div P /\ z = x % P /\ x = P * y + z
            BY <3>2
        <3>4. (P - 1) * y \in Nat /\ P * y = (P - 1) * y + y
            <4>1. P - 1 \in Nat
                OBVIOUS
            <4> QED BY <4>1, Product
        <3>5. PICK u \in Nat : u = (P - 1) * y /\ x = u + y + z
            BY <3>3, <3>4
        <3>6. y <= x
            BY <3>5
        <3>7. y \in 0..(h - 1)
            BY <3>1, <3>6
        <3> QED BY <2>1, <2>2, <3>1, <3>3, <3>7
    <2>4. Back(m, isReal) = w
        BY <1>4, <1>5, <2>3, BackOrdinary
    <2>5. Combined(op, b, a, isReal) = {Back(p \div Power[c], isReal)}
        BY <1>3, <1>8, <1>9 DEF Combined
    <2> QED BY <1>4, <1>5, <2>1, <2>3, <2>4, <2>5
<1>10. CASE op = "<<"
    <2>1. m = p * Power[c] /\ m \in Ordinary
        BY <1>8, <1>10 DEF OnWords
    <2>4. Back(m, isReal) = w
        BY <1>4, <2>1, BackOrdinary
    <2>5. Combined(op, b, a, isReal) = {Back(p * Power[c], isReal)}
        BY <1>3, <1>8, <1>10 DEF Combined
    <2> QED BY <1>4, <2>1, <2>4, <2>5
<1> QED BY <1>7, <1>9, <1>10

(* Every operator: where the expression has a value, what is pushed is     *)
(* that value, cut to a whole number on a stack of integers.               *)
LEMMA CombineMeans ==
    ASSUME NEW op \in Operators, NEW b, NEW a, NEW isReal \in BOOLEAN,
           Quantity(b, isReal), Quantity(a, isReal),
           NEW v \in Combined(op, b, a, isReal), NEW w \in Arithmetic(op, b, a)
    PROVE  v = IF isReal THEN w ELSE Whole(w)
<1>1. /\ a[1] \in Int /\ a[2] \in Nat /\ b[1] \in Int /\ b[2] \in Nat
      /\ ~isReal => a[2] = 1 /\ b[2] = 1
    BY QuantityParts
<1>2. ASSUME NEW n \in Int, v = <<n, b[2] * a[2]>>, w = v
      PROVE  v = IF isReal THEN w ELSE Whole(w)
    <2>1. ~isReal => v = <<n, 1>>
        BY <1>1, <1>2
    <2> QED BY <1>2, <2>1, WholeOfWhole
<1>3. CASE op = "+"
    <2>1. v = <<b[1] * a[2] + a[1] * b[2], b[2] * a[2]>> /\ w = v
        BY <1>3 DEF Combined, Arithmetic
    <2>2. b[1] * a[2] + a[1] * b[2] \in Int
        BY <1>1
    <2> QED BY <1>2, <2>1, <2>2
<1>4. CASE op = "-"
    <2>1. v = <<b[1] * a[2] - a[1] * b[2], b[2] * a[2]>> /\ w = v
        BY <1>4 DEF Combined, Arithmetic, Difference
    <2>2. b[1] * a[2] - a[1] * b[2] \in Int
        BY <1>1
    <2> QED BY <1>2, <2>1, <2>2
<1>5. CASE op = "*"
    <2>1. v = <<b[1] * a[1], b[2] * a[2]>> /\ w = v
        BY <1>5 DEF Combined, Arithmetic
    <2>2. b[1] * a[1] \in Int
        BY <1>1
    <2> QED BY <1>2, <2>1, <2>2
<1>6. CASE op = "/"
    <2>1. v = Pushed(Quotient(b, a), isReal)
        BY <1>6 DEF Combined
    <2>2. w = IF a[1] >= 0 THEN <<b[1] * a[2], b[2] * a[1]>>
              ELSE <<-b[1] * a[2], b[2] * (-a[1])>>
        BY <1>6 DEF Arithmetic
    <2>3. Quotient(b, a) = w
        <3>1. CASE a[1] > 0
            BY <1>1, <2>2, <3>1 DEF Quotient
        <3>2. CASE a[1] < 0
            BY <1>1, <2>2, <3>2 DEF Quotient
        <3>3. CASE a[1] = 0
            <4>1. b[2] * a[1] = 0
                BY <1>1, <3>3
            <4> QED BY <1>1, <2>2, <3>3, <4>1 DEF Quotient
        <3> QED BY <1>1, <3>1, <3>2, <3>3
    <2> QED BY <2>1, <2>3 DEF Pushed, Whole
<1>7. CASE op \in {"&", ">>", "<<"}
    <2>1. PICK m \in Ordinary : w = <<m, 1>> /\ Combined(op, b, a, isReal) = {w}
        BY <1>7, WordsMean
    <2>2. m \in Int
        BY HalfOfWords
    <2> QED BY <2>1, <2>2, WholeOfWhole
<1> QED BY <1>3, <1>4, <1>5, <1>6, <1>7 DEF Operators

-----------------------------------------------------------------------------
(* Programs of expressions.                                                *)

Tokens == Expressions \cup {[op |-> o] : o \in Operators}

LEMMA PostfixTyped ==
    ASSUME NEW e \in Expressions
    PROVE  Postfix[e] \in Seq(Tokens) /\ Len(Postfix[e]) \in Nat \ {0}
<1> DEFINE T == {x \in Expressions : Postfix[x] \in Seq(Tokens) /\ Len(Postfix[x]) \in Nat \ {0}}
<1>1. ASSUME NEW x \in Expressions, Leaf(x) PROVE x \in T
    <2>1. Postfix[x] = <<x>> /\ x \in Tokens
        BY <1>1, PostfixOf DEF Tokens
    <2>2. <<x>> \in Seq(Tokens) /\ Len(<<x>>) = 1
        BY <2>1
    <2>3. Postfix[x] \in Seq(Tokens) /\ Len(Postfix[x]) = 1
        BY <2>1, <2>2
    <2>4. Len(Postfix[x]) \in Nat \ {0}
        BY <2>3
    <2> QED BY <2>3, <2>4
<1>2. ASSUME NEW x \in Expressions, ~Leaf(x), x.left \in T, x.right \in T PROVE x \in T
    <2>1. PICK t \in Tokens : t = [op |-> x.op]
        BY <1>2, ExpressionParts DEF Tokens
    <2>2. PICK l \in Seq(Tokens), r \in Seq(Tokens) : l = Postfix[x.left] /\ r = Postfix[x.right]
        BY <1>2
    <2>3. PICK s \in Seq(Tokens) : s = l \o r
        <3>1. l \o r \in Seq(Tokens)
            BY Joined
        <3> QED BY <3>1
    <2>4. s \o <<t>> \in Seq(Tokens) /\ Len(s \o <<t>>) = Len(s) + 1
        BY OneMore
    <2>5. Len(s) + 1 \in Nat \ {0}
        OBVIOUS
    <2>6. Postfix[x] = (l \o r) \o <<t>>
        BY <1>2, <2>1, <2>2, PostfixOf
    <2> QED BY <2>3, <2>4, <2>5, <2>6
<1> HIDE DEF T
<1>3. Expressions \subseteq T
    BY <1>1, <1>2, TreeInduction
<1> QED BY <1>3 DEF T

LEMMA PostfixParts ==
    ASSUME NEW e \in Expressions, ~Leaf(e)
    PROVE  \E l, r \in Nat \ {0} :
              /\ l = Len(Postfix[e.left]) /\ r = Len(Postfix[e.right])
              /\ Len(Postfix[e]) = l + r + 1
              /\ \A i \in 1..l : Postfix[e][i] = Postfix[e.left][i]
              /\ \A i \in 1..r : Postfix[e][l + i] = Postfix[e.right][i]
              /\ Postfix[e][l + r + 1] = [op |-> e.op]
<1>1. e.left \in Expressions /\ e.right \in Expressions /\ e.op \in Operators
    BY ExpressionParts
<1>2. PICK t \in Tokens : t = [op |-> e.op]
    BY <1>1 DEF Tokens
<1>3. PICK L \in Seq(Tokens), R \in Seq(Tokens) :
         /\ L = Postfix[e.left] /\ R = Postfix[e.right]
         /\ Len(L) \in Nat \ {0} /\ Len(R) \in Nat \ {0}
    BY <1>1, PostfixTyped
<1>4. PICK s \in Seq(Tokens) :
         /\ s = L \o R /\ Len(s) = Len(L) + Len(R)
         /\ \A i \in 1..Len(L) : s[i] = L[i]
         /\ \A i \in 1..Len(R) : s[Len(L) + i] = R[i]
    <2>1. /\ L \o R \in Seq(Tokens) /\ Len(L \o R) = Len(L) + Len(R)
          /\ \A i \in 1..Len(L) : (L \o R)[i] = L[i]
          /\ \A i \in 1..Len(R) : (L \o R)[Len(L) + i] = R[i]
        BY Joined
    <2> QED BY <2>1
<1>5. PICK p : p = s \o <<t>>
    OBVIOUS
<1>6. Len(p) = Len(s) + 1 /\ p[Len(s) + 1] = t /\ \A i \in 1..Len(s) : p[i] = s[i]
    BY <1>5, OneMore
<1>7. Postfix[e] = p
    <2>1. Postfix[e] = Postfix[e.left] \o Postfix[e.right] \o <<[op |-> e.op]>>
        BY PostfixOf
    <2> QED BY <1>2, <1>3, <1>4, <1>5, <2>1
<1>8. PICK l \in Nat \ {0}, r \in Nat \ {0} : l = Len(L) /\ r = Len(R)
    BY <1>3
<1>9. Len(p) = l + r + 1 /\ p[l + r + 1] = t
    BY <1>4, <1>6, <1>8
<1>10. \A i \in 1..l : p[i] = L[i]
    <2>1. \A i \in 1..l : i \in 1..Len(s)
        BY <1>4, <1>8
    <2> QED BY <1>4, <1>6, <1>8, <2>1
<1>11. \A i \in 1..r : p[l + i] = R[i]
    <2>1. \A i \in 1..r : l + i \in 1..Len(s)
        BY <1>4, <1>8
    <2> QED BY <1>4, <1>6, <1>8, <2>1
<1>12. /\ l = Len(Postfix[e.left]) /\ r = Len(Postfix[e.right])
       /\ Len(Postfix[e]) = l + r + 1
       /\ \A i \in 1..l : Postfix[e][i] = Postfix[e.left][i]
       /\ \A i \in 1..r : Postfix[e][l + i] = Postfix[e.right][i]
       /\ Postfix[e][l + r + 1] = [op |-> e.op]
    BY <1>2, <1>3, <1>7, <1>8, <1>9, <1>10, <1>11, Zenon
<1> QED BY <1>12

(* An operator on what two expressions come to.                            *)
Is(x, v) == ~x.dies /\ x.values \subseteq {v}

LEMMA NodeMeans ==
    ASSUME NEW op \in Operators, NEW b, NEW a, NEW isReal \in BOOLEAN,
           Quantity(b, isReal), Quantity(a, isReal),
           ~(op = "/" /\ ~isReal /\ a[1] = 0),
           NEW v \in Combined(op, b, a, isReal),
           NEW x, NEW y, Is(x, b), Is(y, a)
    PROVE  Quantity(v, isReal) /\ Is(Combine(op, x, y, isReal), v)
<1>0. ~x.dies /\ ~y.dies /\ x.values \subseteq {b} /\ y.values \subseteq {a}
    BY DEF Is
<1>1. Quantity(v, isReal)
    BY CombinedTyped
<1>2. ~(op = "/" /\ ~isReal /\ \E q \in y.values : q[1] = 0)
    BY <1>0
<1>3. \A w \in UNION {Arithmetic(op, p, q) : p \in x.values, q \in y.values} :
         v = IF isReal THEN w ELSE Whole(w)
    <2> SUFFICES ASSUME NEW p \in x.values, NEW q \in y.values, NEW w \in Arithmetic(op, p, q)
                 PROVE  v = IF isReal THEN w ELSE Whole(w)
        OBVIOUS
    <2>1. w \in Arithmetic(op, b, a)
        BY <1>0
    <2> QED BY <2>1, CombineMeans
<1> DEFINE all == UNION {Arithmetic(op, p, q) : p \in x.values, q \in y.values}
<1>4. Combine(op, x, y, isReal).values = IF isReal THEN all ELSE {Whole(w) : w \in all}
    BY <1>2 DEF Combine
<1>5. ~Combine(op, x, y, isReal).dies
    <2>1. Combine(op, x, y, isReal).dies =
             (x.dies \/ y.dies \/ (op = "/" /\ ~isReal /\ \E q \in y.values : q[1] = 0))
        BY DEF Combine
    <2> QED BY <1>0, <1>2, <2>1, Zenon
<1>6. \A w \in all : v = IF isReal THEN w ELSE Whole(w)
    BY <1>3
<1> HIDE DEF all
<1> QED BY <1>1, <1>4, <1>5, <1>6 DEF Is

LEMMA NodeDies ==
    ASSUME NEW op, NEW x, NEW y, NEW isReal,
           \/ x.dies \/ x.values = {} \/ y.dies \/ y.values = {}
           \/ op = "/" /\ ~isReal /\ \E q \in y.values : q[1] = 0
    PROVE  Combine(op, x, y, isReal).dies \/ Combine(op, x, y, isReal).values = {}
<1>1. CASE x.dies \/ y.dies \/ (op = "/" /\ ~isReal /\ \E q \in y.values : q[1] = 0)
    <2>1. Combine(op, x, y, isReal).dies =
             (x.dies \/ y.dies \/ (op = "/" /\ ~isReal /\ \E q \in y.values : q[1] = 0))
        BY DEF Combine
    <2> QED BY <1>1, <2>1, Zenon
<1>2. CASE x.values = {} \/ y.values = {}
    BY <1>2 DEF Combine
<1> QED BY <1>1, <1>2

LEMMA TwoOnTop ==
    ASSUME NEW S, NEW s \in Seq(S), NEW b \in S, NEW a \in S
    PROVE  /\ Front(Front(Append(Append(s, b), a))) = s
           /\ Last(Append(Append(s, b), a)) = a
           /\ Append(Append(s, b), a)[Len(Append(Append(s, b), a)) - 1] = b
<1>1. PICK u \in Seq(S) : u = Append(s, b) /\ Len(u) = Len(s) + 1 /\ u[Len(u)] = b
    <2>1. /\ Append(s, b) \in Seq(S) /\ Len(Append(s, b)) = Len(s) + 1
          /\ Append(s, b)[Len(s) + 1] = b
        OBVIOUS
    <2> QED BY <2>1
<1>2. Front(u) = s /\ Front(Append(u, a)) = u /\ Last(Append(u, a)) = a
    BY <1>1, FrontOfAppend
<1>3. Len(Append(u, a)) = Len(u) + 1 /\ Len(u) \in 1..Len(u) /\ (Len(u) + 1) - 1 = Len(u)
    BY <1>1
<1>4. Append(u, a)[Len(u)] = u[Len(u)]
    BY <1>3
<1> QED BY <1>1, <1>2, <1>3, <1>4

(* From token o + 1 on, the program of e turns the stack that was there    *)
(* into one with the value of e on top, unless it ends before: then a      *)
(* division of integers by zero shows that e has no value.                 *)
Within(P, e, o) == \A i \in 1..Len(Postfix[e]) : P[o + i] = Postfix[e][i]
Leaves(h, e, o, isReal, m) ==
    \E v : /\ Quantity(v, isReal) /\ h[o + Len(Postfix[e])] = Append(h[o], v)
           /\ Is(m, v)
Stuck(P, h, n, isReal) == P[n + 1].op = "/" /\ ~isReal /\ Last(h[n])[1] = 0
Ran(P, h, n, isReal, e, o, m) ==
    /\ o + Len(Postfix[e]) <= n => Leaves(h, e, o, isReal, m)
    /\ n < o + Len(Postfix[e]) /\ Stuck(P, h, n, isReal) => m.dies \/ m.values = {}

LEMMA LeafRuns ==
    ASSUME NEW P, NEW h, NEW n \in Nat, NEW k \in Int, NEW isReal \in BOOLEAN,
           NEW e \in Expressions, Leaf(e), NEW o \in 0..n, Within(P, e, o),
           o < n => Turns(P, <<k, 1>>, isReal, o + 1, h[o], h[o + 1])
    PROVE  Ran(P, h, n, isReal, e, o, Evaluation(k, isReal)[e])
<1>1. Postfix[e] = <<e>> /\ Len(<<e>>) = 1 /\ <<e>>[1] = e
    BY PostfixOf
<1>2. Len(Postfix[e]) = 1 /\ P[o + 1] = e
    BY <1>1 DEF Within
<1>3. e.op \in {"N", "number"} /\ IsOperand(e) /\ e.op \notin Operators /\ e.op # "/"
    BY DEF Leaf, IsOperand, Operators
<1>4. PICK v : /\ v = IF e.op = "N" THEN <<k, 1>> ELSE Pushed(e.value, isReal)
               /\ Quantity(v, isReal) /\ Evaluation(k, isReal)[e] = Known(v)
    <2>1. CASE e.op = "N"
        BY <2>1, EvaluationOf, QuantityMade
    <2>2. CASE e.op = "number"
        <3>1. e.value \in Int \X (Nat \ {0})
            BY <2>2, ExpressionParts
        <3>2. e.value \in Int \X Nat /\ e.value[2] # 0
            BY <3>1
        <3>3. Pushed(e.value, isReal) = IF isReal THEN e.value ELSE Whole(e.value)
            BY DEF Pushed, Whole
        <3>4. Quantity(Pushed(e.value, isReal), isReal)
            BY <3>2, PushedTyped
        <3>5. Evaluation(k, isReal)[e] = Known(Pushed(e.value, isReal))
            BY <2>2, <3>3, EvaluationOf
        <3> QED BY <2>2, <3>4, <3>5
    <2> QED BY <1>3, <2>1, <2>2
<1>5. Is(Known(v), v)
    BY DEF Known, Is
<1>6. ASSUME o + 1 <= n PROVE h[o + 1] = Append(h[o], v)
    BY <1>2, <1>3, <1>4, <1>6 DEF Turns
<1>7. ASSUME n < o + 1, Stuck(P, h, n, isReal) PROVE FALSE
    <2>1. n = o
        BY <1>7
    <2> QED BY <1>2, <1>3, <1>7, <2>1 DEF Stuck
<1> QED BY <1>2, <1>4, <1>5, <1>6, <1>7 DEF Ran, Leaves

LEMMA NodeRuns ==
    ASSUME NEW P, NEW h, NEW n \in Nat, NEW k \in Int, NEW isReal \in BOOLEAN,
           \A i \in 1..n : Turns(P, <<k, 1>>, isReal, i, h[i - 1], h[i]),
           NEW e \in Expressions, ~Leaf(e), NEW o \in 0..n, h[o] \in Seq(Int \X Nat),
           Within(P, e, o),
           Ran(P, h, n, isReal, e.left, o, Evaluation(k, isReal)[e.left]),
           \A a \in 0..n : h[a] \in Seq(Int \X Nat) /\ Within(P, e.right, a) =>
               Ran(P, h, n, isReal, e.right, a, Evaluation(k, isReal)[e.right])
    PROVE  Ran(P, h, n, isReal, e, o, Evaluation(k, isReal)[e])
<1>1. PICK x, y, m :
         /\ x = Evaluation(k, isReal)[e.left] /\ y = Evaluation(k, isReal)[e.right]
         /\ m = Combine(e.op, x, y, isReal) /\ m = Evaluation(k, isReal)[e]
    <2>1. e.op \notin {"N", "number"}
        BY DEF Leaf
    <2>2. Evaluation(k, isReal)[e] = Combine(e.op, Evaluation(k, isReal)[e.left],
                                             Evaluation(k, isReal)[e.right], isReal)
        BY <2>1, EvaluationOf
    <2> QED BY <2>2
<1>2. PICK l \in Nat \ {0}, r \in Nat \ {0} :
         /\ l = Len(Postfix[e.left]) /\ r = Len(Postfix[e.right])
         /\ Len(Postfix[e]) = l + r + 1
         /\ \A i \in 1..l : Postfix[e][i] = Postfix[e.left][i]
         /\ \A i \in 1..r : Postfix[e][l + i] = Postfix[e.right][i]
         /\ Postfix[e][l + r + 1] = [op |-> e.op]
    BY PostfixParts
<1>3. e.op \in Operators
    BY ExpressionParts
<1>4. PICK a \in Nat, b \in Nat :
         /\ a = o + l /\ b = a + r
         /\ o + Len(Postfix[e.left]) = a /\ a + Len(Postfix[e.right]) = b
         /\ o + Len(Postfix[e]) = b + 1
    <2>1. o + l \in Nat /\ (o + l) + r \in Nat /\ o + (l + r + 1) = ((o + l) + r) + 1
        OBVIOUS
    <2> QED BY <1>2, <2>1
<1>12. a = o + l /\ b = a + r /\ l >= 1 /\ r >= 1 /\ l \in Nat /\ r \in Nat /\ o \in Nat
    <2>1. a = o + l /\ b = a + r
        BY <1>4
    <2> QED BY <2>1
<1>5. P[b + 1] = [op |-> e.op] /\ Within(P, e.right, a)
    <2>0. PICK L \in Nat : L = l + r + 1 /\ L = Len(Postfix[e])
        <3>1. l + r + 1 \in Nat
            BY <1>12
        <3>2. l + r + 1 = Len(Postfix[e])
            BY <1>2, Zenon
        <3> QED BY <3>1, <3>2, Zenon
    <2>4. L = l + r + 1
        BY <2>0
    <2>1. l + r + 1 \in 1..L /\ o + (l + r + 1) = b + 1
        BY <1>12, <2>4
    <2>2. ASSUME NEW i \in 1..r PROVE P[a + i] = Postfix[e.right][i]
        <3>1. l + i \in 1..L /\ o + (l + i) = a + i
            <4>1. i \in Nat /\ i >= 1 /\ i <= r
                BY <1>12
            <4>2. l + i \in Nat /\ l + i >= 1 /\ l + i <= L
                BY <1>12, <2>4, <4>1
            <4>3. o + (l + i) = a + i
                BY <1>12, <4>1
            <4> QED BY <4>2, <4>3
        <3>2. P[o + (l + i)] = Postfix[e][l + i]
            BY <2>0, <3>1 DEF Within
        <3> QED BY <1>2, <3>1, <3>2
    <2>3. P[o + (l + r + 1)] = Postfix[e][l + r + 1]
        BY <2>0, <2>1 DEF Within
    <2> QED BY <1>2, <2>1, <2>2, <2>3 DEF Within
<1>6. /\ a <= n => \E v : /\ Quantity(v, isReal) /\ h[a] = Append(h[o], v)
                           /\ Is(x, v)
      /\ n < a /\ Stuck(P, h, n, isReal) => x.dies \/ x.values = {}
    BY <1>1, <1>4, Zenon DEF Ran, Leaves
<1>7. ASSUME NEW v, Quantity(v, isReal), h[a] = Append(h[o], v), a <= n
      PROVE  /\ b <= n => \E w : /\ Quantity(w, isReal) /\ h[b] = Append(h[a], w)
                                  /\ Is(y, w)
             /\ n < b /\ Stuck(P, h, n, isReal) => y.dies \/ y.values = {}
    <2>1. v \in Int \X Nat
        BY <1>7 DEF Quantity
    <2>2. Append(h[o], v) \in Seq(Int \X Nat) /\ a \in 0..n
        BY <1>7, <2>1
    <2>3. Ran(P, h, n, isReal, e.right, a, y)
        BY <1>1, <1>5, <1>7, <2>2, Zenon
    <2> QED BY <1>4, <2>3, Zenon DEF Ran, Leaves
<1>8. ASSUME NEW v, NEW w, Quantity(v, isReal), Quantity(w, isReal),
             h[b] = Append(Append(h[o], v), w)
      PROVE  Front(Front(h[b])) = h[o] /\ Last(h[b]) = w /\ h[b][Len(h[b]) - 1] = v
    <2>1. v \in Int \X Nat /\ w \in Int \X Nat
        BY <1>8 DEF Quantity
    <2>2. PICK s \in Seq(Int \X Nat) : s = h[o]
        OBVIOUS
    <2>4. PICK t : t = Append(Append(s, v), w)
        OBVIOUS
    <2>3. Front(Front(t)) = s /\ Last(t) = w /\ t[Len(t) - 1] = v
        <3>1. PICK S : S = Int \X Nat
            OBVIOUS
        <3>2. s \in Seq(S) /\ v \in S /\ w \in S
            BY <2>1, <3>1
        <3> QED BY <2>4, <3>2, TwoOnTop
    <2> QED BY <1>8, <2>2, <2>3, <2>4
<1>9. CASE b + 1 <= n
    <2>0. a <= n /\ b <= n
        BY <1>9, <1>12
    <2>1. PICK v : /\ Quantity(v, isReal) /\ h[a] = Append(h[o], v)
                   /\ Is(x, v)
        BY <1>6, <2>0, Zenon
    <2>2. PICK w : /\ Quantity(w, isReal) /\ h[b] = Append(h[a], w)
                   /\ Is(y, w)
        BY <1>7, <2>0, <2>1, Zenon
    <2>4. Front(Front(h[b])) = h[o] /\ Last(h[b]) = w /\ h[b][Len(h[b]) - 1] = v
        BY <1>8, <2>1, <2>2
    <2>5. Turns(P, <<k, 1>>, isReal, b + 1, h[b], h[b + 1])
        <3>1. b + 1 \in 1..n /\ (b + 1) - 1 = b
            BY <1>9
        <3> QED BY <3>1
    <2>6. P[b + 1].op = e.op /\ ~IsOperand(P[b + 1])
        BY <1>3, <1>5 DEF IsOperand, Operators
    <2>7. PICK u \in Combined(e.op, v, w, isReal) :
             ~(e.op = "/" /\ ~isReal /\ w[1] = 0) /\ h[b + 1] = Append(h[o], u)
        BY <2>4, <2>5, <2>6 DEF Turns
    <2>8. Quantity(u, isReal) /\ Is(Combine(e.op, x, y, isReal), u)
        <3>1. PICK op \in Operators : op = e.op
            BY <1>3
        <3>2. u \in Combined(op, v, w, isReal) /\ ~(op = "/" /\ ~isReal /\ w[1] = 0)
            BY <2>7, <3>1
        <3>3. Quantity(u, isReal) /\ Is(Combine(op, x, y, isReal), u)
            BY <2>1, <2>2, <3>2, NodeMeans
        <3> QED BY <3>1, <3>3, Zenon
    <2>9. Leaves(h, e, o, isReal, m)
        BY <1>1, <1>4, <2>7, <2>8, Zenon DEF Leaves
    <2>10. ~(n < b + 1)
        BY <1>9
    <2> QED BY <1>1, <1>4, <2>9, <2>10, Zenon DEF Ran
<1>10. CASE n < b + 1
    <2>1. ASSUME Stuck(P, h, n, isReal) PROVE m.dies \/ m.values = {}
        <3>1. ASSUME \/ x.dies \/ x.values = {} \/ y.dies \/ y.values = {}
                     \/ e.op = "/" /\ ~isReal /\ \E q \in y.values : q[1] = 0
              PROVE  m.dies \/ m.values = {}
            <4>1. Combine(e.op, x, y, isReal).dies \/ Combine(e.op, x, y, isReal).values = {}
                BY <3>1, NodeDies, Zenon
            <4> QED BY <1>1, <4>1, Zenon
        <3>2. CASE n < a
            BY <1>6, <2>1, <3>1, <3>2, Zenon
        <3>3. ASSUME a <= n, NEW v, Quantity(v, isReal), h[a] = Append(h[o], v)
              PROVE  m.dies \/ m.values = {}
            <4>1. CASE n < b
                BY <1>7, <2>1, <3>1, <3>3, <4>1, Zenon
            <4>2. CASE n = b
                <5>1. b <= n
                    BY <4>2
                <5>2. PICK w : /\ Quantity(w, isReal) /\ h[b] = Append(h[a], w)
                               /\ Is(y, w)
                    BY <1>7, <3>3, <5>1, Zenon
                <5>3. Last(h[b]) = w
                    BY <1>8, <3>3, <5>2
                <5>4. e.op = "/" /\ ~isReal /\ w[1] = 0
                    BY <1>5, <2>1, <4>2, <5>3 DEF Stuck
                <5>5. y.values = {} \/ \E q \in y.values : q[1] = 0
                    BY <5>2, <5>4 DEF Is
                <5> QED BY <3>1, <5>4, <5>5, Zenon
            <4>3. n < b \/ n = b
                BY <1>10
            <4> QED BY <4>1, <4>2, <4>3
        <3>4. n < a \/ a <= n
            OBVIOUS
        <3> QED BY <1>6, <3>2, <3>3, <3>4, Zenon
    <2>2. ~(b + 1 <= n)
        BY <1>10
    <2> QED BY <1>1, <1>4, <2>1, <2>2, Zenon DEF Ran
<1>11. b + 1 <= n \/ n < b + 1
    OBVIOUS
<1> QED BY <1>9, <1>10, <1>11

LEMMA RunMeans ==
    ASSUME NEW P, NEW h, NEW n \in Nat, NEW k \in Int, NEW isReal \in BOOLEAN,
           \A i \in 1..n : Turns(P, <<k, 1>>, isReal, i, h[i - 1], h[i]),
           NEW e \in Expressions, NEW o \in 0..n, h[o] \in Seq(Int \X Nat), Within(P, e, o)
    PROVE  Ran(P, h, n, isReal, e, o, Evaluation(k, isReal)[e])
<1> DEFINE T == {x \in Expressions : \A a \in 0..n :
                    h[a] \in Seq(Int \X Nat) /\ Within(P, x, a) =>
                        Ran(P, h, n, isReal, x, a, Evaluation(k, isReal)[x])}
<1>1. ASSUME NEW x \in Expressions, Leaf(x) PROVE x \in T
    <2> SUFFICES ASSUME NEW a \in 0..n, h[a] \in Seq(Int \X Nat), Within(P, x, a)
                 PROVE  Ran(P, h, n, isReal, x, a, Evaluation(k, isReal)[x])
        OBVIOUS
    <2>1. ASSUME a < n PROVE Turns(P, <<k, 1>>, isReal, a + 1, h[a], h[a + 1])
        <3>1. a + 1 \in 1..n /\ (a + 1) - 1 = a
            BY <2>1
        <3> QED BY <3>1
    <2> QED BY <1>1, <2>1, LeafRuns
<1>2. ASSUME NEW x \in Expressions, ~Leaf(x), x.left \in T, x.right \in T PROVE x \in T
    <2> SUFFICES ASSUME NEW a \in 0..n, h[a] \in Seq(Int \X Nat), Within(P, x, a)
                 PROVE  Ran(P, h, n, isReal, x, a, Evaluation(k, isReal)[x])
        OBVIOUS
    <2>1. Within(P, x.left, a)
        <3>1. PICK l \in Nat \ {0}, r \in Nat \ {0} :
                 /\ l = Len(Postfix[x.left]) /\ Len(Postfix[x]) = l + r + 1
                 /\ \A i \in 1..l : Postfix[x][i] = Postfix[x.left][i]
            BY <1>2, PostfixParts
        <3>2. \A i \in 1..l : i \in 1..Len(Postfix[x])
            BY <3>1
        <3> QED BY <3>1, <3>2 DEF Within
    <2>2. Ran(P, h, n, isReal, x.left, a, Evaluation(k, isReal)[x.left])
        BY <1>2, <2>1
    <2>3. \A b \in 0..n : h[b] \in Seq(Int \X Nat) /\ Within(P, x.right, b) =>
             Ran(P, h, n, isReal, x.right, b, Evaluation(k, isReal)[x.right])
        BY <1>2
    <2> HIDE DEF T
    <2> QED BY <1>2, <2>2, <2>3, NodeRuns
<1> HIDE DEF T
<1>3. Expressions \subseteq T
    BY <1>1, <1>2, TreeInduction
<1> QED BY <1>3 DEF T

-----------------------------------------------------------------------------
(* What the tester has of a field that was sent: its definition, and its   *)
(* bytes if the reply holds all of them.                                   *)
Defined(r, f) ==
    /\ job \in Jobs /\ r \in job.results /\ f = FieldOf(r) /\ Meaningful(f)
    /\ r.type = DefOf(f).type /\ r.display = DefOf(f).display
    /\ r.length = DefOf(f).length /\ r.mask = DefOf(f).mask
    /\ r.levels = DefOf(f).levels /\ r.rpn = DefOf(f).rpn /\ r.table = DefOf(f).table
Sends(r, f) ==
    /\ Defined(r, f) /\ packet.data \in Seq(Bytes)
    /\ InRange(r) /\ Field(r) = BytesOf(f, job.bigEndian)

LEMMA FieldDefined ==
    ASSUME job \in Jobs, NEW r \in job.results
    PROVE  /\ Defined(r, FieldOf(r))
           /\ Complete(job, r) =>
                 SubSeq(job.sent.data, r.start + 1, r.start + r.length)
                    = BytesOf(FieldOf(r), job.bigEndian)
<1>1. PICK f : f = job.fields[r.name]
    OBVIOUS
<1>2. /\ Meaningful(f) /\ r = At(DefOf(f), r.name, r.start)
      /\ Complete(job, r) =>
            SubSeq(job.sent.data, r.start + 1, r.start + r.length) = BytesOf(f, job.bigEndian)
    BY <1>1, MeaningAssumption
<1>3. PICK d, n, s : d = DefOf(f) /\ n = r.name /\ s = r.start
    OBVIOUS
<1>4. /\ At(d, n, s).type = d.type /\ At(d, n, s).display = d.display
      /\ At(d, n, s).length = d.length /\ At(d, n, s).mask = d.mask
      /\ At(d, n, s).levels = d.levels /\ At(d, n, s).rpn = d.rpn /\ At(d, n, s).table = d.table
    BY DEF At
<1>5. r = At(d, n, s)
    BY <1>2, <1>3
<1>6. /\ r.type = d.type /\ r.display = d.display /\ r.length = d.length /\ r.mask = d.mask
      /\ r.levels = d.levels /\ r.rpn = d.rpn /\ r.table = d.table
    BY <1>4, <1>5, Zenon
<1> QED BY <1>1, <1>2, <1>3, <1>6 DEF Defined, FieldOf

LEMMA FieldSent ==
    ASSUME DecoderInv, packet # NoPacket, NEW r \in job.results
    PROVE  /\ InRange(r) <=> Complete(job, r)
           /\ InRange(r) => Sends(r, FieldOf(r))
<1>1. job \in Jobs /\ packet.data \in Seq(Bytes) /\ stage \notin {"line", "ds2"}
    BY DEF DecoderInv, DecodeInv, Types, PacketInv
<1>2. packet = job.sent
    <2>1. FramesChecked
        BY FramesCheckedNow
    <2>2. LineOf(job)
        BY <1>1, SentIsPacket
    <2> QED BY <1>1, <2>1, <2>2 DEF FramesChecked, LineOf
<1>3. PICK s \in Nat, n \in Nat, l \in Nat :
         s = r.start /\ n = r.length /\ l = Len(packet.data)
    BY <1>1, ResultTyped
<1>4. s + n - 1 < l <=> s + n <= l
    OBVIOUS
<1>5. InRange(r) <=> Complete(job, r)
    BY <1>2, <1>3, <1>4 DEF InRange, Complete, Data
<1>6. Field(r) = SubSeq(job.sent.data, r.start + 1, r.start + r.length)
    BY <1>2 DEF Field, Data
<1> QED BY <1>1, <1>5, <1>6, FieldDefined DEF Sends

(* A field of one byte.                                                    *)
LEMMA ByteHeld ==
    ASSUME job \in Jobs, NEW r \in job.results, packet.data \in Seq(Bytes), InRange(r),
           r.length = 1, NEW n, Field(r) = <<n>>
    PROVE  n \in Bytes /\ Data[r.start + 1] = n /\ (r.mask = 255 => Masked(r) = n)
<1>1. r.start \in Nat
    BY ResultTyped
<1>2. PICK s \in Seq(Bytes), i \in Nat : s = packet.data /\ i = r.start
    BY <1>1
<1>3. i + 1 \in 1..Len(s)
    BY <1>2 DEF InRange, Data
<1>4. SubSeq(s, i + 1, i + 1)[1] = s[i + 1] /\ s[i + 1] \in Bytes
    BY <1>3
<1>5. Field(r) = SubSeq(s, i + 1, i + 1)
    BY <1>2 DEF Field, Data
<1>6. s[i + 1] = n
    <2>1. <<n>>[1] = n
        OBVIOUS
    <2> QED BY <1>4, <1>5, <2>1
<1>7. Data[r.start + 1] = n
    BY <1>2, <1>6 DEF Data
<1>8. n \in Bytes
    BY <1>4, <1>6
<1>9. BitAnd(n, 255) = n
    BY <1>8, WholeByte
<1> QED BY <1>7, <1>8, <1>9 DEF Masked

LEMMA NoProgram ==
    ASSUME NEW r, r.rpn = <<>>, NEW isReal, NEW q, ComesTo(r, isReal, q)
    PROVE  q = Argument(r)
BY DEF ComesTo

(* A byte without a program that is shown as it is.                        *)
LEMMA PlainByte ==
    ASSUME NEW r, NEW f, Sends(r, f), r.type = "byte", r.length = 1, r.mask = 255,
           r.rpn = <<>>, r.display # "float", NEW n, BytesOf(f, job.bigEndian) = <<n>>,
           NEW v, Meant(r, v)
    PROVE  n \in Bytes /\ Masked(r) = n /\ v \in ByteValues(r, n)
<1>1. n \in Bytes /\ Masked(r) = n
    BY ByteHeld DEF Sends, Defined
<1>2. Numeric(r) /\ ~Short(r) /\ ~AsReal(r)
    BY DEF Numeric, Short, AsReal
<1>3. PICK q : ComesTo(r, AsReal(r), q) /\ v \in FinalValues(r, AsReal(r), q)
    BY <1>2 DEF Meant
<1>4. q = Argument(r)
    BY <1>3, NoProgram
<1>5. Argument(r) = <<Masked(r), 1>>
    BY <1>2 DEF Argument
<1>6. q[1] = n
    BY <1>1, <1>4, <1>5
<1>7. v \in ByteValues(r, q[1])
    BY <1>2, <1>3 DEF FinalValues
<1> QED BY <1>1, <1>6, <1>7

LEMMA HexAsMeant ==
    ASSUME NEW r, NEW f, Sends(r, f), f.kind = "hex", NEW v, Meant(r, v)
    PROVE  AsMeant(v, f)
<1>1. DefOf(f) = Definition("byte", "hex_string", 1) /\ BytesOf(f, job.bigEndian) = <<f.n>>
      /\ MeantBy(f) = {Text(Prefix0x \o Hex(f.n))}
    BY DEF DefOf, BytesOf, MeantBy
<1>2. /\ r.type = "byte" /\ r.length = 1 /\ r.mask = 255 /\ r.rpn = <<>>
      /\ r.display = "hex_string"
    BY <1>1 DEF Sends, Defined, Definition
<1>3. PICK n : n = f.n
    OBVIOUS
<1>4. Masked(r) = n /\ v \in ByteValues(r, n)
    BY <1>1, <1>2, <1>3, PlainByte
<1>5. v = Text(Prefix0x \o Hex(n))
    BY <1>2, <1>4 DEF ByteValues, Prefix0x
<1> QED BY <1>1, <1>3, <1>5 DEF AsMeant

LEMMA BcdAsMeant ==
    ASSUME NEW r, NEW f, Sends(r, f), f.kind = "bcd", NEW v, Meant(r, v)
    PROVE  AsMeant(v, f)
<1>1. /\ DefOf(f) = Definition("byte", "hex_int", 1)
      /\ BytesOf(f, job.bigEndian) = <<16 * (f.n \div 10) + (f.n % 10)>>
      /\ MeantBy(f) = {Number(<<f.n, 1>>)}
    BY DEF DefOf, BytesOf, MeantBy
<1>2. /\ r.type = "byte" /\ r.length = 1 /\ r.mask = 255 /\ r.rpn = <<>>
      /\ r.display = "hex_int"
    BY <1>1 DEF Sends, Defined, Definition
<1>3. PICK n \in 0..99 : n = f.n
    <2>1. Meaningful(f)
        BY DEF Sends, Defined
    <2>2. f.n \in 0..99
        BY <2>1, Zenon DEF Meaningful
    <2> QED BY <2>2
<1>4. PICK b : b = 16 * (n \div 10) + (n % 10)
    OBVIOUS
<1>5. Masked(r) = b /\ v \in ByteValues(r, b)
    <2>1. BytesOf(f, job.bigEndian) = <<b>>
        BY <1>1, <1>3, <1>4, Zenon
    <2> QED BY <1>2, <2>1, PlainByte
<1>6. v = Number(<<Decimal(Hex(b)), 1>>)
    BY <1>2, <1>5 DEF ByteValues
<1>7. Decimal(Hex(b)) = n
    BY <1>4, DecimalOfByte
<1> QED BY <1>1, <1>3, <1>6, <1>7 DEF AsMeant

LEMMA TableAsMeant ==
    ASSUME NEW r, NEW f, Sends(r, f), f.kind = "table", NEW v, Meant(r, v)
    PROVE  AsMeant(v, f)
<1>1. /\ DefOf(f).type = "byte" /\ DefOf(f).display = "string_table" /\ DefOf(f).length = 1
      /\ DefOf(f).mask = 255 /\ DefOf(f).rpn = <<>> /\ DefOf(f).table = f.table
      /\ BytesOf(f, job.bigEndian) = <<f.n>>
    BY DEF DefOf, BytesOf, Definition
<1>2. /\ r.type = "byte" /\ r.length = 1 /\ r.mask = 255 /\ r.rpn = <<>>
      /\ r.display = "string_table" /\ r.table = f.table
    BY <1>1 DEF Sends, Defined
<1>3. PICK n : n = f.n
    OBVIOUS
<1>4. Masked(r) = n /\ v \in ByteValues(r, n)
    BY <1>1, <1>2, <1>3, PlainByte
<1>5. v \in IF Looked(r.table, n) = {} THEN {Text(Prefix0x \o Hex(n))}
            ELSE {Shown(Looked(r.table, n))}
    BY <1>2, <1>4 DEF ByteValues, Prefix0x
<1>6. MeantBy(f) = {IF f.table \in DOMAIN Tables /\ f.n \in DOMAIN Tables[f.table]
                    THEN Shown({Tables[f.table][f.n]}) ELSE Text(Prefix0x \o Hex(f.n))}
    BY DEF MeantBy
<1>7. MeantBy(f) = {v}
    <2>1. CASE f.table \in DOMAIN Tables /\ n \in DOMAIN Tables[f.table]
        <3>1. PICK t : t = Tables[f.table][n]
            OBVIOUS
        <3>2. Looked(r.table, n) = {t}
            BY <1>2, <2>1, <3>1 DEF Looked
        <3>3. v = Shown({t})
            <4>1. {t} # {}
                OBVIOUS
            <4> QED BY <1>5, <3>2, <4>1, Zenon
        <3>4. MeantBy(f) = {Shown({t})}
            BY <1>3, <1>6, <2>1, <3>1, Zenon
        <3> QED BY <3>3, <3>4, Zenon
    <2>2. CASE ~(f.table \in DOMAIN Tables /\ n \in DOMAIN Tables[f.table])
        <3>1. Looked(r.table, n) = {}
            BY <1>2, <2>2 DEF Looked
        <3>2. v = Text(Prefix0x \o Hex(n))
            BY <1>5, <3>1
        <3>3. MeantBy(f) = {Text(Prefix0x \o Hex(n))}
            BY <1>3, <1>6, <2>2
        <3> QED BY <3>2, <3>3, Zenon
    <2> QED BY <2>1, <2>2
<1> QED BY <1>7 DEF AsMeant

(* Labels: those of the masks whose bit is set.                            *)
LEMMA FlagsAsMeant ==
    ASSUME NEW r, NEW f, Sends(r, f), f.kind = "flags", NEW v, Meant(r, v)
    PROVE  AsMeant(v, f)
<1> DEFINE maskOf(x) == [mask |-> Power[x.bit], label |-> x.label]
           masks == {maskOf(x) : x \in f.flags}
           level == ByteOf(f.on)
           chosen == {m \in masks : BitAnd(level, m.mask) > 0}
           lit == {x \in f.flags : x.bit \in f.on}
<1>1. /\ DefOf(f).type = "byte" /\ DefOf(f).display = "enum" /\ DefOf(f).length = 1
      /\ DefOf(f).mask = 255 /\ DefOf(f).rpn = <<>>
      /\ DefOf(f).levels = [special |-> f.special, masks |-> masks]
      /\ BytesOf(f, job.bigEndian) = <<level>>
    <2>1. PICK l : l = [special |-> f.special, masks |-> masks]
        OBVIOUS
    <2>2. DefOf(f) = [Definition("byte", "enum", 1) EXCEPT !.levels = l]
        BY <2>1, Zenon DEF DefOf
    <2>3. BytesOf(f, job.bigEndian) = <<level>>
        BY DEF BytesOf
    <2> HIDE DEF masks, level
    <2>4. /\ DefOf(f).type = "byte" /\ DefOf(f).display = "enum" /\ DefOf(f).length = 1
          /\ DefOf(f).mask = 255 /\ DefOf(f).rpn = <<>> /\ DefOf(f).levels = l
        BY <2>2 DEF Definition
    <2> QED BY <2>1, <2>3, <2>4, Zenon
<1>5. PICK n : n = level
    OBVIOUS
<1>0. \A x : maskOf(x).mask = Power[x.bit] /\ maskOf(x).label = x.label
    OBVIOUS
<1> HIDE DEF maskOf
<1>2. /\ r.type = "byte" /\ r.length = 1 /\ r.mask = 255 /\ r.rpn = <<>>
      /\ r.display = "enum" /\ r.levels = [special |-> f.special, masks |-> masks]
    BY <1>1, Zenon DEF Sends, Defined
<1>3. FlagsField(f)
    <2>1. Meaningful(f)
        BY DEF Sends, Defined
    <2> QED BY <2>1, Zenon DEF Meaningful
<1>4. /\ \A x \in f.flags : x.bit \in 0..7
      /\ DOMAIN f.special \subseteq {"else", "all", "none"}
    BY <1>3 DEF FlagsField
<1>6. n \in Bytes /\ v \in ByteValues(r, n)
    <2>1. BytesOf(f, job.bigEndian) = <<n>> /\ r.display # "float"
        BY <1>1, <1>2, <1>5
    <2> QED BY <1>2, <2>1, PlainByte
<1>7. n % 256 = n
    BY <1>6 DEF Bytes
<1>8. v = Shown(Labels(r.levels, level))
    <2>1. v \in {Shown(Labels(r.levels, n % 256))}
        BY <1>2, <1>6 DEF ByteValues
    <2> QED BY <1>5, <1>7, <2>1
<1>9. \A x \in f.flags : BitAnd(level, maskOf(x).mask) > 0 <=> x \in lit
    <2> SUFFICES ASSUME NEW x \in f.flags PROVE BitAnd(level, maskOf(x).mask) > 0 <=> x \in lit
        OBVIOUS
    <2>1. PICK k \in 0..7 : k = x.bit
        BY <1>4
    <2>2. BitAnd(level, Power[k]) > 0 <=> k \in f.on
        BY BitsThatAreSet
    <2> QED BY <1>0, <2>1, <2>2
<1> HIDE DEF level
<1>10. chosen = {maskOf(x) : x \in lit}
    BY <1>9
<1>11. chosen = {} <=> lit = {}
    BY <1>10
<1>12. chosen = masks <=> lit = f.flags
    <2>1. ASSUME chosen = masks, NEW x \in f.flags PROVE x \in lit
        <3>1. maskOf(x) \in chosen
            BY <2>1
        <3> QED BY <1>9, <3>1
    <2>2. ASSUME lit = f.flags PROVE chosen = masks
        BY <1>10, <2>2
    <2>3. lit \subseteq f.flags
        OBVIOUS
    <2> QED BY <2>1, <2>2, <2>3
<1>13. {m.label : m \in chosen} = {x.label : x \in lit}
    <2> HIDE DEF lit
    <2> HIDE DEF chosen
    <2>1. ASSUME NEW m \in chosen PROVE m.label \in {x.label : x \in lit}
        BY <1>0, <1>10
    <2>2. ASSUME NEW x \in lit PROVE x.label \in {m.label : m \in chosen}
        <3>1. maskOf(x) \in chosen /\ maskOf(x).label = x.label
            BY <1>0, <1>10
        <3> QED BY <3>1
    <2> QED BY <2>1, <2>2
<1>14. Labels(r.levels, level) =
          IF lit = {} /\ "else" \in DOMAIN f.special THEN {f.special["else"]}
          ELSE IF lit # {} /\ lit = f.flags /\ "all" \in DOMAIN f.special
          THEN {f.special["all"]} ELSE {x.label : x \in lit}
    <2>1. r.levels.special = f.special /\ r.levels.masks = masks
        BY <1>2
    <2>2. ~(DOMAIN f.special = {"yes", "no"} /\ masks = {})
        BY <1>4
    <2> HIDE DEF masks, lit
    <2>3. Labels(r.levels, level) =
             CASE chosen = {} /\ "else" \in DOMAIN f.special -> {f.special["else"]}
               [] chosen # {} /\ chosen = masks /\ "all" \in DOMAIN f.special ->
                     {f.special["all"]}
               [] OTHER -> {m.label : m \in chosen}
        BY <2>1, <2>2 DEF Labels
    <2> HIDE DEF chosen
    <2> QED BY <1>11, <1>12, <1>13, <2>3
<1>15. MeantBy(f) = IF UsesNone(f) THEN {} ELSE {Shown(
          IF lit = {} /\ "else" \in DOMAIN f.special THEN {f.special["else"]}
          ELSE IF lit # {} /\ lit = f.flags /\ "all" \in DOMAIN f.special
          THEN {f.special["all"]} ELSE {x.label : x \in lit})}
    BY DEF MeantBy
<1> HIDE DEF lit
<1>16. MeantBy(f) \subseteq {v}
    BY <1>8, <1>14, <1>15
<1> QED BY <1>16 DEF AsMeant

(* One bit of a byte.                                                      *)
LEMMA BitHeld ==
    ASSUME NEW r, NEW f, Sends(r, f), r.length = 1, NEW on, NEW bit \in 0..7,
           r.mask = Power[bit], BytesOf(f, job.bigEndian) = <<ByteOf(on)>>
    PROVE  BitAnd(Data[r.start + 1], r.mask) > 0 <=> bit \in on
<1>1. PICK n : n = ByteOf(on)
    OBVIOUS
<1>2. Data[r.start + 1] = n
    BY <1>1, ByteHeld DEF Sends, Defined
<1>3. BitAnd(ByteOf(on), Power[bit]) > 0 <=> bit \in on
    BY BitsThatAreSet
<1> QED BY <1>1, <1>2, <1>3

LEMMA SwitchAsMeant ==
    ASSUME NEW r, NEW f, Sends(r, f), f.kind \in {"switch", "truth"}, NEW v, Meant(r, v)
    PROVE  AsMeant(v, f)
<1>0. Meaningful(f)
    BY DEF Sends, Defined
<1>1. PICK k \in 0..7 : k = f.bit
    BY <1>0 DEF Meaningful
<1>2. /\ DefOf(f).type = "boolean" /\ DefOf(f).length = 1 /\ DefOf(f).mask = Power[f.bit]
      /\ DefOf(f).display = IF f.kind = "switch" THEN "string" ELSE "raw"
      /\ BytesOf(f, job.bigEndian) = <<ByteOf(f.on)>>
    <2>1. BytesOf(f, job.bigEndian) = <<ByteOf(f.on)>>
        BY DEF BytesOf
    <2>2. CASE f.kind = "switch"
        <3>1. PICK l : l = [special |-> [x \in {"yes", "no"} |->
                                            IF x = "yes" THEN f.yes ELSE f.no],
                            masks |-> {}]
            OBVIOUS
        <3>2. DefOf(f) = [Definition("boolean", "string", 1)
                             EXCEPT !.mask = Power[f.bit], !.levels = l]
            BY <2>2, <3>1, Zenon DEF DefOf
        <3>3. /\ DefOf(f).type = "boolean" /\ DefOf(f).length = 1 /\ DefOf(f).display = "string"
              /\ DefOf(f).mask = Power[f.bit]
            BY <3>2 DEF Definition
        <3> QED BY <2>1, <2>2, <3>3, Zenon
    <2>3. CASE f.kind = "truth"
        <3>1. DefOf(f) = [Definition("boolean", "raw", 1) EXCEPT !.mask = Power[f.bit]]
            BY <2>3, Zenon DEF DefOf
        <3>2. /\ DefOf(f).type = "boolean" /\ DefOf(f).length = 1 /\ DefOf(f).display = "raw"
              /\ DefOf(f).mask = Power[f.bit]
            BY <3>1 DEF Definition
        <3> QED BY <2>1, <2>3, <3>2
    <2> QED BY <2>2, <2>3
<1>3. /\ r.type = "boolean" /\ r.length = 1 /\ r.mask = Power[k]
      /\ r.display = IF f.kind = "switch" THEN "string" ELSE "raw"
    BY <1>1, <1>2 DEF Sends, Defined
<1>4. BitAnd(Data[r.start + 1], r.mask) > 0 <=> k \in f.on
    BY <1>2, <1>3, BitHeld
<1>5. PICK test \in {0, 1} :
         test = IF BitAnd(Data[r.start + 1], r.mask) > 0 THEN 1 ELSE 0
    OBVIOUS
<1>6. ~Numeric(r) /\ v \in Values(r)
    BY <1>3 DEF Meant, Numeric
<1>7. CASE f.kind = "switch"
    <2>1. v = Shown(Labels(r.levels, test))
        BY <1>3, <1>5, <1>6, <1>7 DEF Values
    <2>2. DefOf(f).levels = [special |-> [x \in {"yes", "no"} |-> IF x = "yes" THEN f.yes ELSE f.no],
                             masks |-> {}]
        BY <1>7 DEF DefOf, Definition
    <2>3. PICK s : s = [x \in {"yes", "no"} |-> IF x = "yes" THEN f.yes ELSE f.no]
        OBVIOUS
    <2>4. r.levels = [special |-> s, masks |-> {}]
        BY <2>2, <2>3 DEF Sends, Defined
    <2>5. DOMAIN s = {"yes", "no"} /\ s["yes"] = f.yes /\ s["no"] = f.no
        BY <2>3
    <2>6. r.levels.special = s /\ r.levels.masks = {}
        BY <2>4
    <2>7. Labels(r.levels, test) = {IF test = 1 THEN s["yes"] ELSE s["no"]}
        BY <2>5, <2>6 DEF Labels
    <2>8. MeantBy(f) = {Shown({IF f.bit \in f.on THEN f.yes ELSE f.no})}
        BY <1>7 DEF MeantBy
    <2>9. MeantBy(f) = {v}
        BY <1>1, <1>4, <1>5, <2>1, <2>5, <2>7, <2>8
    <2> QED BY <1>7, <2>9 DEF AsMeant
<1>8. CASE f.kind = "truth"
    <2>1. v = Truth(test = 1)
        BY <1>3, <1>5, <1>6, <1>8 DEF Values
    <2>2. MeantBy(f) = {Truth(f.bit \in f.on)}
        BY <1>8 DEF MeantBy
    <2>3. (test = 1) = (f.bit \in f.on)
        BY <1>1, <1>4, <1>5
    <2>4. MeantBy(f) = {v}
        BY <2>1, <2>2, <2>3, Zenon
    <2> QED BY <1>8, <2>4 DEF AsMeant
<1> QED BY <1>7, <1>8

LEMMA FirstPut ==
    ASSUME NEW S, NEW s \in Seq(S), NEW x \in S
    PROVE  /\ <<x>> \o s \in Seq(S) /\ Len(<<x>> \o s) = Len(s) + 1 /\ <<x>> \o s # <<>>
           /\ Tail(<<x>> \o s) = s /\ <<>> \o s = s
<1>1. PICK t \in Seq(S) : t = <<x>> /\ Len(t) = 1 /\ t[1] = x
    <2>1. <<x>> \in Seq(S)
        OBVIOUS
    <2>2. Len(<<x>>) = 1 /\ <<x>>[1] = x
        OBVIOUS
    <2> QED BY <2>1, <2>2, Zenon
<1>2. PICK u \in Seq(S) :
         /\ u = t \o s /\ Len(u) = Len(s) + 1
         /\ \A k \in 1..Len(s) : u[1 + k] = s[k]
    <2>1. /\ t \o s \in Seq(S) /\ Len(t \o s) = Len(t) + Len(s)
          /\ \A k \in 1..Len(s) : (t \o s)[Len(t) + k] = s[k]
        BY Joined
    <2>2. PICK u : u = t \o s
        OBVIOUS
    <2>3. u \in Seq(S) /\ Len(u) = 1 + Len(s) /\ \A k \in 1..Len(s) : u[1 + k] = s[k]
        BY <1>1, <2>1, <2>2, Zenon
    <2>4. Len(u) = Len(s) + 1
        BY <2>3
    <2> QED BY <2>2, <2>3, <2>4, Zenon
<1>3. u # <<>>
    <2>1. Len(u) # 0 /\ Len(<<>>) = 0
        BY <1>2
    <2> QED BY <2>1, Zenon
<1>4. PICK w \in Seq(S) : w = Tail(u) /\ Len(w) = Len(s) /\ \A k \in 1..Len(s) : w[k] = s[k]
    <2>1. /\ Tail(u) \in Seq(S) /\ Len(Tail(u)) = Len(u) - 1
          /\ \A k \in 1..(Len(u) - 1) : Tail(u)[k] = u[k + 1]
        BY <1>3, WithoutFirst
    <2>2. Len(u) - 1 = Len(s)
        BY <1>2
    <2>3. PICK w : w = Tail(u)
        OBVIOUS
    <2>4. w \in Seq(S) /\ Len(w) = Len(s) /\ \A k \in 1..Len(s) : w[k] = u[k + 1]
        BY <2>1, <2>2, <2>3, Zenon
    <2>5. \A k \in 1..Len(s) : u[k + 1] = s[k]
        <3> SUFFICES ASSUME NEW k \in 1..Len(s) PROVE u[k + 1] = s[k]
            OBVIOUS
        <3>1. k + 1 = 1 + k
            OBVIOUS
        <3>2. u[1 + k] = s[k]
            BY <1>2, Zenon
        <3> QED BY <3>1, <3>2, Zenon
    <2> QED BY <2>3, <2>4, <2>5, Zenon
<1>5. w = s
    BY <1>4, SeqEqual
<1>6. <<>> \o s = s
    OBVIOUS
<1> QED BY <1>1, <1>2, <1>3, <1>4, <1>5, <1>6

(* Digits in pairs, as their format reads them.                            *)
LEMMA HexTextOfDigits ==
    ASSUME NEW digits \in Seq(0..15), digits # <<>>, NEW high \in 0..15
    PROVE  /\ Len(digits) % 2 = 1 => \A format \in {"int", "string"} :
                 HexText(Pairs(<<high>> \o digits), format) = digits
           /\ Len(digits) % 2 = 0 => \A format \in {"full_int", "full_string"} :
                 HexText(Pairs(<<>> \o digits), format) = digits
           /\ Len(digits) % 2 = 0 => \A c \in Bytes :
                 HexText(Pairs(<<>> \o digits) \o <<c>>, "chk_string") = digits \o <<Character(c)>>
<1>1. PICK ds \in Seq(0..15) :
         ds = <<high>> \o digits /\ Len(ds) = Len(digits) + 1 /\ ds # <<>> /\ Tail(ds) = digits
    <2>1. PICK S : S = 0..15
        OBVIOUS
    <2>2. digits \in Seq(S) /\ high \in S
        BY <2>1
    <2>3. /\ <<high>> \o digits \in Seq(S) /\ Len(<<high>> \o digits) = Len(digits) + 1
          /\ <<high>> \o digits # <<>> /\ Tail(<<high>> \o digits) = digits
        BY <2>2, FirstPut
    <2> QED BY <2>1, <2>3
<1>2. <<>> \o digits = digits
    OBVIOUS
<1>3. ASSUME Len(digits) % 2 = 1, NEW format \in {"int", "string"}
      PROVE  HexText(Pairs(<<high>> \o digits), format) = digits
    <2>1. Len(ds) % 2 = 0
        <3>1. PICK n \in Nat : n = Len(digits)
            OBVIOUS
        <3>2. n % 2 = 1
            BY <1>3, <3>1, Zenon
        <3>3. (n + 1) % 2 = 0
            BY <3>2
        <3> QED BY <1>1, <3>1, <3>3, Zenon
    <2>2. HexText(Pairs(ds), format) = Tail(ds)
        BY <1>1, <2>1, HexTextOfPairs
    <2> QED BY <1>1, <2>2
<1>4. ASSUME Len(digits) % 2 = 0
      PROVE  /\ \A format \in {"full_int", "full_string"} :
                   HexText(Pairs(digits), format) = digits
             /\ \A c \in Bytes :
                   HexText(Pairs(digits) \o <<c>>, "chk_string") = digits \o <<Character(c)>>
    BY <1>4, HexTextOfPairs
<1> QED BY <1>2, <1>3, <1>4

LEMMA NumeralDigits ==
    ASSUME NEW v \in Nat, NEW count \in Nat \ {0}
    PROVE  /\ Numeral(v, count) \in Seq(0..15) /\ Numeral(v, count) \in Seq(0..9)
           /\ Numeral(v, count) # <<>> /\ Len(Numeral(v, count)) = count
           /\ Quotients(v, count)[count] = 0 /\ v \in UnsignedWords =>
                 Decimal(Numeral(v, count)) = v
<1>1. PICK s \in Seq(0..9) : s = Numeral(v, count) /\ Len(s) = count
    <2>1. Numeral(v, count) \in Seq(0..9) /\ Len(Numeral(v, count)) = count
        BY DecimalOfNumeral
    <2> QED BY <2>1
<1>2. s \in Seq(0..15)
    <2>1. \A i \in 1..Len(s) : s[i] \in 0..15
        <3> SUFFICES ASSUME NEW i \in 1..Len(s) PROVE s[i] \in 0..15
            OBVIOUS
        <3>1. s[i] \in 0..9
            BY Element
        <3> QED BY <3>1
    <2>2. s \in [1..Len(s) -> 0..15]
        BY <2>1
    <2> QED BY <2>2
<1>3. s # <<>>
    <2>1. Len(s) # 0 /\ Len(<<>>) = 0
        BY <1>1
    <2> QED BY <2>1, Zenon
<1>4. v \in UnsignedWords => v < Words
    BY WordsPositive DEF UnsignedWords
<1>5. Quotients(v, count)[count] = 0 /\ v < Words => Decimal(Numeral(v, count)) = v
    BY DecimalOfNumeral
<1> QED BY <1>1, <1>2, <1>3, <1>4, <1>5

(* Part numbers in digits, with or without a digit before them.            *)
LEMMA PartAsMeant ==
    ASSUME NEW r, NEW f, Sends(r, f), f.kind = "part", NEW v, Meant(r, v)
    PROVE  AsMeant(v, f)
<1>0. PartField(f)
    <2>1. Meaningful(f)
        BY DEF Sends, Defined
    <2> QED BY <2>1, Zenon DEF Meaningful
<1>1. PICK n \in Nat, count \in Nat \ {0}, high \in 0..15 :
         /\ n = f.v /\ count = f.count /\ high = f.high
         /\ f.display \in {"int", "full_int"} /\ Quotients(n, count)[count] = 0
         /\ count % 2 = (IF f.display = "int" THEN 1 ELSE 0)
    BY <1>0 DEF PartField
<1>2. PICK ds \in Seq(0..15) :
         /\ ds = Numeral(n, count) /\ ds # <<>> /\ Len(ds) = count
         /\ n \in UnsignedWords => Decimal(ds) = n
    <2>1. /\ Numeral(n, count) \in Seq(0..15)
          /\ Numeral(n, count) # <<>> /\ Len(Numeral(n, count)) = count
          /\ n \in UnsignedWords => Decimal(Numeral(n, count)) = n
        BY <1>1, NumeralDigits
    <2> QED BY <2>1
<1>3. /\ DefOf(f).type = "hex_string" /\ DefOf(f).display = f.display
      /\ BytesOf(f, job.bigEndian) =
            Pairs((IF f.display = "int" THEN <<f.high>> ELSE <<>>) \o Numeral(f.v, f.count))
    BY DEF DefOf, BytesOf, Definition
<1>4. r.type = "hex_string" /\ r.display = f.display
      /\ Field(r) = Pairs((IF f.display = "int" THEN <<high>> ELSE <<>>) \o ds)
    BY <1>1, <1>2, <1>3 DEF Sends, Defined
<1>5. HexText(Field(r), r.display) = ds
    <2>1. CASE f.display = "int"
        <3>1. HexText(Pairs(<<high>> \o ds), "int") = ds
            <4>1. Len(ds) % 2 = 1
                BY <1>1, <1>2, <2>1
            <4> QED BY <1>2, <4>1, HexTextOfDigits
        <3> QED BY <1>4, <2>1, <3>1
    <2>2. CASE f.display = "full_int"
        <3>1. HexText(Pairs(<<>> \o ds), "full_int") = ds
            <4>1. Len(ds) % 2 = 0
                BY <1>1, <1>2, <2>2
            <4> QED BY <1>2, <4>1, HexTextOfDigits
        <3> QED BY <1>4, <2>2, <3>1
    <2> QED BY <1>1, <2>1, <2>2
<1>6. v = Number(<<Decimal(ds), 1>>)
    <2>1. ~Numeric(r) /\ v \in Values(r)
        BY <1>4 DEF Meant, Numeric
    <2> QED BY <1>1, <1>4, <1>5, <2>1 DEF Values
<1>7. MeantBy(f) = {Number(<<x, 1>>) : x \in {n} \cap UnsignedWords}
    BY <1>1 DEF MeantBy
<1> QED BY <1>2, <1>6, <1>7 DEF AsMeant

LEMMA DigitsAsMeant ==
    ASSUME NEW r, NEW f, Sends(r, f), f.kind = "digits", NEW v, Meant(r, v)
    PROVE  AsMeant(v, f)
<1>0. DigitsField(f)
    <2>1. Meaningful(f)
        BY DEF Sends, Defined
    <2> QED BY <2>1, Zenon DEF Meaningful
<1>1. PICK ds \in Seq(0..15), high \in 0..15, check \in Bytes :
         /\ ds = f.digits /\ high = f.high /\ check = f.check /\ ds # <<>>
         /\ f.display \in {"string", "full_string", "chk_string"}
         /\ Len(ds) % 2 = (IF f.display = "string" THEN 1 ELSE 0)
    BY <1>0 DEF DigitsField
<1>3. /\ DefOf(f).type = "hex_string" /\ DefOf(f).display = f.display
      /\ BytesOf(f, job.bigEndian) =
            Pairs((IF f.display = "string" THEN <<f.high>> ELSE <<>>) \o f.digits)
               \o (IF f.display = "chk_string" THEN <<f.check>> ELSE <<>>)
    BY DEF DefOf, BytesOf, Definition
<1>4. r.type = "hex_string" /\ r.display = f.display
      /\ Field(r) = Pairs((IF f.display = "string" THEN <<high>> ELSE <<>>) \o ds)
                       \o (IF f.display = "chk_string" THEN <<check>> ELSE <<>>)
    BY <1>1, <1>3 DEF Sends, Defined
<1>5. \A s \in Seq(0..15) : Len(s) % 2 = 0 => Pairs(s) \o <<>> = Pairs(s)
    <2> SUFFICES ASSUME NEW s \in Seq(0..15), Len(s) % 2 = 0 PROVE Pairs(s) \o <<>> = Pairs(s)
        OBVIOUS
    <2>1. Pairs(s) \in Seq(Bytes)
        BY PairsMade
    <2> QED BY <2>1
<1>6. HexText(Field(r), r.display) =
         ds \o (IF f.display = "chk_string" THEN <<Character(check)>> ELSE <<>>)
    <2>0. ds \o <<>> = ds
        OBVIOUS
    <2>1. CASE f.display = "string"
        <3>1. HexText(Pairs(<<high>> \o ds), "string") = ds
            BY <1>1, <2>1, HexTextOfDigits
        <3>2. Pairs(<<high>> \o ds) \o <<>> = Pairs(<<high>> \o ds)
            <4>1. PICK S : S = 0..15
                OBVIOUS
            <4>2. ds \in Seq(S) /\ high \in S
                BY <4>1
            <4>3. <<high>> \o ds \in Seq(S) /\ Len(<<high>> \o ds) = Len(ds) + 1
                BY <4>2, FirstPut
            <4>4. (Len(ds) + 1) % 2 = 0
                <5>1. PICK n \in Nat : n = Len(ds)
                    OBVIOUS
                <5>2. n % 2 = 1
                    BY <1>1, <2>1, <5>1, Zenon
                <5>3. (n + 1) % 2 = 0
                    BY <5>2
                <5> QED BY <5>1, <5>3, Zenon
            <4> QED BY <1>5, <4>1, <4>3, <4>4
        <3> QED BY <1>4, <2>0, <2>1, <3>1, <3>2
    <2>2. CASE f.display = "full_string"
        <3>1. HexText(Pairs(<<>> \o ds), "full_string") = ds
            BY <1>1, <2>2, HexTextOfDigits
        <3>2. <<>> \o ds = ds /\ Pairs(ds) \o <<>> = Pairs(ds)
            BY <1>1, <1>5, <2>2
        <3> QED BY <1>4, <2>0, <2>2, <3>1, <3>2
    <2>3. CASE f.display = "chk_string"
        <3>1. HexText(Pairs(<<>> \o ds) \o <<check>>, "chk_string") = ds \o <<Character(check)>>
            BY <1>1, <2>3, HexTextOfDigits
        <3> QED BY <1>4, <2>3, <3>1
    <2> QED BY <1>1, <2>1, <2>2, <2>3
<1>7. v = Text(HexText(Field(r), r.display))
    <2>1. ~Numeric(r) /\ v \in Values(r)
        BY <1>4 DEF Meant, Numeric
    <2>2. PICK h : h = HexText(Field(r), r.display)
        OBVIOUS
    <2> QED BY <1>1, <1>4, <2>1, <2>2 DEF Values
<1>8. MeantBy(f) = {Text(f.digits \o (IF f.display = "chk_string" THEN <<Character(f.check)>>
                                      ELSE <<>>))}
    BY DEF MeantBy
<1>9. MeantBy(f) = {v}
    BY <1>1, <1>6, <1>7, <1>8
<1> QED BY <1>9 DEF AsMeant

-----------------------------------------------------------------------------
(* Characters as they are.                                                 *)
LEMMA CharactersAsMeant ==
    ASSUME NEW r, NEW f, Sends(r, f), f.kind = "characters", NEW v, Meant(r, v)
    PROVE  AsMeant(v, f)
<1>1. PICK bytes \in Seq(Bytes) :
         bytes = f.bytes /\ f.display \in {"string", "hex_string"}
    <2>1. Meaningful(f)
        BY DEF Sends, Defined
    <2>2. f.bytes \in Seq(Bytes) /\ f.display \in {"string", "hex_string"}
        BY <2>1, Zenon DEF Meaningful
    <2> QED BY <2>2, Zenon
<1>2. /\ DefOf(f).type = "string" /\ DefOf(f).display = f.display
      /\ DefOf(f).length = Len(f.bytes) /\ BytesOf(f, job.bigEndian) = f.bytes
    BY DEF DefOf, BytesOf, Definition
<1>3. r.type = "string" /\ r.display = f.display /\ r.length = Len(bytes) /\ Field(r) = bytes
    BY <1>1, <1>2 DEF Sends, Defined
<1>4. PICK text : text = [i \in 1..Len(bytes) |-> Character(bytes[i])]
    OBVIOUS
<1>5. text = [i \in 1..r.length |-> Character(Field(r)[i])]
    BY <1>3, <1>4
<1>6. v \in IF r.display = "hex_string" THEN {Text(Prefix0x \o text)} ELSE {Text(text)}
    <2>1. ~Numeric(r) /\ v \in Values(r)
        BY <1>3 DEF Meant, Numeric
    <2> QED BY <1>1, <1>3, <1>5, <2>1 DEF Values, Prefix0x
<1>7. MeantBy(f) = {Text((IF f.display = "hex_string" THEN Prefix0x ELSE <<>>)
                           \o [i \in 1..Len(f.bytes) |-> Character(f.bytes[i])])}
    BY DEF MeantBy
<1>8. MeantBy(f) = {Text((IF f.display = "hex_string" THEN Prefix0x ELSE <<>>) \o text)}
    BY <1>1, <1>4, <1>7
<1>9. <<>> \o text = text
    <2>1. PICK S : S = {Character(bytes[i]) : i \in 1..Len(bytes)}
        OBVIOUS
    <2>2. text \in [1..Len(bytes) -> S]
        BY <1>4, <2>1
    <2>3. text \in Seq(S)
        BY <2>2, Sequence
    <2> QED BY <2>3
<1>10. MeantBy(f) = {v}
    BY <1>3, <1>6, <1>8, <1>9
<1> QED BY <1>10 DEF AsMeant

(* Decimal digits as characters.                                           *)
LEMMA DecimalAsMeant ==
    ASSUME NEW r, NEW f, Sends(r, f), f.kind = "decimal", NEW v, Meant(r, v)
    PROVE  AsMeant(v, f)
<1>1. PICK n \in Nat, count \in Nat \ {0} :
         n = f.v /\ count = f.count /\ Quotients(n, count)[count] = 0
    <2>1. Meaningful(f)
        BY DEF Sends, Defined
    <2>2. f.v \in Nat /\ f.count \in Nat \ {0} /\ Quotients(f.v, f.count)[f.count] = 0
        BY <2>1, Zenon DEF Meaningful
    <2> QED BY <2>2, Zenon
<1>2. PICK ds \in Seq(0..9) :
         ds = Numeral(n, count) /\ Len(ds) = count /\ (n \in UnsignedWords => Decimal(ds) = n)
    <2>1. /\ Numeral(n, count) \in Seq(0..9) /\ Len(Numeral(n, count)) = count
          /\ n \in UnsignedWords => Decimal(Numeral(n, count)) = n
        BY <1>1, NumeralDigits
    <2> QED BY <2>1
<1>3. /\ DefOf(f).type = "string" /\ DefOf(f).display = "int" /\ DefOf(f).length = f.count
      /\ BytesOf(f, job.bigEndian) = [i \in 1..f.count |-> 48 + Numeral(f.v, f.count)[i]]
    BY DEF DefOf, BytesOf, Definition
<1>4. /\ r.type = "string" /\ r.display = "int" /\ r.length = count
      /\ Field(r) = [i \in 1..count |-> 48 + ds[i]]
    BY <1>1, <1>2, <1>3 DEF Sends, Defined
<1>5. [i \in 1..r.length |-> Character(Field(r)[i])] = ds
    <2>1. \A i \in 1..count : Character(Field(r)[i]) = ds[i]
        <3> SUFFICES ASSUME NEW i \in 1..count PROVE Character(Field(r)[i]) = ds[i]
            OBVIOUS
        <3>1. PICK d \in 0..9 : d = ds[i]
            BY <1>2
        <3>2. Field(r)[i] = 48 + d
            BY <1>4, <3>1
        <3>3. 48 + d \in 48..57 /\ (48 + d) - 48 = d
            OBVIOUS
        <3>4. Character(48 + d) = d
            BY <3>3 DEF Character
        <3> QED BY <3>1, <3>2, <3>4, Zenon
    <2>2. ds = [i \in 1..count |-> ds[i]]
        BY <1>2
    <2> QED BY <1>4, <2>1, <2>2
<1>6. v = Number(<<Decimal(ds), 1>>)
    <2>1. ~Numeric(r) /\ v \in Values(r)
        BY <1>4 DEF Meant, Numeric
    <2>2. Values(r) = {Number(<<Decimal([i \in 1..r.length |-> Character(Field(r)[i])]), 1>>)}
        BY <1>4 DEF Values
    <2> QED BY <1>5, <2>1, <2>2
<1>7. MeantBy(f) = {Number(<<x, 1>>) : x \in {n} \cap UnsignedWords}
    BY <1>1 DEF MeantBy
<1> QED BY <1>2, <1>6, <1>7 DEF AsMeant

(* Two characters and a number of five hexadecimal digits.                 *)
LEMMA ShortVinNumber ==
    ASSUME NEW n \in Nat, NEW spare \in 0..15
    PROVE  (n \div 4096) * 4096 + ((n \div 16) % 256) * 16 + (16 * (n % 16) + spare) \div 16 = n
<1>1. PICK q \in Nat, x \in 0..15 : n = 16 * q + x /\ q = n \div 16 /\ x = n % 16
    OBVIOUS
<1>2. PICK t \in Nat, y \in 0..255 : q = 256 * t + y /\ t = q \div 256 /\ y = q % 256
    <2>1. q \div 256 \in Nat /\ q % 256 \in 0..255 /\ q = 256 * (q \div 256) + (q % 256)
        OBVIOUS
    <2> QED BY <2>1
<1>3. n = 4096 * t + (16 * y + x) /\ 16 * y + x \in 0..4095
    <2>1. n = 16 * q + x /\ q = 256 * t + y
        BY <1>1, <1>2, Zenon
    <2>2. 16 * (256 * t + y) = 4096 * t + 16 * y
        OBVIOUS
    <2>3. n = 4096 * t + 16 * y + x
        BY <2>1, <2>2
    <2>4. 16 * y + x \in Nat /\ 16 * y + x < 4096
        OBVIOUS
    <2>5. 4096 * t + 16 * y + x = 4096 * t + (16 * y + x)
        OBVIOUS
    <2> QED BY <2>3, <2>4, <2>5
<1>4. n \div 4096 = t
    BY <1>3
<1>5. (16 * x + spare) \div 16 = x
    OBVIOUS
<1>6. n = t * 4096 + y * 16 + x
    BY <1>3
<1>7. (n \div 16) % 256 = y /\ (16 * (n % 16) + spare) \div 16 = x
    BY <1>1, <1>2, <1>5
<1> QED BY <1>4, <1>6, <1>7

LEMMA ShortVinAsMeant ==
    ASSUME NEW r, NEW f, Sends(r, f), f.kind = "short-vin", NEW v, Meant(r, v)
    PROVE  AsMeant(v, f)
<1>1. PICK a \in Bytes, b \in Bytes, n \in Nat, spare \in 0..15 :
         a = f.a /\ b = f.b /\ n = f.n /\ spare = f.spare
    <2>1. Meaningful(f)
        BY DEF Sends, Defined
    <2>2. ShortVinField(f)
        BY <2>1, Zenon DEF Meaningful
    <2> QED BY <2>2 DEF ShortVinField
<1>2. /\ DefOf(f).type = "short_vin"
      /\ BytesOf(f, job.bigEndian) =
            <<f.a, f.b, f.n \div 4096, (f.n \div 16) % 256, 16 * (f.n % 16) + f.spare>>
    BY DEF DefOf, BytesOf, Definition
<1>3. PICK x, y, z : x = n \div 4096 /\ y = (n \div 16) % 256 /\ z = 16 * (n % 16) + spare
    OBVIOUS
<1>4. r.type = "short_vin" /\ Field(r) = <<a, b, x, y, z>>
    BY <1>1, <1>2, <1>3 DEF Sends, Defined
<1>5. x * 4096 + y * 16 + z \div 16 = n
    BY <1>1, <1>3, ShortVinNumber
<1>6. ShortVin(<<a, b, x, y, z>>) = <<Character(a), Character(b), x * 4096 + y * 16 + z \div 16>>
    BY DEF ShortVin
<1>7. v = Text(ShortVin(Field(r)))
    <2>1. ~Numeric(r) /\ v \in Values(r)
        BY <1>4 DEF Meant, Numeric
    <2> QED BY <1>4, <2>1 DEF Values
<1>8. MeantBy(f) = {Text(<<Character(f.a), Character(f.b), f.n>>)}
    BY DEF MeantBy
<1>9. MeantBy(f) = {v}
    <2>1. ShortVin(Field(r)) = <<Character(a), Character(b), n>>
        BY <1>4, <1>5, <1>6
    <2>2. v = Text(<<Character(a), Character(b), n>>)
        BY <1>7, <2>1
    <2>3. MeantBy(f) = {Text(<<Character(a), Character(b), n>>)}
        BY <1>1, <1>8
    <2> QED BY <2>2, <2>3
<1>10. f.kind # "six-bit"
    OBVIOUS
<1> QED BY <1>9, <1>10 DEF AsMeant

(* Characters of six bits.                                                 *)
LEMMA SixBitAsMeant ==
    ASSUME NEW r, NEW f, Sends(r, f), f.kind = "six-bit", NEW v, Meant(r, v)
    PROVE  AsMeant(v, f)
<1>1. PICK length \in Nat \ {0}, codes \in Seq(0..(Bang - 1)) :
         length = f.length /\ codes = f.codes /\ Len(codes) = (8 * length) \div 6
    <2>1. Meaningful(f)
        BY DEF Sends, Defined
    <2>2. /\ f.length \in Nat \ {0} /\ f.codes \in Seq(0..(Bang - 1))
          /\ Len(f.codes) = (8 * f.length) \div 6
        BY <2>1, Zenon DEF Meaningful
    <2> QED BY <2>2, Zenon
<1>2. DefOf(f).type = "6bit-string" /\ BytesOf(f, job.bigEndian) = Pack(f.codes, f.length)
    BY DEF DefOf, BytesOf, Definition
<1>3. r.type = "6bit-string" /\ Field(r) = Pack(codes, length)
    BY <1>1, <1>2 DEF Sends, Defined
<1>4. PICK t \in SixBitTexts(Pack(codes, length)) : v = Text(t)
    <2>1. ~Numeric(r) /\ v \in Values(r)
        BY <1>3 DEF Meant, Numeric
    <2> QED BY <1>3, <2>1 DEF Values
<1>5. /\ Len(t) = Len(codes) /\ Tail(t) = Tail(codes)
      /\ length % 3 # 0 => t = codes
    BY <1>1, PackedTextRead
<1>6. v.characters = t
    BY <1>4 DEF Text
<1>7. CASE f.length % 3 = 0
    BY <1>1, <1>5, <1>6, <1>7 DEF AsMeant
<1>8. CASE f.length % 3 # 0
    <2>1. MeantBy(f) = {Text(f.codes)}
        BY DEF MeantBy
    <2>2. MeantBy(f) = {v}
        BY <1>1, <1>4, <1>5, <1>8, <2>1
    <2> QED BY <1>8, <2>2 DEF AsMeant
<1> QED BY <1>7, <1>8

-----------------------------------------------------------------------------
(* Numbers and their programs.                                             *)
NumberOf(r, f) ==
    /\ NumberField(f) /\ r.type = f.type /\ r.display = f.display /\ r.mask = 255
    /\ r.length = IF f.type \in {"byte", "signed_byte"} THEN 1 ELSE 2
    /\ r.rpn = IF f.expr = NoExpr THEN <<>> ELSE Postfix[f.expr]

LEMMA NumberDefined ==
    ASSUME NEW r, NEW f, Defined(r, f), f.kind = "number"
    PROVE  NumberOf(r, f)
<1>1. NumberField(f)
    <2>1. Meaningful(f)
        BY DEF Defined
    <2> QED BY <2>1, Zenon DEF Meaningful
<1>2. PICK l, p : /\ l = IF f.type \in {"byte", "signed_byte"} THEN 1 ELSE 2
                  /\ p = IF f.expr = NoExpr THEN <<>> ELSE Postfix[f.expr]
    OBVIOUS
<1>3. DefOf(f) = [Definition(f.type, f.display, l) EXCEPT !.rpn = p]
    BY <1>2 DEF DefOf
<1>4. /\ DefOf(f).type = f.type /\ DefOf(f).display = f.display /\ DefOf(f).mask = 255
      /\ DefOf(f).length = l /\ DefOf(f).rpn = p
    BY <1>3 DEF Definition
<1> QED BY <1>1, <1>2, <1>4 DEF Defined, NumberOf

LEMMA TypeRanges ==
    ASSUME NEW t, NEW n, OfType(n, t)
    PROVE  /\ t \in {"byte", "signed_byte", "short", "signed_short"} /\ n \in Int
           /\ t = "byte" => 0 <= n /\ n < 256
           /\ t = "signed_byte" => -128 <= n /\ n < 128
           /\ t = "short" => 0 <= n /\ n < 65536
           /\ t = "signed_short" => -32768 <= n /\ n < 32768
BY DEF OfType

LEMMA NumberParts ==
    ASSUME NEW r, NEW f, NumberOf(r, f)
    PROVE  /\ f.type \in {"byte", "signed_byte", "short", "signed_short"}
           /\ f.n \in Int /\ OfType(f.n, f.type)
           /\ Numeric(r) /\ (Short(r) <=> f.type \in {"short", "signed_short"})
           /\ ~WrongLength(r)
<1>1. f.type \in {"byte", "signed_byte", "short", "signed_short"} /\ OfType(f.n, f.type)
    BY TypeRanges DEF NumberOf, NumberField
<1>2. f.n \in Int
    BY <1>1, TypeRanges
<1>3. Numeric(r) /\ (Short(r) <=> f.type \in {"short", "signed_short"})
    BY <1>1 DEF NumberOf, Numeric, Short
<1>4. ~WrongLength(r)
    BY <1>1, <1>3 DEF NumberOf, WrongLength
<1> QED BY <1>1, <1>2, <1>3, <1>4

LEMMA TwoBytes ==
    ASSUME NEW n \in Int, NEW big, NEW s, s = InOrder(n, big)
    PROVE  (IF big THEN s[1] * 256 + s[2] ELSE s[2] * 256 + s[1]) = n % 65536
<1>1. PICK m \in Nat : m = n % 65536
    <2>1. n % 65536 \in Nat
        OBVIOUS
    <2> QED BY <2>1
<1>2. PICK h \in Nat, l \in Nat : h = m \div 256 /\ l = m % 256 /\ h * 256 + l = m
    <2>1. m \div 256 \in Nat /\ m % 256 \in Nat /\ (m \div 256) * 256 + (m % 256) = m
        OBVIOUS
    <2> QED BY <2>1
<1>3. s = IF big THEN <<h, l>> ELSE <<l, h>>
    BY <1>1, <1>2 DEF InOrder
<1>4. CASE big
    <2>1. s[1] = h /\ s[2] = l
        BY <1>3, <1>4
    <2>2. s[1] * 256 + s[2] = m
        BY <1>2, <2>1
    <2>3. (IF big THEN s[1] * 256 + s[2] ELSE s[2] * 256 + s[1]) = m
        BY <1>4, <2>2, Zenon
    <2> QED BY <1>1, <2>3
<1>5. CASE ~big
    <2>1. s[1] = l /\ s[2] = h
        BY <1>3, <1>5
    <2>2. s[2] * 256 + s[1] = m
        BY <1>2, <2>1
    <2> QED BY <1>1, <1>5, <2>2
<1> QED BY <1>4, <1>5

(* N stands for the number that was sent.                                  *)
LEMMA ArgumentMeans ==
    ASSUME NEW r, NEW f, Sends(r, f), f.kind = "number", NumberOf(r, f)
    PROVE  Argument(r) = <<f.n, 1>>
<1>1. PICK n \in Int : n = f.n
    BY NumberParts
<1>2. /\ f.type \in {"byte", "signed_byte", "short", "signed_short"}
      /\ OfType(n, f.type) /\ r.type = f.type /\ r.mask = 255
      /\ Short(r) <=> f.type \in {"short", "signed_short"}
    BY <1>1, NumberParts DEF NumberOf
<1>3. BytesOf(f, job.bigEndian) =
         IF f.type \in {"byte", "signed_byte"} THEN <<f.n % 256>> ELSE InOrder(f.n, job.bigEndian)
    BY DEF BytesOf
<1>4. Field(r) = IF f.type \in {"byte", "signed_byte"} THEN <<n % 256>>
                 ELSE InOrder(n, job.bigEndian)
    BY <1>1, <1>3 DEF Sends
<1>5. CASE f.type \in {"byte", "signed_byte"}
    <2>1. Field(r) = <<n % 256>> /\ r.length = 1
        BY <1>4, <1>5 DEF NumberOf
    <2>2. Masked(r) = n % 256
        BY <1>2, <2>1, ByteHeld DEF Sends, Defined
    <2>3. CASE f.type = "byte"
        <3>1. 0 <= n /\ n < 256
            BY <1>2, <2>3, TypeRanges
        <3>2. n % 256 = n
            BY <3>1
        <3> QED BY <1>1, <1>2, <2>2, <2>3, <3>2 DEF Argument
    <2>4. CASE f.type = "signed_byte"
        <3>1. -128 <= n /\ n < 128
            BY <1>2, <2>4, TypeRanges
        <3>2. Signed(n % 256, 256) = n
            BY <3>1 DEF Signed
        <3> QED BY <1>1, <1>2, <2>2, <2>4, <3>2 DEF Argument
    <2> QED BY <1>5, <2>3, <2>4
<1>6. CASE f.type \in {"short", "signed_short"}
    <2>1. PICK s : s = Field(r) /\ s = InOrder(n, job.bigEndian)
        BY <1>4, <1>6
    <2>2. PICK m : /\ m = n % 65536
                   /\ m = IF job.bigEndian THEN s[1] * 256 + s[2] ELSE s[2] * 256 + s[1]
        BY <2>1, TwoBytes
    <2>3. ShortOf(r) = IF r.type = "signed_short" THEN Signed(m, 65536) ELSE m
        BY <2>1, <2>2 DEF ShortOf
    <2>4. CASE f.type = "short"
        <3>1. 0 <= n /\ n < 65536
            BY <1>2, <2>4, TypeRanges
        <3>2. m = n
            BY <2>2, <3>1
        <3> QED BY <1>1, <1>2, <2>3, <2>4, <3>2 DEF Argument
    <2>5. CASE f.type = "signed_short"
        <3>1. -32768 <= n /\ n < 32768
            BY <1>2, <2>5, TypeRanges
        <3>2. m = IF n >= 0 THEN n ELSE n + 65536
            <4>1. CASE n >= 0
                BY <2>2, <3>1, <4>1
            <4>2. CASE n < 0
                <5>1. (n + 65536) % 65536 = n + 65536
                    BY <3>1, <4>2
                <5>2. n % 65536 = (n + 65536) % 65536
                    OBVIOUS
                <5> QED BY <2>2, <4>2, <5>1, <5>2
            <4> QED BY <4>1, <4>2
        <3>3. 65536 \div 2 = 32768
            OBVIOUS
        <3>4. Signed(m, 65536) = n
            BY <3>1, <3>2, <3>3 DEF Signed
        <3> QED BY <1>1, <1>2, <2>3, <2>5, <3>4 DEF Argument
    <2> QED BY <1>6, <2>4, <2>5
<1> QED BY <1>2, <1>5, <1>6

(* A program that has ended leaves the value of its expression alone on    *)
(* the stack.                                                              *)
LEMMA ProgramMeans ==
    ASSUME NEW e \in Expressions, NEW k \in Int, NEW isReal \in BOOLEAN, NEW s,
           Computes(Postfix[e], <<k, 1>>, isReal, Len(Postfix[e]), s)
    PROVE  /\ Len(s) = 1 /\ Quantity(Head(s), isReal) /\ Postfix[e] # <<>>
           /\ Is(Evaluation(k, isReal)[e], Head(s))
<1>0. PICK P : P = Postfix[e]
    OBVIOUS
<1>1. PICK n \in Nat \ {0} : n = Len(P) /\ P = Postfix[e]
    <2>1. Len(Postfix[e]) \in Nat \ {0}
        BY PostfixTyped
    <2> QED BY <1>0, <2>1
<1>2. PICK h : /\ h[0] = <<>> /\ h[n] = s
               /\ \A i \in 1..n : Turns(P, <<k, 1>>, isReal, i, h[i - 1], h[i])
    BY <1>1 DEF Computes
<1>3. PICK o \in 0..n : o = 0 /\ o + n = n
    BY <1>1
<1>4. h[o] \in Seq(Int \X Nat)
    <2>1. <<>> \in Seq(Int \X Nat)
        OBVIOUS
    <2> QED BY <1>2, <1>3, <2>1, Zenon
<1>5. Within(P, e, o)
    <2>1. \A i \in 1..Len(Postfix[e]) : o + i = i
        BY <1>1, <1>3
    <2> QED BY <1>1, <2>1 DEF Within
<1>6. Ran(P, h, n, isReal, e, o, Evaluation(k, isReal)[e])
    BY <1>2, <1>4, <1>5, RunMeans
<1>7. n <= n
    OBVIOUS
<1>8. PICK v : /\ Quantity(v, isReal) /\ h[n] = Append(h[o], v)
               /\ Is(Evaluation(k, isReal)[e], v)
    BY <1>1, <1>3, <1>6, <1>7, Zenon DEF Ran, Leaves
<1>9. Append(<<>>, v) = <<v>>
    OBVIOUS
<1>10. s = <<v>>
    BY <1>2, <1>3, <1>8, <1>9, Zenon
<1>11. Len(<<v>>) = 1 /\ Head(<<v>>) = v
    OBVIOUS
<1>12. P # <<>>
    BY <1>1, EmptySeq
<1> QED BY <1>1, <1>8, <1>10, <1>11, <1>12, Zenon

LEMMA NumberComes ==
    ASSUME NEW r, NEW f, NumberOf(r, f), Argument(r) = <<f.n, 1>>,
           NEW isReal \in BOOLEAN, NEW q, ComesTo(r, isReal, q)
    PROVE  Quantity(q, isReal) /\ Is(ValueOf(f, isReal), q)
<1>1. PICK n \in Int : n = f.n
    BY NumberParts
<1>2. CASE f.expr = NoExpr
    <2>1. q = <<n, 1>>
        BY <1>1, <1>2, NoProgram DEF NumberOf
    <2>2. Quantity(<<n, 1>>, isReal)
        BY QuantityMade
    <2>3. ValueOf(f, isReal) = Known(<<n, 1>>)
        BY <1>1, <1>2 DEF ValueOf
    <2>4. Is(Known(<<n, 1>>), <<n, 1>>)
        BY DEF Known, Is
    <2> QED BY <2>1, <2>2, <2>3, <2>4
<1>3. CASE f.expr # NoExpr
    <2>1. PICK e \in Expressions : e = f.expr
        BY <1>3 DEF NumberOf, NumberField
    <2>2. r.rpn = Postfix[e]
        BY <1>3, <2>1 DEF NumberOf
    <2>3. Postfix[e] # <<>>
        BY PostfixTyped, EmptySeq
    <2>4. PICK s : /\ Computes(Postfix[e], <<n, 1>>, isReal, Len(Postfix[e]), s)
                   /\ q = Head(s)
        BY <1>1, <2>2, <2>3, Zenon DEF ComesTo
    <2>5. Quantity(q, isReal) /\ Is(Evaluation(n, isReal)[e], q)
        BY <2>4, ProgramMeans
    <2>6. ValueOf(f, isReal) = Evaluation(n, isReal)[e]
        BY <1>1, <1>3, <2>1, Zenon DEF ValueOf
    <2> QED BY <2>5, <2>6, Zenon
<1> QED BY <1>2, <1>3

(* What is shown of a number is what its expression means.                 *)
LEMMA NumberAsMeant ==
    ASSUME NEW r, NEW f, Sends(r, f), f.kind = "number", NEW v, Meant(r, v)
    PROVE  AsMeant(v, f)
<1>1. NumberOf(r, f)
    BY NumberDefined DEF Sends
<1>2. Argument(r) = <<f.n, 1>>
    BY <1>1, ArgumentMeans
<1>3. /\ Numeric(r) /\ r.type = f.type /\ r.display = f.display
      /\ Short(r) <=> f.type \in {"short", "signed_short"}
      /\ f.display \in IF Short(r) THEN {"int", "float"} ELSE {"raw", "float"}
    BY <1>1, NumberParts DEF NumberOf, NumberField
<1>4. PICK isReal \in BOOLEAN : isReal = AsReal(r)
    BY DEF AsReal, Short
<1>5. PICK q : ComesTo(r, isReal, q) /\ v \in FinalValues(r, isReal, q)
    BY <1>3, <1>4 DEF Meant
<1>6. Quantity(q, isReal) /\ Is(ValueOf(f, isReal), q)
    BY <1>1, <1>2, <1>5, NumberComes
<1>7. ValueOf(f, isReal).values \subseteq {q}
    BY <1>6, Zenon DEF Is
<1>8. MeantBy(f) = {Number(x) : x \in Numbers(f)}
    BY DEF MeantBy
<1>9. CASE f.display = "raw"
    <2>1. ~isReal /\ ~Short(r)
        BY <1>3, <1>4, <1>9 DEF AsReal
    <2>2. v = Number(<<q[1], 1>>)
        BY <1>3, <1>5, <1>9, <2>1 DEF FinalValues, ByteValues
    <2>3. q = <<q[1], 1>>
        BY <1>6, <2>1 DEF Quantity
    <2>4. Numbers(f) = ValueOf(f, isReal).values
        BY <1>9, <2>1 DEF Numbers
    <2>5. ASSUME NEW x \in Numbers(f) PROVE v = Number(x)
        <3>1. x = q
            BY <1>7, <2>4
        <3> QED BY <2>2, <2>3, <3>1, Zenon
    <2>6. MeantBy(f) \subseteq {v}
        BY <1>8, <2>5
    <2> QED BY <2>6 DEF AsMeant
<1>10. CASE f.display = "float"
    <2>1. isReal = TRUE
        BY <1>3, <1>4, <1>10 DEF AsReal
    <2>2. v = Number(q)
        BY <1>3, <1>5, <1>10, <2>1 DEF FinalValues
    <2>3. Numbers(f) = ValueOf(f, isReal).values
        BY <1>10, <2>1 DEF Numbers
    <2>4. ASSUME NEW x \in Numbers(f) PROVE v = Number(x)
        <3>1. x = q
            BY <1>7, <2>3
        <3> QED BY <2>2, <3>1, Zenon
    <2>5. MeantBy(f) \subseteq {v}
        BY <1>8, <2>4
    <2> QED BY <2>5 DEF AsMeant
<1>11. CASE f.display = "int"
    <2> DEFINE type == IF f.type = "short" THEN UnsignedWords ELSE SignedWords
    <2>1. isReal = TRUE /\ Short(r)
        BY <1>3, <1>4, <1>11 DEF AsReal
    <2>2. v \in {Number(<<n, 1>>) : n \in Cast(q, type)}
        BY <1>3, <1>5, <1>11, <2>1 DEF FinalValues
    <2>3. Numbers(f) = {Whole(x) : x \in {y \in ValueOf(f, isReal).values :
                                             y[2] # 0 /\ Truncate(y) \in type}}
        BY <1>11, <2>1 DEF Numbers
    <2> HIDE DEF type
    <2>4. ASSUME NEW x \in Numbers(f) PROVE v = Number(x)
        <3>1. x = Whole(q) /\ q[2] # 0 /\ Truncate(q) \in type
            BY <1>7, <2>3
        <3>2. Cast(q, type) = {Truncate(q)}
            BY <3>1 DEF Cast
        <3> QED BY <2>2, <3>1, <3>2 DEF Whole
    <2>5. MeantBy(f) \subseteq {v}
        BY <1>8, <2>4
    <2> QED BY <2>5 DEF AsMeant
<1> QED BY <1>3, <1>9, <1>10, <1>11

-----------------------------------------------------------------------------
(* What is shown is what was meant.                                        *)

Kinds ==
    {"six-bit", "number", "hex", "table", "bcd", "flags", "switch", "truth", "part",
     "digits", "characters", "decimal", "short-vin", "bad"}

LEMMA KindKnown ==
    ASSUME NEW f, Meaningful(f)
    PROVE  f.kind \in Kinds
BY DEF Meaningful, Kinds

LEMMA FieldsNow == DecoderInv => FieldsAsEncoded
<1> SUFFICES ASSUME DecoderInv, NEW r \in job.results, r.name \in DOMAIN response
             PROVE  AsMeant(response[r.name], FieldOf(r))
    BY DEF FieldsAsEncoded
<1>1. Answering(r) /\ Meant(r, response[r.name])
    BY MeantNow DEF ResponseMeant
<1>2. packet # NoPacket
    BY DEF DecoderInv, DecodeInv, PacketInv
<1>3. PICK f, v : f = FieldOf(r) /\ v = response[r.name]
    OBVIOUS
<1>4. Sends(r, f) /\ Meant(r, v)
    BY <1>1, <1>2, <1>3, FieldSent DEF Answering
<1>5. f.kind \in Kinds
    BY <1>4, KindKnown DEF Sends, Defined
<1>6. f.kind = "bad" => AsMeant(v, f)
    BY DEF AsMeant, MeantBy
<1>7. AsMeant(v, f)
    BY <1>4, <1>5, <1>6, SixBitAsMeant, NumberAsMeant, HexAsMeant, TableAsMeant, BcdAsMeant,
       FlagsAsMeant, SwitchAsMeant, PartAsMeant, DigitsAsMeant, CharactersAsMeant,
       DecimalAsMeant, ShortVinAsMeant DEF Kinds
<1> QED BY <1>3, <1>7

(* What a control unit encodes is what parseOperation puts in the          *)
(* response: packed text, shorts of both byte orders and signs, part       *)
(* numbers, labels, strings by number and the values of programs, for      *)
(* every table, word size and order of the hash.                           *)
THEOREM FieldsAreAsEncoded == Spec => []FieldsAsEncoded
BY FieldsNow, DecoderAlways, PTL

LEMMA RpnNow == DecoderInv => RpnMeansInfix
<1> SUFFICES ASSUME DecoderInv, ProgramEnds, Program # <<>>, FieldOf(TheResult).kind = "number"
             PROVE  /\ Len(stack) = 1 /\ ~ValueOf(FieldOf(TheResult), real).dies
                    /\ ValueOf(FieldOf(TheResult), real).values \subseteq {Head(stack)}
    BY DEF RpnMeansInfix
<1>1. DecodeInv /\ MeantInv /\ stage = "rpn" /\ packet # NoPacket /\ real \in BOOLEAN
    BY DEF DecoderInv, ProgramEnds, DecodeInv, PacketInv, Types
<1>2. PICK r \in job.results : current = {r} /\ InRange(r)
    BY <1>1 DEF DecodeInv, MachineInv, Running
<1>3. TheResult = r
    BY <1>2 DEF TheResult
<1>4. PICK f : f = FieldOf(r)
    OBVIOUS
<1>5. Sends(r, f) /\ f.kind = "number"
    BY <1>1, <1>2, <1>3, <1>4, FieldSent
<1>6. NumberOf(r, f)
    BY <1>5, NumberDefined DEF Sends
<1>7. Argument(r) = <<f.n, 1>> /\ f.n \in Int
    BY <1>5, <1>6, ArgumentMeans, NumberParts
<1>8. r.rpn # <<>> /\ pc = Len(r.rpn)
    BY <1>3 DEF Program, ProgramEnds
<1>9. PICK e \in Expressions : e = f.expr /\ r.rpn = Postfix[e] /\ f.expr # NoExpr
    BY <1>6, <1>8 DEF NumberOf, NumberField
<1>10. Computes(Postfix[e], <<f.n, 1>>, real, Len(Postfix[e]), stack)
    <2>1. Computes(r.rpn, Argument(r), real, pc, stack)
        BY <1>1, <1>2 DEF MeantInv
    <2> QED BY <1>7, <1>8, <1>9, <2>1, Zenon
<1>11. Len(stack) = 1 /\ Is(Evaluation(f.n, real)[e], Head(stack))
    BY <1>1, <1>7, <1>10, ProgramMeans
<1>12. ValueOf(f, real) = Evaluation(f.n, real)[e]
    BY <1>9, Zenon DEF ValueOf
<1> QED BY <1>3, <1>4, <1>11, <1>12, Zenon DEF Is

(* The machine of runRpnForResult leaves exactly the value of the          *)
(* expression a program stands for, for every expression of any size: cut  *)
(* at each step on qint64, exact on doubles.                               *)
THEOREM RpnIsInfix == Spec => []RpnMeansInfix
BY RpnNow, DecoderAlways, PTL

-----------------------------------------------------------------------------
(* What an operation is lost to.                                           *)

LEMMA PlainDecodable ==
    ASSUME NEW r, r.type = "byte", r.length = 1, r.rpn = <<>>,
           r.display \in {"hex_string", "hex_int", "string_table", "enum"},
           r.display = "enum" => ~BadLevels(r.levels)
    PROVE  ~Undecodable(r) /\ ~Ignored(r)
<1>1. ~Unreadable(r, Len(r.rpn))
    BY DEF Unreadable
<1>2. ~WrongLength(r) /\ ~Short(r) /\ ~Ignored(r)
    BY DEF WrongLength, Short, Ignored
<1> QED BY <1>1, <1>2 DEF Undecodable

LEMMA OtherDecodable ==
    ASSUME NEW r, ~Numeric(r), ~WrongLength(r), ~Ignored(r),
           r.type = "string" => r.display \in {"string", "hex_string", "int"},
           r.type = "hex_string" => r.display \in Formats,
           r.type = "boolean" /\ r.display = "string" => ~BadLevels(r.levels)
    PROVE  ~Undecodable(r)
<1>1. ~Short(r)
    BY DEF Short, Numeric
<1> QED BY <1>1 DEF Undecodable

LEMMA ReadableTokens ==
    ASSUME NEW e \in Expressions, NEW i \in 1..Len(Postfix[e])
    PROVE  Postfix[e][i].op # "unreadable"
<1>1. Postfix[e][i] \in Tokens
    BY PostfixTyped, Element
<1>2. \A x \in Expressions : x.op \in Operators \cup {"N", "number"}
    BY ExpressionAssumption
<1>3. "unreadable" \notin Operators \cup {"N", "number"}
    BY DEF Operators
<1>4. \A o \in Operators : [op |-> o].op = o
    OBVIOUS
<1>5. Postfix[e][i].op \in Operators \cup {"N", "number"}
    BY <1>1, <1>2, <1>4 DEF Tokens
<1> QED BY <1>3, <1>5, Zenon

LEMMA NumberDecodable ==
    ASSUME NEW r, NEW f, NumberOf(r, f)
    PROVE  ~Undecodable(r) /\ ~Ignored(r)
<1>1. /\ Numeric(r) /\ ~WrongLength(r)
      /\ Short(r) <=> f.type \in {"short", "signed_short"}
      /\ f.type \in {"byte", "signed_byte", "short", "signed_short"}
    BY NumberParts
<1>2. r.type = f.type /\ r.display = f.display
      /\ f.display \in IF Short(r) THEN {"int", "float"} ELSE {"raw", "float"}
    BY <1>1 DEF NumberOf, NumberField
<1>3. ~Unreadable(r, Len(r.rpn))
    <2>1. CASE f.expr = NoExpr
        <3>1. r.rpn = <<>>
            BY <2>1 DEF NumberOf
        <3> QED BY <3>1 DEF Unreadable
    <2>2. CASE f.expr # NoExpr
        <3>1. PICK e \in Expressions : r.rpn = Postfix[e]
            BY <2>2 DEF NumberOf, NumberField
        <3> QED BY <3>1, ReadableTokens DEF Unreadable
    <2> QED BY <2>1, <2>2
<1>4. ~Ignored(r)
    BY <1>1, <1>2 DEF Ignored
<1>5. r.type \notin {"string", "hex_string", "boolean"}
    BY <1>1, <1>2
<1>6. Short(r) => r.display \in {"int", "float"}
    BY <1>2
<1>7. ~Short(r) => r.display \in {"raw", "float"}
    BY <1>2
<1> QED BY <1>1, <1>3, <1>4, <1>5, <1>6, <1>7 DEF Undecodable

LEMMA FlagsDecodable ==
    ASSUME NEW r, NEW f, Defined(r, f), f.kind = "flags", ~UsesNone(f)
    PROVE  ~Undecodable(r) /\ ~Ignored(r)
<1>1. PICK l : /\ l = [special |-> f.special,
                       masks |-> {[mask |-> Power[x.bit], label |-> x.label] : x \in f.flags}]
               /\ DefOf(f) = [Definition("byte", "enum", 1) EXCEPT !.levels = l]
    BY Zenon DEF DefOf
<1>2. /\ DefOf(f).type = "byte" /\ DefOf(f).display = "enum" /\ DefOf(f).length = 1
      /\ DefOf(f).rpn = <<>> /\ DefOf(f).levels = l
    <2>1. DefOf(f) = [Definition("byte", "enum", 1) EXCEPT !.levels = l]
        BY <1>1, Zenon
    <2> QED BY <2>1 DEF Definition
<1>3. r.type = "byte" /\ r.display = "enum" /\ r.length = 1 /\ r.rpn = <<>> /\ r.levels = l
    BY <1>2, Zenon DEF Defined
<1>4. FlagsField(f)
    <2>1. Meaningful(f)
        BY DEF Defined
    <2> QED BY <2>1, Zenon DEF Meaningful
<1>5. l.special = f.special
    BY <1>1
<1>6. ~BadLevels(r.levels)
    BY <1>3, <1>4, <1>5 DEF BadLevels, FlagsField, UsesNone
<1> QED BY <1>3, <1>6, PlainDecodable

LEMMA SwitchDecodable ==
    ASSUME NEW r, NEW f, Defined(r, f), f.kind = "switch"
    PROVE  ~Undecodable(r) /\ ~Ignored(r)
<1>1. PICK l : /\ l = [special |-> [x \in {"yes", "no"} |-> IF x = "yes" THEN f.yes ELSE f.no],
                       masks |-> {}]
               /\ DefOf(f) = [Definition("boolean", "string", 1)
                                 EXCEPT !.mask = Power[f.bit], !.levels = l]
    BY Zenon DEF DefOf
<1>2. /\ DefOf(f).type = "boolean" /\ DefOf(f).display = "string" /\ DefOf(f).length = 1
      /\ DefOf(f).levels = l
    <2>1. DefOf(f) = [Definition("boolean", "string", 1)
                         EXCEPT !.mask = Power[f.bit], !.levels = l]
        BY <1>1, Zenon
    <2> QED BY <2>1 DEF Definition
<1>3. r.type = "boolean" /\ r.display = "string" /\ r.length = 1 /\ r.levels = l
    BY <1>2, Zenon DEF Defined
<1>4. DOMAIN l.special = {"yes", "no"} /\ l.masks = {}
    BY <1>1
<1>5. ~BadLevels(r.levels)
    BY <1>3, <1>4 DEF BadLevels
<1>6. ~Numeric(r) /\ ~WrongLength(r) /\ ~Ignored(r)
    BY <1>3 DEF Numeric, Short, WrongLength, Ignored
<1> QED BY <1>3, <1>5, <1>6, OtherDecodable

LEMMA TruthDecodable ==
    ASSUME NEW r, NEW f, Defined(r, f), f.kind = "truth"
    PROVE  ~Undecodable(r) /\ ~Ignored(r)
<1>1. DefOf(f) = [Definition("boolean", "raw", 1) EXCEPT !.mask = Power[f.bit]]
    BY Zenon DEF DefOf
<1>2. DefOf(f).type = "boolean" /\ DefOf(f).display = "raw" /\ DefOf(f).length = 1
    BY <1>1 DEF Definition
<1>3. r.type = "boolean" /\ r.display = "raw" /\ r.length = 1
    BY <1>2, Zenon DEF Defined
<1>4. ~Numeric(r) /\ ~WrongLength(r) /\ ~Ignored(r)
    BY <1>3 DEF Numeric, Short, WrongLength, Ignored
<1> QED BY <1>3, <1>4, OtherDecodable

LEMMA TextDecodable ==
    ASSUME NEW r, NEW f, Defined(r, f),
           f.kind \in {"six-bit", "part", "digits", "characters", "decimal", "short-vin"}
    PROVE  ~Undecodable(r) /\ ~Ignored(r)
<1>0. Meaningful(f)
    BY DEF Defined
<1>1. /\ r.type \in {"6bit-string", "hex_string", "string", "short_vin"}
      /\ r.type = "string" => r.display \in {"string", "hex_string", "int"}
      /\ r.type = "hex_string" => r.display \in Formats
    <2>1. CASE f.kind = "six-bit"
        <3>1. DefOf(f).type = "6bit-string"
            BY <2>1 DEF DefOf, Definition
        <3> QED BY <3>1 DEF Defined
    <2>2. CASE f.kind = "part"
        <3>1. DefOf(f).type = "hex_string" /\ DefOf(f).display = f.display
            BY <2>2 DEF DefOf, Definition
        <3>2. PartField(f)
            BY <1>0, <2>2, Zenon DEF Meaningful
        <3>3. f.display \in Formats
            BY <3>2 DEF PartField, Formats
        <3> QED BY <3>1, <3>3 DEF Defined
    <2>3. CASE f.kind = "digits"
        <3>1. DefOf(f).type = "hex_string" /\ DefOf(f).display = f.display
            BY <2>3 DEF DefOf, Definition
        <3>2. DigitsField(f)
            BY <1>0, <2>3, Zenon DEF Meaningful
        <3>3. f.display \in Formats
            BY <3>2 DEF DigitsField, Formats
        <3> QED BY <3>1, <3>3 DEF Defined
    <2>4. CASE f.kind = "characters"
        <3>1. DefOf(f).type = "string" /\ DefOf(f).display = f.display
            BY <2>4 DEF DefOf, Definition
        <3>2. f.display \in {"string", "hex_string"}
            BY <1>0, <2>4, Zenon DEF Meaningful
        <3> QED BY <3>1, <3>2 DEF Defined
    <2>5. CASE f.kind = "decimal"
        <3>1. DefOf(f).type = "string" /\ DefOf(f).display = "int"
            BY <2>5 DEF DefOf, Definition
        <3> QED BY <3>1 DEF Defined
    <2>6. CASE f.kind = "short-vin"
        <3>1. DefOf(f).type = "short_vin"
            BY <2>6 DEF DefOf, Definition
        <3> QED BY <3>1 DEF Defined
    <2> QED BY <2>1, <2>2, <2>3, <2>4, <2>5, <2>6
<1>2. ~Numeric(r) /\ ~WrongLength(r) /\ ~Ignored(r) /\ r.type # "boolean"
    BY <1>1 DEF Numeric, Short, WrongLength, Ignored
<1> QED BY <1>1, <1>2, OtherDecodable

LEMMA ByteDecodable ==
    ASSUME NEW r, NEW f, Defined(r, f), f.kind \in {"hex", "bcd", "table"}
    PROVE  ~Undecodable(r) /\ ~Ignored(r)
<1>1. /\ DefOf(f).type = "byte" /\ DefOf(f).length = 1 /\ DefOf(f).rpn = <<>>
      /\ DefOf(f).display \in {"hex_string", "hex_int", "string_table"}
    <2>1. CASE f.kind = "hex"
        <3>1. DefOf(f) = Definition("byte", "hex_string", 1)
            BY <2>1, Zenon DEF DefOf
        <3> QED BY <3>1 DEF Definition
    <2>2. CASE f.kind = "bcd"
        <3>1. DefOf(f) = Definition("byte", "hex_int", 1)
            BY <2>2, Zenon DEF DefOf
        <3> QED BY <3>1 DEF Definition
    <2>3. CASE f.kind = "table"
        <3>1. DefOf(f) = [Definition("byte", "string_table", 1) EXCEPT !.table = f.table]
            BY <2>3, Zenon DEF DefOf
        <3> QED BY <3>1 DEF Definition
    <2> QED BY <2>1, <2>2, <2>3
<1>2. /\ r.type = "byte" /\ r.length = 1 /\ r.rpn = <<>>
      /\ r.display \in {"hex_string", "hex_int", "string_table"}
    BY <1>1, Zenon DEF Defined
<1>3. r.display # "enum"
    BY <1>2
<1> QED BY <1>2, <1>3, PlainDecodable

(* A definition can be decoded unless it was meant not to be.              *)
LEMMA KindsDecodable ==
    ASSUME NEW r, NEW f, Defined(r, f)
    PROVE  /\ f.kind = "bad" => Undecodable(r) /\ f.def.type = r.type /\ f.def.rpn = r.rpn
           /\ f.kind # "bad" /\ ~UsesNone(f) => ~Undecodable(r) /\ ~Ignored(r)
<1>0. Meaningful(f)
    BY DEF Defined
<1>1. ASSUME f.kind = "bad"
      PROVE  Undecodable(r) /\ f.def.type = r.type /\ f.def.rpn = r.rpn
    <2>1. PICK d : d = f.def
        OBVIOUS
    <2>2. Undecodable(d)
        BY <1>0, <1>1, <2>1, Zenon DEF Meaningful
    <2>3. DefOf(f) = d
        BY <1>1, <2>1, Zenon DEF DefOf
    <2>4. /\ r.type = d.type /\ r.display = d.display /\ r.length = d.length
          /\ r.levels = d.levels /\ r.rpn = d.rpn
        BY <2>3, Zenon DEF Defined
    <2>5. /\ Numeric(r) <=> Numeric(d)
          /\ Short(r) <=> Short(d)
        BY <2>4 DEF Numeric, Short
    <2>6. WrongLength(r) <=> WrongLength(d)
        BY <2>4, <2>5 DEF WrongLength
    <2>7. Unreadable(r, Len(r.rpn)) <=> Unreadable(d, Len(d.rpn))
        BY <2>4, Zenon DEF Unreadable
    <2>8. BadLevels(r.levels) <=> BadLevels(d.levels)
        BY <2>4, Zenon
    <2>9. Undecodable(r)
        BY <2>2, <2>4, <2>5, <2>6, <2>7, <2>8, Zenon DEF Undecodable
    <2> QED BY <2>1, <2>4, <2>9
<1>2. ASSUME f.kind # "bad", ~UsesNone(f) PROVE ~Undecodable(r) /\ ~Ignored(r)
    <2>1. f.kind \in Kinds
        BY <1>0, KindKnown
    <2>2. f.kind = "number" => NumberOf(r, f)
        BY NumberDefined
    <2> QED BY <1>2, <2>1, <2>2, NumberDecodable, FlagsDecodable, SwitchDecodable,
            TruthDecodable, TextDecodable, ByteDecodable DEF Kinds
<1> QED BY <1>1, <1>2

(* A program that stops at a division by zero stands for an expression     *)
(* that has no value.                                                      *)
LEMMA ProgramStuck ==
    ASSUME NEW e \in Expressions, NEW k \in Int, NEW n \in Nat, n + 1 \in 1..Len(Postfix[e]),
           NEW s, Computes(Postfix[e], <<k, 1>>, FALSE, n, s),
           Postfix[e][n + 1].op = "/", Last(s)[1] = 0
    PROVE  Evaluation(k, FALSE)[e].dies \/ Evaluation(k, FALSE)[e].values = {}
<1>1. PICK P : P = Postfix[e]
    OBVIOUS
<1>2. PICK h : /\ h[0] = <<>> /\ h[n] = s
               /\ \A i \in 1..n : Turns(P, <<k, 1>>, FALSE, i, h[i - 1], h[i])
    BY <1>1 DEF Computes
<1>3. PICK o \in 0..n : o = 0
    OBVIOUS
<1>4. PICK l \in Nat : l = Len(Postfix[e]) /\ n < o + l
    <2>1. Len(Postfix[e]) \in Nat
        BY PostfixTyped
    <2>2. n < 0 + Len(Postfix[e])
        BY <2>1
    <2> QED BY <1>3, <2>1, <2>2, Zenon
<1>5. h[o] \in Seq(Int \X Nat)
    <2>1. <<>> \in Seq(Int \X Nat)
        OBVIOUS
    <2> QED BY <1>2, <1>3, <2>1, Zenon
<1>6. Within(P, e, o)
    <2>1. \A i \in 1..l : o + i = i
        BY <1>3
    <2> QED BY <1>1, <1>4, <2>1 DEF Within
<1>7. Ran(P, h, n, FALSE, e, o, Evaluation(k, FALSE)[e])
    BY <1>2, <1>5, <1>6, RunMeans
<1>8. Stuck(P, h, n, FALSE)
    BY <1>1, <1>2, Zenon DEF Stuck
<1> QED BY <1>4, <1>7, <1>8, Zenon DEF Ran

(* A byte that is shown has survived its program on integers.              *)
LEMMA ShownSurvives ==
    ASSUME NEW r, NEW f, Sends(r, f), Survives(r)
    PROVE  ~Dies(f)
<1> SUFFICES ASSUME f.kind = "number", ValueOf(f, FALSE).dies PROVE FALSE
    BY DEF Dies
<1>1. NumberOf(r, f)
    BY NumberDefined DEF Sends
<1>2. Argument(r) = <<f.n, 1>> /\ f.n \in Int
    BY <1>1, ArgumentMeans, NumberParts
<1>3. CASE f.expr = NoExpr
    <2>1. ValueOf(f, FALSE) = Known(<<f.n, 1>>)
        BY <1>3, Zenon DEF ValueOf
    <2>2. Known(<<f.n, 1>>).dies = FALSE
        BY DEF Known
    <2> QED BY <2>1, <2>2, Zenon
<1>4. CASE f.expr # NoExpr
    <2>1. PICK e \in Expressions : e = f.expr /\ r.rpn = Postfix[e]
        BY <1>1, <1>4 DEF NumberOf, NumberField
    <2>2. PICK s : Computes(Postfix[e], <<f.n, 1>>, FALSE, Len(Postfix[e]), s)
        BY <1>2, <2>1, Zenon DEF Survives
    <2>3. Is(Evaluation(f.n, FALSE)[e], Head(s))
        <3>1. FALSE \in BOOLEAN
            OBVIOUS
        <3> QED BY <1>2, <2>2, <3>1, ProgramMeans, Zenon
    <2>4. ValueOf(f, FALSE) = Evaluation(f.n, FALSE)[e]
        BY <1>4, <2>1, Zenon DEF ValueOf
    <2> QED BY <2>3, <2>4, Zenon DEF Is
<1> QED BY <1>3, <1>4

(* A definition with a program on integers that divides.                   *)
DiesAt(r, n, s) ==
    /\ r.type \in {"byte", "signed_byte"} /\ n + 1 \in 1..Len(r.rpn)
    /\ Computes(r.rpn, Argument(r), FALSE, n, s)
    /\ r.rpn[n + 1].op = "/" /\ Last(s)[1] = 0

LEMMA DeathExplained ==
    ASSUME NEW r, NEW f, Sends(r, f), NEW n \in Nat, NEW s, DiesAt(r, n, s)
    PROVE  MayDie(f)
<1>0. /\ r.type \in {"byte", "signed_byte"} /\ n + 1 \in 1..Len(r.rpn)
      /\ Computes(r.rpn, Argument(r), FALSE, n, s)
      /\ r.rpn[n + 1].op = "/" /\ Last(s)[1] = 0
    BY DEF DiesAt
<1>1. f.kind \in Kinds /\ Defined(r, f)
    BY KindKnown DEF Sends, Defined
<1>2. CASE f.kind = "bad"
    <2>1. f.def.type = r.type /\ f.def.rpn = r.rpn
        BY <1>1, <1>2, KindsDecodable
    <2> QED BY <1>0, <1>2, <2>1 DEF MayDie
<1>3. CASE f.kind = "number"
    <2>1. NumberOf(r, f)
        BY <1>1, <1>3, NumberDefined
    <2>2. Argument(r) = <<f.n, 1>> /\ f.n \in Int
        BY <1>3, <2>1, ArgumentMeans, NumberParts
    <2>3. Len(<<>>) = 0
        OBVIOUS
    <2>4. r.rpn # <<>>
        <3>1. SUFFICES ASSUME r.rpn = <<>> PROVE FALSE
            OBVIOUS
        <3>2. n + 1 \in 1..0
            BY <1>0, <2>3, <3>1
        <3> QED BY <3>2
    <2>5. PICK e \in Expressions : e = f.expr /\ r.rpn = Postfix[e] /\ f.expr # NoExpr
        BY <2>1, <2>4 DEF NumberOf, NumberField
    <2>6. /\ n + 1 \in 1..Len(Postfix[e]) /\ Postfix[e][n + 1].op = "/"
          /\ Computes(Postfix[e], <<f.n, 1>>, FALSE, n, s)
        BY <1>0, <2>2, <2>5, Zenon
    <2>7. Evaluation(f.n, FALSE)[e].dies \/ Evaluation(f.n, FALSE)[e].values = {}
        BY <1>0, <2>2, <2>6, ProgramStuck
    <2>8. ValueOf(f, FALSE) = Evaluation(f.n, FALSE)[e]
        BY <2>5, Zenon DEF ValueOf
    <2>9. f.type \in {"byte", "signed_byte"}
        BY <1>0, <2>1 DEF NumberOf
    <2> QED BY <1>3, <2>7, <2>8, <2>9, Zenon DEF MayDie
<1>4. CASE f.kind \notin {"bad", "number"}
    <2>1. r.rpn = <<>>
        <3>1. f.kind \in {"hex", "bcd", "table", "flags"} => DefOf(f).rpn = <<>>
            <4>1. CASE f.kind = "hex"
                <5>1. DefOf(f) = Definition("byte", "hex_string", 1)
                    BY <4>1, Zenon DEF DefOf
                <5> QED BY <5>1 DEF Definition
            <4>2. CASE f.kind = "bcd"
                <5>1. DefOf(f) = Definition("byte", "hex_int", 1)
                    BY <4>2, Zenon DEF DefOf
                <5> QED BY <5>1 DEF Definition
            <4>3. CASE f.kind = "table"
                <5>1. DefOf(f) = [Definition("byte", "string_table", 1) EXCEPT !.table = f.table]
                    BY <4>3, Zenon DEF DefOf
                <5> QED BY <5>1 DEF Definition
            <4>4. CASE f.kind = "flags"
                <5>1. PICK l : DefOf(f) = [Definition("byte", "enum", 1) EXCEPT !.levels = l]
                    BY <4>4, Zenon DEF DefOf
                <5> QED BY <5>1 DEF Definition
            <4> QED BY <4>1, <4>2, <4>3, <4>4
        <3>2. f.kind \notin {"hex", "bcd", "table", "flags"} =>
                 DefOf(f).type \notin {"byte", "signed_byte"}
            BY <1>1, <1>4 DEF DefOf, Definition, Kinds
        <3> QED BY <1>0, <1>1, <3>1, <3>2 DEF Defined
    <2>2. Len(<<>>) = 0
        OBVIOUS
    <2>3. n + 1 \in 1..0
        BY <1>0, <2>1, <2>2
    <2> QED BY <2>3
<1> QED BY <1>2, <1>3, <1>4

LEMMA OutcomeNow == DecoderInv => OutcomeExplained
<1> SUFFICES ASSUME DecoderInv, \A r \in job.results : ~UsesNone(FieldOf(r))
             PROVE  OutcomeExplained
    BY DEF OutcomeExplained
<1> DEFINE complete == {r \in job.results : Complete(job, r)}
<1>0. /\ DecodeInv /\ OutcomeInv /\ MeantInv /\ ResponseComplete /\ job \in Jobs
      /\ stage \in {"done", "killed"} => packet # NoPacket
    BY CompleteNow DEF DecoderInv, DecodeInv, PacketInv, Types
<1>1. ASSUME packet # NoPacket, NEW r \in job.results
      PROVE  /\ InRange(r) <=> r \in complete
             /\ Defined(r, FieldOf(r))
             /\ InRange(r) => Sends(r, FieldOf(r))
             /\ FieldOf(r).kind = "bad" => Undecodable(r)
             /\ FieldOf(r).kind # "bad" => ~Undecodable(r) /\ ~Ignored(r)
    BY <1>0, <1>1, FieldSent, FieldDefined, KindsDecodable
<1>2. ASSUME stage = "done"
      PROVE  /\ DOMAIN response = {r.name : r \in complete}
             /\ \A r \in complete : FieldOf(r).kind # "bad" /\ ~Dies(FieldOf(r))
    <2>1. packet # NoPacket
        BY <1>0, <1>2
    <2>2. \A r \in complete : r \in job.results /\ InRange(r) /\ FieldOf(r).kind # "bad"
        BY <1>0, <1>1, <1>2, <2>1 DEF ResponseComplete
    <2>3. {x \in job.results : Answering(x)} = complete
        BY <1>1, <2>1, <2>2 DEF Answering
    <2>4. DOMAIN response = {r.name : r \in complete}
        BY <1>0, <1>2, <2>3 DEF ResponseComplete
    <2>5. ASSUME NEW r \in complete PROVE ~Dies(FieldOf(r))
        <3>1. /\ r \in job.results /\ InRange(r) /\ Answering(r)
              /\ Sends(r, FieldOf(r))
            BY <1>1, <2>1, <2>2, <2>3
        <3>2. Meant(r, response[r.name])
            <4>1. r.name \in DOMAIN response
                BY <2>4
            <4> QED BY <3>1, <4>1, MeantNow DEF ResponseMeant
        <3>3. PICK f : f = FieldOf(r)
            OBVIOUS
        <3>4. SUFFICES ASSUME Dies(f) PROVE FALSE
            BY <3>3
        <3>5. f.kind = "number" /\ f.type \in {"byte", "signed_byte"}
            BY <3>4 DEF Dies
        <3>6. NumberOf(r, f)
            BY <3>1, <3>3, <3>5, NumberDefined DEF Sends
        <3>7. Numeric(r) /\ ~Short(r)
            BY <3>5, <3>6, NumberParts
        <3>8. Survives(r)
            BY <3>2, <3>7 DEF Meant
        <3> QED BY <3>1, <3>3, <3>4, <3>8, ShownSurvives
    <2> QED BY <2>2, <2>4, <2>5
<1>3. ASSUME stage = "error", packet # NoPacket
      PROVE  \E r \in complete : FieldOf(r).kind = "bad"
    <2>1. PICK r \in job.results : InRange(r) /\ Undecodable(r)
        BY <1>0, <1>3 DEF ResponseComplete
    <2> QED BY <1>1, <1>3, <2>1
<1>4. ASSUME stage = "killed" PROVE \E r \in complete : MayDie(FieldOf(r))
    <2>1. PICK r \in job.results :
             /\ current = {r} /\ InRange(r) /\ Numeric(r) /\ ~Short(r)
             /\ pc + 1 \in 1..Len(r.rpn) /\ r.rpn[pc + 1].op = "/"
             /\ ~real /\ Last(stack)[1] = 0
        BY <1>0, <1>4 DEF MeantInv
    <2>2. Computes(r.rpn, Argument(r), real, pc, stack) /\ pc \in Nat /\ real = FALSE
        BY <1>0, <1>4, <2>1 DEF MeantInv, DecodeInv, Types
    <2>3. r \in complete /\ Sends(r, FieldOf(r))
        BY <1>0, <1>1, <1>4, <2>1
    <2>4. r.type \in {"byte", "signed_byte"}
        BY <2>1 DEF Numeric, Short
    <2>5. Computes(r.rpn, Argument(r), FALSE, pc, stack)
        BY <2>2
    <2>6. MayDie(FieldOf(r))
        <3>1. PICK f, s : f = FieldOf(r) /\ s = stack
            OBVIOUS
        <3>2. PICK n \in Nat : n = pc
            BY <2>2
        <3>3. Sends(r, f) /\ DiesAt(r, n, s)
            BY <2>1, <2>3, <2>4, <2>5, <3>1, <3>2 DEF DiesAt
        <3>4. MayDie(f)
            BY <3>3, DeathExplained
        <3> QED BY <3>1, <3>4
    <2> QED BY <2>3, <2>6
<1> QED BY <1>2, <1>3, <1>4 DEF OutcomeExplained

(* parseOperation leaves out only what lies outside the reply, loses the   *)
(* response only to a definition that cannot be decoded, and the process   *)
(* only to a division of integers by zero, in every order of the hash, if  *)
(* no definition uses the level `none`.                                    *)
THEOREM OutcomesAreExplained == Spec => []OutcomeExplained
BY OutcomeNow, DecoderAlways, PTL

=============================================================================
