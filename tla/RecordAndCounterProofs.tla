------------------------ MODULE RecordAndCounterProofs ------------------------
(***************************************************************************)
(* Two parts of a table that stand alone.  A record: what was written into *)
(* its bytes is what is read from them, whichever sizes are fixed, for all *)
(* sizes and times, any base and width of the fields and any threads that  *)
(* race for the access bit.  And the counters of minima and maxima, which  *)
(* are exact for any number of threads and any values.                     *)
(***************************************************************************)
EXTENDS RecordSerializer, PerfCounters, SumTheorems, SequenceTheorems

-------------------------------------------------------------------------------
(* Powers of the base.                                                       *)

\* The first powers, up to the n-th.
IsPowers(n, g) == g = [k \in 0 .. n |-> IF k = 0 THEN 1 ELSE Base * g[k - 1]]

LEMMA PowersValue ==
    ASSUME NEW n \in Nat, NEW g, IsPowers(n, g), NEW k \in 0 .. n
    PROVE  g[k] = IF k = 0 THEN 1 ELSE Base * g[k - 1]
BY DEF IsPowers

LEMMA PowersUnique ==
    ASSUME NEW m \in Nat, NEW n \in Nat, NEW g, NEW h, IsPowers(m, g), IsPowers(n, h),
           NEW k \in Nat, k <= m, k <= n
    PROVE  g[k] = h[k]
<1> DEFINE Bad == {l \in 0 .. k : g[l] # h[l]}
<1>1. SUFFICES ASSUME Bad # {} PROVE FALSE
    OBVIOUS
<1>2. PICK l \in Bad : \A i \in Bad : l <= i
  <2>1. Bad \subseteq Nat
    OBVIOUS
  <2> QED
    BY <1>1, <2>1, Smallest
<1>3. l \in 0 .. m /\ l \in 0 .. n
    OBVIOUS
<1>4. /\ g[l] = IF l = 0 THEN 1 ELSE Base * g[l - 1]
      /\ h[l] = IF l = 0 THEN 1 ELSE Base * h[l - 1]
    BY <1>3, PowersValue
<1>5. l # 0
    BY <1>4
<1>6. l - 1 \in 0 .. k /\ ~(l <= l - 1)
    BY <1>5
<1>7. g[l - 1] = h[l - 1]
    BY <1>2, <1>6
<1> QED
    BY <1>4, <1>5, <1>7

LEMMA PowersExist == \A n \in Nat : \E g : IsPowers(n, g)
<1> DEFINE Bad == {n \in Nat : ~\E g : IsPowers(n, g)}
<1>1. SUFFICES ASSUME Bad # {} PROVE FALSE
    OBVIOUS
<1>2. PICK n \in Bad : \A i \in Bad : n <= i
    BY <1>1, Smallest
<1>3. CASE n = 0
  <2>1. IsPowers(0, [k \in 0 .. 0 |-> 1])
    BY DEF IsPowers
  <2> QED
    BY <1>3, <2>1
<1>4. CASE n # 0
  <2>1. n - 1 \in Nat /\ ~(n <= n - 1)
    BY <1>4
  <2>2. PICK g : IsPowers(n - 1, g)
    BY <1>2, <2>1
  <2>3. PICK h : h = [k \in 0 .. n |-> IF k = n THEN Base * g[n - 1] ELSE g[k]]
    OBVIOUS
  <2>4. ASSUME NEW k \in 0 .. n
        PROVE  h[k] = IF k = 0 THEN 1 ELSE Base * h[k - 1]
    <3>1. CASE k = n
      <4>1. h[k] = Base * g[n - 1] /\ h[k - 1] = g[n - 1]
        BY <1>4, <2>3, <3>1
      <4> QED
        BY <1>4, <3>1, <4>1
    <3>2. CASE k # n
      <4>1. k \in 0 .. n - 1
        BY <3>2
      <4>2. g[k] = IF k = 0 THEN 1 ELSE Base * g[k - 1]
        BY <2>1, <2>2, <4>1, PowersValue
      <4>3. h[k] = g[k] /\ (k # 0 => h[k - 1] = g[k - 1])
        BY <2>3, <3>2, <4>1
      <4> QED
        BY <4>2, <4>3
    <3> QED
      BY <3>1, <3>2
  <2>5. IsPowers(n, h)
    BY <2>3, <2>4 DEF IsPowers
  <2> QED
    BY <2>5
<1> QED
    BY <1>3, <1>4

LEMMA PowerIs == Power = [n \in Nat |-> IF n = 0 THEN 1 ELSE Base * Power[n - 1]]
<1> DEFINE of(n) == CHOOSE g : IsPowers(n, g)
<1>1. \A n \in Nat : IsPowers(n, of(n))
    BY PowersExist
<1>2. PICK f : f = [n \in Nat |-> of(n)[n]]
    OBVIOUS
<1> HIDE DEF of
<1>3. ASSUME NEW n \in Nat PROVE f[n] = IF n = 0 THEN 1 ELSE Base * f[n - 1]
  <2>1. f[n] = of(n)[n] /\ (n # 0 => f[n - 1] = of(n - 1)[n - 1])
    BY <1>2
  <2>2. of(n)[n] = IF n = 0 THEN 1 ELSE Base * of(n)[n - 1]
    BY <1>1, PowersValue
  <2>3. n # 0 => of(n)[n - 1] = of(n - 1)[n - 1]
    <3>1. SUFFICES ASSUME n # 0 PROVE of(n)[n - 1] = of(n - 1)[n - 1]
      OBVIOUS
    <3>2. n - 1 \in Nat /\ n - 1 <= n /\ n - 1 <= n - 1
      BY <3>1
    <3> QED
      BY <1>1, <3>2, PowersUnique
  <2> QED
    BY <2>1, <2>2, <2>3
<1>4. f = [n \in Nat |-> IF n = 0 THEN 1 ELSE Base * f[n - 1]]
    BY <1>2, <1>3
<1> QED
    BY <1>4 DEF Power

\* The powers are positive numbers, each the one before times the base.
LEMMA Powers ==
    /\ Power[0] = 1
    /\ \A n \in Nat : Power[n] \in Nat \ {0} /\ Power[n + 1] = Base * Power[n]
<1>1. \A n \in Nat : Power[n] = IF n = 0 THEN 1 ELSE Base * Power[n - 1]
    BY PowerIs
<1> DEFINE Bad == {n \in Nat : Power[n] \notin Nat \ {0}}
<1>2. Bad = {}
  <2>1. SUFFICES ASSUME Bad # {} PROVE FALSE
    OBVIOUS
  <2>2. PICK n \in Bad : \A i \in Bad : n <= i
    BY <2>1, Smallest
  <2>3. n # 0
    BY <1>1
  <2>4. n - 1 \in Nat /\ ~(n <= n - 1)
    BY <2>3
  <2>5. PICK p \in Nat \ {0} : p = Power[n - 1]
    BY <2>2, <2>4
  <2>6. Base * p \in Nat \ {0}
    BY BaseAssumption
  <2> QED
    BY <1>1, <2>3, <2>5, <2>6
<1> QED
    BY <1>1, <1>2

-------------------------------------------------------------------------------
(* Digits.                                                                   *)

LEMMA QuotientIs ==
    ASSUME NEW a \in Nat, NEW b \in Nat \ {0}
    PROVE  a \div b \in Nat /\ a % b \in Nat /\ a % b < b /\ a = b * (a \div b) + (a % b)
OBVIOUS

\* There is one quotient and one rest.
LEMMA QuotientIsUnique ==
    ASSUME NEW a \in Nat, NEW b \in Nat \ {0}, NEW q \in Nat, NEW r \in Nat,
           r < b, a = b * q + r
    PROVE  a \div b = q /\ a % b = r
OBVIOUS

LEMMA SmallProduct ==
    ASSUME NEW p \in Nat \ {0}, NEW c \in Nat \ {0}, NEW d \in Nat, d < c,
           NEW r \in Nat, r < p
    PROVE  p * d + r \in Nat /\ p * d + r < c * p /\ c * p \in Nat \ {0}
<1>1. PICK e \in Nat : c = d + 1 + e
  <2>1. c - d - 1 \in Nat /\ c = d + 1 + (c - d - 1)
    OBVIOUS
  <2> QED
    BY <2>1
<1>2. c * p = d * p + p + e * p
    BY <1>1
<1>3. d * p = p * d /\ d * p \in Nat /\ e * p \in Nat
    OBVIOUS
<1> QED
    BY <1>2, <1>3

\* Dividing by a product is dividing twice.
LEMMA QuotientTwice ==
    ASSUME NEW a \in Nat, NEW p \in Nat \ {0}, NEW c \in Nat \ {0}
    PROVE  a \div (c * p) = (a \div p) \div c
<1>1. PICK q1 \in Nat, r1 \in Nat : /\ q1 = a \div p /\ r1 < p /\ a = p * q1 + r1
    BY QuotientIs
<1>2. PICK q2 \in Nat, r2 \in Nat : /\ q2 = q1 \div c /\ r2 < c /\ q1 = c * q2 + r2
    BY QuotientIs
<1>3. PICK r \in Nat : r = p * r2 + r1 /\ r < c * p /\ c * p \in Nat \ {0}
    BY <1>1, <1>2, SmallProduct
<1>4. p * q1 = (c * p) * q2 + p * r2
    BY <1>2
<1>5. a = (c * p) * q2 + r
    BY <1>1, <1>3, <1>4
<1>6. a \div (c * p) = q2
    BY <1>3, <1>5, QuotientIsUnique
<1> QED
    BY <1>1, <1>2, <1>6

\* What the i-th byte of a number contributes.
Digit(n, i) == (n \div Power[i - 1]) % Base

LEMMA TimesIs ==
    \A p, c, q, d \in Nat : p * (c * q + d) = (c * p) * q + p * d
OBVIOUS

LEMMA IntervalIsFinite == \A k \in Nat : IsFiniteSet(1 .. k)
BY FS_Interval

LEMMA DigitType ==
    ASSUME NEW n \in Nat, NEW i \in Nat \ {0}
    PROVE  Digit(n, i) \in Nat /\ Digit(n, i) < Base /\ Digit(n, i) * Power[i - 1] \in Nat
<1>1. PICK p \in Nat \ {0} : p = Power[i - 1]
  <2>1. i - 1 \in Nat
    OBVIOUS
  <2> QED
    BY <2>1, Powers
<1>2. PICK q \in Nat : q = n \div p
    BY QuotientIs
<1>3. PICK d \in Nat : d = q % Base /\ d < Base
    BY BaseAssumption, QuotientIs
<1>4. d * p \in Nat
    OBVIOUS
<1> QED
    BY <1>1, <1>2, <1>3, <1>4 DEF Digit

\* One byte more, and there is less of the number left.
LEMMA DigitIs ==
    ASSUME NEW n \in Nat, NEW k \in Nat
    PROVE  Digit(n, k + 1) * Power[k] + Power[k + 1] * (n \div Power[k + 1])
               = Power[k] * (n \div Power[k])
<1>1. PICK p \in Nat \ {0} : p = Power[k] /\ Power[k + 1] = Base * p
    BY Powers
<1>2. PICK q \in Nat : q = n \div p
    BY QuotientIs
<1>3. PICK c \in Nat \ {0} : c = Base
    BY BaseAssumption
<1>4. PICK q2 \in Nat, d \in Nat : q2 = q \div c /\ d = q % c /\ q = c * q2 + d
    BY QuotientIs
<1>5. n \div (c * p) = q2
    BY <1>2, <1>4, QuotientTwice
<1>6. Digit(n, k + 1) = d
  <2>1. (k + 1) - 1 = k
    OBVIOUS
  <2> QED
    BY <1>1, <1>2, <1>3, <1>4, <2>1 DEF Digit
<1>7. p * q = (c * p) * q2 + p * d
  <2>1. p * (c * q2 + d) = (c * p) * q2 + p * d
    BY TimesIs
  <2> QED
    BY <1>4, <2>1
<1>8. p * d = d * p /\ p * d \in Nat /\ (c * p) * q2 \in Nat
    OBVIOUS
<1> QED
    BY <1>1, <1>2, <1>3, <1>5, <1>6, <1>7, <1>8

\* The lowest bytes of a number, and the rest of it.
LEMMA LowDigits ==
    ASSUME NEW n \in Nat, NEW w \in Nat, NEW f,
           \A i \in 1 .. w : f[i] = Digit(n, i) * Power[i - 1]
    PROVE  SumFunctionOnSet(f, 1 .. w) + Power[w] * (n \div Power[w]) = n
<1> DEFINE Whole(k) == SumFunctionOnSet(f, 1 .. k) + Power[k] * (n \div Power[k]) = n
           Bad == {k \in 0 .. w : ~Whole(k)}
<1>1. ASSUME Bad # {} PROVE FALSE
  <2>1. PICK k \in Bad : \A j \in Bad : k <= j
    <3>1. Bad \subseteq Nat
      OBVIOUS
    <3> HIDE DEF Bad
    <3> QED
      BY <1>1, <3>1, Smallest
  <2>2. CASE k = 0
    <3>1. 1 .. 0 = {} /\ SumFunctionOnSet(f, {}) = 0
      BY SumEmpty
    <3>2. n \div 1 = n
      BY QuotientIsUnique
    <3>3. Whole(0)
      BY <3>1, <3>2, Powers
    <3> QED
      BY <2>2, <3>3
  <2>3. CASE k # 0
    <3>1. PICK m \in Nat : k = m + 1
      <4>1. k - 1 \in Nat /\ k = (k - 1) + 1
        BY <2>3
      <4> QED
        BY <4>1
    <3>2. m \in 0 .. w /\ ~(k <= m) /\ k \in 1 .. w
      BY <3>1
    <3>3. Whole(m)
      BY <2>1, <3>2
    <3>12. \A i \in 1 .. k : f[i] \in Int
      <4>1. \A i \in 1 .. k : f[i] = Digit(n, i) * Power[i - 1] /\ i \in Nat \ {0}
        BY <3>2
      <4> QED
        <5> HIDE DEF Bad, Whole
        <5> QED
          BY <4>1, DigitType
    <3>4. /\ IsFiniteSet(1 .. k) /\ k \in 1 .. k /\ (1 .. k) \ {k} = 1 .. m
          /\ \A i \in 1 .. k : f[i] \in Int
      <4>1. k \in 1 .. k /\ (1 .. k) \ {k} = 1 .. m /\ k \in Nat
        BY <3>1
      <4> QED
        BY <3>12, <4>1, IntervalIsFinite
    <3>5. SumFunctionOnSet(f, 1 .. k) = f[k] + SumFunctionOnSet(f, 1 .. m)
      <4>1. PICK S : S = 1 .. k
        OBVIOUS
      <4>2. IsFiniteSet(S) /\ k \in S /\ \A i \in S : f[i] \in Int
        BY <3>4, <4>1
      <4> HIDE DEF Bad, Whole
      <4>3. SumFunctionOnSet(f, S) = f[k] + SumFunctionOnSet(f, S \ {k})
        BY <4>2, SumRemove
      <4> QED
        BY <3>4, <4>1, <4>3
    <3>6. f[k] = Digit(n, m + 1) * Power[m]
      BY <3>1, <3>2
    <3>7. f[k] + Power[k] * (n \div Power[k]) = Power[m] * (n \div Power[m])
      BY <3>1, <3>6, DigitIs
    <3>8. SumFunctionOnSet(f, 1 .. m) \in Int
      <4>1. 1 .. m \subseteq 1 .. k
        BY <3>1
      <4> QED
        BY <3>4, <4>1, SumType, FS_Subset
    <3>9. PICK rest \in Int : rest = Power[k] * (n \div Power[k])
      <4> HIDE DEF Bad, Whole
      <4>1. PICK p \in Nat \ {0} : p = Power[k]
        <5>1. k \in Nat
          BY <3>1
        <5> QED
          BY <5>1, Powers
      <4>2. n \div p \in Nat
        BY QuotientIs
      <4> QED
        BY <4>1, <4>2
    <3>10. f[k] \in Int
      BY <3>4
    <3>11. Whole(k)
      BY <3>3, <3>5, <3>7, <3>8, <3>9, <3>10
    <3> QED
      BY <3>11
  <2> QED
    BY <2>2, <2>3
<1>2. Whole(w)
    BY <1>1
<1> QED
    BY <1>2

LEMMA BytesAre ==
    ASSUME NEW what, NEW n \in Nat, NEW w \in Nat
    PROVE  /\ DOMAIN Bytes(what, n, w) = 1 .. w
           /\ \A i \in 1 .. w : Bytes(what, n, w)[i] = <<what, Digit(n, i)>>
BY DEF Bytes, Digit

LEMMA LastChange ==
    ASSUME NEW w \in Nat, w # 0, NEW f, NEW g, f[w] \in Int, \A i \in 1 .. w : g[i] \in Int,
           \A i \in 1 .. w : i # w => f[i] = g[i]
    PROVE  SumFunctionOnSet(f, 1 .. w) = SumFunctionOnSet(g, 1 .. w) - g[w] + f[w]
<1>1. IsFiniteSet(1 .. w) /\ w \in 1 .. w
    BY IntervalIsFinite
<1> QED
    BY <1>1, SumChange

LEMMA DigitsAreNumbers ==
    ASSUME NEW n \in Nat, NEW w \in Nat, NEW g, g = [i \in 1 .. w |-> Digit(n, i) * Power[i - 1]]
    PROVE  \A i \in 1 .. w : g[i] \in Int /\ Digit(n, i) \in Nat
<1>1. SUFFICES ASSUME NEW i \in 1 .. w PROVE g[i] \in Int /\ Digit(n, i) \in Nat
    OBVIOUS
<1>2. i \in Nat \ {0} /\ g[i] = Digit(n, i) * Power[i - 1]
    OBVIOUS
<1>3. Digit(n, i) \in Nat /\ Digit(n, i) * Power[i - 1] \in Nat
    BY <1>2, DigitType
<1> QED
    BY <1>2, <1>3

\* Bytes that differ from those of a number in the last one at most.
LEMMA NumberIs ==
    ASSUME NEW n \in Nat, NEW w \in Nat, n < Power[w], NEW bytes,
           DOMAIN bytes = 1 .. w, NEW more \in Nat,
           \A i \in 1 .. w :
               bytes[i][2] = IF i = w THEN Digit(n, i) + more ELSE Digit(n, i)
    PROVE  Number(bytes) = IF w = 0 THEN n ELSE n + more * Power[w - 1]
<1>1. PICK f : f = [i \in 1 .. w |-> bytes[i][2] * Power[i - 1]]
    OBVIOUS
<1>2. PICK g : g = [i \in 1 .. w |-> Digit(n, i) * Power[i - 1]]
    OBVIOUS
<1>3. Number(bytes) = SumFunctionOnSet(f, 1 .. w)
    BY <1>1 DEF Number, SumFunction
<1>4. \A i \in 1 .. w : g[i] \in Int /\ Digit(n, i) \in Nat
    BY <1>2, DigitsAreNumbers, Zenon
<1>5. SumFunctionOnSet(g, 1 .. w) = n
  <2>1. PICK p \in Nat \ {0} : p = Power[w]
    BY Powers
  <2>2. n \div p = 0
    BY <2>1, QuotientIsUnique
  <2>3. SumFunctionOnSet(g, 1 .. w) + Power[w] * (n \div Power[w]) = n
    BY <1>2, LowDigits
  <2>4. SumFunctionOnSet(g, 1 .. w) \in Int
    BY <1>4, SumType, IntervalIsFinite
  <2> QED
    BY <2>1, <2>2, <2>3, <2>4
<1>6. CASE w = 0
    BY <1>3, <1>5, <1>6, SumEmpty
<1>7. CASE w # 0
  <2>1. w \in 1 .. w /\ w - 1 \in Nat
    BY <1>7
  <2>2. PICK p \in Nat \ {0} : p = Power[w - 1]
    BY <2>1, Powers
  <2>3. PICK d \in Nat : d = Digit(n, w)
    BY <1>4, <2>1
  <2>4. f[w] = (d + more) * p /\ g[w] = d * p
    BY <1>1, <1>2, <2>1, <2>2, <2>3
  <2>5. f[w] = g[w] + more * p /\ f[w] \in Int /\ g[w] \in Int /\ more * p \in Int
    BY <2>4
  <2>6. ASSUME NEW i \in 1 .. w, i # w PROVE f[i] = g[i]
    <3>1. bytes[i][2] = Digit(n, i)
      BY <2>6
    <3> QED
      BY <1>1, <1>2, <3>1
  <2>7. SumFunctionOnSet(f, 1 .. w) = SumFunctionOnSet(g, 1 .. w) - g[w] + f[w]
    BY <1>4, <1>7, <2>5, <2>6, LastChange, Zenon
  <2>8. PICK a \in Int, b \in Int : a = g[w] /\ b = more * p
    BY <2>5
  <2>9. n - a + (a + b) = n + b
    OBVIOUS
  <2>10. SumFunctionOnSet(f, 1 .. w) = n - a + (a + b)
    BY <1>5, <2>5, <2>7, <2>8, Zenon
  <2> QED
    BY <1>3, <1>7, <2>2, <2>8, <2>9, <2>10, Zenon
<1> QED
    BY <1>6, <1>7

\* A number that fits is read as it was written.
LEMMA NumberOfBytes ==
    ASSUME NEW what, NEW n \in Nat, NEW w \in Nat, n < Power[w]
    PROVE  Number(Bytes(what, n, w)) = n
<1>1. PICK bytes : bytes = Bytes(what, n, w)
    OBVIOUS
<1>2. DOMAIN bytes = 1 .. w /\ \A i \in 1 .. w : bytes[i] = <<what, Digit(n, i)>>
    BY <1>1, BytesAre
<1>3. \A i \in 1 .. w : Digit(n, i) \in Nat
    BY DigitType
<1>4. PICK none \in Nat : none = 0
    OBVIOUS
<1>5. Number(bytes) = IF w = 0 THEN n ELSE n + none * Power[w - 1]
  <2>1. \A i \in 1 .. w :
            bytes[i][2] = IF i = w THEN Digit(n, i) + none ELSE Digit(n, i)
    BY <1>2, <1>3, <1>4
  <2>2. DOMAIN bytes = 1 .. w
    BY <1>2
  <2> QED
    BY <2>1, <2>2, NumberIs
<1>6. w # 0 => 0 * Power[w - 1] = 0
  <2>1. SUFFICES ASSUME w # 0 PROVE 0 * Power[w - 1] = 0
    OBVIOUS
  <2>2. w - 1 \in Nat
    BY <2>1
  <2>3. PICK p \in Nat \ {0} : p = Power[w - 1]
    BY <2>2, Powers
  <2> QED
    BY <2>3
<1> QED
    BY <1>1, <1>4, <1>5, <1>6

-------------------------------------------------------------------------------
(* The time and the access bit.                                              *)

LEMMA AccessBitIs == AccessBit \in Nat \ {0} /\ Base = 2 * AccessBit
<1>1. Base \in Nat \ {0} /\ (Base % 2) = 0
    BY BaseAssumption
<1> QED
    BY <1>1 DEF AccessBit

\* Half of the numbers of w bytes: those without the highest bit.
LEMMA TimeRangeIs ==
    ASSUME NEW w \in Nat \ {0}, NEW p \in Nat \ {0}, p = Power[w - 1]
    PROVE  /\ TimeRange(w) \in Nat \ {0}
           /\ TimeRange(w) = AccessBit * p
           /\ TimeRange(w) < Power[w]
<1>1. PICK a \in Nat \ {0} : a = AccessBit /\ Base = 2 * a
    BY AccessBitIs
<1>2. Power[w] = (2 * a) * p
  <2>1. w - 1 \in Nat /\ (w - 1) + 1 = w
    OBVIOUS
  <2> QED
    BY <1>1, <2>1, Powers
<1>3. PICK r \in Nat \ {0} : r = a * p
    OBVIOUS
<1>4. (2 * a) * p = 2 * r
    BY <1>3
<1>5. (2 * r) \div 2 = r
    OBVIOUS
<1> QED
    BY <1>1, <1>2, <1>3, <1>4, <1>5 DEF TimeRange

LEMMA SmallQuotient ==
    ASSUME NEW n \in Nat, NEW p \in Nat \ {0}, NEW a \in Nat \ {0}, n < a * p
    PROVE  n \div p < a
<1>1. PICK q \in Nat, r \in Nat : q = n \div p /\ n = p * q + r
    BY QuotientIs
<1>2. SUFFICES ASSUME a <= q PROVE FALSE
    BY <1>1
<1>3. PICK e \in Nat : q = a + e
  <2>1. q - a \in Nat /\ q = a + (q - a)
    BY <1>2
  <2> QED
    BY <2>1
<1>4. p * q = a * p + p * e /\ p * e \in Nat /\ a * p \in Nat
    BY <1>3
<1> QED
    BY <1>1, <1>4

\* The highest byte of a time has no access bit.
LEMMA TopDigit ==
    ASSUME NEW w \in Nat \ {0}, NEW n \in Nat, n < TimeRange(w)
    PROVE  Digit(n, w) < AccessBit
<1>1. PICK p \in Nat \ {0} : p = Power[w - 1]
  <2>1. w - 1 \in Nat
    OBVIOUS
  <2> QED
    BY <2>1, Powers
<1>2. PICK a \in Nat \ {0} : a = AccessBit /\ Base = 2 * a
    BY AccessBitIs
<1>3. n < a * p
    BY <1>1, <1>2, TimeRangeIs
<1>4. PICK q \in Nat : q = n \div p /\ q < a
    BY <1>3, SmallQuotient, QuotientIs
<1>5. q % (2 * a) = q
  <2>1. PICK c \in Nat \ {0} : c = 2 * a
    OBVIOUS
  <2>2. q < c /\ q = c * 0 + q
    BY <1>4, <2>1
  <2> QED
    BY <2>1, <2>2, QuotientIsUnique
<1> QED
    BY <1>1, <1>2, <1>4, <1>5 DEF Digit

LEMMA WithAccessIs ==
    ASSUME NEW what, NEW d \in Nat, NEW set
    PROVE  WithAccess(<<what, d>>, set) =
               <<what, (d % AccessBit) + IF set THEN AccessBit ELSE 0>>
BY DEF WithAccess

\* What is set or cleared is the bit, and nothing else of the byte.
LEMMA WithAccessTwice ==
    ASSUME NEW what, NEW d \in Nat, NEW set \in BOOLEAN, NEW again \in BOOLEAN
    PROVE  WithAccess(WithAccess(<<what, d>>, set), again) = WithAccess(<<what, d>>, again)
<1>1. PICK a \in Nat \ {0} : a = AccessBit
    BY AccessBitIs
<1>2. PICK r \in Nat : r = d % a /\ r < a
    BY QuotientIs
<1>3. PICK e \in Nat : e = r + (IF set THEN a ELSE 0)
    OBVIOUS
<1>4. e % a = r
  <2>1. CASE set
    <3>1. e = a * 1 + r
      BY <1>3, <2>1
    <3> QED
      BY <1>2, <3>1, QuotientIsUnique
  <2>2. CASE ~set
    <3>1. e = a * 0 + r
      BY <1>3, <2>2
    <3> QED
      BY <1>2, <3>1, QuotientIsUnique
  <2> QED
    BY <2>1, <2>2
<1>5. WithAccess(<<what, d>>, set) = <<what, e>>
    BY <1>1, <1>2, <1>3, WithAccessIs
<1>6. WithAccess(<<what, e>>, again) = <<what, r + IF again THEN a ELSE 0>>
    BY <1>1, <1>4, WithAccessIs
<1>7. WithAccess(<<what, d>>, again) = <<what, r + IF again THEN a ELSE 0>>
    BY <1>1, <1>2, WithAccessIs
<1> QED
    BY <1>5, <1>6, <1>7

\* A new word has the low bits of the time, and no access bit.
LEMMA NewMetadataIs ==
    ASSUME NEW time \in Nat, NEW w \in Nat \ {0}
    PROVE  \E low \in Nat :
               /\ low = time % TimeRange(w)
               /\ low < TimeRange(w)
               /\ low < Power[w]
               /\ NewMetadata(time, w) = Bytes("metadata", low, w)
               /\ \A i \in 1 .. w : NewMetadata(time, w)[i] = <<"metadata", Digit(low, i)>>
               /\ Digit(low, w) \in Nat
               /\ Digit(low, w) < AccessBit
<1>1. PICK p \in Nat \ {0} : p = Power[w - 1]
  <2>1. w - 1 \in Nat
    OBVIOUS
  <2> QED
    BY <2>1, Powers
<1>2. PICK range \in Nat \ {0} : range = TimeRange(w) /\ range < Power[w]
    BY <1>1, TimeRangeIs
<1>3. PICK low \in Nat : low = time % range /\ low < range
    BY QuotientIs
<1>4. Power[w] \in Nat
    BY Powers
<1>5. low < Power[w]
    BY <1>2, <1>3, <1>4
<1>6. Digit(low, w) \in Nat /\ Digit(low, w) < AccessBit
    BY <1>2, <1>3, TopDigit, DigitType
<1>7. \A i \in 1 .. w : Bytes("metadata", low, w)[i] = <<"metadata", Digit(low, i)>>
  <2>1. w \in Nat
    OBVIOUS
  <2> QED
    BY <2>1, BytesAre
<1> QED
    BY <1>2, <1>3, <1>5, <1>6, <1>7 DEF NewMetadata

\* The time is what it was made of, whatever the access bit is.
LEMMA TimeOfBytes ==
    ASSUME NEW time \in Nat, NEW w \in Nat \ {0}, NEW set \in BOOLEAN, NEW bytes,
           DOMAIN bytes = 1 .. w, Len(bytes) = w,
           bytes[w] = WithAccess(NewMetadata(time, w)[w], set),
           \A i \in 1 .. w : i # w => bytes[i] = NewMetadata(time, w)[i]
    PROVE  GetEpochTime(bytes) = time % TimeRange(w)
<1>1. PICK low \in Nat :
          /\ low = time % TimeRange(w)
          /\ low < TimeRange(w)
          /\ low < Power[w]
          /\ NewMetadata(time, w) = Bytes("metadata", low, w)
          /\ \A i \in 1 .. w : NewMetadata(time, w)[i] = <<"metadata", Digit(low, i)>>
          /\ Digit(low, w) \in Nat
          /\ Digit(low, w) < AccessBit
    BY NewMetadataIs
<1>2. PICK p \in Nat \ {0} : p = Power[w - 1]
  <2>1. w - 1 \in Nat
    OBVIOUS
  <2> QED
    BY <2>1, Powers
<1>3. PICK a \in Nat \ {0} : a = AccessBit
    BY AccessBitIs
<1>4. PICK range \in Nat \ {0} : range = TimeRange(w) /\ range = a * p
    BY <1>2, <1>3, TimeRangeIs
<1>5. PICK more \in Nat : more = IF set THEN a ELSE 0
    OBVIOUS
<1>6. bytes[w] = <<"metadata", Digit(low, w) + more>>
  <2>1. w \in 1 .. w
    OBVIOUS
  <2>2. NewMetadata(time, w)[w] = <<"metadata", Digit(low, w)>>
    BY <1>1, <2>1
  <2>3. PICK d \in Nat : d = Digit(low, w) /\ d < a
    BY <1>1, <1>3
  <2>4. d % a = d
    BY <2>3, QuotientIsUnique, d = a * 0 + d
  <2>5. WithAccess(<<"metadata", d>>, set) = <<"metadata", d + more>>
    BY <1>3, <1>5, <2>4, WithAccessIs
  <2> QED
    BY <2>2, <2>3, <2>5
<1>7. \A i \in 1 .. w :
          bytes[i][2] = IF i = w THEN Digit(low, i) + more ELSE Digit(low, i)
  <2>1. \A i \in 1 .. w : i # w => bytes[i] = <<"metadata", Digit(low, i)>>
    BY <1>1, BytesAre
  <2> QED
    BY <1>6, <2>1
<1>8. Number(bytes) = low + more * p
  <2>1. w \in Nat /\ w # 0 /\ low < Power[w]
    BY <1>1
  <2>2. Number(bytes) = IF w = 0 THEN low ELSE low + more * Power[w - 1]
    BY <1>7, <2>1, NumberIs
  <2> QED
    BY <1>2, <2>1, <2>2
<1>9. (low + more * p) % range = low
  <2>1. PICK total \in Nat : total = low + more * p
    OBVIOUS
  <2>2. total = range * 1 + low \/ total = range * 0 + low
    BY <1>4, <1>5, <2>1
  <2>3. low < range
    BY <1>1, <1>4
  <2>4. total % range = low
    BY <2>2, <2>3, QuotientIsUnique
  <2> QED
    BY <2>1, <2>4
<1> QED
    BY <1>1, <1>4, <1>8, <1>9 DEF GetEpochTime

-------------------------------------------------------------------------------
(* The parts of a buffer.                                                    *)

Byte == {"size", "key", "metadata", "value"} \X Nat

\* The bytes after the first `offset` ones are those of `part`.
HasPart(bytes, offset, part) == \A i \in 1 .. Len(part) : bytes[offset + i] = part[i]

LEMMA FunctionIsSeq ==
    ASSUME NEW S, NEW n \in Nat, NEW f, f \in [1 .. n -> S]
    PROVE  f \in Seq(S) /\ Len(f) = n
OBVIOUS

LEMMA BytesAreSeq ==
    ASSUME NEW what \in {"size", "metadata"}, NEW n \in Nat, NEW w \in Nat
    PROVE  Bytes(what, n, w) \in Seq(Byte) /\ Len(Bytes(what, n, w)) = w
<1>1. PICK s : s = Bytes(what, n, w)
    OBVIOUS
<1>2. s = [i \in 1 .. w |-> <<what, Digit(n, i)>>]
    BY <1>1 DEF Bytes, Digit
<1>3. \A i \in 1 .. w : Digit(n, i) \in Nat
    BY DigitType
<1>4. s \in [1 .. w -> Byte]
    BY <1>2, <1>3 DEF Byte
<1> QED
    BY <1>1, <1>4, FunctionIsSeq

LEMMA ContentIs ==
    ASSUME NEW what \in {"key", "value"}, NEW n \in Nat
    PROVE  /\ Content(what, n) \in Seq(Byte) /\ Len(Content(what, n)) = n
           /\ \A i \in 1 .. n : Content(what, n)[i] = <<what, i>>
<1>1. Content(what, n) \in [1 .. n -> Byte]
    BY DEF Content, Byte
<1>2. Content(what, n) \in Seq(Byte) /\ Len(Content(what, n)) = n
    BY <1>1, FunctionIsSeq
<1> QED
    BY <1>2 DEF Content

\* What follows does not change a part, and is one itself.
LEMMA PartsOfBoth ==
    ASSUME NEW s \in Seq(Byte), NEW t \in Seq(Byte)
    PROVE  /\ s \o t \in Seq(Byte)
           /\ Len(s \o t) = Len(s) + Len(t)
           /\ HasPart(s \o t, Len(s), t)
           /\ \A offset \in Nat, part \in Seq(Byte) :
                  offset + Len(part) <= Len(s) /\ HasPart(s, offset, part)
                      => HasPart(s \o t, offset, part)
<1>1. PICK u : u = s \o t
    OBVIOUS
<1>2. /\ u \in Seq(Byte) /\ Len(u) = Len(s) + Len(t)
      /\ \A i \in 1 .. Len(s) + Len(t) : u[i] = IF i <= Len(s) THEN s[i] ELSE t[i - Len(s)]
    BY <1>1, ConcatProperties
<1>3. Len(s) \in Nat /\ Len(t) \in Nat
    BY LenProperties
<1>4. HasPart(u, Len(s), t)
  <2>1. ASSUME NEW i \in 1 .. Len(t) PROVE u[Len(s) + i] = t[i]
    <3>1. /\ Len(s) + i \in 1 .. Len(s) + Len(t)
          /\ ~(Len(s) + i <= Len(s))
          /\ (Len(s) + i) - Len(s) = i
      BY <1>3
    <3> QED
      BY <1>2, <3>1
  <2> QED
    BY <2>1 DEF HasPart
<1>5. ASSUME NEW offset \in Nat, NEW part \in Seq(Byte),
             offset + Len(part) <= Len(s), HasPart(s, offset, part)
      PROVE  HasPart(u, offset, part)
  <2>1. ASSUME NEW i \in 1 .. Len(part) PROVE u[offset + i] = part[i]
    <3>1. Len(part) \in Nat
      BY LenProperties
    <3>2. offset + i \in 1 .. Len(s) + Len(t) /\ offset + i <= Len(s)
      BY <1>3, <1>5, <3>1
    <3>3. u[offset + i] = s[offset + i]
      BY <1>2, <3>2
    <3> QED
      BY <1>5, <3>3 DEF HasPart
  <2> QED
    BY <2>1 DEF HasPart
<1> QED
    BY <1>1, <1>2, <1>4, <1>5

\* Five parts in a row.
HasParts(s, a, b, c, d, e) ==
    /\ s \in Seq(Byte)
    /\ Len(s) = Len(a) + Len(b) + Len(c) + Len(d) + Len(e)
    /\ HasPart(s, 0, a)
    /\ HasPart(s, Len(a), b)
    /\ HasPart(s, Len(a) + Len(b), c)
    /\ HasPart(s, Len(a) + Len(b) + Len(c), d)
    /\ HasPart(s, Len(a) + Len(b) + Len(c) + Len(d), e)

LEMMA PartsOfAll ==
    ASSUME NEW a \in Seq(Byte), NEW b \in Seq(Byte), NEW c \in Seq(Byte), NEW d \in Seq(Byte),
           NEW e \in Seq(Byte)
    PROVE  HasParts((((a \o b) \o c) \o d) \o e, a, b, c, d, e)
<1>l. Len(a) \in Nat /\ Len(b) \in Nat /\ Len(c) \in Nat /\ Len(d) \in Nat /\ Len(e) \in Nat
    BY LenProperties
<1>1. PICK ab : ab = a \o b
    OBVIOUS
<1>2. /\ ab \in Seq(Byte) /\ Len(ab) = Len(a) + Len(b)
      /\ HasPart(ab, 0, a) /\ HasPart(ab, Len(a), b)
  <2>1. HasPart(a, 0, a)
    BY <1>l DEF HasPart
  <2> QED
    BY <1>1, <1>l, <2>1, PartsOfBoth
<1>3. PICK abc : abc = ab \o c
    OBVIOUS
<1>4. /\ abc \in Seq(Byte) /\ Len(abc) = Len(a) + Len(b) + Len(c)
      /\ HasPart(abc, 0, a)
      /\ HasPart(abc, Len(a), b)
      /\ HasPart(abc, Len(a) + Len(b), c)
  <2>1. /\ abc \in Seq(Byte) /\ Len(abc) = Len(ab) + Len(c)
        /\ HasPart(abc, Len(ab), c)
    BY <1>2, <1>3, PartsOfBoth
  <2>2. ASSUME NEW offset \in Nat, NEW part \in Seq(Byte),
               offset + Len(part) <= Len(ab), HasPart(ab, offset, part)
        PROVE  HasPart(abc, offset, part)
    BY <1>2, <1>3, <2>2, PartsOfBoth
  <2>3. HasPart(abc, 0, a)
    <3>1. 0 \in Nat /\ 0 + Len(a) <= Len(ab)
      BY <1>2, <1>l
    <3> QED
      BY <1>2, <2>2, <3>1
  <2>4. HasPart(abc, Len(a), b)
    <3>1. Len(a) \in Nat /\ Len(a) + Len(b) <= Len(ab)
      BY <1>2, <1>l
    <3> QED
      BY <1>2, <2>2, <3>1
  <2> QED
    BY <1>2, <2>1, <2>3, <2>4
<1>5. PICK abcd : abcd = abc \o d
    OBVIOUS
<1>6. /\ abcd \in Seq(Byte) /\ Len(abcd) = Len(a) + Len(b) + Len(c) + Len(d)
      /\ HasPart(abcd, 0, a)
      /\ HasPart(abcd, Len(a), b)
      /\ HasPart(abcd, Len(a) + Len(b), c)
      /\ HasPart(abcd, Len(a) + Len(b) + Len(c), d)
  <2>1. /\ abcd \in Seq(Byte) /\ Len(abcd) = Len(abc) + Len(d)
        /\ HasPart(abcd, Len(abc), d)
    BY <1>4, <1>5, PartsOfBoth
  <2>2. ASSUME NEW offset \in Nat, NEW part \in Seq(Byte),
               offset + Len(part) <= Len(abc), HasPart(abc, offset, part)
        PROVE  HasPart(abcd, offset, part)
    BY <1>4, <1>5, <2>2, PartsOfBoth
  <2>3. HasPart(abcd, 0, a)
    <3>1. 0 \in Nat /\ 0 + Len(a) <= Len(abc)
      BY <1>4, <1>l
    <3> QED
      BY <1>4, <2>2, <3>1
  <2>4. HasPart(abcd, Len(a), b)
    <3>1. Len(a) \in Nat /\ Len(a) + Len(b) <= Len(abc)
      BY <1>4, <1>l
    <3> QED
      BY <1>4, <2>2, <3>1
  <2>5. HasPart(abcd, Len(a) + Len(b), c)
    <3>1. Len(a) + Len(b) \in Nat /\ Len(a) + Len(b) + Len(c) <= Len(abc)
      BY <1>4, <1>l
    <3> QED
      BY <1>4, <2>2, <3>1
  <2> QED
    BY <1>4, <2>1, <2>3, <2>4, <2>5
<1>7. PICK abcde : abcde = abcd \o e
    OBVIOUS
<1>8. /\ abcde \in Seq(Byte) /\ Len(abcde) = Len(a) + Len(b) + Len(c) + Len(d) + Len(e)
      /\ HasPart(abcde, 0, a)
      /\ HasPart(abcde, Len(a), b)
      /\ HasPart(abcde, Len(a) + Len(b), c)
      /\ HasPart(abcde, Len(a) + Len(b) + Len(c), d)
      /\ HasPart(abcde, Len(a) + Len(b) + Len(c) + Len(d), e)
  <2>1. /\ abcde \in Seq(Byte) /\ Len(abcde) = Len(abcd) + Len(e)
        /\ HasPart(abcde, Len(abcd), e)
    BY <1>6, <1>7, PartsOfBoth
  <2>2. ASSUME NEW offset \in Nat, NEW part \in Seq(Byte),
               offset + Len(part) <= Len(abcd), HasPart(abcd, offset, part)
        PROVE  HasPart(abcde, offset, part)
    BY <1>6, <1>7, <2>2, PartsOfBoth
  <2>3. HasPart(abcde, 0, a)
    <3>1. 0 \in Nat /\ 0 + Len(a) <= Len(abcd)
      BY <1>6, <1>l
    <3> QED
      BY <1>6, <2>2, <3>1
  <2>4. HasPart(abcde, Len(a), b)
    <3>1. Len(a) \in Nat /\ Len(a) + Len(b) <= Len(abcd)
      BY <1>6, <1>l
    <3> QED
      BY <1>6, <2>2, <3>1
  <2>5. HasPart(abcde, Len(a) + Len(b), c)
    <3>1. Len(a) + Len(b) \in Nat /\ Len(a) + Len(b) + Len(c) <= Len(abcd)
      BY <1>6, <1>l
    <3> QED
      BY <1>6, <2>2, <3>1
  <2>6. HasPart(abcde, Len(a) + Len(b) + Len(c), d)
    <3>1. Len(a) + Len(b) + Len(c) \in Nat /\ Len(a) + Len(b) + Len(c) + Len(d) <= Len(abcd)
      BY <1>6, <1>l
    <3> QED
      BY <1>6, <2>2, <3>1
  <2> QED
    BY <1>6, <2>1, <2>3, <2>4, <2>5, <2>6
<1>9. HasParts(abcde, a, b, c, d, e)
    BY <1>8 DEF HasParts
<1> QED
    BY <1>1, <1>3, <1>5, <1>7, <1>9

\* A part is what is read at its place.
LEMMA ReadIs ==
    ASSUME NEW bytes \in Seq(Byte), NEW offset \in Nat, NEW part \in Seq(Byte),
           offset + Len(part) <= Len(bytes), HasPart(bytes, offset, part)
    PROVE  Read(bytes, offset, Len(part)) = part
<1>1. Len(part) \in Nat /\ DOMAIN bytes = 1 .. Len(bytes) /\ Len(bytes) \in Nat
    BY LenProperties
<1>2. \A i \in 1 .. Len(part) : offset + i \in DOMAIN bytes
    BY <1>1
<1>3. Read(bytes, offset, Len(part)) = [i \in 1 .. Len(part) |-> part[i]]
    BY <1>2 DEF Read, HasPart
<1> QED
    BY <1>1, <1>3

-------------------------------------------------------------------------------
(* The layout of a record.                                                   *)

KeySizeWidth == IF HasKeySize THEN KeyWidth ELSE 0
ValueSizeWidth == IF HasValueSize THEN ValueWidth ELSE 0
KeyOffset == KeySizeWidth + ValueSizeWidth
MetadataOffset == KeyOffset + given.key
ValueOffset == MetadataOffset + given.metadata

\* The byte with the access bit, which is set or not.
IsTop(byte) ==
    \E set \in BOOLEAN :
        byte = WithAccess(NewMetadata(given.time, given.metadata)[given.metadata], set)

\* The bytes of the metadata, of which the last one has the access bit.
HasMetadata(bytes) ==
    LET word == NewMetadata(given.time, given.metadata)
    IN  \A i \in 1 .. given.metadata :
            IF i = given.metadata THEN IsTop(bytes[MetadataOffset + i])
            ELSE bytes[MetadataOffset + i] = word[i]

Layout(bytes) ==
    /\ bytes \in Seq(Byte) /\ Len(bytes) = ValueOffset + given.value
    /\ HasKeySize => HasPart(bytes, 0, Bytes("size", given.key, KeyWidth))
    /\ HasValueSize =>
           HasPart(bytes, KeySizeWidth, Bytes("size", given.value + given.metadata, ValueWidth))
    /\ HasPart(bytes, KeyOffset, Content("key", given.key))
    /\ HasMetadata(bytes)
    /\ HasPart(bytes, ValueOffset, Content("value", given.value))

\* The sizes that Init chooses.
Chosen ==
    /\ setting \in [key : Sizes, value : Sizes, metadata : MetadataSizes \cup {0}]
    /\ given \in [key : Sizes, value : Sizes, metadata : MetadataSizes, time : Times]
    /\ ~IsCache => given.metadata = 0

LEMMA ChosenNumbers ==
    ASSUME Chosen
    PROVE  /\ setting.key \in Nat /\ setting.value \in Nat /\ setting.metadata \in Nat
           /\ given.key \in Nat /\ given.value \in Nat /\ given.metadata \in Nat
           /\ given.time \in Nat
           /\ KeySizeWidth \in Nat /\ ValueSizeWidth \in Nat
           /\ KeyOffset \in Nat /\ MetadataOffset \in Nat /\ ValueOffset \in Nat
           /\ given.key < Power[KeyWidth]
           /\ given.value + given.metadata < Power[ValueWidth]
<1>1. /\ setting.key \in Nat /\ setting.value \in Nat /\ setting.metadata \in Nat
      /\ given.key \in Nat /\ given.value \in Nat /\ given.metadata \in Nat
      /\ given.time \in Nat
    BY WidthsAssumption DEF Chosen
<1>2. /\ given.key < Power[KeyWidth]
      /\ given.value + given.metadata < Power[ValueWidth]
    BY SizesFit DEF Chosen
<1>3. KeySizeWidth \in Nat /\ ValueSizeWidth \in Nat
    BY WidthsAssumption DEF KeySizeWidth, ValueSizeWidth
<1> QED
    BY <1>1, <1>2, <1>3 DEF KeyOffset, MetadataOffset, ValueOffset

\* An access bit that nobody has set is clear.
LEMMA NewMetadataHasTop ==
    ASSUME Chosen, given.metadata # 0
    PROVE  IsTop(NewMetadata(given.time, given.metadata)[given.metadata])
<1>1. PICK w \in Nat \ {0} : w = given.metadata
    BY ChosenNumbers
<1>2. PICK time \in Nat : time = given.time
    BY ChosenNumbers
<1>3. PICK low \in Nat :
          /\ \A i \in 1 .. w : NewMetadata(time, w)[i] = <<"metadata", Digit(low, i)>>
          /\ Digit(low, w) \in Nat
          /\ Digit(low, w) < AccessBit
    BY NewMetadataIs
<1>4. PICK d \in Nat : d = Digit(low, w) /\ d < AccessBit
    BY <1>3
<1>5. PICK a \in Nat \ {0} : a = AccessBit
    BY AccessBitIs
<1>6. d % a = d
    BY <1>4, <1>5, QuotientIsUnique, d = a * 0 + d
<1>7. WithAccess(<<"metadata", d>>, FALSE) = <<"metadata", d>>
  <2>1. PICK set \in BOOLEAN : set = FALSE
    OBVIOUS
  <2>2. WithAccess(<<"metadata", d>>, set) = <<"metadata", d + IF set THEN a ELSE 0>>
    BY <1>5, <1>6, WithAccessIs
  <2>3. d + (IF set THEN a ELSE 0) = d
    BY <2>1
  <2>4. WithAccess(<<"metadata", d>>, set) = <<"metadata", d>>
    BY <2>2, <2>3
  <2> QED
    BY <2>1, <2>4
<1>8. NewMetadata(time, w)[w] = <<"metadata", d>>
    BY <1>3, <1>4
<1> QED
    BY <1>1, <1>2, <1>7, <1>8 DEF IsTop

LEMMA TopIsByte ==
    ASSUME Chosen, given.metadata # 0, NEW byte, IsTop(byte)
    PROVE  /\ byte \in Byte
           /\ \A again \in BOOLEAN : IsTop(WithAccess(byte, again))
<1>1. PICK w \in Nat \ {0} : w = given.metadata
    BY ChosenNumbers
<1>2. PICK time \in Nat : time = given.time
    BY ChosenNumbers
<1>3. PICK low \in Nat :
          /\ \A i \in 1 .. w : NewMetadata(time, w)[i] = <<"metadata", Digit(low, i)>>
          /\ Digit(low, w) \in Nat
    BY NewMetadataIs
<1>4. PICK d \in Nat : NewMetadata(time, w)[w] = <<"metadata", d>>
    BY <1>3
<1>5. PICK set \in BOOLEAN : byte = WithAccess(<<"metadata", d>>, set)
    BY <1>1, <1>2, <1>4 DEF IsTop
<1>6. byte \in Byte
  <2>1. PICK a \in Nat \ {0} : a = AccessBit
    BY AccessBitIs
  <2>2. d % a \in Nat
    BY QuotientIs
  <2>3. byte = <<"metadata", (d % a) + IF set THEN a ELSE 0>>
    BY <1>5, <2>1, WithAccessIs
  <2>4. (d % a) + (IF set THEN a ELSE 0) \in Nat
    BY <2>2
  <2> QED
    BY <2>3, <2>4 DEF Byte
<1>7. ASSUME NEW again \in BOOLEAN PROVE IsTop(WithAccess(byte, again))
  <2>1. WithAccess(byte, again) = WithAccess(<<"metadata", d>>, again)
    BY <1>5, WithAccessTwice
  <2> QED
    BY <1>1, <1>2, <1>4, <2>1 DEF IsTop
<1> QED
    BY <1>6, <1>7

\* What Serialize() writes: nothing in front, between or behind the parts.
LEMMA WrittenIs ==
    ASSUME Chosen, IsValid(given.key, given.value, given.metadata), NEW bytes,
           bytes = IF IsCache
                   THEN SerializeWithMetadata(given.key, given.value, given.metadata, given.time)
                   ELSE Serialize(given.key, given.value)
    PROVE  Layout(bytes)
<1>0. /\ given.key \in Nat /\ given.value \in Nat /\ given.metadata \in Nat
      /\ given.time \in Nat /\ given.value + given.metadata \in Nat
      /\ KeyWidth \in Nat /\ ValueWidth \in Nat
    BY ChosenNumbers, WidthsAssumption
<1>1. PICK a : a = IF HasKeySize THEN Bytes("size", given.key, KeyWidth) ELSE <<>>
    OBVIOUS
<1>2. PICK b : b = IF HasValueSize THEN Bytes("size", given.value + given.metadata, ValueWidth)
                   ELSE <<>>
    OBVIOUS
<1>3. PICK c : c = Content("key", given.key)
    OBVIOUS
<1>4. PICK d : d = IF IsCache THEN NewMetadata(given.time, given.metadata) ELSE <<>>
    OBVIOUS
<1>5. PICK e : e = Content("value", given.value)
    OBVIOUS
<1>6. a \in Seq(Byte) /\ Len(a) = KeySizeWidth
  <2>1. CASE HasKeySize
    BY <1>0, <1>1, <2>1, BytesAreSeq DEF KeySizeWidth
  <2>2. CASE ~HasKeySize
    BY <1>1, <2>2, EmptySeq DEF KeySizeWidth
  <2> QED
    BY <2>1, <2>2
<1>7. b \in Seq(Byte) /\ Len(b) = ValueSizeWidth
  <2>1. CASE HasValueSize
    BY <1>0, <1>2, <2>1, BytesAreSeq DEF ValueSizeWidth
  <2>2. CASE ~HasValueSize
    BY <1>2, <2>2, EmptySeq DEF ValueSizeWidth
  <2> QED
    BY <2>1, <2>2
<1>8. /\ c \in Seq(Byte) /\ Len(c) = given.key
      /\ e \in Seq(Byte) /\ Len(e) = given.value
    BY <1>0, <1>3, <1>5, ContentIs
<1>9. d \in Seq(Byte) /\ Len(d) = given.metadata /\ (IsCache <=> given.metadata # 0)
  <2>1. CASE IsCache
    <3>1. PICK w \in Nat \ {0} : w = given.metadata
      BY <1>0, <2>1 DEF IsValid, IsCache
    <3>2. PICK low \in Nat : NewMetadata(given.time, w) = Bytes("metadata", low, w)
      BY <1>0, NewMetadataIs
    <3> QED
      BY <1>4, <2>1, <3>1, <3>2, BytesAreSeq
  <2>2. CASE ~IsCache
    BY <1>4, <2>2, EmptySeq DEF Chosen
  <2> QED
    BY <2>1, <2>2
<1>10. bytes = (((a \o b) \o c) \o d) \o e
  <2>1. CASE IsCache
    BY <1>1, <1>2, <1>3, <1>4, <1>5, <2>1 DEF SerializeWithMetadata, SerializeSizes
  <2>2. CASE ~IsCache
    <3>1. given.value + given.metadata = given.value
      BY <1>0, <1>9, <2>2
    <3>2. bytes = ((a \o b) \o c) \o e
      BY <1>1, <1>2, <1>3, <1>5, <2>2, <3>1 DEF Serialize, SerializeSizes
    <3>3. (a \o b) \o c \in Seq(Byte)
      BY <1>6, <1>7, <1>8, ConcatProperties
    <3>4. ((a \o b) \o c) \o d = (a \o b) \o c
      BY <1>4, <2>2, <3>3, ConcatEmptySeq
    <3> QED
      BY <3>2, <3>4
  <2> QED
    BY <2>1, <2>2
<1>11. /\ bytes \in Seq(Byte)
       /\ Len(bytes) = Len(a) + Len(b) + Len(c) + Len(d) + Len(e)
       /\ HasPart(bytes, 0, a)
       /\ HasPart(bytes, Len(a), b)
       /\ HasPart(bytes, Len(a) + Len(b), c)
       /\ HasPart(bytes, Len(a) + Len(b) + Len(c), d)
       /\ HasPart(bytes, Len(a) + Len(b) + Len(c) + Len(d), e)
  <2>1. HasParts((((a \o b) \o c) \o d) \o e, a, b, c, d, e)
    BY <1>6, <1>7, <1>8, <1>9, PartsOfAll
  <2> QED
    BY <1>10, <2>1 DEF HasParts
<1>12. /\ Len(a) + Len(b) = KeyOffset
       /\ Len(a) + Len(b) + Len(c) = MetadataOffset
       /\ Len(a) + Len(b) + Len(c) + Len(d) = ValueOffset
    BY <1>6, <1>7, <1>8, <1>9 DEF KeyOffset, MetadataOffset, ValueOffset
<1>13. HasMetadata(bytes)
  <2>1. SUFFICES ASSUME NEW i \in 1 .. given.metadata
                 PROVE  IF i = given.metadata THEN IsTop(bytes[MetadataOffset + i])
                        ELSE bytes[MetadataOffset + i] = NewMetadata(given.time, given.metadata)[i]
    BY DEF HasMetadata
  <2>2. IsCache /\ given.metadata # 0
    BY <1>0, <1>9
  <2>3. bytes[MetadataOffset + i] = d[i]
    BY <1>9, <1>11, <1>12 DEF HasPart
  <2>4. d[i] = NewMetadata(given.time, given.metadata)[i]
    BY <1>4, <2>2
  <2> QED
    BY <2>2, <2>3, <2>4, NewMetadataHasTop
<1> QED
    BY <1>1, <1>2, <1>3, <1>5, <1>6, <1>8, <1>11, <1>12, <1>13 DEF Layout

LEMMA LayoutNumbers ==
    ASSUME Chosen, NEW bytes, Layout(bytes)
    PROVE  /\ Len(bytes) \in Nat /\ DOMAIN bytes = 1 .. Len(bytes)
           /\ KeySizeWidth + ValueSizeWidth + given.key + given.metadata + given.value = Len(bytes)
BY ChosenNumbers, LenProperties DEF Layout, KeyOffset, MetadataOffset, ValueOffset

\* What Deserialize() makes of it.
LEMMA DeserializeIs ==
    ASSUME Chosen, IsValid(given.key, given.value, given.metadata), NEW bytes, Layout(bytes)
    PROVE  Deserialize(bytes) =
               [key |-> Content("key", given.key),
                value |-> Read(bytes, MetadataOffset, given.value + given.metadata),
                valueOffset |-> MetadataOffset]
<1>0. /\ given.key \in Nat /\ given.value \in Nat /\ given.metadata \in Nat
      /\ given.value + given.metadata \in Nat
      /\ KeyWidth \in Nat /\ ValueWidth \in Nat
      /\ KeySizeWidth \in Nat /\ ValueSizeWidth \in Nat
      /\ given.key < Power[KeyWidth]
      /\ given.value + given.metadata < Power[ValueWidth]
    BY ChosenNumbers, WidthsAssumption
<1>1. /\ Len(bytes) \in Nat
      /\ KeySizeWidth + ValueSizeWidth + given.key + given.metadata + given.value = Len(bytes)
    BY LayoutNumbers
<1>2. PICK key : key = IF HasKeySize THEN Number(Read(bytes, 0, KeyWidth)) ELSE setting.key
    OBVIOUS
<1>3. key = given.key
  <2>1. CASE HasKeySize
    <3>1. PICK part : part = Bytes("size", given.key, KeyWidth)
      OBVIOUS
    <3>2. part \in Seq(Byte) /\ Len(part) = KeyWidth
      BY <1>0, <3>1, BytesAreSeq
    <3>3. HasPart(bytes, 0, part) /\ bytes \in Seq(Byte)
      BY <2>1, <3>1 DEF Layout
    <3>4. 0 + KeyWidth <= Len(bytes)
      BY <1>0, <1>1, <2>1 DEF KeySizeWidth
    <3>5. Read(bytes, 0, KeyWidth) = part
      BY <3>2, <3>3, <3>4, ReadIs
    <3>6. Number(part) = given.key
      BY <1>0, <3>1, NumberOfBytes
    <3> QED
      BY <1>2, <2>1, <3>5, <3>6
  <2>2. CASE ~HasKeySize
    BY <1>2, <2>2 DEF IsValid, HasFixedSizes
  <2> QED
    BY <2>1, <2>2
<1>4. PICK value : value = IF HasValueSize THEN Number(Read(bytes, KeySizeWidth, ValueWidth))
                           ELSE setting.value + setting.metadata
    OBVIOUS
<1>5. value = given.value + given.metadata
  <2>1. CASE HasValueSize
    <3>1. PICK size \in Nat : size = given.value + given.metadata
      BY <1>0
    <3>2. PICK part : part = Bytes("size", size, ValueWidth)
      OBVIOUS
    <3>3. part \in Seq(Byte) /\ Len(part) = ValueWidth
      BY <1>0, <3>2, BytesAreSeq
    <3>4. HasPart(bytes, KeySizeWidth, part) /\ bytes \in Seq(Byte)
      BY <2>1, <3>1, <3>2 DEF Layout
    <3>5. KeySizeWidth + ValueWidth <= Len(bytes)
      BY <1>0, <1>1, <2>1 DEF ValueSizeWidth
    <3>6. Read(bytes, KeySizeWidth, ValueWidth) = part
      BY <1>0, <3>3, <3>4, <3>5, ReadIs
    <3>7. Number(part) = size
      BY <1>0, <3>1, <3>2, NumberOfBytes
    <3> QED
      BY <1>4, <2>1, <3>1, <3>6, <3>7
  <2>2. CASE ~HasValueSize
    BY <1>4, <2>2 DEF IsValid, HasFixedSizes
  <2> QED
    BY <2>1, <2>2
<1>6. Read(bytes, KeyOffset, given.key) = Content("key", given.key)
  <2>1. Content("key", given.key) \in Seq(Byte) /\ Len(Content("key", given.key)) = given.key
    BY <1>0, ContentIs
  <2>2. KeyOffset \in Nat /\ KeyOffset + given.key <= Len(bytes)
    BY <1>0, <1>1 DEF KeyOffset
  <2>3. HasPart(bytes, KeyOffset, Content("key", given.key)) /\ bytes \in Seq(Byte)
    BY DEF Layout
  <2> QED
    BY <2>1, <2>2, <2>3, ReadIs
<1>7. Deserialize(bytes) = [key |-> Read(bytes, KeyOffset, key),
                            value |-> Read(bytes, KeyOffset + key, value),
                            valueOffset |-> KeyOffset + key]
    BY <1>2, <1>4 DEF Deserialize, KeyOffset, KeySizeWidth, ValueSizeWidth
<1> QED
    BY <1>3, <1>5, <1>6, <1>7 DEF MetadataOffset

\* The value that is read: the metadata, and the value that was written.
LEMMA ReadValueIs ==
    ASSUME Chosen, IsValid(given.key, given.value, given.metadata), NEW bytes, Layout(bytes),
           NEW v, v = Read(bytes, MetadataOffset, given.value + given.metadata)
    PROVE  /\ Len(v) = given.value + given.metadata
           /\ SubSeq(v, setting.metadata + 1, Len(v)) = Content("value", given.value)
           /\ Len(SubSeq(v, 1, setting.metadata)) = given.metadata
           /\ DOMAIN SubSeq(v, 1, setting.metadata) = 1 .. given.metadata
           /\ \A i \in 1 .. given.metadata :
                  SubSeq(v, 1, setting.metadata)[i] = bytes[MetadataOffset + i]
<1>1. PICK m \in Nat, n \in Nat, offset \in Nat, size \in Nat :
          /\ m = given.metadata /\ n = given.value /\ offset = MetadataOffset /\ size = n + m
    BY ChosenNumbers
<1>2. setting.metadata = m
    BY <1>1 DEF IsValid
<1>3. /\ bytes \in Seq(Byte) /\ DOMAIN bytes = 1 .. Len(bytes) /\ Len(bytes) \in Nat
      /\ offset + m + n = Len(bytes)
    BY <1>1, LayoutNumbers DEF Layout, ValueOffset
<1>4. \A i \in 1 .. size : offset + i \in DOMAIN bytes
    BY <1>1, <1>3
<1>5. v = [i \in 1 .. size |-> bytes[offset + i]]
    BY <1>1, <1>4 DEF Read
<1>6. v \in [1 .. size -> Byte]
  <2>1. \A i \in DOMAIN bytes : bytes[i] \in Byte
    BY <1>3, ElementOfSeq
  <2> QED
    BY <1>4, <1>5, <2>1
<1>7. v \in Seq(Byte) /\ Len(v) = size
    BY <1>6, FunctionIsSeq
<1>8. PICK word : word = SubSeq(v, 1, m)
    OBVIOUS
<1>9. /\ word \in Seq(Byte) /\ Len(word) = m
      /\ \A i \in 1 .. m : word[i] = v[i]
  <2>1. \A i \in 1 .. m : v[i] \in Byte
    <3>1. \A i \in 1 .. m : i \in 1 .. size
      BY <1>1
    <3> QED
      BY <1>6, <3>1
  <2>2. /\ word \in Seq(Byte)
        /\ Len(word) = IF 1 <= m THEN m - 1 + 1 ELSE 0
        /\ \A i \in 1 .. m - 1 + 1 : word[i] = v[1 + i - 1]
    BY <1>8, <2>1, SubSeqProperties
  <2>3. m - 1 + 1 = m /\ \A i \in 1 .. m : 1 + i - 1 = i
    OBVIOUS
  <2> QED
    BY <2>2, <2>3
<1>10. \A i \in 1 .. m : word[i] = bytes[offset + i]
  <2>1. \A i \in 1 .. m : i \in 1 .. size
    BY <1>1
  <2> QED
    BY <1>5, <1>9, <2>1
<1>11. PICK rest : rest = SubSeq(v, m + 1, size)
    OBVIOUS
<1>12. PICK content : content = Content("value", n)
    OBVIOUS
<1>13. /\ content \in Seq(Byte) /\ Len(content) = n
       /\ HasPart(bytes, offset + m, content)
  <2>1. ValueOffset = offset + m
    BY <1>1 DEF ValueOffset
  <2> QED
    BY <1>1, <1>12, <2>1, ContentIs DEF Layout
<1>14. /\ rest \in Seq(Byte) /\ Len(rest) = n
       /\ \A i \in 1 .. n : rest[i] = v[m + i]
  <2>1. \A i \in m + 1 .. size : v[i] \in Byte
    BY <1>1, <1>6
  <2>2. /\ rest \in Seq(Byte)
        /\ Len(rest) = IF m + 1 <= size THEN size - (m + 1) + 1 ELSE 0
        /\ \A i \in 1 .. size - (m + 1) + 1 : rest[i] = v[m + 1 + i - 1]
    BY <1>11, <2>1, SubSeqProperties
  <2>3. size - (m + 1) + 1 = n /\ \A i \in 1 .. n : m + 1 + i - 1 = m + i
    BY <1>1
  <2>4. Len(rest) = n
    BY <1>1, <2>2
  <2> QED
    BY <2>2, <2>3, <2>4
<1>15. rest = content
  <2>1. ASSUME NEW i \in 1 .. n PROVE rest[i] = content[i]
    <3>1. m + i \in 1 .. size /\ offset + (m + i) = (offset + m) + i
      BY <1>1
    <3>2. rest[i] = bytes[(offset + m) + i]
      BY <1>5, <1>14, <3>1
    <3> QED
      BY <1>13, <3>2 DEF HasPart
  <2> QED
    BY <1>13, <1>14, <2>1, SeqEqual
<1>16. DOMAIN word = 1 .. m
    BY <1>9, LenProperties
<1> QED
    BY <1>1, <1>2, <1>7, <1>8, <1>9, <1>10, <1>11, <1>12, <1>15, <1>16

-------------------------------------------------------------------------------
(* The invariant of a record.                                                *)

Updates ==
    /\ update \in [Threads -> {Idle, Differs} \cup Byte]
    /\ \A t \in Threads :
           /\ update[t] # Idle => IsInCache
           /\ update[t] \notin {Idle, Differs} => IsTop(update[t])

RecordInv ==
    /\ Chosen
    /\ state = "allocated" => /\ memory \in Seq({Junk})
                              /\ Len(memory) = CalculateBufferSize(given.key, given.value)
    /\ state \in {"stored", "read"} =>
           IsValid(given.key, given.value, given.metadata) /\ Layout(memory)
    /\ Updates
    /\ state = "read" =>
           /\ record.key = Content("key", given.key)
           /\ ValueOf(record) = Content("value", given.value)
           /\ Len(record.value) = given.value + given.metadata

LEMMA BufferSizeIs ==
    ASSUME Chosen, IsValid(given.key, given.value, given.metadata)
    PROVE  CalculateBufferSize(given.key, given.value) = ValueOffset + given.value
<1>1. /\ setting.key \in Nat /\ setting.value \in Nat /\ setting.metadata \in Nat
      /\ given.key \in Nat /\ given.value \in Nat /\ given.metadata \in Nat
      /\ KeyWidth \in Nat /\ ValueWidth \in Nat
    BY ChosenNumbers, WidthsAssumption
<1> QED
    BY <1>1 DEF IsValid, HasFixedSizes, CalculateBufferSize, ValueOffset, MetadataOffset,
                KeyOffset, KeySizeWidth, ValueSizeWidth

\* A layout is one of a setting and of sizes, which do not change.
LEMMA LayoutStays ==
    ASSUME UNCHANGED <<setting, given>>, NEW bytes, Layout(bytes), memory' = bytes
    PROVE  Layout(memory)'
BY DEF Layout, HasMetadata, IsTop, ValueOffset, MetadataOffset, KeyOffset, KeySizeWidth,
       ValueSizeWidth, HasKeySize, HasValueSize

\* What threads do to the access bit is about a record that stays where it is.
LEMMA UpdatesStay ==
    ASSUME Updates, UNCHANGED <<setting, given, update>>, IsInCache => IsInCache'
    PROVE  Updates'
BY DEF Updates, IsTop

LEMMA ChosenStays == ASSUME Chosen, UNCHANGED <<setting, given>> PROVE Chosen'
BY DEF Chosen, IsCache

LEMMA Init_Record == ASSUME Init PROVE RecordInv
<1>1. Chosen
    BY DEF Init, Chosen, ReadWriteSettings, CacheSettings
<1>2. Updates
    BY DEF Init, Updates
<1>3. state = "given"
    BY DEF Init
<1> QED
    BY <1>1, <1>2, <1>3 DEF RecordInv

LEMMA Allocate_Record == ASSUME RecordInv, Allocate PROVE RecordInv'
<1>0. /\ state = "given" /\ state' = "allocated" /\ UNCHANGED <<setting, given, record, update>>
      /\ memory' = [i \in 1 .. CalculateBufferSize(given.key, given.value) |-> Junk]
    BY DEF Allocate
<1>1. Chosen' /\ Updates'
    BY <1>0, ChosenStays, UpdatesStay DEF RecordInv, IsInCache
<1>2. PICK n \in Nat : n = CalculateBufferSize(given.key, given.value)
  <2>1. setting.key \in Nat /\ setting.value \in Nat /\ setting.metadata \in Nat
        /\ given.key \in Nat /\ given.value \in Nat /\ KeyWidth \in Nat /\ ValueWidth \in Nat
    BY ChosenNumbers, WidthsAssumption DEF RecordInv
  <2> QED
    BY <2>1 DEF CalculateBufferSize
<1>3. memory' \in Seq({Junk}) /\ Len(memory') = n
  <2>1. memory' \in [1 .. n -> {Junk}]
    BY <1>0, <1>2
  <2> QED
    BY <2>1, FunctionIsSeq
<1>4. CalculateBufferSize(given.key, given.value)' = n
    BY <1>0, <1>2 DEF CalculateBufferSize, HasKeySize, HasValueSize
<1> QED
    BY <1>0, <1>1, <1>3, <1>4 DEF RecordInv

LEMMA Write_Record == ASSUME RecordInv, Write PROVE RecordInv'
<1>1. PICK bytes :
          bytes = IF IsCache
                  THEN SerializeWithMetadata(given.key, given.value, given.metadata, given.time)
                  ELSE Serialize(given.key, given.value)
    OBVIOUS
<1>2. /\ state = "allocated" /\ state' = "stored" /\ UNCHANGED <<setting, given, record, update>>
      /\ IsValid(given.key, given.value, given.metadata)
      /\ memory' = bytes \o SubSeq(memory, Len(bytes) + 1, Len(memory))
    BY <1>1 DEF Write
<1>3. Chosen' /\ Updates'
    BY <1>2, ChosenStays, UpdatesStay DEF RecordInv, IsInCache
<1>4. Layout(bytes)
    BY <1>1, <1>2, WrittenIs DEF RecordInv
<1>5. bytes \in Seq(Byte) /\ Len(bytes) \in Nat /\ Len(memory) = Len(bytes)
    BY <1>2, <1>4, BufferSizeIs, LayoutNumbers DEF RecordInv, Layout
<1>6. memory' = bytes
  <2>1. SubSeq(memory, Len(bytes) + 1, Len(memory)) = <<>>
    BY <1>5, SubSeqEmpty
  <2> QED
    BY <1>2, <1>5, <2>1, ConcatEmptySeq
<1>7. Layout(memory)'
    BY <1>2, <1>4, <1>6, LayoutStays
<1>8. IsValid(given.key, given.value, given.metadata)'
    BY <1>2 DEF IsValid, HasFixedSizes, HasKeySize, HasValueSize
<1> QED
    BY <1>2, <1>3, <1>7, <1>8 DEF RecordInv

LEMMA Throw_Record == ASSUME RecordInv, Throw PROVE RecordInv'
<1>1. Chosen' /\ Updates'
    BY ChosenStays, UpdatesStay DEF RecordInv, Throw, IsInCache
<1> QED
    BY <1>1 DEF RecordInv, Throw

\* The memory stays as it is while it is read.
LEMMA StoredStays ==
    ASSUME Chosen, IsValid(given.key, given.value, given.metadata), Layout(memory),
           UNCHANGED <<setting, given, memory>>
    PROVE  IsValid(given.key, given.value, given.metadata)' /\ Layout(memory)'
<1>1. IsValid(given.key, given.value, given.metadata)'
    BY DEF IsValid, HasFixedSizes, HasKeySize, HasValueSize
<1> QED
    BY <1>1, LayoutStays

LEMMA GetRecord_Record == ASSUME RecordInv, GetRecord PROVE RecordInv'
<1>1. /\ state = "stored" /\ state' = "read" /\ UNCHANGED <<setting, given, memory, update>>
      /\ record' = Deserialize(memory)
    BY DEF GetRecord
<1>2. Chosen /\ IsValid(given.key, given.value, given.metadata) /\ Layout(memory)
    BY <1>1 DEF RecordInv
<1>3. Chosen' /\ Updates'
    BY <1>1, ChosenStays, UpdatesStay DEF RecordInv, IsInCache, IsCache
<1>4. IsValid(given.key, given.value, given.metadata)' /\ Layout(memory)'
    BY <1>1, <1>2, StoredStays
<1>5. PICK v : v = Read(memory, MetadataOffset, given.value + given.metadata)
    OBVIOUS
<1>6. record'.key = Content("key", given.key) /\ record'.value = v
    BY <1>1, <1>2, <1>5, DeserializeIs
<1>7. /\ Len(v) = given.value + given.metadata
      /\ SubSeq(v, setting.metadata + 1, Len(v)) = Content("value", given.value)
    BY <1>2, <1>5, ReadValueIs
<1>8. ValueOf(record)' = Content("value", given.value)
    BY <1>1, <1>6, <1>7 DEF ValueOf
<1> QED
    BY <1>1, <1>3, <1>4, <1>6, <1>7, <1>8 DEF RecordInv

\* Where the access bit is.
LEMMA AccessOffsetIs ==
    ASSUME RecordInv, IsInCache
    PROVE  /\ given.metadata \in Nat \ {0}
           /\ AccessOffset = MetadataOffset + given.metadata
           /\ AccessOffset \in 1 .. Len(memory)
           /\ IsTop(memory[AccessOffset])
<1>1. Chosen /\ IsValid(given.key, given.value, given.metadata) /\ Layout(memory)
    BY DEF RecordInv, IsInCache
<1>2. Deserialize(memory).valueOffset = MetadataOffset
    BY <1>1, DeserializeIs
<1>3. setting.metadata = given.metadata /\ given.metadata \in Nat \ {0}
    BY <1>1, ChosenNumbers DEF IsValid, IsInCache, IsCache
<1>4. AccessOffset = MetadataOffset + given.metadata
    BY <1>2, <1>3 DEF AccessOffset, AccessByte
<1>5. AccessOffset \in 1 .. Len(memory)
  <2>1. PICK offset \in Nat, w \in Nat \ {0}, n \in Nat :
            offset = MetadataOffset /\ w = given.metadata /\ n = given.value
    BY <1>1, <1>3, ChosenNumbers
  <2>2. Len(memory) = (offset + w) + n
    BY <1>1, <2>1, Zenon DEF Layout, ValueOffset
  <2>3. offset + w \in 1 .. (offset + w) + n
    OBVIOUS
  <2> QED
    BY <1>4, <2>1, <2>2, <2>3, Zenon
<1>6. IsTop(memory[MetadataOffset + given.metadata])
  <2>1. given.metadata \in 1 .. given.metadata
    BY <1>3
  <2> QED
    BY <1>1, <2>1 DEF Layout, HasMetadata
<1> QED
    BY <1>3, <1>4, <1>5, <1>6

LEMMA TestAccess_Record ==
    ASSUME RecordInv, NEW t \in Threads, TestAccess(t) PROVE RecordInv'
<1>1. /\ IsInCache /\ update' = [update EXCEPT ![t] = Differs]
      /\ UNCHANGED <<setting, given, state, memory, record>>
    BY DEF TestAccess
<1>2. Updates'
    BY <1>1 DEF RecordInv, Updates, IsTop, IsInCache, IsCache
<1>3. Chosen'
    BY <1>1, ChosenStays DEF RecordInv
<1>4. state \in {"stored", "read"} =>
          IsValid(given.key, given.value, given.metadata)' /\ Layout(memory)'
    BY <1>1, StoredStays DEF RecordInv
<1> QED
    BY <1>1, <1>2, <1>3, <1>4 DEF RecordInv, IsInCache, ValueOf

LEMMA LoadAccess_Record ==
    ASSUME RecordInv, NEW t \in Threads, LoadAccess(t) PROVE RecordInv'
<1>1. /\ update[t] = Differs /\ update' = [update EXCEPT ![t] = memory[AccessOffset]]
      /\ UNCHANGED <<setting, given, state, memory, record>>
    BY DEF LoadAccess
<1>2. IsInCache
    BY <1>1 DEF RecordInv, Updates, Idle, Differs
<1>3. IsTop(memory[AccessOffset]) /\ memory[AccessOffset] \in Byte
    BY <1>2, AccessOffsetIs, TopIsByte DEF RecordInv
<1>4. PICK byte : byte = memory[AccessOffset] /\ IsTop(byte) /\ byte \in Byte
    BY <1>3
<1>5. Updates'
    BY <1>1, <1>2, <1>4 DEF RecordInv, Updates, IsTop, IsInCache, IsCache
<1>6. Chosen'
    BY <1>1, ChosenStays DEF RecordInv
<1>7. IsValid(given.key, given.value, given.metadata)' /\ Layout(memory)'
    BY <1>1, <1>2, StoredStays DEF RecordInv, IsInCache
<1> QED
    BY <1>1, <1>2, <1>5, <1>6, <1>7 DEF RecordInv, IsInCache, ValueOf

\* The sizes end before the metadata, which has at least a byte.
LEMMA SizesComeFirst ==
    ASSUME NEW keySize \in Nat, NEW valueSize \in Nat, NEW key \in Nat,
           NEW metadata \in Nat \ {0}, NEW value \in Nat
    PROVE  /\ 0 + keySize <= keySize + valueSize + key + metadata + value
           /\ 0 + keySize < keySize + valueSize + key + metadata
           /\ keySize + valueSize <= keySize + valueSize + key + metadata + value
           /\ keySize + valueSize < keySize + valueSize + key + metadata
    OBVIOUS

\* A store of the byte with the access bit leaves the layout.
LEMMA LayoutWithTop ==
    ASSUME Chosen, given.metadata \in Nat \ {0}, NEW byte, IsTop(byte), NEW bytes, Layout(bytes),
           NEW offset, offset = MetadataOffset + given.metadata
    PROVE  Layout([bytes EXCEPT ![offset] = byte])
<1>1. PICK stored : stored = [bytes EXCEPT ![offset] = byte]
    OBVIOUS
<1>2. /\ KeySizeWidth \in Nat /\ ValueSizeWidth \in Nat /\ KeyOffset \in Nat
      /\ MetadataOffset \in Nat /\ ValueOffset \in Nat
      /\ given.key \in Nat /\ given.value \in Nat /\ given.value + given.metadata \in Nat
      /\ KeyWidth \in Nat /\ ValueWidth \in Nat
    BY ChosenNumbers, WidthsAssumption
<1>3. bytes \in Seq(Byte) /\ byte \in Byte /\ offset \in 1 .. Len(bytes)
    BY <1>2, TopIsByte DEF Layout, ValueOffset
<1>4. /\ stored \in Seq(Byte) /\ Len(stored) = Len(bytes)
      /\ \A i \in 1 .. Len(bytes) : stored[i] = IF i = offset THEN byte ELSE bytes[i]
    BY <1>1, <1>3, ExceptSeq
<1>5. ASSUME NEW start \in Nat, NEW part, Len(part) \in Nat, HasPart(bytes, start, part),
             start + Len(part) <= Len(bytes),
             start + Len(part) < offset \/ offset <= start
      PROVE  HasPart(stored, start, part)
  <2>1. ASSUME NEW i \in 1 .. Len(part) PROVE stored[start + i] = part[i]
    <3>1. start + i \in 1 .. Len(bytes) /\ start + i # offset
      BY <1>3, <1>5
    <3>2. stored[start + i] = bytes[start + i]
      BY <1>4, <3>1
    <3> QED
      BY <1>5, <3>2 DEF HasPart
  <2> QED
    BY <2>1 DEF HasPart
<1>6. /\ Len(bytes) = KeySizeWidth + ValueSizeWidth + given.key + given.metadata + given.value
      /\ Len(bytes) = MetadataOffset + given.metadata + given.value
      /\ offset = KeySizeWidth + ValueSizeWidth + given.key + given.metadata
    BY <1>2 DEF Layout, ValueOffset, MetadataOffset, KeyOffset
<1>7. /\ 0 + KeySizeWidth <= Len(bytes) /\ 0 + KeySizeWidth < offset
      /\ KeySizeWidth + ValueSizeWidth <= Len(bytes)
      /\ KeySizeWidth + ValueSizeWidth < offset
  <2>1. PICK keySize \in Nat, valueSize \in Nat, key \in Nat, metadata \in Nat \ {0},
             value \in Nat :
            /\ keySize = KeySizeWidth /\ valueSize = ValueSizeWidth
            /\ key = given.key /\ metadata = given.metadata /\ value = given.value
    BY <1>2
  <2>2. /\ 0 + keySize <= keySize + valueSize + key + metadata + value
        /\ 0 + keySize < keySize + valueSize + key + metadata
        /\ keySize + valueSize <= keySize + valueSize + key + metadata + value
        /\ keySize + valueSize < keySize + valueSize + key + metadata
    BY SizesComeFirst
  <2> QED
    BY <1>6, <2>1, <2>2
<1>8. HasKeySize => HasPart(stored, 0, Bytes("size", given.key, KeyWidth))
  <2>1. SUFFICES ASSUME HasKeySize PROVE HasPart(stored, 0, Bytes("size", given.key, KeyWidth))
    OBVIOUS
  <2>2. PICK part : part = Bytes("size", given.key, KeyWidth)
    OBVIOUS
  <2>3. HasPart(bytes, 0, part) /\ Len(part) = KeyWidth /\ KeySizeWidth = KeyWidth
    BY <1>2, <2>1, <2>2, BytesAreSeq DEF Layout, KeySizeWidth
  <2>4. 0 + Len(part) <= Len(bytes) /\ 0 + Len(part) < offset /\ Len(part) \in Nat
    BY <1>2, <1>7, <2>3
  <2>5. HasPart(stored, 0, part)
    BY <1>5, <2>3, <2>4
  <2> QED
    BY <2>2, <2>5
<1>9. HasValueSize => HasPart(stored, KeySizeWidth,
                              Bytes("size", given.value + given.metadata, ValueWidth))
  <2>1. SUFFICES ASSUME HasValueSize
                 PROVE  HasPart(stored, KeySizeWidth,
                                Bytes("size", given.value + given.metadata, ValueWidth))
    OBVIOUS
  <2>2. PICK part : part = Bytes("size", given.value + given.metadata, ValueWidth)
    OBVIOUS
  <2>3. /\ HasPart(bytes, KeySizeWidth, part) /\ Len(part) = ValueWidth
        /\ ValueSizeWidth = ValueWidth
    BY <1>2, <2>1, <2>2, BytesAreSeq DEF Layout, ValueSizeWidth
  <2>4. /\ KeySizeWidth + Len(part) <= Len(bytes) /\ KeySizeWidth + Len(part) < offset
        /\ Len(part) \in Nat
    BY <1>2, <1>7, <2>3
  <2>5. HasPart(stored, KeySizeWidth, part)
    BY <1>2, <1>5, <2>3, <2>4
  <2> QED
    BY <2>2, <2>5
<1>10. HasPart(stored, KeyOffset, Content("key", given.key))
  <2>1. PICK part : part = Content("key", given.key)
    OBVIOUS
  <2>2. HasPart(bytes, KeyOffset, part) /\ Len(part) = given.key
    BY <1>2, <2>1, ContentIs DEF Layout
  <2>3. /\ KeyOffset + Len(part) <= Len(bytes) /\ KeyOffset + Len(part) < offset
        /\ Len(part) \in Nat
    <3>1. PICK start \in Nat, key \in Nat, metadata \in Nat \ {0}, value \in Nat :
              /\ start = KeyOffset /\ key = given.key
              /\ metadata = given.metadata /\ value = given.value
      BY <1>2
    <3>2. Len(bytes) = ((start + key) + metadata) + value /\ offset = (start + key) + metadata
      BY <1>6, <3>1, Zenon DEF MetadataOffset
    <3>3. /\ start + key <= ((start + key) + metadata) + value
          /\ start + key < (start + key) + metadata
      OBVIOUS
    <3> QED
      BY <2>2, <3>1, <3>2, <3>3, Zenon
  <2>4. HasPart(stored, KeyOffset, part)
    BY <1>2, <1>5, <2>2, <2>3
  <2> QED
    BY <2>1, <2>4
<1>11. HasPart(stored, ValueOffset, Content("value", given.value))
  <2>1. PICK part : part = Content("value", given.value)
    OBVIOUS
  <2>2. HasPart(bytes, ValueOffset, part) /\ Len(part) = given.value
    BY <1>2, <2>1, ContentIs DEF Layout
  <2>3. /\ ValueOffset + Len(part) <= Len(bytes) /\ offset <= ValueOffset
        /\ Len(part) \in Nat
    BY <1>2, <1>6, <2>2 DEF ValueOffset, MetadataOffset, KeyOffset
  <2>4. HasPart(stored, ValueOffset, part)
    BY <1>2, <1>5, <2>2, <2>3
  <2> QED
    BY <2>1, <2>4
<1>12. HasMetadata(stored)
  <2>1. SUFFICES ASSUME NEW i \in 1 .. given.metadata
                 PROVE  IF i = given.metadata THEN IsTop(stored[MetadataOffset + i])
                        ELSE stored[MetadataOffset + i] =
                                 NewMetadata(given.time, given.metadata)[i]
    BY DEF HasMetadata
  <2>2. MetadataOffset + i \in 1 .. Len(bytes)
    BY <1>2, <1>6
  <2>3. CASE i = given.metadata
    <3>1. stored[MetadataOffset + i] = byte
      BY <1>4, <2>2, <2>3
    <3> QED
      BY <2>3, <3>1
  <2>4. CASE i # given.metadata
    <3>1. MetadataOffset + i # offset
      BY <1>2, <2>4
    <3>2. stored[MetadataOffset + i] = bytes[MetadataOffset + i]
      BY <1>4, <2>2, <3>1
    <3> QED
      BY <2>4, <3>2 DEF Layout, HasMetadata
  <2> QED
    BY <2>3, <2>4
<1> QED
    BY <1>1, <1>4, <1>8, <1>9, <1>10, <1>11, <1>12 DEF Layout

LEMMA StoreAccess_Record ==
    ASSUME RecordInv, NEW t \in Threads, StoreAccess(t) PROVE RecordInv'
<1>1. /\ update[t] \notin {Idle, Differs} /\ update' = [update EXCEPT ![t] = Idle]
      /\ memory' = [memory EXCEPT ![AccessOffset] = WithAccess(update[t], t \in Setters)]
      /\ UNCHANGED <<setting, given, state, record>>
    BY DEF StoreAccess
<1>2. IsInCache /\ IsTop(update[t])
    BY <1>1 DEF RecordInv, Updates
<1>3. Chosen /\ IsValid(given.key, given.value, given.metadata) /\ Layout(memory)
    BY <1>2 DEF RecordInv, IsInCache
<1>4. given.metadata \in Nat \ {0} /\ AccessOffset = MetadataOffset + given.metadata
    BY <1>2, AccessOffsetIs
<1>5. PICK byte : byte = WithAccess(update[t], t \in Setters)
    OBVIOUS
<1>6. IsTop(byte)
  <2>1. byte = WithAccess(update[t], TRUE) \/ byte = WithAccess(update[t], FALSE)
    BY <1>5 DEF WithAccess
  <2> QED
    BY <1>2, <1>3, <1>4, <2>1, TopIsByte
<1>7. Layout(memory)'
    BY <1>1, <1>3, <1>4, <1>5, <1>6, LayoutWithTop, LayoutStays
<1>8. IsValid(given.key, given.value, given.metadata)'
    BY <1>1, <1>3 DEF IsValid, HasFixedSizes, HasKeySize, HasValueSize
<1>9. Chosen'
    BY <1>1, <1>3, ChosenStays
<1>10. Updates'
    BY <1>1, <1>2 DEF RecordInv, Updates, IsTop, IsInCache, IsCache
<1> QED
    BY <1>1, <1>2, <1>7, <1>8, <1>9, <1>10 DEF RecordInv, IsInCache, ValueOf

LEMMA Next_Record == ASSUME RecordInv, [Next]_vars PROVE RecordInv'
<1>1. CASE UNCHANGED vars
  <2>1. Chosen' /\ Updates'
    BY <1>1, ChosenStays, UpdatesStay DEF RecordInv, vars, IsInCache, IsCache
  <2>2. state \in {"stored", "read"} =>
            IsValid(given.key, given.value, given.metadata)' /\ Layout(memory)'
    BY <1>1, StoredStays DEF RecordInv, vars
  <2> QED
    BY <1>1, <2>1, <2>2 DEF RecordInv, vars, ValueOf, CalculateBufferSize, HasKeySize,
                            HasValueSize
<1>2. ASSUME NEW t \in Threads, UpdateAccessStatus(t) PROVE RecordInv'
    BY <1>2, TestAccess_Record, LoadAccess_Record, StoreAccess_Record DEF UpdateAccessStatus
<1> QED
    BY <1>1, <1>2, Allocate_Record, Write_Record, Throw_Record, GetRecord_Record DEF Next

LEMMA RecordInvHolds == Spec => []RecordInv
<1>1. Init => RecordInv
    BY Init_Record
<1>2. RecordInv /\ [Next]_vars => RecordInv'
    BY Next_Record
<1> QED
    BY <1>1, <1>2, PTL DEF Spec
\* A record that is in the memory, and everything that is said of it.
LEMMA StoredIs ==
    ASSUME RecordInv, state \in {"stored", "read"}
    PROVE  Chosen /\ IsValid(given.key, given.value, given.metadata) /\ Layout(memory)
BY DEF RecordInv

\* A buffer that has a record is as large as the allocation was, every byte of it is
\* written, and the performance counters add up all of its bytes.
THEOREM ExactSizes == Spec => []SizesAreExact
<1>1. ASSUME RecordInv PROVE SizesAreExact
  <2>1. ASSUME state \in {"stored", "read"}
        PROVE  /\ Len(memory) = CalculateBufferSize(given.key, given.value)
               /\ Junk \notin {memory[i] : i \in DOMAIN memory}
    <3>1. Chosen /\ IsValid(given.key, given.value, given.metadata) /\ Layout(memory)
      BY <1>1, <2>1, StoredIs
    <3>2. Len(memory) = CalculateBufferSize(given.key, given.value)
      BY <3>1, BufferSizeIs DEF Layout
    <3>3. \A i \in DOMAIN memory : memory[i] \in Byte
      BY <3>1, LayoutNumbers, ElementOfSeq DEF Layout
    <3>4. Junk \notin Byte
      BY DEF Junk, Byte
    <3> QED
      BY <3>2, <3>3, <3>4
  <2>2. ASSUME state = "read"
        PROVE  Len(record.key) + Len(record.value) + CalculateRecordOverhead = Len(memory)
    <3>1. Chosen /\ Layout(memory)
      BY <1>1, <2>2, StoredIs
    <3>2. PICK keySize \in Nat, valueSize \in Nat, key \in Nat, metadata \in Nat, value \in Nat :
              /\ keySize = KeySizeWidth /\ valueSize = ValueSizeWidth
              /\ key = given.key /\ metadata = given.metadata /\ value = given.value
      BY <3>1, ChosenNumbers
    <3>3. Len(memory) = keySize + valueSize + key + metadata + value
      BY <3>1, <3>2, LayoutNumbers
    <3>4. Len(record.key) = key
      BY <1>1, <2>2, <3>2, ContentIs DEF RecordInv
    <3>5. Len(record.value) = value + metadata
      BY <1>1, <2>2, <3>2 DEF RecordInv
    <3>6. CalculateRecordOverhead = keySize + valueSize
      BY <3>2 DEF CalculateRecordOverhead, KeySizeWidth, ValueSizeWidth
    <3>7. key + (value + metadata) + (keySize + valueSize)
              = keySize + valueSize + key + metadata + value
      OBVIOUS
    <3> QED
      BY <3>3, <3>4, <3>5, <3>6, <3>7, Zenon
  <2> QED
    BY <2>1, <2>2 DEF SizesAreExact
<1> QED
    BY <1>1, RecordInvHolds, PTL

\* What is read is the key and the value that were written, whichever sizes are fixed
\* and whatever threads do to the access bit.
THEOREM RecordsAreKept == Spec => []RoundTrip
<1>1. RecordInv => RoundTrip
    BY DEF RecordInv, RoundTrip
<1> QED
    BY <1>1, RecordInvHolds, PTL

\* No race for the access bit changes the time of a record.
THEOREM TimesAreKept == Spec => []TimeIsKept
<1>1. ASSUME RecordInv PROVE TimeIsKept
  <2>1. SUFFICES ASSUME IsInCache, given.time < TimeRange(setting.metadata)
                 PROVE  GetEpochTime(MetadataOf(Deserialize(memory))) = given.time
    BY DEF TimeIsKept
  <2>2. Chosen /\ IsValid(given.key, given.value, given.metadata) /\ Layout(memory)
    BY <1>1, <2>1, StoredIs DEF IsInCache
  <2>3. PICK w \in Nat \ {0} : w = given.metadata /\ w = setting.metadata
    BY <2>1, <2>2, ChosenNumbers DEF IsInCache, IsCache, IsValid
  <2>4. PICK time \in Nat : time = given.time
    BY <2>2, ChosenNumbers
  <2>5. PICK v : v = Read(memory, MetadataOffset, given.value + given.metadata)
    OBVIOUS
  <2>6. PICK word : word = SubSeq(v, 1, w)
    OBVIOUS
  <2>7. MetadataOf(Deserialize(memory)) = word
    <3>1. Deserialize(memory).value = v
      BY <2>2, <2>5, DeserializeIs
    <3> QED
      BY <2>3, <2>6, <3>1, Zenon DEF MetadataOf
  <2>8. /\ DOMAIN word = 1 .. w /\ Len(word) = w
        /\ \A i \in 1 .. w : word[i] = memory[MetadataOffset + i]
    <3>1. /\ Len(SubSeq(v, 1, setting.metadata)) = given.metadata
          /\ DOMAIN SubSeq(v, 1, setting.metadata) = 1 .. given.metadata
          /\ \A i \in 1 .. given.metadata :
                 SubSeq(v, 1, setting.metadata)[i] = memory[MetadataOffset + i]
      BY <2>2, <2>5, ReadValueIs
    <3>2. SubSeq(v, 1, setting.metadata) = word
      BY <2>3, <2>6, Zenon
    <3> QED
      BY <2>3, <3>1, <3>2, Zenon
  <2>9. \A i \in 1 .. w : IF i = w THEN IsTop(word[i]) ELSE word[i] = NewMetadata(time, w)[i]
    BY <2>2, <2>3, <2>4, <2>8 DEF Layout, HasMetadata
  <2>10. w \in 1 .. w
    OBVIOUS
  <2>11. PICK set \in BOOLEAN : word[w] = WithAccess(NewMetadata(time, w)[w], set)
    BY <2>3, <2>4, <2>9, <2>10 DEF IsTop
  <2>12. GetEpochTime(word) = time % TimeRange(w)
    BY <2>8, <2>9, <2>11, TimeOfBytes
  <2>13. PICK range \in Nat \ {0} : range = TimeRange(w)
    <3>1. PICK p \in Nat \ {0} : p = Power[w - 1]
      <4>1. w - 1 \in Nat
        OBVIOUS
      <4> QED
        BY <4>1, Powers
    <3> QED
      BY <3>1, TimeRangeIs
  <2>14. time % range = time
    BY <2>1, <2>3, <2>4, <2>13, QuotientIsUnique, time = range * 0 + time
  <2> QED
    BY <2>4, <2>7, <2>12, <2>13, <2>14
<1> QED
    BY <1>1, RecordInvHolds, PTL

-------------------------------------------------------------------------------
(* The counters of minima and maxima.  CounterInv is inductive:              *)
(* ExtremeOfReported alone is not, because a call that returns without an    *)
(* exchange relies on what it has seen of the counter, which is what         *)
(* SeenIsBehind bounds.                                                      *)

CounterInv == TypeOK /\ SeenIsBehind /\ ExtremeOfReported

\* Initial values and what is reported are numbers.
LEMMA CounterValuesAreNumbers ==
    /\ Initial \in [Counters -> Int]
    /\ \A counter \in Counters : CounterValues(counter) \subseteq Int
BY CountersAssumption, ValuesAssumption DEF Initial, InitialValue, CounterValues

\* A counter that has moved from a to b, where a is not further out, is not behind
\* anything that a was not behind.
LEMMA BeyondIsTransitive ==
    ASSUME NEW counter \in Counters, NEW a \in Int, NEW b \in Int, NEW c \in Int,
           ~Beyond(counter, a, b), ~Beyond(counter, b, c)
    PROVE  ~Beyond(counter, a, c)
BY DEF Beyond

\* Nothing is further out than itself.
LEMMA BeyondIsIrreflexive == \A counter \in Counters, a \in Int : ~Beyond(counter, a, a)
BY DEF Beyond

\* What is further out than another is not behind it.
LEMMA BeyondIsAsymmetric ==
    \A counter \in Counters, a \in Int, b \in Int : Beyond(counter, a, b) => ~Beyond(counter, b, a)
BY DEF Beyond

\* The constructor (PerfCounter.h:177) sets each counter to its neutral value.
LEMMA InitEstablishesCounterInv == CounterInit => CounterInv
<1> SUFFICES ASSUME CounterInit PROVE CounterInv
    OBVIOUS
<1>1. TypeOK
    BY CounterValuesAreNumbers DEF CounterInit, TypeOK, CounterValues
<1>2. SeenIsBehind
    BY DEF CounterInit, SeenIsBehind
<1>3. ExtremeOfReported
    BY CounterValuesAreNumbers, BeyondIsIrreflexive DEF CounterInit, ExtremeOfReported
<1> QED
    BY <1>1, <1>2, <1>3 DEF CounterInv

\* One step of a loop of Min() or Max() keeps the invariant.
LEMMA StepKeepsCounterInv == CounterInv /\ [CounterNext]_counterVars => CounterInv'
<1> SUFFICES ASSUME CounterInv, [CounterNext]_counterVars PROVE CounterInv'
    OBVIOUS
<1> USE DEF CounterInv
<1>t. \A t \in Reporters : call[t] # NoCall =>
          /\ call[t].counter \in Counters
          /\ call[t].value \in Values
          /\ call[t].value \in Int
          /\ call[t].startValue \in Int
    BY ValuesAssumption DEF TypeOK, Calls
<1>1. ASSUME NEW t \in Reporters, NEW counter \in Counters, NEW value \in Values,
             Begin(t, counter, value)
      PROVE  CounterInv'
    <2>1. counters[counter] \in Int
        BY DEF TypeOK
    <2>2. TypeOK'
        BY <1>1, <2>1 DEF TypeOK, Begin, Calls, NoCall, CounterValues
    <2>3. SeenIsBehind'
        BY <1>1, <2>1, BeyondIsIrreflexive DEF SeenIsBehind, Begin, TypeOK, NoCall
    <2>4. ExtremeOfReported'
        BY <1>1 DEF ExtremeOfReported, Begin
    <2> QED
        BY <2>2, <2>3, <2>4
<1>2. ASSUME NEW t \in Reporters, Return(t)
      PROVE  CounterInv'
    <2> DEFINE counter == call[t].counter
    <2>1. counter \in Counters /\ call[t].value \in Values /\ call[t].value \in Int
              /\ call[t].startValue \in Int /\ counters[counter] \in Int
        BY <1>2, <1>t DEF Return, TypeOK
    <2>2. TypeOK'
        BY <1>2, <2>1 DEF TypeOK, Return, Done, CounterValues
    <2>3. SeenIsBehind'
        BY <1>2 DEF SeenIsBehind, Return, Done, TypeOK
    <2>4. ~Beyond(counter, call[t].value, counters[counter])
        <3>1. ~Beyond(counter, call[t].value, call[t].startValue)
            BY <1>2, <2>1, BeyondIsAsymmetric DEF Return
        <3>2. ~Beyond(counter, call[t].startValue, counters[counter])
            BY <1>2 DEF SeenIsBehind, Return
        <3> QED
            BY <2>1, <3>1, <3>2, BeyondIsTransitive
    <2>5. ExtremeOfReported'
        BY <1>2, <2>1, <2>4 DEF ExtremeOfReported, Return, Done, TypeOK
    <2> QED
        BY <2>2, <2>3, <2>5
<1>3. ASSUME NEW t \in Reporters, Exchange(t)
      PROVE  CounterInv'
    <2> DEFINE counter == call[t].counter
    <2>1. counter \in Counters /\ call[t].value \in Values /\ call[t].value \in Int
              /\ call[t].startValue \in Int /\ counters[counter] \in Int
              /\ counters[counter] \in CounterValues(counter)
        BY <1>3, <1>t DEF Exchange, TypeOK
    <2>2. CASE counters[counter] # call[t].startValue
        <3>1. /\ call' = [call EXCEPT ![t].startValue = counters[counter]]
              /\ UNCHANGED <<counters, reported>>
            BY <1>3, <2>2 DEF Exchange
        <3>2. TypeOK'
            BY <1>3, <2>1, <3>1 DEF Exchange, TypeOK, Calls, NoCall, CounterValues
        <3>3. SeenIsBehind'
            BY <1>3, <2>1, <3>1, BeyondIsIrreflexive DEF Exchange, SeenIsBehind, TypeOK, Calls
        <3>4. ExtremeOfReported'
            BY <3>1 DEF ExtremeOfReported
        <3> QED
            BY <3>2, <3>3, <3>4
    <2>3. CASE counters[counter] = call[t].startValue
        <3>1. counters' = [counters EXCEPT ![counter] = call[t].value] /\ Done(t)
            BY <1>3, <2>3 DEF Exchange
        <3>2. ~Beyond(counter, counters[counter], call[t].value)
            BY <1>3, <2>3 DEF Exchange
        <3>3. TypeOK'
            BY <2>1, <3>1 DEF TypeOK, Done, CounterValues
        <3>4. ASSUME NEW a \in Int, ~Beyond(counter, a, counters[counter])
              PROVE  ~Beyond(counter, a, call[t].value)
            BY <2>1, <3>2, <3>4, BeyondIsTransitive
        <3>5. counters'[counter] = call[t].value
                  /\ \A other \in Counters : other # counter => counters'[other] = counters[other]
            BY <2>1, <3>1 DEF TypeOK
        <3>6. SeenIsBehind'
            <4> SUFFICES ASSUME NEW u \in Reporters, call'[u] # NoCall
                         PROVE  ~Beyond(call'[u].counter, call'[u].startValue,
                                        counters'[call'[u].counter])
                BY DEF SeenIsBehind
            <4>1. call'[u] = call[u]
                BY <3>1 DEF Done, TypeOK
            <4>2. ~Beyond(call[u].counter, call[u].startValue, counters[call[u].counter])
                BY <4>1 DEF SeenIsBehind
            <4>3. call[u].counter \in Counters /\ call[u].startValue \in Int
                BY <4>1, <1>t
            <4> QED
                BY <4>1, <4>2, <4>3, <3>4, <3>5
        <3>7. /\ reported'[counter] = reported[counter] \cup {call[t].value}
              /\ \A other \in Counters : other # counter => reported'[other] = reported[other]
              /\ \A other \in Counters : reported[other] \cup {Initial[other]} \subseteq Int
            BY <2>1, <3>1, CounterValuesAreNumbers, ValuesAssumption DEF Done, TypeOK
        <3>8. ExtremeOfReported'
            <4> SUFFICES ASSUME NEW other \in Counters
                         PROVE  /\ counters'[other] \in reported'[other] \cup {Initial[other]}
                                /\ \A value \in reported'[other] \cup {Initial[other]} :
                                       ~Beyond(other, value, counters'[other])
                BY DEF ExtremeOfReported, Initial
            <4>1. CASE other # counter
                BY <4>1, <3>5, <3>7 DEF ExtremeOfReported
            <4>2. CASE other = counter
                <5>1. \A value \in reported[counter] \cup {Initial[counter]} :
                          ~Beyond(counter, value, call[t].value)
                    BY <2>1, <3>4, <3>7 DEF ExtremeOfReported
                <5>2. ~Beyond(counter, call[t].value, call[t].value)
                    BY <2>1, BeyondIsIrreflexive
                <5> QED
                    BY <4>2, <3>5, <3>7, <5>1, <5>2
            <4> QED
                BY <4>1, <4>2
        <3> QED
            BY <3>3, <3>6, <3>8
    <2> QED
        BY <2>2, <2>3
<1>4. CASE UNCHANGED counterVars
    BY <1>4 DEF counterVars, TypeOK, SeenIsBehind, ExtremeOfReported
<1> QED
    BY <1>1, <1>2, <1>3, <1>4 DEF CounterNext

\* The invariant holds in every reachable state.
LEMMA CounterInvHolds == CounterSpec => []CounterInv
<1>1. CounterInit => CounterInv
    BY InitEstablishesCounterInv
<1>2. CounterInv /\ [CounterNext]_counterVars => CounterInv'
    BY StepKeepsCounterInv
<1> QED
    BY <1>1, <1>2, PTL DEF CounterSpec

\* No value that was reported is lost: when calls of Min() and Max() are done, the
\* counters are the least and the greatest of what they were given.
THEOREM CountersAreExact == CounterSpec => []ExtremeOfReported
<1>1. CounterInv => ExtremeOfReported
    BY DEF CounterInv
<1> QED
    BY <1>1, CounterInvHolds, PTL

\* A counter never goes back, the reason the code gives for its single load.
THEOREM CountersAreMonotonic == CounterSpec => NeverBack
<1> DEFINE Forward == \A counter \in Counters : ~Beyond(counter, counters[counter], counters'[counter])
<1>1. CounterInv /\ [CounterNext]_counterVars => [Forward]_counterVars
    <2> SUFFICES ASSUME CounterInv, CounterNext PROVE Forward
        BY DEF counterVars
    <2>1. counters \in [Counters -> Int]
        BY DEF CounterInv, TypeOK
    <2>2. ASSUME NEW t \in Reporters, NEW counter \in Counters, NEW value \in Values,
                 Begin(t, counter, value)
          PROVE  Forward
        BY <2>1, <2>2, BeyondIsIrreflexive DEF Begin
    <2>3. ASSUME NEW t \in Reporters, Return(t)
          PROVE  Forward
        BY <2>1, <2>3, BeyondIsIrreflexive DEF Return
    <2>4. ASSUME NEW t \in Reporters, Exchange(t)
          PROVE  Forward
        BY <2>1, <2>4, BeyondIsIrreflexive DEF Exchange
    <2> QED
        BY <2>2, <2>3, <2>4 DEF CounterNext
<1> QED
    BY <1>1, CounterInvHolds, PTL DEF CounterSpec, NeverBack
===============================================================================
