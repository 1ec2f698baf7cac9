-------------------------- MODULE WireFieldLemmas --------------------------
(***************************************************************************)
(* What becomes of a number or a name on its way through a message: atoi   *)
(* finds the number sprintf wrote, the string functions the name.          *)
(*                                                                         *)
(* Induction is by the least number at which a statement would fail.       *)
(***************************************************************************)
EXTENDS WireProtocol, SequenceTheorems, WellFoundedInduction, TLAPS

\* A set of natural numbers has a least element.
LEMMA LeastElement ==
    ASSUME NEW T, T \subseteq Nat, T # {}
    PROVE  \E x \in T : \A y \in T : x <= y
<1>1. PICK x \in T : \A y \in T : ~ (<<y, x>> \in OpToRel(<, Nat))
    BY WFMin, NatLessThanWellFounded
<1>2. \A y \in T : ~(y < x)
    BY <1>1 DEF OpToRel
<1> QED
    BY <1>2

(***************************************************************************)
(* The functions defined by recursion satisfy their equations.             *)
(***************************************************************************)
\* The digits of the numbers up to n.
DigitsUpTo(f, n) ==
    \A m \in 0 .. n : f[m] = IF m < 10 THEN <<m>> ELSE Append(f[m \div 10], m % 10)

\* They are determined.
LEMMA DigitsUnique ==
    ASSUME NEW f, NEW g, NEW n \in Nat, NEW m \in Nat, DigitsUpTo(f, n), DigitsUpTo(g, m)
    PROVE  \A k \in Nat : k <= n /\ k <= m => f[k] = g[k]
<1> DEFINE T == {k \in Nat : k <= n /\ k <= m /\ f[k] # g[k]}
<1>1. CASE T = {}
    BY <1>1
<1>2. CASE T # {}
    <2>1. PICK k \in T : \A j \in T : k <= j
        BY <1>2, LeastElement
    <2>2. /\ f[k] = IF k < 10 THEN <<k>> ELSE Append(f[k \div 10], k % 10)
          /\ g[k] = IF k < 10 THEN <<k>> ELSE Append(g[k \div 10], k % 10)
        BY DEF DigitsUpTo
    <2>3. CASE k < 10
        BY <2>2, <2>3
    <2>4. CASE k >= 10
        <3>1. k \div 10 \in Nat /\ k \div 10 < k
            BY <2>4
        <3>2. f[k \div 10] = g[k \div 10]
            BY <2>1, <3>1
        <3> QED
            BY <2>2, <2>4, <3>2
    <2> QED
        BY <2>3, <2>4
<1> QED
    BY <1>1, <1>2

\* They exist.
LEMMA DigitsExist ==
    ASSUME NEW n \in Nat
    PROVE  \E f : DigitsUpTo(f, n)
<1> DEFINE T == {k \in Nat : ~ \E f : DigitsUpTo(f, k)}
<1>1. CASE T = {}
    BY <1>1
<1>2. CASE T # {}
    <2>1. PICK k \in T : \A j \in T : k <= j
        BY <1>2, LeastElement
    <2> DEFINE g == [m \in 0 .. k |-> <<m>>]
    <2>2. CASE k < 10
        <3>1. \A m \in 0 .. k : g[m] = <<m>> /\ m < 10
            BY <2>2
        <3>2. DigitsUpTo(g, k)
            BY <3>1, Zenon DEF DigitsUpTo
        <3> QED
            BY <3>2
    <2>3. CASE k >= 10
        <3>1. k - 1 \in Nat /\ k - 1 \notin T
            BY <2>1, <2>3
        <3>2. PICK f : DigitsUpTo(f, k - 1)
            BY <3>1
        <3> DEFINE h == [m \in 0 .. k |-> IF m < k THEN f[m] ELSE Append(f[k \div 10], k % 10)]
        <3>3. ASSUME NEW m \in 0 .. k
              PROVE  h[m] = IF m < 10 THEN <<m>> ELSE Append(h[m \div 10], m % 10)
            <4>1. m >= 10 => m \div 10 \in 0 .. k - 1
                OBVIOUS
            <4>2. m >= 10 => h[m \div 10] = f[m \div 10]
                BY <4>1, <2>3
            <4>3. CASE m < k
                <5>1. f[m] = IF m < 10 THEN <<m>> ELSE Append(f[m \div 10], m % 10)
                    BY <3>2, <4>3 DEF DigitsUpTo
                <5> QED
                    BY <5>1, <4>2, <4>3
            <4>4. CASE m = k
                BY <4>2, <4>4, <2>3
            <4> QED
                BY <4>3, <4>4
        <3>4. DigitsUpTo(h, k)
            BY <3>3 DEF DigitsUpTo
        <3> QED
            BY <3>4
    <2> QED
        BY <2>2, <2>3
<1> QED
    BY <1>1, <1>2

\* Digits is the function its definition describes.
LEMMA DigitsDef ==
    ASSUME NEW n \in Nat
    PROVE  Digits[n] = IF n < 10 THEN <<n>> ELSE Append(Digits[n \div 10], n % 10)
<1> DEFINE D == [m \in Nat |-> (CHOOSE f : DigitsUpTo(f, m))[m]]
           E == [m \in Nat |-> IF m < 10 THEN <<m>> ELSE Append(D[m \div 10], m % 10)]
<1>1. ASSUME NEW m \in Nat
      PROVE  DigitsUpTo(CHOOSE f : DigitsUpTo(f, m), m)
    BY DigitsExist
<1>2. ASSUME NEW m \in Nat
      PROVE  D[m] = E[m]
    <2>1. PICK f : f = CHOOSE g : DigitsUpTo(g, m)
        OBVIOUS
    <2>2. DigitsUpTo(f, m) /\ D[m] = f[m]
        BY <1>1, <2>1
    <2>3. f[m] = IF m < 10 THEN <<m>> ELSE Append(f[m \div 10], m % 10)
        BY <2>2 DEF DigitsUpTo
    <2>4. CASE m >= 10
        <3>1. PICK d \in Nat : d = m \div 10 /\ d <= m
            BY <2>4
        <3>2. PICK g : g = CHOOSE h : DigitsUpTo(h, d)
            OBVIOUS
        <3>3. DigitsUpTo(g, d) /\ D[d] = g[d]
            BY <1>1, <3>2
        <3>4. f[d] = g[d]
            BY <2>2, <3>3, <3>1, DigitsUnique
        <3> QED
            BY <2>2, <2>3, <2>4, <3>1, <3>3, <3>4
    <2> QED
        BY <2>2, <2>3, <2>4
<1>3. D = E
    BY <1>2
<1>4. \E f : f = [m \in Nat |-> IF m < 10 THEN <<m>> ELSE Append(f[m \div 10], m % 10)]
    BY <1>3
<1>5. Digits = [m \in Nat |-> IF m < 10 THEN <<m>> ELSE Append(Digits[m \div 10], m % 10)]
    BY <1>4 DEF Digits
<1> QED
    BY <1>5

\* The sum that atoi makes of the first k characters of s, as a function of k.
SumUpTo(s, f, n) == \A j \in 0 .. n : f[j] = IF j = 0 THEN 0 ELSE 10 * f[j - 1] + s[j]

\* It is determined.
LEMMA SumUnique ==
    ASSUME NEW s, NEW f, NEW g, NEW n \in Nat, NEW m \in Nat, SumUpTo(s, f, n), SumUpTo(s, g, m)
    PROVE  \A k \in Nat : k <= n /\ k <= m => f[k] = g[k]
<1> DEFINE T == {k \in Nat : k <= n /\ k <= m /\ f[k] # g[k]}
<1>1. CASE T = {}
    BY <1>1
<1>2. CASE T # {}
    <2>1. PICK k \in T : \A j \in T : k <= j
        BY <1>2, LeastElement
    <2>2. /\ f[k] = IF k = 0 THEN 0 ELSE 10 * f[k - 1] + s[k]
          /\ g[k] = IF k = 0 THEN 0 ELSE 10 * g[k - 1] + s[k]
        BY DEF SumUpTo
    <2>3. CASE k = 0
        BY <2>2, <2>3
    <2>4. CASE k > 0
        <3>1. f[k - 1] = g[k - 1]
            BY <2>1, <2>4
        <3> QED
            BY <2>2, <2>4, <3>1
    <2> QED
        BY <2>3, <2>4
<1> QED
    BY <1>1, <1>2

\* It exists.
LEMMA SumExists ==
    ASSUME NEW s, NEW n \in Nat
    PROVE  \E f : SumUpTo(s, f, n)
<1> DEFINE T == {k \in Nat : ~ \E f : SumUpTo(s, f, k)}
<1>1. CASE T = {}
    BY <1>1
<1>2. CASE T # {}
    <2>1. PICK k \in T : \A j \in T : k <= j
        BY <1>2, LeastElement
    <2>2. CASE k = 0
        <3>1. SumUpTo(s, [m \in {0} |-> 0], k)
            BY <2>2 DEF SumUpTo
        <3> QED
            BY <3>1
    <2>3. CASE k > 0
        <3>1. k - 1 \in Nat /\ k - 1 \notin T
            BY <2>1, <2>3
        <3>2. PICK f : SumUpTo(s, f, k - 1)
            BY <3>1
        <3> DEFINE h == [m \in 0 .. k |-> IF m < k THEN f[m] ELSE 10 * f[k - 1] + s[k]]
        <3>3. ASSUME NEW m \in 0 .. k
              PROVE  h[m] = IF m = 0 THEN 0 ELSE 10 * h[m - 1] + s[m]
            <4>1. m > 0 => h[m - 1] = f[m - 1]
                BY <2>3
            <4>2. m < k => f[m] = IF m = 0 THEN 0 ELSE 10 * f[m - 1] + s[m]
                BY <3>2 DEF SumUpTo
            <4> QED
                BY <4>1, <4>2, <2>3
        <3>4. SumUpTo(s, h, k)
            BY <3>3 DEF SumUpTo
        <3> QED
            BY <3>4
    <2> QED
        BY <2>2, <2>3
<1> QED
    BY <1>1, <1>2

\* Number adds up the digits one after the other.
LEMMA NumberDef ==
    ASSUME NEW s, NEW k \in Nat
    PROVE  /\ Number(s, 0) = 0
           /\ Number(s, k + 1) = 10 * Number(s, k) + s[k + 1]
<1> DEFINE D == [m \in Nat |-> (CHOOSE f : SumUpTo(s, f, m))[m]]
           E == [m \in Nat |-> IF m = 0 THEN 0 ELSE 10 * D[m - 1] + s[m]]
           N == CHOOSE sum : sum = [m \in Nat |-> IF m = 0 THEN 0 ELSE 10 * sum[m - 1] + s[m]]
<1>1. ASSUME NEW m \in Nat
      PROVE  SumUpTo(s, CHOOSE f : SumUpTo(s, f, m), m)
    BY SumExists
<1>2. ASSUME NEW m \in Nat
      PROVE  D[m] = E[m]
    <2>1. PICK f : f = CHOOSE g : SumUpTo(s, g, m)
        OBVIOUS
    <2>2. SumUpTo(s, f, m) /\ D[m] = f[m]
        BY <1>1, <2>1
    <2>3. f[m] = IF m = 0 THEN 0 ELSE 10 * f[m - 1] + s[m]
        BY <2>2 DEF SumUpTo
    <2>4. CASE m > 0
        <3>1. PICK d \in Nat : d = m - 1 /\ d <= m
            BY <2>4
        <3>2. PICK g : g = CHOOSE h : SumUpTo(s, h, d)
            OBVIOUS
        <3>3. SumUpTo(s, g, d) /\ D[d] = g[d]
            BY <1>1, <3>2
        <3>4. f[d] = g[d]
            BY <2>2, <3>3, <3>1, SumUnique
        <3> QED
            BY <2>2, <2>3, <2>4, <3>1, <3>3, <3>4
    <2> QED
        BY <2>2, <2>3, <2>4
<1>3. D = E
    BY <1>2
<1>4. \E f : f = [m \in Nat |-> IF m = 0 THEN 0 ELSE 10 * f[m - 1] + s[m]]
    BY <1>3
<1>5. N = [m \in Nat |-> IF m = 0 THEN 0 ELSE 10 * N[m - 1] + s[m]]
    BY <1>4
<1>6. \A m : Number(s, m) = N[m]
    BY DEF Number
<1> HIDE DEF N
<1>7. \A m \in Nat : N[m] = IF m = 0 THEN 0 ELSE 10 * N[m - 1] + s[m]
    BY <1>5, Zenon
<1>8. N[0] = 0 /\ N[k + 1] = 10 * N[k] + s[k + 1]
    BY <1>7
<1> QED
    BY <1>6, <1>8

(***************************************************************************)
(* Digits and the numbers they make.                                       *)
(***************************************************************************)
\* Characters are sequences of bytes; the digits of a number are digits.
LEMMA DigitsType ==
    ASSUME NEW n \in Nat
    PROVE  Digits[n] \in Seq(0 .. 9) /\ Len(Digits[n]) \in Nat \ {0}
<1> DEFINE P(m) == Digits[m] \in Seq(0 .. 9) /\ Len(Digits[m]) \in Nat \ {0}
           T == {m \in Nat : ~P(m)}
<1>1. CASE T = {}
    BY <1>1
<1>2. CASE T # {}
    <2>1. PICK k \in T : \A j \in T : k <= j
        BY <1>2, LeastElement
    <2>2. Digits[k] = IF k < 10 THEN <<k>> ELSE Append(Digits[k \div 10], k % 10)
        BY DigitsDef
    <2>3. CASE k < 10
        <3>1. Digits[k] = <<k>> /\ k \in 0 .. 9
            BY <2>2, <2>3
        <3>2. <<k>> \in Seq(0 .. 9) /\ Len(<<k>>) \in Nat \ {0}
            BY <3>1
        <3> QED
            BY <3>1, <3>2, Zenon
    <2>4. CASE k >= 10
        <3>1. PICK d \in Nat : d = k \div 10 /\ d < k
            BY <2>4
        <3>2. P(d)
            BY <2>1, <3>1
        <3>3. k % 10 \in 0 .. 9
            OBVIOUS
        <3>4. Append(Digits[d], k % 10) \in Seq(0 .. 9) /\ Len(Append(Digits[d], k % 10)) = Len(Digits[d]) + 1
            BY <3>2, <3>3, AppendProperties
        <3>5. Digits[k] = Append(Digits[d], k % 10)
            BY <2>2, <2>4, <3>1
        <3>6. Len(Digits[d]) + 1 \in Nat \ {0}
            BY <3>2
        <3> QED
            BY <3>4, <3>5, <3>6, Zenon
    <2> QED
        BY <2>3, <2>4
<1> QED
    BY <1>1, <1>2

\* The number that some digits make depends on these digits only.
LEMMA NumberSame ==
    ASSUME NEW s, NEW t, NEW k \in Nat, \A j \in 1 .. k : s[j] = t[j]
    PROVE  Number(s, k) = Number(t, k)
<1> DEFINE T == {j \in Nat : j <= k /\ Number(s, j) # Number(t, j)}
<1>1. CASE T = {}
    BY <1>1
<1>2. CASE T # {}
    <2>1. PICK m \in T : \A j \in T : m <= j
        BY <1>2, LeastElement
    <2>2. CASE m = 0
        BY <2>2, NumberDef
    <2>3. CASE m > 0
        <3>1. PICK d \in Nat : d = m - 1
            BY <2>3
        <3>2. Number(s, d) = Number(t, d)
            BY <2>1, <3>1
        <3>3. Number(s, d + 1) = 10 * Number(s, d) + s[d + 1] /\ Number(t, d + 1) = 10 * Number(t, d) + t[d + 1]
            BY NumberDef
        <3>4. s[d + 1] = t[d + 1] /\ d + 1 = m
            BY <3>1
        <3> QED
            BY <3>2, <3>3, <3>4
    <2> QED
        BY <2>2, <2>3
<1> QED
    BY <1>1, <1>2

\* Digits make a natural number, and fewer of them none that is larger.
LEMMA NumberType ==
    ASSUME NEW s, NEW k \in Nat, \A j \in 1 .. k : s[j] \in 0 .. 9
    PROVE  \A j \in 0 .. k : Number(s, j) \in Nat /\ Number(s, j) <= Number(s, k)
<1> DEFINE T == {j \in Nat : j <= k /\ ~(Number(s, j) \in Nat)}
           U == {j \in Nat : j <= k /\ ~(Number(s, k - j) <= Number(s, k))}
<1>1. \A j \in 0 .. k : Number(s, j) \in Nat
    <2>1. CASE T = {}
        BY <2>1
    <2>2. CASE T # {}
        <3>1. PICK m \in T : \A j \in T : m <= j
            BY <2>2, LeastElement
        <3>2. CASE m = 0
            BY <3>2, NumberDef
        <3>3. CASE m > 0
            <4>1. PICK d \in Nat : d = m - 1
                BY <3>3
            <4>2. Number(s, d) \in Nat
                BY <3>1, <4>1
            <4>3. Number(s, d + 1) = 10 * Number(s, d) + s[d + 1]
                BY NumberDef
            <4>4. s[d + 1] \in 0 .. 9 /\ d + 1 = m
                BY <4>1
            <4> QED
                BY <4>2, <4>3, <4>4
        <3> QED
            BY <3>2, <3>3
    <2> QED
        BY <2>1, <2>2
<1>2. \A j \in 0 .. k : Number(s, k - j) <= Number(s, k)
    <2>1. CASE U = {}
        <3>1. \A j \in 0 .. k : j \in Nat /\ j <= k
            OBVIOUS
        <3> QED
            BY <2>1, <3>1, Zenon
    <2>2. CASE U # {}
        <3>1. PICK m \in U : \A j \in U : m <= j
            BY <2>2, LeastElement
        <3>2. CASE m = 0
            <4>1. Number(s, k) \in Nat /\ k - m = k
                BY <1>1, <3>2
            <4> QED
                BY <4>1
        <3>3. CASE m > 0
            <4>1. PICK d \in Nat : d = k - m
                BY <3>3
            <4>2. m - 1 \in Nat /\ k - (m - 1) = d + 1 /\ m - 1 <= k /\ m - 1 \notin U
                BY <3>1, <3>3, <4>1
            <4>3. Number(s, d + 1) <= Number(s, k)
                BY <4>2
            <4>4. Number(s, d + 1) = 10 * Number(s, d) + s[d + 1]
                BY NumberDef
            <4>5. s[d + 1] \in 0 .. 9 /\ Number(s, d) \in Nat /\ Number(s, k) \in Nat
                BY <1>1, <3>3, <4>1
            <4> QED
                BY <4>1, <4>3, <4>4, <4>5
        <3> QED
            BY <3>2, <3>3
    <2> QED
        BY <2>1, <2>2
<1>3. ASSUME NEW j \in 0 .. k
      PROVE  Number(s, j) <= Number(s, k)
    <2>1. PICK i \in 0 .. k : j = k - i
        <3>1. k - j \in 0 .. k /\ j = k - (k - j)
            OBVIOUS
        <3> QED
            BY <3>1
    <2> QED
        BY <1>2, <2>1
<1> QED
    BY <1>1, <1>3

\* The digits of n make n.
LEMMA NumberDigits ==
    ASSUME NEW n \in Nat
    PROVE  Number(Digits[n], Len(Digits[n])) = n
<1> DEFINE T == {m \in Nat : Number(Digits[m], Len(Digits[m])) # m}
<1>1. CASE T = {}
    BY <1>1
<1>2. CASE T # {}
    <2>1. PICK k \in T : \A j \in T : k <= j
        BY <1>2, LeastElement
    <2>2. Digits[k] = IF k < 10 THEN <<k>> ELSE Append(Digits[k \div 10], k % 10)
        BY DigitsDef
    <2>3. CASE k < 10
        <3>1. PICK s : s = <<k>>
            OBVIOUS
        <3>2. Digits[k] = s /\ Len(s) = 1 /\ s[1] = k
            BY <2>2, <2>3, <3>1
        <3>3. Number(s, 0) = 0 /\ Number(s, 0 + 1) = 10 * Number(s, 0) + s[0 + 1]
            BY NumberDef
        <3>4. Number(s, 1) = k
            BY <3>2, <3>3
        <3> QED
            BY <3>2, <3>4, Zenon
    <2>4. CASE k >= 10
        <3>1. PICK d \in Nat : d = k \div 10 /\ d < k /\ k = 10 * d + (k % 10)
            BY <2>4
        <3>2. Number(Digits[d], Len(Digits[d])) = d
            BY <2>1, <3>1
        <3>3. Digits[d] \in Seq(0 .. 9) /\ Len(Digits[d]) \in Nat
            BY DigitsType
        <3>4. PICK s : s = Append(Digits[d], k % 10)
            OBVIOUS
        <3>5. PICK l \in Nat : l = Len(Digits[d])
            BY <3>3
        <3>6. k % 10 \in 0 .. 9
            OBVIOUS
        <3>7. Len(s) = l + 1 /\ s[l + 1] = k % 10 /\ \A j \in 1 .. l : s[j] = Digits[d][j]
            BY <3>3, <3>4, <3>5, <3>6, AppendProperties
        <3>8. Number(s, l) = d
            BY <3>2, <3>5, <3>7, NumberSame
        <3>9. Number(s, l + 1) = 10 * Number(s, l) + s[l + 1]
            BY NumberDef
        <3>10. Digits[k] = s
            BY <2>2, <2>4, <3>1, <3>4
        <3> QED
            BY <3>1, <3>7, <3>8, <3>9, <3>10
    <2> QED
        BY <2>3, <2>4
<1> QED
    BY <1>1, <1>2

\* A handle has at most two digits.
LEMMA FewDigits ==
    ASSUME NEW n \in 0 .. 99
    PROVE  Len(Digits[n]) <= 2
<1>1. \A d \in Nat : d < 10 => Digits[d] = <<d>>
    BY DigitsDef
<1>2. \A d \in Nat : <<d>> \in Seq(Nat) /\ Len(<<d>>) = 1
    OBVIOUS
<1>3. CASE n < 10
    <2>1. n \in Nat
        OBVIOUS
    <2>2. Len(Digits[n]) = 1
        BY <1>1, <1>2, <1>3, <2>1, Zenon
    <2> QED
        BY <2>2
<1>4. CASE n >= 10
    <2>1. PICK d \in Nat : d = n \div 10 /\ d < 10
        BY <1>4
    <2>2. PICK e \in Nat : n \in Nat /\ ~(n < 10) /\ e = n % 10
        BY <1>4
    <2>3. Digits[n] = Append(Digits[d], e)
        BY <2>1, <2>2, DigitsDef
    <2>4. PICK s : s = <<d>>
        OBVIOUS
    <2>5. s \in Seq(Nat) /\ Len(s) = 1 /\ Digits[d] = s
        BY <1>1, <1>2, <2>1, <2>4, Zenon
    <2>6. Len(Append(s, e)) = Len(s) + 1
        <3>1. PICK w \in Seq(Nat) : w = s
            BY <2>5
        <3>2. Len(Append(w, e)) = Len(w) + 1
            BY AppendProperties
        <3> QED
            BY <3>1, <3>2, Zenon
    <2> QED
        BY <2>3, <2>5, <2>6
<1> QED
    BY <1>3, <1>4

\* A number of more than one digit has those of its tenth before the last.
LEMMA TenthDigits ==
    ASSUME NEW n \in Nat
    PROVE  /\ n < 10 => Len(Digits[n]) = 1
           /\ n >= 10 => /\ n \div 10 \in Nat /\ n \div 10 < n
                         /\ Len(Digits[n]) = Len(Digits[n \div 10]) + 1
                         /\ \A j \in 1 .. Len(Digits[n \div 10]) : Digits[n][j] = Digits[n \div 10][j]
<1>1. Digits[n] = IF n < 10 THEN <<n>> ELSE Append(Digits[n \div 10], n % 10)
    BY DigitsDef
<1>2. Len(<<n>>) = 1
    OBVIOUS
<1>3. CASE n < 10
    BY <1>1, <1>2, <1>3
<1>4. CASE n >= 10
    <2>1. PICK d \in Nat : d = n \div 10 /\ d < n
        BY <1>4
    <2>2. PICK s \in Seq(0 .. 9) : s = Digits[d]
        BY DigitsType
    <2>3. PICK e \in 0 .. 9 : e = n % 10
        OBVIOUS
    <2>4. Digits[n] = Append(s, e)
        BY <1>1, <1>4, <2>1, <2>2, <2>3
    <2>5. Len(Append(s, e)) = Len(s) + 1 /\ \A j \in 1 .. Len(s) : Append(s, e)[j] = s[j]
        BY AppendProperties
    <2>6. ~(n < 10)
        BY <1>4
    <2> QED
        BY <2>1, <2>2, <2>4, <2>5, <2>6, Zenon
<1> QED
    BY <1>3, <1>4

\* A smaller number has no more digits.
LEMMA DigitsMonotone ==
    ASSUME NEW n \in Nat, NEW m \in 0 .. n
    PROVE  Len(Digits[m]) <= Len(Digits[n])
<1> DEFINE P(k) == \A j \in 0 .. k : Len(Digits[j]) <= Len(Digits[k])
           T == {k \in Nat : ~P(k)}
<1>1. CASE T = {}
    BY <1>1
<1>2. CASE T # {}
    <2>1. PICK k \in T : \A j \in T : k <= j
        BY <1>2, LeastElement
    <2>2. PICK j \in 0 .. k : ~(Len(Digits[j]) <= Len(Digits[k]))
        BY <2>1
    <2>3. PICK x \in Nat \ {0}, y \in Nat \ {0} : x = Len(Digits[j]) /\ y = Len(Digits[k])
        <3>1. j \in Nat /\ k \in Nat
            OBVIOUS
        <3> QED
            BY <3>1, DigitsType
    <2>4. j >= 10
        <3>1. j \in Nat /\ k \in Nat
            OBVIOUS
        <3>2. j < 10 => x = 1
            BY <2>3, <3>1, TenthDigits
        <3>3. ~(x <= y)
            BY <2>2, <2>3, Zenon
        <3> QED
            BY <3>1, <3>2, <3>3
    <2>5. PICK d \in Nat, e \in Nat : d = j \div 10 /\ e = k \div 10 /\ d <= e /\ e < k
        BY <2>4
    <2>6. x = Len(Digits[d]) + 1 /\ y = Len(Digits[e]) + 1
        <3>1. j \in Nat /\ k \in Nat /\ k >= 10
            BY <2>4
        <3> QED
            BY <2>3, <2>4, <2>5, <3>1, TenthDigits
    <2>7. P(e)
        BY <2>1, <2>5
    <2>8. Len(Digits[d]) <= Len(Digits[e])
        BY <2>5, <2>7
    <2>9. Len(Digits[d]) \in Nat /\ Len(Digits[e]) \in Nat
        BY DigitsType
    <2> QED
        BY <2>2, <2>3, <2>6, <2>8, <2>9
<1> QED
    BY <1>1, <1>2

\* The first l digits of a number are those of a number.
LEMMA FirstDigits ==
    ASSUME NEW n \in Nat, NEW l \in Nat \ {0}, l <= Len(Digits[n])
    PROVE  \E m \in Nat : Len(Digits[m]) = l /\ \A j \in 1 .. l : Digits[m][j] = Digits[n][j]
<1> DEFINE P(k) == l <= Len(Digits[k]) =>
                       \E m \in Nat : Len(Digits[m]) = l /\ \A j \in 1 .. l : Digits[m][j] = Digits[k][j]
           T == {k \in Nat : ~P(k)}
<1>1. CASE T = {}
    <2>1. P(n)
        BY <1>1
    <2> QED
        BY <2>1
<1>2. CASE T # {}
    <2>1. PICK k \in T : \A j \in T : k <= j
        BY <1>2, LeastElement
    <2>2. l <= Len(Digits[k]) /\ ~P(k)
        BY <2>1
    <2>3. Len(Digits[k]) # l
        BY <2>2
    <2>4. PICK x \in Nat : x = Len(Digits[k])
        BY DigitsType
    <2>5. k >= 10
        <3>1. k \in Nat
            OBVIOUS
        <3>2. k < 10 => x = 1
            BY <2>4, <3>1, TenthDigits
        <3>3. l <= x /\ x # l
            BY <2>2, <2>3, <2>4, Zenon
        <3> QED
            BY <3>1, <3>2, <3>3
    <2>6. PICK d \in Nat : d = k \div 10 /\ d < k
        BY <2>5, TenthDigits
    <2>7. PICK y \in Nat : y = Len(Digits[d])
        BY DigitsType
    <2>8. x = y + 1 /\ \A j \in 1 .. y : Digits[k][j] = Digits[d][j]
        BY <2>4, <2>5, <2>6, <2>7, TenthDigits
    <2>9. l <= y
        BY <2>2, <2>3, <2>4, <2>8
    <2>10. P(d)
        BY <2>1, <2>6
    <2>11. PICK m \in Nat : Len(Digits[m]) = l /\ \A j \in 1 .. l : Digits[m][j] = Digits[d][j]
        BY <2>7, <2>9, <2>10
    <2>12. \A j \in 1 .. l : Digits[m][j] = Digits[k][j]
        BY <2>8, <2>9, <2>11
    <2> QED
        BY <2>2, <2>11, <2>12
<1> QED
    BY <1>1, <1>2

(***************************************************************************)
(* Numbers and names in a message.                                         *)
(***************************************************************************)
\* How many digits a string begins with is determined.
LEMMA LeadingProperties ==
    ASSUME NEW A, NEW s \in Seq(A)
    PROVE  /\ Leading(s) \in 0 .. Len(s)
           /\ \A j \in 1 .. Leading(s) : s[j] \in 0 .. 9
           /\ \A k \in 0 .. Len(s) : /\ \A j \in 1 .. k : s[j] \in 0 .. 9
                                     /\ k < Len(s) => s[k + 1] \notin 0 .. 9
                                     => Leading(s) = k
<1> DEFINE P(k) == /\ \A j \in 1 .. k : s[j] \in 0 .. 9
                   /\ k < Len(s) => s[k + 1] \notin 0 .. 9
           T == {k \in Nat : k <= Len(s) /\ (k < Len(s) => s[k + 1] \notin 0 .. 9)}
<1>1. Len(s) \in Nat
    BY LenProperties
<1>2. \E k \in 0 .. Len(s) : P(k)
    <2>1. Len(s) \in T
        BY <1>1
    <2>2. PICK k \in T : \A j \in T : k <= j
        BY <2>1, LeastElement
    <2>3. ASSUME NEW j \in 1 .. k
          PROVE  s[j] \in 0 .. 9
        <3>1. PICK i \in Nat : i = j - 1 /\ i < k /\ i + 1 = j /\ i < Len(s)
            BY <1>1
        <3>2. i \notin T
            BY <2>2, <3>1
        <3> QED
            BY <3>1, <3>2
    <2>4. P(k) /\ k \in 0 .. Len(s)
        BY <1>1, <2>3
    <2> QED
        BY <2>4
<1>3. Leading(s) \in 0 .. Len(s) /\ P(Leading(s))
    BY <1>2, Zenon DEF Leading
<1>4. ASSUME NEW k \in 0 .. Len(s), P(k)
      PROVE  Leading(s) = k
    <2>1. PICK l \in 0 .. Len(s) : l = Leading(s) /\ P(l)
        BY <1>3
    <2>2. ~(l < k)
        <3>1. l < k => l + 1 \in 1 .. k /\ l < Len(s)
            BY <1>1
        <3> QED
            BY <1>4, <2>1, <3>1
    <2>3. ~(k < l)
        <3>1. k < l => k + 1 \in 1 .. l /\ k < Len(s)
            BY <1>1
        <3> QED
            BY <1>4, <2>1, <3>1
    <2> QED
        BY <1>1, <2>1, <2>2, <2>3
<1> QED
    BY <1>3, <1>4

\* A string without a sign makes a natural number, and the number of its k leading digits
\* if there are k.
LEMMA AtoiUnsigned ==
    ASSUME NEW A, NEW b \in Seq(A), b = <<>> \/ b[1] # MINUS
    PROVE  /\ Atoi(b) \in Nat
           /\ \A k \in 0 .. Len(b) : /\ \A j \in 1 .. k : b[j] \in 0 .. 9
                                     /\ k < Len(b) => b[k + 1] \notin 0 .. 9
                                     => Atoi(b) = Number(b, k)
<1>1. Atoi(b) = Number(b, Leading(b))
    BY DEF Atoi
<1>2. PICK l \in Nat : l = Leading(b) /\ \A j \in 1 .. l : b[j] \in 0 .. 9
    BY LeadingProperties, LenProperties
<1>3. l \in 0 .. l
    OBVIOUS
<1>4. Number(b, l) \in Nat
    BY <1>2, <1>3, NumberType
<1>5. \A k \in 0 .. Len(b) : /\ \A j \in 1 .. k : b[j] \in 0 .. 9
                             /\ k < Len(b) => b[k + 1] \notin 0 .. 9
                             => Leading(b) = k
    BY LeadingProperties
<1> QED
    BY <1>1, <1>2, <1>4, <1>5

\* atoi makes an integer of every string.
LEMMA AtoiType ==
    ASSUME NEW A, NEW b \in Seq(A)
    PROVE  Atoi(b) \in Int
<1>1. CASE b = <<>> \/ b[1] # MINUS
    BY <1>1, AtoiUnsigned
<1>2. CASE b # <<>> /\ b[1] = MINUS
    <2>1. PICK t : t = Tail(b)
        OBVIOUS
    <2>2. t \in Seq(A)
        BY <1>2, <2>1, HeadTailProperties
    <2>3. Atoi(b) = -Number(t, Leading(t))
        BY <1>2, <2>1 DEF Atoi
    <2>4. PICK l \in Nat : l = Leading(t) /\ \A j \in 1 .. l : t[j] \in 0 .. 9
        BY <2>2, LeadingProperties, LenProperties
    <2>5. l \in 0 .. l
        OBVIOUS
    <2>6. Number(t, l) \in Nat
        BY <2>4, <2>5, NumberType
    <2> QED
        BY <2>3, <2>4, <2>6
<1> QED
    BY <1>1, <1>2

\* A string that begins with -1 and a NUL makes -1.
LEMMA AtoiMinusOne ==
    ASSUME NEW A, NEW b \in Seq(A), Len(b) > 2, b[1] = MINUS, b[2] = 1, b[3] = NUL
    PROVE  Atoi(b) = -1
<1>1. PICK t : t = Tail(b)
    OBVIOUS
<1>2. Len(b) \in Nat /\ b # <<>>
    BY LenProperties, EmptySeq
<1>3. t \in Seq(A) /\ Len(t) = Len(b) - 1 /\ \A j \in 1 .. Len(t) : t[j] = b[j + 1]
    BY <1>1, <1>2, HeadTailProperties
<1>4. Len(t) \in Nat /\ 1 < Len(t) /\ t[1] = 1 /\ t[1 + 1] = NUL
    BY <1>2, <1>3
<1>5. 1 \in 0 .. Len(t) /\ (\A j \in 1 .. 1 : t[j] \in 0 .. 9) /\ (1 < Len(t) => t[1 + 1] \notin 0 .. 9)
    BY <1>4 DEF NUL
<1>6. Leading(t) = 1
    BY <1>3, <1>5, LeadingProperties
<1>7. Number(t, 0) = 0 /\ Number(t, 0 + 1) = 10 * Number(t, 0) + t[0 + 1]
    BY NumberDef
<1>8. Number(t, 1) = 1
    BY <1>4, <1>7
<1>9. Atoi(b) = -Number(t, Leading(t))
    BY <1>1, <1>2 DEF Atoi
<1> QED
    BY <1>6, <1>8, <1>9

\* A part of a sequence.
LEMMA Piece ==
    ASSUME NEW A, NEW s \in Seq(A), NEW i \in Nat \ {0}, NEW j \in Nat, j <= Len(s), i <= j + 1
    PROVE  /\ SubSeq(s, i, j) \in Seq(A) /\ Len(SubSeq(s, i, j)) = j - i + 1
           /\ \A k \in 1 .. j - i + 1 : SubSeq(s, i, j)[k] = s[i + k - 1]
<1>1. i \in Int /\ j \in Int
    OBVIOUS
<1>2. \A k \in i .. j : k \in 1 .. Len(s)
    BY LenProperties
<1>3. \A k \in i .. j : s[k] \in A
    BY <1>2, ElementOfSeq
<1>4. /\ SubSeq(s, i, j) \in Seq(A)
      /\ Len(SubSeq(s, i, j)) = IF i <= j THEN j - i + 1 ELSE 0
      /\ \A k \in 1 .. j - i + 1 : SubSeq(s, i, j)[k] = s[i + k - 1]
    BY <1>1, <1>3, SubSeqProperties
<1>5. (IF i <= j THEN j - i + 1 ELSE 0) = j - i + 1
    OBVIOUS
<1> QED
    BY <1>4, <1>5, Zenon

\* The first bytes of a sequence.
LEMMA Prefix ==
    ASSUME NEW A, NEW s \in Seq(A), NEW j \in Nat, j <= Len(s)
    PROVE  /\ SubSeq(s, 1, j) \in Seq(A) /\ Len(SubSeq(s, 1, j)) = j
           /\ \A k \in 1 .. j : SubSeq(s, 1, j)[k] = s[k]
<1>1. PICK i \in Nat \ {0} : i = 1 /\ i <= j + 1
    OBVIOUS
<1>2. PICK t : t = SubSeq(s, 1, j)
    OBVIOUS
<1>3. t \in Seq(A) /\ Len(t) = j - 1 + 1 /\ \A k \in 1 .. j - 1 + 1 : t[k] = s[1 + k - 1]
    BY <1>1, <1>2, Piece
<1>4. t \in Seq(A) /\ Len(t) = j /\ \A k \in 1 .. j : t[k] = s[k]
    BY <1>3
<1> QED
    BY <1>2, <1>4, Zenon

\* A sequence put together of two comes apart again.
LEMMA SplitConcat ==
    ASSUME NEW A, NEW s \in Seq(A), NEW t \in Seq(A), NEW n, n = Len(s)
    PROVE  /\ s \o t \in Seq(A) /\ Len(s \o t) = n + Len(t)
           /\ SubSeq(s \o t, 1, n) = s
           /\ SubSeq(s \o t, n + 1, Len(s \o t)) = t
<1>1. PICK u : u = s \o t
    OBVIOUS
<1>2. n \in Nat /\ Len(t) \in Nat
    BY LenProperties
<1>3. u \in Seq(A) /\ Len(u) = n + Len(t)
      /\ \A i \in 1 .. n + Len(t) : u[i] = IF i <= n THEN s[i] ELSE t[i - n]
    BY <1>1, ConcatProperties
<1>4. SubSeq(u, 1, n) = s
    <2>1. n <= Len(u)
        BY <1>2, <1>3
    <2>2. PICK p : p = SubSeq(u, 1, n)
        OBVIOUS
    <2>3. p \in Seq(A) /\ Len(p) = n /\ \A k \in 1 .. n : p[k] = u[k]
        BY <1>2, <1>3, <2>1, <2>2, Prefix
    <2>4. \A k \in 1 .. n : p[k] = s[k]
        BY <1>2, <1>3, <2>3
    <2>5. p = s
        BY <2>3, <2>4, SeqEqual
    <2> QED
        BY <2>2, <2>5
<1>5. SubSeq(u, n + 1, Len(u)) = t
    <2>1. PICK i \in Nat \ {0} : i = n + 1
        BY <1>2
    <2>2. PICK j \in Nat : j = Len(u) /\ i <= j + 1 /\ j - i + 1 = Len(t)
        BY <1>2, <1>3, <2>1
    <2>3. PICK p : p = SubSeq(u, i, j)
        OBVIOUS
    <2>4. p \in Seq(A) /\ Len(p) = j - i + 1 /\ \A k \in 1 .. j - i + 1 : p[k] = u[i + k - 1]
        BY <1>3, <2>2, <2>3, Piece
    <2>5. ASSUME NEW k \in 1 .. Len(t)
          PROVE  p[k] = t[k]
        <3>1. p[k] = u[i + k - 1] /\ i + k - 1 \in 1 .. n + Len(t) /\ ~(i + k - 1 <= n) /\ i + k - 1 - n = k
            BY <1>2, <2>1, <2>2, <2>4
        <3> QED
            BY <1>3, <3>1
    <2>6. p = t
        BY <2>2, <2>4, <2>5, SeqEqual
    <2> QED
        BY <2>1, <2>2, <2>3, <2>6
<1> QED
    BY <1>1, <1>3, <1>4, <1>5

\* Bytes are numbers, and so are the letters.
LEMMA ByteType == Byte \subseteq Nat /\ 0 .. MINUS \subseteq Byte /\ Letter \subseteq Byte /\ NUL \in Byte
    BY ByteAssumption DEF Byte, NUL, MINUS

\* A byte repeated.
LEMMA BytesType ==
    ASSUME NEW n \in Nat, NEW b \in Byte
    PROVE  Bytes(n, b) \in Seq(Byte) /\ Len(Bytes(n, b)) = n /\ \A k \in 1 .. n : Bytes(n, b)[k] = b
    BY DEF Bytes

\* What the library puts into a number's field: the first bytes of the string and the NULs
\* behind it.
LEMMA FieldOf ==
    ASSUME NEW n, NEW d \in Seq(Byte), d = Sprintf(n)
    PROVE  /\ Field(n) \in Seq(Byte) /\ Len(Field(n)) = INT_SIZE
           /\ \A k \in 1 .. INT_SIZE : Field(n)[k] = IF k <= Len(d) THEN d[k] ELSE NUL
<1>1. INT_SIZE \in Nat
    BY SizeAssumption
<1>2. PICK z : z = Bytes(INT_SIZE, NUL)
    OBVIOUS
<1>3. z \in Seq(Byte) /\ Len(z) = INT_SIZE /\ \A k \in 1 .. INT_SIZE : z[k] = NUL
    BY <1>1, <1>2, BytesType, ByteType
<1>4. PICK t : t = d \o z
    OBVIOUS
<1>5. /\ t \in Seq(Byte) /\ Len(t) = Len(d) + INT_SIZE /\ Len(d) \in Nat
      /\ \A k \in 1 .. Len(d) + INT_SIZE : t[k] = IF k <= Len(d) THEN d[k] ELSE z[k - Len(d)]
    <2>1. Len(d) \in Nat
        BY LenProperties
    <2>2. /\ t \in Seq(Byte) /\ Len(t) = Len(d) + Len(z)
          /\ \A k \in 1 .. Len(d) + Len(z) : t[k] = IF k <= Len(d) THEN d[k] ELSE z[k - Len(d)]
        BY <1>3, <1>4, ConcatProperties
    <2> QED
        BY <1>3, <2>1, <2>2
<1>6. PICK f : f = SubSeq(t, 1, INT_SIZE)
    OBVIOUS
<1>7. f \in Seq(Byte) /\ Len(f) = INT_SIZE /\ \A k \in 1 .. INT_SIZE : f[k] = t[k]
    <2>1. INT_SIZE <= Len(t)
        BY <1>1, <1>5
    <2> QED
        BY <1>1, <1>5, <1>6, <2>1, Prefix
<1>8. ASSUME NEW k \in 1 .. INT_SIZE
      PROVE  f[k] = IF k <= Len(d) THEN d[k] ELSE NUL
    <2>1. k \in 1 .. Len(d) + INT_SIZE /\ (~(k <= Len(d)) => k - Len(d) \in 1 .. INT_SIZE)
        BY <1>1, <1>5
    <2> QED
        BY <1>3, <1>5, <1>7, <2>1
<1>9. Field(n) = f
    BY <1>2, <1>4, <1>6 DEF Field
<1> QED
    BY <1>7, <1>8, <1>9

\* The field of a natural number: its digits, as many as fit.
LEMMA FieldNat ==
    ASSUME NEW n \in Nat
    PROVE  /\ Field(n) \in Seq(Byte) /\ Len(Field(n)) = INT_SIZE
           /\ \A k \in 1 .. INT_SIZE : Field(n)[k] = IF k <= Len(Digits[n]) THEN Digits[n][k] ELSE NUL
<1>1. PICK d : d = Digits[n]
    OBVIOUS
<1>2. d \in Seq(0 .. 9)
    BY <1>1, DigitsType
<1>3. 0 .. 9 \subseteq Byte
    BY ByteType DEF MINUS
<1>4. d \in Seq(Byte)
    BY <1>2, <1>3, SeqMonotonic
<1>5. Sprintf(n) = d
    BY <1>1 DEF Sprintf
<1> QED
    BY <1>1, <1>4, <1>5, FieldOf

\* The field of -1.
LEMMA FieldMinusOne ==
    /\ Field(-1) \in Seq(Byte) /\ Len(Field(-1)) = INT_SIZE
    /\ Field(-1)[1] = MINUS /\ Field(-1)[2] = 1 /\ \A k \in 3 .. INT_SIZE : Field(-1)[k] = NUL
<1>1. \A n \in Nat : n < 10 => Digits[n] = <<n>>
    BY DigitsDef
<1>2. PICK m \in Int : m = -1 /\ m < 0
    OBVIOUS
<1>3. Sprintf(-1) = <<MINUS>> \o <<1>>
    <2>1. m + 1 = 0 /\ \A k \in Int : k + 1 = 0 => -k = 1
        BY <1>2
    <2>2. -m = 1
        BY <2>1, Zenon
    <2>3. Sprintf(m) = <<MINUS>> \o Digits[1]
        BY <1>2, <2>2, Zenon DEF Sprintf
    <2>4. Digits[1] = <<1>>
        BY <1>1
    <2> QED
        BY <1>2, <2>3, <2>4, Zenon
<1>4. PICK d : d = <<MINUS>> \o <<1>>
    OBVIOUS
<1>5. MINUS \in Byte /\ 1 \in Byte
    BY ByteType DEF MINUS
<1>6. d \in Seq(Byte) /\ Len(d) = 2 /\ d[1] = MINUS /\ d[2] = 1
    BY <1>4, <1>5
<1>7. /\ Field(-1) \in Seq(Byte) /\ Len(Field(-1)) = INT_SIZE
      /\ \A k \in 1 .. INT_SIZE : Field(-1)[k] = IF k <= Len(d) THEN d[k] ELSE NUL
    BY <1>3, <1>4, <1>6, FieldOf
<1> QED
    BY <1>6, <1>7, SizeAssumption

\* A number's field has sizeof(int) bytes.
LEMMA FieldType ==
    ASSUME NEW n \in Nat \cup {-1}
    PROVE  Field(n) \in Seq(Byte) /\ Len(Field(n)) = INT_SIZE
<1>1. CASE n \in Nat
    BY <1>1, FieldNat
<1>2. CASE n = -1
    BY <1>2, FieldMinusOne
<1> QED
    BY <1>1, <1>2

\* The sizeof(int) bytes of a number in a message (sprintf, memcpy) and atoi: the receiver
\* finds the number that was sent if its digits fit, and otherwise a smaller one.
THEOREM AtoiField ==
    ASSUME NEW n \in Nat
    PROVE  /\ Atoi(Field(n)) \in Nat /\ Atoi(Field(n)) <= n
           /\ Len(Digits[n]) <= INT_SIZE => Atoi(Field(n)) = n
<1>1. PICK d : d = Digits[n]
    OBVIOUS
<1>2. PICK b : b = Field(n)
    OBVIOUS
<1>3. INT_SIZE \in Nat \ {0}
    BY SizeAssumption
<1>4. d \in Seq(0 .. 9) /\ Len(d) \in Nat \ {0}
    BY <1>1, DigitsType
<1>5. b \in Seq(Byte) /\ Len(b) = INT_SIZE /\ \A k \in 1 .. INT_SIZE : b[k] = IF k <= Len(d) THEN d[k] ELSE NUL
    BY <1>1, <1>2, FieldNat
<1>6. \A k \in 1 .. Len(d) : d[k] \in 0 .. 9
    BY <1>4, ElementOfSeq
<1>7. PICK l \in Nat : l <= INT_SIZE /\ l <= Len(d) /\ (l = INT_SIZE \/ l = Len(d))
                       /\ (Len(d) <= INT_SIZE => l = Len(d))
    <2>1. CASE Len(d) <= INT_SIZE
        BY <1>3, <1>4, <2>1
    <2>2. CASE ~(Len(d) <= INT_SIZE)
        BY <1>3, <1>4, <2>2
    <2> QED
        BY <2>1, <2>2
<1>8. b[1] # MINUS
    BY <1>3, <1>4, <1>5, <1>6 DEF MINUS
<1>9. \A j \in 1 .. l : b[j] = d[j] /\ b[j] \in 0 .. 9
    BY <1>3, <1>4, <1>5, <1>6, <1>7
<1>10. l < Len(b) => b[l + 1] \notin 0 .. 9
    BY <1>3, <1>4, <1>5, <1>7 DEF NUL
<1>11. l \in 0 .. Len(b)
    BY <1>5, <1>7
<1>12. Atoi(b) = Number(b, l) /\ Atoi(b) \in Nat
    BY <1>5, <1>8, <1>9, <1>10, <1>11, AtoiUnsigned
<1>13. Number(b, l) = Number(d, l)
    BY <1>9, NumberSame
<1>14. PICK m \in Nat : m = Len(d)
    BY <1>4
<1>15. Number(d, m) = n
    BY <1>1, <1>14, NumberDigits
<1>16. l \in 0 .. m
    BY <1>7, <1>14
<1>17. Number(d, l) <= Number(d, m)
    BY <1>6, <1>14, <1>16, NumberType
<1>18. Len(Digits[n]) <= INT_SIZE => l = m
    BY <1>1, <1>7, <1>14
<1> QED
    BY <1>2, <1>12, <1>13, <1>15, <1>17, <1>18

\* A number that was read from a field fits one, and so do all smaller numbers.
LEMMA FieldFits ==
    ASSUME NEW n \in Nat
    PROVE  \A v \in 0 .. Atoi(Field(n)) : Len(Digits[v]) <= INT_SIZE
<1>1. PICK x \in Nat \ {0} : x = Len(Digits[n])
    BY DigitsType
<1>2. INT_SIZE \in Nat \ {0}
    BY SizeAssumption
<1>3. PICK m \in Nat : m = Atoi(Field(n)) /\ Len(Digits[m]) <= INT_SIZE
    <2>1. CASE x <= INT_SIZE
        BY <1>1, <2>1, AtoiField
    <2>2. CASE ~(x <= INT_SIZE)
        <3>1. PICK m \in Nat : Len(Digits[m]) = INT_SIZE /\ \A j \in 1 .. INT_SIZE : Digits[m][j] = Digits[n][j]
            <4>1. INT_SIZE <= x
                BY <1>2, <2>2
            <4>2. INT_SIZE <= Len(Digits[n])
                BY <1>1, <4>1, Zenon
            <4> QED
                BY <1>2, <4>2, FirstDigits, Zenon
        <3>2. PICK a \in Seq(Byte), b \in Seq(Byte) : a = Field(n) /\ b = Field(m)
            BY FieldNat
        <3>3. Len(a) = INT_SIZE /\ \A k \in 1 .. INT_SIZE : a[k] = IF k <= x THEN Digits[n][k] ELSE NUL
            BY <1>1, <3>2, FieldNat
        <3>4. Len(b) = INT_SIZE /\ \A k \in 1 .. INT_SIZE : b[k] = IF k <= INT_SIZE THEN Digits[m][k] ELSE NUL
            BY <3>1, <3>2, FieldNat
        <3>5. \A k \in 1 .. INT_SIZE : a[k] = b[k]
            BY <1>1, <1>2, <2>2, <3>1, <3>3, <3>4
        <3>6. a = b
            BY <3>3, <3>4, <3>5, SeqEqual
        <3>7. Atoi(Field(m)) = m
            <4>1. Len(Digits[m]) <= INT_SIZE
                <5>1. INT_SIZE <= INT_SIZE
                    BY <1>2
                <5> QED
                    BY <3>1, <5>1, Zenon
            <4> QED
                BY <4>1, AtoiField, Zenon
        <3> QED
            BY <1>2, <3>1, <3>2, <3>6, <3>7
    <2> QED
        BY <2>1, <2>2
<1>4. ASSUME NEW v \in 0 .. m
      PROVE  Len(Digits[v]) <= INT_SIZE
    <2>1. v \in Nat
        OBVIOUS
    <2>2. PICK y \in Nat, z \in Nat : y = Len(Digits[v]) /\ z = Len(Digits[m])
        BY <2>1, DigitsType
    <2>3. y <= z
        BY <2>2, DigitsMonotone
    <2> QED
        BY <1>2, <1>3, <2>2, <2>3
<1> QED
    BY <1>3, <1>4

\* The length of a write comes through.
LEMMA WriteLength ==
    ASSUME NEW t \in Texts
    PROVE  /\ Len(t) \in Nat /\ Len(t) >= INT_SIZE /\ Len(t) > 0
           /\ Len(Digits[Len(t)]) <= INT_SIZE /\ Atoi(Field(Len(t))) = Len(t)
<1>1. PICK n \in Nat : n = Len(t)
    BY LenProperties, TextAssumption
<1>2. n >= INT_SIZE /\ n > 0 /\ n \in 0 .. SIZE /\ SIZE \in Nat
    BY <1>1, TextAssumption, SizeAssumption
<1>3. PICK x \in Nat, y \in Nat : x = Len(Digits[n]) /\ y = Len(Digits[SIZE])
    BY <1>2, DigitsType
<1>4. x <= y
    BY <1>2, <1>3, DigitsMonotone
<1>5. Len(Digits[n]) <= INT_SIZE
    BY <1>3, <1>4, DigitsAssumption, SizeAssumption
<1>6. Atoi(Field(n)) = n
    BY <1>5, AtoiField
<1> QED
    BY <1>1, <1>2, <1>5, <1>6

\* A session and a handle come through, -1 too.
LEMMA AtoiHandle ==
    ASSUME NEW h \in 0 .. 99 \cup {-1}
    PROVE  Atoi(Field(h)) = h
<1>1. CASE h \in 0 .. 99
    <2>1. h \in Nat /\ Len(Digits[h]) <= 2
        <3>1. Len(Digits[h]) <= 2
            BY <1>1, FewDigits, Zenon
        <3> QED
            BY <1>1, <3>1
    <2>2. Len(Digits[h]) <= INT_SIZE
        <3>1. Len(Digits[h]) \in Nat
            BY <2>1, DigitsType
        <3> QED
            BY <2>1, <3>1, SizeAssumption
    <2> QED
        BY <2>1, <2>2, AtoiField
<1>2. CASE h = -1
    <2>1. PICK b : b = Field(-1)
        OBVIOUS
    <2>2. b \in Seq(Byte) /\ Len(b) > 2 /\ b[1] = MINUS /\ b[2] = 1 /\ b[3] = NUL
        BY <2>1, FieldMinusOne, SizeAssumption
    <2> QED
        BY <1>2, <2>1, <2>2, AtoiMinusOne
<1> QED
    BY <1>1, <1>2

\* A single digit.
LEMMA AtoiDigit ==
    ASSUME NEW d \in 0 .. 9
    PROVE  Atoi(<<d>>) = d
<1>1. PICK b : b = <<d>>
    OBVIOUS
<1>2. b \in Seq(Nat) /\ Len(b) = 1 /\ b[1] = d
    BY <1>1
<1>3. b[1] # MINUS
    BY <1>2 DEF MINUS
<1>4. 1 \in 0 .. Len(b) /\ (\A j \in 1 .. 1 : b[j] \in 0 .. 9) /\ (1 < Len(b) => b[1 + 1] \notin 0 .. 9)
    BY <1>2
<1>5. Atoi(b) = Number(b, 1)
    BY <1>2, <1>3, <1>4, AtoiUnsigned
<1>6. Number(b, 0) = 0 /\ Number(b, 0 + 1) = 10 * Number(b, 0) + b[0 + 1]
    BY NumberDef
<1>7. Number(b, 1) = d
    BY <1>2, <1>6
<1> QED
    BY <1>1, <1>5, <1>7

\* The string in a sequence of bytes is a part of it.
LEMMA CStringType ==
    ASSUME NEW b \in Seq(Byte)
    PROVE  CString(b) \in Seq(Byte)
<1> DEFINE P(n) == /\ \A k \in 1 .. n : b[k] # NUL
                   /\ n < Len(b) => b[n + 1] = NUL
           T == {k \in Nat : k <= Len(b) /\ (k < Len(b) => b[k + 1] = NUL)}
<1>1. Len(b) \in Nat
    BY LenProperties
<1>2. \E n \in 0 .. Len(b) : P(n)
    <2>1. Len(b) \in T
        BY <1>1
    <2>2. PICK k \in T : \A j \in T : k <= j
        BY <2>1, LeastElement
    <2>3. ASSUME NEW j \in 1 .. k
          PROVE  b[j] # NUL
        <3>1. PICK i \in Nat : i = j - 1 /\ i < k /\ i + 1 = j /\ i < Len(b)
            BY <1>1
        <3>2. i \notin T
            BY <2>2, <3>1
        <3> QED
            BY <3>1, <3>2
    <2>4. P(k) /\ k \in 0 .. Len(b)
        BY <1>1, <2>3
    <2> QED
        BY <2>4
<1>3. PICK n \in 0 .. Len(b) : n = CHOOSE m \in 0 .. Len(b) : P(m)
    BY <1>2, Zenon
<1>4. n \in Nat /\ n <= Len(b)
    BY <1>1
<1>5. SubSeq(b, 1, n) \in Seq(Byte)
    BY <1>4, Prefix
<1>6. CString(b) = SubSeq(b, 1, n)
    BY <1>3, Zenon DEF CString
<1> QED
    BY <1>5, <1>6

\* The field of a name, and the string main finds in it.
LEMMA NameFieldType ==
    ASSUME NEW b \in Letter
    PROVE  /\ NameField(b) \in Seq(Byte) /\ Len(NameField(b)) = NAME_SIZE
           /\ CString(NameField(b)) = <<b>>
<1>1. b \in Nat /\ b > MINUS /\ b \in Byte
    BY LetterAssumption, ByteAssumption, ByteType
<1>2. PICK u : u = <<b, NUL>>
    OBVIOUS
<1>3. u \in Seq(Byte) /\ Len(u) = 2 /\ u[1] = b /\ u[2] = NUL
    BY <1>1, <1>2, ByteType
<1>4. PICK m \in Nat : m = NAME_SIZE - 2 /\ m + 2 = NAME_SIZE
    BY SizeAssumption
<1>5. PICK v : v = Stale[b]
    OBVIOUS
<1>6. v \in Seq(Byte) /\ Len(v) = m
    BY <1>4, <1>5, StaleAssumption
<1>7. PICK f : f = u \o v
    OBVIOUS
<1>8. NameField(b) = f
    BY <1>2, <1>5, <1>7, Zenon DEF NameField
<1>9. f \in Seq(Byte) /\ Len(f) = NAME_SIZE /\ \A k \in 1 .. NAME_SIZE : f[k] = IF k <= 2 THEN u[k] ELSE v[k - 2]
    <2>1. f \in Seq(Byte) /\ Len(f) = Len(u) + Len(v)
          /\ \A k \in 1 .. Len(u) + Len(v) : f[k] = IF k <= Len(u) THEN u[k] ELSE v[k - Len(u)]
        BY <1>3, <1>6, <1>7, ConcatProperties
    <2> QED
        BY <1>3, <1>4, <1>6, <2>1
<1>10. f[1] = b /\ f[2] = NUL
    <2>1. 1 \in 1 .. NAME_SIZE /\ 2 \in 1 .. NAME_SIZE
        BY SizeAssumption
    <2> QED
        BY <1>3, <1>9, <2>1
<1>11. CString(f) = <<b>>
    <2> DEFINE P(n) == /\ \A k \in 1 .. n : f[k] # NUL
                       /\ n < Len(f) => f[n + 1] = NUL
    <2>1. 1 \in 0 .. Len(f) /\ P(1)
        BY <1>1, <1>4, <1>9, <1>10 DEF MINUS, NUL
    <2>2. \A n \in 0 .. Len(f) : P(n) => n = 1
        BY <1>1, <1>4, <1>9, <1>10 DEF MINUS, NUL
    <2>3. (CHOOSE n \in 0 .. Len(f) : P(n)) = 1
        BY <2>1, <2>2, Zenon
    <2>4. CString(f) = SubSeq(f, 1, 1)
        BY <2>3 DEF CString
    <2>5. SubSeq(f, 1, 1) = <<b>>
        <3>1. PICK p : p = SubSeq(f, 1, 1)
            OBVIOUS
        <3>2. p \in Seq(Byte) /\ Len(p) = 1 /\ \A k \in 1 .. 1 : p[k] = f[k]
            BY <1>4, <1>9, <3>1, Prefix
        <3>3. <<b>> \in Seq(Byte) /\ Len(<<b>>) = 1 /\ <<b>>[1] = b
            BY <1>1
        <3>4. p = <<b>>
            BY <1>10, <3>2, <3>3, SeqEqual
        <3> QED
            BY <3>1, <3>4
    <2> QED
        BY <2>4, <2>5
<1> QED
    BY <1>8, <1>9, <1>11

\* A byte main switches on, and the op code of each operation.
LEMMA OpOfCode ==
    /\ \A n : OpOf(n) \in Ops \cup {"none"}
    /\ \A o \in Ops : OpCode[o] \in 1 .. 6 /\ OpOf(OpCode[o]) = o
<1>1. \A n : OpOf(n) \in Ops \cup {"none"}
    BY Zenon DEF OpOf
<1>2. Ops = {"MOUNT", "UNMOUNT", "OPEN", "CLOSE", "WRITE", "READ"}
    BY DEF Ops, OpCode
<1>3. /\ OpCode["MOUNT"] = 1 /\ OpCode["UNMOUNT"] = 2 /\ OpCode["OPEN"] = 3
      /\ OpCode["CLOSE"] = 4 /\ OpCode["WRITE"] = 5 /\ OpCode["READ"] = 6
    BY DEF OpCode
<1>4. \A o \in Ops : OpCode[o] \in 1 .. 6
    BY <1>2, <1>3
<1>5. \A o, p \in Ops : OpCode[o] = OpCode[p] => o = p
    BY <1>2, <1>3
<1>6. ASSUME NEW o \in Ops
      PROVE  OpOf(OpCode[o]) = o
    <2>1. (CHOOSE p \in Ops : OpCode[p] = OpCode[o]) = o
        BY <1>5, Zenon
    <2> QED
        BY <2>1, Zenon DEF OpOf
<1> QED
    BY <1>1, <1>4, <1>6
=============================================================================
