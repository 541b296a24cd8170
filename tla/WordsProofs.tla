----------------------------- MODULE WordsProofs ----------------------------
(***************************************************************************)
(* Induction over the natural numbers, and what it shows of the operators  *)
(* of Words.                                                               *)
(***************************************************************************)
EXTENDS Words, WellFoundedInduction, TLAPS

-----------------------------------------------------------------------------
(***************************************************************************)
(* The least element of a set of natural numbers, and induction in the     *)
(* form in which the provers can use it: for a set, not for a predicate.   *)
(***************************************************************************)

LEMMA LeastExists ==
  ASSUME NEW S, S \subseteq Nat, S # {}
  PROVE  \E x \in S : \A y \in S : x <= y
<1>1. PICK x \in S : \A y \in S : <<y, x>> \notin OpToRel(<, Nat)
  BY NatLessThanWellFounded, WFMin, Zenon
<1>2. \A y \in S : ~(y < x)
  BY <1>1 DEF OpToRel
<1>3. \A y \in S : x <= y
  BY <1>2
<1> QED
  BY <1>3

LEMMA SetInduction ==
  ASSUME NEW S, 0 \in S, \A n \in Nat : n \in S => n + 1 \in S
  PROVE  Nat \subseteq S
<1> SUFFICES ASSUME Nat \ S # {} PROVE FALSE
  OBVIOUS
<1>1. PICK m \in Nat \ S : \A k \in Nat \ S : m <= k
  BY LeastExists
<1>2. m # 0
  OBVIOUS
<1>3. m - 1 \in S
  BY <1>1, <1>2
<1> QED
  BY <1>1, <1>2, <1>3

-----------------------------------------------------------------------------
(***************************************************************************)
(* Powers.                                                                 *)
(***************************************************************************)

IsPowers(b, n, p) == p = [k \in 0..n |-> IF k = 0 THEN 1 ELSE b * p[k - 1]]

LEMMA PowersExist ==
  ASSUME NEW b, NEW n \in Nat
  PROVE  \E p : IsPowers(b, n, p)
<1> DEFINE S == {m \in Nat : \E p : IsPowers(b, m, p)}
<1>1. 0 \in S
  <2>1. IsPowers(b, 0, [k \in 0..0 |-> 1])
    BY DEF IsPowers
  <2> QED
    BY <2>1
<1>2. ASSUME NEW m \in Nat, m \in S
      PROVE  m + 1 \in S
  <2>1. PICK p : IsPowers(b, m, p)
    BY <1>2
  <2> DEFINE q == [k \in 0..(m + 1) |-> IF k = m + 1 THEN b * p[m] ELSE p[k]]
  <2>2. ASSUME NEW k \in 0..(m + 1)
        PROVE  q[k] = IF k = 0 THEN 1 ELSE b * q[k - 1]
    <3>1. CASE k = m + 1
      BY <3>1
    <3>2. CASE k \in 1..m
      <4>1. q[k] = p[k] /\ q[k - 1] = p[k - 1] /\ k # 0 /\ k \in 0..m
        BY <3>2
      <4>2. p[k] = b * p[k - 1]
        BY <2>1, <4>1 DEF IsPowers
      <4> QED
        BY <4>1, <4>2
    <3>3. CASE k = 0
      BY <2>1, <3>3 DEF IsPowers
    <3> QED
      BY <3>1, <3>2, <3>3
  <2>3. IsPowers(b, m + 1, q)
    BY <2>2 DEF IsPowers
  <2> QED
    BY <2>3
<1> HIDE DEF S
<1>3. Nat \subseteq S
  BY <1>1, <1>2, SetInduction
<1> QED
  BY <1>3 DEF S

LEMMA PowersUnique ==
  ASSUME NEW b, NEW m \in Nat, NEW n \in Nat, m <= n,
         NEW p, IsPowers(b, m, p), NEW q, IsPowers(b, n, q)
  PROVE  p[m] = q[m]
<1> DEFINE S == {k \in Nat : k <= m => p[k] = q[k]}
<1>1. 0 \in S
  BY DEF IsPowers
<1>2. ASSUME NEW k \in Nat, k \in S
      PROVE  k + 1 \in S
  <2> SUFFICES ASSUME k + 1 <= m
               PROVE  p[k + 1] = q[k + 1]
    OBVIOUS
  <2>1. k + 1 \in 0..m /\ k + 1 \in 0..n /\ k + 1 # 0 /\ (k + 1) - 1 = k
    OBVIOUS
  <2>2. p[k + 1] = b * p[k]
    BY <2>1 DEF IsPowers
  <2>3. q[k + 1] = b * q[k]
    BY <2>1 DEF IsPowers
  <2> QED
    BY <1>2, <2>1, <2>2, <2>3
<1> HIDE DEF S
<1>3. Nat \subseteq S
  BY <1>1, <1>2, SetInduction
<1> QED
  BY <1>3 DEF S

LEMMA PowerOf ==
  ASSUME NEW b, NEW n \in Nat
  PROVE  \E p : IsPowers(b, n, p) /\ Power(b, n) = p[n]
BY PowersExist, Zenon DEF Power, IsPowers

\* The defining equations of Power.
LEMMA PowerStep ==
  ASSUME NEW b, NEW n \in Nat
  PROVE  Power(b, 0) = 1 /\ Power(b, n + 1) = b * Power(b, n)
<1>1. PICK p : IsPowers(b, 0, p) /\ Power(b, 0) = p[0]
  BY PowerOf
<1>2. PICK q : IsPowers(b, n, q) /\ Power(b, n) = q[n]
  BY PowerOf
<1>3. PICK r : IsPowers(b, n + 1, r) /\ Power(b, n + 1) = r[n + 1]
  BY PowerOf
<1>4. p[0] = 1
  BY <1>1 DEF IsPowers
<1>5. r[n + 1] = b * r[n]
  <2>1. n + 1 \in 0..(n + 1) /\ n + 1 # 0 /\ (n + 1) - 1 = n
    OBVIOUS
  <2> QED
    BY <1>3, <2>1 DEF IsPowers
<1>6. q[n] = r[n]
  BY <1>2, <1>3, PowersUnique
<1> QED
  BY <1>1, <1>2, <1>3, <1>4, <1>5, <1>6

LEMMA PowerType ==
  ASSUME NEW b \in Nat \ {0}, NEW n \in Nat
  PROVE  Power(b, n) \in Nat \ {0}
<1> DEFINE S == {m \in Nat : Power(b, m) \in Nat \ {0}}
<1>1. 0 \in S
  BY PowerStep
<1>2. ASSUME NEW m \in Nat, m \in S
      PROVE  m + 1 \in S
  <2>1. PICK x \in Nat \ {0} : x = Power(b, m)
    BY <1>2
  <2>2. b * x \in Nat /\ b * x > 0
    OBVIOUS
  <2>3. Power(b, m + 1) = b * x
    BY <2>1, PowerStep
  <2> QED
    BY <2>2, <2>3
<1> HIDE DEF S
<1>3. Nat \subseteq S
  BY <1>1, <1>2, SetInduction
<1> QED
  BY <1>3 DEF S

LEMMA PowerPlus ==
  ASSUME NEW b \in Nat \ {0}, NEW m \in Nat, NEW n \in Nat
  PROVE  Power(b, m + n) = Power(b, m) * Power(b, n)
<1> DEFINE S == {k \in Nat : Power(b, m + k) = Power(b, m) * Power(b, k)}
<1>0. PICK x \in Nat : x = Power(b, m)
  BY PowerType
<1>1. 0 \in S
  <2>1. m + 0 = m /\ x * 1 = x
    OBVIOUS
  <2> QED
    BY <1>0, <2>1, PowerStep
<1>2. ASSUME NEW k \in Nat, k \in S
      PROVE  k + 1 \in S
  <2>1. PICK y \in Nat : y = Power(b, k)
    BY PowerType
  <2>2. m + (k + 1) = (m + k) + 1 /\ m + k \in Nat
    OBVIOUS
  <2>3. Power(b, m + (k + 1)) = b * (x * y)
    BY <1>0, <1>2, <2>1, <2>2, PowerStep
  <2>4. Power(b, m) * Power(b, k + 1) = x * (b * y)
    BY <1>0, <2>1, PowerStep
  <2>5. b * (x * y) = x * (b * y)
    OBVIOUS
  <2> QED
    BY <2>3, <2>4, <2>5
<1> HIDE DEF S
<1>3. Nat \subseteq S
  BY <1>1, <1>2, SetInduction
<1> QED
  BY <1>3 DEF S

\* A word of n bytes of m bits is a word of m * n bits.
LEMMA PowerPower ==
  ASSUME NEW b \in Nat \ {0}, NEW m \in Nat, NEW n \in Nat
  PROVE  Power(Power(b, m), n) = Power(b, m * n)
<1> DEFINE S == {k \in Nat : Power(Power(b, m), k) = Power(b, m * k)}
<1>0. PICK x \in Nat \ {0} : x = Power(b, m)
  BY PowerType
<1>1. 0 \in S
  <2>1. m * 0 = 0
    OBVIOUS
  <2> QED
    BY <2>1, PowerStep
<1>2. ASSUME NEW k \in Nat, k \in S
      PROVE  k + 1 \in S
  <2>1. m * (k + 1) = m * k + m /\ m * k \in Nat
    OBVIOUS
  <2>2. PICK y \in Nat : y = Power(b, m * k)
    BY <2>1, PowerType
  <2>3. Power(b, m * (k + 1)) = y * x
    BY <1>0, <2>1, <2>2, PowerPlus
  <2>4. Power(x, k + 1) = x * y
    BY <1>0, <1>2, <2>2, PowerStep
  <2>5. x * y = y * x
    OBVIOUS
  <2> QED
    BY <1>0, <2>3, <2>4, <2>5
<1> HIDE DEF S
<1>3. Nat \subseteq S
  BY <1>1, <1>2, SetInduction
<1> QED
  BY <1>3 DEF S

-----------------------------------------------------------------------------
(***************************************************************************)
(* Division.                                                               *)
(***************************************************************************)

\* What makes q the quotient and r the remainder of v by p.
LEMMA QuotientIs ==
  ASSUME NEW v \in Nat, NEW p \in Nat \ {0}, NEW q \in Nat, NEW r \in 0..(p - 1),
         v = p * q + r
  PROVE  v \div p = q /\ v % p = r
<1>1. PICK x \in Nat, y \in 0..(p - 1) : x = v \div p /\ y = v % p /\ v = p * x + y
  OBVIOUS
<1>2. p * (x - q) = r - y
  <2>1. p * (x - q) = p * x - p * q
    OBVIOUS
  <2> QED
    BY <1>1, <2>1
<1>3. ~(x - q >= 1)
  <2> SUFFICES ASSUME x - q >= 1
               PROVE  FALSE
    OBVIOUS
  <2>1. p * (x - q) >= p
    OBVIOUS
  <2> QED
    BY <1>1, <1>2, <2>1
<1>4. ~(q - x >= 1)
  <2> SUFFICES ASSUME q - x >= 1
               PROVE  FALSE
    OBVIOUS
  <2>1. p * (q - x) >= p
    OBVIOUS
  <2>2. p * (q - x) = -(p * (x - q))
    OBVIOUS
  <2> QED
    BY <1>1, <1>2, <2>1, <2>2
<1>5. x = q
  BY <1>1, <1>3, <1>4
<1> QED
  BY <1>1, <1>5

LEMMA QuotientExists ==
  ASSUME NEW v \in Nat, NEW p \in Nat \ {0}
  PROVE  \E q \in Nat, r \in 0..(p - 1) : v = p * q + r /\ q = v \div p /\ r = v % p
<1>1. v \div p \in Nat /\ v % p \in 0..(p - 1) /\ v = p * (v \div p) + (v % p)
  OBVIOUS
<1> QED
  BY <1>1

LEMMA DivideTwice ==
  ASSUME NEW v \in Nat, NEW p \in Nat \ {0}, NEW b \in Nat \ {0}
  PROVE  (v \div p) \div b = v \div (b * p)
<1>1. PICK q \in Nat, r \in 0..(p - 1) : v = p * q + r /\ q = v \div p
  BY QuotientExists
<1>2. PICK x \in Nat, y \in 0..(b - 1) : q = b * x + y /\ x = q \div b
  BY QuotientExists
<1>3. v = (b * p) * x + (p * y + r)
  <2>1. p * (b * x + y) = (b * p) * x + p * y
    OBVIOUS
  <2>2. v = p * (b * x + y) + r
    BY <1>1, <1>2, Zenon
  <2>3. PICK m \in Int, n \in Int : m = (b * p) * x /\ n = p * y
    OBVIOUS
  <2>4. (m + n) + r = m + (n + r)
    OBVIOUS
  <2> QED
    BY <2>1, <2>2, <2>3, <2>4, Zenon
<1>4. p * y + r \in 0..(b * p - 1)
  <2>1. PICK z \in Nat : z = b - 1 - y
    OBVIOUS
  <2>2. p * y \in Nat /\ p * z \in Nat
    OBVIOUS
  <2>3. b * p = p * y + p * z + p
    <3>1. b = y + z + 1
      BY <2>1
    <3>2. (y + z + 1) * p = p * y + p * z + p
      OBVIOUS
    <3> QED
      BY <3>1, <3>2
  <2> QED
    BY <2>2, <2>3
<1>5. b * p \in Nat \ {0}
  BY <1>4
<1>6. v \div (b * p) = x
  BY <1>3, <1>4, <1>5, QuotientIs
<1> QED
  BY <1>1, <1>2, <1>6

-----------------------------------------------------------------------------
(***************************************************************************)
(* Digits.                                                                 *)
(***************************************************************************)

\* f is the recursion of Digits(b, n, d), or the part of it from digit m on.
IsFrom(b, n, d, f) == f = [k \in 0..n |-> IF k = n THEN 0 ELSE d[k] + b * f[k + 1]]
FromPart(b, n, d, m, f) == f = [k \in m..n |-> IF k = n THEN 0 ELSE d[k] + b * f[k + 1]]

LEMMA FromExists ==
  ASSUME NEW b, NEW n \in Nat, NEW d
  PROVE  \E f : IsFrom(b, n, d, f)
<1> DEFINE S == {m \in Nat : m <= n => \E f : FromPart(b, n, d, n - m, f)}
<1>1. 0 \in S
  <2>1. FromPart(b, n, d, n - 0, [k \in n..n |-> 0])
    BY DEF FromPart
  <2> QED
    BY <2>1
<1>2. ASSUME NEW m \in Nat, m \in S
      PROVE  m + 1 \in S
  <2> SUFFICES ASSUME m + 1 <= n
               PROVE  \E f : FromPart(b, n, d, n - (m + 1), f)
    OBVIOUS
  <2>1. PICK f : FromPart(b, n, d, n - m, f)
    BY <1>2
  <2> DEFINE low == n - (m + 1)
             g == [k \in low..n |-> IF k = low THEN d[low] + b * f[low + 1] ELSE f[k]]
  <2>2. ASSUME NEW k \in low..n
        PROVE  g[k] = IF k = n THEN 0 ELSE d[k] + b * g[k + 1]
    <3>1. CASE k = low
      <4>1. low # n /\ low + 1 \in low..n /\ low + 1 # low
        OBVIOUS
      <4> QED
        BY <3>1, <4>1
    <3>2. CASE k # low
      <4>1. k \in (n - m)..n /\ g[k] = f[k]
        BY <3>2
      <4>2. f[k] = IF k = n THEN 0 ELSE d[k] + b * f[k + 1]
        BY <2>1, <4>1 DEF FromPart
      <4>3. k # n => g[k + 1] = f[k + 1]
        BY <4>1
      <4> QED
        BY <4>1, <4>2, <4>3
    <3> QED
      BY <3>1, <3>2
  <2>3. FromPart(b, n, d, low, g)
    BY <2>2 DEF FromPart
  <2> QED
    BY <2>3
<1> HIDE DEF S
<1>3. Nat \subseteq S
  BY <1>1, <1>2, SetInduction
<1>4. n \in S /\ n - n = 0
  BY <1>3
<1>5. PICK f : FromPart(b, n, d, 0, f)
  BY <1>4 DEF S
<1>6. IsFrom(b, n, d, f)
  BY <1>5, Zenon DEF FromPart, IsFrom
<1> QED
  BY <1>6

LEMMA DigitsOf ==
  ASSUME NEW b, NEW n \in Nat, NEW d
  PROVE  \E f : IsFrom(b, n, d, f) /\ Digits(b, n, d) = f[0]
<1>1. \E f : IsFrom(b, n, d, f)
  BY FromExists, Zenon
<1> QED
  BY <1>1, Zenon DEF Digits, IsFrom

\* n digits below b make a number below b to the n.
LEMMA DigitsRange ==
  ASSUME NEW b \in Nat \ {0}, NEW n \in Nat, NEW d,
         \A k \in 0..(n - 1) : d[k] \in 0..(b - 1)
  PROVE  Digits(b, n, d) \in 0..(Power(b, n) - 1)
<1>1. PICK f : IsFrom(b, n, d, f) /\ Digits(b, n, d) = f[0]
  BY DigitsOf
<1> DEFINE S == {m \in Nat : m <= n => f[n - m] \in 0..(Power(b, m) - 1)}
<1>2. 0 \in S
  <2>1. n - 0 = n /\ n \in 0..n
    OBVIOUS
  <2>2. f[n] = 0
    BY <1>1, <2>1 DEF IsFrom
  <2>3. Power(b, 0) - 1 = 0
    BY PowerStep
  <2> QED
    BY <2>1, <2>2, <2>3
<1>3. ASSUME NEW m \in Nat, m \in S
      PROVE  m + 1 \in S
  <2> SUFFICES ASSUME m + 1 <= n
               PROVE  f[n - (m + 1)] \in 0..(Power(b, m + 1) - 1)
    OBVIOUS
  <2>1. PICK k \in 0..(n - 1) : k = n - (m + 1) /\ k + 1 = n - m /\ k # n
    OBVIOUS
  <2>2. PICK p \in Nat : p = Power(b, m)
    BY PowerType
  <2>3. PICK x \in Nat : x = f[k + 1] /\ x <= p - 1
    BY <1>3, <2>1, <2>2
  <2>4. PICK e \in Nat : e = d[k] /\ e <= b - 1
    OBVIOUS
  <2>5. f[k] = e + b * x
    BY <1>1, <2>1, <2>3, <2>4 DEF IsFrom
  <2>6. e + b * x \in 0..(b * p - 1)
    <3>1. PICK y \in Nat : y = p - 1 - x
      BY <2>3
    <3>2. b * x \in Nat /\ b * y \in Nat
      OBVIOUS
    <3>3. b * p = b * x + b * y + b
      <4>1. p = x + y + 1
        BY <3>1
      <4>2. b * (x + y + 1) = b * x + b * y + b
        OBVIOUS
      <4> QED
        BY <4>1, <4>2
    <3> QED
      BY <2>4, <3>2, <3>3
  <2> QED
    BY <2>1, <2>2, <2>5, <2>6, PowerStep
<1> HIDE DEF S
<1>4. Nat \subseteq S
  BY <1>2, <1>3, SetInduction
<1>5. n \in S /\ n - n = 0
  BY <1>4
<1> QED
  BY <1>1, <1>5 DEF S

\* The digits of a number make that number: what is stored is what is read back.
LEMMA DigitsOfNumber ==
  ASSUME NEW b \in Nat \ {0}, NEW n \in Nat, NEW v \in 0..(Power(b, n) - 1), NEW d,
         \A k \in 0..(n - 1) : d[k] = Digit(b, v, k)
  PROVE  Digits(b, n, d) = v
<1>1. PICK f : IsFrom(b, n, d, f) /\ Digits(b, n, d) = f[0]
  BY DigitsOf
<1>2. v \in Nat
  OBVIOUS
<1> DEFINE S == {m \in Nat : m <= n => f[n - m] = v \div Power(b, n - m)}
<1>3. 0 \in S
  <2>1. n - 0 = n /\ n \in 0..n
    OBVIOUS
  <2>2. f[n] = 0
    BY <1>1, <2>1 DEF IsFrom
  <2>3. PICK p \in Nat \ {0} : p = Power(b, n)
    BY PowerType
  <2>4. v = p * 0 + v /\ v \in 0..(p - 1) /\ 0 \in Nat
    BY <2>3
  <2>5. v \div p = 0
    BY <1>2, <2>4, QuotientIs
  <2> QED
    BY <2>1, <2>2, <2>3, <2>5
<1>4. ASSUME NEW m \in Nat, m \in S
      PROVE  m + 1 \in S
  <2> SUFFICES ASSUME m + 1 <= n
               PROVE  f[n - (m + 1)] = v \div Power(b, n - (m + 1))
    OBVIOUS
  <2>1. PICK k \in 0..(n - 1) : k = n - (m + 1) /\ k + 1 = n - m /\ k # n /\ k \in Nat
    OBVIOUS
  <2>2. PICK p \in Nat \ {0} : p = Power(b, k)
    BY <2>1, PowerType
  <2>3. f[k + 1] = v \div (b * p)
    BY <1>4, <2>1, <2>2, PowerStep
  <2>4. PICK q \in Nat : q = v \div p
    BY <1>2
  <2>5. f[k] = (q % b) + b * (q \div b)
    <3>1. d[k] = q % b
      BY <2>2, <2>4 DEF Digit
    <3>2. f[k + 1] = q \div b
      BY <1>2, <2>3, <2>4, DivideTwice
    <3>3. f[k] = d[k] + b * f[k + 1]
      BY <1>1, <2>1 DEF IsFrom
    <3> QED
      BY <3>1, <3>2, <3>3, Zenon
  <2>6. (q % b) + b * (q \div b) = q
    OBVIOUS
  <2> QED
    BY <2>1, <2>2, <2>4, <2>5, <2>6
<1> HIDE DEF S
<1>5. Nat \subseteq S
  BY <1>3, <1>4, SetInduction
<1>6. n \in S /\ n - n = 0
  BY <1>5
<1>7. v \div 1 = v
  OBVIOUS
<1> QED
  BY <1>1, <1>6, <1>7, PowerStep DEF S

LEMMA DigitRange ==
  ASSUME NEW b \in Nat \ {0}, NEW v \in Nat, NEW k \in Nat
  PROVE  Digit(b, v, k) \in 0..(b - 1)
<1>1. PICK p \in Nat \ {0} : p = Power(b, k)
  BY PowerType
<1>2. PICK q \in Nat : q = v \div p
  OBVIOUS
<1>3. q % b \in 0..(b - 1)
  OBVIOUS
<1> QED
  BY <1>1, <1>2, <1>3 DEF Digit
=============================================================================
