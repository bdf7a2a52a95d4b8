-------------------------- MODULE DatapathProofs --------------------------
(* The CPU and NEMU compute the same registers and the same memory and take *)
(* the same branches, for bytes of any size, where alu.sv is exact and      *)
(* stores are aligned. The numbers of a word are powers of two, quotients   *)
(* and remainders; the first two sections prove what the provers do not     *)
(* know of them.                                                            *)
EXTENDS Datapath, FiniteSets, FiniteSetTheorems, WellFoundedInduction, TLAPS

----------------------------------------------------------------------------
(* Powers of two. A set of n elements has 2^n subsets.                      *)

\* A set of natural numbers that is not empty has a least element. A statement
\* about all of them is proved by the least one that would break it.
LEMMA Least ==
    ASSUME NEW G \in SUBSET Nat, G # {}
    PROVE  \E e \in G : \A y \in G : e <= y
  <1>1. PICK R : R = OpToRel(<, Nat) /\ IsWellFoundedOn(R, Nat)
    BY NatLessThanWellFounded
  <1>2. \A e \in Nat, y \in Nat : e < y => <<e, y>> \in R
    BY <1>1 DEF OpToRel
  <1>3. PICK e \in G : \A y \in G : <<y, e>> \notin R
    BY <1>1, WFMin
  <1>4. ASSUME NEW y \in G PROVE e <= y
    <2>1. <<y, e>> \notin R
      BY <1>3
    <2>2. e \in Nat /\ y \in Nat
      OBVIOUS
    <2>3. ~(y < e)
      BY <1>2, <2>1, <2>2
    <2>4. QED
      BY <2>2, <2>3
  <1>5. QED
    BY <1>4

LEMMA SubsetsOf ==
    ASSUME NEW n \in Nat
    PROVE  /\ IsFiniteSet(SUBSET (1 .. n)) /\ Cardinality(SUBSET (1 .. n)) = 2^n
           /\ 2^n \in Nat
  <1>1. IsFiniteSet(1 .. n) /\ Cardinality(1 .. n) = n
    BY FS_Interval
  <1>2. IsFiniteSet(SUBSET (1 .. n)) /\ Cardinality(SUBSET (1 .. n)) = 2^n
    BY <1>1, FS_SUBSET
  <1>3. QED
    BY <1>2, FS_CardinalityType

\* The subsets of 1 .. n + 1 are those of 1 .. n, each with n + 1 and without.
LEMMA Doubles ==
    ASSUME NEW n \in Nat
    PROVE  2^(n + 1) = 2 * 2^n
  <1>1. PICK A : A = SUBSET (1 .. n)
    OBVIOUS
  <1>2. PICK C : C = SUBSET (1 .. n + 1)
    OBVIOUS
  <1>3. PICK B : B = {T \cup {n + 1} : T \in A}
    OBVIOUS
  <1>4. PICK f : f = [T \in A |-> T \cup {n + 1}]
    OBVIOUS
  <1>5. \A T \in A : n + 1 \notin T
    BY <1>1
  <1>6. f \in Bijection(A, B)
    <2>1. f \in [A -> B] /\ \A T \in B : \E S \in A : f[S] = T
      BY <1>3, <1>4
    <2>2. ASSUME NEW S \in A, NEW T \in A, f[S] = f[T] PROVE S = T
      <3>1. S \cup {n + 1} = T \cup {n + 1}
        BY <1>4, <2>2
      <3>2. n + 1 \notin S /\ n + 1 \notin T
        BY <1>5
      <3>3. QED
        BY <3>1, <3>2
    <2>3. f \in Injection(A, B)
      BY <2>1, <2>2 DEF Injection, IsInjective
    <2>4. f \in Surjection(A, B)
      BY <2>1 DEF Surjection
    <2>5. QED
      BY <2>3, <2>4 DEF Bijection
  <1>7. C = A \cup B
    <2>1. ASSUME NEW S \in C PROVE S \in A \cup B
      <3>1. 1 .. n + 1 = (1 .. n) \cup {n + 1}
        OBVIOUS
      <3>2. S \ {n + 1} \in A
        BY <1>1, <1>2, <3>1
      <3>3. CASE n + 1 \in S
        <4>1. S = (S \ {n + 1}) \cup {n + 1}
          BY <3>3
        <4>2. QED
          BY <1>3, <3>2, <4>1
      <3>4. CASE n + 1 \notin S
        <4>1. S = S \ {n + 1}
          BY <3>4
        <4>2. QED
          BY <3>2, <4>1
      <3>5. QED
        BY <3>3, <3>4
    <2>2. A \subseteq C
      BY <1>1, <1>2
    <2>3. ASSUME NEW T \in A PROVE T \cup {n + 1} \in C
      BY <1>1, <1>2
    <2>4. QED
      BY <1>3, <2>1, <2>2, <2>3
  <1>8. A \cap B = {}
    BY <1>3, <1>5
  <1>9. IsFiniteSet(A) /\ Cardinality(A) = 2^n /\ 2^n \in Nat /\ Cardinality(C) = 2^(n + 1)
    <2>1. n + 1 \in Nat
      OBVIOUS
    <2>2. Cardinality(C) = 2^(n + 1)
      BY <1>2, <2>1, SubsetsOf
    <2>3. QED
      BY <1>1, <2>2, SubsetsOf
  <1>10. IsFiniteSet(B) /\ Cardinality(B) = Cardinality(A)
    BY <1>6, <1>9, FS_Bijection DEF ExistsBijection
  <1>11. Cardinality(A \cup B) = Cardinality(A) + Cardinality(B) - Cardinality(A \cap B)
    BY <1>9, <1>10, FS_Union
  <1>12. Cardinality(A \cap B) = 0
    BY <1>8, FS_EmptySet
  <1>13. QED
    BY <1>7, <1>9, <1>10, <1>11, <1>12

LEMMA One == \A n \in Nat : n = 0 => 2^n = 1
  <1>1. 2^0 = 1
    OBVIOUS
  <1>2. QED
    BY <1>1, Zenon

\* The power of a sum, by the least n for which it would not hold.
LEMMA PowerSum ==
    ASSUME NEW m \in Nat, NEW n \in Nat
    PROVE  2^(m + n) = 2^m * 2^n
  <1>1. PICK G : G = {k \in Nat : 2^(m + k) # 2^m * 2^k}
    OBVIOUS
  <1>2. ASSUME NEW k \in G, \A y \in G : k <= y PROVE FALSE
    <2>1. k \in Nat /\ 2^(m + k) # 2^m * 2^k
      BY <1>1
    <2>2. 2^m \in Nat
      BY SubsetsOf
    <2>3. CASE k = 0
      BY <2>1, <2>2, <2>3, One
    <2>4. CASE k # 0
      <3>1. PICK j \in Nat : k = j + 1
        <4>1. k - 1 \in Nat /\ k = (k - 1) + 1
          BY <2>1, <2>4
        <4>2. QED
          BY <4>1
      <3>2. 2^(m + j) = 2^m * 2^j
        BY <1>1, <1>2, <3>1
      <3>3. 2^((m + j) + 1) = 2 * 2^(m + j) /\ 2^(j + 1) = 2 * 2^j /\ 2^j \in Nat
        <4>1. m + j \in Nat
          OBVIOUS
        <4>2. 2^((m + j) + 1) = 2 * 2^(m + j)
          BY <4>1, Doubles
        <4>3. QED
          BY <4>2, Doubles, SubsetsOf
      <3>4. m + k = (m + j) + 1
        BY <3>1
      <3>5. PICK p \in Nat, q \in Nat : p = 2^m /\ q = 2^j
        BY <2>2, <3>3
      <3>6. 2^(m + k) = 2 * (p * q)
        BY <3>2, <3>3, <3>4, <3>5
      <3>7. 2^m * 2^k = p * (2 * q)
        BY <3>1, <3>3, <3>5
      <3>8. p * (2 * q) = 2 * (p * q)
        OBVIOUS
      <3>9. QED
        BY <2>1, <3>6, <3>7, <3>8
    <2>5. QED
      BY <2>3, <2>4
  <1>3. G = {}
    BY <1>1, <1>2, Least
  <1>4. QED
    BY <1>1, <1>3

LEMMA Positive ==
    ASSUME NEW n \in Nat
    PROVE  2^n \in Nat \ {0}
  <1>1. PICK G : G = {k \in Nat : 2^k = 0}
    OBVIOUS
  <1>2. ASSUME NEW k \in G, \A y \in G : k <= y PROVE FALSE
    <2>1. k \in Nat /\ 2^k = 0
      BY <1>1
    <2>2. k # 0
      BY <2>1, One
    <2>3. PICK j \in Nat : k = j + 1
      <3>1. k - 1 \in Nat /\ k = (k - 1) + 1
        BY <2>1, <2>2
      <3>2. QED
        BY <3>1
    <2>4. 2^k = 2 * 2^j /\ 2^j \in Nat
      BY <2>3, Doubles, SubsetsOf
    <2>5. 2^j = 0
      BY <2>1, <2>4
    <2>6. QED
      BY <1>1, <1>2, <2>3, <2>5
  <1>3. G = {}
    BY <1>1, <1>2, Least
  <1>4. QED
    BY <1>1, <1>3, SubsetsOf

\* Twice the weight of the sign bit.
LEMMA Halves ==
    ASSUME NEW n \in Nat \ {0}
    PROVE  2^n \in Nat \ {0} /\ 2^(n - 1) \in Nat \ {0} /\ 2^n = 2 * 2^(n - 1)
  <1>1. n - 1 \in Nat /\ (n - 1) + 1 = n
    OBVIOUS
  <1>2. 2^((n - 1) + 1) = 2 * 2^(n - 1)
    BY <1>1, Doubles
  <1>3. QED
    BY <1>1, <1>2, Positive

----------------------------------------------------------------------------
(* Division: quotient and remainder are what their product and sum says.    *)

LEMMA DivMod ==
    ASSUME NEW a \in Int, NEW b \in Nat \ {0}
    PROVE  /\ a \div b \in Int /\ a % b \in Int /\ 0 <= a % b /\ a % b < b
           /\ a = b * (a \div b) + (a % b)
  OBVIOUS

LEMMA DivIs ==
    ASSUME NEW a \in Int, NEW b \in Nat \ {0}, NEW q \in Int, NEW r \in Nat, r < b, a = b * q + r
    PROVE  a \div b = q /\ a % b = r
  <1>1. a \div b = q
    OBVIOUS
  <1>2. a % b = r
    OBVIOUS
  <1>3. QED
    BY <1>1, <1>2

\* A negative number less than one divisor away from zero.
LEMMA DivNegative ==
    ASSUME NEW a \in Int, NEW b \in Nat \ {0}, -b <= a, a < 0
    PROVE  a % b = a + b
  <1>1. PICK q \in Int : q = -1
    OBVIOUS
  <1>2. a = b * q + (a + b) /\ a + b \in Nat /\ a + b < b
    BY <1>1
  <1>3. QED
    BY <1>2, DivIs

LEMMA DivSmall ==
    ASSUME NEW a \in Nat, NEW b \in Nat \ {0}, a < b
    PROVE  a \div b = 0 /\ a % b = a
  <1>1. a = b * 0 + a
    OBVIOUS
  <1>2. QED
    BY <1>1, DivIs

\* Adding a multiple of the divisor.
LEMMA DivShift ==
    ASSUME NEW a \in Int, NEW b \in Nat \ {0}, NEW q \in Int
    PROVE  (a + b * q) \div b = a \div b + q /\ (a + b * q) % b = a % b
  <1>1. PICK d \in Int, r \in Nat : d = a \div b /\ r = a % b /\ r < b /\ a = b * d + r
    BY DivMod
  <1>2. a + b * q = b * (d + q) + r
    BY <1>1
  <1>3. PICK v \in Int, e \in Int : v = a + b * q /\ e = d + q /\ v = b * e + r
    BY <1>2
  <1>4. r \in Nat /\ r < b /\ v = b * e + r
    BY <1>1, <1>3
  <1>5. v \div b = e /\ v % b = r
    BY <1>4, DivIs
  <1>6. (a + b * q) \div b = v \div b /\ (a + b * q) % b = v % b
    BY <1>3, Zenon
  <1>7. e = a \div b + q /\ r = a % b
    BY <1>1, <1>3
  <1>8. QED
    BY <1>5, <1>6, <1>7, Zenon

\* Dividing keeps the sign and does not go away from zero.
LEMMA DivBounds ==
    ASSUME NEW a \in Int, NEW b \in Nat \ {0}, NEW h \in Nat, -h <= a, a < h
    PROVE  /\ -h <= a \div b /\ a \div b < h
           /\ a >= 0 => a \div b \in Nat /\ a \div b <= a
  <1>1. PICK d \in Int, r \in Nat : d = a \div b /\ r = a % b /\ r < b /\ a = b * d + r
    BY DivMod
  <1>2. CASE d >= 0
    <2>1. b * d >= d
      BY <1>2
    <2>2. QED
      BY <1>1, <1>2, <2>1
  <1>3. CASE d < 0
    <2>1. b * (d + 1) <= d + 1
      BY <1>3
    <2>2. b * (d + 1) = b * d + b
      OBVIOUS
    <2>3. a < d + 1
      BY <1>1, <2>1, <2>2
    <2>4. QED
      BY <1>1, <1>3, <2>3
  <1>4. QED
    BY <1>1, <1>2, <1>3

----------------------------------------------------------------------------
(* Words.                                                                   *)

LEMMA Widths ==
    /\ ByteBits \in Nat \ {0} /\ WLEN \in Nat \ {0} /\ XLEN \in Nat \ {0}
    /\ XLEN = WLEN + WLEN /\ WLEN - 1 \in Nat /\ XLEN - 1 \in Nat
    /\ XLEN + 1 \in Nat /\ 2 * XLEN \in Nat
  BY DatapathAssumption DEF XLEN, WLEN

\* How the powers of two that occur are related.
LEMMA Powers ==
    /\ 2^XLEN \in Nat \ {0} /\ 2^(XLEN - 1) \in Nat \ {0}
    /\ 2^WLEN \in Nat \ {0} /\ 2^(WLEN - 1) \in Nat \ {0}
    /\ 2^XLEN = 2 * 2^(XLEN - 1) /\ 2^WLEN = 2 * 2^(WLEN - 1)
    /\ 2^(XLEN + 1) = 2 * 2^XLEN
    /\ 2^XLEN = 2^WLEN * 2^WLEN /\ 2^(2 * XLEN) = 2^XLEN * 2^XLEN
  <1>1. PICK x1 \in Nat, w \in Nat : /\ x1 = XLEN /\ w = WLEN /\ x1 = w + w
                                    /\ x1 - 1 \in Nat /\ w - 1 \in Nat
    BY Widths
  <1>2. /\ 2^x1 \in Nat \ {0} /\ 2^(x1 - 1) \in Nat \ {0}
        /\ 2^w \in Nat \ {0} /\ 2^(w - 1) \in Nat \ {0}
    BY <1>1, Positive
  <1>3. x1 # 0 /\ w # 0
    BY <1>1
  <1>4. 2^x1 = 2 * 2^(x1 - 1) /\ 2^w = 2 * 2^(w - 1)
    BY <1>3, Halves
  <1>5. 2^(x1 + 1) = 2 * 2^x1
    BY <1>1, Doubles
  <1>6. 2^x1 = 2^w * 2^w
    BY <1>1, PowerSum
  <1>7. 2^(x1 + x1) = 2^x1 * 2^x1 /\ 2 * x1 = x1 + x1
    BY <1>1, PowerSum
  <1>8. QED
    BY <1>1, <1>2, <1>3, <1>4, <1>5, <1>6, <1>7

\* A power of two below the width divides the power of the width.
LEMMA Factor ==
    ASSUME NEW n \in Nat \ {0}, NEW b \in Nat
    PROVE  \E c \in Nat \ {0}, d \in Nat \ {0} : c = 2^(b % n) /\ 2^n = c * d
  <1>1. PICK k \in Nat, j \in Nat : k = b % n /\ j = n - k
    BY DivMod
  <1>2. 2^(k + j) = 2^k * 2^j /\ 2^k \in Nat \ {0} /\ 2^j \in Nat \ {0}
    BY PowerSum, Positive
  <1>3. k + j = n
    BY <1>1
  <1>4. QED
    BY <1>1, <1>2, <1>3

LEMMA LowTyped ==
    ASSUME NEW v \in Int, NEW n \in Nat
    PROVE  /\ Low(v, n) \in 0 .. 2^n - 1
           /\ \E q \in Int : v = 2^n * q + Low(v, n)
  <1>1. PICK m \in Nat \ {0} : m = 2^n
    BY Positive
  <1>2. v \div m \in Int /\ v % m \in 0 .. m - 1 /\ v = m * (v \div m) + (v % m)
    BY DivMod
  <1>3. Low(v, n) = v % m
    BY <1>1 DEF Low
  <1>4. QED
    BY <1>1, <1>2, <1>3

LEMMA LowSmall ==
    ASSUME NEW n \in Nat, NEW v \in 0 .. 2^n - 1
    PROVE  Low(v, n) = v
  BY Positive, DivSmall DEF Low

LEMMA LowShift ==
    ASSUME NEW v \in Int, NEW n \in Nat, NEW q \in Int
    PROVE  Low(v + 2^n * q, n) = Low(v, n)
  BY Positive, DivShift DEF Low

\* A number is its low bits taken as a signed number, up to a multiple of 2^n.
LEMMA SignedTyped ==
    ASSUME NEW v \in Int, NEW n \in Nat \ {0}
    PROVE  /\ Signed(v, n) \in -(2^(n - 1)) .. 2^(n - 1) - 1
           /\ Signed(v, n) \in Int
           /\ \E q \in Int : v = 2^n * q + Signed(v, n)
  <1>1. PICK r \in Nat : r = Low(v, n) /\ r < 2^n
    <2>1. 2^n \in Nat \ {0} /\ Low(v, n) \in 0 .. 2^n - 1
      BY LowTyped, Positive
    <2>2. Low(v, n) \in Nat /\ Low(v, n) < 2^n
      BY <2>1
    <2>3. QED
      BY <2>2
  <1>2. PICK q \in Int : v = 2^n * q + r
    BY <1>1, LowTyped
  <1>3. PICK m \in Nat, h \in Nat : m = 2^n /\ h = 2^(n - 1) /\ m = 2 * h
    BY Halves
  <1>4. CASE r < h
    <2>1. Signed(v, n) = r
      BY <1>1, <1>3, <1>4 DEF Signed
    <2>2. v = 2^n * q + Signed(v, n)
      BY <1>2, <2>1
    <2>3. Signed(v, n) \in -h .. h - 1 /\ Signed(v, n) \in Int
      BY <1>4, <2>1
    <2>4. QED
      BY <1>3, <2>2, <2>3
  <1>5. CASE ~(r < h)
    <2>1. Signed(v, n) = r - m
      BY <1>1, <1>3, <1>5 DEF Signed
    <2>2. m * q + r = m * (q + 1) + (r - m) /\ q + 1 \in Int
      OBVIOUS
    <2>3. v = 2^n * (q + 1) + Signed(v, n)
      BY <1>2, <1>3, <2>1, <2>2
    <2>4. Signed(v, n) \in -h .. h - 1 /\ Signed(v, n) \in Int
      BY <1>1, <1>3, <1>5, <2>1
    <2>5. QED
      BY <1>3, <2>2, <2>3, <2>4
  <1>6. QED
    BY <1>4, <1>5

\* A number of n bits with a sign is the signed value of itself.
LEMMA SignedSmall ==
    ASSUME NEW n \in Nat \ {0}, NEW v \in Int, -(2^(n - 1)) <= v, v < 2^(n - 1)
    PROVE  Signed(v, n) = v
  <1>1. PICK m \in Nat \ {0}, h \in Nat : m = 2^n /\ h = 2^(n - 1) /\ m = 2 * h
    BY Halves
  <1>2. CASE v >= 0
    <2>1. Low(v, n) = v
      BY <1>1, <1>2, DivSmall DEF Low
    <2>2. QED
      BY <1>1, <2>1 DEF Signed
  <1>3. CASE v < 0
    <2>1. v = m * (-1) + (v + m) /\ v + m \in Nat /\ v + m < m
      BY <1>1, <1>3
    <2>2. Low(v, n) = v + m
      BY <1>1, <2>1, DivIs DEF Low
    <2>3. QED
      BY <1>1, <2>2 DEF Signed
  <1>4. QED
    BY <1>2, <1>3

\* What is extended is a word.
LEMMA SextTyped ==
    ASSUME NEW v \in Int, NEW n \in Nat \ {0}
    PROVE  Sext(v, n) \in Word
  BY SignedTyped, LowTyped, Widths DEF Sext, Word

\* Only the low bits matter.
LEMMA SextSame ==
    ASSUME NEW u, NEW v, NEW n, Low(u, n) = Low(v, n)
    PROVE  Sext(u, n) = Sext(v, n) /\ Signed(u, n) = Signed(v, n)
  BY DEF Sext, Signed

----------------------------------------------------------------------------
(* alu.sv computes what the interpreter does, one group of operations at a  *)
(* time.                                                                    *)

\* The signed difference, when it does not overflow, has the sign of the
\* comparison; the difference of one bit more has the unsigned one.
LEMMA Comparisons ==
    ASSUME NEW a \in Word, NEW b \in Word
    PROVE  /\ Low(a - b, XLEN) = 0 <=> a = b
           /\ (Low(a - b, XLEN + 1) >= 2^XLEN) <=> a < b
           /\ Low(a - b, XLEN + 1) \in 0 .. 2 * 2^XLEN - 1
           /\ Low(a - b, XLEN) \in 0 .. 2 * 2^(XLEN - 1) - 1
           /\ Signed(a, XLEN) - Signed(b, XLEN) \in -(2^(XLEN - 1)) .. 2^(XLEN - 1) - 1
              => ((Low(a - b, XLEN) >= 2^(XLEN - 1)) <=> Signed(a, XLEN) < Signed(b, XLEN))
  <1>1. PICK m \in Nat \ {0}, h \in Nat \ {0} : m = 2^XLEN /\ h = 2^(XLEN - 1) /\ m = 2 * h
    BY Powers
  <1>2. 2^(XLEN + 1) = 2 * m
    BY <1>1, Powers
  <1>3. a \in 0 .. m - 1 /\ b \in 0 .. m - 1
    BY <1>1 DEF Word
  <1>4. a % m = a /\ b % m = b
    BY <1>3, DivSmall
  <1>5. /\ Signed(a, XLEN) = IF a < h THEN a ELSE a - m
        /\ Signed(b, XLEN) = IF b < h THEN b ELSE b - m
    BY <1>1, <1>4 DEF Signed, Low
  <1>6. Low(a - b, XLEN) = IF a < b THEN a - b + m ELSE a - b
    <2>1. CASE a < b
      <3>1. a - b \in Int /\ -m <= a - b /\ a - b < 0
        BY <1>3, <2>1
      <3>2. (a - b) % m = a - b + m
        BY <3>1, DivNegative
      <3>3. QED
        BY <1>1, <2>1, <3>2 DEF Low
    <2>2. CASE ~(a < b)
      <3>1. a - b \in Nat /\ a - b < m
        BY <1>3, <2>2
      <3>2. QED
        BY <1>1, <2>2, <3>1, DivSmall DEF Low
    <2>3. QED
      BY <2>1, <2>2
  <1>7. Low(a - b, XLEN + 1) = IF a < b THEN a - b + 2 * m ELSE a - b
    <2>1. CASE a < b
      <3>1. a - b \in Int /\ -(2 * m) <= a - b /\ a - b < 0 /\ 2 * m \in Nat \ {0}
        BY <1>3, <2>1
      <3>2. (a - b) % (2 * m) = a - b + 2 * m
        BY <3>1, DivNegative
      <3>3. QED
        BY <1>2, <2>1, <3>2 DEF Low
    <2>2. CASE ~(a < b)
      <3>1. a - b \in Nat /\ a - b < 2 * m /\ 2 * m \in Nat \ {0}
        BY <1>3, <2>2
      <3>2. QED
        BY <1>2, <2>2, <3>1, DivSmall DEF Low
    <2>3. QED
      BY <2>1, <2>2
  <1>8. (Low(a - b, XLEN) = 0 <=> a = b) /\ Low(a - b, XLEN) \in 0 .. 2 * h - 1
    BY <1>1, <1>3, <1>6
  <1>9. ((Low(a - b, XLEN + 1) >= m) <=> a < b) /\ Low(a - b, XLEN + 1) \in 0 .. 2 * m - 1
    BY <1>3, <1>7
  <1>10. Signed(a, XLEN) - Signed(b, XLEN) \in -h .. h - 1
         => ((Low(a - b, XLEN) >= h) <=> Signed(a, XLEN) < Signed(b, XLEN))
    BY <1>1, <1>3, <1>5, <1>6
  <1>11. QED
    BY <1>1, <1>8, <1>9, <1>10

\* The high bit of a number of one bit more than m.
LEMMA HighBit ==
    ASSUME NEW m \in Nat \ {0}, NEW v \in 0 .. 2 * m - 1
    PROVE  v \div m = IF v >= m THEN 1 ELSE 0
  <1>1. CASE v < m
    BY <1>1, DivSmall
  <1>2. CASE ~(v < m)
    <2>1. v = m * 1 + (v - m) /\ v - m \in Nat /\ v - m < m
      BY <1>2
    <2>2. QED
      BY <1>2, <2>1, DivIs
  <1>3. QED
    BY <1>1, <1>2

LEMMA SetLess ==
    ASSUME NEW a \in Word, NEW b \in Word
    PROVE  /\ Exact("SLT", a, b) => alu("SLT", a, b) = rtl("SLT", a, b)
           /\ alu("SLTU", a, b) = rtl("SLTU", a, b)
           /\ alu("SLT", a, b) \in {0, 1} /\ alu("SLTU", a, b) \in {0, 1}
  <1>1. PICK m \in Nat \ {0}, h \in Nat \ {0} : m = 2^XLEN /\ h = 2^(XLEN - 1)
    BY Powers
  <1>2. alu("SLT", a, b) = Low(a - b, XLEN) \div h
    BY <1>1 DEF alu
  <1>3. alu("SLTU", a, b) = Low(a - b, XLEN + 1) \div m
    BY <1>1 DEF alu
  <1>4. alu("SLT", a, b) = IF Low(a - b, XLEN) >= h THEN 1 ELSE 0
    <2>1. Low(a - b, XLEN) \in 0 .. 2 * h - 1
      BY <1>1, Comparisons
    <2>2. QED
      BY <1>2, <2>1, HighBit
  <1>5. alu("SLTU", a, b) = IF Low(a - b, XLEN + 1) >= m THEN 1 ELSE 0
    <2>1. Low(a - b, XLEN + 1) \in 0 .. 2 * m - 1
      BY <1>1, Comparisons
    <2>2. QED
      BY <1>3, <2>1, HighBit
  <1>6. rtl("SLTU", a, b) = IF a < b THEN 1 ELSE 0
    BY DEF rtl, Bit
  <1>7. rtl("SLT", a, b) = IF Signed(a, XLEN) < Signed(b, XLEN) THEN 1 ELSE 0
    BY DEF rtl, Bit
  <1>8. Exact("SLT", a, b)
        => Signed(a, XLEN) - Signed(b, XLEN) \in -(2^(XLEN - 1)) .. 2^(XLEN - 1) - 1
    BY DEF Exact
  <1>9. Exact("SLT", a, b) => ((Low(a - b, XLEN) >= h) <=> Signed(a, XLEN) < Signed(b, XLEN))
    BY <1>1, <1>8, Comparisons
  <1>10. (Low(a - b, XLEN + 1) >= m) <=> a < b
    BY <1>1, Comparisons
  <1>11. QED
    BY <1>4, <1>5, <1>6, <1>7, <1>9, <1>10

\* Shifting right by less than n: what is above the sign in a number of twice
\* the width does not reach the low bits.
LEMMA ShiftRight ==
    ASSUME NEW n \in Nat \ {0}, NEW b \in Nat, NEW s \in Int, NEW u \in Int, NEW q \in Int,
           u = s + (2^n * 2^n) * q
    PROVE  Low(u \div 2^(b % n), n) = Low(s \div 2^(b % n), n)
  <1>1. PICK c \in Nat \ {0}, d \in Nat \ {0} : c = 2^(b % n) /\ 2^n = c * d
    BY Factor
  <1>2. PICK m \in Nat \ {0} : m = 2^n /\ m = c * d
    BY <1>1, Positive
  <1>3. PICK p \in Int : p = d * q
    OBVIOUS
  <1>4. PICK v \in Int : v = m * p
    OBVIOUS
  <1>5. u = s + c * v
    <2>1. (m * m) * q = c * (m * (d * q))
      <3>1. (m * m) * q = m * (m * q) /\ m * q = (c * d) * q /\ (c * d) * q = c * (d * q)
        BY <1>2
      <3>2. m * (c * (d * q)) = c * (m * (d * q))
        OBVIOUS
      <3>3. QED
        BY <3>1, <3>2
    <2>2. QED
      BY <1>2, <1>3, <1>4, <2>1
  <1>6. PICK w \in Int : w = s \div c
    BY DivMod
  <1>7. u \div c = w + v
    <2>1. (s + c * v) \div c = s \div c + v
      BY DivShift
    <2>2. QED
      BY <1>5, <1>6, <2>1
  <1>8. u \div c = w + 2^n * p
    BY <1>2, <1>4, <1>7
  <1>9. Low(w + 2^n * p, n) = Low(w, n)
    BY LowShift
  <1>10. QED
    BY <1>1, <1>6, <1>8, <1>9

LEMMA ShiftArithmetic ==
    ASSUME NEW a \in Word, NEW b \in Word
    PROVE  alu("SRA", a, b) = rtl("SRA", a, b) /\ rtl("SRA", a, b) \in Word
  <1>1. a \in Int /\ b \in Nat
    BY Powers DEF Word
  <1>2. PICK s \in Int : s = Signed(a, XLEN)
    BY <1>1, SignedTyped, Widths
  <1>3. PICK u \in Int, q \in Int : u = Low(s, 2 * XLEN) /\ s = 2^(2 * XLEN) * q + u
    <2>1. 2^(2 * XLEN) \in Nat \ {0} /\ Low(s, 2 * XLEN) \in 0 .. 2^(2 * XLEN) - 1
      BY LowTyped, Widths, Positive
    <2>2. Low(s, 2 * XLEN) \in Int
      BY <2>1
    <2>3. \E q \in Int : s = 2^(2 * XLEN) * q + Low(s, 2 * XLEN)
      BY LowTyped, Widths
    <2>4. QED
      BY <2>2, <2>3
  <1>4. PICK p \in Int : p = -q
    OBVIOUS
  <1>5. u = s + (2^XLEN * 2^XLEN) * p
    <2>1. PICK m \in Int : m = 2^(2 * XLEN) /\ m = 2^XLEN * 2^XLEN
      BY Powers
    <2>2. s = m * q + u
      BY <1>3, <2>1
    <2>3. u = s + m * p
      BY <1>4, <2>2
    <2>4. QED
      BY <2>1, <2>3
  <1>6. Low(u \div 2^(b % XLEN), XLEN) = Low(s \div 2^(b % XLEN), XLEN)
    <2>1. XLEN \in Nat \ {0}
      BY Widths
    <2>2. QED
      BY <1>1, <1>5, <2>1, ShiftRight
  <1>7. alu("SRA", a, b) = Low(u \div 2^(b % XLEN), XLEN)
    BY <1>2, <1>3 DEF alu
  <1>8. rtl("SRA", a, b) = Low(s \div 2^(b % XLEN), XLEN)
    BY <1>2 DEF rtl
  <1>9. s \div 2^(b % XLEN) \in Int
    BY <1>1, Factor, Widths, DivMod
  <1>10. QED
    BY <1>6, <1>7, <1>8, <1>9, LowTyped, Widths DEF Word

LEMMA ShiftArithmeticWord ==
    ASSUME NEW a \in Word, NEW b \in Word
    PROVE  alu("SRAW", a, b) = rtl("SRAW", a, b) /\ rtl("SRAW", a, b) \in Word
  <1>1. a \in Int /\ b \in Nat
    BY Powers DEF Word
  <1>2. PICK s \in Int : s = Signed(a, WLEN) /\ s \in -(2^(WLEN - 1)) .. 2^(WLEN - 1) - 1
    BY <1>1, SignedTyped, Widths
  <1>3. PICK u \in Int, q \in Int : u = Low(s, XLEN) /\ s = 2^XLEN * q + u
    <2>1. 2^XLEN \in Nat \ {0} /\ Low(s, XLEN) \in 0 .. 2^XLEN - 1
      BY LowTyped, Widths, Positive
    <2>2. Low(s, XLEN) \in Int
      BY <2>1
    <2>3. \E q \in Int : s = 2^XLEN * q + Low(s, XLEN)
      BY LowTyped, Widths
    <2>4. QED
      BY <2>2, <2>3
  <1>4. PICK p \in Int : p = -q
    OBVIOUS
  <1>5. u = s + (2^WLEN * 2^WLEN) * p
    <2>1. PICK m \in Int : m = 2^XLEN /\ m = 2^WLEN * 2^WLEN
      BY Powers
    <2>2. s = m * q + u
      BY <1>3, <2>1
    <2>3. u = s + m * p
      BY <1>4, <2>2
    <2>4. QED
      BY <2>1, <2>3
  <1>6. Low(u \div 2^(b % WLEN), WLEN) = Low(s \div 2^(b % WLEN), WLEN)
    <2>1. WLEN \in Nat \ {0}
      BY Widths
    <2>2. QED
      BY <1>1, <1>5, <2>1, ShiftRight
  <1>7. alu("SRAW", a, b) = Sext(u \div 2^(b % WLEN), WLEN)
    <2>1. alu("SRAW", a, b) = sraw(a, b)
      BY DEF alu
    <2>2. u = Sext(a, WLEN)
      BY <1>2, <1>3 DEF Sext
    <2>3. QED
      BY <2>1, <2>2 DEF sraw
  <1>8. rtl("SRAW", a, b) = Low(s \div 2^(b % WLEN), XLEN)
    BY <1>2 DEF rtl
  <1>9. PICK v \in Int : v = s \div 2^(b % WLEN) /\ v \in -(2^(WLEN - 1)) .. 2^(WLEN - 1) - 1
    <2>1. PICK c \in Nat \ {0} : c = 2^(b % WLEN)
      BY <1>1, Factor, Widths
    <2>2. PICK h \in Nat : h = 2^(WLEN - 1)
      BY Powers
    <2>3. -h <= s /\ s < h
      BY <1>2, <2>2
    <2>4. s \div c \in Int /\ -h <= s \div c /\ s \div c < h
      BY <2>3, DivMod, DivBounds
    <2>5. QED
      BY <2>1, <2>2, <2>4
  <1>10. Sext(u \div 2^(b % WLEN), WLEN) = Sext(v, WLEN)
    BY <1>6, <1>9, SextSame
  <1>11. Signed(v, WLEN) = v
    BY <1>9, SignedSmall, Widths
  <1>12. Sext(v, WLEN) = Low(v, XLEN)
    BY <1>11 DEF Sext
  <1>13. Low(v, XLEN) \in Word
    BY LowTyped, Widths DEF Word
  <1>14. QED
    BY <1>7, <1>8, <1>9, <1>10, <1>12, <1>13

LEMMA ShiftLeftWord ==
    ASSUME NEW a \in Word, NEW b \in Word
    PROVE  alu("SLLW", a, b) = rtl("SLLW", a, b) /\ rtl("SLLW", a, b) \in Word
  <1>1. a \in Int /\ b \in Nat
    BY Powers DEF Word
  <1>2. PICK c \in Nat \ {0} : c = 2^(b % WLEN)
    BY <1>1, Factor, Widths
  <1>3. PICK r \in Int : r = Low(a, WLEN)
    <2>1. 2^WLEN \in Nat \ {0} /\ Low(a, WLEN) \in 0 .. 2^WLEN - 1
      BY <1>1, LowTyped, Widths, Positive
    <2>2. QED
      BY <2>1
  <1>4. PICK q \in Int : a = 2^WLEN * q + r
    BY <1>1, <1>3, LowTyped, Widths
  <1>5. PICK p \in Int : p = q * c
    OBVIOUS
  <1>6. a * c = r * c + 2^WLEN * p
    <2>1. PICK m \in Int : m = 2^WLEN
      BY Powers
    <2>2. a = m * q + r
      BY <1>4, <2>1
    <2>3. (m * q + r) * c = r * c + m * (q * c)
      OBVIOUS
    <2>4. QED
      BY <1>5, <2>1, <2>2, <2>3
  <1>7. PICK y \in Int : y = r * c
    OBVIOUS
  <1>8. Low(a * c, WLEN) = Low(r * c, WLEN)
    <2>1. Low(y + 2^WLEN * p, WLEN) = Low(y, WLEN)
      BY LowShift, Widths
    <2>2. QED
      BY <1>6, <1>7, <2>1
  <1>9. alu("SLLW", a, b) = Sext(a * c, WLEN) /\ rtl("SLLW", a, b) = Sext(r * c, WLEN)
    BY <1>2, <1>3 DEF alu, rtl
  <1>10. QED
    BY <1>7, <1>8, <1>9, SextSame, SextTyped, Widths

\* The high half of a product that fits is zero.
LEMMA HighProduct ==
    ASSUME NEW op \in {"MULH", "MULHSU", "MULHU"}, NEW a \in Word, NEW b \in Word, Exact(op, a, b)
    PROVE  alu(op, a, b) = rtl(op, a, b) /\ alu(op, a, b) \in {0, 1}
  <1>1. PICK m \in Nat \ {0}, h \in Nat \ {0} : m = 2^XLEN /\ h = 2^(XLEN - 1) /\ m = 2 * h
    BY Powers
  <1>2. 2^(XLEN + 1) = 2 * m
    BY <1>1, Powers
  <1>3. a \in 0 .. m - 1 /\ b \in 0 .. m - 1
    BY <1>1 DEF Word
  <1>4. PICK y \in Nat : y = a * b
    <2>1. a \in Nat /\ b \in Nat
      BY <1>3
    <2>2. a * b \in Nat
      BY <2>1
    <2>3. QED
      BY <2>2
  <1>5. a % m = a /\ b % m = b
    BY <1>3, DivSmall
  <1>6. /\ Signed(a, XLEN) = IF a < h THEN a ELSE a - m
        /\ Signed(b, XLEN) = IF b < h THEN b ELSE b - m
    BY <1>1, <1>5 DEF Signed, Low
  <1>7. 0 \div m = 0 /\ 0 % m = 0
    BY DivSmall
  <1>8. CASE op = "MULH"
    <2>1. y < m /\ Signed(a, XLEN) >= 0 /\ Signed(b, XLEN) >= 0
      BY <1>1, <1>4, <1>8 DEF Exact
    <2>2. Signed(a, XLEN) = a /\ Signed(b, XLEN) = b
      BY <1>3, <1>6, <2>1
    <2>3. y % m = y /\ y \div m = 0
      BY <2>1, DivSmall
    <2>4. alu(op, a, b) = (y % m) \div m
      BY <1>1, <1>4, <1>8 DEF alu, Low
    <2>5. rtl(op, a, b) = (y \div m) % m
      BY <1>1, <1>4, <1>8, <2>2 DEF rtl, Low
    <2>6. QED
      BY <1>7, <2>3, <2>4, <2>5
  <1>9. CASE op = "MULHSU"
    <2>1. y < m /\ Signed(a, XLEN) >= 0
      BY <1>1, <1>4, <1>9 DEF Exact
    <2>2. y % (2 * m) = y /\ y \div m = 0
      BY <2>1, DivSmall
    <2>3. alu(op, a, b) = (y % (2 * m)) \div m
      BY <1>1, <1>2, <1>4, <1>9 DEF alu, Low
    <2>4. rtl(op, a, b) = (y \div m - 0) % m
      <3>1. mulhu(a, b) = y \div m
        BY <1>1, <1>4 DEF mulhu
      <3>2. ~(Signed(a, XLEN) < 0)
        BY <1>3, <1>6, <2>1
      <3>3. rtl(op, a, b) = Low(mulhu(a, b) - (IF Signed(a, XLEN) < 0 THEN b ELSE 0), XLEN)
        BY <1>9 DEF rtl
      <3>4. QED
        BY <1>1, <3>1, <3>2, <3>3 DEF Low
    <2>5. QED
      BY <1>7, <2>2, <2>3, <2>4
  <1>10. CASE op = "MULHU"
    <2>1. y < 2 * m
      BY <1>2, <1>4, <1>10 DEF Exact
    <2>2. y % (2 * m) = y
      BY <2>1, DivSmall
    <2>3. alu(op, a, b) = (y % (2 * m)) \div m
      BY <1>1, <1>2, <1>4, <1>10 DEF alu, Low
    <2>4. rtl(op, a, b) = y \div m
      BY <1>1, <1>4, <1>10 DEF rtl, mulhu
    <2>5. y \div m \in {0, 1}
      BY <2>1, HighBit
    <2>6. QED
      BY <2>2, <2>3, <2>4, <2>5
  <1>11. QED
    BY <1>8, <1>9, <1>10

\* Divisions of n-bit numbers that are not negative, by one that is not zero.
LEMMA Divisions ==
    ASSUME NEW n \in Nat \ {0}, NEW a \in 0 .. 2^n - 1, NEW b \in 0 .. 2^n - 1, b # 0
    PROVE  /\ UDiv(a, b) \in 0 .. 2^n - 1 /\ UMod(a, b) \in 0 .. 2^n - 1
           /\ divu(a, b, n) = UDiv(a, b) /\ remu(a, b, n) = UMod(a, b)
           /\ Signed(a, n) >= 0 /\ Signed(b, n) > 0
              => divs(a, b, n) = UDiv(a, b) /\ rems(a, b, n) = UMod(a, b)
  <1>1. PICK m \in Nat \ {0} : m = 2^n
    BY Positive
  <1>2. a \in Nat /\ b \in Nat \ {0} /\ a < m /\ b < m
    BY <1>1
  <1>3. Low(a, n) = a /\ Low(b, n) = b
    BY LowSmall
  <1>4. PICK d \in Nat, r \in Nat : d = a \div b /\ r = a % b /\ r < b /\ a = b * d + r /\ d <= a
    <2>1. a \div b \in Nat /\ a \div b <= a
      <3>1. a + 1 \in Nat /\ -(a + 1) <= a /\ a < a + 1 /\ a >= 0
        BY <1>2
      <3>2. QED
        BY <1>2, <3>1, DivBounds
    <2>2. a % b \in Nat /\ a % b < b /\ a = b * (a \div b) + (a % b)
      BY <1>2, DivMod
    <2>3. QED
      BY <2>1, <2>2
  <1>5. UDiv(a, b) = d /\ UMod(a, b) = r
    BY <1>4 DEF UDiv, UMod
  <1>6. divu(a, b, n) = d /\ remu(a, b, n) = r
    BY <1>3, <1>4 DEF divu, remu
  <1>7. ASSUME Signed(a, n) >= 0, Signed(b, n) > 0
        PROVE  divs(a, b, n) = d /\ rems(a, b, n) = r
    <2>1. PICK h \in Nat : h = 2^(n - 1) /\ m = 2 * h
      BY <1>1, Halves
    <2>2. /\ Signed(a, n) = IF a < h THEN a ELSE a - m
          /\ Signed(b, n) = IF b < h THEN b ELSE b - m
      BY <1>1, <1>3, <2>1 DEF Signed
    <2>3. Signed(a, n) = a /\ Signed(b, n) = b
      BY <1>2, <1>7, <2>2
    <2>4. Quot(a, b) = d
      BY <1>2, <1>4 DEF Quot, Abs
    <2>5. Rem(a, b) = r
      <3>1. Rem(a, b) = a - b * d
        BY <2>4 DEF Rem
      <3>2. PICK e \in Int : e = b * d
        BY <1>2
      <3>3. QED
        BY <1>2, <1>4, <3>1, <3>2
    <2>6. QED
      BY <1>3, <2>3, <2>4, <2>5 DEF divs, rems
  <1>8. d \in 0 .. m - 1 /\ r \in 0 .. m - 1
    BY <1>2, <1>4
  <1>9. QED
    BY <1>1, <1>5, <1>6, <1>7, <1>8

LEMMA Divides ==
    ASSUME NEW op \in {"DIV", "DIVU", "REM", "REMU"}, NEW a \in Word, NEW b \in Word, Exact(op, a, b)
    PROVE  alu(op, a, b) = rtl(op, a, b) /\ alu(op, a, b) \in Word
  <1>1. a \in 0 .. 2^XLEN - 1 /\ b \in 0 .. 2^XLEN - 1
    BY DEF Word
  <1>2. Low(a, XLEN) = a /\ Low(b, XLEN) = b
    BY <1>1, LowSmall, Widths
  <1>3. b # 0 /\ (op \in {"DIV", "REM"} => Signed(a, XLEN) >= 0 /\ Signed(b, XLEN) > 0)
    <2>1. Low(0, XLEN) = 0 /\ 2^(XLEN - 1) \in Nat \ {0}
      BY Powers, LowSmall, Widths
    <2>2. Signed(0, XLEN) = 0
      BY <2>1 DEF Signed
    <2>3. QED
      BY <2>2 DEF Exact
  <1>4. /\ UDiv(a, b) \in Word /\ UMod(a, b) \in Word
        /\ divu(a, b, XLEN) = UDiv(a, b) /\ remu(a, b, XLEN) = UMod(a, b)
        /\ Signed(a, XLEN) >= 0 /\ Signed(b, XLEN) > 0
           => divs(a, b, XLEN) = UDiv(a, b) /\ rems(a, b, XLEN) = UMod(a, b)
    BY <1>1, <1>3, Divisions, Widths DEF Word
  <1>5. Low(UDiv(a, b), XLEN) = UDiv(a, b) /\ Low(UMod(a, b), XLEN) = UMod(a, b)
    BY <1>4, LowSmall, Widths DEF Word
  <1>6. CASE op = "DIV"
    BY <1>3, <1>4, <1>5, <1>6 DEF alu, rtl
  <1>7. CASE op = "DIVU"
    BY <1>3, <1>4, <1>5, <1>7 DEF alu, rtl
  <1>8. CASE op = "REM"
    BY <1>3, <1>4, <1>5, <1>8 DEF alu, rtl
  <1>9. CASE op = "REMU"
    BY <1>3, <1>4, <1>5, <1>9 DEF alu, rtl
  <1>10. QED
    BY <1>6, <1>7, <1>8, <1>9

LEMMA DividesWord ==
    ASSUME NEW op \in {"DIVW", "DIVUW", "REMW", "REMUW"}, NEW a \in Word, NEW b \in Word,
           Exact(op, a, b)
    PROVE  alu(op, a, b) = rtl(op, a, b) /\ alu(op, a, b) \in Word
  <1>1. a \in Int /\ b \in Int
    BY Powers DEF Word
  <1>2. PICK c, d : c = Low(a, WLEN) /\ d = Low(b, WLEN)
    OBVIOUS
  <1>3. c \in 0 .. 2^WLEN - 1 /\ d \in 0 .. 2^WLEN - 1
    BY <1>1, <1>2, LowTyped, Widths
  <1>4. Low(c, WLEN) = c /\ Low(d, WLEN) = d
    BY <1>3, LowSmall, Widths
  <1>5. Signed(c, WLEN) = Signed(a, WLEN) /\ Signed(d, WLEN) = Signed(b, WLEN)
    BY <1>2, <1>4, SextSame
  <1>6. d # 0 /\ (op \in {"DIVW", "REMW"} => Signed(c, WLEN) >= 0 /\ Signed(d, WLEN) > 0)
    <2>1. Low(0, WLEN) = 0 /\ 2^(WLEN - 1) \in Nat \ {0}
      BY Powers, LowSmall, Widths
    <2>2. Signed(0, WLEN) = 0
      BY <2>1 DEF Signed
    <2>3. QED
      BY <1>2, <1>5, <2>2 DEF Exact
  <1>7. /\ UDiv(c, d) \in 0 .. 2^WLEN - 1 /\ UMod(c, d) \in 0 .. 2^WLEN - 1
        /\ divu(c, d, WLEN) = UDiv(c, d) /\ remu(c, d, WLEN) = UMod(c, d)
        /\ Signed(c, WLEN) >= 0 /\ Signed(d, WLEN) > 0
           => divs(c, d, WLEN) = UDiv(c, d) /\ rems(c, d, WLEN) = UMod(c, d)
    BY <1>3, <1>6, Divisions, Widths
  <1>8. /\ divs(a, b, WLEN) = divs(c, d, WLEN) /\ rems(a, b, WLEN) = rems(c, d, WLEN)
        /\ divu(a, b, WLEN) = divu(c, d, WLEN) /\ remu(a, b, WLEN) = remu(c, d, WLEN)
    BY <1>2, <1>4, <1>5 DEF divs, rems, divu, remu
  <1>9. UDiv(c, d) \in Int /\ UMod(c, d) \in Int
    BY <1>7, Powers
  <1>10. Sext(UDiv(c, d), WLEN) \in Word /\ Sext(UMod(c, d), WLEN) \in Word
    BY <1>9, SextTyped, Widths
  <1>11. CASE op \in {"DIVW", "DIVUW"}
    <2>1. alu(op, a, b) = Sext(UDiv(c, d), WLEN)
      BY <1>2, <1>11 DEF alu
    <2>2. rtl(op, a, b) = Sext(UDiv(c, d), WLEN)
      BY <1>6, <1>7, <1>8, <1>11 DEF rtl
    <2>3. QED
      BY <1>10, <2>1, <2>2
  <1>12. CASE op \in {"REMW", "REMUW"}
    <2>1. alu(op, a, b) = Sext(UMod(c, d), WLEN)
      BY <1>2, <1>12 DEF alu
    <2>2. rtl(op, a, b) = Sext(UMod(c, d), WLEN)
      BY <1>6, <1>7, <1>8, <1>12 DEF rtl
    <2>3. QED
      BY <1>10, <2>1, <2>2
  <1>13. QED
    BY <1>11, <1>12

\* The operations written the same way on both sides.
LEMMA SameFormula ==
    ASSUME NEW op \in {"ADD", "SUB", "SLL", "SRL", "MUL", "ADDW", "SUBW", "SRLW", "MULW"},
           NEW a \in Word, NEW b \in Word
    PROVE  alu(op, a, b) = rtl(op, a, b) /\ alu(op, a, b) \in Word
  <1>1. alu(op, a, b) = rtl(op, a, b)
    BY DEF alu, rtl
  <1>2. a \in Nat /\ b \in Nat
    BY Powers DEF Word
  <1>3. PICK c \in Nat \ {0} : c = 2^(b % XLEN)
    BY <1>2, Factor, Widths
  <1>4. PICK e \in Nat \ {0} : e = 2^(b % WLEN)
    BY <1>2, Factor, Widths
  <1>5. \A v \in Int : Low(v, XLEN) \in Word /\ Sext(v, WLEN) \in Word
    BY LowTyped, SextTyped, Widths DEF Word
  <1>6. a + b \in Int /\ a - b \in Int /\ a * b \in Int /\ a * c \in Int
    BY <1>2
  <1>7. CASE op \in {"ADD", "SUB", "SLL", "MUL"}
    BY <1>1, <1>3, <1>5, <1>6, <1>7 DEF alu
  <1>8. CASE op \in {"ADDW", "SUBW", "MULW"}
    BY <1>1, <1>5, <1>6, <1>8 DEF alu
  <1>9. CASE op = "SRLW"
    <2>1. a \in Int /\ WLEN \in Nat
      BY <1>2, Widths
    <2>2. Low(a, WLEN) \in Int
      <3>1. Low(a, WLEN) \in 0 .. 2^WLEN - 1
        BY <2>1, LowTyped
      <3>2. 2^WLEN \in Nat
        BY Powers
      <3>3. QED
        BY <3>1, <3>2
    <2>3. Low(a, WLEN) \div e \in Int
      BY <2>2, DivMod
    <2>4. alu(op, a, b) = Sext(Low(a, WLEN) \div e, WLEN)
      BY <1>4, <1>9 DEF alu
    <2>5. QED
      BY <1>1, <1>5, <2>3, <2>4
  <1>10. CASE op = "SRL"
    <2>1. PICK m \in Nat \ {0} : m = 2^XLEN /\ a < m
      BY Powers DEF Word
    <2>2. a \in Int /\ m \in Nat /\ -m <= a /\ a >= 0
      BY <1>2
    <2>3. a \div c \in Nat /\ a \div c < m
      <3>1. -m <= a \div c /\ a \div c < m
        BY <2>1, <2>2, DivBounds
      <3>2. a >= 0 => a \div c \in Nat
        BY <2>1, <2>2, DivBounds
      <3>3. QED
        BY <2>2, <3>1, <3>2
    <2>4. alu(op, a, b) = a \div c
      BY <1>3, <1>10 DEF alu
    <2>5. QED
      BY <1>1, <2>1, <2>3, <2>4 DEF Word
  <1>11. QED
    BY <1>7, <1>8, <1>9, <1>10

\* Where Exact holds, alu.sv and the interpreter compute the same word.
LEMMA SameResult ==
    ASSUME NEW op \in Ops, NEW a \in Word, NEW b \in Word, Exact(op, a, b)
    PROVE  alu(op, a, b) = rtl(op, a, b) /\ alu(op, a, b) \in Word
  <1>1. CASE op \in {"ADD", "SUB", "SLL", "SRL", "MUL", "ADDW", "SUBW", "SRLW", "MULW"}
    BY <1>1, SameFormula
  <1>2. CASE op \in {"SLT", "SLTU", "MULH", "MULHSU", "MULHU"}
    <2>1. {0, 1} \subseteq Word
      BY Powers DEF Word
    <2>2. CASE op \in {"SLT", "SLTU"}
      BY <2>1, <2>2, SetLess
    <2>3. CASE op \in {"MULH", "MULHSU", "MULHU"}
      BY <2>1, <2>3, HighProduct
    <2>4. QED
      BY <1>2, <2>2, <2>3
  <1>3. CASE op = "SRA"
    BY <1>3, ShiftArithmetic
  <1>4. CASE op = "SRAW"
    BY <1>4, ShiftArithmeticWord
  <1>5. CASE op = "SLLW"
    BY <1>5, ShiftLeftWord
  <1>6. CASE op \in {"DIV", "DIVU", "REM", "REMU"}
    BY <1>6, Divides
  <1>7. CASE op \in {"DIVW", "DIVUW", "REMW", "REMUW"}
    BY <1>7, DividesWord
  <1>8. QED
    BY <1>1, <1>2, <1>3, <1>4, <1>5, <1>6, <1>7 DEF Ops

\* bru.sv takes the branches that the interpreter takes.
LEMMA SameBranch ==
    ASSUME NEW op \in Branches, NEW a \in Word, NEW b \in Word, Exact(op, a, b)
    PROVE  branch(op, a, b) = interpret_relop(op, a, b)
  <1>1. PICK m \in Nat \ {0}, h \in Nat \ {0} : m = 2^XLEN /\ h = 2^(XLEN - 1) /\ m = 2 * h
    BY Powers
  <1>2. PICK v \in Nat, w \in Nat : v = Low(a - b, XLEN) /\ w = Low(a - b, XLEN + 1)
    <2>1. Low(a - b, XLEN) \in 0 .. 2 * h - 1 /\ Low(a - b, XLEN + 1) \in 0 .. 2 * m - 1
      BY <1>1, Comparisons
    <2>2. QED
      BY <2>1
  <1>3. a \in Nat /\ b \in Nat
    BY Powers DEF Word
  <1>4. Signed(a, XLEN) \in Int /\ Signed(b, XLEN) \in Int
    BY <1>3, SignedTyped, Widths
  <1>5. (v = 0 <=> a = b) /\ (w >= m <=> a < b)
    BY <1>1, <1>2, Comparisons
  <1>6. CASE op = "BEQ"
    BY <1>2, <1>5, <1>6 DEF branch, interpret_relop
  <1>7. CASE op = "BNE"
    BY <1>2, <1>5, <1>7 DEF branch, interpret_relop
  <1>8. op \in {"BLT", "BGE"} => (v >= h <=> Signed(a, XLEN) < Signed(b, XLEN))
    <2>1. op \in {"BLT", "BGE"}
          => Signed(a, XLEN) - Signed(b, XLEN) \in -(2^(XLEN - 1)) .. 2^(XLEN - 1) - 1
      BY DEF Exact
    <2>2. QED
      BY <1>1, <1>2, <2>1, Comparisons
  <1>9. CASE op = "BLT"
    BY <1>1, <1>2, <1>8, <1>9 DEF branch, interpret_relop
  <1>10. CASE op = "BGE"
    BY <1>1, <1>2, <1>4, <1>8, <1>10 DEF branch, interpret_relop
  <1>11. CASE op = "BLTU"
    BY <1>1, <1>2, <1>5, <1>11 DEF branch, interpret_relop
  <1>12. CASE op = "BGEU"
    BY <1>1, <1>2, <1>3, <1>5, <1>12 DEF branch, interpret_relop
  <1>13. QED
    BY <1>6, <1>7, <1>9, <1>10, <1>11, <1>12 DEF Branches

----------------------------------------------------------------------------
(* The lanes of loads and stores.                                           *)

\* The weight of byte i in a doubleword.
LEMMA Weights ==
    /\ \A i \in Nat : 2^(ByteBits * i) \in Nat \ {0}
    /\ \A i \in Nat : 2^(ByteBits * (i + 1)) = 2^ByteBits * 2^(ByteBits * i)
    /\ 2^(ByteBits * 0) = 1 /\ 2^(ByteBits * 8) = 2^XLEN /\ 2^ByteBits \in Nat \ {0}
  <1>1. \A i \in Nat : ByteBits * i \in Nat
    BY DatapathAssumption
  <1>2. \A i \in Nat : 2^(ByteBits * i) \in Nat \ {0}
    BY <1>1, Positive
  <1>3. ASSUME NEW i \in Nat PROVE 2^(ByteBits * (i + 1)) = 2^ByteBits * 2^(ByteBits * i)
    <2>1. PICK j \in Nat, b \in Nat : j = ByteBits * i /\ b = ByteBits
      BY <1>1, DatapathAssumption
    <2>2. ByteBits * (i + 1) = b + j
      BY <2>1
    <2>3. 2^(b + j) = 2^b * 2^j
      BY PowerSum
    <2>4. QED
      BY <2>1, <2>2, <2>3
  <1>4. 2^(ByteBits * 0) = 1
    <2>1. ByteBits * 0 = 0
      BY DatapathAssumption
    <2>2. QED
      BY <2>1, One
  <1>5. 2^(ByteBits * 8) = 2^XLEN
    <2>1. ByteBits * 8 = XLEN
      BY DatapathAssumption DEF XLEN
    <2>2. QED
      BY <2>1
  <1>6. QED
    BY <1>2, <1>3, <1>4, <1>5, DatapathAssumption, Positive

\* The contribution of one byte to the number.
Part(f, n, i) == IF i < n THEN f[i] * 2^(ByteBits * i) ELSE 0

LEMMA Parts ==
    ASSUME NEW f, NEW n
    PROVE  FromBytes(f, n) = Part(f, n, 0) + Part(f, n, 1) + Part(f, n, 2) + Part(f, n, 3)
                           + Part(f, n, 4) + Part(f, n, 5) + Part(f, n, 6) + Part(f, n, 7)
  BY DEF FromBytes, Part

LEMMA PartTyped ==
    ASSUME NEW f, NEW n \in Nat, NEW i \in Nat, i < n, f[i] \in Byte
    PROVE  /\ Part(f, n, i) \in Nat
           /\ Part(f, n, i) <= 2^(ByteBits * (i + 1)) - 2^(ByteBits * i)
  <1>1. PICK k \in Nat \ {0}, p \in Nat \ {0} :
           k = 2^ByteBits /\ p = 2^(ByteBits * i) /\ 2^(ByteBits * (i + 1)) = k * p
    BY Weights
  <1>2. PICK v \in Nat : v = f[i] /\ v <= k - 1
    BY <1>1 DEF Byte
  <1>3. Part(f, n, i) = v * p
    BY <1>1, <1>2 DEF Part
  <1>4. v * p \in Nat /\ v * p <= (k - 1) * p
    BY <1>2
  <1>5. (k - 1) * p = k * p - p
    OBVIOUS
  <1>6. QED
    BY <1>1, <1>3, <1>4, <1>5

\* The number that n bytes make is below 2^(8 * n) of them.
LEMMA FromBytesTyped ==
    ASSUME NEW n \in Sizes, NEW f, \A i \in 0 .. n - 1 : f[i] \in Byte
    PROVE  FromBytes(f, n) \in 0 .. 2^(ByteBits * n) - 1
  <1>1. n \in {1, 2, 4, 8}
    BY DEF Sizes
  <1>2. \A i \in 0 .. 7 : i < n => /\ Part(f, n, i) \in Nat
                                   /\ Part(f, n, i) <= 2^(ByteBits * (i + 1)) - 2^(ByteBits * i)
    BY <1>1, PartTyped
  <1>3. \A i \in 0 .. 7 : ~(i < n) => Part(f, n, i) = 0
    BY DEF Part
  <1>4. PICK w : w = [i \in 0 .. 8 |-> 2^(ByteBits * i)]
    OBVIOUS
  <1>5. \A i \in 0 .. 8 : w[i] \in Nat
    BY <1>4, Weights
  <1>6. \A i \in 0 .. 7 : i < n => /\ Part(f, n, i) \in Nat
                                   /\ Part(f, n, i) <= w[i + 1] - w[i]
    BY <1>2, <1>4
  <1>7. w[0] = 1 /\ w[n] = 2^(ByteBits * n)
    BY <1>1, <1>4, Weights
  <1>8. PICK t : t = [i \in 0 .. 7 |-> Part(f, n, i)]
    OBVIOUS
  <1>9. FromBytes(f, n) = t[0] + t[1] + t[2] + t[3] + t[4] + t[5] + t[6] + t[7]
    BY <1>8, Parts
  <1>10. \A i \in 0 .. 7 : i < n => t[i] \in Nat /\ t[i] <= w[i + 1] - w[i]
    BY <1>6, <1>8
  <1>11. \A i \in 0 .. 7 : ~(i < n) => t[i] = 0
    BY <1>3, <1>8
  <1>12. CASE n = 1
    BY <1>5, <1>7, <1>9, <1>10, <1>11, <1>12
  <1>13. CASE n = 2
    BY <1>5, <1>7, <1>9, <1>10, <1>11, <1>13
  <1>14. CASE n = 4
    BY <1>5, <1>7, <1>9, <1>10, <1>11, <1>14
  <1>15. CASE n = 8
    BY <1>5, <1>7, <1>9, <1>10, <1>11, <1>15
  <1>16. QED
    BY <1>1, <1>12, <1>13, <1>14, <1>15

\* Bytes that are zero above the first n add nothing.
LEMMA FromBytesSame ==
    ASSUME NEW n \in Sizes, NEW f, NEW g, \A i \in 0 .. n - 1 : f[i] = g[i],
           \A i \in 0 .. 7 : ~(i < n) => f[i] = 0
    PROVE  FromBytes(f, 8) = FromBytes(g, n)
  <1>1. n \in {1, 2, 4, 8}
    BY DEF Sizes
  <1>2. ASSUME NEW i \in 0 .. 7 PROVE Part(f, 8, i) = Part(g, n, i)
    <2>1. CASE i < n
      BY <1>1, <2>1 DEF Part
    <2>2. CASE ~(i < n)
      <3>1. PICK p \in Nat : p = 2^(ByteBits * i)
        BY Weights
      <3>2. Part(f, 8, i) = 0 * p
        BY <2>2, <3>1 DEF Part
      <3>3. QED
        BY <2>2, <3>2 DEF Part
    <2>3. QED
      BY <2>1, <2>2
  <1>3. QED
    BY <1>2, Parts

\* A load gives the number NEMU gives, from one beat or from two.
LEMMA SameLoad ==
    ASSUME NEW m \in [Lane -> Byte], NEW n \in Sizes, NEW s \in Lane, NEW unsigned \in BOOLEAN
    PROVE  /\ o_ld_data(m, n, s, unsigned) = rtl_load(m, n, s, unsigned)
           /\ rtl_load(m, n, s, unsigned) \in Word
  <1>1. n \in {1, 2, 4, 8} /\ s \in 0 .. 7
    BY DEF Sizes, Lane
  <1>2. PICK f, g : /\ f = data_read(m, n, s)
                    /\ g = [i \in 0 .. n - 1 |-> IF s + i \in Lane THEN m[s + i] ELSE AboveMem[s + i - 8]]
    OBVIOUS
  <1>3. ASSUME NEW i \in 0 .. 7
        PROVE  f[i] = (IF i + s \in (s .. s + n - 1) \cap Lane THEN m[i + s] ELSE 0)
                    + (IF s + n - 1 > 7 /\ i + s - 8 \in Lane /\ i + s \in s .. s + n - 1
                       THEN AboveMem[i + s - 8] ELSE 0)
    BY <1>2 DEF data_read, Lane
  <1>4. \A i \in Lane : m[i] \in Int /\ AboveMem[i] \in Int
    BY DatapathAssumption, Weights DEF Byte
  <1>5. ASSUME NEW i \in 0 .. n - 1 PROVE f[i] = g[i] /\ g[i] \in Byte
    <2>1. i \in 0 .. 7 /\ i + s \in s .. s + n - 1
      BY <1>1
    <2>2. CASE i + s <= 7
      <3>1. i + s \in Lane /\ i + s - 8 \notin Lane /\ s + i = i + s
        BY <1>1, <2>1, <2>2 DEF Lane
      <3>2. f[i] = m[i + s] + 0
        BY <1>3, <2>1, <3>1
      <3>3. g[i] = m[i + s]
        BY <1>2, <3>1
      <3>4. QED
        BY <1>4, <3>1, <3>2, <3>3
    <2>3. CASE ~(i + s <= 7)
      <3>1. i + s \notin Lane /\ i + s - 8 \in Lane /\ s + n - 1 > 7
            /\ s + i = i + s /\ s + i - 8 = i + s - 8
        BY <1>1, <2>1, <2>3 DEF Lane
      <3>2. f[i] = 0 + AboveMem[i + s - 8]
        BY <1>3, <2>1, <3>1
      <3>3. g[i] = AboveMem[i + s - 8]
        BY <1>2, <3>1
      <3>4. QED
        BY <1>4, <3>1, <3>2, <3>3, DatapathAssumption
    <2>4. QED
      BY <2>2, <2>3
  <1>6. ASSUME NEW i \in 0 .. 7, ~(i < n) PROVE f[i] = 0
    <2>1. i + s \notin s .. s + n - 1
      BY <1>1, <1>6
    <2>2. QED
      BY <1>3, <2>1
  <1>7. PICK v : v = FromBytes(f, 8)
    OBVIOUS
  <1>8. v = FromBytes(g, n) /\ v \in 0 .. 2^(ByteBits * n) - 1
    BY <1>5, <1>6, <1>7, FromBytesSame, FromBytesTyped
  <1>9. PICK k \in Nat \ {0} : k = n * ByteBits /\ k = ByteBits * n
    BY <1>1, DatapathAssumption
  <1>10. o_ld_data(m, n, s, unsigned) = IF unsigned THEN Low(v, k) ELSE Sext(v, k)
    BY <1>2, <1>7, <1>9 DEF o_ld_data
  <1>11. rtl_load(m, n, s, unsigned) = IF unsigned THEN v ELSE Sext(v, k)
    BY <1>2, <1>8, <1>9 DEF rtl_load
  <1>12. Low(v, k) = v
    BY <1>8, <1>9, LowSmall
  <1>13. v \in Word /\ v \in Int
    <2>1. PICK p \in Nat \ {0}, d \in Nat : p = 2^k /\ d = XLEN - k
      <3>1. k <= XLEN
        <4>1. k = 1 * ByteBits \/ k = 2 * ByteBits \/ k = 4 * ByteBits \/ k = 8 * ByteBits
          BY <1>1, <1>9
        <4>2. QED
          BY <4>1, DatapathAssumption DEF XLEN
      <3>2. XLEN - k \in Nat
        BY <3>1, Widths
      <3>3. QED
        BY <3>2, Positive
    <2>2. 2^(k + d) = 2^k * 2^d /\ 2^d \in Nat \ {0} /\ k + d = XLEN
      BY <2>1, PowerSum, Positive, Widths
    <2>3. PICK e \in Nat \ {0} : e = 2^d /\ 2^XLEN = p * e
      BY <2>1, <2>2
    <2>4. p <= p * e
      OBVIOUS
    <2>5. v \in 0 .. p - 1
      BY <1>8, <1>9, <2>1
    <2>6. QED
      BY <2>3, <2>4, <2>5 DEF Word
  <1>14. Sext(v, k) \in Word
    BY <1>13, SextTyped
  <1>15. QED
    BY <1>10, <1>11, <1>12, <1>13, <1>14

\* An aligned store drives the lanes that NEMU writes.
LEMMA SameStore ==
    ASSUME NEW m \in [Lane -> Byte], NEW n \in Sizes, NEW s \in Lane, s + n <= 8, s % n = 0,
           NEW v \in Word
    PROVE  /\ lsu_store(m, n, s, v) = host_write(m, n, s, v)
           /\ host_write(m, n, s, v) \in [Lane -> Byte]
  <1>1. n \in {1, 2, 4, 8} /\ s \in 0 .. 7
    BY DEF Sizes, Lane
  <1>2. wmask(n, s) = s .. s + n - 1
    <2>1. CASE n = 1
      BY <1>1, <2>1 DEF wmask
    <2>2. CASE n = 2
      <3>1. s \in {0, 2, 4, 6}
        BY <1>1, <2>2
      <3>2. QED
        BY <2>2, <3>1 DEF wmask
    <2>3. CASE n = 4
      <3>1. s \in {0, 4}
        BY <1>1, <2>3
      <3>2. QED
        BY <2>3, <3>1 DEF wmask
    <2>4. CASE n = 8
      <3>1. s = 0
        BY <1>1, <2>4
      <3>2. QED
        BY <2>4, <3>1 DEF wmask, Lane
    <2>5. QED
      BY <1>1, <2>1, <2>2, <2>3, <2>4
  <1>3. ASSUME NEW i \in s .. s + n - 1
        PROVE  mem_wdata(n, s, v, i) = ByteOf(v, i - s) /\ ByteOf(v, i - s) \in Byte
    <2>1. n = 8 => s = 0 /\ i - s = i
      BY <1>1
    <2>2. mem_wdata(n, s, v, i) = ByteOf(v, i - s)
      BY <2>1 DEF mem_wdata
    <2>3. ByteOf(v, i - s) \in Byte
      <3>1. i - s \in Nat
        BY <1>1
      <3>2. PICK p \in Nat \ {0}, k \in Nat \ {0} : p = 2^(ByteBits * (i - s)) /\ k = 2^ByteBits
        BY <3>1, Weights
      <3>3. v \in Int
        BY Powers DEF Word
      <3>4. v \div p \in Int
        BY <3>3, DivMod
      <3>5. (v \div p) % k \in 0 .. k - 1
        BY <3>4, DivMod
      <3>6. QED
        BY <3>2, <3>5 DEF ByteOf, Byte
    <2>4. QED
      BY <2>2, <2>3
  <1>4. lsu_store(m, n, s, v) = host_write(m, n, s, v)
    BY <1>2, <1>3 DEF lsu_store, host_write
  <1>5. host_write(m, n, s, v) \in [Lane -> Byte]
    BY <1>3 DEF host_write
  <1>6. QED
    BY <1>4, <1>5

----------------------------------------------------------------------------
(* The theorems.                                                            *)

\* Both sides hold the same, and what they hold are words and bytes.
SameInv ==
    /\ x \in Word /\ nx = x
    /\ ram \in [Lane -> Byte] /\ nram = ram

LEMMA ExecuteSame ==
    ASSUME SameInv, ~AnyOperand, NEW op \in Ops, NEW b \in Operands, Execute(op, b)
    PROVE  SameInv'
  <1>1. x \in Word /\ nx = x /\ b \in Word
    BY DatapathAssumption DEF SameInv
  <1>2. Exact(op, x, b)
    BY DEF Execute, Occurs
  <1>3. alu(op, x, b) = rtl(op, x, b) /\ alu(op, x, b) \in Word
    BY <1>1, <1>2, SameResult
  <1>4. x' = alu(op, x, b) /\ nx' = rtl(op, nx, b) /\ ram' = ram /\ nram' = nram
    BY DEF Execute
  <1>5. QED
    BY <1>1, <1>3, <1>4 DEF SameInv

LEMMA StoreSame ==
    ASSUME SameInv, ~AnyAddress, NEW n \in Sizes, NEW s \in Lane, Store(n, s)
    PROVE  SameInv'
  <1>1. x \in Word /\ nx = x /\ ram \in [Lane -> Byte] /\ nram = ram
    BY DEF SameInv
  <1>2. s + n <= 8 /\ s % n = 0
    BY DEF Store
  <1>3. /\ lsu_store(ram, n, s, x) = host_write(ram, n, s, x)
        /\ host_write(ram, n, s, x) \in [Lane -> Byte]
    BY <1>1, <1>2, SameStore
  <1>4. /\ ram' = lsu_store(ram, n, s, x) /\ nram' = host_write(nram, n, s, nx)
        /\ x' = x /\ nx' = nx
    BY DEF Store
  <1>5. QED
    BY <1>1, <1>3, <1>4 DEF SameInv

LEMMA LoadSame ==
    ASSUME SameInv, NEW n \in Sizes, NEW s \in Lane, NEW unsigned \in BOOLEAN, Load(n, s, unsigned)
    PROVE  SameInv'
  <1>1. x \in Word /\ nx = x /\ ram \in [Lane -> Byte] /\ nram = ram
    BY DEF SameInv
  <1>2. /\ o_ld_data(ram, n, s, unsigned) = rtl_load(ram, n, s, unsigned)
        /\ rtl_load(ram, n, s, unsigned) \in Word
    BY <1>1, SameLoad
  <1>3. /\ x' = o_ld_data(ram, n, s, unsigned) /\ nx' = rtl_load(nram, n, s, unsigned)
        /\ ram' = ram /\ nram' = nram
    BY DEF Load
  <1>4. QED
    BY <1>1, <1>2, <1>3 DEF SameInv

LEMMA SameAlways ==
    ASSUME ~AnyOperand, ~AnyAddress
    PROVE  Spec => []SameInv
  <1>1. Init => SameInv
    <2>1. 0 \in Word /\ 0 \in Byte
      BY Powers, Weights DEF Word, Byte
    <2>2. QED
      BY <2>1 DEF Init, SameInv
  <1>2. SameInv /\ [Next]_vars => SameInv'
    <2> SUFFICES ASSUME SameInv, [Next]_vars PROVE SameInv'
      OBVIOUS
    <2>1. ASSUME NEW op \in Ops, NEW b \in Operands, Execute(op, b) PROVE SameInv'
      BY <2>1, ExecuteSame
    <2>2. ASSUME NEW n \in Sizes, NEW s \in Lane, Store(n, s) PROVE SameInv'
      BY <2>2, StoreSame
    <2>3. ASSUME NEW n \in Sizes, NEW s \in Lane, NEW unsigned \in BOOLEAN, Load(n, s, unsigned)
          PROVE  SameInv'
      BY <2>3, LoadSame
    <2>4. CASE UNCHANGED vars
      BY <2>4 DEF SameInv, vars
    <2>5. QED
      BY <2>1, <2>2, <2>3, <2>4 DEF Next
  <1>3. QED
    BY <1>1, <1>2, PTL DEF Spec

\* A program of instructions with operands for which alu.sv is exact, aligned
\* stores and any loads gives NEMU's results, for bytes of any size.
THEOREM ResultsCorrect ==
    ASSUME ~AnyOperand, ~AnyAddress
    PROVE  Spec => []ResultsAgree
  <1>1. SameInv => ResultsAgree
    BY DEF SameInv, ResultsAgree
  <1>2. QED
    BY <1>1, SameAlways, PTL

\* bru.sv takes the branches NEMU takes, where the difference of the operands of
\* a signed comparison does not overflow.
THEOREM BranchesCorrect ==
    ASSUME ~AnyOperand, ~AnyAddress
    PROVE  Spec => []BranchesAgree
  <1>1. SameInv => BranchesAgree
    <2> SUFFICES ASSUME SameInv, NEW op \in Branches, NEW b \in Operands, Occurs(op, b)
                 PROVE  branch(op, x, b) = interpret_relop(op, nx, b)
      BY DEF BranchesAgree
    <2>1. x \in Word /\ nx = x /\ b \in Word
      BY DatapathAssumption DEF SameInv
    <2>2. Exact(op, x, b)
      BY DEF Occurs
    <2>3. QED
      BY <2>1, <2>2, SameBranch
  <1>2. QED
    BY <1>1, SameAlways, PTL

=============================================================================
