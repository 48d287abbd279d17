------------------------- MODULE HistoryCodecProofs -------------------------
(***************************************************************************)
(* The timestamp column of a block, for any number of rows, any bytes and  *)
(* integers of any width.  The functions of HistoryCodec recurse: that     *)
(* they exist, and what they compute, is proved by induction over numbers. *)
(***************************************************************************)
EXTENDS MCHistoryQuery, SequenceTheorems, WellFoundedInduction, TLAPS

-----------------------------------------------------------------------------
(***************************************************************************)
(* Induction and recursive functions.                                      *)
(***************************************************************************)

\* A set of numbers that has some has a least one.
LEMMA LeastOf ==
  ASSUME NEW S \in SUBSET Nat, S # {}
  PROVE  \E x \in S : \A y \in S : x <= y
<1> DEFINE R == {ss \in Nat \X Nat : ss[1] < ss[2]}
<1>1. IsWellFoundedOn(R, Nat)
  BY NatLessThanWellFounded DEF OpToRel
<1>2. \A x, y \in Nat : <<y, x>> \in R <=> y < x
  OBVIOUS
<1> HIDE DEF R
<1>3. PICK x \in S : \A y \in S : ~ (<<y, x>> \in R)
  BY <1>1, WFMin
<1>4. \A y \in S : x \in Nat /\ y \in Nat /\ ~(y < x)
  BY <1>2, <1>3
<1> QED BY <1>4

\* Induction over a set of numbers.
LEMMA Induction ==
  ASSUME NEW S, 0 \in S, \A n \in Nat : n \in S => n + 1 \in S
  PROVE  Nat \subseteq S
<1> DEFINE B == Nat \ S
<1>1. SUFFICES ASSUME B # {} PROVE FALSE
  OBVIOUS
<1>2. PICK x \in B : \A y \in B : x <= y
  BY <1>1, LeastOf
<1>3. x \in Nat /\ x # 0 /\ x \notin S
  OBVIOUS
<1>4. x - 1 \in Nat /\ ~(x <= x - 1)
  BY <1>3
<1>5. x - 1 \in S
  BY <1>2, <1>4
<1>6. (x - 1) + 1 \in S
  BY <1>4, <1>5
<1> QED BY <1>3, <1>6

\* The same from all smaller numbers.
LEMMA StrongInduction ==
  ASSUME NEW S, \A n \in Nat : (\A m \in Nat : m < n => m \in S) => n \in S
  PROVE  Nat \subseteq S
<1> DEFINE B == Nat \ S
<1>1. SUFFICES ASSUME B # {} PROVE FALSE
  OBVIOUS
<1>2. PICK x \in B : \A y \in B : x <= y
  BY <1>1, LeastOf
<1>3. \A y \in Nat : y < x => y \in S
  <2> SUFFICES ASSUME NEW y \in Nat, y < x, y \in B PROVE FALSE
    OBVIOUS
  <2> QED BY <1>2
<1> QED BY <1>2, <1>3

\* A function of numbers that is given below m and from there on computed from its
\* value at a smaller number, and that there is one.
IsRecursive(f, T, a, m, d, h) ==
  /\ f \in [Nat -> T]
  /\ \A i \in Nat : f[i] = IF i < m THEN a[i] ELSE h[<<i, f[d[i]]>>]

LEMMA Recursion ==
  ASSUME NEW T, NEW a \in [Nat -> T], NEW m \in Nat, m > 0, NEW d \in [Nat -> Nat],
         NEW h \in [Nat \X T -> T],
         \A i \in Nat : i >= m => d[i] < i
  PROVE  \E f : IsRecursive(f, T, a, m, d, h)
<1> DEFINE Good(n, g) ==
             /\ g \in [0 .. n -> T]
             /\ \A i \in 0 .. n : g[i] = IF i < m THEN a[i] ELSE h[<<i, g[d[i]]>>]
<1>1. ASSUME NEW n \in Nat, NEW k \in Nat, NEW g, NEW e, Good(n, g), Good(k, e),
             NEW i \in Nat, i <= n, i <= k
      PROVE  g[i] = e[i]
  <2> DEFINE S == {j \in Nat : j <= n /\ j <= k /\ g[j] # e[j]}
  <2>1. SUFFICES ASSUME S # {} PROVE FALSE
    BY <1>1
  <2>2. PICK j \in S : \A l \in S : j <= l
    BY <2>1, LeastOf
  <2>3. j \in Nat /\ j \in 0 .. n /\ j \in 0 .. k /\ g[j] # e[j]
    BY <1>1
  <2>4. CASE j < m
    BY <1>1, <2>3, <2>4
  <2>5. CASE j >= m
    <3>1. d[j] < j /\ d[j] \in Nat
      BY <2>3, <2>5
    <3>2. d[j] \notin S
      BY <2>2, <2>3, <3>1
    <3>3. g[d[j]] = e[d[j]]
      BY <2>3, <3>1, <3>2
    <3>4. ~(j < m)
      BY <2>3, <2>5
    <3> QED BY <1>1, <2>3, <3>3, <3>4
  <2> QED BY <2>3, <2>4, <2>5
<1>2. \A n \in Nat : \E g : Good(n, g)
  <2> DEFINE S == {n \in Nat : \E g : Good(n, g)}
  <2>1. 0 \in S
    <3> DEFINE g == [i \in 0 .. 0 |-> a[0]]
    <3>1. 0 < m /\ a[0] \in T
      OBVIOUS
    <3>2. Good(0, g)
      BY <3>1
    <3> QED BY <3>2
  <2>2. ASSUME NEW n \in Nat, n \in S PROVE n + 1 \in S
    <3>1. PICK g : Good(n, g)
      BY <2>2
    <3> DEFINE v == IF n + 1 < m THEN a[n + 1] ELSE h[<<n + 1, g[d[n + 1]]>>]
               e == [i \in 0 .. n + 1 |-> IF i = n + 1 THEN v ELSE g[i]]
    <3>2. v \in T
      <4>1. CASE n + 1 < m
        BY <4>1
      <4>2. CASE ~(n + 1 < m)
        <5>1. d[n + 1] \in 0 .. n
          <6>1. d[n + 1] < n + 1 /\ d[n + 1] \in Nat
            BY <4>2
          <6> QED BY <6>1
        <5>2. g[d[n + 1]] \in T
          BY <3>1, <5>1
        <5> QED BY <4>2, <5>2
      <4> QED BY <4>1, <4>2
    <3> HIDE DEF v
    <3>3. e \in [0 .. n + 1 -> T]
      <4>1. \A i \in 0 .. n + 1 : i = n + 1 \/ i \in 0 .. n
        OBVIOUS
      <4> QED BY <3>1, <3>2, <4>1
    <3>4. \A i \in 0 .. n : e[i] = g[i]
      OBVIOUS
    <3>5. e[n + 1] = v
      OBVIOUS
    <3> HIDE DEF e
    <3>6. ASSUME NEW i \in 0 .. n + 1
          PROVE  e[i] = IF i < m THEN a[i] ELSE h[<<i, e[d[i]]>>]
      <4>1. i >= m => d[i] \in 0 .. n
        <5>1. i >= m => d[i] < i /\ d[i] \in Nat /\ i <= n + 1
          OBVIOUS
        <5> QED BY <5>1
      <4>2. CASE i = n + 1
        <5>1. v = IF i < m THEN a[i] ELSE h[<<i, g[d[i]]>>]
          BY <4>2 DEF v
        <5>2. ~(i < m) => e[d[i]] = g[d[i]]
          BY <3>4, <4>1
        <5>3. e[i] = v
          BY <3>5, <4>2
        <5> QED BY <5>1, <5>2, <5>3
      <4>3. CASE i \in 0 .. n
        <5>1. g[i] = IF i < m THEN a[i] ELSE h[<<i, g[d[i]]>>]
          BY <3>1, <4>3
        <5>2. ~(i < m) => e[d[i]] = g[d[i]]
          BY <3>4, <4>1
        <5>3. e[i] = g[i]
          BY <3>4, <4>3
        <5> QED BY <5>1, <5>2, <5>3
      <4> QED BY <4>2, <4>3
    <3>7. Good(n + 1, e)
      BY <3>3, <3>6
    <3> HIDE DEF Good
    <3> QED BY <3>7
  <2> HIDE DEF S
  <2>3. Nat \subseteq S
    BY <2>1, <2>2, Induction
  <2> QED BY <2>3 DEF S
<1> DEFINE G(n) == CHOOSE g : Good(n, g)
           f == [n \in Nat |-> G(n)[n]]
<1>3. \A n \in Nat : Good(n, G(n))
  <2> HIDE DEF Good
  <2> QED BY <1>2
<1> HIDE DEF G
<1>4. f \in [Nat -> T]
  <2>1. \A n \in Nat : G(n)[n] \in T
    BY <1>3
  <2> QED BY <2>1
<1>5. ASSUME NEW i \in Nat
      PROVE  f[i] = IF i < m THEN a[i] ELSE h[<<i, f[d[i]]>>]
  <2>1. G(i)[i] = IF i < m THEN a[i] ELSE h[<<i, G(i)[d[i]]>>]
    BY <1>3
  <2>2. CASE i < m
    BY <2>1, <2>2
  <2>3. CASE ~(i < m)
    <3>1. d[i] \in Nat /\ d[i] < i
      BY <2>3
    <3>2. G(i)[d[i]] = G(d[i])[d[i]]
      <4> HIDE DEF Good
      <4> QED BY <1>1, <1>3, <3>1
    <3>3. f[d[i]] = G(d[i])[d[i]] /\ f[i] = G(i)[i]
      BY <3>1
    <3> HIDE DEF f
    <3> QED BY <2>1, <2>3, <3>2, <3>3
  <2> QED BY <2>2, <2>3
<1> HIDE DEF f
<1> QED BY <1>4, <1>5 DEF IsRecursive

\* A function of numbers that is computed from its value at the number before.
IsIterated(f, T, a, h) ==
  /\ f \in [Nat -> T]
  /\ \A i \in Nat : f[i] = IF i = 0 THEN a ELSE h[<<i, f[i - 1]>>]

LEMMA Iteration ==
  ASSUME NEW T, NEW a \in T, NEW h \in [Nat \X T -> T]
  PROVE  \E f : IsIterated(f, T, a, h)
<1> DEFINE as == [i \in Nat |-> a]
           d == [i \in Nat |-> IF i = 0 THEN 0 ELSE i - 1]
<1>1. as \in [Nat -> T]
  OBVIOUS
<1>2. d \in [Nat -> Nat]
  OBVIOUS
<1>3. \A i \in Nat : as[i] = a
  OBVIOUS
<1>4. \A i \in Nat : i # 0 => d[i] = i - 1
  OBVIOUS
<1>5. \A i \in Nat : i >= 1 => d[i] < i
  BY <1>4
<1> HIDE DEF as, d
<1>6. 1 \in Nat /\ 1 > 0
  OBVIOUS
<1>0. PICK f : IsRecursive(f, T, as, 1, d, h)
  BY <1>1, <1>2, <1>5, <1>6, Recursion
<1>7. f \in [Nat -> T] /\ \A i \in Nat : f[i] = IF i < 1 THEN as[i] ELSE h[<<i, f[d[i]]>>]
  BY <1>0 DEF IsRecursive
<1>8. ASSUME NEW i \in Nat PROVE f[i] = IF i = 0 THEN a ELSE h[<<i, f[i - 1]>>]
  <2>1. i < 1 <=> i = 0
    OBVIOUS
  <2> QED BY <1>3, <1>4, <1>7, <2>1
<1> QED BY <1>7, <1>8 DEF IsIterated

\* The same up to n, as the functions are that the codec defines.
IsIteratedTo(f, T, a, n, h) ==
  /\ f \in [0 .. n -> T]
  /\ \A i \in 0 .. n : f[i] = IF i = 0 THEN a ELSE h[<<i, f[i - 1]>>]

LEMMA IterationTo ==
  ASSUME NEW T, NEW a \in T, NEW n \in Nat, NEW h \in [(1 .. n) \X T -> T]
  PROVE  \E f : IsIteratedTo(f, T, a, n, h)
<1> DEFINE e == [p \in Nat \X T |-> IF p[1] \in 1 .. n THEN h[p] ELSE a]
<1>1. e \in [Nat \X T -> T]
  <2> SUFFICES ASSUME NEW p \in Nat \X T PROVE e[p] \in T
    OBVIOUS
  <2> QED OBVIOUS
<1>2. \A i \in 1 .. n, t \in T : e[<<i, t>>] = h[<<i, t>>]
  OBVIOUS
<1> HIDE DEF e
<1>0. PICK g : IsIterated(g, T, a, e)
  BY <1>1, Iteration
<1>3. g \in [Nat -> T] /\ \A i \in Nat : g[i] = IF i = 0 THEN a ELSE e[<<i, g[i - 1]>>]
  BY <1>0 DEF IsIterated
<1> DEFINE f == [i \in 0 .. n |-> g[i]]
<1>4. f \in [0 .. n -> T]
  BY <1>3
<1>5. \A i \in 0 .. n : f[i] = IF i = 0 THEN a ELSE h[<<i, f[i - 1]>>]
  <2> SUFFICES ASSUME NEW i \in 0 .. n
               PROVE  f[i] = IF i = 0 THEN a ELSE h[<<i, f[i - 1]>>]
    OBVIOUS
  <2>1. i \in Nat /\ (i # 0 => i - 1 \in 0 .. n /\ i - 1 \in Nat /\ i \in 1 .. n)
    OBVIOUS
  <2>2. f[i] = g[i] /\ (i # 0 => f[i - 1] = g[i - 1])
    BY <2>1
  <2>3. i # 0 => g[i - 1] \in T
    BY <1>3, <2>1
  <2> HIDE DEF f
  <2> QED BY <1>2, <1>3, <2>1, <2>2, <2>3
<1> HIDE DEF f
<1> QED BY <1>4, <1>5 DEF IsIteratedTo

-----------------------------------------------------------------------------
(***************************************************************************)
(* Powers of two and division.                                             *)
(***************************************************************************)

LEMMA BitDef ==
  /\ Bit \in [Nat -> Nat]
  /\ Bit[0] = 1
  /\ \A n \in Nat : Bit[n + 1] = 2 * Bit[n]
<1> DEFINE h == [p \in Nat \X Nat |-> 2 * p[2]]
<1>1. h \in [Nat \X Nat -> Nat]
  OBVIOUS
<1>2. \A i, j \in Nat : h[<<i, j>>] = 2 * j
  OBVIOUS
<1> HIDE DEF h
<1>0. PICK f : IsIterated(f, Nat, 1, h)
  BY <1>1, Iteration
<1>3. f \in [Nat -> Nat] /\ \A i \in Nat : f[i] = IF i = 0 THEN 1 ELSE h[<<i, f[i - 1]>>]
  BY <1>0 DEF IsIterated
<1>4. ASSUME NEW n \in Nat PROVE f[n] = IF n = 0 THEN 1 ELSE 2 * f[n - 1]
  <2>1. n # 0 => n - 1 \in Nat
    OBVIOUS
  <2>2. n # 0 => f[n - 1] \in Nat
    BY <1>3, <2>1
  <2>3. f[n] = IF n = 0 THEN 1 ELSE h[<<n, f[n - 1]>>]
    BY <1>3
  <2> QED BY <1>2, <2>2, <2>3
<1>5. f = [n \in Nat |-> IF n = 0 THEN 1 ELSE 2 * f[n - 1]]
  BY <1>3, <1>4
<1>6. Bit = [n \in Nat |-> IF n = 0 THEN 1 ELSE 2 * Bit[n - 1]]
  BY <1>5 DEF Bit
<1> DEFINE S == {n \in Nat : Bit[n] = f[n]}
<1>7. 0 \in S
  BY <1>4, <1>6
<1>8. ASSUME NEW n \in Nat, n \in S PROVE n + 1 \in S
  <2>1. n + 1 \in Nat /\ n + 1 # 0 /\ (n + 1) - 1 = n
    OBVIOUS
  <2>2. Bit[n + 1] = 2 * Bit[n]
    BY <1>6, <2>1
  <2>3. f[n + 1] = 2 * f[n]
    BY <1>4, <2>1
  <2> QED BY <1>8, <2>2, <2>3
<1> HIDE DEF S
<1>9. Nat \subseteq S
  BY <1>7, <1>8, Induction
<1>10. \A n \in Nat : Bit[n] = f[n]
  BY <1>9 DEF S
<1>11. Bit \in [Nat -> Nat]
  BY <1>3, <1>6, <1>10
<1>12. \A n \in Nat : Bit[n + 1] = 2 * Bit[n]
  <2> SUFFICES ASSUME NEW n \in Nat PROVE Bit[n + 1] = 2 * Bit[n]
    OBVIOUS
  <2>1. n + 1 \in Nat /\ n + 1 # 0 /\ (n + 1) - 1 = n
    OBVIOUS
  <2> QED BY <1>6, <2>1
<1> QED BY <1>6, <1>11, <1>12

LEMMA BitPositive ==
  \A n \in Nat : Bit[n] \in Nat /\ Bit[n] >= 1
<1> DEFINE S == {n \in Nat : Bit[n] >= 1}
<1>1. 0 \in S
  BY BitDef
<1>2. ASSUME NEW n \in Nat, n \in S PROVE n + 1 \in S
  <2>1. Bit[n] \in Nat /\ Bit[n] >= 1 /\ Bit[n + 1] = 2 * Bit[n] /\ n + 1 \in Nat
    BY <1>2, BitDef
  <2> QED BY <2>1
<1> HIDE DEF S
<1>3. Nat \subseteq S
  BY <1>1, <1>2, Induction
<1> QED BY <1>3, BitDef DEF S

LEMMA BitAdd ==
  \A a, b \in Nat : Bit[a + b] = Bit[a] * Bit[b]
<1> SUFFICES ASSUME NEW a \in Nat
             PROVE  \A b \in Nat : Bit[a + b] = Bit[a] * Bit[b]
  OBVIOUS
<1> DEFINE S == {b \in Nat : Bit[a + b] = Bit[a] * Bit[b]}
<1>1. 0 \in S
  <2>1. a + 0 = a /\ Bit[a] \in Nat /\ Bit[0] = 1
    BY BitDef
  <2>2. Bit[a] * 1 = Bit[a]
    BY <2>1
  <2> QED BY <2>1, <2>2
<1>2. ASSUME NEW b \in Nat, b \in S PROVE b + 1 \in S
  <2>1. Bit[a] \in Nat /\ Bit[b] \in Nat /\ Bit[a + b] = Bit[a] * Bit[b]
    BY <1>2, BitDef
  <2>2. a + (b + 1) = (a + b) + 1 /\ a + b \in Nat /\ b + 1 \in Nat
    OBVIOUS
  <2>3. Bit[(a + b) + 1] = 2 * Bit[a + b] /\ Bit[b + 1] = 2 * Bit[b]
    BY <2>2, BitDef
  <2>4. \A x, y \in Nat : 2 * (x * y) = x * (2 * y)
    OBVIOUS
  <2> QED BY <2>1, <2>2, <2>3, <2>4
<1> HIDE DEF S
<1>3. Nat \subseteq S
  BY <1>1, <1>2, Induction
<1> QED BY <1>3 DEF S

\* The base of a byte is 2 at least, and a byte more is a factor of it.
LEMMA BaseFacts ==
  /\ Base \in Nat /\ Base >= 2
  /\ Half \in Nat /\ Half >= 1
  /\ Bit[Group * 0] = 1
  /\ \A k \in Nat : /\ Bit[Group * k] \in Nat
                    /\ Bit[Group * (k + 1)] = Base * Bit[Group * k]
<1>1. Group \in Nat /\ Group - 1 \in Nat /\ (Group - 1) + 1 = Group /\ Bytes - 1 \in Nat
  BY WidthAssumption
<1>2. Bit[Group] = 2 * Bit[Group - 1] /\ Bit[Group - 1] \in Nat /\ Bit[Group - 1] >= 1
  BY <1>1, BitDef, BitPositive
<1>3. Base \in Nat /\ Base >= 2
  BY <1>2 DEF Base
<1>4. \A k \in Nat : Group * k \in Nat
  BY <1>1
<1>5. Half \in Nat /\ Half >= 1
  BY <1>1, <1>4, BitPositive DEF Half
<1>6. Bit[Group * 0] = 1
  BY <1>1, BitDef
<1>7. ASSUME NEW k \in Nat
      PROVE  Bit[Group * k] \in Nat /\ Bit[Group * (k + 1)] = Base * Bit[Group * k]
  <2>1. Group * (k + 1) = Group + Group * k
    BY <1>1
  <2> QED BY <1>1, <1>4, <2>1, BitPositive, BitAdd DEF Base
<1> QED BY <1>3, <1>5, <1>6, <1>7

LEMMA Division ==
  ASSUME NEW u \in Nat, NEW b \in Nat, b >= 2
  PROVE  /\ u \div b \in Nat /\ u % b \in 0 .. b - 1
         /\ u = (u % b) + b * (u \div b)
         /\ u >= b => u \div b < u
<1>1. u \div b \in Nat
  OBVIOUS
<1>2. u % b \in 0 .. b - 1
  OBVIOUS
<1>3. u = (u % b) + b * (u \div b)
  OBVIOUS
<1>4. u >= b => u \div b < u
  OBVIOUS
<1> QED BY <1>1, <1>2, <1>3, <1>4

\* The bits of an integer that go into a byte, and those that are left.
Low(u)  == u % Base
High(u) == u \div Base

LEMMA LowHigh ==
  \A u \in Nat : /\ Low(u) \in 0 .. Base - 1 /\ Low(u) \in Nat
                 /\ High(u) \in Nat
                 /\ u = Low(u) + Base * High(u)
                 /\ u >= Base => High(u) < u
<1> SUFFICES ASSUME NEW u \in Nat
             PROVE  /\ Low(u) \in 0 .. Base - 1 /\ Low(u) \in Nat
                    /\ High(u) \in Nat
                    /\ u = Low(u) + Base * High(u)
                    /\ u >= Base => High(u) < u
  OBVIOUS
<1>1. Base \in Nat /\ Base >= 2
  BY BaseFacts
<1>2. /\ u \div Base \in Nat /\ u % Base \in 0 .. Base - 1
      /\ u = (u % Base) + Base * (u \div Base)
      /\ u >= Base => u \div Base < u
  BY <1>1, Division
<1>3. /\ High(u) \in Nat /\ Low(u) \in 0 .. Base - 1
      /\ u = Low(u) + Base * High(u)
      /\ u >= Base => High(u) < u
  BY ONLY <1>2, Zenon DEF Low, High
<1> QED BY <1>1, <1>3

\* A byte holds the bits of an integer as they are, with its own bit or without.
LEMMA LowOfByte ==
  \A r \in 0 .. Base - 1 : Low(r) = r /\ Low(r + Base) = r
<1> SUFFICES ASSUME NEW b \in Nat, b >= 2, NEW r \in 0 .. b - 1
             PROVE  r % b = r /\ (r + b) % b = r
  BY BaseFacts DEF Low
<1>1. r % b = r
  OBVIOUS
<1>2. (r + b) % b = r
  OBVIOUS
<1> QED BY <1>1, <1>2

LEMMA Bytewise ==
  /\ ByteValues \subseteq Nat
  /\ \A b \in ByteValues : Low(b) \in Nat
  /\ \A u \in Nat : u < Base => u \in ByteValues
  /\ \A r \in 0 .. Base - 1 : r + Base \in ByteValues
<1>1. Base \in Nat /\ Base >= 2
  BY BaseFacts
<1>2. ByteValues \subseteq Nat
  BY <1>1 DEF ByteValues
<1>3. \A u \in Nat : u < Base => u \in ByteValues
  BY <1>1 DEF ByteValues
<1>4. \A r \in 0 .. Base - 1 : r + Base \in ByteValues
  BY <1>1 DEF ByteValues
<1> QED BY <1>2, <1>3, <1>4, LowHigh

-----------------------------------------------------------------------------
(***************************************************************************)
(* Integers and their bytes.                                               *)
(***************************************************************************)

LEMMA VarintDef ==
  /\ Varint \in [Nat -> Seq(ByteValues)]
  /\ \A u \in Nat : u < Base => Varint[u] = <<u>>
  /\ \A u \in Nat : u >= Base => Varint[u] = <<Low(u) + Base>> \o Varint[High(u)]
<1> DEFINE T == Seq(ByteValues)
           a == [u \in Nat |-> IF u < Base THEN <<u>> ELSE <<>>]
           d == [u \in Nat |-> High(u)]
           h == [p \in Nat \X T |-> <<Low(p[1]) + Base>> \o p[2]]
<1>1. Base \in Nat /\ Base >= 2 /\ Base > 0
  BY BaseFacts
<1>2. a \in [Nat -> T]
  BY Bytewise
<1>3. d \in [Nat -> Nat]
  BY LowHigh
<1>4. \A u \in Nat, t \in T : <<Low(u) + Base>> \o t \in T
  <2> SUFFICES ASSUME NEW u \in Nat, NEW t \in T PROVE <<Low(u) + Base>> \o t \in T
    OBVIOUS
  <2>1. Low(u) + Base \in ByteValues
    BY LowHigh, Bytewise
  <2> QED BY <2>1
<1>5. h \in [Nat \X T -> T]
  BY <1>4
<1>6. \A u \in Nat : d[u] = High(u)
  OBVIOUS
<1>7. \A u \in Nat : u < Base => a[u] = <<u>>
  OBVIOUS
<1>8. \A u \in Nat : u >= Base => d[u] < u
  BY LowHigh, <1>6
<1>9. \A u \in Nat, t \in T : h[<<u, t>>] = <<Low(u) + Base>> \o t
  OBVIOUS
<1> HIDE DEF a, d, h, T
<1>0. PICK f : IsRecursive(f, T, a, Base, d, h)
  BY <1>1, <1>2, <1>3, <1>5, <1>8, Recursion
<1>10. f \in [Nat -> T] /\ \A u \in Nat : f[u] = IF u < Base THEN a[u] ELSE h[<<u, f[d[u]]>>]
  BY <1>0 DEF IsRecursive
<1>11. ASSUME NEW u \in Nat
       PROVE  f[u] = IF u < Base THEN <<u>> ELSE <<Low(u) + Base>> \o f[High(u)]
  <2>1. f[d[u]] \in T /\ d[u] = High(u)
    BY <1>3, <1>6, <1>10
  <2>2. f[u] = IF u < Base THEN a[u] ELSE h[<<u, f[d[u]]>>]
    BY <1>10
  <2>3. h[<<u, f[d[u]]>>] = <<Low(u) + Base>> \o f[High(u)]
    BY <1>9, <2>1
  <2> QED BY <1>7, <2>2, <2>3
<1>12. f = [u \in Nat |-> IF u < Base THEN <<u>> ELSE <<Low(u) + Base>> \o f[High(u)]]
  BY <1>10, <1>11
<1>13. Varint = [u \in Nat |-> IF u < Base THEN <<u>>
                               ELSE <<Low(u) + Base>> \o Varint[High(u)]]
  BY <1>12 DEF Varint, Low, High
<1> DEFINE S == {u \in Nat : Varint[u] = f[u]}
<1>14. ASSUME NEW u \in Nat, \A v \in Nat : v < u => v \in S PROVE u \in S
  <2>1. CASE u < Base
    BY <1>11, <1>13, <2>1
  <2>2. CASE ~(u < Base)
    <3>1. High(u) \in Nat /\ High(u) < u
      BY <1>1, <2>2, LowHigh
    <3>2. Varint[High(u)] = f[High(u)]
      BY <1>14, <3>1
    <3> QED BY <1>11, <1>13, <2>2, <3>2
  <2> QED BY <2>1, <2>2
<1> HIDE DEF S
<1>15. Nat \subseteq S
  BY <1>14, StrongInduction
<1>16. \A u \in Nat : Varint[u] = f[u]
  BY <1>15 DEF S
<1>17. Varint \in [Nat -> T]
  BY <1>10, <1>13, <1>16
<1>18. \A u \in Nat : u >= Base => ~(u < Base)
  BY <1>1
<1> QED BY <1>13, <1>17, <1>18 DEF T

\* The weights of the bytes of s add up one by one.
LEMMA ValueDef ==
  ASSUME NEW s \in Seq(ByteValues)
  PROVE  /\ \A n \in 0 .. Len(s) : VarintValue(s, n) \in Nat
         /\ VarintValue(s, 0) = 0
         /\ \A n \in Nat : n < Len(s) =>
              VarintValue(s, n + 1) =
                VarintValue(s, n) + Low(s[n + 1]) * Bit[Group * n]
<1> DEFINE h == [p \in (1 .. Len(s)) \X Nat |->
                   p[2] + Low(s[p[1]]) * Bit[Group * (p[1] - 1)]]
<1>1. \A i \in 1 .. Len(s) : Low(s[i]) * Bit[Group * (i - 1)] \in Nat
  <2> SUFFICES ASSUME NEW i \in 1 .. Len(s)
               PROVE  Low(s[i]) * Bit[Group * (i - 1)] \in Nat
    OBVIOUS
  <2>1. s[i] \in ByteValues
    OBVIOUS
  <2>2. Low(s[i]) \in Nat
    BY <2>1, Bytewise
  <2>3. i - 1 \in Nat
    OBVIOUS
  <2>4. Bit[Group * (i - 1)] \in Nat
    BY <2>3, BaseFacts
  <2> QED BY <2>2, <2>4
<1>2. h \in [(1 .. Len(s)) \X Nat -> Nat]
  <2> SUFFICES ASSUME NEW i \in 1 .. Len(s), NEW v \in Nat
               PROVE  v + Low(s[i]) * Bit[Group * (i - 1)] \in Nat
    OBVIOUS
  <2> QED BY <1>1
<1>3. \A i \in 1 .. Len(s), v \in Nat :
        h[<<i, v>>] = v + Low(s[i]) * Bit[Group * (i - 1)]
  OBVIOUS
<1> HIDE DEF h
<1>4. 0 \in Nat /\ Len(s) \in Nat
  OBVIOUS
<1>0. PICK f : IsIteratedTo(f, Nat, 0, Len(s), h)
  BY <1>2, <1>4, IterationTo
<1>5. f \in [0 .. Len(s) -> Nat]
      /\ \A i \in 0 .. Len(s) : f[i] = IF i = 0 THEN 0 ELSE h[<<i, f[i - 1]>>]
  BY <1>0 DEF IsIteratedTo
<1>6. \A i \in 0 .. Len(s) : i # 0 => i \in 1 .. Len(s) /\ f[i - 1] \in Nat
  BY <1>5
<1>7. \A i \in 0 .. Len(s) :
        f[i] = IF i = 0 THEN 0 ELSE f[i - 1] + Low(s[i]) * Bit[Group * (i - 1)]
  BY <1>3, <1>5, <1>6
<1> DEFINE Sums(g) == [i \in 0 .. Len(s) |->
             IF i = 0 THEN 0 ELSE g[i - 1] + Low(s[i]) * Bit[Group * (i - 1)]]
           sum == CHOOSE g : g = Sums(g)
<1>8. f = Sums(f)
  BY <1>5, <1>7
<1>9. sum = Sums(sum)
  BY <1>8
<1>10. \A n : VarintValue(s, n) = sum[n]
  BY DEF VarintValue, Low
<1> HIDE DEF sum
<1>11. \A i \in 0 .. Len(s) :
        sum[i] = IF i = 0 THEN 0 ELSE sum[i - 1] + Low(s[i]) * Bit[Group * (i - 1)]
  BY <1>9
<1>12. \A i \in Nat : i < Len(s) =>
         sum[i + 1] = sum[i] + Low(s[i + 1]) * Bit[Group * i]
  <2> SUFFICES ASSUME NEW i \in Nat, i < Len(s)
               PROVE  sum[i + 1] = sum[i] + Low(s[i + 1]) * Bit[Group * i]
    OBVIOUS
  <2>1. i + 1 \in 0 .. Len(s) /\ i + 1 # 0 /\ (i + 1) - 1 = i
    OBVIOUS
  <2> QED BY <1>11, <2>1
<1>13. sum[0] = 0
  BY <1>4, <1>11
<1> DEFINE S == {i \in Nat : i <= Len(s) => sum[i] \in Nat}
<1>14. 0 \in S
  BY <1>13
<1>15. ASSUME NEW n \in Nat, n \in S PROVE n + 1 \in S
  <2> SUFFICES ASSUME n + 1 <= Len(s) PROVE sum[n + 1] \in Nat
    OBVIOUS
  <2>1. n < Len(s) /\ n + 1 \in 1 .. Len(s) /\ (n + 1) - 1 = n
    OBVIOUS
  <2>2. sum[n] \in Nat
    BY <1>15, <2>1
  <2>3. Low(s[n + 1]) * Bit[Group * n] \in Nat
    BY <1>1, <2>1
  <2> QED BY <1>12, <2>1, <2>2, <2>3
<1> HIDE DEF S
<1>16. Nat \subseteq S
  BY <1>14, <1>15, Induction
<1>17. \A n \in 0 .. Len(s) : sum[n] \in Nat
  BY <1>16 DEF S
<1> QED BY <1>10, <1>12, <1>13, <1>17

\* A byte in front adds its bits and moves the others up by a group.
LEMMA ValueOfCons ==
  ASSUME NEW b \in ByteValues, NEW t \in Seq(ByteValues), NEW n \in 0 .. Len(t)
  PROVE  VarintValue(<<b>> \o t, n + 1) = Low(b) + Base * VarintValue(t, n)
<1> DEFINE s == <<b>> \o t
<1>1. s \in Seq(ByteValues) /\ Len(s) = Len(t) + 1 /\ s[1] = b
  OBVIOUS
<1>2. \A i \in 1 .. Len(t) : s[i + 1] = t[i]
  OBVIOUS
<1> HIDE DEF s
<1>3. Base \in Nat /\ Low(b) \in Nat /\ Len(t) \in Nat
  BY Bytewise, BaseFacts
<1> DEFINE S == {i \in Nat : i <= Len(t) =>
                   VarintValue(s, i + 1) = Low(b) + Base * VarintValue(t, i)}
<1>4. 0 \in S
  <2>1. VarintValue(s, 0 + 1) = VarintValue(s, 0) + Low(s[0 + 1]) * Bit[Group * 0]
    BY <1>1, <1>3, ValueDef
  <2>2. VarintValue(s, 0) = 0 /\ VarintValue(t, 0) = 0
    BY <1>1, ValueDef
  <2>3. VarintValue(s, 0 + 1) = Low(b)
    BY <1>1, <1>3, <2>1, <2>2, BaseFacts
  <2>4. Low(b) + Base * 0 = Low(b)
    BY <1>3
  <2> QED BY <2>2, <2>3, <2>4
<1>5. ASSUME NEW i \in Nat, i \in S PROVE i + 1 \in S
  <2> SUFFICES ASSUME i + 1 <= Len(t)
               PROVE  VarintValue(s, (i + 1) + 1) = Low(b) + Base * VarintValue(t, i + 1)
    OBVIOUS
  <2>1. i < Len(t) /\ i + 1 < Len(s) /\ i + 1 \in 1 .. Len(t) /\ i \in 0 .. Len(t)
        /\ i + 1 \in Nat
    BY <1>1, <1>3
  <2>2. VarintValue(s, i + 1) = Low(b) + Base * VarintValue(t, i)
    BY <1>5, <2>1
  <2> DEFINE c == Low(t[i + 1])
             w == Bit[Group * i]
             v == VarintValue(t, i)
  <2>3. VarintValue(s, (i + 1) + 1)
          = VarintValue(s, i + 1) + Low(s[(i + 1) + 1]) * Bit[Group * (i + 1)]
    BY <1>1, <2>1, ValueDef
  <2>4. Low(s[(i + 1) + 1]) = c
    BY <1>2, <2>1
  <2>5. Bit[Group * (i + 1)] = Base * w /\ w \in Nat
    BY BaseFacts
  <2>6. VarintValue(t, i + 1) = v + c * w
    BY <2>1, ValueDef
  <2>7. v \in Nat
    BY <2>1, ValueDef
  <2>8. c \in Nat
    <3>1. t[i + 1] \in ByteValues
      BY <2>1
    <3> QED BY <3>1, Bytewise
  <2> HIDE DEF c, w, v
  <2>9. \A x, y, z, k \in Nat : x * (k * z) = k * (x * z) /\ k * (y + x * z) = k * y + k * (x * z)
    OBVIOUS
  <2>10. c * (Base * w) = Base * (c * w) /\ Base * (v + c * w) = Base * v + Base * (c * w)
    BY <1>3, <2>5, <2>7, <2>8, <2>9
  <2> DEFINE y == Base * v
             z == Base * (c * w)
  <2>11. y \in Nat /\ z \in Nat
    BY <1>3, <2>5, <2>7, <2>8
  <2>12. VarintValue(s, (i + 1) + 1) = (Low(b) + y) + z
    BY <2>2, <2>3, <2>4, <2>5, <2>10 DEF v
  <2>13. Base * VarintValue(t, i + 1) = y + z
    BY <2>6, <2>10
  <2> HIDE DEF y, z
  <2> QED BY <1>3, <2>11, <2>12, <2>13
<1> HIDE DEF S
<1>6. Nat \subseteq S
  BY <1>4, <1>5, Induction
<1> QED BY <1>3, <1>6 DEF S, s

\* The bytes of u in front of others end where they end, and say u.
ReadsBack(u, r) ==
  LET s == Varint[u] \o r
      n == Len(Varint[u])
  IN /\ n >= 1
     /\ VarintValue(s, n) = u
     /\ ~Continues(s[n])
     /\ \A i \in 1 .. n - 1 : Continues(s[i])

LEMMA VarintReadsBack ==
  \A u \in Nat, r \in Seq(ByteValues) : ReadsBack(u, r)
<1> DEFINE S == {u \in Nat : \A r \in Seq(ByteValues) : ReadsBack(u, r)}
<1>1. Base \in Nat /\ Base >= 2
  BY BaseFacts
<1>2. ASSUME NEW u \in Nat, \A v \in Nat : v < u => v \in S, NEW r \in Seq(ByteValues)
      PROVE  ReadsBack(u, r)
  <2>1. CASE u < Base
    <3>1. Varint[u] = <<u>> /\ u \in ByteValues
      BY <1>1, <2>1, VarintDef, Bytewise
    <3>2. <<>> \in Seq(ByteValues) /\ Len(<<>>) = 0
      OBVIOUS
    <3>3. 0 \in 0 .. Len(r)
      OBVIOUS
    <3>4. VarintValue(<<u>> \o r, 0 + 1) = Low(u) + Base * VarintValue(r, 0)
      BY <3>1, <3>3, ValueOfCons
    <3>5. VarintValue(r, 0) = 0
      BY ValueDef
    <3>6. Low(u) = u
      <4>1. u \in 0 .. Base - 1
        BY <1>1, <2>1
      <4> QED BY <4>1, LowOfByte
    <3>7. VarintValue(<<u>> \o r, 1) = u
      BY <1>1, <3>4, <3>5, <3>6
    <3>8. Len(<<u>>) = 1 /\ (<<u>> \o r)[1] = u
      OBVIOUS
    <3>9. ~Continues(u)
      BY <1>1, <2>1 DEF Continues
    <3> QED BY <3>1, <3>7, <3>8, <3>9 DEF ReadsBack
  <2>2. CASE ~(u < Base)
    <3> DEFINE c == Low(u) + Base
               v == High(u)
               t == Varint[v]
               n == Len(t)
               s == t \o r
    <3>0. u >= Base
      BY <1>1, <2>2
    <3>1. v \in Nat /\ v < u /\ Low(u) \in 0 .. Base - 1 /\ u = Low(u) + Base * v
      BY ONLY <3>0, u \in Nat, LowHigh, Zenon DEF v
    <3>2. c \in ByteValues /\ Low(c) = Low(u) /\ Continues(c)
      BY <1>1, <3>1, LowOfByte, Bytewise DEF Continues
    <3>3. t \in Seq(ByteValues) /\ Varint[u] = <<c>> \o t
      BY <3>0, <3>1, VarintDef
    <3>4. ReadsBack(v, r)
      BY <1>2, <3>1
    <3> HIDE DEF v, c, t
    <3>5. s \in Seq(ByteValues) /\ Varint[u] \o r = <<c>> \o s /\ Len(s) = n + Len(r)
      BY <3>2, <3>3
    <3>6. n \in Nat /\ n >= 1 /\ VarintValue(s, n) = v /\ ~Continues(s[n])
          /\ \A i \in 1 .. n - 1 : Continues(s[i])
      <4>1. n >= 1 /\ VarintValue(s, n) = v /\ ~Continues(s[n])
            /\ \A i \in 1 .. n - 1 : Continues(s[i])
        BY <3>4, Zenon DEF ReadsBack, t
      <4> QED BY <3>3, <4>1
    <3>7. Len(Varint[u]) = n + 1
      BY <3>2, <3>3
    <3> HIDE DEF s, n
    <3>8. n \in 0 .. Len(s) /\ Len(s) \in Nat
      BY <3>5, <3>6
    <3>9. VarintValue(<<c>> \o s, n + 1) = Low(c) + Base * VarintValue(s, n)
      BY <3>2, <3>5, <3>8, ValueOfCons
    <3>10. VarintValue(<<c>> \o s, n + 1) = u
      BY <3>1, <3>2, <3>6, <3>9
    <3>11. \A i \in 1 .. Len(s) : (<<c>> \o s)[i + 1] = s[i]
      BY <3>2, <3>5
    <3>12. (<<c>> \o s)[1] = c
      BY <3>2, <3>5
    <3>13. ~Continues((<<c>> \o s)[n + 1])
      BY <3>6, <3>8, <3>11
    <3>14. ASSUME NEW i \in 1 .. (n + 1) - 1 PROVE Continues((<<c>> \o s)[i])
      <4>1. CASE i = 1
        BY <3>2, <3>12, <4>1
      <4>2. CASE i # 1
        <5>1. i - 1 \in 1 .. n - 1 /\ i - 1 \in 1 .. Len(s) /\ (i - 1) + 1 = i
          BY <3>6, <3>8, <4>2
        <5> QED BY <3>6, <3>11, <5>1
      <4> QED BY <4>1, <4>2
    <3>15. n + 1 >= 1
      BY <3>6
    <3> QED BY <3>5, <3>7, <3>10, <3>13, <3>14, <3>15 DEF ReadsBack
  <2> QED BY <2>1, <2>2
<1>3. \A u \in Nat : (\A v \in Nat : v < u => v \in S) => u \in S
  BY <1>2
<1> HIDE DEF S
<1>4. Nat \subseteq S
  BY <1>3, StrongInduction
<1> QED BY <1>4 DEF S

\* An integer of k groups and one bit has k + 1 bytes at most, the last with one bit.
Short(u, k) == /\ Len(Varint[u]) <= k + 1
               /\ Len(Varint[u]) = k + 1 => Varint[u][k + 1] <= 1

LEMMA VarintLength ==
  \A k \in Nat : \A u \in Nat : u < 2 * Bit[Group * k] => Short(u, k)
<1> DEFINE S == {k \in Nat : \A u \in Nat : u < 2 * Bit[Group * k] => Short(u, k)}
<1>1. Base \in Nat /\ Base >= 2
  BY BaseFacts
<1>2. \A u \in Nat : u < Base => Varint[u] = <<u>> /\ Len(<<u>>) = 1 /\ <<u>>[1] = u
  BY VarintDef
<1>3. 0 \in S
  <2> SUFFICES ASSUME NEW u \in Nat, u < 2 * Bit[Group * 0] PROVE Short(u, 0)
    OBVIOUS
  <2>1. u <= 1 /\ u < Base
    BY <1>1, BaseFacts
  <2>2. Len(Varint[u]) = 1 /\ Varint[u][1] = u
    BY <1>2, <2>1
  <2>3. 0 + 1 = 1
    OBVIOUS
  <2> QED BY <2>1, <2>2, <2>3 DEF Short
<1>4. ASSUME NEW k \in Nat, k \in S PROVE k + 1 \in S
  <2> SUFFICES ASSUME NEW u \in Nat, u < 2 * Bit[Group * (k + 1)] PROVE Short(u, k + 1)
    OBVIOUS
  <2>1. CASE u < Base
    <3>1. Len(Varint[u]) = 1
      BY <1>2, <2>1
    <3>2. 1 <= (k + 1) + 1 /\ 1 # (k + 1) + 1
      OBVIOUS
    <3> QED BY <3>1, <3>2 DEF Short
  <2>2. CASE ~(u < Base)
    <3> DEFINE c == Low(u) + Base
               v == High(u)
               t == Varint[v]
               w == Bit[Group * k]
    <3>0. u >= Base
      BY <1>1, <2>2
    <3>1. v \in Nat /\ Low(u) \in 0 .. Base - 1 /\ u = Low(u) + Base * v
      BY ONLY <3>0, u \in Nat, LowHigh, Zenon DEF v
    <3>2. w \in Nat /\ Bit[Group * (k + 1)] = Base * w
      BY BaseFacts
    <3>3. t \in Seq(ByteValues) /\ Varint[u] = <<c>> \o t
      BY <3>0, <3>1, VarintDef
    <3>4. c \in Nat
      BY <1>1, <3>1
    <3> HIDE DEF v, c, w
    <3>5. v < 2 * w
      <4> SUFFICES ASSUME v >= 2 * w PROVE FALSE
        BY <3>1, <3>2
      <4>1. Base * v >= Base * (2 * w)
        <5>1. v - 2 * w \in Nat
          BY <3>1, <3>2
        <5>2. Base * (v - 2 * w) \in Nat
          BY <1>1, <5>1
        <5>3. Base * (v - 2 * w) = Base * v - Base * (2 * w)
          BY <1>1, <3>1, <3>2
        <5>4. Base * v \in Nat /\ Base * (2 * w) \in Nat
          BY <1>1, <3>1, <3>2
        <5> QED BY <5>2, <5>3, <5>4
      <4>2. Base * (2 * w) = 2 * (Base * w)
        BY <1>1, <3>2
      <4>3. u < Base * (2 * w)
        BY <3>2, <4>2
      <4>4. Base * v \in Nat /\ Base * (2 * w) \in Nat
        BY <1>1, <3>1, <3>2
      <4> QED BY <3>1, <4>1, <4>3, <4>4
    <3>6. Short(v, k)
      BY <1>4, <3>1, <3>5 DEF w
    <3>7. Len(t) <= k + 1 /\ (Len(t) = k + 1 => t[k + 1] <= 1)
      BY <3>6 DEF Short
    <3> HIDE DEF t
    <3>8. Len(Varint[u]) = Len(t) + 1 /\ Len(t) \in Nat
      BY <3>3, <3>4
    <3>9. \A i \in 1 .. Len(t) : (<<c>> \o t)[i + 1] = t[i]
      BY <3>3, <3>4
    <3>10. Len(t) = k + 1 => Varint[u][(k + 1) + 1] = t[k + 1]
      <4> SUFFICES ASSUME Len(t) = k + 1 PROVE Varint[u][(k + 1) + 1] = t[k + 1]
        OBVIOUS
      <4>1. k + 1 \in 1 .. Len(t)
        OBVIOUS
      <4> QED BY <3>3, <3>9, <4>1
    <3> QED BY <3>7, <3>8, <3>10 DEF Short
  <2> QED BY <2>1, <2>2
<1> HIDE DEF S
<1>5. Nat \subseteq S
  BY <1>3, <1>4, Induction
<1> QED BY <1>5 DEF S

\* An integer of 64 bits at the head of a column is found, and is the only one.
LEMMA HeadOfColumn ==
  ASSUME NEW u \in Nat, u < 2 * Half, NEW r \in Seq(ByteValues)
  PROVE  LET s == Varint[u] \o r
             n == Len(Varint[u])
         IN /\ VarintEnds(s) = {n}
            /\ VarintValue(s, n) = u
            /\ SubSeq(s, n + 1, Len(s)) = r
<1> DEFINE t == Varint[u]
           s == t \o r
           n == Len(t)
<1>1. t \in Seq(ByteValues)
  BY VarintDef
<1>2. n >= 1 /\ VarintValue(s, n) = u /\ ~Continues(s[n])
      /\ \A i \in 1 .. n - 1 : Continues(s[i])
  BY VarintReadsBack DEF ReadsBack
<1>3. Bytes \in Nat /\ Bytes - 1 \in Nat /\ (Bytes - 1) + 1 = Bytes
  BY WidthAssumption
<1>4. n <= Bytes /\ (n = Bytes => t[n] <= 1)
  BY <1>3, VarintLength DEF Half, Short
<1> HIDE DEF t
<1>5. n \in Nat /\ Len(s) = n + Len(r) /\ Len(r) \in Nat
  BY <1>1
<1>6. \A i \in 1 .. n : s[i] = t[i]
  BY <1>1
<1>7. SubSeq(s, n + 1, Len(s)) = r
  BY <1>1
<1> HIDE DEF s, n
<1>8. n \in VarintEnds(s)
  <2>1. n \in 1 .. Len(s) /\ s[n] = t[n]
    BY <1>2, <1>5, <1>6
  <2> QED BY <1>2, <1>4, <2>1 DEF VarintEnds
<1>9. ASSUME NEW m \in VarintEnds(s) PROVE m = n
  <2>1. m \in Nat /\ m >= 1 /\ ~Continues(s[m]) /\ \A i \in 1 .. m - 1 : Continues(s[i])
    BY DEF VarintEnds
  <2>2. CASE m < n
    <3>1. m \in 1 .. n - 1
      BY <1>5, <2>1, <2>2
    <3> QED BY <1>2, <2>1, <3>1
  <2>3. CASE n < m
    <3>1. n \in 1 .. m - 1
      BY <1>2, <1>5, <2>1, <2>3
    <3> QED BY <1>2, <2>1, <3>1
  <2> QED BY <1>5, <2>1, <2>2, <2>3
<1>10. VarintEnds(s) = {n}
  BY <1>8, <1>9
<1> QED BY <1>2, <1>7, <1>10 DEF t, s, n

\* Zigzag and back, and an int64 needs 64 bits.
LEMMA ZigzagFacts ==
  ASSUME NEW v \in Int, -Half < v, v < Half
  PROVE  /\ Zigzag(v) \in Nat
         /\ Unzigzag(Zigzag(v)) = v
         /\ Zigzag(v) < 2 * Half
<1>1. Half \in Nat
  BY BaseFacts
<1>2. CASE v >= 0
  <2>1. Zigzag(v) = 2 * v
    BY <1>2 DEF Zigzag
  <2>2. (2 * v) % 2 = 0 /\ (2 * v) \div 2 = v
    BY <1>2
  <2>3. Unzigzag(2 * v) = v
    BY <2>2 DEF Unzigzag
  <2> QED BY <1>1, <1>2, <2>1, <2>3
<1>3. CASE ~(v >= 0)
  <2> DEFINE w == -v - 1
  <2>1. w \in Nat /\ Zigzag(v) = 2 * w + 1
    BY <1>3 DEF Zigzag
  <2>2. (2 * w + 1) % 2 = 1 /\ (2 * w + 1) \div 2 = w
    <3> HIDE DEF w
    <3> QED BY <2>1
  <2>3. Unzigzag(2 * w + 1) = -w - 1
    BY <2>2 DEF Unzigzag
  <2>4. -w - 1 = v /\ 2 * w + 1 < 2 * Half
    BY <1>1
  <2> HIDE DEF w
  <2> QED BY <2>1, <2>3, <2>4
<1> QED BY <1>2, <1>3

-----------------------------------------------------------------------------
(***************************************************************************)
(* The decoder.                                                            *)
(***************************************************************************)
States == [ok : BOOLEAN, rest : Seq(ByteValues), delta : Int, times : Seq(Times)]

Start(first, column) == [ok |-> TRUE, rest |-> column, delta |-> 0, times |-> <<first>>]

\* A row is refused, or it is a later time that is an int64.
LEMMA RowIsLater ==
  ASSUME NEW state \in States
  PROVE  \/ DecodeRow(state) = Refused
         \/ /\ state.ok /\ DecodeRow(state) \in States
            /\ \E delta \in 1 .. Half - 1 :
                 LET time == state.times[Len(state.times)] + delta IN
                 time \in Times /\ DecodeRow(state).times = Append(state.times, time)
<1> DEFINE ends == VarintEnds(state.rest)
           n == CHOOSE end \in ends : TRUE
           delta == state.delta + Unzigzag(VarintValue(state.rest, n))
           time == state.times[Len(state.times)] + delta
           next == [ok |-> TRUE, rest |-> SubSeq(state.rest, n + 1, Len(state.rest)),
                    delta |-> delta, times |-> Append(state.times, time)]
<1>1. CASE ~state.ok \/ ends = {}
  BY <1>1 DEF DecodeRow
<1>2. CASE ~(~state.ok \/ ends = {})
  <2>1. DecodeRow(state) = IF delta \notin 1 .. Half - 1 \/ time \notin Times THEN Refused
                           ELSE next
    BY <1>2 DEF DecodeRow
  <2>2. state.rest \in Seq(ByteValues) /\ state.times \in Seq(Times)
    BY DEF States
  <2>3. n \in 1 .. Len(state.rest)
    <3>1. n \in ends
      BY <1>2
    <3> QED BY <3>1 DEF VarintEnds
  <2> HIDE DEF n, delta, time
  <2>4. SubSeq(state.rest, n + 1, Len(state.rest)) \in Seq(ByteValues)
    BY <2>2, <2>3
  <2>5. CASE delta \in 1 .. Half - 1 /\ time \in Times
    <3>1. DecodeRow(state) = next
      BY <2>1, <2>5
    <3>2. Append(state.times, time) \in Seq(Times) /\ delta \in Int
      BY <2>2, <2>5, BaseFacts
    <3>3. next \in States
      BY <2>4, <3>2 DEF States
    <3> QED BY <1>2, <2>5, <3>1, <3>3 DEF time
  <2>6. CASE ~(delta \in 1 .. Half - 1 /\ time \in Times)
    BY <2>1, <2>6
  <2> QED BY <2>5, <2>6
<1> QED BY <1>1, <1>2

LEMMA RowIsState ==
  \A state \in States : DecodeRow(state) \in States
<1>1. Refused \in States
  BY DEF Refused, States
<1> QED BY <1>1, RowIsLater

\* The states of the decoder, row by row.
IsDecoding(f, first, column, n) ==
  /\ f \in [0 .. n -> States]
  /\ f[0] = Start(first, column)
  /\ \A i \in Nat : i < n => f[i + 1] = DecodeRow(f[i])

LEMMA DecodedDef ==
  ASSUME NEW first \in Times, NEW column \in Seq(ByteValues), NEW rows \in Nat \ {0}
  PROVE  \E f : /\ IsDecoding(f, first, column, rows - 1)
                /\ Decoded(first, column, rows) =
                     IF f[rows - 1].ok /\ f[rows - 1].rest = <<>> THEN f[rows - 1].times
                     ELSE <<>>
<1> DEFINE n == rows - 1
           a == Start(first, column)
           h == [p \in (1 .. n) \X States |-> DecodeRow(p[2])]
           Rows(g) == [i \in 0 .. rows - 1 |-> IF i = 0 THEN a ELSE DecodeRow(g[i - 1])]
           upTo == CHOOSE g : g = Rows(g)
<1>1. n \in Nat
  OBVIOUS
<1>2. a \in States
  BY DEF Start, States
<1>3. h \in [(1 .. n) \X States -> States]
  BY RowIsState
<1>4. \A i \in 1 .. n, s \in States : h[<<i, s>>] = DecodeRow(s)
  OBVIOUS
<1>5. Decoded(first, column, rows) = IF upTo[n].ok /\ upTo[n].rest = <<>>
                                     THEN upTo[n].times ELSE <<>>
  BY DEF Decoded, Start
<1> HIDE DEF a, h
<1>6. PICK f : IsIteratedTo(f, States, a, n, h)
  BY <1>1, <1>2, <1>3, IterationTo
<1>7. f \in [0 .. n -> States]
      /\ \A i \in 0 .. n : f[i] = IF i = 0 THEN a ELSE h[<<i, f[i - 1]>>]
  BY <1>6 DEF IsIteratedTo
<1>8. ASSUME NEW i \in 0 .. n PROVE f[i] = IF i = 0 THEN a ELSE DecodeRow(f[i - 1])
  <2>1. i # 0 => i \in 1 .. n /\ i - 1 \in 0 .. n
    OBVIOUS
  <2>2. i # 0 => f[i - 1] \in States
    BY <1>7, <2>1
  <2>3. f[i] = IF i = 0 THEN a ELSE h[<<i, f[i - 1]>>]
    BY <1>7
  <2> QED BY <1>4, <2>1, <2>2, <2>3
<1>9. f = Rows(f)
  BY <1>7, <1>8
<1>10. upTo = Rows(upTo)
  BY <1>9
<1> HIDE DEF upTo
<1>11. \A i \in 0 .. n : upTo[i] = IF i = 0 THEN a ELSE DecodeRow(upTo[i - 1])
  BY <1>10
<1>12. upTo[0] = a
  BY <1>1, <1>11
<1>13. ASSUME NEW i \in Nat, i < n PROVE upTo[i + 1] = DecodeRow(upTo[i])
  <2>1. i + 1 \in 0 .. n /\ i + 1 # 0 /\ (i + 1) - 1 = i
    BY <1>1, <1>13
  <2> QED BY <1>11, <2>1
<1> DEFINE S == {i \in Nat : i <= n => upTo[i] \in States}
<1>14. 0 \in S
  BY <1>2, <1>12
<1>15. ASSUME NEW i \in Nat, i \in S PROVE i + 1 \in S
  BY <1>1, <1>13, <1>15, RowIsState
<1> HIDE DEF S
<1>16. Nat \subseteq S
  BY <1>14, <1>15, Induction
<1>17. \A i \in 0 .. n : upTo[i] \in States
  BY <1>1, <1>16 DEF S
<1>18. upTo \in [0 .. n -> States]
  BY <1>10, <1>17
<1>19. IsDecoding(upTo, first, column, n)
  BY <1>12, <1>13, <1>18 DEF IsDecoding, a
<1> QED BY <1>5, <1>19

LEMMA IncreasingAppend ==
  ASSUME NEW t \in Seq(Times), Len(t) >= 1, Increasing(t), NEW delta \in Nat, delta >= 1,
         t[Len(t)] + delta \in Times
  PROVE  Increasing(Append(t, t[Len(t)] + delta))
<1> DEFINE time == t[Len(t)] + delta
           s == Append(t, time)
           n == Len(t)
<1>1. Times \subseteq Int
  BY BaseFacts DEF Times
<1>2. n \in Nat /\ n >= 1
  OBVIOUS
<1>3. s \in Seq(Times) /\ Len(s) = n + 1 /\ s[n + 1] = time /\ \A i \in 1 .. n : s[i] = t[i]
  OBVIOUS
<1>4. t[n] \in Int /\ t[n] < time
  <2>1. n \in 1 .. Len(t)
    BY <1>2
  <2>2. t[n] \in Times
    BY <2>1
  <2>3. t[n] \in Int
    BY ONLY <1>1, <2>2
  <2> HIDE DEF n
  <2> QED BY <2>3 DEF n
<1>5. \A i \in 1 .. n - 1 : t[i] < t[i + 1]
  BY DEF Increasing
<1> HIDE DEF s, n, time
<1>6. ASSUME NEW i \in 1 .. Len(s) - 1 PROVE s[i] < s[i + 1]
  <2>1. CASE i = n
    BY <1>2, <1>3, <1>4, <2>1
  <2>2. CASE i # n
    <3>1. i \in 1 .. n - 1 /\ i \in 1 .. n /\ i + 1 \in 1 .. n
      BY <1>2, <1>3, <2>2
    <3> QED BY <1>3, <1>5, <3>1
  <2> QED BY <2>1, <2>2
<1>7. Increasing(s)
  BY <1>6 DEF Increasing
<1> QED BY <1>7 DEF s, time

\* While no row is refused, there is one time more for each, a later one.
LEMMA DecodingInOrder ==
  ASSUME NEW first \in Times, NEW column, NEW n \in Nat, NEW f,
         IsDecoding(f, first, column, n)
  PROVE  \A i \in 0 .. n : f[i].ok => Len(f[i].times) = i + 1 /\ Increasing(f[i].times)
<1> DEFINE InOrder(i) == f[i].ok => Len(f[i].times) = i + 1 /\ Increasing(f[i].times)
           S == {i \in Nat : i <= n => InOrder(i)}
<1>1. 0 \in S
  <2>1. f[0].times = <<first>>
    BY DEF IsDecoding, Start
  <2>2. Increasing(<<first>>)
    BY DEF Increasing
  <2> QED BY <2>1, <2>2
<1>2. ASSUME NEW i \in Nat, i \in S PROVE i + 1 \in S
  <2> SUFFICES ASSUME i + 1 <= n, f[i + 1].ok
               PROVE  Len(f[i + 1].times) = (i + 1) + 1 /\ Increasing(f[i + 1].times)
    OBVIOUS
  <2>1. i < n /\ i <= n /\ i \in 0 .. n
    OBVIOUS
  <2>2. f[i] \in States /\ f[i + 1] = DecodeRow(f[i])
    BY <2>1 DEF IsDecoding
  <2>3. DecodeRow(f[i]) # Refused
    BY <2>2 DEF Refused
  <2>4. f[i].ok
    BY <2>2, <2>3, RowIsLater
  <2>5. PICK delta \in 1 .. Half - 1 :
          LET time == f[i].times[Len(f[i].times)] + delta IN
          time \in Times /\ f[i + 1].times = Append(f[i].times, time)
    BY <2>2, <2>3, RowIsLater
  <2>6. InOrder(i)
    BY <1>2, <2>1
  <2>7. Len(f[i].times) = i + 1 /\ Increasing(f[i].times) /\ f[i].times \in Seq(Times)
    BY <2>2, <2>4, <2>6 DEF States
  <2>8. delta \in Nat /\ delta >= 1
    BY BaseFacts
  <2> DEFINE t == f[i].times
  <2> HIDE DEF t
  <2>9. Len(t) >= 1 /\ Len(t) = i + 1 /\ Increasing(t) /\ t \in Seq(Times)
    BY <2>7 DEF t
  <2>10. t[Len(t)] + delta \in Times /\ f[i + 1].times = Append(t, t[Len(t)] + delta)
    BY <2>5 DEF t
  <2>11. Increasing(Append(t, t[Len(t)] + delta))
    BY <2>8, <2>9, <2>10, IncreasingAppend
  <2>12. Len(Append(t, t[Len(t)] + delta)) = Len(t) + 1
    BY <2>9, <2>10
  <2> QED BY <2>9, <2>10, <2>11, <2>12
<1> HIDE DEF S
<1>3. Nat \subseteq S
  BY <1>1, <1>2, Induction
<1> QED BY <1>3 DEF S

\* A column of any bytes, accepted with any number of rows, is in order and of int64.
THEOREM DecodesAlwaysInOrder ==
  \A rows \in Nat \ {0}, length \in Nat : DecodesInOrder(rows, length)
<1> SUFFICES ASSUME NEW rows \in Nat \ {0}, NEW length \in Nat, NEW first \in Times,
                    NEW column \in [1 .. length -> ByteValues],
                    Decoded(first, column, rows) # <<>>
             PROVE  LET times == Decoded(first, column, rows) IN
                    Len(times) = rows /\ Increasing(times)
                    /\ \A i \in 1 .. rows : times[i] \in Times
  BY DEF DecodesInOrder
<1>1. column \in Seq(ByteValues)
  BY IsASeq
<1>2. PICK f : /\ IsDecoding(f, first, column, rows - 1)
               /\ Decoded(first, column, rows) =
                    IF f[rows - 1].ok /\ f[rows - 1].rest = <<>> THEN f[rows - 1].times
                    ELSE <<>>
  BY <1>1, DecodedDef
<1>3. f[rows - 1].ok /\ Decoded(first, column, rows) = f[rows - 1].times
  BY <1>2
<1>4. rows - 1 \in Nat /\ rows - 1 \in 0 .. rows - 1 /\ (rows - 1) + 1 = rows
  OBVIOUS
<1>5. Len(f[rows - 1].times) = (rows - 1) + 1 /\ Increasing(f[rows - 1].times)
  BY <1>2, <1>3, <1>4, DecodingInOrder
<1>6. f[rows - 1].times \in Seq(Times)
  BY <1>2, <1>4 DEF IsDecoding, States
<1> QED BY <1>3, <1>4, <1>5, <1>6

-----------------------------------------------------------------------------
(***************************************************************************)
(* The encoder, and the decoder after it.                                  *)
(***************************************************************************)

\* What the decoder takes for the delta before row i: none before the first.
Before(times, i) == IF i = 0 THEN 0 ELSE Delta(times, i)
Change(times, i) == Delta(times, i) - Before(times, i - 1)

LEMMA ChangeFacts ==
  ASSUME NEW times \in Seq(Times), Encodable(times)
  PROVE  \A i \in 1 .. Len(times) - 1 :
           /\ Delta(times, i) \in 1 .. Half - 1
           /\ Before(times, i - 1) \in 0 .. Half - 1
           /\ Change(times, i) \in Int
           /\ -Half < Change(times, i) /\ Change(times, i) < Half
<1>1. Times \subseteq Int /\ Half \in Nat /\ Half >= 1
  BY BaseFacts DEF Times
<1>2. ASSUME NEW i \in 1 .. Len(times) - 1 PROVE Delta(times, i) \in 1 .. Half - 1
  <2>1. times[i] \in Times /\ times[i + 1] \in Times
    OBVIOUS
  <2>2. Delta(times, i) \in Int
    <3>1. times[i] \in Int /\ times[i + 1] \in Int
      BY ONLY <1>1, <2>1
    <3> QED BY <3>1 DEF Delta
  <2>3. 0 < Delta(times, i) /\ Delta(times, i) < Half
    BY DEF Encodable
  <2> QED BY <1>1, <2>2, <2>3
<1>3. ASSUME NEW i \in 1 .. Len(times) - 1 PROVE Before(times, i - 1) \in 0 .. Half - 1
  <2>1. CASE i - 1 = 0
    BY <1>1, <2>1 DEF Before
  <2>2. CASE i - 1 # 0
    <3>1. i - 1 \in 1 .. Len(times) - 1
      BY <2>2
    <3> QED BY <1>1, <1>2, <2>2, <3>1 DEF Before
  <2> QED BY <2>1, <2>2
<1> QED BY <1>1, <1>2, <1>3 DEF Change

\* The columns of the first rows, each the one before with a change behind.
IsEncoding(e, times) ==
  /\ e \in [0 .. Len(times) - 1 -> Seq(ByteValues)]
  /\ e[0] = <<>>
  /\ \A i \in Nat : i < Len(times) - 1 =>
       e[i + 1] = e[i] \o Varint[Zigzag(Change(times, i + 1))]

LEMMA EncodedDef ==
  ASSUME NEW times \in Seq(Times), Len(times) >= 1, Encodable(times)
  PROVE  \E e : IsEncoding(e, times) /\ Encoded(times) = e[Len(times) - 1]
<1> DEFINE n == Len(times) - 1
           T == Seq(ByteValues)
           Step(i) == Varint[Zigzag(Change(times, i))]
           h == [p \in (1 .. n) \X T |-> p[2] \o Step(p[1])]
           change(i) == IF i = 1 THEN Delta(times, 1)
                        ELSE Delta(times, i) - Delta(times, i - 1)
           Columns(g) == [i \in 0 .. Len(times) - 1 |->
                            IF i = 0 THEN <<>> ELSE g[i - 1] \o Varint[Zigzag(change(i))]]
           upTo == CHOOSE g : g = Columns(g)
<1>1. n \in Nat
  OBVIOUS
<1>2. Encoded(times) = upTo[n]
  BY DEF Encoded
<1>3. ASSUME NEW i \in 1 .. n PROVE change(i) = Change(times, i)
  <2>1. Delta(times, i) \in Int
    BY ChangeFacts
  <2>2. i = 1 <=> i - 1 = 0
    OBVIOUS
  <2>3. i = 1 => Delta(times, 1) - 0 = Delta(times, 1)
    BY <2>1
  <2> QED BY <2>2, <2>3 DEF Change, Before
<1>4. \A i \in 1 .. n : Step(i) \in T
  <2> SUFFICES ASSUME NEW i \in 1 .. n PROVE Step(i) \in T
    OBVIOUS
  <2>1. Change(times, i) \in Int /\ -Half < Change(times, i) /\ Change(times, i) < Half
    BY ChangeFacts
  <2>2. Zigzag(Change(times, i)) \in Nat
    BY <2>1, ZigzagFacts
  <2> QED BY <2>2, VarintDef
<1> HIDE DEF change, Step
<1>5. h \in [(1 .. n) \X T -> T]
  BY <1>4
<1>6. \A i \in 1 .. n, t \in T : h[<<i, t>>] = t \o Step(i)
  OBVIOUS
<1>7. <<>> \in T
  OBVIOUS
<1> HIDE DEF h, T
<1>8. PICK f : IsIteratedTo(f, T, <<>>, n, h)
  BY <1>1, <1>5, <1>7, IterationTo
<1>9. f \in [0 .. n -> T]
      /\ \A i \in 0 .. n : f[i] = IF i = 0 THEN <<>> ELSE h[<<i, f[i - 1]>>]
  BY <1>8 DEF IsIteratedTo
<1>10. ASSUME NEW i \in 0 .. n
       PROVE  f[i] = IF i = 0 THEN <<>> ELSE f[i - 1] \o Varint[Zigzag(change(i))]
  <2>1. i # 0 => i \in 1 .. n /\ i - 1 \in 0 .. n
    OBVIOUS
  <2>2. i # 0 => f[i - 1] \in T
    BY <1>9, <2>1
  <2>3. f[i] = IF i = 0 THEN <<>> ELSE h[<<i, f[i - 1]>>]
    BY <1>9
  <2>4. i # 0 => h[<<i, f[i - 1]>>] = f[i - 1] \o Step(i)
    BY <1>6, <2>1, <2>2
  <2>5. i # 0 => Step(i) = Varint[Zigzag(change(i))]
    BY <1>3, <2>1 DEF Step
  <2> QED BY <2>3, <2>4, <2>5
<1>11. f = Columns(f)
  BY <1>9, <1>10
<1>12. upTo = Columns(upTo)
  BY <1>11
<1> HIDE DEF upTo
<1>13. \A i \in 0 .. n :
         upTo[i] = IF i = 0 THEN <<>> ELSE upTo[i - 1] \o Varint[Zigzag(change(i))]
  BY <1>12
<1>14. upTo[0] = <<>>
  BY <1>1, <1>13
<1>15. ASSUME NEW i \in Nat, i < n PROVE upTo[i + 1] = upTo[i] \o Step(i + 1)
  <2>1. i + 1 \in 0 .. n /\ i + 1 \in 1 .. n /\ i + 1 # 0 /\ (i + 1) - 1 = i
    BY <1>1, <1>15
  <2> QED BY <1>3, <1>13, <2>1 DEF Step
<1> DEFINE S == {i \in Nat : i <= n => upTo[i] \in T}
<1>16. 0 \in S
  BY <1>7, <1>14
<1>17. ASSUME NEW i \in Nat, i \in S PROVE i + 1 \in S
  <2> SUFFICES ASSUME i + 1 <= n PROVE upTo[i + 1] \in T
    OBVIOUS
  <2>1. i < n /\ i <= n /\ i + 1 \in 1 .. n
    BY <1>1
  <2>2. upTo[i] \in T /\ Step(i + 1) \in T
    BY <1>4, <1>17, <2>1
  <2>3. upTo[i] \o Step(i + 1) \in T
    BY <2>2 DEF T
  <2> QED BY <1>15, <2>1, <2>3
<1> HIDE DEF S
<1>18. Nat \subseteq S
  BY <1>16, <1>17, Induction
<1>19. \A i \in 0 .. n : upTo[i] \in T
  BY <1>1, <1>18 DEF S
<1>20. upTo \in [0 .. n -> T]
  BY <1>12, <1>19
<1>21. IsEncoding(upTo, times)
  BY <1>14, <1>15, <1>20 DEF IsEncoding, Step, T
<1> QED BY <1>2, <1>21

\* The decoder takes one change from the head of the column and adds it up.
LEMMA RowComesBack ==
  ASSUME NEW c \in Int, -Half < c, c < Half, NEW r \in Seq(ByteValues),
         NEW d \in Int, d + c \in 1 .. Half - 1,
         NEW t \in Seq(Times), t[Len(t)] + (d + c) \in Times
  PROVE  DecodeRow([ok |-> TRUE, rest |-> Varint[Zigzag(c)] \o r, delta |-> d, times |-> t])
           = [ok |-> TRUE, rest |-> r, delta |-> d + c,
              times |-> Append(t, t[Len(t)] + (d + c))]
<1> DEFINE u == Zigzag(c)
           s == Varint[u] \o r
           n == Len(Varint[u])
           state == [ok |-> TRUE, rest |-> s, delta |-> d, times |-> t]
<1>1. u \in Nat /\ Unzigzag(u) = c /\ u < 2 * Half
  BY ZigzagFacts
<1> HIDE DEF u
<1>2. VarintEnds(s) = {n} /\ VarintValue(s, n) = u /\ SubSeq(s, n + 1, Len(s)) = r
  BY <1>1, HeadOfColumn
<1> HIDE DEF s, n
<1>3. (CHOOSE end \in VarintEnds(s) : TRUE) = n /\ VarintEnds(s) # {}
  BY <1>2
<1>4. state.ok /\ state.rest = s /\ state.delta = d /\ state.times = t
  OBVIOUS
<1> HIDE DEF state
<1>5. DecodeRow(state)
        = [ok |-> TRUE, rest |-> r, delta |-> d + c, times |-> Append(t, t[Len(t)] + (d + c))]
  BY <1>1, <1>2, <1>3, <1>4 DEF DecodeRow
<1> QED BY <1>5 DEF state, s, u

\* After i rows of what the encoder wrote, with any bytes behind, the decoder has the
\* first times and delta, and these bytes left.
RowsRead(times, i, r) ==
  [ok |-> TRUE, rest |-> r, delta |-> Before(times, i), times |-> SubSeq(times, 1, i + 1)]

LEMMA RowsComeBack ==
  ASSUME NEW times \in Seq(Times), Len(times) >= 1, Encodable(times),
         NEW e, IsEncoding(e, times)
  PROVE  \A i \in 0 .. Len(times) - 1 : \A r \in Seq(ByteValues) : \A f :
           IsDecoding(f, times[1], e[i] \o r, Len(times) - 1) => f[i] = RowsRead(times, i, r)
<1> DEFINE n == Len(times) - 1
           Reads(i) == \A r \in Seq(ByteValues) : \A f :
             IsDecoding(f, times[1], e[i] \o r, n) => f[i] = RowsRead(times, i, r)
           S == {i \in Nat : i <= n => Reads(i)}
<1>1. n \in Nat
  OBVIOUS
<1>2. 0 \in S
  <2> SUFFICES ASSUME NEW r \in Seq(ByteValues), NEW f,
                      IsDecoding(f, times[1], e[0] \o r, n)
               PROVE  f[0] = RowsRead(times, 0, r)
    OBVIOUS
  <2>1. e[0] \o r = r
    BY DEF IsEncoding
  <2>2. f[0] = Start(times[1], r)
    BY <2>1 DEF IsDecoding
  <2>3. SubSeq(times, 1, 0 + 1) = <<times[1]>>
    <3>1. 0 + 1 = 1 /\ 1 \in 1 .. Len(times)
      OBVIOUS
    <3>2. SubSeq(times, 1, 1) \in Seq(Times) /\ Len(SubSeq(times, 1, 1)) = 1
          /\ SubSeq(times, 1, 1)[1] = times[1]
      BY <3>1
    <3>3. <<times[1]>> \in Seq(Times) /\ Len(<<times[1]>>) = 1 /\ <<times[1]>>[1] = times[1]
      BY <3>1
    <3> DEFINE s == SubSeq(times, 1, 1)
               u == <<times[1]>>
    <3> HIDE DEF s, u
    <3>4. s = u
      <4>1. s \in Seq(Times) /\ u \in Seq(Times) /\ Len(s) = Len(u)
        BY <3>2, <3>3 DEF s, u
      <4>2. \A j \in 1 .. Len(s) : s[j] = u[j]
        BY <3>2, <3>3 DEF s, u
      <4> QED BY <4>1, <4>2, SeqEqual
    <3> QED BY <3>1, <3>4 DEF s, u
  <2> QED BY <2>2, <2>3 DEF RowsRead, Start, Before
<1>3. ASSUME NEW i \in Nat, i \in S PROVE i + 1 \in S
  <2> SUFFICES ASSUME i + 1 <= n, NEW r \in Seq(ByteValues), NEW f,
                      IsDecoding(f, times[1], e[i + 1] \o r, n)
               PROVE  f[i + 1] = RowsRead(times, i + 1, r)
    OBVIOUS
  <2> DEFINE c == Change(times, i + 1)
             w == Varint[Zigzag(c)]
             d == Before(times, i)
             t == SubSeq(times, 1, i + 1)
  <2>1. i < n /\ i <= n /\ i \in 0 .. n /\ i + 1 \in 1 .. n /\ (i + 1) - 1 = i
    BY <1>1
  <2>2. /\ Delta(times, i + 1) \in 1 .. Half - 1 /\ d \in 0 .. Half - 1
        /\ c \in Int /\ -Half < c /\ c < Half
    BY <2>1, ChangeFacts
  <2>3. d + c = Delta(times, i + 1) /\ d \in Int
    <3>1. c = Delta(times, i + 1) - d
      BY <2>1 DEF Change
    <3> QED BY <2>2, <3>1, BaseFacts
  <2>4. w \in Seq(ByteValues)
    BY <2>2, ZigzagFacts, VarintDef
  <2>5. e[i] \in Seq(ByteValues) /\ e[i + 1] = e[i] \o w
    BY <2>1 DEF IsEncoding
  <2> HIDE DEF w, c, d
  <2>6. w \o r \in Seq(ByteValues) /\ e[i + 1] \o r = e[i] \o (w \o r)
    <3>1. (e[i] \o w) \o r = e[i] \o (w \o r)
      <4>1. \A x, y, z \in Seq(ByteValues) : (x \o y) \o z = x \o (y \o z)
        <5> SUFFICES ASSUME NEW x \in Seq(ByteValues), NEW y \in Seq(ByteValues),
                            NEW z \in Seq(ByteValues)
                     PROVE  (x \o y) \o z = x \o (y \o z)
          OBVIOUS
        <5> QED BY ONLY x \in Seq(ByteValues), y \in Seq(ByteValues),
                        z \in Seq(ByteValues), ConcatAssociative
      <4> QED BY ONLY <2>4, <2>5, <4>1, r \in Seq(ByteValues), Zenon
    <3>2. w \o r \in Seq(ByteValues)
      BY <2>4
    <3> QED BY ONLY <2>5, <3>1, <3>2, Zenon
  <2>7. f[i] = RowsRead(times, i, w \o r)
    BY <1>3, <2>1, <2>6
  <2>8. f[i + 1] = DecodeRow(f[i])
    BY <2>1 DEF IsDecoding
  <2>9. t \in Seq(Times) /\ Len(t) = i + 1 /\ t[i + 1] = times[i + 1]
    BY <2>1
  <2>10. times[i + 1] + Delta(times, i + 1) = times[i + 2] /\ times[i + 2] \in Times
    <3>1. i + 1 \in 1 .. Len(times) /\ i + 2 \in 1 .. Len(times) /\ (i + 1) + 1 = i + 2
      BY <2>1
    <3>2. times[i + 1] \in Times /\ times[i + 2] \in Times
      BY <3>1
    <3>3. times[i + 1] \in Int /\ times[i + 2] \in Int
      BY ONLY <3>2, BaseFacts DEF Times
    <3> QED BY <3>1, <3>2, <3>3 DEF Delta
  <2>11. Append(t, times[i + 2]) = SubSeq(times, 1, (i + 1) + 1)
    BY <2>1
  <2> HIDE DEF t
  <2>12. t[Len(t)] + (d + c) = times[i + 2]
    BY <2>3, <2>9, <2>10
  <2>13. DecodeRow([ok |-> TRUE, rest |-> w \o r, delta |-> d, times |-> t])
           = [ok |-> TRUE, rest |-> r, delta |-> d + c, times |-> Append(t, times[i + 2])]
    <3>1. d + c \in 1 .. Half - 1 /\ t[Len(t)] + (d + c) \in Times
      BY <2>2, <2>3, <2>10, <2>12
    <3>2. DecodeRow([ok |-> TRUE, rest |-> Varint[Zigzag(c)] \o r, delta |-> d, times |-> t])
            = [ok |-> TRUE, rest |-> r, delta |-> d + c,
               times |-> Append(t, t[Len(t)] + (d + c))]
      BY ONLY <2>2, <2>3, <2>9, <3>1, r \in Seq(ByteValues), RowComesBack
    <3> QED BY <2>12, <3>2 DEF w
  <2>14. d + c = Before(times, i + 1)
    BY <2>1, <2>3 DEF Before
  <2> QED BY <2>7, <2>8, <2>11, <2>13, <2>14 DEF RowsRead, d, t
<1> HIDE DEF S
<1>4. Nat \subseteq S
  BY <1>2, <1>3, Induction
<1> QED BY <1>1, <1>4 DEF S

\* What the encoder accepts comes back as it was, for every length of the column.
THEOREM AlwaysRoundTrips ==
  \A rows \in Nat \ {0} : RoundTrips(rows)
<1> SUFFICES ASSUME NEW rows \in Nat \ {0}, NEW times \in [1 .. rows -> Times],
                    Encodable(times)
             PROVE  Decoded(times[1], Encoded(times), rows) = times
  BY DEF RoundTrips
<1>1. times \in Seq(Times) /\ Len(times) = rows
  BY IsASeq
<1>2. rows - 1 \in 0 .. Len(times) - 1 /\ Len(times) - 1 = rows - 1 /\ Len(times) >= 1
  BY <1>1
<1>3. times[1] \in Times
  OBVIOUS
<1>4. PICK e : IsEncoding(e, times) /\ Encoded(times) = e[rows - 1]
  BY <1>1, <1>2, EncodedDef
<1> DEFINE column == e[rows - 1]
<1>5. column \in Seq(ByteValues) /\ column \o <<>> = column /\ <<>> \in Seq(ByteValues)
  BY <1>2, <1>4 DEF IsEncoding
<1>6. PICK f : /\ IsDecoding(f, times[1], column, rows - 1)
               /\ Decoded(times[1], column, rows) =
                    IF f[rows - 1].ok /\ f[rows - 1].rest = <<>> THEN f[rows - 1].times
                    ELSE <<>>
  BY <1>3, <1>5, DecodedDef
<1>7. f[rows - 1] = RowsRead(times, rows - 1, <<>>)
  <2>1. IsDecoding(f, times[1], e[rows - 1] \o <<>>, Len(times) - 1)
    BY <1>2, <1>5, <1>6
  <2>2. IsEncoding(e, times)
    BY <1>4
  <2>3. \A i \in 0 .. Len(times) - 1 : \A r \in Seq(ByteValues) : \A g :
          IsDecoding(g, times[1], e[i] \o r, Len(times) - 1) => g[i] = RowsRead(times, i, r)
    BY <1>1, <1>2, <2>2, RowsComeBack
  <2> QED BY ONLY <1>2, <1>5, <2>1, <2>3, Zenon
<1>8. SubSeq(times, 1, (rows - 1) + 1) = times
  BY <1>1
<1> QED BY <1>4, <1>6, <1>7, <1>8 DEF RowsRead

-----------------------------------------------------------------------------
(***************************************************************************)
(* In the run of a query.                                                  *)
(***************************************************************************)

\* Whatever the worker decodes, what was encoded comes back as it was.
THEOREM BlocksComeBack == Spec => []BlocksRoundTrip
<1>1. BlocksRoundTrip
  BY AlwaysRoundTrips DEF BlocksRoundTrip, MCRoundTrips, MCRows
<1> QED BY <1>1, PTL

\* Whatever the worker decodes, rows it accepts are in order.
THEOREM BlocksStayInOrder == Spec => []BlocksInOrder
<1>1. BlocksInOrder
  BY DecodesAlwaysInOrder DEF BlocksInOrder, MCInOrder, MCRows, MCLength
<1> QED BY <1>1, PTL
=============================================================================
