---------------------------- MODULE MerkleProofs ----------------------------
(***************************************************************************)
(* The Merkle tree, for a log of any length: the stored index of a         *)
(* subtree counts the subtrees completed before it, the carry loop stores  *)
(* exactly the subtrees that a leaf completes, what tlog puts together     *)
(* from stored hashes is the RFC 6962 hash of the range, and a proof made  *)
(* of such hashes leads to the root.                                       *)
(*                                                                         *)
(* The provers know nothing of powers of two: 2^n is got by counting the   *)
(* subsets of 1..n.  Nor do they know that a recursive definition defines  *)
(* anything: each recursion is shown to have a solution, by extending one  *)
(* that is defined up to a rank, and unfolded from there.  Inductions are  *)
(* on the smallest counterexample (SmallestOf).                            *)
(***************************************************************************)
EXTENDS AuditLog, FiniteSetTheorems, FunctionTheorems, TLAPS

-----------------------------------------------------------------------------
\* Powers of two and shifts.

\* A non-empty set of natural numbers has a smallest element.
LEMMA SmallestOf ==
    ASSUME NEW B \in SUBSET Nat, B # {}
    PROVE  \E m \in B : \A n \in B : m <= n
  <1>1. IsWellFoundedOn(OpToRel(<, Nat), Nat)
    BY NatLessThanWellFounded
  <1>2. PICK m \in B : \A n \in B : ~(<<n, m>> \in OpToRel(<, Nat))
    BY <1>1, WFMin
  <1>3. \A n \in B : ~(n < m)
    BY <1>2 DEF OpToRel
  <1> QED BY <1>3

\* Powers of two, by counting subsets.
LEMMA PowerStep ==
    ASSUME NEW n \in Nat
    PROVE  2^n \in Nat /\ 2^(n + 1) = 2 * 2^n
  <1> DEFINE S == 1..n
             T == 1..(n + 1)
             A == SUBSET S
             B == {U \cup {n + 1} : U \in A}
             f == [U \in A |-> U \cup {n + 1}]
  <1>1. /\ IsFiniteSet(S) /\ Cardinality(S) = n
        /\ IsFiniteSet(T) /\ Cardinality(T) = n + 1
    BY FS_Interval
  <1>2. /\ IsFiniteSet(A) /\ Cardinality(A) = 2^n
        /\ IsFiniteSet(SUBSET T) /\ Cardinality(SUBSET T) = 2^(n + 1)
    <2> HIDE DEF S, T
    <2> QED BY <1>1, FS_SUBSET
  <1>3. Cardinality(A) \in Nat
    BY <1>2, FS_CardinalityType
  <1>4. T = S \cup {n + 1} /\ n + 1 \notin S
    OBVIOUS
  <1>5. f \in Bijection(A, B)
    <2>1. f \in [A -> B]
      OBVIOUS
    <2>2. \A U, V \in A : f[U] = f[V] => U = V
      <3> SUFFICES ASSUME NEW U \in A, NEW V \in A, U \cup {n + 1} = V \cup {n + 1} PROVE U = V
        OBVIOUS
      <3>1. n + 1 \notin U /\ n + 1 \notin V
        BY <1>4
      <3> QED BY <3>1
    <2>3. \A W \in B : \E U \in A : f[U] = W
      OBVIOUS
    <2> HIDE DEF f, A, B
    <2> QED BY <2>1, <2>2, <2>3, Fun_IsBij
  <1>6. IsFiniteSet(B) /\ Cardinality(B) = 2^n
    <2> HIDE DEF f, A, B
    <2>1. ExistsBijection(A, B)
      BY <1>5 DEF ExistsBijection
    <2> QED BY <1>2, <2>1, FS_Bijection
  <1>7. SUBSET T = A \cup B
    <2>1. ASSUME NEW W \in SUBSET T PROVE W \in A \cup B
      <3>1. CASE n + 1 \in W
        <4>1. W \ {n + 1} \in A /\ W = (W \ {n + 1}) \cup {n + 1}
          BY <1>4, <3>1
        <4> QED BY <4>1
      <3>2. CASE n + 1 \notin W
        BY <1>4, <3>2
      <3> QED BY <3>1, <3>2
    <2>2. ASSUME NEW W \in A \cup B PROVE W \in SUBSET T
      BY <1>4
    <2> QED BY <2>1, <2>2
  <1>8. A \cap B = {}
    BY <1>4
  <1> HIDE DEF A, B, f, T, S
  <1>9. Cardinality(A \cup B) = Cardinality(A) + Cardinality(B) - Cardinality(A \cap B)
    BY <1>2, <1>6, FS_Union
  <1>10. Cardinality(A \cap B) = 0
    BY <1>8, FS_EmptySet
  <1> QED BY <1>2, <1>3, <1>6, <1>7, <1>9, <1>10

\* One leaf is a complete subtree.
LEMMA PowerZero == 2^0 = 1
OBVIOUS

\* A power of two is positive and larger than its exponent.
LEMMA PowerFacts ==
    ASSUME NEW n \in Nat
    PROVE  2^n \in Nat /\ 2^n >= 1 /\ n < 2^n
  <1> DEFINE B == {k \in Nat : ~(2^k >= 1 /\ k < 2^k)}
  <1>1. B = {}
    <2> SUFFICES ASSUME B # {} PROVE FALSE
      OBVIOUS
    <2>1. PICK m \in B : \A k \in B : m <= k
      <3>1. B \in SUBSET Nat
        OBVIOUS
      <3> HIDE DEF B
      <3> QED BY <3>1, SmallestOf
    <2>2. m \in Nat /\ ~(2^m >= 1 /\ m < 2^m)
      OBVIOUS
    <2>3. m # 0
      <3> SUFFICES ASSUME m = 0 PROVE 2^m = 1
        BY <2>2
      <3> QED BY PowerZero
    <2>4. m - 1 \in Nat /\ m - 1 \notin B
      BY <2>1, <2>2, <2>3
    <2>5. 2^(m - 1) >= 1 /\ m - 1 < 2^(m - 1)
      BY <2>4
    <2>6. 2^(m - 1) \in Nat /\ 2^((m - 1) + 1) = 2 * 2^(m - 1)
      BY <2>4, PowerStep
    <2>7. (m - 1) + 1 = m
      BY <2>2
    <2>8. 2^m = 2 * 2^(m - 1)
      BY <2>6, <2>7
    <2> QED BY <2>2, <2>5, <2>6, <2>8
  <1>2. n \notin B
    BY <1>1
  <1> QED BY <1>2, PowerStep

\* Exponents add.
LEMMA PowerAdd ==
    ASSUME NEW k \in Nat, NEW n \in Nat
    PROVE  2^(k + n) = 2^k * 2^n
  <1> DEFINE B == {j \in Nat : 2^(k + j) # 2^k * 2^j}
  <1>1. B = {}
    <2> SUFFICES ASSUME B # {} PROVE FALSE
      OBVIOUS
    <2>1. PICK m \in B : \A j \in B : m <= j
      <3>1. B \in SUBSET Nat
        OBVIOUS
      <3> HIDE DEF B
      <3> QED BY <3>1, SmallestOf
    <2>2. m \in Nat /\ 2^(k + m) # 2^k * 2^m
      OBVIOUS
    <2>3. m # 0
      <3> SUFFICES ASSUME m = 0 PROVE 2^(k + m) = 2^k * 2^m
        BY <2>2
      <3>1. 2^k \in Nat /\ k + m = k
        BY PowerFacts
      <3>2. 2^m = 1
        BY PowerZero
      <3> QED BY <3>1, <3>2
    <2>4. m - 1 \in Nat /\ m - 1 \notin B
      BY <2>1, <2>2, <2>3
    <2>5. 2^(k + (m - 1)) = 2^k * 2^(m - 1)
      BY <2>4
    <2>6. /\ 2^((m - 1) + 1) = 2 * 2^(m - 1)
          /\ 2^((k + (m - 1)) + 1) = 2 * 2^(k + (m - 1))
      BY <2>4, PowerStep
    <2>7. (m - 1) + 1 = m /\ (k + (m - 1)) + 1 = k + m
      BY <2>2
    <2>8. 2^k \in Nat /\ 2^(m - 1) \in Nat /\ 2^(k + (m - 1)) \in Nat
      BY <2>4, PowerFacts
    <2>9. 2^m = 2 * 2^(m - 1) /\ 2^(k + m) = 2 * (2^k * 2^(m - 1))
      BY <2>5, <2>6, <2>7
    <2>10. \A x, y \in Nat : 2 * (x * y) = x * (2 * y)
      OBVIOUS
    <2> QED BY <2>2, <2>8, <2>9, <2>10
  <1>2. n \notin B
    BY <1>1
  <1> QED BY <1>2

\* A larger power of two is at least twice as large.
LEMMA PowerOrder ==
    ASSUME NEW k \in Nat, NEW n \in Nat, k < n
    PROVE  2 * 2^k <= 2^n
  <1>1. n - (k + 1) \in Nat /\ (k + 1) + (n - (k + 1)) = n
    OBVIOUS
  <1>2. 2^n = 2^(k + 1) * 2^(n - (k + 1))
    BY <1>1, PowerAdd
  <1>3. 2^(k + 1) = 2 * 2^k /\ 2^k \in Nat
    BY PowerStep
  <1>4. 2^(n - (k + 1)) \in Nat /\ 2^(n - (k + 1)) >= 1
    BY <1>1, PowerFacts
  <1>5. \A x, y \in Nat : y >= 1 => x <= x * y
    OBVIOUS
  <1> QED BY <1>2, <1>3, <1>4, <1>5

\* The level of the split is unique ...
LEMMA SplitLevelIs ==
    ASSUME NEW n \in Nat, NEW l \in Nat, 2^l < n, n <= 2 * 2^l
    PROVE  SplitLevel(n) = l /\ Split(n) = 2^l
  <1>1. l < 2^l /\ 2^l \in Nat /\ 2^(l + 1) = 2 * 2^l
    BY PowerFacts, PowerStep
  <1>2. l \in 0..n /\ 2^l < n /\ n <= 2^(l + 1)
    BY <1>1
  <1>3. ASSUME NEW k \in 0..n, 2^k < n, n <= 2^(k + 1) PROVE k = l
    <2>1. k \in Nat /\ 2^k \in Nat /\ 2^(k + 1) = 2 * 2^k
      BY PowerFacts, PowerStep
    <2>2. k < l => 2 * 2^k <= 2^l
      BY <2>1, PowerOrder
    <2>3. l < k => 2 * 2^l <= 2^k
      BY <2>1, PowerOrder
    <2> QED BY <1>1, <1>3, <2>1, <2>2, <2>3
  <1>4. SplitLevel(n) = l
    BY <1>2, <1>3 DEF SplitLevel
  <1> QED BY <1>4 DEF Split

\* ... and exists for two leaves or more.
LEMMA SplitLevelSplits ==
    ASSUME NEW n \in Nat, n >= 2
    PROVE  /\ SplitLevel(n) \in Nat /\ Split(n) = 2^SplitLevel(n) /\ Split(n) \in Nat
           /\ 1 <= Split(n) /\ Split(n) < n /\ n <= 2 * Split(n)
  <1> DEFINE B == {l \in Nat : n <= 2 * 2^l}
  <1>1. n \in B
    BY PowerFacts
  <1>2. PICK l \in B : \A k \in B : l <= k
    <2>1. B \in SUBSET Nat /\ B # {}
      BY <1>1
    <2> HIDE DEF B
    <2> QED BY <2>1, SmallestOf
  <1>3. l \in Nat /\ n <= 2 * 2^l /\ 2^l \in Nat /\ 2^l >= 1
    BY PowerFacts
  <1>4. 2^l < n
    <2>1. CASE l = 0
      BY <2>1, PowerZero
    <2>2. CASE l # 0
      <3>1. l - 1 \in Nat /\ l - 1 \notin B /\ (l - 1) + 1 = l
        BY <1>2, <1>3, <2>2
      <3>2. ~(n <= 2 * 2^(l - 1)) /\ 2^(l - 1) \in Nat
        BY <3>1, PowerFacts
      <3>3. 2^l = 2 * 2^(l - 1)
        BY <3>1, PowerStep
      <3> QED BY <3>2, <3>3
    <2> QED BY <2>1, <2>2
  <1>5. SplitLevel(n) = l /\ Split(n) = 2^l
    BY <1>3, <1>4, SplitLevelIs
  <1> QED BY <1>3, <1>4, <1>5

\* Quotients.
LEMMA QuotientIs ==
    ASSUME NEW a \in Nat, NEW q \in Nat, NEW d \in Nat, d > 0, q * d <= a, a < (q + 1) * d
    PROVE  a \div d = q
OBVIOUS

\* The lowest bit and the rest.
LEMMA Halves ==
    ASSUME NEW n \in Nat
    PROVE  /\ n \div 2 \in Nat /\ n % 2 \in {0, 1}
           /\ n = 2 * (n \div 2) + (n % 2)
OBVIOUS

\* n >> l.
LEMMA ShiftBounds ==
    ASSUME NEW n \in Nat, NEW l \in Nat
    PROVE  /\ Shift(n, l) \in Nat
           /\ Shift(n, l) * 2^l <= n /\ n < (Shift(n, l) + 1) * 2^l
  <1>1. 2^l \in Nat /\ 2^l >= 1
    BY PowerFacts
  <1>2. \A d \in Nat : d >= 1 => /\ n \div d \in Nat
                                 /\ (n \div d) * d <= n /\ n < ((n \div d) + 1) * d
    OBVIOUS
  <1> QED BY <1>1, <1>2 DEF Shift

\* A shift is the quotient ...
LEMMA ShiftIs ==
    ASSUME NEW n \in Nat, NEW l \in Nat, NEW q \in Nat, q * 2^l <= n, n < (q + 1) * 2^l
    PROVE  Shift(n, l) = q
  <1>1. 2^l \in Nat /\ 2^l > 0
    BY PowerFacts
  <1>2. n \div 2^l = q
    <2> DEFINE d == 2^l
    <2>1. d \in Nat /\ d > 0 /\ q * d <= n /\ n < (q + 1) * d
      BY <1>1
    <2> HIDE DEF d
    <2>2. n \div d = q
      BY <2>1, QuotientIs
    <2> QED BY <2>2 DEF d
  <1> QED BY <1>2 DEF Shift

\* ... and takes one bit at a time.
LEMMA ShiftStep ==
    ASSUME NEW n \in Nat, NEW l \in Nat
    PROVE  Shift(n, l + 1) = Shift(n, l) \div 2
  <1> DEFINE s == Shift(n, l)
             d == 2^l
             q == s \div 2
  <1>1. s \in Nat /\ s * d <= n /\ n < (s + 1) * d
    BY ShiftBounds
  <1>2. d \in Nat /\ d >= 1 /\ 2^(l + 1) = 2 * d
    BY PowerFacts, PowerStep
  <1> HIDE DEF s, d
  <1>3. q \in Nat /\ 2 * q <= s /\ s + 1 <= 2 * (q + 1)
    BY <1>1
  <1> HIDE DEF q
  <1>4. (2 * q) * d <= s * d /\ (s + 1) * d <= (2 * (q + 1)) * d
    <2>1. \A x, y, z \in Nat : x <= y => x * z <= y * z
      OBVIOUS
    <2> QED BY <1>1, <1>2, <1>3, <2>1
  <1>5. (2 * q) * d = q * (2 * d) /\ (2 * (q + 1)) * d = (q + 1) * (2 * d)
    BY <1>2, <1>3
  <1>6. q * (2 * d) <= n /\ n < (q + 1) * (2 * d)
    <2>1. q * (2 * d) \in Nat /\ (q + 1) * (2 * d) \in Nat /\ s * d \in Nat /\ (s + 1) * d \in Nat
      BY <1>1, <1>2, <1>3
    <2> QED BY <1>1, <1>4, <1>5, <2>1
  <1>7. Shift(n, l + 1) = q
    BY <1>2, <1>3, <1>6, ShiftIs
  <1> QED BY <1>7 DEF q, s

\* No shift.
LEMMA ShiftZero ==
    ASSUME NEW n \in Nat
    PROVE  Shift(n, 0) = n
BY PowerZero DEF Shift

-----------------------------------------------------------------------------
\* Which subtrees are complete, and where their hashes are stored.

\* The subtrees that are complete in a tree of m leaves, as levels and numbers,
\* and how many there are.
Complete(m) == {s \in Nat \X Nat : (s[2] + 1) * 2^s[1] <= m}
Stored(m) == Cardinality(Complete(m))

\* A factor is not larger than the product.
LEMMA ProductBounds ==
    ASSUME NEW x \in Nat, NEW y \in Nat, NEW m \in Nat, y >= 1, (x + 1) * y <= m
    PROVE  x < m /\ y <= m
  <1>1. \A a, b \in Nat : b >= 1 => (a + 1) * b >= a + 1 /\ (a + 1) * b >= b
    OBVIOUS
  <1>2. (x + 1) * y >= x + 1 /\ (x + 1) * y >= y /\ (x + 1) * y \in Nat
    BY <1>1
  <1> QED BY <1>2

\* A complete subtree has a level and a number below the number of leaves.
LEMMA CompleteBounds ==
    ASSUME NEW m \in Nat, NEW s \in Complete(m)
    PROVE  /\ s \in Nat \X Nat /\ s = <<s[1], s[2]>>
           /\ s[1] \in Nat /\ s[2] \in Nat /\ s[1] < m /\ s[2] < m
  <1>1. s[1] \in Nat /\ s[2] \in Nat /\ (s[2] + 1) * 2^s[1] <= m /\ s = <<s[1], s[2]>>
    BY DEF Complete
  <1>2. 2^s[1] \in Nat /\ 2^s[1] >= 1 /\ s[1] < 2^s[1]
    BY <1>1, PowerFacts
  <1>3. s[2] < m /\ 2^s[1] <= m
    BY <1>1, <1>2, ProductBounds
  <1> QED BY <1>1, <1>2, <1>3

\* There are finitely many.
LEMMA CompleteFinite ==
    ASSUME NEW m \in Nat
    PROVE  IsFiniteSet(Complete(m)) /\ Stored(m) \in Nat
  <1>1. IsFiniteSet((0..m) \X (0..m))
    <2>1. IsFiniteSet(0..m)
      BY FS_Interval
    <2> QED BY <2>1, FS_Product
  <1>2. Complete(m) \subseteq (0..m) \X (0..m)
    <2> SUFFICES ASSUME NEW s \in Complete(m) PROVE s \in (0..m) \X (0..m)
      OBVIOUS
    <2>1. s = <<s[1], s[2]>> /\ s[1] \in 0..m /\ s[2] \in 0..m
      BY CompleteBounds
    <2> QED BY <2>1
  <1>3. IsFiniteSet(Complete(m))
    BY <1>1, <1>2, FS_Subset
  <1> QED BY <1>3, FS_CardinalityType DEF Stored

\* A longer log has no fewer.
LEMMA StoredMonotone ==
    ASSUME NEW m \in Nat, NEW n \in Nat, m <= n
    PROVE  Stored(m) <= Stored(n)
  <1>1. Complete(m) \subseteq Complete(n)
    <2> SUFFICES ASSUME NEW s \in Complete(m) PROVE s \in Complete(n)
      OBVIOUS
    <2>1. s \in Nat \X Nat /\ s[1] \in Nat /\ s[2] \in Nat /\ 2^s[1] \in Nat
      BY CompleteBounds, PowerFacts
    <2>2. (s[2] + 1) * 2^s[1] \in Nat
      BY <2>1
    <2>3. (s[2] + 1) * 2^s[1] <= m
      BY DEF Complete
    <2> QED BY <2>1, <2>2, <2>3 DEF Complete
  <1>2. IsFiniteSet(Complete(n))
    BY CompleteFinite
  <1> QED BY <1>1, <1>2, FS_Subset DEF Stored

\* An empty log has none.
LEMMA StoredNone == Stored(0) = 0
  <1>1. Complete(0) = {}
    <2> SUFFICES ASSUME NEW s \in Complete(0) PROVE FALSE
      OBVIOUS
    <2>1. s[1] \in Nat /\ s[1] < 0
      BY CompleteBounds
    <2> QED BY <2>1
  <1> QED BY <1>1, FS_EmptySet DEF Stored

\* The subtrees of m leaves are the leaves and, one level up, those of half as many.
LEMMA StoredHalf ==
    ASSUME NEW m \in Nat
    PROVE  Stored(m) = m + Stored(m \div 2)
  <1> DEFINE h == m \div 2
             C == Complete(h)
             A == {<<0, k>> : k \in 0..(m - 1)}
             up == [s \in C |-> <<s[1] + 1, s[2]>>]
             B == {<<s[1] + 1, s[2]>> : s \in C}
             leaf == [k \in 0..(m - 1) |-> <<0, k>>]
  <1>1. h \in Nat /\ IsFiniteSet(C) /\ Stored(h) \in Nat
    BY Halves, CompleteFinite
  <1>2. IsFiniteSet(A) /\ Cardinality(A) = m
    <2>1. IsFiniteSet(0..(m - 1)) /\ Cardinality(0..(m - 1)) = m
      BY FS_Interval
    <2>2. leaf \in Bijection(0..(m - 1), A)
      <3>1. leaf \in [0..(m - 1) -> A]
        OBVIOUS
      <3>2. \A j, k \in 0..(m - 1) : leaf[j] = leaf[k] => j = k
        OBVIOUS
      <3>3. \A s \in A : \E k \in 0..(m - 1) : leaf[k] = s
        OBVIOUS
      <3> HIDE DEF leaf, A
      <3> QED BY <3>1, <3>2, <3>3, Fun_IsBij
    <2>3. ExistsBijection(0..(m - 1), A)
      BY <2>2 DEF ExistsBijection
    <2> HIDE DEF A
    <2> QED BY <2>1, <2>3, FS_Bijection
  <1>3. IsFiniteSet(B) /\ Cardinality(B) = Stored(h)
    <2>1. up \in Bijection(C, B)
      <3>1. up \in [C -> B]
        OBVIOUS
      <3>2. \A s, t \in C : up[s] = up[t] => s = t
        <4> SUFFICES ASSUME NEW s \in C, NEW t \in C, up[s] = up[t] PROVE s = t
          OBVIOUS
        <4>1. /\ s = <<s[1], s[2]>> /\ s[1] \in Nat
              /\ t = <<t[1], t[2]>> /\ t[1] \in Nat
          BY <1>1, CompleteBounds
        <4>2. <<s[1] + 1, s[2]>> = <<t[1] + 1, t[2]>>
          OBVIOUS
        <4>3. s[1] + 1 = t[1] + 1 /\ s[2] = t[2]
          BY <4>2
        <4> QED BY <4>1, <4>3
      <3>3. \A t \in B : \E s \in C : up[s] = t
        OBVIOUS
      <3> HIDE DEF up, B, C
      <3> QED BY <3>1, <3>2, <3>3, Fun_IsBij
    <2>2. ExistsBijection(C, B)
      BY <2>1 DEF ExistsBijection
    <2> HIDE DEF B, C, h
    <2>3. IsFiniteSet(B) /\ Cardinality(B) = Cardinality(C)
      BY <1>1, <2>2, FS_Bijection
    <2> QED BY <2>3 DEF Stored, C
  <1>4. Complete(m) = A \cup B
    <2>1. ASSUME NEW s \in Complete(m) PROVE s \in A \cup B
      <3>1. s[1] \in Nat /\ s[2] \in Nat /\ s = <<s[1], s[2]>> /\ s[2] < m
        BY CompleteBounds
      <3>2. CASE s[1] = 0
        <4>1. s = <<0, s[2]>> /\ s[2] \in 0..(m - 1)
          BY <3>1, <3>2
        <4> QED BY <4>1
      <3>3. CASE s[1] # 0
        <4> DEFINE l == s[1] - 1
                   k == s[2]
        <4>1. l \in Nat /\ s[1] = l + 1 /\ k \in Nat
          BY <3>1, <3>3
        <4>2. 2^l \in Nat /\ 2^s[1] = 2 * 2^l
          BY <4>1, PowerStep
        <4>3. (k + 1) * 2^s[1] <= m
          BY DEF Complete
        <4>4. \A x \in Nat : (k + 1) * (2 * x) <= m => (k + 1) * x <= m \div 2
          <5> SUFFICES ASSUME NEW x \in Nat, (k + 1) * (2 * x) <= m PROVE (k + 1) * x <= m \div 2
            OBVIOUS
          <5> HIDE DEF k
          <5>1. (k + 1) * x \in Nat /\ (k + 1) * (2 * x) = 2 * ((k + 1) * x)
            BY <4>1
          <5> QED BY <5>1
        <4>5. (k + 1) * 2^l <= h
          BY <4>2, <4>3, <4>4
        <4>6. <<l, k>> \in C
          BY <4>1, <4>5 DEF Complete
        <4>7. s = <<<<l, k>>[1] + 1, <<l, k>>[2]>>
          BY <3>1, <4>1
        <4> QED BY <4>6, <4>7
      <3> QED BY <3>2, <3>3
    <2>2. ASSUME NEW s \in A PROVE s \in Complete(m)
      <3>1. PICK k \in 0..(m - 1) : s = <<0, k>>
        OBVIOUS
      <3>2. k \in Nat /\ (k + 1) * 1 <= m
        OBVIOUS
      <3>3. (k + 1) * 2^0 <= m
        BY <3>2, PowerZero
      <3> QED BY <3>1, <3>2, <3>3 DEF Complete
    <2>3. ASSUME NEW t \in B PROVE t \in Complete(m)
      <3>1. PICK s \in C : t = <<s[1] + 1, s[2]>>
        OBVIOUS
      <3> DEFINE l == s[1]
                 k == s[2]
      <3>2. l \in Nat /\ k \in Nat /\ 2^l \in Nat /\ 2^(l + 1) = 2 * 2^l
        BY <1>1, CompleteBounds, PowerStep
      <3>3. (k + 1) * 2^l <= h
        BY DEF Complete
      <3>4. \A x \in Nat : (k + 1) * x <= h => (k + 1) * (2 * x) <= m
        <4> SUFFICES ASSUME NEW x \in Nat, (k + 1) * x <= h PROVE (k + 1) * (2 * x) <= m
          OBVIOUS
        <4> HIDE DEF k
        <4>1. (k + 1) * x \in Nat /\ (k + 1) * (2 * x) = 2 * ((k + 1) * x)
          BY <3>2
        <4>2. 2 * h <= m
          BY Halves
        <4> QED BY <1>1, <4>1, <4>2
      <3>5. (k + 1) * 2^(l + 1) <= m
        BY <3>2, <3>3, <3>4
      <3> QED BY <3>1, <3>2, <3>5 DEF Complete
    <2> QED BY <2>1, <2>2, <2>3
  <1>5. A \cap B = {}
    <2> SUFFICES ASSUME NEW t \in A, t \in B PROVE FALSE
      OBVIOUS
    <2>1. PICK s \in C : t = <<s[1] + 1, s[2]>>
      OBVIOUS
    <2>2. s[1] \in Nat
      BY <1>1, CompleteBounds
    <2>3. t[1] = 0 /\ t[1] = s[1] + 1
      BY <2>1
    <2> QED BY <2>2, <2>3
  <1> HIDE DEF A, B, C, h
  <1>6. Cardinality(A \cup B) = Cardinality(A) + Cardinality(B) - Cardinality(A \cap B)
    BY <1>2, <1>3, FS_Union
  <1>7. Cardinality(A \cap B) = 0
    BY <1>5, FS_EmptySet
  <1>8. Stored(m) = m + Stored(h)
    BY <1>1, <1>2, <1>3, <1>4, <1>6, <1>7 DEF Stored
  <1> QED BY <1>8 DEF h

\* What the library's recursion counts.
BeforeOK(f, last) == f = [m \in 0..last |-> IF m = 0 THEN 0 ELSE m + f[m \div 2]]

\* The count solves the recursion of stored_hash_index ...
LEMMA BeforeExists ==
    ASSUME NEW last \in Nat
    PROVE  BeforeOK([m \in 0..last |-> Stored(m)], last)
  <1> DEFINE f == [m \in 0..last |-> Stored(m)]
  <1>1. ASSUME NEW m \in 0..last
        PROVE  f[m] = IF m = 0 THEN 0 ELSE m + f[m \div 2]
    <2>1. m \in Nat /\ m \div 2 \in 0..last
      BY Halves
    <2>2. Stored(m) = m + Stored(m \div 2)
      BY <2>1, StoredHalf
    <2>3. f[m] = Stored(m) /\ f[m \div 2] = Stored(m \div 2)
      BY <2>1
    <2> QED BY <2>2, <2>3, StoredNone
  <1>2. f = [m \in 0..last |-> f[m]]
    OBVIOUS
  <1> HIDE DEF f
  <1>3. [m \in 0..last |-> f[m]] = [m \in 0..last |-> IF m = 0 THEN 0 ELSE m + f[m \div 2]]
    BY <1>1
  <1>4. BeforeOK(f, last)
    BY <1>2, <1>3 DEF BeforeOK
  <1> QED BY <1>4 DEF f

\* ... and is its only solution.
LEMMA BeforeUnique ==
    ASSUME NEW last \in Nat, NEW f, BeforeOK(f, last)
    PROVE  \A m \in 0..last : f[m] = Stored(m)
  <1> DEFINE B == {m \in 0..last : f[m] # Stored(m)}
  <1> SUFFICES ASSUME B # {} PROVE FALSE
    OBVIOUS
  <1>1. PICK m \in B : \A j \in B : m <= j
    <2>1. B \in SUBSET Nat
      OBVIOUS
    <2> HIDE DEF B
    <2> QED BY <2>1, SmallestOf
  <1>2. m \in 0..last /\ m \in Nat /\ f[m] # Stored(m)
    OBVIOUS
  <1>3. f[m] = IF m = 0 THEN 0 ELSE m + f[m \div 2]
    BY <1>2, Zenon DEF BeforeOK
  <1>4. m # 0
    <2> SUFFICES ASSUME m = 0 PROVE f[m] = Stored(m)
      BY <1>2
    <2> QED BY <1>3, StoredNone
  <1>5. m \div 2 \in 0..last /\ m \div 2 < m
    BY <1>2, <1>4
  <1>6. f[m \div 2] = Stored(m \div 2)
    BY <1>1, <1>2, <1>5
  <1>7. Stored(m) = m + Stored(m \div 2)
    BY <1>2, StoredHalf
  <1> QED BY <1>2, <1>3, <1>4, <1>6, <1>7

\* The index of a stored hash: how many are complete before its last leaf, and its level.
LEMMA IndexIs ==
    ASSUME NEW l \in Nat, NEW k \in Nat, NEW n \in Nat, (k + 1) * 2^l = n + 1
    PROVE  StoredHashIndex(l, k) = Stored(n) + l
  <1> DEFINE last == k * 2^l + 2^l - 1
             f == CHOOSE f : BeforeOK(f, last)
  <1>1. last = n
    <2>1. \A x \in Nat : (k + 1) * x = k * x + x
      OBVIOUS
    <2>2. 2^l \in Nat
      BY PowerFacts
    <2>3. (k + 1) * 2^l = k * 2^l + 2^l
      BY <2>1, <2>2
    <2> QED BY <2>3
  <1>2. StoredHashIndex(l, k) = f[last] + l
    BY DEF StoredHashIndex, BeforeOK
  <1> HIDE DEF last
  <1>3. BeforeOK(f, last)
    <2>1. last \in Nat
      BY <1>1
    <2>2. \E g : BeforeOK(g, last)
      BY <2>1, BeforeExists
    <2> QED BY <2>2
  <1> HIDE DEF f
  <1>4. f[last] = Stored(last)
    BY <1>1, <1>3, BeforeUnique
  <1> QED BY <1>1, <1>2, <1>4

-----------------------------------------------------------------------------
\* What the carry loop of an append completes.

\* The carry loop ends at the lowest bit that is not set.
LEMMA CarriesFacts ==
    ASSUME NEW n \in Nat
    PROVE  /\ Carries(n) \in Nat /\ Shift(n, Carries(n)) % 2 = 0
           /\ \A k \in 0..(Carries(n) - 1) : Shift(n, k) % 2 = 1
  <1> DEFINE B == {l \in Nat : Shift(n, l) % 2 = 0}
  <1>1. n \in B
    <2>1. 2^n \in Nat /\ n < 2^n
      BY PowerFacts
    <2>2. 0 * 2^n <= n /\ n < (0 + 1) * 2^n
      BY <2>1
    <2>3. Shift(n, n) = 0
      BY <2>2, ShiftIs
    <2> QED BY <2>3
  <1>2. PICK l \in B : \A k \in B : l <= k
    <2>1. B \in SUBSET Nat /\ B # {}
      BY <1>1
    <2> HIDE DEF B
    <2> QED BY <2>1, SmallestOf
  <1>3. l \in Nat /\ l <= n /\ Shift(n, l) % 2 = 0
    BY <1>1, <1>2
  <1>4. ASSUME NEW k \in 0..(l - 1) PROVE Shift(n, k) % 2 = 1
    <2>1. k \in Nat /\ k \notin B
      BY <1>2, <1>3
    <2>2. Shift(n, k) % 2 # 0
      BY <2>1
    <2>3. Shift(n, k) \in Nat
      BY <2>1, ShiftBounds
    <2> QED BY <2>2, <2>3, Halves
  <1>5. \E j \in 0..(n + 1) : /\ Shift(n, j) % 2 = 0
                              /\ \A k \in 0..(j - 1) : Shift(n, k) % 2 = 1
    <2>1. l \in 0..(n + 1)
      BY <1>3
    <2> QED BY <1>3, <1>4, <2>1
  <1>6. /\ Carries(n) \in 0..(n + 1) /\ Shift(n, Carries(n)) % 2 = 0
        /\ \A k \in 0..(Carries(n) - 1) : Shift(n, k) % 2 = 1
    <2> HIDE DEF B
    <2> QED BY <1>5, Zenon DEF Carries
  <1> QED BY <1>6

\* A shift by one more of an odd number.
LEMMA OddStep ==
    ASSUME NEW s \in Nat, s % 2 = 1
    PROVE  s + 1 = 2 * (s \div 2 + 1)
OBVIOUS

\* Leaf n is the last one of the subtree at each level of its carry.
LEMMA CarryEnds ==
    ASSUME NEW n \in Nat, NEW l \in Nat, l <= Carries(n)
    PROVE  (Shift(n, l) + 1) * 2^l = n + 1
  <1> DEFINE c == Carries(n)
             B == {j \in 0..c : (Shift(n, j) + 1) * 2^j # n + 1}
  <1>1. c \in Nat /\ \A k \in 0..(c - 1) : Shift(n, k) % 2 = 1
    BY CarriesFacts
  <1> HIDE DEF c
  <1>2. B = {}
    <2> SUFFICES ASSUME B # {} PROVE FALSE
      OBVIOUS
    <2>1. PICK m \in B : \A j \in B : m <= j
      <3>1. B \in SUBSET Nat
        BY <1>1
      <3> HIDE DEF B
      <3> QED BY <3>1, SmallestOf
    <2>2. m \in Nat /\ m <= c /\ (Shift(n, m) + 1) * 2^m # n + 1
      BY <1>1
    <2>3. m # 0
      <3> SUFFICES ASSUME m = 0 PROVE (Shift(n, m) + 1) * 2^m = n + 1
        BY <2>2
      <3>1. Shift(n, m) = n /\ 2^m = 1
        BY ShiftZero, PowerZero
      <3> QED BY <3>1
    <2> DEFINE j == m - 1
    <2>4. j \in Nat /\ j \in 0..(c - 1) /\ j + 1 = m /\ j \notin B
      BY <1>1, <2>1, <2>2, <2>3
    <2>5. Shift(n, j) % 2 = 1 /\ Shift(n, j) \in Nat
      BY <1>1, <2>4, ShiftBounds
    <2>6. Shift(n, j) + 1 = 2 * (Shift(n, j) \div 2 + 1)
      BY <2>5, OddStep
    <2>7. (Shift(n, j) + 1) * 2^j = n + 1
      BY <1>1, <2>4
    <2> HIDE DEF j, B
    <2>8. 2^m = 2 * 2^j /\ 2^j \in Nat
      BY <2>4, PowerStep
    <2>9. Shift(n, m) = Shift(n, j) \div 2 /\ Shift(n, m) \in Nat
      BY <2>2, <2>4, ShiftStep, ShiftBounds
    <2>10. \A x, y \in Nat : (2 * (x + 1)) * y = (x + 1) * (2 * y)
      OBVIOUS
    <2>11. (2 * (Shift(n, m) + 1)) * 2^j = (Shift(n, m) + 1) * (2 * 2^j)
      BY <2>8, <2>9, <2>10
    <2> QED BY <2>2, <2>6, <2>7, <2>8, <2>9, <2>11
  <1>3. l \notin B /\ l \in 0..c
    BY <1>2 DEF c
  <1> QED BY <1>3

\* ... and of no other.
LEMMA CarryOf ==
    ASSUME NEW n \in Nat, NEW l \in Nat, NEW k \in Nat, (k + 1) * 2^l = n + 1
    PROVE  l <= Carries(n) /\ Shift(n, l) = k
  <1>1. 2^l \in Nat /\ 2^l >= 1
    BY PowerFacts
  <1>2. k * 2^l <= n /\ n < (k + 1) * 2^l
    <2>1. \A x \in Nat : x >= 1 /\ (k + 1) * x = n + 1 => k * x <= n /\ n < (k + 1) * x
      OBVIOUS
    <2> QED BY <1>1, <2>1
  <1>3. Shift(n, l) = k
    BY <1>2, ShiftIs
  <1>4. ASSUME Carries(n) < l PROVE FALSE
    <2> DEFINE c == Carries(n)
               d == (l - c) - 1
    <2>1. c \in Nat /\ Shift(n, c) % 2 = 0 /\ Shift(n, c) \in Nat
      BY CarriesFacts, ShiftBounds
    <2>2. (Shift(n, c) + 1) * 2^c = n + 1
      BY <2>1, CarryEnds
    <2>3. d \in Nat /\ l = c + (d + 1)
      BY <1>4, <2>1
    <2> HIDE DEF c, d
    <2>4. 2^l = 2^c * 2^(d + 1)
      BY <2>1, <2>3, PowerAdd
    <2>5. 2^(d + 1) = 2 * 2^d /\ 2^d \in Nat /\ 2^c \in Nat /\ 2^c >= 1
      BY <2>1, <2>3, PowerStep, PowerFacts
    <2> DEFINE e == (k + 1) * 2^d
    <2>6. e \in Nat /\ (k + 1) * (2^c * (2 * 2^d)) = (2 * e) * 2^c
      <3>1. \A x, y \in Nat : (k + 1) * y \in Nat /\ (k + 1) * (x * (2 * y)) = (2 * ((k + 1) * y)) * x
        OBVIOUS
      <3> QED BY <2>5, <3>1
    <2> HIDE DEF e
    <2>7. (2 * e) * 2^c = (Shift(n, c) + 1) * 2^c
      BY <2>2, <2>4, <2>5, <2>6
    <2>8. \A x, y, z \in Nat : z >= 1 /\ x * z = y * z => x = y
      OBVIOUS
    <2>9. 2 * e = Shift(n, c) + 1
      <3>1. 2 * e \in Nat /\ Shift(n, c) + 1 \in Nat
        BY <2>1, <2>6
      <3> QED BY <2>5, <2>7, <2>8, <3>1
    <2> QED BY <2>1, <2>6, <2>9
  <1>5. Carries(n) \in Nat
    BY CarriesFacts
  <1> QED BY <1>3, <1>4, <1>5

\* What leaf n completes: one subtree at each level of its carry.
LEMMA CompleteStep ==
    ASSUME NEW n \in Nat
    PROVE  /\ Complete(n + 1) = Complete(n) \cup {<<l, Shift(n, l)>> : l \in 0..Carries(n)}
           /\ Stored(n + 1) = Stored(n) + Carries(n) + 1
  <1> DEFINE c == Carries(n)
             A == {<<l, Shift(n, l)>> : l \in 0..c}
             f == [l \in 0..c |-> <<l, Shift(n, l)>>]
  <1>1. c \in Nat
    BY CarriesFacts
  <1>2. ASSUME NEW l \in 0..c
        PROVE  l \in Nat /\ Shift(n, l) \in Nat /\ (Shift(n, l) + 1) * 2^l = n + 1
    BY <1>1, CarryEnds, ShiftBounds
  <1>3. Complete(n + 1) = Complete(n) \cup A
    <2>1. ASSUME NEW s \in Complete(n + 1), s \notin Complete(n) PROVE s \in A
      <3>1. s[1] \in Nat /\ s[2] \in Nat /\ s = <<s[1], s[2]>> /\ s \in Nat \X Nat
        BY CompleteBounds
      <3>2. (s[2] + 1) * 2^s[1] <= n + 1 /\ ~((s[2] + 1) * 2^s[1] <= n)
        BY <2>1, <3>1 DEF Complete
      <3>3. (s[2] + 1) * 2^s[1] = n + 1
        <4>1. 2^s[1] \in Nat
          BY <3>1, PowerFacts
        <4>2. (s[2] + 1) * 2^s[1] \in Nat
          BY <3>1, <4>1
        <4> QED BY <3>2, <4>2
      <3>4. s[1] <= c /\ Shift(n, s[1]) = s[2]
        BY <3>1, <3>3, CarryOf
      <3> HIDE DEF c
      <3>5. s[1] \in 0..c /\ s = <<s[1], Shift(n, s[1])>>
        BY <1>1, <3>1, <3>4
      <3> QED BY <3>5
    <2>2. ASSUME NEW s \in A PROVE s \in Complete(n + 1)
      <3>1. PICK l \in 0..c : s = <<l, Shift(n, l)>>
        OBVIOUS
      <3>2. l \in Nat /\ Shift(n, l) \in Nat /\ (Shift(n, l) + 1) * 2^l = n + 1
        BY <1>2
      <3>3. (Shift(n, l) + 1) * 2^l <= n + 1
        BY <3>2
      <3> QED BY <3>1, <3>2, <3>3 DEF Complete
    <2>3. ASSUME NEW s \in Complete(n) PROVE s \in Complete(n + 1)
      <3>1. s \in Nat \X Nat /\ s[1] \in Nat /\ s[2] \in Nat /\ 2^s[1] \in Nat
        BY CompleteBounds, PowerFacts
      <3>2. (s[2] + 1) * 2^s[1] \in Nat
        BY <3>1
      <3>3. (s[2] + 1) * 2^s[1] <= n
        BY DEF Complete
      <3> QED BY <3>1, <3>2, <3>3 DEF Complete
    <2> HIDE DEF A
    <2> QED BY <2>1, <2>2, <2>3
  <1>4. Complete(n) \cap A = {}
    <2> SUFFICES ASSUME NEW s \in A, s \in Complete(n) PROVE FALSE
      OBVIOUS
    <2>1. PICK l \in 0..c : s = <<l, Shift(n, l)>>
      OBVIOUS
    <2>2. (Shift(n, l) + 1) * 2^l = n + 1
      BY <1>2
    <2>3. (Shift(n, l) + 1) * 2^l <= n
      <3>1. (s[2] + 1) * 2^s[1] <= n
        BY DEF Complete
      <3>2. s[1] = l /\ s[2] = Shift(n, l)
        BY <2>1
      <3> QED BY <3>1, <3>2
    <2> QED BY <2>2, <2>3
  <1>5. IsFiniteSet(A) /\ Cardinality(A) = c + 1
    <2>1. IsFiniteSet(0..c) /\ Cardinality(0..c) = c + 1
      BY <1>1, FS_Interval
    <2>2. f \in Bijection(0..c, A)
      <3>1. f \in [0..c -> A]
        OBVIOUS
      <3>2. \A j, k \in 0..c : f[j] = f[k] => j = k
        OBVIOUS
      <3>3. \A s \in A : \E l \in 0..c : f[l] = s
        OBVIOUS
      <3> HIDE DEF f, A, c
      <3> QED BY <3>1, <3>2, <3>3, Fun_IsBij
    <2>3. ExistsBijection(0..c, A)
      BY <2>2 DEF ExistsBijection
    <2> HIDE DEF A, c
    <2> QED BY <2>1, <2>3, FS_Bijection
  <1> HIDE DEF A, c
  <1>6. IsFiniteSet(Complete(n)) /\ Stored(n) \in Nat
    BY CompleteFinite
  <1>7. Cardinality(Complete(n) \cup A)
            = Cardinality(Complete(n)) + Cardinality(A) - Cardinality(Complete(n) \cap A)
    BY <1>5, <1>6, FS_Union
  <1>8. Cardinality(Complete(n) \cap A) = 0
    BY <1>4, FS_EmptySet
  <1>9. Stored(n + 1) = Stored(n) + c + 1
    <2>1. Stored(n + 1) = Stored(n) + Cardinality(A) - Cardinality(Complete(n) \cap A)
      BY <1>3, <1>7 DEF Stored
    <2> QED BY <1>1, <1>5, <1>6, <1>8, <2>1
  <1> QED BY <1>3, <1>9 DEF A, c

\* The subtrees of leaf n's carry follow one another.
LEMMA CarryIndex ==
    ASSUME NEW n \in Nat, NEW l \in Nat, l <= Carries(n)
    PROVE  StoredHashIndex(l, Shift(n, l)) = Stored(n) + l
  <1>1. (Shift(n, l) + 1) * 2^l = n + 1 /\ Shift(n, l) \in Nat
    BY CarryEnds, ShiftBounds
  <1> QED BY <1>1, IndexIs

\* A hash is stored once its subtree is complete, and not before.
LEMMA IndexBounds ==
    ASSUME NEW l \in Nat, NEW k \in Nat, NEW n \in Nat
    PROVE  /\ StoredHashIndex(l, k) \in Nat
           /\ StoredHashIndex(l, k) < Stored(n) <=> (k + 1) * 2^l <= n
  <1> DEFINE m == (k + 1) * 2^l - 1
  <1>1. m \in Nat /\ (k + 1) * 2^l = m + 1
    <2>1. 2^l \in Nat /\ 2^l >= 1
      BY PowerFacts
    <2>2. \A x \in Nat : x >= 1 => (k + 1) * x - 1 \in Nat /\ (k + 1) * x = ((k + 1) * x - 1) + 1
      <3> SUFFICES ASSUME NEW x \in Nat, x >= 1
                   PROVE (k + 1) * x - 1 \in Nat /\ (k + 1) * x = ((k + 1) * x - 1) + 1
        OBVIOUS
      <3>1. (k + 1) * x \in Nat /\ (k + 1) * x >= 1
        OBVIOUS
      <3> QED BY <3>1
    <2> QED BY <2>1, <2>2
  <1> HIDE DEF m
  <1>2. StoredHashIndex(l, k) = Stored(m) + l
    BY <1>1, IndexIs
  <1>3. l <= Carries(m) /\ Carries(m) \in Nat
    BY <1>1, CarryOf, CarriesFacts
  <1>4. Stored(m + 1) = Stored(m) + Carries(m) + 1
    BY <1>1, CompleteStep
  <1>5. Stored(m) \in Nat /\ Stored(n) \in Nat /\ Stored(m + 1) \in Nat
    BY <1>1, CompleteFinite
  <1>6. m + 1 <= n => Stored(m + 1) <= Stored(n)
    BY <1>1, StoredMonotone
  <1>7. n <= m => Stored(n) <= Stored(m)
    BY <1>1, StoredMonotone
  <1> QED BY <1>1, <1>2, <1>3, <1>4, <1>5, <1>6, <1>7

-----------------------------------------------------------------------------
\* The hash of a range of leaves.

\* The two parts of a range are shorter than the range.
RangeRank(size, r) == size + r[2] - r[1]

\* A range is a pair of bounds, and its rank is bounded.
LEMMA RangeFacts ==
    ASSUME NEW size \in Nat, NEW r \in Ranges(size)
    PROVE  /\ r = <<r[1], r[2]>> /\ r[1] \in 0..size /\ r[2] \in 0..size
           /\ RangeRank(size, r) \in Nat /\ RangeRank(size, r) <= 2 * size
BY DEF Ranges, RangeRank

\* A range of two leaves or more has two parts, both shorter.
LEMMA RangeParts ==
    ASSUME NEW size \in Nat, NEW r \in Ranges(size), ~IsLeaf(r)
    PROVE  /\ Mid(r) \in Nat /\ r[1] < Mid(r) /\ Mid(r) < r[2]
           /\ LeftPart(r) \in Ranges(size) /\ RightPart(r) \in Ranges(size)
           /\ RangeRank(size, LeftPart(r)) < RangeRank(size, r)
           /\ RangeRank(size, RightPart(r)) < RangeRank(size, r)
  <1>1. r[1] \in 0..size /\ r[2] \in 0..size
    BY RangeFacts
  <1>2. r[2] - r[1] \in Nat /\ r[2] - r[1] >= 2
    BY <1>1 DEF IsLeaf
  <1>3. Split(r[2] - r[1]) \in Nat /\ 1 <= Split(r[2] - r[1]) /\ Split(r[2] - r[1]) < r[2] - r[1]
    BY <1>2, SplitLevelSplits
  <1>4. Mid(r) \in Nat /\ r[1] < Mid(r) /\ Mid(r) < r[2]
    BY <1>1, <1>3 DEF Mid
  <1>5. Mid(r) \in 0..size
    BY <1>1, <1>4
  <1> QED BY <1>1, <1>4, <1>5 DEF LeftPart, RightPart, Ranges, RangeRank

-----------------------------------------------------------------------------
\* The equation of RangeHash, and a solution of it up to a rank.
HashBody(g, leaves, r) ==
    IF IsLeaf(r) THEN leaves[r[2]] ELSE Node(g[LeftPart(r)], g[RightPart(r)])

HashUpTo(g, leaves, n) ==
    g = [r \in Ranges(Len(leaves)) |->
            IF RangeRank(Len(leaves), r) < n THEN HashBody(g, leaves, r) ELSE 0]

\* There is a solution up to every rank.
LEMMA HashSolvable ==
    ASSUME NEW leaves, Len(leaves) \in Nat, NEW n \in Nat
    PROVE  \E g : HashUpTo(g, leaves, n)
  <1> DEFINE size == Len(leaves)
             D == Ranges(size)
             B == {k \in Nat : ~\E g : HashUpTo(g, leaves, k)}
  <1> SUFFICES ASSUME B # {} PROVE FALSE
    OBVIOUS
  <1>1. PICK m \in B : \A k \in B : m <= k
    <2>1. B \in SUBSET Nat
      OBVIOUS
    <2> HIDE DEF B
    <2> QED BY <2>1, SmallestOf
  <1>2. m \in Nat /\ ~\E g : HashUpTo(g, leaves, m)
    OBVIOUS
  <1>3. m # 0
    <2> SUFFICES ASSUME m = 0 PROVE HashUpTo([r \in D |-> 0], leaves, m)
      BY <1>2
    <2>1. \A r \in D : ~(RangeRank(size, r) < m)
      BY RangeFacts
    <2> QED BY <2>1 DEF HashUpTo
  <1>4. PICK g : HashUpTo(g, leaves, m - 1)
    <2>1. m - 1 \in Nat /\ m - 1 \notin B
      BY <1>1, <1>2, <1>3
    <2> QED BY <2>1
  <1> DEFINE h == [r \in D |-> IF RangeRank(size, r) < m THEN HashBody(g, leaves, r) ELSE 0]
  <1>5. ASSUME NEW r \in D, RangeRank(size, r) < m PROVE HashBody(g, leaves, r) = HashBody(h, leaves, r)
    <2>1. ASSUME NEW s \in D, RangeRank(size, s) < RangeRank(size, r) PROVE g[s] = h[s]
      <3>1. RangeRank(size, s) < m /\ RangeRank(size, s) < m - 1
        BY <1>2, <1>5, <2>1, RangeFacts
      <3>2. g[s] = HashBody(g, leaves, s)
        BY <1>4, <3>1, Zenon DEF HashUpTo
      <3> QED BY <3>1, <3>2
    <2>2. CASE IsLeaf(r)
      BY <2>2 DEF HashBody
    <2>3. CASE ~IsLeaf(r)
      <3>1. g[LeftPart(r)] = h[LeftPart(r)] /\ g[RightPart(r)] = h[RightPart(r)]
        <4> HIDE DEF h
        <4> QED BY <2>1, <2>3, RangeParts
      <3> HIDE DEF h
      <3> QED BY <2>3, <3>1 DEF HashBody
    <2> QED BY <2>2, <2>3
  <1>6. h = [r \in D |-> IF RangeRank(size, r) < m THEN HashBody(h, leaves, r) ELSE 0]
    <2> DEFINE k == [r \in D |-> IF RangeRank(size, r) < m THEN HashBody(h, leaves, r) ELSE 0]
    <2>1. \A r \in D : h[r] = k[r]
      <3> SUFFICES ASSUME NEW r \in D PROVE h[r] = k[r]
        OBVIOUS
      <3>1. h[r] = (IF RangeRank(size, r) < m THEN HashBody(g, leaves, r) ELSE 0)
        OBVIOUS
      <3>2. k[r] = (IF RangeRank(size, r) < m THEN HashBody(h, leaves, r) ELSE 0)
        OBVIOUS
      <3> HIDE DEF h, k
      <3> QED BY <1>5, <3>1, <3>2
    <2>2. h = [r \in D |-> h[r]] /\ k = [r \in D |-> k[r]]
      OBVIOUS
    <2> HIDE DEF h, k
    <2>3. h = k
      BY <2>1, <2>2
    <2> QED BY <2>3 DEF k
  <1>7. HashUpTo(h, leaves, m)
    <2> HIDE DEF h
    <2> QED BY <1>6 DEF HashUpTo
  <1> HIDE DEF h
  <1> QED BY <1>2, <1>7

HashOK(g, leaves) == g = [r \in Ranges(Len(leaves)) |-> HashBody(g, leaves, r)]

\* The hash of a range is that of its leaf, or of its two parts.
LEMMA RangeHashUnfold ==
    ASSUME NEW leaves, Len(leaves) \in Nat, NEW r \in Ranges(Len(leaves))
    PROVE  RangeHash(leaves, r) =
             IF IsLeaf(r) THEN leaves[r[2]]
             ELSE Node(RangeHash(leaves, LeftPart(r)), RangeHash(leaves, RightPart(r)))
  <1> DEFINE f == CHOOSE g : HashOK(g, leaves)
             n == 2 * Len(leaves) + 1
  <1>1. PICK g : HashUpTo(g, leaves, n)
    <2>1. n \in Nat
      OBVIOUS
    <2> HIDE DEF n
    <2> QED BY <2>1, HashSolvable
  <1>2. \A s \in Ranges(Len(leaves)) : RangeRank(Len(leaves), s) < n
    BY RangeFacts
  <1>3. HashOK(g, leaves)
    <2> HIDE DEF n
    <2> QED BY <1>1, <1>2 DEF HashUpTo, HashOK
  <1>4. HashOK(f, leaves)
    BY <1>3
  <1>5. \A s : RangeHash(leaves, s) = f[s]
    BY Zenon DEF RangeHash, HashOK, HashBody
  <1> HIDE DEF f
  <1>6. f[r] = HashBody(f, leaves, r)
    BY <1>4, Zenon DEF HashOK
  <1> QED BY <1>5, <1>6 DEF HashBody

-----------------------------------------------------------------------------
\* Complete subtrees and the carry.

\* The hash of a range depends on its leaves only.
LEMMA RangeHashPrefix ==
    ASSUME NEW leaves, NEW more, Len(leaves) \in Nat, Len(more) \in Nat, Len(leaves) <= Len(more),
           \A i \in 1..Len(leaves) : leaves[i] = more[i],
           NEW r \in Ranges(Len(leaves)), r[1] < r[2]
    PROVE  RangeHash(leaves, r) = RangeHash(more, r)
  <1> DEFINE size == Len(leaves)
             Bad(s) == s[1] < s[2] /\ RangeHash(leaves, s) # RangeHash(more, s)
             B == {k \in Nat : \E s \in Ranges(size) : Bad(s) /\ RangeRank(size, s) = k}
  <1>1. B = {}
    <2> SUFFICES ASSUME B # {} PROVE FALSE
      OBVIOUS
    <2>1. PICK m \in B : \A k \in B : m <= k
      <3>1. B \in SUBSET Nat
        OBVIOUS
      <3> HIDE DEF B
      <3> QED BY <3>1, SmallestOf
    <2>2. PICK s \in Ranges(size) : Bad(s) /\ RangeRank(size, s) = m
      OBVIOUS
    <2>3. s[1] \in 0..size /\ s[2] \in 0..size /\ s \in Ranges(Len(more))
      <3>1. s = <<s[1], s[2]>> /\ s[1] \in 0..size /\ s[2] \in 0..size
        BY RangeFacts
      <3>2. s[1] \in 0..Len(more) /\ s[2] \in 0..Len(more)
        BY <3>1
      <3> QED BY <3>1, <3>2 DEF Ranges
    <2>4. /\ RangeHash(leaves, s) = IF IsLeaf(s) THEN leaves[s[2]]
             ELSE Node(RangeHash(leaves, LeftPart(s)), RangeHash(leaves, RightPart(s)))
          /\ RangeHash(more, s) = IF IsLeaf(s) THEN more[s[2]]
             ELSE Node(RangeHash(more, LeftPart(s)), RangeHash(more, RightPart(s)))
      BY <2>3, RangeHashUnfold
    <2>5. CASE IsLeaf(s)
      <3>1. leaves[s[2]] = more[s[2]]
        BY <2>2, <2>3
      <3> QED BY <2>2, <2>4, <2>5, <3>1
    <2>6. CASE ~IsLeaf(s)
      <3>1. /\ s[1] < Mid(s) /\ Mid(s) < s[2]
            /\ LeftPart(s) \in Ranges(size) /\ RightPart(s) \in Ranges(size)
            /\ RangeRank(size, LeftPart(s)) < m
            /\ RangeRank(size, RightPart(s)) < m
        BY <2>2, <2>6, RangeParts
      <3>2. /\ RangeRank(size, LeftPart(s)) \in Nat /\ RangeRank(size, RightPart(s)) \in Nat
            /\ LeftPart(s)[1] < LeftPart(s)[2] /\ RightPart(s)[1] < RightPart(s)[2]
        BY <3>1, RangeFacts DEF LeftPart, RightPart
      <3>3. ASSUME NEW p \in Ranges(size), RangeRank(size, p) \in Nat, RangeRank(size, p) < m
            PROVE ~Bad(p)
        <4>1. RangeRank(size, p) \notin B
          BY <2>1, <3>3
        <4> QED BY <3>3, <4>1
      <3>4. ~Bad(LeftPart(s)) /\ ~Bad(RightPart(s))
        <4> HIDE DEF Bad
        <4> QED BY <3>1, <3>2, <3>3
      <3>5. /\ RangeHash(leaves, LeftPart(s)) = RangeHash(more, LeftPart(s))
            /\ RangeHash(leaves, RightPart(s)) = RangeHash(more, RightPart(s))
        BY <3>2, <3>4
      <3> QED BY <2>2, <2>4, <2>6, <3>5
    <2> QED BY <2>5, <2>6
  <1>2. RangeRank(size, r) \in Nat
    BY RangeFacts
  <1>3. RangeRank(size, r) \notin B
    BY <1>1
  <1> QED BY <1>2, <1>3

\* The leaves of a complete subtree.
SubtreeRange(l, k) == <<k * 2^l, (k + 1) * 2^l>>

\* They are leaves of the log, 2^l of them.
LEMMA SubtreeRangeFacts ==
    ASSUME NEW l \in Nat, NEW k \in Nat, NEW size \in Nat, (k + 1) * 2^l <= size
    PROVE  /\ SubtreeRange(l, k) \in Ranges(size)
           /\ SubtreeRange(l, k)[1] < SubtreeRange(l, k)[2]
           /\ SubtreeRange(l, k)[2] = SubtreeRange(l, k)[1] + 2^l
           /\ SubtreeRange(l, k)[2] \in Nat
  <1>1. 2^l \in Nat /\ 2^l >= 1
    BY PowerFacts
  <1>2. \A x \in Nat : x >= 1 => /\ k * x \in Nat /\ (k + 1) * x \in Nat
                                 /\ (k + 1) * x = k * x + x
    OBVIOUS
  <1>3. k * 2^l \in Nat /\ (k + 1) * 2^l \in Nat /\ (k + 1) * 2^l = k * 2^l + 2^l
    BY <1>1, <1>2
  <1>4. k * 2^l \in 0..size /\ (k + 1) * 2^l \in 0..size
    BY <1>1, <1>3
  <1> QED BY <1>1, <1>3, <1>4 DEF SubtreeRange, Ranges

\* The hash of a subtree at level 0 is the leaf ...
LEMMA LeafHash ==
    ASSUME NEW leaves, Len(leaves) \in Nat, NEW k \in Nat, k < Len(leaves)
    PROVE  RangeHash(leaves, SubtreeRange(0, k)) = leaves[k + 1]
  <1>1. 2^0 = 1
    BY PowerZero
  <1>2. SubtreeRange(0, k) = <<k, k + 1>>
    BY <1>1 DEF SubtreeRange
  <1>3. <<k, k + 1>> \in Ranges(Len(leaves)) /\ IsLeaf(<<k, k + 1>>)
    BY DEF Ranges, IsLeaf
  <1>4. RangeHash(leaves, <<k, k + 1>>) = leaves[<<k, k + 1>>[2]]
    BY <1>3, RangeHashUnfold
  <1> QED BY <1>2, <1>4

\* ... and at a higher level the node of its two children.
LEMMA ParentHash ==
    ASSUME NEW leaves, Len(leaves) \in Nat, NEW l \in Nat, NEW k \in Nat,
           (k + 1) * 2^(l + 1) <= Len(leaves)
    PROVE  RangeHash(leaves, SubtreeRange(l + 1, k)) =
             Node(RangeHash(leaves, SubtreeRange(l, 2 * k)),
                  RangeHash(leaves, SubtreeRange(l, 2 * k + 1)))
  <1> DEFINE r == SubtreeRange(l + 1, k)
             d == 2^l
  <1>1. d \in Nat /\ d >= 1 /\ 2^(l + 1) = 2 * d
    BY PowerFacts, PowerStep
  <1>2. r \in Ranges(Len(leaves))
    BY SubtreeRangeFacts
  <1> HIDE DEF d
  <1>3. \A x \in Nat : /\ k * (2 * x) = (2 * k) * x
                       /\ k * (2 * x) + x = (2 * k + 1) * x
                       /\ (k + 1) * (2 * x) = ((2 * k + 1) + 1) * x
                       /\ (k + 1) * (2 * x) - k * (2 * x) = 2 * x
                       /\ k * (2 * x) \in Nat
    OBVIOUS
  <1>4. r[1] = k * (2 * d) /\ r[2] = (k + 1) * (2 * d)
    BY <1>1 DEF SubtreeRange
  <1>5. r[2] - r[1] = 2 * d /\ r[1] \in Nat
    BY <1>1, <1>3, <1>4
  <1>6. ~IsLeaf(r)
    <2>1. r[2] \in Nat
      BY <1>2, RangeFacts
    <2> HIDE DEF r
    <2> QED BY <1>1, <1>5, <2>1 DEF IsLeaf
  <1>7. Split(2 * d) = d
    <2>1. 2 * d \in Nat /\ 2^l < 2 * d /\ 2 * d <= 2 * 2^l
      BY <1>1 DEF d
    <2>2. Split(2 * d) = 2^l
      <3> HIDE DEF d
      <3> QED BY <2>1, SplitLevelIs
    <2> QED BY <2>2 DEF d
  <1>8. Mid(r) = (2 * k + 1) * d
    <2>1. Mid(r) = r[1] + d
      <3> HIDE DEF r
      <3> QED BY <1>5, <1>7 DEF Mid
    <2>2. k * (2 * d) + d = (2 * k + 1) * d
      BY <1>1, <1>3
    <2> HIDE DEF r
    <2> QED BY <1>4, <2>1, <2>2
  <1>9. LeftPart(r) = SubtreeRange(l, 2 * k) /\ RightPart(r) = SubtreeRange(l, 2 * k + 1)
    <2>1. r[1] = (2 * k) * d /\ r[2] = ((2 * k + 1) + 1) * d
      BY <1>1, <1>3, <1>4
    <2> HIDE DEF r
    <2> QED BY <1>8, <2>1 DEF LeftPart, RightPart, SubtreeRange, d
  <1>10. RangeHash(leaves, r) = Node(RangeHash(leaves, LeftPart(r)), RangeHash(leaves, RightPart(r)))
    BY <1>2, <1>6, RangeHashUnfold
  <1> HIDE DEF r
  <1>11. RangeHash(leaves, r) = Node(RangeHash(leaves, SubtreeRange(l, 2 * k)),
                                     RangeHash(leaves, SubtreeRange(l, 2 * k + 1)))
    BY <1>9, <1>10
  <1> QED BY <1>11 DEF r

-----------------------------------------------------------------------------
\* What the carry loop stores, and where.
CarryOK(f, h, n, leaf) ==
    f = [level \in 0..Carries(n) |->
            IF level = 0 THEN leaf ELSE Node(h[LeftSibling(n, level - 1)], f[level - 1])]

\* The recursion of ToStore has one solution.
LEMMA CarryUnique ==
    ASSUME NEW h, NEW n \in Nat, NEW leaf, NEW f, NEW g, CarryOK(f, h, n, leaf), CarryOK(g, h, n, leaf)
    PROVE  \A l \in 0..Carries(n) : f[l] = g[l]
  <1> DEFINE c == Carries(n)
             B == {l \in 0..c : f[l] # g[l]}
  <1> SUFFICES ASSUME B # {} PROVE FALSE
    OBVIOUS
  <1>1. PICK m \in B : \A j \in B : m <= j
    <2>1. B \in SUBSET Nat
      OBVIOUS
    <2> HIDE DEF B
    <2> QED BY <2>1, SmallestOf
  <1>2. m \in 0..c /\ m \in Nat /\ f[m] # g[m]
    OBVIOUS
  <1>3. /\ f[m] = IF m = 0 THEN leaf ELSE Node(h[LeftSibling(n, m - 1)], f[m - 1])
        /\ g[m] = IF m = 0 THEN leaf ELSE Node(h[LeftSibling(n, m - 1)], g[m - 1])
    BY <1>2, Zenon DEF CarryOK
  <1>4. CASE m = 0
    BY <1>2, <1>3, <1>4
  <1>5. CASE m # 0
    <2>1. m - 1 \in 0..c /\ m - 1 \notin B
      BY <1>1, <1>2, <1>5, CarriesFacts
    <2>2. f[m - 1] = g[m - 1]
      BY <2>1
    <2> QED BY <1>2, <1>3, <1>5, <2>2
  <1> QED BY <1>4, <1>5

\* An append stores that solution, level by level, behind what is stored.
LEMMA ToStoreIs ==
    ASSUME NEW h, NEW n \in Nat, NEW leaf, NEW g, CarryOK(g, h, n, leaf)
    PROVE  /\ DOMAIN ToStore(h, n, leaf) = Stored(n)..(Stored(n) + Carries(n))
           /\ \A l \in 0..Carries(n) : ToStore(h, n, leaf)[Stored(n) + l] = g[l]
  <1> DEFINE f == CHOOSE f : CarryOK(f, h, n, leaf)
             c == Carries(n)
             index(level) == StoredHashIndex(level, Shift(n, level))
             S == {index(level) : level \in 0..c}
             at(i) == CHOOSE level \in 0..c : index(level) = i
  <1>1. ToStore(h, n, leaf) = [i \in S |-> f[at(i)]]
    BY Zenon DEF ToStore, CarryOK
  <1>2. CarryOK(f, h, n, leaf)
    OBVIOUS
  <1>3. \A l \in 0..c : f[l] = g[l]
    <2> HIDE DEF f
    <2> QED BY <1>2, CarryUnique
  <1> HIDE DEF f
  <1>4. c \in Nat /\ Stored(n) \in Nat
    BY CarriesFacts, CompleteFinite
  <1>5. \A l \in 0..c : index(l) = Stored(n) + l
    BY <1>4, CarryIndex
  <1> HIDE DEF c, index
  <1>6. S = Stored(n)..(Stored(n) + c)
    <2>1. ASSUME NEW i \in Stored(n)..(Stored(n) + c) PROVE i \in S
      <3>1. i - Stored(n) \in 0..c /\ i = Stored(n) + (i - Stored(n))
        BY <1>4
      <3>2. index(i - Stored(n)) = i
        BY <1>5, <3>1
      <3> QED BY <3>1, <3>2
    <2>2. ASSUME NEW i \in S PROVE i \in Stored(n)..(Stored(n) + c)
      BY <1>4, <1>5
    <2> HIDE DEF S
    <2> QED BY <2>1, <2>2
  <1>7. ASSUME NEW l \in 0..c PROVE at(Stored(n) + l) = l /\ Stored(n) + l \in S
    <2>1. \A k \in 0..c : index(k) = Stored(n) + l => k = l
      BY <1>4, <1>5
    <2>2. index(l) = Stored(n) + l
      BY <1>5
    <2>3. at(Stored(n) + l) \in 0..c /\ index(at(Stored(n) + l)) = Stored(n) + l
      BY <2>2
    <2> HIDE DEF at
    <2> QED BY <2>1, <2>2, <2>3
  <1> HIDE DEF S, at
  <1>8. \A l \in 0..c : ToStore(h, n, leaf)[Stored(n) + l] = g[l]
    BY <1>1, <1>3, <1>7
  <1>9. DOMAIN ToStore(h, n, leaf) = Stored(n)..(Stored(n) + c)
    BY <1>1, <1>6
  <1> QED BY <1>8, <1>9 DEF c

-----------------------------------------------------------------------------
\* Ranges put together from stored hashes.

\* The largest complete subtree at the left end of a range.
LEMMA LeftFacts ==
    ASSUME NEW lo \in Nat, NEW hi \in Nat, lo < hi
    PROVE  /\ LeftLevel(lo, hi) \in Nat /\ 2^LeftLevel(lo, hi) \in Nat
           /\ LeftEnd(lo, hi) = lo + 2^LeftLevel(lo, hi)
           /\ LeftEnd(lo, hi) \in Nat /\ lo < LeftEnd(lo, hi) /\ LeftEnd(lo, hi) <= hi
           /\ hi - lo < 2 * 2^LeftLevel(lo, hi)
  <1> DEFINE n == hi - lo + 1
             l == SplitLevel(n)
  <1>1. n \in Nat /\ n >= 2
    OBVIOUS
  <1>2. l \in Nat /\ Split(n) = 2^l /\ Split(n) \in Nat /\ 1 <= Split(n) /\ Split(n) < n /\ n <= 2 * Split(n)
    <2> HIDE DEF n
    <2> QED BY <1>1, SplitLevelSplits
  <1>3. LeftLevel(lo, hi) = l
    BY DEF LeftLevel
  <1>4. n = hi - lo + 1
    OBVIOUS
  <1> HIDE DEF l, n
  <1>5. LeftEnd(lo, hi) = lo + 2^LeftLevel(lo, hi)
    BY DEF LeftEnd
  <1> QED BY <1>2, <1>3, <1>4, <1>5

-----------------------------------------------------------------------------
\* The recursions over the left ends of a range have a solution.
SubtreesBody(g, lo, hi) == IF lo = hi THEN {} ELSE {LeftIndex(lo, hi)} \cup g[LeftEnd(lo, hi)]

SubtreesUpTo(g, hi, n) ==
    g = [lo \in 0..hi |-> IF hi - lo < n THEN SubtreesBody(g, lo, hi) ELSE 0]

\* For the set of stored hashes that make up a range.
LEMMA SubtreesSolvable ==
    ASSUME NEW hi \in Nat, NEW n \in Nat
    PROVE  \E g : SubtreesUpTo(g, hi, n)
  <1> DEFINE B == {k \in Nat : ~\E g : SubtreesUpTo(g, hi, k)}
  <1> SUFFICES ASSUME B # {} PROVE FALSE
    OBVIOUS
  <1>1. PICK m \in B : \A k \in B : m <= k
    <2>1. B \in SUBSET Nat
      OBVIOUS
    <2> HIDE DEF B
    <2> QED BY <2>1, SmallestOf
  <1>2. m \in Nat /\ ~\E g : SubtreesUpTo(g, hi, m)
    OBVIOUS
  <1>3. m # 0
    <2> SUFFICES ASSUME m = 0 PROVE SubtreesUpTo([lo \in 0..hi |-> 0], hi, m)
      BY <1>2
    <2>1. \A lo \in 0..hi : ~(hi - lo < m)
      OBVIOUS
    <2> QED BY <2>1 DEF SubtreesUpTo
  <1>4. PICK g : SubtreesUpTo(g, hi, m - 1)
    <2>1. m - 1 \in Nat /\ m - 1 \notin B
      BY <1>1, <1>2, <1>3
    <2> QED BY <2>1
  <1> DEFINE h == [lo \in 0..hi |-> IF hi - lo < m THEN SubtreesBody(g, lo, hi) ELSE 0]
  <1>5. ASSUME NEW lo \in 0..hi, hi - lo < m PROVE SubtreesBody(g, lo, hi) = SubtreesBody(h, lo, hi)
    <2>1. CASE lo = hi
      BY <2>1 DEF SubtreesBody
    <2>2. CASE lo # hi
      <3> DEFINE s == LeftEnd(lo, hi)
      <3>1. s \in 0..hi /\ hi - s < m /\ hi - s < m - 1
        <4>1. lo \in Nat /\ lo < hi
          BY <2>2
        <4>2. s \in Nat /\ lo < s /\ s <= hi
          BY <4>1, LeftFacts
        <4> QED BY <1>2, <1>5, <4>1, <4>2
      <3> HIDE DEF s
      <3>2. g[s] = SubtreesBody(g, s, hi)
        BY <1>4, <3>1, Zenon DEF SubtreesUpTo
      <3>3. g[s] = h[s]
        BY <3>1, <3>2
      <3> HIDE DEF h
      <3> QED BY <2>2, <3>3 DEF SubtreesBody, s
    <2> QED BY <2>1, <2>2
  <1> DEFINE k == [lo \in 0..hi |-> IF hi - lo < m THEN SubtreesBody(h, lo, hi) ELSE 0]
  <1>6. h = k
    <2>1. \A lo \in 0..hi : h[lo] = k[lo]
      <3> SUFFICES ASSUME NEW lo \in 0..hi PROVE h[lo] = k[lo]
        OBVIOUS
      <3>1. h[lo] = (IF hi - lo < m THEN SubtreesBody(g, lo, hi) ELSE 0)
        OBVIOUS
      <3>2. k[lo] = (IF hi - lo < m THEN SubtreesBody(h, lo, hi) ELSE 0)
        OBVIOUS
      <3> HIDE DEF h, k
      <3> QED BY <1>5, <3>1, <3>2
    <2>2. h = [lo \in 0..hi |-> h[lo]] /\ k = [lo \in 0..hi |-> k[lo]]
      OBVIOUS
    <2> HIDE DEF h, k
    <2> QED BY <2>1, <2>2
  <1>7. SubtreesUpTo(h, hi, m)
    <2> HIDE DEF h
    <2> QED BY <1>6 DEF SubtreesUpTo
  <1> HIDE DEF h
  <1> QED BY <1>2, <1>7

SubtreesOK(g, hi) == g = [lo \in 0..hi |-> SubtreesBody(g, lo, hi)]

\* These are the hash of the subtree at its left end and those of the rest.
LEMMA SubtreesUnfold ==
    ASSUME NEW lo \in Nat, NEW hi \in Nat, lo <= hi
    PROVE  Subtrees(<<lo, hi>>) =
             IF lo = hi THEN {} ELSE {LeftIndex(lo, hi)} \cup Subtrees(<<LeftEnd(lo, hi), hi>>)
  <1> DEFINE f == CHOOSE g : SubtreesOK(g, hi)
             n == hi + 1
  <1>1. PICK g : SubtreesUpTo(g, hi, n)
    <2>1. n \in Nat
      OBVIOUS
    <2> HIDE DEF n
    <2> QED BY <2>1, SubtreesSolvable
  <1>2. \A s \in 0..hi : hi - s < n
    OBVIOUS
  <1>3. SubtreesOK(g, hi)
    <2> HIDE DEF n
    <2> QED BY <1>1, <1>2 DEF SubtreesUpTo, SubtreesOK
  <1>4. SubtreesOK(f, hi)
    BY <1>3
  <1>5. ASSUME NEW s PROVE Subtrees(<<s, hi>>) = f[s]
    <2>1. <<s, hi>>[1] = s /\ <<s, hi>>[2] = hi
      OBVIOUS
    <2>2. Subtrees(<<s, hi>>) = (CHOOSE k : SubtreesOK(k, <<s, hi>>[2]))[<<s, hi>>[1]]
      BY Zenon DEF Subtrees, SubtreesOK, SubtreesBody
    <2> QED BY <2>1, <2>2
  <1> HIDE DEF f
  <1>6. lo \in 0..hi
    OBVIOUS
  <1>7. f[lo] = SubtreesBody(f, lo, hi)
    BY <1>4, <1>6, Zenon DEF SubtreesOK
  <1> QED BY <1>5, <1>7 DEF SubtreesBody

\* The same for the hash that is put together from them.
SubTreeBody(g, h, lo, hi) ==
    IF LeftEnd(lo, hi) = hi THEN h[LeftIndex(lo, hi)]
    ELSE Node(h[LeftIndex(lo, hi)], g[LeftEnd(lo, hi)])

SubTreeUpTo(g, h, hi, n) ==
    g = [lo \in 0..(hi - 1) |-> IF hi - lo < n THEN SubTreeBody(g, h, lo, hi) ELSE 0]

\* There is a solution up to every rank.
LEMMA SubTreeSolvable ==
    ASSUME NEW h, NEW hi \in Nat, NEW n \in Nat
    PROVE  \E g : SubTreeUpTo(g, h, hi, n)
  <1> DEFINE D == 0..(hi - 1)
             B == {k \in Nat : ~\E g : SubTreeUpTo(g, h, hi, k)}
  <1> SUFFICES ASSUME B # {} PROVE FALSE
    OBVIOUS
  <1>1. PICK m \in B : \A k \in B : m <= k
    <2>1. B \in SUBSET Nat
      OBVIOUS
    <2> HIDE DEF B
    <2> QED BY <2>1, SmallestOf
  <1>2. m \in Nat /\ ~\E g : SubTreeUpTo(g, h, hi, m)
    OBVIOUS
  <1>3. m # 0
    <2> SUFFICES ASSUME m = 0 PROVE SubTreeUpTo([lo \in D |-> 0], h, hi, m)
      BY <1>2
    <2>1. \A lo \in D : ~(hi - lo < m)
      OBVIOUS
    <2> QED BY <2>1 DEF SubTreeUpTo
  <1>4. PICK g : SubTreeUpTo(g, h, hi, m - 1)
    <2>1. m - 1 \in Nat /\ m - 1 \notin B
      BY <1>1, <1>2, <1>3
    <2> QED BY <2>1
  <1> DEFINE e == [lo \in D |-> IF hi - lo < m THEN SubTreeBody(g, h, lo, hi) ELSE 0]
  <1>5. ASSUME NEW lo \in D, hi - lo < m PROVE SubTreeBody(g, h, lo, hi) = SubTreeBody(e, h, lo, hi)
    <2>1. CASE LeftEnd(lo, hi) = hi
      BY <2>1 DEF SubTreeBody
    <2>2. CASE LeftEnd(lo, hi) # hi
      <3> DEFINE s == LeftEnd(lo, hi)
      <3>1. s \in D /\ hi - s < m /\ hi - s < m - 1
        <4>1. lo \in Nat /\ lo < hi
          OBVIOUS
        <4>2. s \in Nat /\ lo < s /\ s <= hi
          BY <4>1, LeftFacts
        <4> QED BY <1>2, <1>5, <2>2, <4>1, <4>2
      <3> HIDE DEF s
      <3>2. g[s] = SubTreeBody(g, h, s, hi)
        BY <1>4, <3>1, Zenon DEF SubTreeUpTo
      <3>3. g[s] = e[s]
        BY <3>1, <3>2
      <3> HIDE DEF e
      <3> QED BY <2>2, <3>3 DEF SubTreeBody, s
    <2> QED BY <2>1, <2>2
  <1> DEFINE k == [lo \in D |-> IF hi - lo < m THEN SubTreeBody(e, h, lo, hi) ELSE 0]
  <1>6. e = k
    <2>1. \A lo \in D : e[lo] = k[lo]
      <3> SUFFICES ASSUME NEW lo \in D PROVE e[lo] = k[lo]
        OBVIOUS
      <3>1. e[lo] = (IF hi - lo < m THEN SubTreeBody(g, h, lo, hi) ELSE 0)
        OBVIOUS
      <3>2. k[lo] = (IF hi - lo < m THEN SubTreeBody(e, h, lo, hi) ELSE 0)
        OBVIOUS
      <3> HIDE DEF e, k
      <3> QED BY <1>5, <3>1, <3>2
    <2>2. e = [lo \in D |-> e[lo]] /\ k = [lo \in D |-> k[lo]]
      OBVIOUS
    <2> HIDE DEF e, k
    <2> QED BY <2>1, <2>2
  <1>7. SubTreeUpTo(e, h, hi, m)
    <2> HIDE DEF e
    <2> QED BY <1>6 DEF SubTreeUpTo
  <1> HIDE DEF e
  <1> QED BY <1>2, <1>7

SubTreeOK(g, h, hi) == g = [lo \in 0..(hi - 1) |-> SubTreeBody(g, h, lo, hi)]

\* The subtree at the left end is combined with the hash of the rest.
LEMMA SubTreeHashUnfold ==
    ASSUME NEW h, NEW lo \in Nat, NEW hi \in Nat, lo < hi
    PROVE  SubTreeHash(h, <<lo, hi>>) =
             IF LeftEnd(lo, hi) = hi THEN h[LeftIndex(lo, hi)]
             ELSE Node(h[LeftIndex(lo, hi)], SubTreeHash(h, <<LeftEnd(lo, hi), hi>>))
  <1> DEFINE f == CHOOSE g : SubTreeOK(g, h, hi)
             n == hi + 1
  <1>1. PICK g : SubTreeUpTo(g, h, hi, n)
    <2>1. n \in Nat
      OBVIOUS
    <2> HIDE DEF n
    <2> QED BY <2>1, SubTreeSolvable
  <1>2. \A s \in 0..(hi - 1) : hi - s < n
    OBVIOUS
  <1>3. SubTreeOK(g, h, hi)
    <2> HIDE DEF n
    <2> QED BY <1>1, <1>2 DEF SubTreeUpTo, SubTreeOK
  <1>4. SubTreeOK(f, h, hi)
    BY <1>3
  <1>5. ASSUME NEW s PROVE SubTreeHash(h, <<s, hi>>) = f[s]
    <2>1. <<s, hi>>[1] = s /\ <<s, hi>>[2] = hi
      OBVIOUS
    <2>2. SubTreeHash(h, <<s, hi>>) = (CHOOSE k : SubTreeOK(k, h, <<s, hi>>[2]))[<<s, hi>>[1]]
      BY Zenon DEF SubTreeHash, SubTreeOK, SubTreeBody
    <2> QED BY <2>1, <2>2
  <1> HIDE DEF f
  <1>6. lo \in 0..(hi - 1)
    OBVIOUS
  <1>7. f[lo] = SubTreeBody(f, h, lo, hi)
    BY <1>4, <1>6, Zenon DEF SubTreeOK
  <1> QED BY <1>5, <1>7 DEF SubTreeBody

-----------------------------------------------------------------------------
\* A range that starts at a multiple of a power of two and is not longer.
Aligned(lo, hi) == \E l, k \in Nat : lo = k * 2^l /\ hi - lo <= 2^l

\* The whole tree is such a range.
LEMMA WholeAligned ==
    ASSUME NEW n \in Nat
    PROVE  Aligned(0, n)
  <1>1. 2^n \in Nat /\ n < 2^n
    BY PowerFacts
  <1>2. 0 = 0 * 2^n /\ n - 0 <= 2^n
    BY <1>1
  <1> QED BY <1>2 DEF Aligned

\* Such a range starts at a multiple of every smaller power of two.
LEMMA AlignedBelow ==
    ASSUME NEW lo \in Nat, NEW hi \in Nat, lo < hi, Aligned(lo, hi), NEW l \in Nat, 2^l <= hi - lo
    PROVE  \E j \in Nat : lo = j * 2^l
  <1>1. PICK L \in Nat, k \in Nat : lo = k * 2^L /\ hi - lo <= 2^L
    BY DEF Aligned
  <1>2. 2^L \in Nat /\ 2^L >= 1 /\ 2^l \in Nat
    BY PowerFacts
  <1>3. ~(L < l)
    <2> SUFFICES ASSUME L < l PROVE FALSE
      OBVIOUS
    <2>1. 2 * 2^L <= 2^l
      BY PowerOrder
    <2> QED BY <1>1, <1>2, <2>1
  <1>4. L - l \in Nat /\ l + (L - l) = L
    BY <1>3
  <1>5. 2^L = 2^l * 2^(L - l) /\ 2^(L - l) \in Nat
    BY <1>4, PowerAdd, PowerFacts
  <1>6. \A x, y \in Nat : k * (x * y) = (k * y) * x /\ k * y \in Nat
    OBVIOUS
  <1>7. lo = (k * 2^(L - l)) * 2^l /\ k * 2^(L - l) \in Nat
    BY <1>1, <1>2, <1>5, <1>6
  <1> QED BY <1>7

\* Its first part is a complete subtree, and what is left is such a range again.
LEMMA LeftSubtree ==
    ASSUME NEW lo \in Nat, NEW hi \in Nat, lo < hi, Aligned(lo, hi)
    PROVE  \E l, j \in Nat :
             /\ LeftIndex(lo, hi) = StoredHashIndex(l, j)
             /\ SubtreeRange(l, j) = <<lo, LeftEnd(lo, hi)>>
             /\ (j + 1) * 2^l = LeftEnd(lo, hi)
             /\ LeftEnd(lo, hi) = lo + 2^l /\ hi - lo < 2 * 2^l
             /\ Aligned(LeftEnd(lo, hi), hi)
  <1> DEFINE l == LeftLevel(lo, hi)
             e == LeftEnd(lo, hi)
  <1>1. l \in Nat /\ 2^l \in Nat /\ e = lo + 2^l /\ e \in Nat /\ lo < e /\ e <= hi /\ hi - lo < 2 * 2^l
    BY LeftFacts
  <1>2. 2^l <= hi - lo
    <2> HIDE DEF l, e
    <2> QED BY <1>1
  <1>3. PICK j \in Nat : lo = j * 2^l
    <2> HIDE DEF l
    <2> QED BY <1>1, <1>2, AlignedBelow
  <1>4. LeftIndex(lo, hi) = StoredHashIndex(l, Shift(lo, l))
    BY DEF LeftIndex
  <1> HIDE DEF l, e
  <1>5. (j + 1) * 2^l = e /\ j * 2^l <= lo /\ lo < (j + 1) * 2^l
    <2>1. \A x \in Nat : (j + 1) * x = j * x + x
      OBVIOUS
    <2>2. (j + 1) * 2^l = j * 2^l + 2^l
      BY <1>1, <2>1
    <2> QED BY <1>1, <1>3, <2>2
  <1>6. Shift(lo, l) = j
    BY <1>1, <1>5, ShiftIs
  <1>7. Aligned(e, hi)
    <2>1. e = (j + 1) * 2^l /\ hi - e <= 2^l /\ j + 1 \in Nat
      BY <1>1, <1>5
    <2> QED BY <1>1, <2>1 DEF Aligned
  <1>8. SubtreeRange(l, j) = <<lo, e>>
    BY <1>3, <1>5 DEF SubtreeRange
  <1> QED BY <1>1, <1>4, <1>5, <1>6, <1>7, <1>8 DEF e

\* So are the two parts at which a tree hash divides it.
LEMMA AlignedParts ==
    ASSUME NEW size \in Nat, NEW r \in Ranges(size), ~IsLeaf(r), Aligned(r[1], r[2])
    PROVE  Aligned(r[1], Mid(r)) /\ Aligned(Mid(r), r[2])
  <1> DEFINE n == r[2] - r[1]
             l == SplitLevel(n)
  <1>1. r[1] \in Nat /\ r[2] \in Nat
    BY RangeFacts
  <1>2. n \in Nat /\ n >= 2 /\ n = r[2] - r[1] /\ r[1] < r[2]
    BY <1>1 DEF IsLeaf
  <1> HIDE DEF n
  <1>3. l \in Nat /\ Split(n) = 2^l /\ Split(n) \in Nat /\ Split(n) < n /\ n <= 2 * Split(n)
    BY <1>2, SplitLevelSplits
  <1>4. Mid(r) = r[1] + 2^l
    BY <1>3 DEF Mid, n
  <1> HIDE DEF l
  <1>5. PICK j \in Nat : r[1] = j * 2^l
    <2>1. 2^l <= r[2] - r[1]
      BY <1>2, <1>3
    <2> QED BY <1>1, <1>2, <1>3, <2>1, AlignedBelow
  <1>6. Aligned(r[1], Mid(r))
    <2>1. r[1] = j * 2^l /\ Mid(r) - r[1] <= 2^l
      BY <1>1, <1>3, <1>4, <1>5
    <2> QED BY <1>3, <2>1 DEF Aligned
  <1>7. Aligned(Mid(r), r[2])
    <2>1. \A x \in Nat : (j + 1) * x = j * x + x
      OBVIOUS
    <2>2. (j + 1) * 2^l = j * 2^l + 2^l
      BY <1>3, <2>1
    <2>3. Mid(r) = (j + 1) * 2^l /\ r[2] - Mid(r) <= 2^l /\ j + 1 \in Nat
      BY <1>1, <1>2, <1>3, <1>4, <1>5, <2>2
    <2> QED BY <1>3, <2>3 DEF Aligned
  <1> QED BY <1>6, <1>7

\* The table holds the hashes of the complete subtrees of these leaves.
HoldsTree(h, leaves) ==
    \A s \in Complete(Len(leaves)) :
        h[StoredHashIndex(s[1], s[2])] = RangeHash(leaves, SubtreeRange(s[1], s[2]))

\* What tlog puts together from stored hashes is the hash of the range.
LEMMA SubTreeIsRange ==
    ASSUME NEW h, NEW leaves, Len(leaves) \in Nat, HoldsTree(h, leaves),
           NEW lo \in Nat, NEW hi \in Nat, lo < hi, hi <= Len(leaves), Aligned(lo, hi)
    PROVE  SubTreeHash(h, <<lo, hi>>) = RangeHash(leaves, <<lo, hi>>)
  <1> DEFINE size == Len(leaves)
             Bad(i) == /\ i < hi /\ Aligned(i, hi)
                       /\ SubTreeHash(h, <<i, hi>>) # RangeHash(leaves, <<i, hi>>)
             B == {k \in Nat : \E i \in Nat : Bad(i) /\ hi - i = k}
  <1>1. B = {}
    <2> SUFFICES ASSUME B # {} PROVE FALSE
      OBVIOUS
    <2>1. PICK m \in B : \A k \in B : m <= k
      <3>1. B \in SUBSET Nat
        OBVIOUS
      <3> HIDE DEF B
      <3> QED BY <3>1, SmallestOf
    <2>2. PICK i \in Nat : Bad(i) /\ hi - i = m
      OBVIOUS
    <2> DEFINE e == LeftEnd(i, hi)
    <2>3. /\ i < hi /\ Aligned(i, hi)
          /\ SubTreeHash(h, <<i, hi>>) # RangeHash(leaves, <<i, hi>>)
      BY <2>2
    <2>4. PICK l \in Nat, j \in Nat :
             /\ LeftIndex(i, hi) = StoredHashIndex(l, j)
             /\ SubtreeRange(l, j) = <<i, e>>
             /\ (j + 1) * 2^l = e
             /\ e = i + 2^l /\ hi - i < 2 * 2^l
             /\ Aligned(e, hi)
      BY <2>3, LeftSubtree
    <2>5. e \in Nat /\ i < e /\ e <= hi
      BY <2>3, LeftFacts
    <2>6. SubTreeHash(h, <<i, hi>>) =
             IF e = hi THEN h[LeftIndex(i, hi)]
             ELSE Node(h[LeftIndex(i, hi)], SubTreeHash(h, <<e, hi>>))
      BY <2>3, SubTreeHashUnfold
    <2> HIDE DEF e
    <2>7. h[LeftIndex(i, hi)] = RangeHash(leaves, <<i, e>>)
      <3>1. <<l, j>> \in Complete(size)
        <4>1. (j + 1) * 2^l <= size
          BY <2>4, <2>5
        <4> QED BY <4>1 DEF Complete
      <3>2. h[StoredHashIndex(l, j)] = RangeHash(leaves, SubtreeRange(l, j))
        BY <3>1 DEF HoldsTree
      <3> QED BY <2>4, <3>2
    <2>8. CASE e = hi
      BY <2>3, <2>6, <2>7, <2>8
    <2>9. CASE e # hi
      <3> DEFINE r == <<i, hi>>
      <3>1. r \in Ranges(size) /\ r[1] = i /\ r[2] = hi
        BY <2>3 DEF Ranges
      <3>2. 2^l \in Nat /\ 2^l >= 1
        BY PowerFacts
      <3>3. hi - i \in Nat /\ 2^l < hi - i /\ hi - i <= 2 * 2^l
        BY <2>4, <2>5, <2>9, <3>2
      <3>4. Split(hi - i) = 2^l
        BY <3>3, SplitLevelIs
      <3>5. ~IsLeaf(r)
        BY <3>1, <3>2, <3>3 DEF IsLeaf
      <3>6. Mid(r) = e
        BY <2>4, <3>1, <3>4 DEF Mid
      <3>7. LeftPart(r) = <<i, e>> /\ RightPart(r) = <<e, hi>>
        BY <3>1, <3>6 DEF LeftPart, RightPart
      <3>8. RangeHash(leaves, r) = Node(RangeHash(leaves, LeftPart(r)), RangeHash(leaves, RightPart(r)))
        BY <3>1, <3>5, RangeHashUnfold
      <3>9. SubTreeHash(h, <<e, hi>>) = RangeHash(leaves, <<e, hi>>)
        <4>1. hi - e \in Nat /\ hi - e < m
          BY <2>2, <2>5
        <4>2. hi - e \notin B
          <5> HIDE DEF B
          <5>1. m \in Nat
            BY <2>2, <2>3
          <5> QED BY <2>1, <4>1, <5>1
        <4>3. ~Bad(e)
          BY <2>5, <4>1, <4>2
        <4> QED BY <2>4, <2>5, <2>9, <4>3
      <3> HIDE DEF r
      <3>10. RangeHash(leaves, r) = SubTreeHash(h, <<i, hi>>)
        BY <2>6, <2>7, <2>9, <3>7, <3>8, <3>9
      <3> QED BY <2>3, <3>10 DEF r
    <2> QED BY <2>8, <2>9
  <1>2. hi - lo \in Nat
    OBVIOUS
  <1>3. hi - lo \notin B
    <2> HIDE DEF B
    <2> QED BY <1>1
  <1> QED BY <1>2, <1>3

\* A range of which every hash is stored lies in the tree.
LEMMA ReadableInTree ==
    ASSUME NEW size \in Nat, NEW lo \in Nat, NEW hi \in Nat, lo < hi, Aligned(lo, hi),
           Subtrees(<<lo, hi>>) \subseteq 0..(Stored(size) - 1)
    PROVE  hi <= size
  <1> DEFINE Bad(i) == /\ i < hi /\ Aligned(i, hi)
                       /\ Subtrees(<<i, hi>>) \subseteq 0..(Stored(size) - 1)
             B == {k \in Nat : \E i \in Nat : Bad(i) /\ hi - i = k}
  <1> SUFFICES ASSUME ~(hi <= size) PROVE FALSE
    OBVIOUS
  <1>1. PICK m \in B : \A k \in B : m <= k
    <2>1. B \in SUBSET Nat
      OBVIOUS
    <2>2. hi - lo \in B
      OBVIOUS
    <2> HIDE DEF B
    <2> QED BY <2>1, <2>2, SmallestOf
  <1>2. PICK i \in Nat : Bad(i) /\ hi - i = m
    OBVIOUS
  <1> DEFINE e == LeftEnd(i, hi)
  <1>3. /\ i < hi /\ Aligned(i, hi)
        /\ Subtrees(<<i, hi>>) \subseteq 0..(Stored(size) - 1)
    BY <1>2
  <1>4. PICK l \in Nat, j \in Nat :
           /\ LeftIndex(i, hi) = StoredHashIndex(l, j)
           /\ (j + 1) * 2^l = e
           /\ Aligned(e, hi)
    BY <1>3, LeftSubtree
  <1>5. e \in Nat /\ i < e /\ e <= hi
    BY <1>3, LeftFacts
  <1>6. Subtrees(<<i, hi>>) = {LeftIndex(i, hi)} \cup Subtrees(<<e, hi>>)
    <2>1. i <= hi /\ i # hi
      BY <1>3
    <2> QED BY <2>1, SubtreesUnfold
  <1> HIDE DEF e
  <1>7. e <= size
    <2>1. StoredHashIndex(l, j) \in 0..(Stored(size) - 1)
      BY <1>3, <1>4, <1>6
    <2>2. StoredHashIndex(l, j) < Stored(size)
      BY <2>1, CompleteFinite
    <2> QED BY <1>4, <2>2, IndexBounds
  <1>8. e < hi
    BY <1>5, <1>7
  <1>9. m \in Nat /\ hi - e \in Nat /\ hi - e < m
    BY <1>2, <1>5
  <1>10. Bad(e)
    BY <1>3, <1>4, <1>6, <1>8
  <1>11. hi - e \in B
    <2> HIDE DEF Bad
    <2> QED BY <1>5, <1>9, <1>10
  <1> HIDE DEF B
  <1> QED BY <1>1, <1>9, <1>11

-----------------------------------------------------------------------------
\* The recursions of proofs and of their verification.

\* The ranges that an inclusion proof names, below each range of the tree.
RecordBody(g, index, r) ==
    IF IsLeaf(r) THEN <<>>
    ELSE IF index < Mid(r) THEN Append(g[LeftPart(r)], RightPart(r))
    ELSE Append(g[RightPart(r)], LeftPart(r))

RecordUpTo(g, size, index, n) ==
    g = [r \in Ranges(size) |->
            IF RangeRank(size, r) < n THEN RecordBody(g, index, r) ELSE 0]

\* The recursion of RecordPath has a solution ...
LEMMA RecordSolvable ==
    ASSUME NEW size \in Nat, NEW index, NEW n \in Nat
    PROVE  \E g : RecordUpTo(g, size, index, n)
  <1> DEFINE D == Ranges(size)
             B == {k \in Nat : ~\E g : RecordUpTo(g, size, index, k)}
  <1> SUFFICES ASSUME B # {} PROVE FALSE
    OBVIOUS
  <1>1. PICK m \in B : \A k \in B : m <= k
    <2>1. B \in SUBSET Nat
      OBVIOUS
    <2> HIDE DEF B
    <2> QED BY <2>1, SmallestOf
  <1>2. m \in Nat /\ ~\E g : RecordUpTo(g, size, index, m)
    OBVIOUS
  <1>3. \A r \in D : RangeRank(size, r) \in Nat
    BY RangeFacts
  <1>4. m # 0
    <2> SUFFICES ASSUME m = 0 PROVE RecordUpTo([r \in D |-> 0], size, index, m)
      BY <1>2
    <2>1. \A r \in D : ~(RangeRank(size, r) < m)
      BY <1>3
    <2> QED BY <2>1 DEF RecordUpTo
  <1>5. PICK g : RecordUpTo(g, size, index, m - 1)
    <2>1. m - 1 \in Nat /\ m - 1 \notin B
      BY <1>1, <1>2, <1>4
    <2> QED BY <2>1
  <1> DEFINE h == [r \in D |-> IF RangeRank(size, r) < m THEN RecordBody(g, index, r) ELSE 0]
  <1>6. ASSUME NEW r \in D, RangeRank(size, r) < m
        PROVE  RecordBody(g, index, r) = RecordBody(h, index, r)
    <2>1. ASSUME NEW t \in D, RangeRank(size, t) < RangeRank(size, r) PROVE g[t] = h[t]
      <3>1. RangeRank(size, t) < m /\ RangeRank(size, t) < m - 1
        BY <1>2, <1>3, <1>6, <2>1
      <3>2. g[t] = RecordBody(g, index, t)
        BY <1>5, <3>1, Zenon DEF RecordUpTo
      <3> QED BY <3>1, <3>2
    <2>2. CASE IsLeaf(r)
      BY <2>2 DEF RecordBody
    <2>3. CASE ~IsLeaf(r)
      <3>1. ~IsLeaf(r)
        BY <2>3 DEF Filled
      <3>2. g[LeftPart(r)] = h[LeftPart(r)] /\ g[RightPart(r)] = h[RightPart(r)]
        <4> HIDE DEF h
        <4> QED BY <2>1, <3>1, RangeParts
      <3> HIDE DEF h
      <3> QED BY <2>3, <3>2 DEF RecordBody
    <2> QED BY <2>2, <2>3
  <1> DEFINE k == [r \in D |-> IF RangeRank(size, r) < m THEN RecordBody(h, index, r) ELSE 0]
  <1>7. h = k
    <2>1. \A r \in D : h[r] = k[r]
      <3> SUFFICES ASSUME NEW r \in D PROVE h[r] = k[r]
        OBVIOUS
      <3>1. h[r] = (IF RangeRank(size, r) < m THEN RecordBody(g, index, r) ELSE 0)
        OBVIOUS
      <3>2. k[r] = (IF RangeRank(size, r) < m THEN RecordBody(h, index, r) ELSE 0)
        OBVIOUS
      <3> HIDE DEF h, k
      <3> QED BY <1>6, <3>1, <3>2
    <2>2. h = [r \in D |-> h[r]] /\ k = [r \in D |-> k[r]]
      OBVIOUS
    <2> HIDE DEF h, k
    <2> QED BY <2>1, <2>2
  <1>8. RecordUpTo(h, size, index, m)
    <2> HIDE DEF h
    <2> QED BY <1>7 DEF RecordUpTo
  <1> HIDE DEF h
  <1> QED BY <1>2, <1>8

RecordOK(g, size, index) ==
    g = [r \in Ranges(size) |-> RecordBody(g, index, r)]
RecordPaths(size, index) == CHOOSE g : RecordOK(g, size, index)

\* ... which is what it computes.
LEMMA RecordUnfold ==
    ASSUME NEW size \in Nat, NEW index
    PROVE  /\ RecordPath(size, index) = RecordPaths(size, index)[WholeTree(size)]
           /\ RecordOK(RecordPaths(size, index), size, index)
  <1> DEFINE n == 2 * size + 1
  <1>1. PICK g : RecordUpTo(g, size, index, n)
    <2>1. n \in Nat
      OBVIOUS
    <2> HIDE DEF n
    <2> QED BY <2>1, RecordSolvable
  <1>2. \A r \in Ranges(size) : RangeRank(size, r) < n
    BY RangeFacts
  <1>3. RecordOK(g, size, index)
    <2> HIDE DEF n
    <2> QED BY <1>1, <1>2 DEF RecordUpTo, RecordOK
  <1>4. RecordOK(RecordPaths(size, index), size, index)
    BY <1>3 DEF RecordPaths
  <1>5. RecordPath(size, index) = RecordPaths(size, index)[WholeTree(size)]
    BY Zenon DEF RecordPath, RecordPaths, RecordOK, RecordBody
  <1> QED BY <1>4, <1>5

\* The ranges that a consistency proof names, below each range of the tree.
OldBody(g, old, r) ==
    IF Filled(r, old) THEN IF r[1] = 0 THEN <<>> ELSE <<r>>
    ELSE IF old <= Mid(r) THEN Append(g[LeftPart(r)], RightPart(r))
    ELSE Append(g[RightPart(r)], LeftPart(r))

OldUpTo(g, size, old, n) ==
    g = [r \in Ranges(size) |->
            IF RangeRank(size, r) < n THEN OldBody(g, old, r) ELSE 0]

\* The recursion of TreePath has a solution ...
LEMMA OldSolvable ==
    ASSUME NEW size \in Nat, NEW old, NEW n \in Nat
    PROVE  \E g : OldUpTo(g, size, old, n)
  <1> DEFINE D == Ranges(size)
             B == {k \in Nat : ~\E g : OldUpTo(g, size, old, k)}
  <1> SUFFICES ASSUME B # {} PROVE FALSE
    OBVIOUS
  <1>1. PICK m \in B : \A k \in B : m <= k
    <2>1. B \in SUBSET Nat
      OBVIOUS
    <2> HIDE DEF B
    <2> QED BY <2>1, SmallestOf
  <1>2. m \in Nat /\ ~\E g : OldUpTo(g, size, old, m)
    OBVIOUS
  <1>3. \A r \in D : RangeRank(size, r) \in Nat
    BY RangeFacts
  <1>4. m # 0
    <2> SUFFICES ASSUME m = 0 PROVE OldUpTo([r \in D |-> 0], size, old, m)
      BY <1>2
    <2>1. \A r \in D : ~(RangeRank(size, r) < m)
      BY <1>3
    <2> QED BY <2>1 DEF OldUpTo
  <1>5. PICK g : OldUpTo(g, size, old, m - 1)
    <2>1. m - 1 \in Nat /\ m - 1 \notin B
      BY <1>1, <1>2, <1>4
    <2> QED BY <2>1
  <1> DEFINE h == [r \in D |-> IF RangeRank(size, r) < m THEN OldBody(g, old, r) ELSE 0]
  <1>6. ASSUME NEW r \in D, RangeRank(size, r) < m
        PROVE  OldBody(g, old, r) = OldBody(h, old, r)
    <2>1. ASSUME NEW t \in D, RangeRank(size, t) < RangeRank(size, r) PROVE g[t] = h[t]
      <3>1. RangeRank(size, t) < m /\ RangeRank(size, t) < m - 1
        BY <1>2, <1>3, <1>6, <2>1
      <3>2. g[t] = OldBody(g, old, t)
        BY <1>5, <3>1, Zenon DEF OldUpTo
      <3> QED BY <3>1, <3>2
    <2>2. CASE Filled(r, old)
      BY <2>2 DEF OldBody
    <2>3. CASE ~Filled(r, old)
      <3>1. ~IsLeaf(r)
        BY <2>3 DEF Filled
      <3>2. g[LeftPart(r)] = h[LeftPart(r)] /\ g[RightPart(r)] = h[RightPart(r)]
        <4> HIDE DEF h
        <4> QED BY <2>1, <3>1, RangeParts
      <3> HIDE DEF h
      <3> QED BY <2>3, <3>2 DEF OldBody
    <2> QED BY <2>2, <2>3
  <1> DEFINE k == [r \in D |-> IF RangeRank(size, r) < m THEN OldBody(h, old, r) ELSE 0]
  <1>7. h = k
    <2>1. \A r \in D : h[r] = k[r]
      <3> SUFFICES ASSUME NEW r \in D PROVE h[r] = k[r]
        OBVIOUS
      <3>1. h[r] = (IF RangeRank(size, r) < m THEN OldBody(g, old, r) ELSE 0)
        OBVIOUS
      <3>2. k[r] = (IF RangeRank(size, r) < m THEN OldBody(h, old, r) ELSE 0)
        OBVIOUS
      <3> HIDE DEF h, k
      <3> QED BY <1>6, <3>1, <3>2
    <2>2. h = [r \in D |-> h[r]] /\ k = [r \in D |-> k[r]]
      OBVIOUS
    <2> HIDE DEF h, k
    <2> QED BY <2>1, <2>2
  <1>8. OldUpTo(h, size, old, m)
    <2> HIDE DEF h
    <2> QED BY <1>7 DEF OldUpTo
  <1> HIDE DEF h
  <1> QED BY <1>2, <1>8

OldOK(g, size, old) ==
    g = [r \in Ranges(size) |-> OldBody(g, old, r)]
TreePaths(size, old) == CHOOSE g : OldOK(g, size, old)

\* ... which is what it computes.
LEMMA OldUnfold ==
    ASSUME NEW size \in Nat, NEW old
    PROVE  /\ TreePath(size, old) = TreePaths(size, old)[WholeTree(size)]
           /\ OldOK(TreePaths(size, old), size, old)
  <1> DEFINE n == 2 * size + 1
  <1>1. PICK g : OldUpTo(g, size, old, n)
    <2>1. n \in Nat
      OBVIOUS
    <2> HIDE DEF n
    <2> QED BY <2>1, OldSolvable
  <1>2. \A r \in Ranges(size) : RangeRank(size, r) < n
    BY RangeFacts
  <1>3. OldOK(g, size, old)
    <2> HIDE DEF n
    <2> QED BY <1>1, <1>2 DEF OldUpTo, OldOK
  <1>4. OldOK(TreePaths(size, old), size, old)
    BY <1>3 DEF TreePaths
  <1>5. TreePath(size, old) = TreePaths(size, old)[WholeTree(size)]
    BY Zenon DEF TreePath, TreePaths, OldOK, OldBody
  <1> QED BY <1>4, <1>5

\* The hash that an inclusion proof leads to, at each range on the way up.
RootBody(g, proof, index, leaf, s) ==
    IF IsLeaf(s[2]) THEN leaf
    ELSE IF index < Mid(s[2]) THEN Node(g[<<s[1] - 1, LeftPart(s[2])>>], proof[s[1]])
    ELSE Node(proof[s[1]], g[<<s[1] - 1, RightPart(s[2])>>])

RootUpTo(g, proof, size, index, leaf, n) ==
    g = [s \in Int \X Ranges(size) |->
            IF RangeRank(size, s[2]) < n THEN RootBody(g, proof, index, leaf, s) ELSE 0]

\* The recursion of RecordRoot has a solution ...
LEMMA RootSolvable ==
    ASSUME NEW proof, NEW size \in Nat, NEW index, NEW leaf, NEW n \in Nat
    PROVE  \E g : RootUpTo(g, proof, size, index, leaf, n)
  <1> DEFINE D == Int \X Ranges(size)
             B == {k \in Nat : ~\E g : RootUpTo(g, proof, size, index, leaf, k)}
  <1> SUFFICES ASSUME B # {} PROVE FALSE
    OBVIOUS
  <1>1. PICK m \in B : \A k \in B : m <= k
    <2>1. B \in SUBSET Nat
      OBVIOUS
    <2> HIDE DEF B
    <2> QED BY <2>1, SmallestOf
  <1>2. m \in Nat /\ ~\E g : RootUpTo(g, proof, size, index, leaf, m)
    OBVIOUS
  <1>3. \A s \in D : RangeRank(size, s[2]) \in Nat
    BY RangeFacts
  <1>4. m # 0
    <2> SUFFICES ASSUME m = 0 PROVE RootUpTo([s \in D |-> 0], proof, size, index, leaf, m)
      BY <1>2
    <2>1. \A s \in D : ~(RangeRank(size, s[2]) < m)
      BY <1>3
    <2> QED BY <2>1 DEF RootUpTo
  <1>5. PICK g : RootUpTo(g, proof, size, index, leaf, m - 1)
    <2>1. m - 1 \in Nat /\ m - 1 \notin B
      BY <1>1, <1>2, <1>4
    <2> QED BY <2>1
  <1> DEFINE h == [s \in D |-> IF RangeRank(size, s[2]) < m THEN RootBody(g, proof, index, leaf, s) ELSE 0]
  <1>6. ASSUME NEW s \in D, RangeRank(size, s[2]) < m
        PROVE  RootBody(g, proof, index, leaf, s) = RootBody(h, proof, index, leaf, s)
    <2>1. ASSUME NEW t \in D, RangeRank(size, t[2]) < RangeRank(size, s[2]) PROVE g[t] = h[t]
      <3>1. RangeRank(size, t[2]) < m /\ RangeRank(size, t[2]) < m - 1
        BY <1>2, <1>3, <1>6, <2>1
      <3>2. g[t] = RootBody(g, proof, index, leaf, t)
        BY <1>5, <3>1, Zenon DEF RootUpTo
      <3> QED BY <3>1, <3>2
    <2>2. CASE IsLeaf(s[2])
      BY <2>2 DEF RootBody
    <2>3. CASE ~IsLeaf(s[2])
      <3> DEFINE r == s[2]
                 left == <<s[1] - 1, LeftPart(r)>>
                 right == <<s[1] - 1, RightPart(r)>>
      <3>1. r \in Ranges(size) /\ s[1] - 1 \in Int /\ ~IsLeaf(r)
        BY <2>3 DEF Filled
      <3>2. /\ left \in D /\ left[2] = LeftPart(r) /\ RangeRank(size, LeftPart(r)) < RangeRank(size, r)
            /\ right \in D /\ right[2] = RightPart(r) /\ RangeRank(size, RightPart(r)) < RangeRank(size, r)
        <4> HIDE DEF r
        <4> QED BY <3>1, RangeParts
      <3>3. g[left] = h[left] /\ g[right] = h[right]
        <4> HIDE DEF h, left, right, D
        <4> QED BY <2>1, <3>2
      <3> HIDE DEF h
      <3> QED BY <2>3, <3>3 DEF RootBody
    <2> QED BY <2>2, <2>3
  <1> DEFINE k == [s \in D |-> IF RangeRank(size, s[2]) < m THEN RootBody(h, proof, index, leaf, s) ELSE 0]
  <1>7. h = k
    <2>1. \A s \in D : h[s] = k[s]
      <3> SUFFICES ASSUME NEW s \in D PROVE h[s] = k[s]
        OBVIOUS
      <3>1. h[s] = (IF RangeRank(size, s[2]) < m THEN RootBody(g, proof, index, leaf, s) ELSE 0)
        OBVIOUS
      <3>2. k[s] = (IF RangeRank(size, s[2]) < m THEN RootBody(h, proof, index, leaf, s) ELSE 0)
        OBVIOUS
      <3> HIDE DEF h, k
      <3> QED BY <1>6, <3>1, <3>2
    <2>2. h = [s \in D |-> h[s]] /\ k = [s \in D |-> k[s]]
      OBVIOUS
    <2> HIDE DEF h, k
    <2> QED BY <2>1, <2>2
  <1>8. RootUpTo(h, proof, size, index, leaf, m)
    <2> HIDE DEF h
    <2> QED BY <1>7 DEF RootUpTo
  <1> HIDE DEF h
  <1> QED BY <1>2, <1>8

RootOK(g, proof, size, index, leaf) ==
    g = [s \in Int \X Ranges(size) |-> RootBody(g, proof, index, leaf, s)]
RecordRoots(proof, size, index, leaf) == CHOOSE g : RootOK(g, proof, size, index, leaf)

\* ... which is what it computes.
LEMMA RootUnfold ==
    ASSUME NEW proof, NEW size \in Nat, NEW index, NEW leaf
    PROVE  /\ RecordRoot(proof, size, index, leaf) =
                RecordRoots(proof, size, index, leaf)[<<Len(proof), WholeTree(size)>>]
           /\ RootOK(RecordRoots(proof, size, index, leaf), proof, size, index, leaf)
  <1> DEFINE n == 2 * size + 1
  <1>1. PICK g : RootUpTo(g, proof, size, index, leaf, n)
    <2>1. n \in Nat
      OBVIOUS
    <2> HIDE DEF n
    <2> QED BY <2>1, RootSolvable
  <1>2. \A s \in Int \X Ranges(size) : RangeRank(size, s[2]) < n
    BY RangeFacts
  <1>3. RootOK(g, proof, size, index, leaf)
    <2> HIDE DEF n
    <2> QED BY <1>1, <1>2 DEF RootUpTo, RootOK
  <1>4. RootOK(RecordRoots(proof, size, index, leaf), proof, size, index, leaf)
    BY <1>3 DEF RecordRoots
  <1>5. RecordRoot(proof, size, index, leaf) =
                RecordRoots(proof, size, index, leaf)[<<Len(proof), WholeTree(size)>>]
    BY Zenon DEF RecordRoot, RecordRoots, RootOK, RootBody
  <1> QED BY <1>4, <1>5

\* The two hashes that a consistency proof leads to, at each range on the way up.
PairBody(g, proof, old, oldRoot, s) ==
    IF Filled(s[2], old)
    THEN IF s[2][1] = 0 THEN <<oldRoot, oldRoot>> ELSE <<proof[1], proof[1]>>
    ELSE IF old <= Mid(s[2])
    THEN <<g[<<s[1] - 1, LeftPart(s[2])>>][1], Node(g[<<s[1] - 1, LeftPart(s[2])>>][2], proof[s[1]])>>
    ELSE <<Node(proof[s[1]], g[<<s[1] - 1, RightPart(s[2])>>][1]),
           Node(proof[s[1]], g[<<s[1] - 1, RightPart(s[2])>>][2])>>

PairUpTo(g, proof, size, old, oldRoot, n) ==
    g = [s \in Int \X Ranges(size) |->
            IF RangeRank(size, s[2]) < n THEN PairBody(g, proof, old, oldRoot, s) ELSE 0]

\* The recursion of TreeRoots has a solution ...
LEMMA PairSolvable ==
    ASSUME NEW proof, NEW size \in Nat, NEW old, NEW oldRoot, NEW n \in Nat
    PROVE  \E g : PairUpTo(g, proof, size, old, oldRoot, n)
  <1> DEFINE D == Int \X Ranges(size)
             B == {k \in Nat : ~\E g : PairUpTo(g, proof, size, old, oldRoot, k)}
  <1> SUFFICES ASSUME B # {} PROVE FALSE
    OBVIOUS
  <1>1. PICK m \in B : \A k \in B : m <= k
    <2>1. B \in SUBSET Nat
      OBVIOUS
    <2> HIDE DEF B
    <2> QED BY <2>1, SmallestOf
  <1>2. m \in Nat /\ ~\E g : PairUpTo(g, proof, size, old, oldRoot, m)
    OBVIOUS
  <1>3. \A s \in D : RangeRank(size, s[2]) \in Nat
    BY RangeFacts
  <1>4. m # 0
    <2> SUFFICES ASSUME m = 0 PROVE PairUpTo([s \in D |-> 0], proof, size, old, oldRoot, m)
      BY <1>2
    <2>1. \A s \in D : ~(RangeRank(size, s[2]) < m)
      BY <1>3
    <2> QED BY <2>1 DEF PairUpTo
  <1>5. PICK g : PairUpTo(g, proof, size, old, oldRoot, m - 1)
    <2>1. m - 1 \in Nat /\ m - 1 \notin B
      BY <1>1, <1>2, <1>4
    <2> QED BY <2>1
  <1> DEFINE h == [s \in D |-> IF RangeRank(size, s[2]) < m THEN PairBody(g, proof, old, oldRoot, s) ELSE 0]
  <1>6. ASSUME NEW s \in D, RangeRank(size, s[2]) < m
        PROVE  PairBody(g, proof, old, oldRoot, s) = PairBody(h, proof, old, oldRoot, s)
    <2>1. ASSUME NEW t \in D, RangeRank(size, t[2]) < RangeRank(size, s[2]) PROVE g[t] = h[t]
      <3>1. RangeRank(size, t[2]) < m /\ RangeRank(size, t[2]) < m - 1
        BY <1>2, <1>3, <1>6, <2>1
      <3>2. g[t] = PairBody(g, proof, old, oldRoot, t)
        BY <1>5, <3>1, Zenon DEF PairUpTo
      <3> QED BY <3>1, <3>2
    <2>2. CASE Filled(s[2], old)
      BY <2>2 DEF PairBody
    <2>3. CASE ~Filled(s[2], old)
      <3> DEFINE r == s[2]
                 left == <<s[1] - 1, LeftPart(r)>>
                 right == <<s[1] - 1, RightPart(r)>>
      <3>1. r \in Ranges(size) /\ s[1] - 1 \in Int /\ ~IsLeaf(r)
        BY <2>3 DEF Filled
      <3>2. /\ left \in D /\ left[2] = LeftPart(r) /\ RangeRank(size, LeftPart(r)) < RangeRank(size, r)
            /\ right \in D /\ right[2] = RightPart(r) /\ RangeRank(size, RightPart(r)) < RangeRank(size, r)
        <4> HIDE DEF r
        <4> QED BY <3>1, RangeParts
      <3>3. g[left] = h[left] /\ g[right] = h[right]
        <4> HIDE DEF h, left, right, D
        <4> QED BY <2>1, <3>2
      <3> HIDE DEF h
      <3> QED BY <2>3, <3>3 DEF PairBody
    <2> QED BY <2>2, <2>3
  <1> DEFINE k == [s \in D |-> IF RangeRank(size, s[2]) < m THEN PairBody(h, proof, old, oldRoot, s) ELSE 0]
  <1>7. h = k
    <2>1. \A s \in D : h[s] = k[s]
      <3> SUFFICES ASSUME NEW s \in D PROVE h[s] = k[s]
        OBVIOUS
      <3>1. h[s] = (IF RangeRank(size, s[2]) < m THEN PairBody(g, proof, old, oldRoot, s) ELSE 0)
        OBVIOUS
      <3>2. k[s] = (IF RangeRank(size, s[2]) < m THEN PairBody(h, proof, old, oldRoot, s) ELSE 0)
        OBVIOUS
      <3> HIDE DEF h, k
      <3> QED BY <1>6, <3>1, <3>2
    <2>2. h = [s \in D |-> h[s]] /\ k = [s \in D |-> k[s]]
      OBVIOUS
    <2> HIDE DEF h, k
    <2> QED BY <2>1, <2>2
  <1>8. PairUpTo(h, proof, size, old, oldRoot, m)
    <2> HIDE DEF h
    <2> QED BY <1>7 DEF PairUpTo
  <1> HIDE DEF h
  <1> QED BY <1>2, <1>8

PairOK(g, proof, size, old, oldRoot) ==
    g = [s \in Int \X Ranges(size) |-> PairBody(g, proof, old, oldRoot, s)]
RootPairs(proof, size, old, oldRoot) == CHOOSE g : PairOK(g, proof, size, old, oldRoot)

\* ... which is what it computes.
LEMMA PairUnfold ==
    ASSUME NEW proof, NEW size \in Nat, NEW old, NEW oldRoot
    PROVE  /\ TreeRoots(proof, size, old, oldRoot) =
                RootPairs(proof, size, old, oldRoot)[<<Len(proof), WholeTree(size)>>]
           /\ PairOK(RootPairs(proof, size, old, oldRoot), proof, size, old, oldRoot)
  <1> DEFINE n == 2 * size + 1
  <1>1. PICK g : PairUpTo(g, proof, size, old, oldRoot, n)
    <2>1. n \in Nat
      OBVIOUS
    <2> HIDE DEF n
    <2> QED BY <2>1, PairSolvable
  <1>2. \A s \in Int \X Ranges(size) : RangeRank(size, s[2]) < n
    BY RangeFacts
  <1>3. PairOK(g, proof, size, old, oldRoot)
    <2> HIDE DEF n
    <2> QED BY <1>1, <1>2 DEF PairUpTo, PairOK
  <1>4. PairOK(RootPairs(proof, size, old, oldRoot), proof, size, old, oldRoot)
    BY <1>3 DEF RootPairs
  <1>5. TreeRoots(proof, size, old, oldRoot) =
                RootPairs(proof, size, old, oldRoot)[<<Len(proof), WholeTree(size)>>]
    BY Zenon DEF TreeRoots, RootPairs, PairOK, PairBody
  <1> QED BY <1>4, <1>5

-----------------------------------------------------------------------------
\* Where a proof leads.

\* The ranges that a tree hash is divided into.
Parts(size) == {r \in Ranges(size) : r[1] < r[2] /\ Aligned(r[1], r[2])}

\* They are divided into such ranges again.
LEMMA PartsOfParts ==
    ASSUME NEW size \in Nat, NEW r \in Parts(size), ~IsLeaf(r)
    PROVE  /\ Mid(r) \in Nat /\ r[1] < Mid(r) /\ Mid(r) < r[2]
           /\ LeftPart(r) \in Parts(size) /\ RightPart(r) \in Parts(size)
           /\ LeftPart(r)[1] = r[1] /\ LeftPart(r)[2] = Mid(r)
           /\ RightPart(r)[1] = Mid(r) /\ RightPart(r)[2] = r[2]
           /\ RangeRank(size, LeftPart(r)) < RangeRank(size, r)
           /\ RangeRank(size, RightPart(r)) < RangeRank(size, r)
  <1>1. r \in Ranges(size) /\ Aligned(r[1], r[2])
    BY DEF Parts
  <1>2. /\ Mid(r) \in Nat /\ r[1] < Mid(r) /\ Mid(r) < r[2]
        /\ LeftPart(r) \in Ranges(size) /\ RightPart(r) \in Ranges(size)
        /\ RangeRank(size, LeftPart(r)) < RangeRank(size, r)
        /\ RangeRank(size, RightPart(r)) < RangeRank(size, r)
    BY <1>1, RangeParts
  <1>3. Aligned(r[1], Mid(r)) /\ Aligned(Mid(r), r[2])
    BY <1>1, AlignedParts
  <1>4. /\ LeftPart(r)[1] = r[1] /\ LeftPart(r)[2] = Mid(r)
        /\ RightPart(r)[1] = Mid(r) /\ RightPart(r)[2] = r[2]
    BY DEF LeftPart, RightPart
  <1> QED BY <1>2, <1>3, <1>4 DEF Parts

\* They are not empty and lie in the tree.
LEMMA PartFacts ==
    ASSUME NEW size \in Nat, NEW r \in Parts(size)
    PROVE  /\ r \in Ranges(size) /\ r = <<r[1], r[2]>> /\ r[1] \in Nat /\ r[2] \in Nat
           /\ r[1] < r[2] /\ r[2] <= size /\ Aligned(r[1], r[2])
           /\ RangeRank(size, r) \in Nat
  <1>1. r \in Ranges(size) /\ r[1] < r[2] /\ Aligned(r[1], r[2])
    BY DEF Parts
  <1> QED BY <1>1, RangeFacts

\* The whole tree is one of them.
LEMMA WholePart ==
    ASSUME NEW size \in Nat, size > 0
    PROVE  WholeTree(size) \in Parts(size)
  <1>1. Aligned(0, size)
    BY WholeAligned
  <1> QED BY <1>1 DEF WholeTree, Parts, Ranges

\* A proof names such ranges only.
LEMMA RecordPathParts ==
    ASSUME NEW size \in Nat, NEW index, NEW r \in Parts(size)
    PROVE  RecordPaths(size, index)[r] \in Seq(Parts(size))
  <1> DEFINE P == RecordPaths(size, index)
             B == {k \in Nat : \E s \in Parts(size) : P[s] \notin Seq(Parts(size)) /\ RangeRank(size, s) = k}
  <1>1. B = {}
    <2> SUFFICES ASSUME B # {} PROVE FALSE
      OBVIOUS
    <2>1. PICK m \in B : \A k \in B : m <= k
      <3>1. B \in SUBSET Nat
        OBVIOUS
      <3> HIDE DEF B
      <3> QED BY <3>1, SmallestOf
    <2>2. PICK s \in Parts(size) : P[s] \notin Seq(Parts(size)) /\ RangeRank(size, s) = m
      OBVIOUS
    <2>3. P[s] = RecordBody(P, index, s)
      <3>1. RecordOK(P, size, index)
        BY RecordUnfold
      <3>2. s \in Ranges(size)
        BY PartFacts
      <3> HIDE DEF P
      <3> QED BY <3>1, <3>2, Zenon DEF RecordOK
    <2>4. ASSUME NEW t \in Parts(size), RangeRank(size, t) < m PROVE P[t] \in Seq(Parts(size))
      <3>1. RangeRank(size, t) \in Nat /\ m \in Nat
        BY PartFacts
      <3>2. RangeRank(size, t) \notin B
        <4> HIDE DEF B
        <4> QED BY <2>1, <2>4, <3>1
      <3> QED BY <3>1, <3>2
    <2> HIDE DEF P, B
    <2>5. CASE IsLeaf(s)
      <3>1. P[s] = <<>>
        BY <2>3, <2>5 DEF RecordBody
      <3> QED BY <2>2, <3>1
    <2>6. CASE ~IsLeaf(s)
      <3>1. /\ LeftPart(s) \in Parts(size) /\ RightPart(s) \in Parts(size)
            /\ RangeRank(size, LeftPart(s)) < m /\ RangeRank(size, RightPart(s)) < m
        BY <2>2, <2>6, PartsOfParts
      <3>2. P[LeftPart(s)] \in Seq(Parts(size)) /\ P[RightPart(s)] \in Seq(Parts(size))
        BY <2>4, <3>1
      <3>3. P[s] \in {Append(P[LeftPart(s)], RightPart(s)), Append(P[RightPart(s)], LeftPart(s))}
        BY <2>3, <2>6 DEF RecordBody
      <3>4. \A p \in Seq(Parts(size)), t \in Parts(size) : Append(p, t) \in Seq(Parts(size))
        OBVIOUS
      <3> QED BY <2>2, <3>1, <3>2, <3>3, <3>4
    <2> QED BY <2>5, <2>6
  <1>2. RangeRank(size, r) \in Nat
    BY PartFacts
  <1>3. RangeRank(size, r) \notin B
    <2> HIDE DEF B
    <2> QED BY <1>1
  <1> QED BY <1>2, <1>3

\* The same for a consistency proof.
LEMMA TreePathParts ==
    ASSUME NEW size \in Nat, NEW old, NEW r \in Parts(size)
    PROVE  TreePaths(size, old)[r] \in Seq(Parts(size))
  <1> DEFINE P == TreePaths(size, old)
             B == {k \in Nat : \E s \in Parts(size) : P[s] \notin Seq(Parts(size)) /\ RangeRank(size, s) = k}
  <1>1. B = {}
    <2> SUFFICES ASSUME B # {} PROVE FALSE
      OBVIOUS
    <2>1. PICK m \in B : \A k \in B : m <= k
      <3>1. B \in SUBSET Nat
        OBVIOUS
      <3> HIDE DEF B
      <3> QED BY <3>1, SmallestOf
    <2>2. PICK s \in Parts(size) : P[s] \notin Seq(Parts(size)) /\ RangeRank(size, s) = m
      OBVIOUS
    <2>3. P[s] = OldBody(P, old, s)
      <3>1. OldOK(P, size, old)
        BY OldUnfold
      <3>2. s \in Ranges(size)
        BY PartFacts
      <3> HIDE DEF P
      <3> QED BY <3>1, <3>2, Zenon DEF OldOK
    <2>4. ASSUME NEW t \in Parts(size), RangeRank(size, t) < m PROVE P[t] \in Seq(Parts(size))
      <3>1. RangeRank(size, t) \in Nat /\ m \in Nat
        BY PartFacts
      <3>2. RangeRank(size, t) \notin B
        <4> HIDE DEF B
        <4> QED BY <2>1, <2>4, <3>1
      <3> QED BY <3>1, <3>2
    <2> HIDE DEF P, B
    <2>5. CASE Filled(s, old)
      <3>1. P[s] = <<>> \/ P[s] = <<s>>
        BY <2>3, <2>5 DEF OldBody
      <3>2. <<>> \in Seq(Parts(size)) /\ <<s>> \in Seq(Parts(size))
        OBVIOUS
      <3> QED BY <2>2, <3>1, <3>2
    <2>6. CASE ~Filled(s, old)
      <3>1. /\ LeftPart(s) \in Parts(size) /\ RightPart(s) \in Parts(size)
            /\ RangeRank(size, LeftPart(s)) < m /\ RangeRank(size, RightPart(s)) < m
        BY <2>2, <2>6, PartsOfParts DEF Filled
      <3>2. P[LeftPart(s)] \in Seq(Parts(size)) /\ P[RightPart(s)] \in Seq(Parts(size))
        BY <2>4, <3>1
      <3>3. P[s] \in {Append(P[LeftPart(s)], RightPart(s)), Append(P[RightPart(s)], LeftPart(s))}
        BY <2>3, <2>6 DEF OldBody
      <3>4. \A p \in Seq(Parts(size)), t \in Parts(size) : Append(p, t) \in Seq(Parts(size))
        OBVIOUS
      <3> QED BY <2>2, <3>1, <3>2, <3>3, <3>4
    <2> QED BY <2>5, <2>6
  <1>2. RangeRank(size, r) \in Nat
    BY PartFacts
  <1>3. RangeRank(size, r) \notin B
    <2> HIDE DEF B
    <2> QED BY <1>1
  <1> QED BY <1>2, <1>3

\* The first hashes of a proof are those of the ranges in a path.
Follows(proof, leaves, path) ==
    \A i \in 1..Len(path) : proof[i] = RangeHash(leaves, path[i])

\* The last hash of a proof is that of the last range.
LEMMA FollowsShorter ==
    ASSUME NEW proof, NEW leaves, NEW size \in Nat, NEW path \in Seq(Parts(size)), NEW r \in Parts(size),
           Follows(proof, leaves, Append(path, r))
    PROVE  /\ Follows(proof, leaves, path)
           /\ Len(path) \in Nat /\ Len(Append(path, r)) = Len(path) + 1
           /\ proof[Len(path) + 1] = RangeHash(leaves, r)
  <1> DEFINE q == Append(path, r)
             n == Len(path)
  <1>1. n \in Nat /\ Len(q) = n + 1 /\ q[n + 1] = r /\ \A i \in 1..n : q[i] = path[i]
    OBVIOUS
  <1> HIDE DEF q
  <1>2. \A i \in 1..(n + 1) : proof[i] = RangeHash(leaves, q[i])
    BY <1>1 DEF Follows, q
  <1> HIDE DEF n
  <1>3. proof[n + 1] = RangeHash(leaves, r)
    <2>1. n + 1 \in 1..(n + 1)
      BY <1>1
    <2> QED BY <1>1, <1>2, <2>1
  <1>4. \A i \in 1..n : proof[i] = RangeHash(leaves, path[i])
    BY <1>1, <1>2
  <1> QED BY <1>1, <1>3, <1>4 DEF Follows, q, n

\* The hash of a range is that of its two parts.
LEMMA PartHash ==
    ASSUME NEW leaves, Len(leaves) \in Nat, NEW size \in Nat, size <= Len(leaves),
           NEW r \in Parts(size)
    PROVE  RangeHash(leaves, r) =
             IF IsLeaf(r) THEN leaves[r[2]]
             ELSE Node(RangeHash(leaves, LeftPart(r)), RangeHash(leaves, RightPart(r)))
  <1>1. r \in Ranges(Len(leaves))
    BY PartFacts DEF Ranges
  <1> QED BY <1>1, RangeHashUnfold

\* A path through a range of the tree that an inclusion proof follows.
LeafPath(proof, leaves, size, index, r) ==
    /\ Len(leaves) \in Nat /\ size \in Nat /\ size <= Len(leaves) /\ index \in Nat
    /\ r \in Parts(size) /\ r[1] <= index /\ index < r[2]
    /\ Follows(proof, leaves, RecordPaths(size, index)[r])

\* An inclusion proof leads from the leaf to the hash of every range above it.
LEMMA RecordRootIs ==
    ASSUME NEW proof, NEW leaves, NEW size, NEW index, NEW r, LeafPath(proof, leaves, size, index, r)
    PROVE  RecordRoots(proof, size, index, leaves[index + 1])[<<Len(RecordPaths(size, index)[r]), r>>]
             = RangeHash(leaves, r)
  <1> /\ Len(leaves) \in Nat /\ size \in Nat /\ size <= Len(leaves) /\ index \in Nat
      /\ r \in Parts(size) /\ r[1] <= index /\ index < r[2]
      /\ Follows(proof, leaves, RecordPaths(size, index)[r])
    BY DEF LeafPath
  <1> DEFINE P == RecordPaths(size, index)
             R == RecordRoots(proof, size, index, leaves[index + 1])
             Bad(s) == /\ s[1] <= index /\ index < s[2] /\ Follows(proof, leaves, P[s])
                       /\ R[<<Len(P[s]), s>>] # RangeHash(leaves, s)
             B == {k \in Nat : \E s \in Parts(size) : Bad(s) /\ RangeRank(size, s) = k}
  <1>1. B = {}
    <2> SUFFICES ASSUME B # {} PROVE FALSE
      OBVIOUS
    <2>1. PICK m \in B : \A k \in B : m <= k
      <3>1. B \in SUBSET Nat
        OBVIOUS
      <3> HIDE DEF B
      <3> QED BY <3>1, SmallestOf
    <2>2. PICK s \in Parts(size) : Bad(s) /\ RangeRank(size, s) = m
      OBVIOUS
    <2>3. /\ s[1] <= index /\ index < s[2] /\ Follows(proof, leaves, P[s])
          /\ R[<<Len(P[s]), s>>] # RangeHash(leaves, s)
      BY <2>2
    <2>4. /\ s \in Ranges(size) /\ s[1] \in Nat /\ s[2] \in Nat /\ m \in Nat
      BY <2>2, PartFacts
    <2>5. P[s] = RecordBody(P, index, s)
      <3>1. RecordOK(P, size, index)
        BY RecordUnfold
      <3>2. s \in Ranges(size)
        BY <2>4
      <3> HIDE DEF P
      <3> QED BY <3>1, <3>2, Zenon DEF RecordOK
    <2>6. \A p \in Int : R[<<p, s>>] = RootBody(R, proof, index, leaves[index + 1], <<p, s>>)
      <3>1. \A t \in Int \X Ranges(size) : R[t] = RootBody(R, proof, index, leaves[index + 1], t)
        <4>1. RootOK(R, proof, size, index, leaves[index + 1])
          BY RootUnfold
        <4> HIDE DEF R
        <4> QED BY <4>1, Zenon DEF RootOK
      <3> HIDE DEF R
      <3>2. \A p \in Int : <<p, s>> \in Int \X Ranges(size)
        BY <2>4
      <3> QED BY <3>1, <3>2
    <2>7. ASSUME NEW t \in Parts(size), RangeRank(size, t) < m PROVE ~Bad(t)
      <3>1. RangeRank(size, t) \in Nat
        BY PartFacts
      <3>2. RangeRank(size, t) \notin B
        <4> HIDE DEF B
        <4> QED BY <2>1, <2>4, <2>7, <3>1
      <3> QED BY <3>1, <3>2
    <2>8. RangeHash(leaves, s) =
             IF IsLeaf(s) THEN leaves[s[2]]
             ELSE Node(RangeHash(leaves, LeftPart(s)), RangeHash(leaves, RightPart(s)))
      BY PartHash
    <2>9. ASSUME NEW t \in Parts(size) PROVE P[t] \in Seq(Parts(size))
      BY RecordPathParts
    <2> HIDE DEF P, R, B
    <2>10. CASE IsLeaf(s)
      <3>1. s[2] = index + 1
        BY <2>3, <2>4, <2>10 DEF IsLeaf
      <3>2. Len(P[s]) \in Int
        BY <2>9
      <3>3. R[<<Len(P[s]), s>>] = leaves[index + 1]
        BY <2>6, <2>10, <3>2 DEF RootBody
      <3> QED BY <2>3, <2>8, <2>10, <3>1, <3>3
    <2>11. CASE ~IsLeaf(s)
      <3> DEFINE left == LeftPart(s)
                 right == RightPart(s)
      <3>1. /\ Mid(s) \in Nat /\ s[1] < Mid(s) /\ Mid(s) < s[2]
            /\ left \in Parts(size) /\ right \in Parts(size)
            /\ left[1] = s[1] /\ left[2] = Mid(s) /\ right[1] = Mid(s) /\ right[2] = s[2]
            /\ RangeRank(size, left) < m /\ RangeRank(size, right) < m
        BY <2>2, <2>11, PartsOfParts
      <3>2. ~Bad(left) /\ ~Bad(right)
        <4> HIDE DEF Bad, left, right
        <4> QED BY <2>7, <3>1
      <3>3. P[left] \in Seq(Parts(size)) /\ P[right] \in Seq(Parts(size))
        BY <2>9, <3>1
      <3>4. CASE index < Mid(s)
        <4>1. P[s] = Append(P[left], right)
          BY <2>5, <2>11, <3>4 DEF RecordBody
        <4> DEFINE n == Len(P[left])
        <4>2. /\ Follows(proof, leaves, P[left]) /\ n \in Nat /\ Len(P[s]) = n + 1
              /\ proof[n + 1] = RangeHash(leaves, right)
          <5> HIDE DEF left, right, Bad
          <5>1. Follows(proof, leaves, Append(P[left], right))
            BY <2>3, <4>1
          <5>2. /\ Follows(proof, leaves, P[left])
                /\ Len(P[left]) \in Nat /\ Len(Append(P[left], right)) = Len(P[left]) + 1
                /\ proof[Len(P[left]) + 1] = RangeHash(leaves, right)
            BY ONLY size \in Nat, <3>1, <3>3, <5>1, FollowsShorter
          <5> QED BY <4>1, <5>2
        <4>3. R[<<n, left>>] = RangeHash(leaves, left)
          BY <2>3, <3>1, <3>2, <3>4, <4>2
        <4> HIDE DEF n
        <4>4. R[<<n + 1, s>>] = Node(R[<<n, left>>], proof[n + 1])
          <5>1. n + 1 \in Int /\ (n + 1) - 1 = n
            BY <4>2
          <5>2. R[<<n + 1, s>>] = RootBody(R, proof, index, leaves[index + 1], <<n + 1, s>>)
            BY <2>6, <5>1
          <5> QED BY <2>11, <3>4, <5>1, <5>2 DEF RootBody
        <4> HIDE DEF left, right
        <4> QED BY <2>3, <2>8, <2>11, <4>2, <4>3, <4>4 DEF left, right
      <3>5. CASE ~(index < Mid(s))
        <4>1. P[s] = Append(P[right], left)
          BY <2>5, <2>11, <3>5 DEF RecordBody
        <4> DEFINE n == Len(P[right])
        <4>2. /\ Follows(proof, leaves, P[right]) /\ n \in Nat /\ Len(P[s]) = n + 1
              /\ proof[n + 1] = RangeHash(leaves, left)
          <5> HIDE DEF left, right, Bad
          <5>1. Follows(proof, leaves, Append(P[right], left))
            BY <2>3, <4>1
          <5>2. /\ Follows(proof, leaves, P[right])
                /\ Len(P[right]) \in Nat /\ Len(Append(P[right], left)) = Len(P[right]) + 1
                /\ proof[Len(P[right]) + 1] = RangeHash(leaves, left)
            BY ONLY size \in Nat, <3>1, <3>3, <5>1, FollowsShorter
          <5> QED BY <4>1, <5>2
        <4>3. R[<<n, right>>] = RangeHash(leaves, right)
          BY <2>3, <3>1, <3>2, <3>5, <4>2
        <4> HIDE DEF n
        <4>4. R[<<n + 1, s>>] = Node(proof[n + 1], R[<<n, right>>])
          <5>1. n + 1 \in Int /\ (n + 1) - 1 = n
            BY <4>2
          <5>2. R[<<n + 1, s>>] = RootBody(R, proof, index, leaves[index + 1], <<n + 1, s>>)
            BY <2>6, <5>1
          <5> QED BY <2>11, <3>5, <5>1, <5>2 DEF RootBody
        <4> HIDE DEF left, right
        <4> QED BY <2>3, <2>8, <2>11, <4>2, <4>3, <4>4 DEF left, right
      <3> QED BY <3>4, <3>5
    <2> QED BY <2>10, <2>11
  <1>2. RangeRank(size, r) \in Nat
    BY PartFacts
  <1>3. RangeRank(size, r) \notin B
    <2> HIDE DEF B
    <2> QED BY <1>1
  <1> QED BY <1>2, <1>3

\* The old tree is divided where the new one is, as long as it reaches beyond.
LEMMA OldPartHash ==
    ASSUME NEW leaves, Len(leaves) \in Nat, NEW size \in Nat, size <= Len(leaves),
           NEW r \in Parts(size), ~IsLeaf(r), NEW old \in Nat, Mid(r) < old, old <= r[2]
    PROVE  RangeHash(leaves, <<r[1], old>>) =
             Node(RangeHash(leaves, LeftPart(r)), RangeHash(leaves, <<Mid(r), old>>))
  <1> DEFINE q == <<r[1], old>>
             n == r[2] - r[1]
             l == SplitLevel(n)
  <1>1. r[1] \in Nat /\ r[2] \in Nat /\ r[2] <= size
    BY PartFacts
  <1>2. Mid(r) \in Nat /\ r[1] < Mid(r)
    BY PartsOfParts
  <1>3. n \in Nat /\ n >= 2 /\ n = r[2] - r[1]
    BY <1>1 DEF IsLeaf
  <1> HIDE DEF n
  <1>4. l \in Nat /\ Split(n) = 2^l /\ Split(n) \in Nat /\ Split(n) < n /\ n <= 2 * Split(n) /\ 1 <= Split(n)
    BY <1>3, SplitLevelSplits
  <1>5. Mid(r) = r[1] + 2^l
    BY <1>4 DEF Mid, n
  <1> HIDE DEF l
  <1>6. old - r[1] \in Nat /\ 2^l < old - r[1] /\ old - r[1] <= 2 * 2^l
    <2> DEFINE w == 2^l
    <2>1. w \in Nat /\ Mid(r) = r[1] + w /\ n <= 2 * w
      BY <1>4, <1>5
    <2> HIDE DEF w
    <2>2. \A a, b, o, v \in Nat : a + v < o /\ o <= b /\ b - a <= 2 * v
             => o - a \in Nat /\ v < o - a /\ o - a <= 2 * v
      OBVIOUS
    <2>3. r[1] + w < old /\ old <= r[2] /\ r[2] - r[1] <= 2 * w
      BY <1>3, <2>1
    <2>4. old - r[1] \in Nat /\ w < old - r[1] /\ old - r[1] <= 2 * w
      BY ONLY old \in Nat, <1>1, <2>1, <2>2, <2>3
    <2> QED BY <2>4 DEF w
  <1>7. Split(old - r[1]) = 2^l
    BY <1>4, <1>6, SplitLevelIs
  <1>8. q[1] = r[1] /\ q[2] = old /\ q \in Ranges(Len(leaves))
    <2>1. r[1] \in 0..Len(leaves) /\ old \in 0..Len(leaves)
      BY <1>1, <1>2
    <2> QED BY <2>1 DEF Ranges
  <1> HIDE DEF q
  <1>9. ~IsLeaf(q) /\ Mid(q) = Mid(r)
    BY <1>1, <1>4, <1>5, <1>6, <1>7, <1>8 DEF IsLeaf, Mid
  <1>10. LeftPart(q) = LeftPart(r) /\ RightPart(q) = <<Mid(r), old>>
    BY <1>8, <1>9 DEF LeftPart, RightPart
  <1>11. RangeHash(leaves, q) = Node(RangeHash(leaves, LeftPart(q)), RangeHash(leaves, RightPart(q)))
    BY <1>8, <1>9, RangeHashUnfold
  <1>12. RangeHash(leaves, q) = Node(RangeHash(leaves, LeftPart(r)), RangeHash(leaves, <<Mid(r), old>>))
    BY <1>10, <1>11
  <1> QED BY <1>12 DEF q

\* What the old and the new tree hash a range to.
BothRoots(leaves, old, r) == <<RangeHash(leaves, <<r[1], old>>), RangeHash(leaves, r)>>

\* A path through a range of the new tree that a consistency proof follows.
TreePathOf(proof, leaves, size, old, root, r) ==
    /\ Len(leaves) \in Nat /\ size \in Nat /\ size <= Len(leaves) /\ old \in Nat
    /\ root = RangeHash(leaves, <<0, old>>)
    /\ r \in Parts(size) /\ r[1] < old /\ old <= r[2]
    /\ Follows(proof, leaves, TreePaths(size, old)[r])

\* A consistency proof leads from the old root to both hashes of every range above
\* the end of the old tree.
LEMMA TreeRootsAre ==
    ASSUME NEW proof, NEW leaves, NEW size, NEW old, NEW root, NEW r,
           TreePathOf(proof, leaves, size, old, root, r)
    PROVE  RootPairs(proof, size, old, root)[<<Len(TreePaths(size, old)[r]), r>>] = BothRoots(leaves, old, r)
  <1> /\ Len(leaves) \in Nat /\ size \in Nat /\ size <= Len(leaves) /\ old \in Nat
      /\ root = RangeHash(leaves, <<0, old>>)
      /\ r \in Parts(size) /\ r[1] < old /\ old <= r[2]
      /\ Follows(proof, leaves, TreePaths(size, old)[r])
    BY DEF TreePathOf
  <1> DEFINE P == TreePaths(size, old)
             R == RootPairs(proof, size, old, root)
             Bad(s) == /\ s[1] < old /\ old <= s[2] /\ Follows(proof, leaves, P[s])
                       /\ R[<<Len(P[s]), s>>] # BothRoots(leaves, old, s)
             B == {k \in Nat : \E s \in Parts(size) : Bad(s) /\ RangeRank(size, s) = k}
  <1>1. B = {}
    <2> SUFFICES ASSUME B # {} PROVE FALSE
      OBVIOUS
    <2>1. PICK m \in B : \A k \in B : m <= k
      <3>1. B \in SUBSET Nat
        OBVIOUS
      <3> HIDE DEF B
      <3> QED BY <3>1, SmallestOf
    <2>2. PICK s \in Parts(size) : Bad(s) /\ RangeRank(size, s) = m
      OBVIOUS
    <2>3. /\ s[1] < old /\ old <= s[2] /\ Follows(proof, leaves, P[s])
          /\ R[<<Len(P[s]), s>>] # BothRoots(leaves, old, s)
      BY <2>2
    <2>4. /\ s \in Ranges(size) /\ s[1] \in Nat /\ s[2] \in Nat /\ m \in Nat /\ s = <<s[1], s[2]>>
      BY <2>2, PartFacts
    <2>5. P[s] = OldBody(P, old, s)
      <3>1. OldOK(P, size, old)
        BY OldUnfold
      <3>2. s \in Ranges(size)
        BY <2>4
      <3> HIDE DEF P
      <3> QED BY <3>1, <3>2, Zenon DEF OldOK
    <2>6. \A p \in Int : R[<<p, s>>] = PairBody(R, proof, old, root, <<p, s>>)
      <3>1. \A t \in Int \X Ranges(size) : R[t] = PairBody(R, proof, old, root, t)
        <4>1. PairOK(R, proof, size, old, root)
          BY PairUnfold
        <4> HIDE DEF R
        <4> QED BY <4>1, Zenon DEF PairOK
      <3> HIDE DEF R
      <3>2. \A p \in Int : <<p, s>> \in Int \X Ranges(size)
        BY <2>4
      <3> QED BY <3>1, <3>2
    <2>7. ASSUME NEW t \in Parts(size), RangeRank(size, t) < m PROVE ~Bad(t)
      <3>1. RangeRank(size, t) \in Nat
        BY PartFacts
      <3>2. RangeRank(size, t) \notin B
        <4> HIDE DEF B
        <4> QED BY <2>1, <2>4, <2>7, <3>1
      <3> QED BY <3>1, <3>2
    <2>8. ASSUME NEW t \in Parts(size) PROVE P[t] \in Seq(Parts(size))
      BY TreePathParts
    <2>9. BothRoots(leaves, old, s) = <<RangeHash(leaves, <<s[1], old>>), RangeHash(leaves, s)>>
      BY DEF BothRoots
    <2> HIDE DEF P, R, B
    <2>10. CASE Filled(s, old)
      <3>1. old = s[2] /\ <<s[1], old>> = s
        BY <2>3, <2>4, <2>10 DEF Filled, IsLeaf
      <3>2. Len(P[s]) \in Int
        BY <2>8
      <3>3. R[<<Len(P[s]), s>>] = IF s[1] = 0 THEN <<root, root>> ELSE <<proof[1], proof[1]>>
        <4>1. R[<<Len(P[s]), s>>] = PairBody(R, proof, old, root, <<Len(P[s]), s>>)
          BY <2>6, <3>2
        <4> QED BY <2>10, <4>1 DEF PairBody
      <3>4. CASE s[1] = 0
        <4>1. root = RangeHash(leaves, s)
          BY <3>1, <3>4
        <4> QED BY <2>3, <2>9, <3>1, <3>3, <3>4, <4>1
      <3>5. CASE s[1] # 0
        <4>1. P[s] = <<s>>
          BY <2>5, <2>10, <3>5 DEF OldBody
        <4>2. 1 \in 1..Len(P[s]) /\ P[s][1] = s
          BY <4>1
        <4>3. proof[1] = RangeHash(leaves, s)
          BY <2>3, <4>2 DEF Follows
        <4> QED BY <2>3, <2>9, <3>1, <3>3, <3>5, <4>3
      <3> QED BY <3>4, <3>5
    <2>11. CASE ~Filled(s, old)
      <3> DEFINE left == LeftPart(s)
                 right == RightPart(s)
      <3>1. ~IsLeaf(s)
        BY <2>11 DEF Filled
      <3>2. /\ Mid(s) \in Nat /\ s[1] < Mid(s) /\ Mid(s) < s[2]
            /\ left \in Parts(size) /\ right \in Parts(size)
            /\ left[1] = s[1] /\ left[2] = Mid(s) /\ right[1] = Mid(s) /\ right[2] = s[2]
            /\ RangeRank(size, left) < m /\ RangeRank(size, right) < m
        BY <2>2, <3>1, PartsOfParts
      <3>3. ~Bad(left) /\ ~Bad(right)
        <4> HIDE DEF Bad, left, right
        <4> QED BY <2>7, <3>2
      <3>4. P[left] \in Seq(Parts(size)) /\ P[right] \in Seq(Parts(size))
        BY <2>8, <3>2
      <3>5. RangeHash(leaves, s) = Node(RangeHash(leaves, left), RangeHash(leaves, right))
        BY <3>1, PartHash
      <3>6. CASE old <= Mid(s)
        <4>1. P[s] = Append(P[left], right)
          BY <2>5, <2>11, <3>6 DEF OldBody
        <4> DEFINE n == Len(P[left])
        <4>2. /\ Follows(proof, leaves, P[left]) /\ n \in Nat /\ Len(P[s]) = n + 1
              /\ proof[n + 1] = RangeHash(leaves, right)
          <5> HIDE DEF left, right, Bad
          <5>1. Follows(proof, leaves, Append(P[left], right))
            BY <2>3, <4>1
          <5>2. /\ Follows(proof, leaves, P[left])
                /\ Len(P[left]) \in Nat /\ Len(Append(P[left], right)) = Len(P[left]) + 1
                /\ proof[Len(P[left]) + 1] = RangeHash(leaves, right)
            BY ONLY size \in Nat, <3>2, <3>4, <5>1, FollowsShorter
          <5> QED BY <4>1, <5>2
        <4>3. R[<<n, left>>] = <<RangeHash(leaves, <<s[1], old>>), RangeHash(leaves, left)>>
          <5>1. R[<<n, left>>] = BothRoots(leaves, old, left)
            <6> QED BY <2>3, <3>2, <3>3, <3>6, <4>2
          <5> QED BY <3>2, <5>1 DEF BothRoots
        <4> HIDE DEF n
        <4>4. R[<<n + 1, s>>] = <<R[<<n, left>>][1], Node(R[<<n, left>>][2], proof[n + 1])>>
          <5>1. n + 1 \in Int /\ (n + 1) - 1 = n
            BY <4>2
          <5>2. R[<<n + 1, s>>] = PairBody(R, proof, old, root, <<n + 1, s>>)
            BY <2>6, <5>1
          <5> QED BY <2>11, <3>6, <5>1, <5>2 DEF PairBody
        <4> HIDE DEF left, right
        <4>5. R[<<n + 1, s>>] = BothRoots(leaves, old, s)
          BY <3>5, <4>2, <4>3, <2>9, <4>4
        <4> QED BY <2>3, <4>2, <4>5
      <3>7. CASE ~(old <= Mid(s))
        <4>1. P[s] = Append(P[right], left)
          BY <2>5, <2>11, <3>7 DEF OldBody
        <4> DEFINE n == Len(P[right])
        <4>2. /\ Follows(proof, leaves, P[right]) /\ n \in Nat /\ Len(P[s]) = n + 1
              /\ proof[n + 1] = RangeHash(leaves, left)
          <5> HIDE DEF left, right, Bad
          <5>1. Follows(proof, leaves, Append(P[right], left))
            BY <2>3, <4>1
          <5>2. /\ Follows(proof, leaves, P[right])
                /\ Len(P[right]) \in Nat /\ Len(Append(P[right], left)) = Len(P[right]) + 1
                /\ proof[Len(P[right]) + 1] = RangeHash(leaves, left)
            BY ONLY size \in Nat, <3>2, <3>4, <5>1, FollowsShorter
          <5> QED BY <4>1, <5>2
        <4>3. R[<<n, right>>] = <<RangeHash(leaves, <<Mid(s), old>>), RangeHash(leaves, right)>>
          <5>1. R[<<n, right>>] = BothRoots(leaves, old, right)
            <6>1. right[1] < old
              BY <3>2, <3>7
            <6> QED BY <2>3, <3>2, <3>3, <4>2, <6>1
          <5> QED BY <3>2, <5>1 DEF BothRoots
        <4> HIDE DEF n
        <4>4. R[<<n + 1, s>>] = <<Node(proof[n + 1], R[<<n, right>>][1]),
                                  Node(proof[n + 1], R[<<n, right>>][2])>>
          <5>1. n + 1 \in Int /\ (n + 1) - 1 = n
            BY <4>2
          <5>2. R[<<n + 1, s>>] = PairBody(R, proof, old, root, <<n + 1, s>>)
            BY <2>6, <5>1
          <5> QED BY <2>11, <3>7, <5>1, <5>2 DEF PairBody
        <4>5. RangeHash(leaves, <<s[1], old>>) =
                Node(RangeHash(leaves, left), RangeHash(leaves, <<Mid(s), old>>))
          <5>1. Mid(s) < old
            BY <3>2, <3>7
          <5> QED BY <2>3, <3>1, <5>1, OldPartHash
        <4> HIDE DEF left, right
        <4>6. R[<<n + 1, s>>] = BothRoots(leaves, old, s)
          BY <3>5, <4>2, <4>3, <4>4, <4>5, <2>9
        <4> QED BY <2>3, <4>2, <4>6
      <3> QED BY <3>6, <3>7
    <2> QED BY <2>10, <2>11
  <1>2. RangeRank(size, r) \in Nat
    BY PartFacts
  <1>3. RangeRank(size, r) \notin B
    <2> HIDE DEF B
    <2> QED BY <1>1
  <1> QED BY <1>2, <1>3

\* A proof holds the hashes of the ranges in its path, all of which the log has.
Proves(answer, path, leaves) ==
    /\ Len(answer) = Len(path)
    /\ \A i \in 1..Len(path) :
          path[i] \in Parts(Len(leaves)) /\ answer[i] = RangeHash(leaves, path[i])

\* Such an inclusion proof verifies ...
LEMMA InclusionVerifies ==
    ASSUME NEW leaves, Len(leaves) \in Nat, NEW size \in Nat, size <= Len(leaves),
           NEW index \in Nat, index < size, NEW proof, Proves(proof, RecordPath(size, index), leaves)
    PROVE  /\ Len(proof) = Len(RecordPath(size, index))
           /\ RecordRoot(proof, size, index, leaves[index + 1]) = RangeHash(leaves, WholeTree(size))
  <1> DEFINE whole == WholeTree(size)
             path == RecordPaths(size, index)[whole]
             roots == RecordRoots(proof, size, index, leaves[index + 1])
  <1>1. RecordPath(size, index) = path
    BY RecordUnfold
  <1>2. RecordRoot(proof, size, index, leaves[index + 1]) = roots[<<Len(proof), whole>>]
    BY RootUnfold
  <1>3. Len(proof) = Len(path) /\ Follows(proof, leaves, path)
    BY <1>1 DEF Proves, Follows
  <1>4. whole \in Parts(size) /\ whole[1] <= index /\ index < whole[2]
    <2>1. whole[1] = 0 /\ whole[2] = size
      BY DEF WholeTree
    <2>2. size > 0
      OBVIOUS
    <2>3. whole \in Parts(size)
      BY <2>2, WholePart
    <2> HIDE DEF whole
    <2> QED BY <2>1, <2>3
  <1>5. roots[<<Len(path), whole>>] = RangeHash(leaves, whole)
    <2> HIDE DEF whole
    <2>1. LeafPath(proof, leaves, size, index, whole)
      BY <1>3, <1>4 DEF LeafPath
    <2> QED BY <2>1, RecordRootIs
  <1> HIDE DEF path, whole, roots
  <1>6. RecordRoot(proof, size, index, leaves[index + 1]) = RangeHash(leaves, whole)
    BY <1>2, <1>3, <1>5
  <1> QED BY <1>1, <1>3, <1>6 DEF whole

\* ... and so does such a consistency proof.
LEMMA ConsistencyVerifies ==
    ASSUME NEW leaves, Len(leaves) \in Nat, NEW size \in Nat, size <= Len(leaves),
           NEW old \in Nat, 1 <= old, old <= size, NEW proof, Proves(proof, TreePath(size, old), leaves)
    PROVE  /\ Len(proof) = Len(TreePath(size, old))
           /\ TreeRoots(proof, size, old, RangeHash(leaves, WholeTree(old))) =
                <<RangeHash(leaves, WholeTree(old)), RangeHash(leaves, WholeTree(size))>>
  <1> DEFINE whole == WholeTree(size)
             path == TreePaths(size, old)[whole]
             root == RangeHash(leaves, WholeTree(old))
             pairs == RootPairs(proof, size, old, root)
  <1>1. TreePath(size, old) = path
    BY OldUnfold
  <1>2. TreeRoots(proof, size, old, root) = pairs[<<Len(proof), whole>>]
    <2> HIDE DEF root
    <2> QED BY PairUnfold
  <1>3. Len(proof) = Len(path) /\ Follows(proof, leaves, path)
    BY <1>1 DEF Proves, Follows
  <1>4. whole \in Parts(size) /\ whole[1] = 0 /\ whole[1] < old /\ old <= whole[2]
    <2>1. whole[1] = 0 /\ whole[2] = size
      BY DEF WholeTree
    <2>2. size > 0
      OBVIOUS
    <2>3. whole \in Parts(size)
      BY <2>2, WholePart
    <2> HIDE DEF whole
    <2> QED BY <2>1, <2>3
  <1>5. root = RangeHash(leaves, <<0, old>>)
    BY DEF WholeTree
  <1>6. pairs[<<Len(path), whole>>] = BothRoots(leaves, old, whole)
    <2> HIDE DEF whole, root
    <2>1. TreePathOf(proof, leaves, size, old, root, whole)
      BY <1>3, <1>4, <1>5 DEF TreePathOf
    <2> QED BY <2>1, TreeRootsAre
  <1> HIDE DEF path, whole, pairs, root
  <1>7. TreeRoots(proof, size, old, root) = <<root, RangeHash(leaves, whole)>>
    BY <1>2, <1>3, <1>4, <1>5, <1>6 DEF BothRoots
  <1> QED BY <1>1, <1>3, <1>7 DEF whole, root
=============================================================================
