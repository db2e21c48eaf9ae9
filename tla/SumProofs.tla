------------------------------ MODULE SumProofs ------------------------------
(***************************************************************************)
(* Induction over the natural numbers for a set, the greatest element of a *)
(* finite set, and what sums are.                                          *)
(***************************************************************************)
EXTENDS Sums, Sequences, FiniteSetsExt, FiniteSetTheorems, WellFoundedInduction,
        NaturalsInduction, TLAPS

(* A set of natural numbers has a least element. *)
LEMMA LeastElement ==
  ASSUME NEW T, T \subseteq Nat, T # {}
  PROVE  \E x \in T : \A y \in T : x <= y
  <1>1. PICK x \in T : \A y \in T : ~(<<y, x>> \in OpToRel(<, Nat))
    BY NatLessThanWellFounded, WFMin
  <1>2. \A y \in T : y \in Nat /\ ~(y < x)
    BY <1>1 DEF OpToRel
  <1>3. x \in Nat
    OBVIOUS
  <1> QED
    BY <1>2, <1>3

(* Induction, for what is a set. *)
LEMMA SetInduction ==
  ASSUME NEW S, 0 \in S, \A n \in Nat : n \in S => n + 1 \in S
  PROVE  \A n \in Nat : n \in S
  <1> SUFFICES ASSUME Nat \ S # {}
               PROVE  FALSE
    OBVIOUS
  <1>1. PICK x \in Nat \ S : \A y \in Nat \ S : x <= y
    BY LeastElement
  <1>2. x # 0 /\ x - 1 \in Nat
    BY <1>1
  <1>3. x - 1 \in S
    BY <1>1, <1>2
  <1> QED
    BY <1>1, <1>2, <1>3

(* The greatest element of a finite set of natural numbers. *)
LEMMA FiniteMax ==
  ASSUME NEW S, S \subseteq Nat, S # {}, IsFiniteSet(S)
  PROVE  Max(S) \in S /\ \A x \in S : Max(S) >= x
  <1>1. PICK n \in Nat : ExistsBijection(1..n, S)
    BY FS_NatBijection
  <1>2. PICK f : f \in [1..n -> S] /\ \A x \in S : \E i \in 1..n : f[i] = x
    BY <1>1 DEF ExistsBijection, Bijection, Surjection, Injection
  <1> DEFINE I == {k \in Nat : (1 <= k /\ k <= n) =>
                     \E m \in 1..k : \A j \in 1..k : f[m] >= f[j]}
  <1>3. \A i \in 1..n : f[i] \in Nat
    BY <1>2
  <1>4. \A k \in Nat : k \in I => k + 1 \in I
    <2> SUFFICES ASSUME NEW k \in Nat, k \in I, k + 1 <= n
                 PROVE  \E m \in 1..(k + 1) : \A j \in 1..(k + 1) : f[m] >= f[j]
      OBVIOUS
    <2>1. CASE k = 0
      <3>1. f[1] >= f[1]
        BY <1>3, <2>1
      <3> QED
        BY <2>1, <3>1
    <2>2. CASE k # 0
      <3>1. PICK m \in 1..k : \A j \in 1..k : f[m] >= f[j]
        BY <2>2
      <3>2. f[m] \in Nat /\ f[k + 1] \in Nat /\ \A j \in 1..k : f[j] \in Nat
        BY <1>3
      <3>3. \A j \in 1..(k + 1) : j \in 1..k \/ j = k + 1
        OBVIOUS
      <3>4. CASE f[m] >= f[k + 1]
        BY <3>1, <3>3, <3>4
      <3>5. CASE f[k + 1] >= f[m]
        <4>1. \A j \in 1..(k + 1) : f[k + 1] >= f[j]
          BY <3>1, <3>2, <3>3, <3>5
        <4> QED
          BY <4>1
      <3> QED
        BY <3>2, <3>4, <3>5
    <2> QED
      BY <2>1, <2>2
  <1>5. 0 \in I
    OBVIOUS
  <1>6. n \in I
    <2> HIDE DEF I
    <2> QED
      BY <1>4, <1>5, SetInduction
  <1>7. n >= 1
    <2>1. PICK x \in S : TRUE
      OBVIOUS
    <2>2. PICK i \in 1..n : f[i] = x
      BY <1>2
    <2> QED
      BY <2>2
  <1>8. PICK m \in 1..n : \A j \in 1..n : f[m] >= f[j]
    BY <1>6, <1>7
  <1>9. f[m] \in S /\ \A x \in S : f[m] >= x
    BY <1>2, <1>8
  <1> QED
    BY <1>9 DEF Max

-----------------------------------------------------------------------------
(* Sums                                                                    *)

(* f has numbers up to n. *)
Numbers(f, n) == \A i \in 1..n : f[i] \in Int

IsSum(s, f, n) ==
  s = [i \in 0..n |-> IF i = 0 THEN 0 ELSE s[i - 1] + f[i]]

(* The partial sums that SumTo's definition speaks of exist. *)
LEMMA SumExists ==
  ASSUME NEW f
  PROVE  \A n \in Nat : \E s : IsSum(s, f, n)
  <1> DEFINE I == {n \in Nat : \E s : IsSum(s, f, n)}
  <1>1. 0 \in I
    <2>1. IsSum([i \in 0..0 |-> 0], f, 0)
      BY DEF IsSum
    <2> QED
      BY <2>1
  <1>2. \A n \in Nat : n \in I => n + 1 \in I
    <2> SUFFICES ASSUME NEW n \in Nat, NEW s, IsSum(s, f, n)
                 PROVE  \E t : IsSum(t, f, n + 1)
      OBVIOUS
    <2> DEFINE t == [i \in 0..(n + 1) |-> IF i = n + 1 THEN s[n] + f[n + 1] ELSE s[i]]
    <2>1. \A i \in 0..(n + 1) : t[i] = IF i = 0 THEN 0 ELSE t[i - 1] + f[i]
      <3> SUFFICES ASSUME NEW i \in 0..(n + 1)
                   PROVE  t[i] = IF i = 0 THEN 0 ELSE t[i - 1] + f[i]
        OBVIOUS
      <3>1. CASE i = n + 1
        BY <3>1
      <3>2. CASE i \in 0..n
        <4>1. t[i] = s[i] /\ (i # 0 => t[i - 1] = s[i - 1])
          BY <3>2
        <4>2. s[i] = IF i = 0 THEN 0 ELSE s[i - 1] + f[i]
          BY <3>2 DEF IsSum
        <4> QED
          BY <4>1, <4>2
      <3> QED
        BY <3>1, <3>2
    <2>2. IsSum(t, f, n + 1)
      BY <2>1 DEF IsSum
    <2> QED
      BY <2>2
  <1> HIDE DEF I
  <1>3. \A n \in Nat : n \in I
    BY <1>1, <1>2, SetInduction
  <1> QED
    BY <1>3 DEF I

(* What the recursive function is for: the values of SumTo. *)
LEMMA SumIs ==
  ASSUME NEW f, NEW n \in Nat
  PROVE  \E s : IsSum(s, f, n) /\ SumTo(f, n) = s[n]
  <1>1. \E s : IsSum(s, f, n)
    BY SumExists
  <1> QED
    BY <1>1 DEF SumTo, IsSum

(* Sums agree as far as they go. *)
LEMMA SumsAgree ==
  ASSUME NEW f, NEW g, NEW m \in Nat, NEW n \in Nat, NEW s, NEW t,
         IsSum(s, f, m), IsSum(t, g, n), NEW k \in Nat, k <= m, k <= n,
         \A i \in 1..k : f[i] = g[i]
  PROVE  s[k] = t[k]
  <1> DEFINE I == {i \in Nat : i <= k => s[i] = t[i]}
  <1>1. 0 \in I
    BY DEF IsSum
  <1>2. \A i \in Nat : i \in I => i + 1 \in I
    <2> SUFFICES ASSUME NEW i \in Nat, i \in I, i + 1 <= k
                 PROVE  s[i + 1] = t[i + 1]
      OBVIOUS
    <2>1. s[i] = t[i] /\ f[i + 1] = g[i + 1]
      OBVIOUS
    <2>2. s[i + 1] = s[i] + f[i + 1] /\ t[i + 1] = t[i] + g[i + 1]
      BY DEF IsSum
    <2> QED
      BY <2>1, <2>2
  <1> HIDE DEF I
  <1>3. k \in I
    BY <1>1, <1>2, SetInduction
  <1> QED
    BY <1>3 DEF I

(* A sum depends on the numbers added only. *)
LEMMA SumSame ==
  ASSUME NEW f, NEW g, NEW n \in Nat, \A i \in 1..n : f[i] = g[i]
  PROVE  SumTo(f, n) = SumTo(g, n)
  <1>1. PICK s : IsSum(s, f, n) /\ SumTo(f, n) = s[n]
    BY SumIs
  <1>2. PICK t : IsSum(t, g, n) /\ SumTo(g, n) = t[n]
    BY SumIs
  <1> QED
    BY <1>1, <1>2, SumsAgree

(* The empty sum. *)
LEMMA SumZero ==
  ASSUME NEW f
  PROVE  SumTo(f, 0) = 0
  BY SumIs DEF IsSum

(* One more number. *)
LEMMA SumNext ==
  ASSUME NEW f, NEW n \in Nat
  PROVE  SumTo(f, n + 1) = SumTo(f, n) + f[n + 1]
  <1>1. PICK s : IsSum(s, f, n) /\ SumTo(f, n) = s[n]
    BY SumIs
  <1>2. PICK t : IsSum(t, f, n + 1) /\ SumTo(f, n + 1) = t[n + 1]
    BY SumIs
  <1>3. s[n] = t[n]
    BY <1>1, <1>2, SumsAgree
  <1>4. t[n + 1] = t[n] + f[n + 1]
    BY <1>2 DEF IsSum
  <1> QED
    BY <1>1, <1>2, <1>3, <1>4

(* A sum of integers is an integer. *)
LEMMA SumType ==
  ASSUME NEW f, NEW n \in Nat, Numbers(f, n)
  PROVE  SumTo(f, n) \in Int
  <1> DEFINE I == {k \in Nat : k <= n => SumTo(f, k) \in Int}
  <1>1. 0 \in I
    BY SumZero
  <1>2. \A k \in Nat : k \in I => k + 1 \in I
    BY SumNext DEF Numbers
  <1> HIDE DEF I
  <1>3. n \in I
    BY <1>1, <1>2, SetInduction
  <1> QED
    BY <1>3 DEF I

(* A sum of natural numbers is one. *)
LEMMA SumOfNaturals ==
  ASSUME NEW f, NEW n \in Nat, \A i \in 1..n : f[i] \in Nat
  PROVE  SumTo(f, n) \in Nat
  <1> DEFINE I == {k \in Nat : k <= n => SumTo(f, k) \in Nat}
  <1>1. 0 \in I
    BY SumZero
  <1>2. \A k \in Nat : k \in I => k + 1 \in I
    BY SumNext
  <1> HIDE DEF I
  <1>3. n \in I
    BY <1>1, <1>2, SetInduction
  <1> QED
    BY <1>3 DEF I

(* The sum of two functions is the sum of their sums. *)
LEMMA SumPlus ==
  ASSUME NEW f, NEW g, NEW h, NEW n \in Nat, Numbers(f, n), Numbers(g, n),
         \A i \in 1..n : h[i] = f[i] + g[i]
  PROVE  SumTo(h, n) = SumTo(f, n) + SumTo(g, n)
  <1> DEFINE I == {k \in Nat : k <= n => SumTo(h, k) = SumTo(f, k) + SumTo(g, k)}
  <1>1. 0 \in I
    BY SumZero
  <1>2. \A k \in Nat : k \in I => k + 1 \in I
    <2> SUFFICES ASSUME NEW k \in Nat, k \in I, k + 1 <= n
                 PROVE  SumTo(h, k + 1) = SumTo(f, k + 1) + SumTo(g, k + 1)
      OBVIOUS
    <2>1. SumTo(h, k) = SumTo(f, k) + SumTo(g, k) /\ h[k + 1] = f[k + 1] + g[k + 1]
      OBVIOUS
    <2>2. /\ SumTo(h, k + 1) = SumTo(h, k) + h[k + 1]
          /\ SumTo(f, k + 1) = SumTo(f, k) + f[k + 1]
          /\ SumTo(g, k + 1) = SumTo(g, k) + g[k + 1]
      BY SumNext
    <2>3. SumTo(f, k) \in Int /\ SumTo(g, k) \in Int /\ f[k + 1] \in Int /\ g[k + 1] \in Int
      BY SumType DEF Numbers
    <2> QED
      BY <2>1, <2>2, <2>3
  <1> HIDE DEF I
  <1>3. n \in I
    BY <1>1, <1>2, SetInduction
  <1> QED
    BY <1>3 DEF I

(* A sum of zeros. *)
LEMMA SumOfZeros ==
  ASSUME NEW f, NEW n \in Nat, \A i \in 1..n : f[i] = 0
  PROVE  SumTo(f, n) = 0
  <1> DEFINE I == {k \in Nat : k <= n => SumTo(f, k) = 0}
  <1>1. 0 \in I
    BY SumZero
  <1>2. \A k \in Nat : k \in I => k + 1 \in I
    BY SumNext
  <1> HIDE DEF I
  <1>3. n \in I
    BY <1>1, <1>2, SetInduction
  <1> QED
    BY <1>3 DEF I

(* A sum of which one number is left. *)
LEMMA SumOfOne ==
  ASSUME NEW f, NEW n \in Nat, NEW k \in 1..n, f[k] \in Int,
         \A i \in 1..n : i # k => f[i] = 0
  PROVE  SumTo(f, n) = f[k]
  <1> DEFINE I == {i \in Nat : i <= n => SumTo(f, i) = IF i < k THEN 0 ELSE f[k]}
  <1>1. 0 \in I
    BY SumZero
  <1>2. \A i \in Nat : i \in I => i + 1 \in I
    <2> SUFFICES ASSUME NEW i \in Nat, i \in I, i + 1 <= n
                 PROVE  SumTo(f, i + 1) = IF i + 1 < k THEN 0 ELSE f[k]
      OBVIOUS
    <2>1. SumTo(f, i + 1) = SumTo(f, i) + f[i + 1] /\ SumTo(f, i) = IF i < k THEN 0 ELSE f[k]
      BY SumNext
    <2>2. CASE i + 1 = k
      BY <2>1, <2>2
    <2>3. CASE i + 1 # k
      <3>1. f[i + 1] = 0
        BY <2>3
      <3> QED
        BY <2>1, <2>3, <3>1
    <2> QED
      BY <2>2, <2>3
  <1> HIDE DEF I
  <1>3. n \in I
    BY <1>1, <1>2, SetInduction
  <1> QED
    BY <1>3 DEF I

(* Greater numbers, greater sum. *)
LEMMA SumMonotone ==
  ASSUME NEW f, NEW g, NEW n \in Nat, Numbers(f, n), Numbers(g, n), \A i \in 1..n : f[i] <= g[i]
  PROVE  SumTo(f, n) <= SumTo(g, n)
  <1> DEFINE I == {k \in Nat : k <= n => SumTo(f, k) <= SumTo(g, k)}
  <1>1. 0 \in I
    BY SumZero
  <1>2. \A k \in Nat : k \in I => k + 1 \in I
    <2> SUFFICES ASSUME NEW k \in Nat, k \in I, k + 1 <= n
                 PROVE  SumTo(f, k + 1) <= SumTo(g, k + 1)
      OBVIOUS
    <2>1. /\ SumTo(f, k + 1) = SumTo(f, k) + f[k + 1]
          /\ SumTo(g, k + 1) = SumTo(g, k) + g[k + 1]
      BY SumNext
    <2>2. SumTo(f, k) \in Int /\ SumTo(g, k) \in Int /\ f[k + 1] \in Int /\ g[k + 1] \in Int
      BY SumType DEF Numbers
    <2>3. SumTo(f, k) <= SumTo(g, k) /\ f[k + 1] <= g[k + 1]
      OBVIOUS
    <2> QED
      BY <2>1, <2>2, <2>3
  <1> HIDE DEF I
  <1>3. n \in I
    BY <1>1, <1>2, SetInduction
  <1> QED
    BY <1>3 DEF I

(* A sum continued by another. *)
Continued(h, f, m, g, n) ==
  /\ Numbers(f, m) /\ Numbers(g, n)
  /\ \A i \in 1..m : h[i] = f[i]
  /\ \A i \in 1..n : h[m + i] = g[i]

LEMMA SumContinued ==
  ASSUME NEW f, NEW g, NEW h, NEW m \in Nat, NEW n \in Nat, Continued(h, f, m, g, n)
  PROVE  SumTo(h, m + n) = SumTo(f, m) + SumTo(g, n)
  <1> USE DEF Continued
  <1> DEFINE I == {k \in Nat : k <= n => SumTo(h, m + k) = SumTo(f, m) + SumTo(g, k)}
  <1>1. 0 \in I
    <2>1. SumTo(h, m) = SumTo(f, m) /\ SumTo(g, 0) = 0 /\ SumTo(f, m) \in Int
      BY SumSame, SumZero, SumType
    <2> QED
      BY <2>1
  <1>2. \A k \in Nat : k \in I => k + 1 \in I
    <2> SUFFICES ASSUME NEW k \in Nat, k \in I, k + 1 <= n
                 PROVE  SumTo(h, m + (k + 1)) = SumTo(f, m) + SumTo(g, k + 1)
      OBVIOUS
    <2>1. /\ SumTo(h, m + k) = SumTo(f, m) + SumTo(g, k)
          /\ h[m + (k + 1)] = g[k + 1]
      OBVIOUS
    <2>2. SumTo(h, (m + k) + 1) = SumTo(h, m + k) + h[(m + k) + 1]
      BY SumNext
    <2>3. SumTo(g, k + 1) = SumTo(g, k) + g[k + 1]
      BY SumNext
    <2>4. SumTo(f, m) \in Int /\ SumTo(g, k) \in Int /\ g[k + 1] \in Int
      BY SumType DEF Numbers
    <2>5. (m + k) + 1 = m + (k + 1)
      OBVIOUS
    <2> QED
      BY <2>1, <2>2, <2>3, <2>4, <2>5
  <1> HIDE DEF I
  <1>3. n \in I
    BY <1>1, <1>2, SetInduction
  <1> QED
    BY <1>3 DEF I

(* The sum of a part is no more than the whole. *)
LEMMA SumPrefix ==
  ASSUME NEW f, NEW m \in Nat, NEW n \in Nat, m <= n, \A i \in 1..n : f[i] \in Nat
  PROVE  SumTo(f, m) <= SumTo(f, n)
  <1> DEFINE I == {k \in Nat : m + k <= n => SumTo(f, m) <= SumTo(f, m + k)}
  <1>1. 0 \in I
    BY SumOfNaturals
  <1>2. \A k \in Nat : k \in I => k + 1 \in I
    <2> SUFFICES ASSUME NEW k \in Nat, k \in I, m + (k + 1) <= n
                 PROVE  SumTo(f, m) <= SumTo(f, m + (k + 1))
      OBVIOUS
    <2>1. SumTo(f, m) <= SumTo(f, m + k)
      OBVIOUS
    <2>2. SumTo(f, (m + k) + 1) = SumTo(f, m + k) + f[(m + k) + 1]
      BY SumNext
    <2>3. SumTo(f, m) \in Nat /\ SumTo(f, m + k) \in Nat
      BY SumOfNaturals
    <2>4. (m + k) + 1 = m + (k + 1) /\ f[(m + k) + 1] \in Nat
      OBVIOUS
    <2> QED
      BY <2>1, <2>2, <2>3, <2>4
  <1> HIDE DEF I
  <1>3. n - m \in I
    BY <1>1, <1>2, SetInduction
  <1> QED
    BY <1>3 DEF I

(* One number of many is changed. *)
LEMMA SumChanged ==
  ASSUME NEW f, NEW g, NEW n \in Nat, NEW k \in 1..n, Numbers(f, n), g[k] \in Int,
         \A i \in 1..n : i # k => g[i] = f[i]
  PROVE  SumTo(g, n) = SumTo(f, n) + (g[k] - f[k])
  <1> DEFINE h == [i \in 1..n |-> g[i] - f[i]]
  <1>1. \A i \in 1..n : f[i] \in Int /\ h[i] \in Int /\ g[i] = f[i] + h[i]
    BY DEF Numbers
  <1>2. h[k] = g[k] - f[k] /\ \A i \in 1..n : i # k => h[i] = 0
    BY DEF Numbers
  <1> HIDE DEF h
  <1>3. SumTo(g, n) = SumTo(f, n) + SumTo(h, n)
    BY <1>1, SumPlus DEF Numbers
  <1>4. SumTo(h, n) = h[k]
    BY <1>1, <1>2, SumOfOne
  <1> QED
    BY <1>2, <1>3, <1>4
=============================================================================
