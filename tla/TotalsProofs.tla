------------------------------ MODULE TotalsProofs ------------------------------
(***************************************************************************)
(* What a sum does when a number is put behind a sequence or taken from    *)
(* its front.  The library's induction theorems take an operator as a      *)
(* parameter; here induction is the choice of a least counterexample from a*)
(* set, for which WFMin is enough.  Then what the remainder of a sum is.    *)
(***************************************************************************)
EXTENDS Totals, SequenceTheorems, WellFoundedInduction, TLAPS

\* A set of numbers has a least one.
LEMMA LeastNumber ==
    ASSUME NEW T \in SUBSET Nat, T # {}
    PROVE  \E n \in T : \A m \in T : n <= m
  <1> DEFINE L == {ss \in Nat \X Nat : ss[1] < ss[2]}
  <1>1. IsWellFoundedOn(L, Nat)
    BY NatLessThanWellFounded DEF OpToRel
  <1> HIDE DEF L
  <1>2. PICK n \in T : \A m \in T : ~ (<<m, n>> \in L)
    BY ONLY <1>1, T \in SUBSET Nat, T # {}, WFMin
  <1>3. \A m \in T : ~(m < n)
    BY <1>2 DEF L
  <1> QED BY <1>2, <1>3

--------------------------------------------------------------------------------
(* The sums of the first numbers of a sequence. *)

\* f[k] is the sum of the first k of n numbers of s.
PartialSums(s, f, n) ==
    /\ f = [k \in 0..n |-> f[k]]
    /\ f[0] = 0
    /\ \A k \in 1..n : f[k] = f[k - 1] + s[k]

\* There are such sums.
LEMMA PartialSumsExist == ASSUME NEW s \in Seq(Int) PROVE \E f : PartialSums(s, f, Len(s))
  <1> DEFINE T == {n \in 0 .. Len(s) : ~ \E f : PartialSums(s, f, n)}
  <1>1. ASSUME T # {} PROVE FALSE
    <2>1. T \in SUBSET Nat
      OBVIOUS
    <2> HIDE DEF T
    <2>2. PICK n \in T : \A m \in T : n <= m
      BY <1>1, <2>1, LeastNumber
    <2>3. n \in 0 .. Len(s) /\ ~ \E f : PartialSums(s, f, n)
      BY <2>2 DEF T
    <2>4. CASE n = 0
      <3>1. PartialSums(s, [k \in 0..0 |-> 0], 0)
        BY DEF PartialSums
      <3> QED BY <2>3, <2>4, <3>1
    <2>5. CASE n # 0
      <3>1. n - 1 \in 0 .. Len(s) /\ n - 1 < n
        BY <2>3, <2>5
      <3>2. n - 1 \notin T
        BY <2>1, <2>2, <3>1
      <3>3. PICK f : PartialSums(s, f, n - 1)
        BY <3>1, <3>2 DEF T
      <3> DEFINE g == [k \in 0..n |-> IF k = n THEN f[n - 1] + s[n] ELSE f[k]]
      <3>4. g[0] = 0
        BY <2>3, <2>5, <3>3 DEF PartialSums
      <3>5. ASSUME NEW k \in 1..n PROVE g[k] = g[k - 1] + s[k]
        <4>1. CASE k = n
          <5>1. g[k] = f[n - 1] + s[n] /\ g[k - 1] = f[n - 1]
            BY <2>3, <2>5, <4>1
          <5> QED BY <4>1, <5>1
        <4>2. CASE k \in 1 .. n - 1
          <5>1. g[k] = f[k] /\ g[k - 1] = f[k - 1]
            BY <2>3, <4>2
          <5> QED BY <3>3, <4>2, <5>1 DEF PartialSums
        <4> QED BY <2>3, <4>1, <4>2
      <3>6. PartialSums(s, g, n)
        BY <3>4, <3>5 DEF PartialSums
      <3> QED BY <2>3, <3>6
    <2> QED BY <2>4, <2>5
  <1>2. T = {}
    BY <1>1
  <1>3. Len(s) \in 0 .. Len(s)
    OBVIOUS
  <1> QED BY <1>2, <1>3

\* There are no others.
LEMMA PartialSumsUnique ==
    ASSUME NEW s, NEW n \in Nat, NEW f, NEW g, PartialSums(s, f, n), PartialSums(s, g, n)
    PROVE  f = g
  <1> DEFINE T == {k \in 0..n : f[k] # g[k]}
  <1>1. ASSUME T # {} PROVE FALSE
    <2>1. T \in SUBSET Nat
      OBVIOUS
    <2> HIDE DEF T
    <2>2. PICK k \in T : \A m \in T : k <= m
      BY <1>1, <2>1, LeastNumber
    <2>3. k \in 0..n /\ f[k] # g[k]
      BY <2>2 DEF T
    <2>4. k # 0
      BY <2>3 DEF PartialSums
    <2>5. k - 1 \in 0..n /\ k - 1 < k /\ k \in 1..n
      BY <2>3, <2>4
    <2>6. k - 1 \notin T
      BY <2>1, <2>2, <2>5
    <2>7. f[k - 1] = g[k - 1]
      BY <2>5, <2>6 DEF T
    <2> QED BY <2>3, <2>5, <2>7 DEF PartialSums
  <1>2. \A k \in 0..n : f[k] = g[k]
    BY <1>1
  <1> QED BY <1>2 DEF PartialSums

\* They stay in a set that is closed under addition.
LEMMA PartialSumsWithin ==
    ASSUME NEW s, NEW n \in Nat, NEW f, PartialSums(s, f, n),
           NEW S, 0 \in S, \A a, b \in S : a + b \in S, \A k \in 1..n : s[k] \in S
    PROVE  \A k \in 0..n : f[k] \in S
  <1> DEFINE T == {k \in 0..n : f[k] \notin S}
  <1>1. ASSUME T # {} PROVE FALSE
    <2>1. T \in SUBSET Nat
      OBVIOUS
    <2> HIDE DEF T
    <2>2. PICK k \in T : \A m \in T : k <= m
      BY <1>1, <2>1, LeastNumber
    <2>3. k \in 0..n /\ f[k] \notin S
      BY <2>2 DEF T
    <2>4. k # 0
      BY <2>3 DEF PartialSums
    <2>5. k - 1 \in 0..n /\ k - 1 < k /\ k \in 1..n
      BY <2>3, <2>4
    <2>6. k - 1 \notin T
      BY <2>1, <2>2, <2>5
    <2>7. f[k - 1] \in S
      BY <2>5, <2>6 DEF T
    <2>8. f[k] = f[k - 1] + s[k] /\ s[k] \in S
      BY <2>5 DEF PartialSums
    <2> QED BY <2>3, <2>7, <2>8
  <1> QED BY <1>1

\* The last of them is the total.
LEMMA TotalIsLast ==
    ASSUME NEW s \in Seq(Int), NEW f, PartialSums(s, f, Len(s))
    PROVE  Total(s) = f[Len(s)]
  <1> DEFINE Step(g) == [k \in 0 .. Len(s) |-> IF k = 0 THEN 0 ELSE g[k - 1] + s[k]]
             F == CHOOSE g : g = Step(g)
  <1>1. Total(s) = F[Len(s)]
    BY DEF Total
  <1>2. Len(s) \in Nat
    OBVIOUS
  <1>3. f = Step(f)
    <2>1. f = [k \in 0 .. Len(s) |-> f[k]]
      BY DEF PartialSums
    <2>2. \A k \in 0 .. Len(s) : f[k] = IF k = 0 THEN 0 ELSE f[k - 1] + s[k]
      <3> TAKE k \in 0 .. Len(s)
      <3>1. CASE k = 0
        BY <3>1 DEF PartialSums
      <3>2. CASE k # 0
        <4>1. k \in 1 .. Len(s)
          BY <1>2, <3>2
        <4> QED BY <3>2, <4>1 DEF PartialSums
      <3> QED BY <3>1, <3>2
    <2>3. Step(f) = [k \in 0 .. Len(s) |-> f[k]]
      BY <2>2
    <2> QED BY <2>1, <2>3
  <1> HIDE DEF Step
  <1>4. F = Step(F)
    BY <1>3
  <1> HIDE DEF F
  <1>5. PartialSums(s, F, Len(s))
    <2>1. F = [k \in 0 .. Len(s) |-> IF k = 0 THEN 0 ELSE F[k - 1] + s[k]]
      BY <1>4 DEF Step
    <2>2. \A k \in 0 .. Len(s) : F[k] = IF k = 0 THEN 0 ELSE F[k - 1] + s[k]
      BY <2>1
    <2>3. F = [k \in 0 .. Len(s) |-> F[k]]
      BY <2>1
    <2>4. F[0] = 0
      BY <1>2, <2>2
    <2>5. ASSUME NEW k \in 1 .. Len(s) PROVE F[k] = F[k - 1] + s[k]
      <3>1. k \in 0 .. Len(s) /\ k # 0
        BY <1>2
      <3> QED BY <2>2, <3>1
    <2> QED BY <2>3, <2>4, <2>5 DEF PartialSums
  <1>6. F = f
    BY <1>2, <1>5, PartialSumsUnique
  <1> QED BY <1>1, <1>6

--------------------------------------------------------------------------------
(* Totals. *)

LEMMA TotalEmpty == Total(<<>>) = 0
  <1> DEFINE f == [k \in 0..0 |-> 0]
  <1>1. <<>> \in Seq(Int) /\ Len(<<>>) = 0
    OBVIOUS
  <1>2. PartialSums(<<>>, f, 0)
    BY DEF PartialSums
  <1>3. Total(<<>>) = f[Len(<<>>)]
    BY <1>1, <1>2, TotalIsLast
  <1> QED BY <1>1, <1>3

LEMMA TotalAppend ==
    ASSUME NEW s \in Seq(Int), NEW x \in Int
    PROVE  Total(Append(s, x)) = Total(s) + x
  <1> DEFINE n == Len(s)
             t == Append(s, x)
  <1>1. PICK f : PartialSums(s, f, n)
    BY PartialSumsExist
  <1> DEFINE g == [k \in 0 .. n + 1 |-> IF k = n + 1 THEN f[n] + x ELSE f[k]]
  <1>2. n \in Nat /\ t \in Seq(Int) /\ Len(t) = n + 1 /\ t[n + 1] = x
        /\ \A k \in 1..n : t[k] = s[k]
    OBVIOUS
  <1>3. Total(s) = f[n]
    BY <1>1, TotalIsLast
  <1> HIDE DEF n, t
  <1>4. PartialSums(t, g, n + 1)
    <2>1. g[0] = 0
      BY <1>1, <1>2 DEF PartialSums
    <2>2. ASSUME NEW k \in 1 .. n + 1 PROVE g[k] = g[k - 1] + t[k]
      <3>1. CASE k = n + 1
        <4>1. g[k] = f[n] + x /\ g[k - 1] = f[n]
          BY <1>2, <3>1
        <4> QED BY <1>2, <3>1, <4>1
      <3>2. CASE k \in 1..n
        <4>1. g[k] = f[k] /\ g[k - 1] = f[k - 1] /\ t[k] = s[k]
          BY <1>2, <3>2
        <4> QED BY <1>1, <3>2, <4>1 DEF PartialSums
      <3> QED BY <1>2, <3>1, <3>2
    <2> QED BY <2>1, <2>2 DEF PartialSums
  <1>5. Total(t) = g[n + 1]
    BY <1>2, <1>4, TotalIsLast
  <1>6. g[n + 1] = f[n] + x
    BY <1>2
  <1> QED BY <1>3, <1>5, <1>6 DEF t

LEMMA TotalTail ==
    ASSUME NEW s \in Seq(Int), s # <<>>
    PROVE  Total(s) = Head(s) + Total(Tail(s))
  <1> DEFINE n == Len(s)
             t == Tail(s)
  <1>1. PICK f : PartialSums(s, f, n)
    BY PartialSumsExist
  <1>2. \A k \in 0..n : f[k] \in Int
    <2>1. 0 \in Int /\ \A a, b \in Int : a + b \in Int
      OBVIOUS
    <2>2. n \in Nat /\ \A k \in 1..n : s[k] \in Int
      OBVIOUS
    <2> QED BY <1>1, <2>1, <2>2, PartialSumsWithin
  <1> DEFINE g == [k \in 0 .. n - 1 |-> f[k + 1] - s[1]]
  <1>3. n \in Nat /\ n > 0 /\ t \in Seq(Int) /\ Len(t) = n - 1 /\ s[1] \in Int
        /\ Head(s) = s[1] /\ \A k \in 1 .. n - 1 : t[k] = s[k + 1]
    OBVIOUS
  <1>4. Total(s) = f[n]
    BY <1>1, TotalIsLast
  <1> HIDE DEF n, t
  <1>5. PartialSums(t, g, n - 1)
    <2>1. g[0] = 0
      <3>1. f[1] = f[0] + s[1] /\ f[0] = 0
        <4>1. 1 \in 1..n /\ 1 - 1 = 0
          BY <1>3
        <4>2. f[1] = f[1 - 1] + s[1]
          BY <1>1, <4>1 DEF PartialSums
        <4> QED BY <1>1, <4>1, <4>2 DEF PartialSums
      <3>2. g[0] = f[1] - s[1]
        BY <1>3
      <3> QED BY <1>3, <3>1, <3>2
    <2>2. ASSUME NEW k \in 1 .. n - 1 PROVE g[k] = g[k - 1] + t[k]
      <3>1. g[k] = f[k + 1] - s[1] /\ g[k - 1] = f[k] - s[1] /\ t[k] = s[k + 1]
        BY <1>3
      <3>2. k + 1 \in 1..n /\ (k + 1) - 1 = k /\ k \in 0..n
        BY <1>3
      <3>3. f[k + 1] = f[k] + s[k + 1]
        BY <1>1, <3>2 DEF PartialSums
      <3>4. f[k] \in Int /\ f[k + 1] \in Int
        BY <1>2, <3>2
      <3>5. s[k + 1] \in Int
        BY <3>2 DEF n
      <3> HIDE DEF g
      <3>6. f[k + 1] - s[1] = (f[k] - s[1]) + s[k + 1]
        <4>1. \A a, b, c, d \in Int : a = b + c => a - d = (b - d) + c
          OBVIOUS
        <4>2. s[1] \in Int
          BY <1>3
        <4> QED BY ONLY <3>3, <3>4, <3>5, <4>1, <4>2
      <3> QED BY <3>1, <3>6
    <2> QED BY <2>1, <2>2 DEF PartialSums
  <1>6. Total(t) = g[n - 1]
    BY <1>3, <1>5, TotalIsLast
  <1>7. g[n - 1] = f[n] - s[1]
    BY <1>3
  <1>8. f[n] \in Int
    BY <1>2, <1>3
  <1> QED BY <1>3, <1>4, <1>6, <1>7, <1>8 DEF t

\* A sum of natural numbers is one.
LEMMA TotalNat == ASSUME NEW s \in Seq(Nat) PROVE Total(s) \in Nat
  <1>1. s \in Seq(Int) /\ Len(s) \in Nat /\ \A k \in 1 .. Len(s) : s[k] \in Nat
    OBVIOUS
  <1>2. PICK f : PartialSums(s, f, Len(s))
    BY <1>1, PartialSumsExist
  <1>3. 0 \in Nat /\ \A a, b \in Nat : a + b \in Nat
    OBVIOUS
  <1>4. \A k \in 0 .. Len(s) : f[k] \in Nat
    BY <1>1, <1>2, <1>3, PartialSumsWithin
  <1>5. Total(s) = f[Len(s)]
    BY <1>1, <1>2, TotalIsLast
  <1> QED BY <1>1, <1>4, <1>5

--------------------------------------------------------------------------------
(* Remainders, for counts that wrap in a header or a ring. *)

\* A number is the divisor times the quotient, and the remainder.
LEMMA Division ==
    ASSUME NEW a \in Int, NEW n \in Nat \ {0}
    PROVE  /\ a % n \in 0 .. n - 1
           /\ a \div n \in Int
           /\ a = n * (a \div n) + (a % n)
  OBVIOUS

\* A remainder is the only one.
LEMMA Unique ==
    ASSUME NEW n \in Nat \ {0}, NEW p \in Int, NEW q \in Int,
           NEW r \in 0 .. n - 1, NEW s \in 0 .. n - 1, n * p + r = n * q + s
    PROVE  r = s
  <1>1. n * (p - q) = s - r
    OBVIOUS
  <1>2. CASE p - q >= 1
    <2>1. n * (p - q) >= n
      BY <1>2
    <2> QED BY <1>1, <2>1
  <1>3. CASE p - q <= -1
    <2>1. n * (p - q) <= -n
      BY <1>3
    <2> QED BY <1>1, <2>1
  <1>4. CASE p - q = 0
    <2>1. n * (p - q) = 0
      BY <1>4
    <2> QED BY <1>1, <2>1
  <1> QED BY <1>2, <1>3, <1>4

\* Remainders add up.
LEMMA ModAdd ==
    ASSUME NEW a \in Int, NEW k \in Int, NEW n \in Nat \ {0}
    PROVE  ((a % n) + k) % n = (a + k) % n
  <1> DEFINE b == a % n
             p == a \div n
             x == (b + k) % n
             y == (b + k) \div n
             u == (a + k) % n
             v == (a + k) \div n
  <1>1. b \in 0 .. n - 1 /\ p \in Int /\ a = n * p + b
    BY Division
  <1>2. x \in 0 .. n - 1 /\ y \in Int /\ b + k = n * y + x
    <2>1. b + k \in Int
      BY <1>1
    <2> QED BY <2>1, Division
  <1>3. u \in 0 .. n - 1 /\ v \in Int /\ a + k = n * v + u
    <2>1. a + k \in Int
      OBVIOUS
    <2> QED BY <2>1, Division
  <1> HIDE DEF b, p, x, y, u, v
  <1>4. n * v + u = n * (p + y) + x
    <2>1. n * v + u = n * p + (n * y + x)
      BY <1>1, <1>2, <1>3
    <2>2. n * (p + y) = n * p + n * y
      BY <1>1, <1>2
    <2> QED BY <2>1, <2>2, <1>1, <1>2, <1>3
  <1>5. p + y \in Int
    BY <1>1, <1>2
  <1>6. u = x
    BY ONLY <1>2, <1>3, <1>4, <1>5, Unique
  <1> QED BY <1>6 DEF u, x, b
================================================================================
