--------------------------- MODULE OfflineMergeProofs ---------------------------
(***************************************************************************)
(* Proofs about OfflineMerge, for all events and files: the data file is   *)
(* written as PacketWriter writes it (RecordsAsWriter), two cleaned files  *)
(* become the union of their events (MergesExactly), and DeleteMeta cleans *)
(* a file exactly (CleansExactly) and comes to its end                     *)
(* (FinishesIfUndamaged).  For the last two the layout of the file is made *)
(* explicit, H[k] being the place of event k in it, and every turn of the  *)
(* program leads from one place of the layout to another.                  *)
(***************************************************************************)
EXTENDS OfflineMerge, TotalsProofs

--------------------------------------------------------------------------------
(***************************************************************************)
(* Sequences of sequences, put one behind the other.  FlattenSeq is a      *)
(* recursive function; as for sums the induction is the choice of a least  *)
(* counterexample.                                                         *)
(***************************************************************************)

\* What follows the same beginning can be compared.
LEMMA CancelLeft == \A S : \A a, b, c \in Seq(S) : a \o b = a \o c => b = c
  BY ConcatSimplifications

\* f[k] is the first k of n sequences of s, put one behind the other.
Concats(s, f, n) ==
    /\ f = [k \in 0..n |-> f[k]]
    /\ f[0] = <<>>
    /\ \A k \in 1..n : f[k] = f[k - 1] \o s[k]

\* There are such sequences.
LEMMA ConcatsExist ==
    ASSUME NEW S, NEW s \in Seq(Seq(S))
    PROVE  \E f : Concats(s, f, Len(s))
  <1> DEFINE T == {n \in 0 .. Len(s) : ~ \E f : Concats(s, f, n)}
  <1>1. ASSUME T # {} PROVE FALSE
    <2>1. T \in SUBSET Nat
      OBVIOUS
    <2> HIDE DEF T
    <2>2. PICK n \in T : \A m \in T : n <= m
      BY <1>1, <2>1, LeastNumber
    <2>3. n \in 0 .. Len(s) /\ ~ \E f : Concats(s, f, n)
      BY <2>2 DEF T
    <2>4. CASE n = 0
      <3>1. Concats(s, [k \in 0..0 |-> <<>>], 0)
        BY DEF Concats
      <3> QED BY <2>3, <2>4, <3>1
    <2>5. CASE n # 0
      <3>1. n - 1 \in 0 .. Len(s) /\ n - 1 < n /\ n \in Nat /\ n # 0
        BY <2>3, <2>5
      <3>2. n - 1 \notin T
        BY <2>1, <2>2, <3>1
      <3>3. PICK f : Concats(s, f, n - 1)
        BY <3>1, <3>2 DEF T
      <3> DEFINE g == [k \in 0..n |-> IF k = n THEN f[n - 1] \o s[n] ELSE f[k]]
      <3>4. g[0] = <<>>
        BY <2>3, <2>5, <3>3 DEF Concats
      <3>5. ASSUME NEW k \in 1..n PROVE g[k] = g[k - 1] \o s[k]
        <4>1. CASE k = n
          <5>1. n \in 0..n /\ n - 1 \in 0..n /\ n - 1 # n
            BY <3>1
          <5>2. g[n] = f[n - 1] \o s[n] /\ g[n - 1] = f[n - 1]
            BY ONLY <5>1
          <5> HIDE DEF g
          <5> QED BY ONLY <4>1, <5>2
        <4>2. CASE k \in 1 .. n - 1
          <5>1. g[k] = f[k] /\ g[k - 1] = f[k - 1]
            BY <2>3, <4>2
          <5>2. f[k] = f[k - 1] \o s[k]
            BY <3>3, <4>2 DEF Concats
          <5> QED BY <5>1, <5>2
        <4>3. k = n \/ k \in 1 .. n - 1
          BY <3>1
        <4> HIDE DEF g
        <4> QED BY ONLY <4>1, <4>2, <4>3
      <3>6. Concats(s, g, n)
        BY <3>4, <3>5 DEF Concats
      <3> QED BY <2>3, <3>6
    <2> QED BY <2>4, <2>5
  <1>2. T = {}
    BY <1>1
  <1>3. Len(s) \in 0 .. Len(s)
    OBVIOUS
  <1> QED BY <1>2, <1>3

\* They are sequences of the same elements.
LEMMA ConcatsWithin ==
    ASSUME NEW S, NEW s \in Seq(Seq(S)), NEW f, Concats(s, f, Len(s))
    PROVE  \A k \in 0 .. Len(s) : f[k] \in Seq(S)
  <1> DEFINE T == {k \in 0 .. Len(s) : f[k] \notin Seq(S)}
  <1>1. ASSUME T # {} PROVE FALSE
    <2>1. T \in SUBSET Nat
      OBVIOUS
    <2> HIDE DEF T
    <2>2. PICK k \in T : \A m \in T : k <= m
      BY <1>1, <2>1, LeastNumber
    <2>3. k \in 0 .. Len(s) /\ f[k] \notin Seq(S)
      BY <2>2 DEF T
    <2>4. k # 0
      BY <2>3, EmptySeq DEF Concats
    <2>5. k - 1 \in 0 .. Len(s) /\ k - 1 < k /\ k \in 1 .. Len(s)
      BY <2>3, <2>4
    <2>6. k - 1 \notin T
      BY <2>1, <2>2, <2>5
    <2>7. f[k - 1] \in Seq(S) /\ s[k] \in Seq(S)
      BY <2>5, <2>6 DEF T
    <2>8. f[k] = f[k - 1] \o s[k]
      BY <2>5 DEF Concats
    <2> QED BY <2>3, <2>7, <2>8, ConcatProperties
  <1> QED BY <1>1

\* The last of them is the flattened sequence.
LEMMA FlatIsLast ==
    ASSUME NEW S, NEW s \in Seq(Seq(S)), NEW f, Concats(s, f, Len(s))
    PROVE  FlattenSeq(s) = f[Len(s)]
  <1> DEFINE n == Len(s)
             Step(g) == [i \in 1..n |-> IF i = 1 THEN s[i] ELSE g[i - 1] \o s[i]]
             F == CHOOSE g : g = Step(g)
             h == [i \in 1..n |-> f[i]]
  <1>1. n \in Nat /\ \A k \in 1..n : s[k] \in Seq(S)
    OBVIOUS
  <1>2. CASE n = 0
    <2>1. FlattenSeq(s) = s /\ s = <<>>
      BY <1>2 DEF FlattenSeq
    <2> QED BY <1>2, <2>1 DEF Concats
  <1>3. CASE n # 0
    <2>1. FlattenSeq(s) = F[n]
      BY <1>3 DEF FlattenSeq
    <2>2. h = Step(h)
      <3>1. ASSUME NEW i \in 1..n
            PROVE  h[i] = IF i = 1 THEN s[i] ELSE h[i - 1] \o s[i]
        <4>1. h[i] = f[i] /\ f[i] = f[i - 1] \o s[i]
          BY DEF Concats
        <4>2. CASE i = 1
          <5>1. i - 1 = 0 /\ f[0] = <<>>
            BY <4>2 DEF Concats
          <5>2. <<>> \o s[i] = s[i]
            BY <1>1, ConcatEmptySeq
          <5> QED BY <4>1, <4>2, <5>1, <5>2
        <4>3. CASE i # 1
          <5>1. i - 1 \in 1..n
            BY <1>1, <4>3
          <5> QED BY <4>1, <4>3, <5>1
        <4> QED BY <4>2, <4>3
      <3> QED BY <3>1
    <2> HIDE DEF Step
    <2>3. F = Step(F)
      BY <2>2
    <2> HIDE DEF F
    <2>4. \A i \in 1..n : F[i] = IF i = 1 THEN s[i] ELSE F[i - 1] \o s[i]
      BY <2>3 DEF Step
    <2>5. h = [i \in 1..n |-> f[i]]
      OBVIOUS
    <2>6. \A i \in 1..n : h[i] = IF i = 1 THEN s[i] ELSE h[i - 1] \o s[i]
      BY <2>2 DEF Step
    <2> HIDE DEF h
    <2> DEFINE T == {i \in 1..n : F[i] # h[i]}
    <2>7. ASSUME T # {} PROVE FALSE
      <3>1. T \in SUBSET Nat
        OBVIOUS
      <3> HIDE DEF T
      <3>2. PICK k \in T : \A m \in T : k <= m
        BY <2>7, <3>1, LeastNumber
      <3>3. k \in 1..n /\ F[k] # h[k]
        BY <3>2 DEF T
      <3>4. k # 1
        BY <2>4, <2>6, <3>3
      <3>5. k - 1 \in 1..n /\ k - 1 < k
        BY <1>1, <3>3, <3>4
      <3>6. k - 1 \notin T
        BY <3>1, <3>2, <3>5
      <3>7. F[k - 1] = h[k - 1]
        BY <3>5, <3>6 DEF T
      <3> QED BY <2>4, <2>6, <3>3, <3>4, <3>7
    <2>8. n \in 1..n
      BY <1>1, <1>3
    <2>9. F[n] = h[n] /\ h[n] = f[n]
      BY <2>5, <2>7, <2>8
    <2> QED BY <2>1, <2>9
  <1> QED BY <1>2, <1>3

\* A flattened sequence has the elements of its parts.
LEMMA FlatType ==
    ASSUME NEW S, NEW s \in Seq(Seq(S))
    PROVE  FlattenSeq(s) \in Seq(S)
  <1>1. PICK f : Concats(s, f, Len(s))
    BY ConcatsExist
  <1>2. Len(s) \in 0 .. Len(s)
    OBVIOUS
  <1> QED BY <1>1, <1>2, ConcatsWithin, FlatIsLast

\* Flattening nothing, and one sequence more.
LEMMA FlatEmpty == FlattenSeq(<<>>) = <<>>
  BY DEF FlattenSeq

LEMMA FlatAppend ==
    ASSUME NEW S, NEW s \in Seq(Seq(S)), NEW x \in Seq(S)
    PROVE  FlattenSeq(Append(s, x)) = FlattenSeq(s) \o x
  <1> DEFINE n == Len(s)
             t == Append(s, x)
  <1>1. PICK f : Concats(s, f, n)
    BY ConcatsExist
  <1> DEFINE g == [k \in 0 .. n + 1 |-> IF k = n + 1 THEN f[n] \o x ELSE f[k]]
  <1>2. n \in Nat /\ t \in Seq(Seq(S)) /\ Len(t) = n + 1 /\ t[n + 1] = x
        /\ \A k \in 1..n : t[k] = s[k]
    OBVIOUS
  <1>3. FlattenSeq(s) = f[n]
    BY <1>1, FlatIsLast
  <1> HIDE DEF n, t
  <1>4. Concats(t, g, n + 1)
    <2>1. g[0] = <<>>
      BY <1>1, <1>2 DEF Concats
    <2>2. ASSUME NEW k \in 1 .. n + 1 PROVE g[k] = g[k - 1] \o t[k]
      <3>1. CASE k = n + 1
        <4>1. g[k] = f[n] \o x /\ g[k - 1] = f[n]
          BY <1>2, <3>1
        <4> QED BY <1>2, <3>1, <4>1
      <3>2. CASE k \in 1..n
        <4>1. g[k] = f[k] /\ g[k - 1] = f[k - 1] /\ t[k] = s[k]
          BY <1>2, <3>2
        <4>2. f[k] = f[k - 1] \o s[k]
          BY <1>1, <3>2 DEF Concats
        <4> QED BY <4>1, <4>2
      <3>3. k = n + 1 \/ k \in 1..n
        BY <1>2
      <3> HIDE DEF g
      <3> QED BY ONLY <3>1, <3>2, <3>3
    <2> QED BY <2>1, <2>2 DEF Concats
  <1>5. FlattenSeq(t) = g[n + 1]
    BY <1>2, <1>4, FlatIsLast
  <1>6. g[n + 1] = f[n] \o x
    BY <1>2
  <1> QED BY <1>3, <1>5, <1>6 DEF t

\* What comes before place k of a sequence of sequences, and what from there on.
UpTo(s, k) == FlattenSeq(SubSeq(s, 1, k))
From(s, k) == FlattenSeq(SubSeq(s, k + 1, Len(s)))

\* The beginnings grow by a sequence at a time up to the whole.
LEMMA UpToStep ==
    ASSUME NEW S, NEW s \in Seq(Seq(S))
    PROVE  /\ UpTo(s, 0) = <<>> /\ UpTo(s, Len(s)) = FlattenSeq(s)
           /\ \A k \in 0 .. Len(s) : UpTo(s, k) \in Seq(S)
           /\ \A k \in 1 .. Len(s) : UpTo(s, k) = UpTo(s, k - 1) \o s[k]
  <1>1. SubSeq(s, 1, 0) = <<>> /\ SubSeq(s, 1, Len(s)) = s
    BY SubSeqEmpty, SubSeqFull
  <1>2. ASSUME NEW k \in 0 .. Len(s) PROVE UpTo(s, k) \in Seq(S)
    <2>1. SubSeq(s, 1, k) \in Seq(Seq(S))
      OBVIOUS
    <2> QED BY <2>1, FlatType DEF UpTo
  <1>3. ASSUME NEW k \in 1 .. Len(s) PROVE UpTo(s, k) = UpTo(s, k - 1) \o s[k]
    <2>1. /\ SubSeq(s, 1, k - 1) \in Seq(Seq(S)) /\ s[k] \in Seq(S)
          /\ SubSeq(s, 1, k) = Append(SubSeq(s, 1, k - 1), s[k])
      OBVIOUS
    <2> QED BY <2>1, FlatAppend DEF UpTo
  <1> QED BY <1>1, <1>2, <1>3, FlatEmpty DEF UpTo

\* Both together are the whole.
LEMMA UpToFrom ==
    ASSUME NEW S, NEW s \in Seq(Seq(S)), NEW k \in 0 .. Len(s)
    PROVE  From(s, k) \in Seq(S) /\ UpTo(s, k) \o From(s, k) = FlattenSeq(s)
  <1> DEFINE n == Len(s)
             Rest(j) == SubSeq(s, k + 1, j)
             T == {i \in 0 .. n - k : UpTo(s, k) \o FlattenSeq(Rest(k + i)) # UpTo(s, k + i)}
  <1>1. n \in Nat /\ k \in 0..n /\ k \in Nat
    OBVIOUS
  <1>2. \A j \in k..n : Rest(j) \in Seq(Seq(S)) /\ FlattenSeq(Rest(j)) \in Seq(S)
    <2> TAKE j \in k..n
    <2>1. Rest(j) \in Seq(Seq(S))
      OBVIOUS
    <2> QED BY <2>1, FlatType
  <1>3. Rest(k) = <<>>
    BY <1>1, SubSeqEmpty
  <1>4. \A j \in k + 1 .. n : Rest(j) = Append(Rest(j - 1), s[j]) /\ s[j] \in Seq(S)
    OBVIOUS
  <1>5. /\ UpTo(s, n) = FlattenSeq(s) /\ \A j \in 0..n : UpTo(s, j) \in Seq(S)
        /\ \A j \in 1..n : UpTo(s, j) = UpTo(s, j - 1) \o s[j]
    BY UpToStep
  <1>6. From(s, k) = FlattenSeq(Rest(n))
    BY DEF From
  <1> HIDE DEF n, Rest
  <1>7. ASSUME T # {} PROVE FALSE
    <2>1. T \in SUBSET Nat
      OBVIOUS
    <2> HIDE DEF T
    <2>2. PICK i \in T : \A m \in T : i <= m
      BY <1>7, <2>1, LeastNumber
    <2>3. i \in 0 .. n - k /\ UpTo(s, k) \o FlattenSeq(Rest(k + i)) # UpTo(s, k + i)
      BY <2>2 DEF T
    <2>4. i # 0
      <3> SUFFICES ASSUME i = 0 PROVE FALSE
        OBVIOUS
      <3>1. UpTo(s, k) \o <<>> = UpTo(s, k)
        BY <1>1, <1>5, ConcatEmptySeq
      <3>2. k + i = k
        BY <1>1
      <3>3. FlattenSeq(Rest(k + i)) = <<>>
        BY <1>3, <3>2, FlatEmpty
      <3> QED BY ONLY <2>3, <3>1, <3>2, <3>3
    <2> DEFINE j == k + i
    <2>5. /\ i - 1 \in 0 .. n - k /\ i - 1 < i /\ j - 1 \in k..n /\ j \in k + 1 .. n
          /\ k + (i - 1) = j - 1 /\ j \in 1..n /\ j - 1 \in 0..n /\ k \in 0..n
      BY <1>1, <2>3, <2>4
    <2>6. i - 1 \notin T
      BY <2>1, <2>2, <2>5
    <2>7. UpTo(s, k) \o FlattenSeq(Rest(j - 1)) = UpTo(s, j - 1)
      BY <2>5, <2>6 DEF T
    <2>8. UpTo(s, k) \o FlattenSeq(Rest(j)) # UpTo(s, j)
      BY <2>3
    <2> HIDE DEF j
    <2>9. /\ Rest(j) = Append(Rest(j - 1), s[j]) /\ s[j] \in Seq(S) /\ Rest(j - 1) \in Seq(Seq(S))
          /\ FlattenSeq(Rest(j - 1)) \in Seq(S) /\ UpTo(s, k) \in Seq(S)
          /\ UpTo(s, j) = UpTo(s, j - 1) \o s[j]
      BY ONLY <1>2, <1>4, <1>5, <2>5
    <2>10. FlattenSeq(Rest(j)) = FlattenSeq(Rest(j - 1)) \o s[j]
      BY <2>9, FlatAppend
    <2> DEFINE A == UpTo(s, k)
               B == FlattenSeq(Rest(j - 1))
               C == s[j]
    <2>11. A \in Seq(S) /\ B \in Seq(S) /\ C \in Seq(S)
      BY <2>9
    <2>12. /\ A \o B = UpTo(s, j - 1) /\ UpTo(s, j - 1) \o C = UpTo(s, j)
           /\ A \o (B \o C) # UpTo(s, j)
      BY <2>7, <2>9, <2>8, <2>10
    <2> HIDE DEF A, B, C
    <2>13. (A \o B) \o C = A \o (B \o C)
      BY ONLY <2>11, ConcatAssociative
    <2> QED BY ONLY <2>12, <2>13
  <1>8. n - k \in 0 .. n - k /\ k + (n - k) = n /\ n \in k..n
    BY <1>1
  <1>9. UpTo(s, k) \o FlattenSeq(Rest(n)) = UpTo(s, n)
    BY <1>7, <1>8
  <1> QED BY <1>2, <1>5, <1>6, <1>8, <1>9

\* The next sequence is the first of the rest.
LEMMA FromStep ==
    ASSUME NEW S, NEW s \in Seq(Seq(S))
    PROVE  /\ From(s, 0) = FlattenSeq(s) /\ From(s, Len(s)) = <<>>
           /\ \A k \in 0 .. Len(s) : From(s, k) \in Seq(S)
           /\ \A k \in 1 .. Len(s) : From(s, k - 1) = s[k] \o From(s, k)
  <1>1. SubSeq(s, 1, Len(s)) = s /\ SubSeq(s, Len(s) + 1, Len(s)) = <<>>
    BY SubSeqEmpty, SubSeqFull
  <1>2. ASSUME NEW k \in 1 .. Len(s) PROVE From(s, k - 1) = s[k] \o From(s, k)
    <2>1. /\ k \in 0 .. Len(s) /\ k - 1 \in 0 .. Len(s) /\ s[k] \in Seq(S)
      OBVIOUS
    <2>2. /\ UpTo(s, k) = UpTo(s, k - 1) \o s[k] /\ UpTo(s, k - 1) \in Seq(S)
          /\ From(s, k) \in Seq(S) /\ From(s, k - 1) \in Seq(S)
          /\ UpTo(s, k) \o From(s, k) = UpTo(s, k - 1) \o From(s, k - 1)
      BY <2>1, UpToStep, UpToFrom
    <2> DEFINE A == UpTo(s, k - 1)
               B == s[k]
               C == From(s, k)
               D == From(s, k - 1)
    <2>3. A \in Seq(S) /\ B \in Seq(S) /\ C \in Seq(S) /\ D \in Seq(S)
      BY <2>1, <2>2
    <2>4. (A \o B) \o C = A \o D
      BY <2>2
    <2> SUFFICES D = B \o C
      OBVIOUS
    <2> HIDE DEF A, B, C, D
    <2>5. A \in Seq(S) /\ B \in Seq(S) /\ C \in Seq(S)
      BY ONLY <2>3
    <2>6. (A \o B) \o C = A \o (B \o C)
      BY ONLY <2>5, ConcatAssociative, SMTT(30)
    <2> DEFINE E == B \o C
    <2>7. E \in Seq(S)
      BY ONLY <2>3, ConcatProperties
    <2>8. A \o D = A \o E
      BY ONLY <2>4, <2>6
    <2> HIDE DEF E
    <2>9. D = E
      BY ONLY <2>3, <2>7, <2>8, CancelLeft
    <2> QED BY ONLY <2>9 DEF E
  <1>3. \A k \in 0 .. Len(s) : From(s, k) \in Seq(S)
    BY UpToFrom
  <1>4. From(s, 0) = FlattenSeq(s) /\ From(s, Len(s)) = <<>>
    <2>1. 0 + 1 = 1
      OBVIOUS
    <2> QED BY ONLY <1>1, <2>1, FlatEmpty DEF From
  <1> QED BY <1>2, <1>3, <1>4

\* The head and the tail of what starts with a word, or with some words.
LEMMA FirstWord ==
    ASSUME NEW S, NEW w \in S, NEW s \in Seq(S)
    PROVE  /\ <<w>> \o s \in Seq(S) /\ <<w>> \o s # <<>>
           /\ Head(<<w>> \o s) = w /\ Tail(<<w>> \o s) = s
  <1>1. <<w>> \in Seq(S) /\ Len(<<w>>) = 1 /\ <<w>>[1] = w
    OBVIOUS
  <1> DEFINE t == <<w>> \o s
  <1>2. /\ t \in Seq(S) /\ Len(t) = 1 + Len(s) /\ Len(s) \in Nat
        /\ \A i \in 1 .. 1 + Len(s) : t[i] = IF i <= 1 THEN w ELSE s[i - 1]
    BY <1>1, ConcatProperties
  <1> HIDE DEF t
  <1>3. t # <<>> /\ t[1] = w
    BY <1>2
  <1>4. Head(t) = w
    BY <1>2, <1>3
  <1>5. Tail(t) \in Seq(S) /\ Len(Tail(t)) = Len(s)
        /\ \A i \in 1 .. Len(s) : Tail(t)[i] = t[i + 1]
    BY <1>2, <1>3, HeadTailProperties
  <1>6. \A i \in 1 .. Len(s) : t[i + 1] = s[i]
    BY <1>2
  <1>7. Tail(t) = s
    BY <1>5, <1>6, SeqEqual
  <1> QED BY <1>2, <1>3, <1>4, <1>7 DEF t

\* Words in front of others.
LEMMA FirstOfConcat ==
    ASSUME NEW S, NEW r \in Seq(S), r # <<>>, NEW s \in Seq(S)
    PROVE  /\ Head(r) \in S /\ Tail(r) \in Seq(S) /\ r = <<Head(r)>> \o Tail(r)
           /\ r \o s # <<>> /\ Head(r \o s) = Head(r) /\ Tail(r \o s) = Tail(r) \o s
  <1> DEFINE w == Head(r)
             u == Tail(r)
  <1>1. w \in S /\ u \in Seq(S)
    BY HeadTailProperties
  <1>2. r = <<w>> \o u
    <2>1. Len(u) = Len(r) - 1 /\ Len(r) \in Nat \ {0} /\ r[1] = w
          /\ \A i \in 1 .. Len(u) : u[i] = r[i + 1]
      BY HeadTailProperties, EmptySeq
    <2>2. <<w>> \in Seq(S) /\ Len(<<w>>) = 1 /\ <<w>>[1] = w
      BY <1>1
    <2> DEFINE t == <<w>> \o u
    <2>3. /\ t \in Seq(S) /\ Len(t) = 1 + Len(u)
          /\ \A i \in 1 .. 1 + Len(u) : t[i] = IF i <= 1 THEN <<w>>[i] ELSE u[i - 1]
      BY <1>1, <2>2, ConcatProperties
    <2> HIDE DEF t, w, u
    <2>4. \A i \in 1 .. Len(t) : t[i] = r[i]
      BY <1>1, <2>1, <2>2, <2>3
    <2>5. Len(t) = Len(r)
      BY <2>1, <2>3
    <2>6. t = r
      BY <2>3, <2>4, <2>5, SeqEqual
    <2> QED BY <2>6 DEF t
  <1>3. <<w>> \in Seq(S)
    BY <1>1
  <1> HIDE DEF w, u
  <1>4. (<<w>> \o u) \o s = <<w>> \o (u \o s)
    BY ONLY <1>1, <1>3, ConcatAssociative
  <1>5. u \o s \in Seq(S)
    BY <1>1, ConcatProperties
  <1>6. r \o s = <<w>> \o (u \o s)
    BY <1>2, <1>4
  <1>7. r \o s # <<>> /\ Head(r \o s) = w /\ Tail(r \o s) = u \o s
    BY <1>1, <1>5, <1>6, FirstWord
  <1> QED BY <1>1, <1>2, <1>7 DEF w, u

\* Sequences with the same end.
LEMMA FromSame ==
    ASSUME NEW S, NEW s \in Seq(Seq(S)), NEW t \in Seq(Seq(S)), Len(s) = Len(t),
           NEW k \in 0 .. Len(s), \A i \in k + 1 .. Len(s) : s[i] = t[i]
    PROVE  From(s, k) = From(t, k)
  <1> DEFINE n == Len(s)
             x == SubSeq(s, k + 1, n)
             y == SubSeq(t, k + 1, n)
  <1>1. /\ x \in Seq(Seq(S)) /\ Len(x) = n - k
        /\ \A i \in 1 .. n - k : x[i] = s[k + i]
    OBVIOUS
  <1>2. /\ y \in Seq(Seq(S)) /\ Len(y) = n - k
        /\ \A i \in 1 .. n - k : y[i] = t[k + i]
    OBVIOUS
  <1>3. \A i \in 1 .. n - k : k + i \in k + 1 .. n
    OBVIOUS
  <1> HIDE DEF x, y
  <1>4. \A i \in 1 .. Len(x) : x[i] = y[i]
    BY <1>1, <1>2, <1>3
  <1>5. x = y
    BY <1>1, <1>2, <1>4, SeqEqual
  <1> QED BY <1>5 DEF x, y, From

\* A word goes from the front of r to the end of what is written.
LEMMA MoveWord ==
    ASSUME NEW S, NEW m \in Seq(S), NEW r \in Seq(S), r # <<>>, NEW o \in Seq(S)
    PROVE  /\ Append(m, Head(r)) \in Seq(S)
           /\ Append(m, Head(r)) \o (Tail(r) \o o) = m \o (r \o o)
  <1> DEFINE w == Head(r)
             u == Tail(r)
             v == <<w>>
  <1>1. w \in S /\ u \in Seq(S) /\ r = v \o u
    BY FirstOfConcat, EmptySeq
  <1>2. v \in Seq(S)
    BY <1>1
  <1>3. Append(m, w) = m \o v /\ Append(m, w) \in Seq(S)
    BY <1>1, AppendIsConcat, AppendProperties
  <1> HIDE DEF v, w, u
  <1>4. u \in Seq(S) /\ v \in Seq(S) /\ o \in Seq(S)
    BY <1>1, <1>2
  <1>5. (v \o u) \o o = v \o (u \o o)
    BY ONLY <1>4, ConcatAssociative
  <1> DEFINE x == u \o o
  <1>6. x \in Seq(S)
    BY <1>4, ConcatProperties
  <1>7. m \o (r \o o) = m \o (v \o x)
    BY ONLY <1>1, <1>5
  <1> HIDE DEF x
  <1>8. m \in Seq(S) /\ v \in Seq(S) /\ x \in Seq(S)
    BY <1>2, <1>6
  <1>9. (m \o v) \o x = m \o (v \o x)
    BY ONLY <1>8, ConcatAssociative, SMTT(30)
  <1>10. Append(m, w) \o x = m \o (r \o o)
    BY ONLY <1>3, <1>7, <1>9
  <1> QED BY <1>3, <1>10 DEF x, w, u

\* An event begins: its header w is written, and its other words are x.
LEMMA BeginEvent ==
    ASSUME NEW S, NEW u \in Seq(Seq(S)), NEW k \in 1 .. Len(u),
           NEW w \in S, NEW x \in Seq(S), u[k] = <<w>> \o x
    PROVE  Append(UpTo(u, k - 1), w) \o x = UpTo(u, k)
  <1> DEFINE m == UpTo(u, k - 1)
             v == <<w>>
  <1>1. m \in Seq(S) /\ UpTo(u, k) = m \o (v \o x)
    <2>1. k \in 1 .. Len(u) /\ k - 1 \in 0 .. Len(u)
      OBVIOUS
    <2>2. m \in Seq(S) /\ UpTo(u, k) = m \o u[k]
      BY ONLY <2>1, UpToStep, u \in Seq(Seq(S))
    <2> QED BY <2>2
  <1>2. m \in Seq(S) /\ v \in Seq(S) /\ x \in Seq(S)
    BY <1>1
  <1>3. Append(m, w) = m \o v
    BY <1>1, AppendIsConcat
  <1> HIDE DEF m, v
  <1>4. (m \o v) \o x = m \o (v \o x)
    BY ONLY <1>2, ConcatAssociative
  <1>5. Append(m, w) \o x = UpTo(u, k)
    BY ONLY <1>1, <1>3, <1>4
  <1> QED BY <1>5 DEF m

\* The rest of one file goes behind the first k events.
LEMMA AddTail ==
    ASSUME NEW S, NEW u \in Seq(Seq(S)), NEW k \in 0 .. Len(u), NEW m \in Seq(S),
           NEW r \in Seq(S), m \o r = UpTo(u, k)
    PROVE  m \o (r \o From(u, k)) = FlattenSeq(u)
  <1> DEFINE x == From(u, k)
  <1>1. x \in Seq(S) /\ UpTo(u, k) \o x = FlattenSeq(u)
    BY UpToFrom
  <1> HIDE DEF x
  <1>2. m \in Seq(S) /\ r \in Seq(S) /\ x \in Seq(S)
    BY <1>1
  <1>3. (m \o r) \o x = m \o (r \o x)
    BY ONLY <1>2, ConcatAssociative
  <1>4. m \o (r \o x) = FlattenSeq(u)
    BY ONLY <1>1, <1>3, m \o r = UpTo(u, k)
  <1> QED BY <1>4 DEF x

--------------------------------------------------------------------------------
(* The recording is a run of the packet writer. *)

WP == INSTANCE PacketWriterProofs WITH MAXEVTRECORD <- CountMod, FileLimit <- 1000

\* The assumptions of PacketWriter hold here.
LEMMA WriterAssumptions ==
    WP!RecordAssumption /\ WP!SizesAssumption /\ WP!PacketBoundAssumption
  BY SizesFit, FieldsAssumption
     DEF SizesFit, FieldsAssumption, WP!RecordAssumption, WP!SizesAssumption,
         WP!PacketBoundAssumption

\* The way of a run from the event builder to the merged file does with the data file what
\* PacketWriter does, and the offline programs leave it alone.
THEOREM RecordsAsWriter == Spec => WP!Spec
  <1>1. Init => WP!Init
    BY DEF Init, Writer!Init, WP!Init
  <1>2. [Next]_vars => [WP!Next]_WP!vars
    <2> SUFFICES ASSUME [Next]_vars
                 PROVE  WP!Next \/ UNCHANGED writerVars
      BY DEF writerVars, WP!vars, WP!buf, WP!out
    <2>1. CASE Record
      <3>1. CASE Writer!Start
        BY <3>1 DEF Writer!Start, WP!Start, WP!Next
      <3>2. CASE Writer!EndOfCollecting
        BY <3>2 DEF Writer!EndOfCollecting, WP!EndOfCollecting, Writer!buf, WP!buf, WP!Next
      <3>3. ASSUME NEW n \in Sizes, Writer!EmitEvent(n)
            PROVE  WP!Next
        <4>1. WP!EmitEvent(n)
          BY <3>3 DEF Writer!EmitEvent, WP!EmitEvent, Writer!Kept, WP!Kept, Writer!Full, WP!Full,
               Writer!Flush, WP!Flush, Writer!buf, WP!buf, Writer!out, WP!out,
               Writer!HeaderWords, WP!HeaderWords, Writer!ThePacket, WP!ThePacket,
               Writer!Condition, WP!Condition
        <4> QED BY <4>1 DEF WP!Next
      <3> QED BY <2>1, <3>1, <3>2, <3>3 DEF Record
    <2>2. CASE Next /\ ~Record
      BY <2>2 DEF Next, StartCleaning, Clean, StartMerge, MergeWords, Mismatch, CopyTail
    <2>3. CASE UNCHANGED vars
      BY <2>3 DEF vars
    <2> QED BY <2>1, <2>2, <2>3
  <1> QED BY <1>1, <1>2, PTL DEF Spec, WP!Spec

\* In particular it keeps the types of the data file.
LEMMA FileTyped == Spec => [](file \in Seq(WP!Packet))
  <1>1. WP!TypeOK => file \in Seq(WP!Packet)
    BY DEF WP!TypeOK
  <1>2. WP!Spec => []WP!TypeOK
    BY WP!TypeCorrect, WriterAssumptions
  <1> QED BY <1>1, <1>2, RecordsAsWriter, PTL

--------------------------------------------------------------------------------
(* The files that are merged, event by event. *)

Edges == [kind : {"edge"}, csm : Nat, event : Nat, place : Nat]
Words == [kind : {"header"}, evid : Nat, count : Nat] \cup Edges

EventRecord == [evt : Nat, nwords : Nat]

\* The events of the file that was cleaned, of the other one, and of merged.dat.
Mine == [k \in 1..EventsToClean |->
           <<Header((k - 1) % EvidMod, Written[k].nwords)>> \o EdgesLeft(k - 1)]
Theirs == [k \in 1..Len(otherSizes) |-> OtherEvent(k - 1, otherSizes[k])]
Union ==
    LET HasMine(k) == k <= EventsToClean
        HasTheirs(k) == k <= Len(otherSizes)
        Count(k) == (IF HasMine(k) THEN Written[k].nwords ELSE 0) +
                    (IF HasTheirs(k) THEN otherSizes[k] ELSE 0)
        MergedEdges(k) ==
            (IF HasMine(k) THEN EdgesLeft(k - 1) ELSE <<>>) \o
            (IF HasTheirs(k) THEN Tail(OtherEvent(k - 1, otherSizes[k])) ELSE <<>>)
    IN  [k \in 1..Max({EventsToClean, Len(otherSizes)}) |->
           <<Header((k - 1) % EvidMod, Count(k))>> \o MergedEdges(k)]

OtherEdges(k) == [i \in 1..otherSizes[k] |-> Edge(2, k - 1, i)]

\* The files are these events, one behind the other.
LEMMA FilesAreEvents ==
    /\ WordsToClean = FlattenSeq(Mine)
    /\ OtherWords(otherSizes) = FlattenSeq(Theirs)
    /\ UnionOfEvents(EventsToClean) = FlattenSeq(Union)
  <1>1. WordsToClean = FlattenSeq(Mine)
    BY DEF WordsToClean, Mine
  <1>2. OtherWords(otherSizes) = FlattenSeq(Theirs)
    BY DEF OtherWords, Theirs
  <1>3. UnionOfEvents(EventsToClean) = FlattenSeq(Union)
    BY DEF UnionOfEvents, Union
  <1> QED BY <1>1, <1>2, <1>3

\* What is chosen when the cleaning starts.
DamageOK ==
    /\ errorWord \in {None} \cup WordsWritten
    /\ gap = -1 \/ gap \in 1 .. Len(Written) - 1

\* The events in the data file.
LEMMA WrittenType ==
    ASSUME file \in Seq(WP!Packet)
    PROVE  Written \in Seq(EventRecord)
  <1> DEFINE s == [i \in 1..Len(file) |-> file[i].events]
  <1>1. Len(file) \in Nat /\ \A i \in 1..Len(file) : file[i] \in WP!Packet
    OBVIOUS
  <1>2. \A i \in 1..Len(file) : file[i].events \in Seq(EventRecord)
    BY <1>1 DEF WP!Packet, WP!EventRecord, EventRecord
  <1>3. s \in Seq(Seq(EventRecord))
    BY <1>1, <1>2
  <1> HIDE DEF s
  <1>4. FlattenSeq(s) \in Seq(EventRecord)
    BY <1>3, FlatType
  <1> QED BY <1>4 DEF Written, s

\* The header of an event is a word.
LEMMA HeaderWord ==
    ASSUME NEW k \in Nat \ {0}, NEW n \in Nat
    PROVE  /\ (k - 1) % EvidMod \in Nat
           /\ Header((k - 1) % EvidMod, n) \in Words
  <1>1. k - 1 \in Nat /\ EvidMod \in Nat \ {0}
    BY FieldsAssumption DEF FieldsAssumption
  <1>2. (k - 1) % EvidMod \in Nat
    BY <1>1
  <1> QED BY <1>2 DEF Header, Words

\* The events of the cleaned file: a header each, and edges.
LEMMA MineEvents ==
    ASSUME file \in Seq(WP!Packet), DamageOK
    PROVE  /\ EventsToClean \in 0 .. Len(Written)
           /\ Mine \in Seq(Seq(Words)) /\ Len(Mine) = EventsToClean
           /\ \A k \in 1..EventsToClean :
                /\ EdgesLeft(k - 1) \in Seq(Edges) /\ Written[k].nwords \in Nat
                /\ Mine[k] = <<Header((k - 1) % EvidMod, Written[k].nwords)>> \o EdgesLeft(k - 1)
  <1>1. Written \in Seq(EventRecord)
    BY WrittenType
  <1>2. Len(Written) \in Nat /\ \A k \in 1..Len(Written) : Written[k].nwords \in Nat
    <2>1. \A k \in 1..Len(Written) : Written[k] \in EventRecord
      BY <1>1
    <2> QED BY <1>1, <2>1 DEF EventRecord
  <1>3. EventsToClean \in 0 .. Len(Written)
    BY <1>2 DEF DamageOK, EventsToClean
  <1>4. ASSUME NEW k \in 1..EventsToClean
        PROVE  /\ EdgesLeft(k - 1) \in Seq(Edges) /\ Written[k].nwords \in Nat
    <2>1. k \in 1..Len(Written) /\ k - 1 \in Nat /\ (k - 1) + 1 = k /\ Written[k].nwords \in Nat
      BY <1>2, <1>3
    <2> DEFINE n == WordsLeft(k - 1, Written[k].nwords)
    <2>2. n \in Nat
      <3>1. CASE errorWord = None
        <4>1. errorWord.event = -1
          BY <3>1 DEF None
        <4> QED BY <2>1, <4>1 DEF WordsLeft
      <3>2. CASE errorWord \in WordsWritten
        <4>1. PICK e \in 0 .. Len(Written) - 1 :
                errorWord \in {[event |-> e, place |-> i] : i \in 1 .. Written[e + 1].nwords}
          BY <3>2 DEF WordsWritten
        <4>2. PICK i \in 1 .. Written[e + 1].nwords : errorWord = [event |-> e, place |-> i]
          BY <4>1
        <4>3. errorWord.place = i /\ i - 1 \in Nat
          BY <4>2
        <4> QED BY <2>1, <4>3 DEF WordsLeft
      <3> QED BY <3>1, <3>2 DEF DamageOK
    <2>3. EdgesLeft(k - 1) = [i \in 1..n |-> Edge(1, k - 1, i)]
      BY <2>1 DEF EdgesLeft
    <2> HIDE DEF n
    <2>4. \A i \in 1..n : Edge(1, k - 1, i) \in Edges
      BY <2>1, <2>2 DEF Edge, Edges
    <2> QED BY <2>1, <2>2, <2>3, <2>4
  <1>5. ASSUME NEW k \in 1..EventsToClean
        PROVE  /\ Mine[k] = <<Header((k - 1) % EvidMod, Written[k].nwords)>> \o EdgesLeft(k - 1)
               /\ Mine[k] \in Seq(Words)
    <2> DEFINE w == Header((k - 1) % EvidMod, Written[k].nwords)
               x == EdgesLeft(k - 1)
    <2>1. Mine[k] = <<w>> \o x
      BY DEF Mine
    <2>2. k \in Nat \ {0} /\ Written[k].nwords \in Nat /\ x \in Seq(Edges)
      BY <1>3, <1>4
    <2>3. w \in Words
      BY <2>2, HeaderWord
    <2> HIDE DEF w, x
    <2>4. x \in Seq(Words)
      BY <2>2 DEF Words
    <2>5. <<w>> \o x \in Seq(Words)
      BY <2>3, <2>4, FirstWord
    <2> QED BY <2>1, <2>5 DEF w, x
  <1>6. Mine \in Seq(Seq(Words)) /\ Len(Mine) = EventsToClean
    <2>1. EventsToClean \in Nat
      BY <1>2, <1>3
    <2>2. DOMAIN Mine = 1..EventsToClean /\ Mine = [k \in DOMAIN Mine |-> Mine[k]]
      BY DEF Mine
    <2>3. Mine \in [1..EventsToClean -> Seq(Words)]
      BY ONLY <1>5, <2>2
    <2> QED BY ONLY <2>1, <2>3
  <1> QED BY <1>3, <1>4, <1>5, <1>6

\* The same of the other file.
LEMMA TheirEvents ==
    ASSUME otherSizes \in Seq(Nat)
    PROVE  /\ Theirs \in Seq(Seq(Words)) /\ Len(Theirs) = Len(otherSizes)
           /\ \A k \in 1..Len(otherSizes) :
                /\ OtherEdges(k) \in Seq(Edges)
                /\ Theirs[k] = <<Header((k - 1) % EvidMod, otherSizes[k])>> \o OtherEdges(k)
                /\ Tail(OtherEvent(k - 1, otherSizes[k])) = OtherEdges(k)
  <1>1. ASSUME NEW k \in 1..Len(otherSizes)
        PROVE  /\ OtherEdges(k) \in Seq(Edges)
               /\ Theirs[k] = <<Header((k - 1) % EvidMod, otherSizes[k])>> \o OtherEdges(k)
               /\ Theirs[k] \in Seq(Words)
               /\ Tail(OtherEvent(k - 1, otherSizes[k])) = OtherEdges(k)
    <2> DEFINE n == otherSizes[k]
               w == Header((k - 1) % EvidMod, n)
               x == OtherEdges(k)
    <2>1. k \in Nat \ {0} /\ k - 1 \in Nat /\ n \in Nat
      OBVIOUS
    <2>2. OtherEvent(k - 1, n) = <<w>> \o x /\ Theirs[k] = OtherEvent(k - 1, n)
      BY DEF Theirs, OtherEvent, OtherEdges
    <2>3. w \in Words
      BY <2>1, HeaderWord
    <2>4. x \in Seq(Edges)
      <3>1. x = [i \in 1..n |-> Edge(2, k - 1, i)]
        BY DEF OtherEdges
      <3> HIDE DEF n, x
      <3>2. \A i \in 1..n : Edge(2, k - 1, i) \in Edges
        BY <2>1 DEF Edge, Edges
      <3> QED BY <2>1, <3>1, <3>2
    <2> HIDE DEF n, w, x
    <2>5. x \in Seq(Words)
      BY <2>4 DEF Words
    <2>6. <<w>> \o x \in Seq(Words) /\ Tail(<<w>> \o x) = x
      BY <2>3, <2>5, FirstWord
    <2> QED BY <2>2, <2>4, <2>6 DEF n, w, x
  <1>2. DOMAIN Theirs = 1..Len(otherSizes) /\ Theirs = [k \in DOMAIN Theirs |-> Theirs[k]]
    BY DEF Theirs
  <1>3. Theirs \in [1..Len(otherSizes) -> Seq(Words)]
    BY ONLY <1>1, <1>2
  <1>4. Len(otherSizes) \in Nat
    OBVIOUS
  <1>5. Theirs \in Seq(Seq(Words)) /\ Len(Theirs) = Len(otherSizes)
    BY ONLY <1>3, <1>4
  <1> QED BY <1>1, <1>5

\* The longer of two.
LEMMA MaxOfTwo ==
    ASSUME NEW m \in Nat, NEW n \in Nat
    PROVE  Max({m, n}) = IF m <= n THEN n ELSE m
  <1>1. \E x \in {m, n} : \A y \in {m, n} : x >= y
    OBVIOUS
  <1>2. Max({m, n}) \in {m, n} /\ \A y \in {m, n} : Max({m, n}) >= y
    BY ONLY <1>1 DEF Max
  <1> QED BY <1>2

\* Events that only one file has are taken as they are, others are put together.
LEMMA UnionEvents ==
    ASSUME file \in Seq(WP!Packet), DamageOK, otherSizes \in Seq(Nat)
    PROVE  /\ Union \in Seq(Seq(Words))
           /\ Len(Union) = IF Len(Mine) <= Len(Theirs) THEN Len(Theirs) ELSE Len(Mine)
           /\ \A k \in 1..Len(Union) :
                /\ k > Len(Theirs) => Union[k] = Mine[k]
                /\ k > Len(Mine) => Union[k] = Theirs[k]
                /\ k <= Len(Mine) /\ k <= Len(Theirs) =>
                     Union[k] = <<Header((k - 1) % EvidMod, Written[k].nwords + otherSizes[k])>>
                                  \o (EdgesLeft(k - 1) \o OtherEdges(k))
  <1> DEFINE m == EventsToClean
             n == Len(otherSizes)
             Count(k) == (IF k <= m THEN Written[k].nwords ELSE 0) +
                         (IF k <= n THEN otherSizes[k] ELSE 0)
             x(k) == IF k <= m THEN EdgesLeft(k - 1) ELSE <<>>
             y(k) == IF k <= n THEN Tail(OtherEvent(k - 1, otherSizes[k])) ELSE <<>>
             N == Max({m, n})
  <1>1. Union = [k \in 1..N |-> <<Header((k - 1) % EvidMod, Count(k))>> \o (x(k) \o y(k))]
    BY DEF Union
  <1>2. /\ m \in Nat /\ Len(Mine) = m /\ Mine \in Seq(Seq(Words))
        /\ \A k \in 1..m :
             /\ EdgesLeft(k - 1) \in Seq(Edges) /\ Written[k].nwords \in Nat
             /\ Mine[k] = <<Header((k - 1) % EvidMod, Written[k].nwords)>> \o EdgesLeft(k - 1)
    <2>1. Written \in Seq(EventRecord)
      BY WrittenType
    <2>2. Len(Written) \in Nat
      BY <2>1
    <2>3. /\ m \in 0 .. Len(Written) /\ Len(Mine) = m /\ Mine \in Seq(Seq(Words))
          /\ \A k \in 1..m :
               /\ EdgesLeft(k - 1) \in Seq(Edges) /\ Written[k].nwords \in Nat
               /\ Mine[k] = <<Header((k - 1) % EvidMod, Written[k].nwords)>> \o EdgesLeft(k - 1)
      BY MineEvents
    <2>4. m \in 0 .. Len(Written)
      BY ONLY <2>3
    <2>5. m \in Nat
      BY ONLY <2>2, <2>4
    <2> QED BY ONLY <2>3, <2>5
  <1>3. /\ n \in Nat /\ Len(Theirs) = n /\ Theirs \in Seq(Seq(Words))
        /\ \A k \in 1..n :
             /\ OtherEdges(k) \in Seq(Edges) /\ otherSizes[k] \in Nat
             /\ Theirs[k] = <<Header((k - 1) % EvidMod, otherSizes[k])>> \o OtherEdges(k)
             /\ Tail(OtherEvent(k - 1, otherSizes[k])) = OtherEdges(k)
    <2>1. n \in Nat /\ \A k \in 1..n : otherSizes[k] \in Nat
      OBVIOUS
    <2> QED BY <2>1, TheirEvents
  <1>4. N = IF m <= n THEN n ELSE m
    BY <1>2, <1>3, MaxOfTwo
  <1> HIDE DEF m, n, N
  <1>5. m \in Nat /\ n \in Nat /\ N \in Nat /\ m <= N /\ n <= N /\ (N = m \/ N = n)
    <2>1. m \in Nat /\ n \in Nat
      BY <1>2, <1>3
    <2> QED BY ONLY <1>4, <2>1
  <1>6. ASSUME NEW k \in 1..N
        PROVE  /\ k > n => Union[k] = Mine[k]
               /\ k > m => Union[k] = Theirs[k]
               /\ k <= m /\ k <= n =>
                    Union[k] = <<Header((k - 1) % EvidMod, Written[k].nwords + otherSizes[k])>>
                                 \o (EdgesLeft(k - 1) \o OtherEdges(k))
               /\ Union[k] \in Seq(Words)
    <2>1. Union[k] = <<Header((k - 1) % EvidMod, Count(k))>> \o (x(k) \o y(k))
      BY <1>1
    <2>2. k \in Nat \ {0} /\ (k <= m => k \in 1..m) /\ (k <= n => k \in 1..n) /\ (k <= m \/ k <= n)
      BY ONLY <1>5, k \in 1..N
    <2>3. CASE k <= m /\ k <= n
      <3> DEFINE a == EdgesLeft(k - 1)
                 b == OtherEdges(k)
                 w == Header((k - 1) % EvidMod, Written[k].nwords + otherSizes[k])
      <3>1. /\ a \in Seq(Words) /\ b \in Seq(Words) /\ x(k) = a /\ y(k) = b
            /\ Count(k) = Written[k].nwords + otherSizes[k] /\ Count(k) \in Nat
        <4>1. k \in 1..m /\ k \in 1..n
          BY <2>2, <2>3
        <4>2. a \in Seq(Edges) /\ b \in Seq(Edges) /\ Written[k].nwords \in Nat
              /\ otherSizes[k] \in Nat /\ Tail(OtherEvent(k - 1, otherSizes[k])) = b
          BY <1>2, <1>3, <4>1
        <4>3. x(k) = a /\ y(k) = b /\ Count(k) = Written[k].nwords + otherSizes[k]
          BY <2>3, <4>2
        <4> HIDE DEF a, b, x, y
        <4>4. a \in Seq(Words) /\ b \in Seq(Words)
          BY <4>2 DEF Words
        <4> QED BY <4>2, <4>3, <4>4
      <3>2. w \in Words
        BY <2>2, <3>1, HeaderWord
      <3> HIDE DEF a, b
      <3>3. a \o b \in Seq(Words)
        BY ONLY <3>1, ConcatProperties
      <3> HIDE DEF w
      <3>4. <<w>> \o (a \o b) \in Seq(Words)
        BY ONLY <3>2, <3>3, FirstWord
      <3>5. Union[k] = <<w>> \o (a \o b)
        BY <2>1, <3>1 DEF w
      <3>6. ~(k > m) /\ ~(k > n)
        BY ONLY <1>5, <2>2, <2>3
      <3> QED BY <3>4, <3>5, <3>6 DEF a, b, w
    <2>4. CASE ~(k <= n)
      <3> DEFINE a == EdgesLeft(k - 1)
                 w == Header((k - 1) % EvidMod, Written[k].nwords)
      <3>1. k \in 1..m /\ ~(k > m) /\ ~(k <= n)
        BY ONLY <1>5, <2>2, <2>4
      <3>2. a \in Seq(Edges) /\ Written[k].nwords \in Nat /\ Mine[k] = <<w>> \o a
        BY ONLY <1>2, <3>1
      <3>3. Mine \in Seq(Seq(Words)) /\ k \in 1..Len(Mine)
        BY ONLY <1>2, <3>1
      <3>4. Mine[k] \in Seq(Words)
        BY ONLY <3>3
      <3>5. a \in Seq(Edges) /\ Written[k].nwords \in Nat /\ Mine[k] = <<w>> \o a
            /\ Mine[k] \in Seq(Words)
        BY ONLY <3>2, <3>4
      <3>6. x(k) = a /\ y(k) = <<>> /\ Count(k) = Written[k].nwords
        BY <2>4, <3>1, <3>5
      <3>7. a \o <<>> = a
        BY <3>5, ConcatEmptySeq
      <3>8. Union[k] = Mine[k]
        BY <2>1, <3>5, <3>6, <3>7
      <3> QED BY <3>1, <3>5, <3>8
    <2>5. CASE ~(k <= m)
      <3> DEFINE b == OtherEdges(k)
                 w == Header((k - 1) % EvidMod, otherSizes[k])
      <3>1. k \in 1..n /\ ~(k > n) /\ ~(k <= m)
        BY ONLY <1>5, <2>2, <2>5
      <3>2. b \in Seq(Edges) /\ otherSizes[k] \in Nat /\ Theirs[k] = <<w>> \o b
            /\ Tail(OtherEvent(k - 1, otherSizes[k])) = b
        BY ONLY <1>3, <3>1
      <3>3. Theirs \in Seq(Seq(Words)) /\ k \in 1..Len(Theirs)
        BY ONLY <1>3, <3>1
      <3>4. Theirs[k] \in Seq(Words)
        BY ONLY <3>3
      <3>5. b \in Seq(Edges) /\ otherSizes[k] \in Nat /\ Theirs[k] = <<w>> \o b
            /\ Theirs[k] \in Seq(Words) /\ Tail(OtherEvent(k - 1, otherSizes[k])) = b
        BY ONLY <3>2, <3>4
      <3>6. x(k) = <<>> /\ y(k) = b /\ Count(k) = otherSizes[k]
        BY <2>5, <3>1, <3>5
      <3>7. <<>> \o b = b
        BY <3>5, ConcatEmptySeq
      <3>8. Union[k] = Theirs[k]
        BY <2>1, <3>5, <3>6, <3>7
      <3> QED BY <3>1, <3>5, <3>8
    <2> QED BY <2>3, <2>4, <2>5
  <1>7. Union \in Seq(Seq(Words)) /\ Len(Union) = N
    <2>1. DOMAIN Union = 1..N /\ Union = [k \in DOMAIN Union |-> Union[k]]
      BY <1>1
    <2>2. Union \in [1..N -> Seq(Words)]
      BY ONLY <1>6, <2>1
    <2>3. N \in Nat
      BY <1>2, <1>3, <1>4
    <2> QED BY ONLY <2>2, <2>3
  <1> QED BY <1>2, <1>3, <1>4, <1>6, <1>7

--------------------------------------------------------------------------------
(* The merge. *)

\* k events are merged but for the words r of the first file and o of the other one,
\* which come next.
MergePlace(k, r, o) ==
    /\ k \in 0 .. Len(Mine) /\ k \in 0 .. Len(Theirs)
    /\ r \in Seq(Edges) /\ rest = r \o From(Mine, k)
    /\ o \in Seq(Edges) /\ other = o \o From(Theirs, k)
    /\ merged \in Seq(Words) /\ merged \o (r \o o) = UpTo(Union, k)

MergeInv == merging = "on" /\ clean = WordsToClean => \E k, r, o : MergePlace(k, r, o)

\* The programs run one after the other, each on what the one before it left.
InOrder ==
    /\ cleaning = "off" => errorWord = None /\ gap = -1 /\ merging = "off"
    /\ DamageOK
    /\ merging \in {"off", "on", "finished", "stopped"}
    /\ merging = "off" => merged = <<>>
    /\ merging # "off" => cleaning \in {"finished", "stopped"} /\ otherSizes \in Seq(Nat)

\* The files in which the merge reads do not change.
LEMMA FilesStay ==
    ASSUME UNCHANGED <<file, errorWord, gap>>
    PROVE  /\ WordsToClean' = WordsToClean /\ Mine' = Mine /\ (DamageOK => DamageOK')
           /\ otherSizes' = otherSizes =>
                /\ Theirs' = Theirs /\ Union' = Union
                /\ UnionOfEvents(EventsToClean)' = UnionOfEvents(EventsToClean)
  <1>1. Written' = Written
    BY DEF Written
  <1>2. EventsToClean' = EventsToClean
    BY <1>1 DEF EventsToClean
  <1>3. Mine' = Mine
    BY <1>1, <1>2 DEF Mine, EdgesLeft, WordsLeft
  <1>4. WordsToClean' = FlattenSeq(Mine')
    BY DEF WordsToClean, Mine
  <1>5. WordsToClean = FlattenSeq(Mine)
    BY FilesAreEvents
  <1>6. DamageOK => DamageOK'
    BY <1>1 DEF DamageOK, WordsWritten
  <1>7. ASSUME otherSizes' = otherSizes
        PROVE  /\ Theirs' = Theirs /\ Union' = Union
               /\ UnionOfEvents(EventsToClean)' = UnionOfEvents(EventsToClean)
    <2>1. Theirs' = Theirs
      BY <1>7 DEF Theirs
    <2>2. Union' = Union
      BY <1>1, <1>2, <1>7 DEF Union, EdgesLeft, WordsLeft
    <2>3. UnionOfEvents(EventsToClean)' = FlattenSeq(Union')
      BY DEF UnionOfEvents, Union
    <2> QED BY <2>1, <2>2, <2>3, FilesAreEvents
  <1> QED BY <1>3, <1>4, <1>5, <1>6, <1>7

\* A place ahead of the last event of the first file: an event begins there.
LEMMA EventBegins ==
    ASSUME NEW s \in Seq(Seq(Words)), NEW k \in 0 .. Len(s) - 1, NEW w \in Words,
           NEW x \in Seq(Words), s[k + 1] = <<w>> \o x
    PROVE  /\ From(s, k) # <<>> /\ Head(From(s, k)) = w
           /\ Tail(From(s, k)) = x \o From(s, k + 1)
           /\ x \o From(s, k + 1) \in Seq(Words)
  <1> DEFINE y == From(s, k + 1)
             t == <<w>> \o x
  <1>1. k + 1 \in 1 .. Len(s) /\ k + 1 \in 0 .. Len(s) /\ (k + 1) - 1 = k
    OBVIOUS
  <1>2. From(s, (k + 1) - 1) = s[k + 1] \o y /\ y \in Seq(Words)
    BY ONLY <1>1, FromStep, s \in Seq(Seq(Words))
  <1>3. From(s, k) = t \o y
    BY ONLY <1>1, <1>2, s[k + 1] = <<w>> \o x
  <1>4. t \in Seq(Words) /\ t # <<>> /\ Head(t) = w /\ Tail(t) = x
    BY FirstWord
  <1> HIDE DEF t, y
  <1>5. t \o y # <<>> /\ Head(t \o y) = w /\ Tail(t \o y) = x \o y
    <2>1. t \in Seq(Words) /\ t # <<>> /\ y \in Seq(Words)
      BY ONLY <1>2, <1>4
    <2>2. t \o y # <<>> /\ Head(t \o y) = Head(t) /\ Tail(t \o y) = Tail(t) \o y
      BY ONLY <2>1, FirstOfConcat
    <2> QED BY ONLY <1>4, <2>2
  <1>6. x \o y \in Seq(Words)
    BY <1>2, ConcatProperties
  <1> QED BY <1>3, <1>5, <1>6 DEF y

\* What is known of the files at a place of the merge.
Files ==
    /\ Mine \in Seq(Seq(Words)) /\ Theirs \in Seq(Seq(Words)) /\ Union \in Seq(Seq(Words))
    /\ Len(Mine) \in Nat /\ Len(Theirs) \in Nat
    /\ Len(Union) = IF Len(Mine) <= Len(Theirs) THEN Len(Theirs) ELSE Len(Mine)
    /\ \A k \in 1..Len(Mine) :
         /\ EdgesLeft(k - 1) \in Seq(Edges) /\ Written[k].nwords \in Nat
         /\ Mine[k] = <<Header((k - 1) % EvidMod, Written[k].nwords)>> \o EdgesLeft(k - 1)
    /\ \A k \in 1..Len(Theirs) :
         /\ OtherEdges(k) \in Seq(Edges) /\ otherSizes[k] \in Nat
         /\ Theirs[k] = <<Header((k - 1) % EvidMod, otherSizes[k])>> \o OtherEdges(k)
    /\ \A k \in 1..Len(Union) :
         /\ k > Len(Theirs) => Union[k] = Mine[k]
         /\ k > Len(Mine) => Union[k] = Theirs[k]
         /\ k <= Len(Mine) /\ k <= Len(Theirs) =>
              Union[k] = <<Header((k - 1) % EvidMod, Written[k].nwords + otherSizes[k])>>
                           \o (EdgesLeft(k - 1) \o OtherEdges(k))

\* It follows from the types of what was recorded and chosen.
LEMMA FilesKnown ==
    ASSUME file \in Seq(WP!Packet), DamageOK, otherSizes \in Seq(Nat)
    PROVE  Files
  <1>1. Len(otherSizes) \in Nat /\ \A k \in 1..Len(otherSizes) : otherSizes[k] \in Nat
    OBVIOUS
  <1>2. /\ Mine \in Seq(Seq(Words)) /\ Len(Mine) = EventsToClean
        /\ \A k \in 1..EventsToClean :
             /\ EdgesLeft(k - 1) \in Seq(Edges) /\ Written[k].nwords \in Nat
             /\ Mine[k] = <<Header((k - 1) % EvidMod, Written[k].nwords)>> \o EdgesLeft(k - 1)
    BY MineEvents
  <1>3. /\ Theirs \in Seq(Seq(Words)) /\ Len(Theirs) = Len(otherSizes)
        /\ \A k \in 1..Len(otherSizes) :
             /\ OtherEdges(k) \in Seq(Edges)
             /\ Theirs[k] = <<Header((k - 1) % EvidMod, otherSizes[k])>> \o OtherEdges(k)
    BY TheirEvents
  <1>4. Len(Mine) \in Nat /\ Len(Theirs) \in Nat
    <2>1. Mine \in Seq(Seq(Words)) /\ Theirs \in Seq(Seq(Words))
      BY ONLY <1>2, <1>3
    <2> QED BY ONLY <2>1, LenProperties
  <1>5. /\ Union \in Seq(Seq(Words))
        /\ Len(Union) = IF Len(Mine) <= Len(Theirs) THEN Len(Theirs) ELSE Len(Mine)
        /\ \A k \in 1..Len(Union) :
             /\ k > Len(Theirs) => Union[k] = Mine[k]
             /\ k > Len(Mine) => Union[k] = Theirs[k]
             /\ k <= Len(Mine) /\ k <= Len(Theirs) =>
                  Union[k] = <<Header((k - 1) % EvidMod, Written[k].nwords + otherSizes[k])>>
                               \o (EdgesLeft(k - 1) \o OtherEdges(k))
    BY UnionEvents
  <1> QED BY ONLY <1>1, <1>2, <1>3, <1>4, <1>5 DEF Files

\* The words in hand, if both files have words left.
LEMMA WordsInHand ==
    ASSUME Files, NEW k, NEW r, NEW o, MergePlace(k, r, o), rest # <<>>, other # <<>>
    PROVE  /\ r # <<>> => IsEdge(Head(rest)) /\ Head(rest) = Head(r)
                          /\ Tail(rest) = Tail(r) \o From(Mine, k) /\ Tail(r) \in Seq(Edges)
           /\ r = <<>> => /\ k + 1 \in 1..Len(Mine)
                          /\ Head(rest) = Header(k % EvidMod, Written[k + 1].nwords)
                          /\ Tail(rest) = EdgesLeft(k) \o From(Mine, k + 1)
           /\ o # <<>> => IsEdge(Head(other)) /\ Head(other) = Head(o)
                          /\ Tail(other) = Tail(o) \o From(Theirs, k) /\ Tail(o) \in Seq(Edges)
           /\ o = <<>> => /\ k + 1 \in 1..Len(Theirs)
                          /\ Head(other) = Header(k % EvidMod, otherSizes[k + 1])
                          /\ Tail(other) = OtherEdges(k + 1) \o From(Theirs, k + 1)
  <1>1. /\ Mine \in Seq(Seq(Words)) /\ Theirs \in Seq(Seq(Words))
        /\ Len(Mine) \in Nat /\ Len(Theirs) \in Nat
        /\ k \in 0 .. Len(Mine) /\ k \in 0 .. Len(Theirs)
        /\ r \in Seq(Edges) /\ rest = r \o From(Mine, k)
        /\ o \in Seq(Edges) /\ other = o \o From(Theirs, k)
    BY DEF Files, MergePlace
  <1>2. /\ From(Mine, k) \in Seq(Words) /\ From(Theirs, k) \in Seq(Words)
        /\ r \in Seq(Words) /\ o \in Seq(Words)
    <2>1. r \in Seq(Words) /\ o \in Seq(Words)
      BY <1>1 DEF Words
    <2>2. From(Mine, k) \in Seq(Words) /\ From(Theirs, k) \in Seq(Words)
      BY <1>1, UpToFrom
    <2> QED BY ONLY <2>1, <2>2
  <1>3. ASSUME r # <<>>
        PROVE  /\ IsEdge(Head(rest)) /\ Head(rest) = Head(r)
               /\ Tail(rest) = Tail(r) \o From(Mine, k) /\ Tail(r) \in Seq(Edges)
    <2>1. Head(r) \in Edges /\ Tail(r) \in Seq(Edges)
      BY ONLY <1>1, <1>3, HeadTailProperties
    <2>2. IsEdge(Head(r))
      BY <2>1 DEF Edges, IsEdge
    <2> DEFINE y == From(Mine, k)
    <2>3. r \in Seq(Words) /\ r # <<>> /\ y \in Seq(Words) /\ rest = r \o y
      BY <1>1, <1>2, <1>3
    <2> HIDE DEF y
    <2>4. Head(r \o y) = Head(r) /\ Tail(r \o y) = Tail(r) \o y
      BY ONLY <2>3, FirstOfConcat
    <2> QED BY <2>1, <2>2, <2>3, <2>4 DEF y
  <1>4. ASSUME o # <<>>
        PROVE  /\ IsEdge(Head(other)) /\ Head(other) = Head(o)
               /\ Tail(other) = Tail(o) \o From(Theirs, k) /\ Tail(o) \in Seq(Edges)
    <2>1. Head(o) \in Edges /\ Tail(o) \in Seq(Edges)
      BY ONLY <1>1, <1>4, HeadTailProperties
    <2>2. IsEdge(Head(o))
      BY <2>1 DEF Edges, IsEdge
    <2> DEFINE y == From(Theirs, k)
    <2>3. o \in Seq(Words) /\ o # <<>> /\ y \in Seq(Words) /\ other = o \o y
      BY <1>1, <1>2, <1>4
    <2> HIDE DEF y
    <2>4. Head(o \o y) = Head(o) /\ Tail(o \o y) = Tail(o) \o y
      BY ONLY <2>3, FirstOfConcat
    <2> QED BY <2>1, <2>2, <2>3, <2>4 DEF y
  <1>5. ASSUME r = <<>>
        PROVE  /\ k + 1 \in 1..Len(Mine)
               /\ Head(rest) = Header(k % EvidMod, Written[k + 1].nwords)
               /\ Tail(rest) = EdgesLeft(k) \o From(Mine, k + 1)
    <2> DEFINE y == From(Mine, k)
    <2>1. rest = y
      <3>1. y \in Seq(Words) /\ rest = <<>> \o y
        BY <1>1, <1>2, <1>5
      <3> HIDE DEF y
      <3> QED BY ONLY <3>1, ConcatEmptySeq
    <2>2. k # Len(Mine)
      <3> SUFFICES ASSUME k = Len(Mine) PROVE FALSE
        OBVIOUS
      <3>1. From(Mine, Len(Mine)) = <<>>
        BY ONLY <1>1, FromStep
      <3> QED BY <2>1, <3>1
    <2>3. k + 1 \in 1..Len(Mine) /\ k \in 0 .. Len(Mine) - 1 /\ (k + 1) - 1 = k
          /\ k + 1 \in Nat \ {0}
      BY ONLY <1>1, <2>2
    <2> DEFINE w == Header(k % EvidMod, Written[k + 1].nwords)
               x == EdgesLeft(k)
    <2>4. /\ EdgesLeft((k + 1) - 1) \in Seq(Edges) /\ Written[k + 1].nwords \in Nat
          /\ Mine[k + 1] = <<Header(((k + 1) - 1) % EvidMod, Written[k + 1].nwords)>>
                             \o EdgesLeft((k + 1) - 1)
      BY <2>3 DEF Files
    <2>5. x \in Seq(Edges) /\ Written[k + 1].nwords \in Nat /\ Mine[k + 1] = <<w>> \o x
      BY ONLY <2>3, <2>4
    <2>6. w \in Words
      BY <2>3, <2>5, HeaderWord
    <2>7. x \in Seq(Words)
      BY <2>5 DEF Words
    <2> HIDE DEF w, x
    <2>8. Head(From(Mine, k)) = w /\ Tail(From(Mine, k)) = x \o From(Mine, k + 1)
      BY <1>1, <2>3, <2>5, <2>6, <2>7, EventBegins
    <2> QED BY <2>1, <2>3, <2>8 DEF w, x
  <1>6. ASSUME o = <<>>
        PROVE  /\ k + 1 \in 1..Len(Theirs)
               /\ Head(other) = Header(k % EvidMod, otherSizes[k + 1])
               /\ Tail(other) = OtherEdges(k + 1) \o From(Theirs, k + 1)
    <2> DEFINE y == From(Theirs, k)
    <2>1. other = y
      <3>1. y \in Seq(Words) /\ other = <<>> \o y
        BY <1>1, <1>2, <1>6
      <3> HIDE DEF y
      <3> QED BY ONLY <3>1, ConcatEmptySeq
    <2>2. k # Len(Theirs)
      <3> SUFFICES ASSUME k = Len(Theirs) PROVE FALSE
        OBVIOUS
      <3>1. From(Theirs, Len(Theirs)) = <<>>
        BY ONLY <1>1, FromStep
      <3> QED BY <2>1, <3>1
    <2>3. k + 1 \in 1..Len(Theirs) /\ k \in 0 .. Len(Theirs) - 1 /\ (k + 1) - 1 = k
          /\ k + 1 \in Nat \ {0}
      BY ONLY <1>1, <2>2
    <2> DEFINE w == Header(k % EvidMod, otherSizes[k + 1])
               x == OtherEdges(k + 1)
    <2>4. /\ OtherEdges(k + 1) \in Seq(Edges) /\ otherSizes[k + 1] \in Nat
          /\ Theirs[k + 1] = <<Header(((k + 1) - 1) % EvidMod, otherSizes[k + 1])>>
                               \o OtherEdges(k + 1)
      BY <2>3 DEF Files
    <2>5. x \in Seq(Edges) /\ otherSizes[k + 1] \in Nat /\ Theirs[k + 1] = <<w>> \o x
      BY ONLY <2>3, <2>4
    <2>6. w \in Words
      BY <2>3, <2>5, HeaderWord
    <2>7. x \in Seq(Words)
      BY <2>5 DEF Words
    <2> HIDE DEF w, x
    <2>8. Head(From(Theirs, k)) = w /\ Tail(From(Theirs, k)) = x \o From(Theirs, k + 1)
      BY <1>1, <2>3, <2>5, <2>6, <2>7, EventBegins
    <2> QED BY <2>1, <2>3, <2>8 DEF w, x
  <1> QED BY ONLY <1>3, <1>4, <1>5, <1>6

\* One turn of the loop leads from a place of the merge to the next one.
LEMMA TurnMerges ==
    ASSUME Files, NEW k, NEW r, NEW o, MergePlace(k, r, o), MergeWords,
           Mine' = Mine, Theirs' = Theirs, Union' = Union
    PROVE  \E j, p, q : MergePlace(j, p, q)'
  <1> DEFINE w == Head(rest)
             v == Head(other)
  <1>1. rest # <<>> /\ other # <<>>
        /\ (MergeHeaders(w, v) \/ CopyFirst(w, v) \/ CopySecond(w, v))
    BY DEF MergeWords
  <1>2. /\ r # <<>> => IsEdge(w) /\ w = Head(r)
                       /\ Tail(rest) = Tail(r) \o From(Mine, k) /\ Tail(r) \in Seq(Edges)
        /\ r = <<>> => /\ k + 1 \in 1..Len(Mine)
                       /\ w = Header(k % EvidMod, Written[k + 1].nwords)
                       /\ Tail(rest) = EdgesLeft(k) \o From(Mine, k + 1)
        /\ o # <<>> => IsEdge(v) /\ v = Head(o)
                       /\ Tail(other) = Tail(o) \o From(Theirs, k) /\ Tail(o) \in Seq(Edges)
        /\ o = <<>> => /\ k + 1 \in 1..Len(Theirs)
                       /\ v = Header(k % EvidMod, otherSizes[k + 1])
                       /\ Tail(other) = OtherEdges(k + 1) \o From(Theirs, k + 1)
    BY <1>1, WordsInHand
  <1>3. /\ k \in 0 .. Len(Mine) /\ k \in 0 .. Len(Theirs)
        /\ r \in Seq(Edges) /\ rest = r \o From(Mine, k)
        /\ o \in Seq(Edges) /\ other = o \o From(Theirs, k)
        /\ merged \in Seq(Words) /\ merged \o (r \o o) = UpTo(Union, k)
    BY DEF MergePlace
  <1>4. r \in Seq(Words) /\ o \in Seq(Words)
    BY <1>3 DEF Words
  <1>5. \A e, c : ~IsEdge(Header(e, c)) /\ IsHeader(Header(e, c))
    BY DEF IsEdge, IsHeader, Header
  <1>6. \A x : IsEdge(x) => ~IsHeader(x)
    BY DEF IsEdge, IsHeader
  <1> HIDE DEF w, v
  <1>7. CASE r # <<>>
    <2>1. IsEdge(w) /\ w = Head(r) /\ Tail(rest) = Tail(r) \o From(Mine, k)
          /\ Tail(r) \in Seq(Edges)
      BY ONLY <1>2, <1>7
    <2>2. CopyFirst(w, v)
      BY <1>1, <1>6, <2>1 DEF MergeHeaders, SameEvent, CopySecond
    <2>3. merged' = Append(merged, Head(r)) /\ rest' = Tail(r) \o From(Mine, k) /\ other' = other
      BY <2>1, <2>2 DEF CopyFirst
    <2>4. merged \in Seq(Words) /\ r \in Seq(Words) /\ r # <<>> /\ o \in Seq(Words)
      BY ONLY <1>3, <1>4, <1>7
    <2>5. /\ Append(merged, Head(r)) \in Seq(Words)
          /\ Append(merged, Head(r)) \o (Tail(r) \o o) = merged \o (r \o o)
      BY ONLY <2>4, MoveWord
    <2>6. MergePlace(k, Tail(r), o)'
      BY <1>3, <2>1, <2>3, <2>5 DEF MergePlace
    <2> QED BY <2>6
  <1>8. CASE r = <<>> /\ o # <<>>
    <2>1. IsEdge(v) /\ v = Head(o) /\ Tail(other) = Tail(o) \o From(Theirs, k)
          /\ Tail(o) \in Seq(Edges)
      BY ONLY <1>2, <1>8
    <2>2. ~IsEdge(w)
      BY <1>2, <1>5, <1>8
    <2>3. CopySecond(w, v)
      BY <1>1, <1>6, <2>1, <2>2 DEF MergeHeaders, SameEvent, CopyFirst
    <2>4. merged' = Append(merged, Head(o)) /\ other' = Tail(o) \o From(Theirs, k) /\ rest' = rest
      BY <2>1, <2>3 DEF CopySecond
    <2>5. merged \in Seq(Words) /\ o \in Seq(Words) /\ o # <<>> /\ <<>> \in Seq(Words)
      BY <1>3, <1>4, <1>8, EmptySeq
    <2>6. /\ Append(merged, Head(o)) \in Seq(Words)
          /\ Append(merged, Head(o)) \o (Tail(o) \o <<>>) = merged \o (o \o <<>>)
      BY ONLY <2>5, MoveWord
    <2>7. o \o <<>> = <<>> \o o
      BY ONLY <2>5, ConcatEmptySeq
    <2>8. Tail(o) \o <<>> = <<>> \o Tail(o)
      BY ONLY <2>1, ConcatEmptySeq
    <2>9. Append(merged, Head(o)) \o (r \o Tail(o)) = UpTo(Union, k)
      BY ONLY <1>3, <1>8, <2>6, <2>7, <2>8
    <2>10. MergePlace(k, r, Tail(o))'
      BY <1>3, <2>1, <2>4, <2>6, <2>9 DEF MergePlace
    <2> QED BY <2>10
  <1>9. CASE r = <<>> /\ o = <<>>
    <2> DEFINE a == Written[k + 1].nwords
               b == otherSizes[k + 1]
               h == Header(k % EvidMod, a + b)
               x == EdgesLeft(k)
               y == OtherEdges(k + 1)
    <2>1. /\ k + 1 \in 1..Len(Mine) /\ w = Header(k % EvidMod, a)
          /\ Tail(rest) = x \o From(Mine, k + 1)
          /\ k + 1 \in 1..Len(Theirs) /\ v = Header(k % EvidMod, b)
          /\ Tail(other) = y \o From(Theirs, k + 1)
      BY ONLY <1>2, <1>9
    <2>2. w.evid = k % EvidMod /\ w.count = a /\ v.count = b
      BY <2>1 DEF Header
    <2>3. ~IsEdge(w) /\ ~IsEdge(v)
      BY ONLY <1>5, <2>1
    <2>4. MergeHeaders(w, v)
      BY <1>1, <2>3 DEF CopyFirst, CopySecond
    <2>5. merged' = Append(merged, h) /\ rest' = Tail(rest) /\ other' = Tail(other)
      BY <2>2, <2>4 DEF MergeHeaders
    <2>6. Len(Mine) \in Nat /\ Len(Theirs) \in Nat /\ Union \in Seq(Seq(Words))
          /\ Len(Union) = IF Len(Mine) <= Len(Theirs) THEN Len(Theirs) ELSE Len(Mine)
      BY DEF Files
    <2>7. /\ k + 1 \in 1..Len(Union) /\ k + 1 <= Len(Mine) /\ k + 1 <= Len(Theirs)
          /\ (k + 1) - 1 = k /\ k + 1 \in Nat \ {0} /\ k + 1 \in 0..Len(Mine)
          /\ k + 1 \in 0..Len(Theirs)
      BY ONLY <1>3, <2>1, <2>6
    <2>8. x \in Seq(Edges) /\ a \in Nat
      <3>1. EdgesLeft((k + 1) - 1) \in Seq(Edges) /\ Written[k + 1].nwords \in Nat
        BY <2>1 DEF Files
      <3> QED BY ONLY <2>7, <3>1
    <2>9. y \in Seq(Edges) /\ b \in Nat
      BY <2>1 DEF Files
    <2>10. Union[k + 1] = <<h>> \o (x \o y)
      <3>1. Union[k + 1] = <<Header(((k + 1) - 1) % EvidMod, a + b)>>
                             \o (EdgesLeft((k + 1) - 1) \o OtherEdges(k + 1))
        BY <2>7 DEF Files
      <3> QED BY ONLY <2>7, <3>1
    <2>11. h \in Words
      <3>1. a + b \in Nat
        BY ONLY <2>8, <2>9
      <3> HIDE DEF a, b
      <3>2. Header(((k + 1) - 1) % EvidMod, a + b) \in Words
        BY <2>7, <3>1, HeaderWord
      <3> QED BY ONLY <2>7, <3>2
    <2> HIDE DEF a, b, h, x, y
    <2>12. x \o y \in Seq(Words)
      <3>1. x \in Seq(Words) /\ y \in Seq(Words)
        BY <2>8, <2>9 DEF Words
      <3> QED BY ONLY <3>1, ConcatProperties
    <2>13. Append(UpTo(Union, (k + 1) - 1), h) \o (x \o y) = UpTo(Union, k + 1)
      <3> DEFINE j == k + 1
                 z == x \o y
      <3>1. Union \in Seq(Seq(Words)) /\ j \in 1..Len(Union) /\ h \in Words /\ z \in Seq(Words)
            /\ Union[j] = <<h>> \o z
        BY <2>6, <2>7, <2>10, <2>11, <2>12
      <3> HIDE DEF j, z
      <3>2. Append(UpTo(Union, j - 1), h) \o z = UpTo(Union, j)
        BY ONLY <3>1, BeginEvent
      <3> QED BY <3>2 DEF j, z
    <2>14. merged = UpTo(Union, k)
      <3>1. <<>> \o <<>> = <<>> /\ merged \o <<>> = merged
        BY <1>3, ConcatEmptySeq, EmptySeq
      <3> QED BY ONLY <1>3, <1>9, <3>1
    <2>15. merged' \o (x \o y) = UpTo(Union, k + 1)
      BY ONLY <2>5, <2>7, <2>13, <2>14
    <2>16. merged' \in Seq(Words)
      BY <1>3, <2>5, <2>11, AppendProperties
    <2>17. PICK j, p, q : j = k + 1 /\ p = x /\ q = y
      OBVIOUS
    <2>18. /\ j \in 0 .. Len(Mine) /\ j \in 0 .. Len(Theirs)
           /\ p \in Seq(Edges) /\ rest' = p \o From(Mine, j)
           /\ q \in Seq(Edges) /\ other' = q \o From(Theirs, j)
           /\ merged' \in Seq(Words) /\ merged' \o (p \o q) = UpTo(Union, j)
      BY ONLY <2>1, <2>5, <2>7, <2>8, <2>9, <2>15, <2>16, <2>17
    <2>19. MergePlace(j, p, q)'
      BY <2>18 DEF MergePlace
    <2> QED BY <2>19
  <1> QED BY ONLY <1>7, <1>8, <1>9

\* At no place of the merge are the two words in hand headers of different events.
LEMMA NeverMismatch ==
    ASSUME Files, NEW k, NEW r, NEW o, MergePlace(k, r, o)
    PROVE  ~Mismatch
  <1> SUFFICES ASSUME Mismatch PROVE FALSE
    OBVIOUS
  <1>1. /\ rest # <<>> /\ other # <<>> /\ ~SameEvent(Head(rest), Head(other))
        /\ ~IsEdge(Head(rest)) /\ ~IsEdge(Head(other))
    BY DEF Mismatch
  <1>2. /\ r # <<>> => IsEdge(Head(rest))
        /\ r = <<>> => Head(rest) = Header(k % EvidMod, Written[k + 1].nwords)
        /\ o # <<>> => IsEdge(Head(other))
        /\ o = <<>> => Head(other) = Header(k % EvidMod, otherSizes[k + 1])
    BY <1>1, WordsInHand
  <1>3. /\ Head(rest) = Header(k % EvidMod, Written[k + 1].nwords)
        /\ Head(other) = Header(k % EvidMod, otherSizes[k + 1])
    BY ONLY <1>1, <1>2
  <1>4. SameEvent(Head(rest), Head(other))
    BY <1>3 DEF SameEvent, IsHeader, Header
  <1> QED BY <1>1, <1>4

\* When one file is at its end, the rest of the other one completes the union.
LEMMA TailCompletes ==
    ASSUME Files, NEW k, NEW r, NEW o, MergePlace(k, r, o), rest = <<>> \/ other = <<>>
    PROVE  merged \o rest \o other = FlattenSeq(Union)
  <1>1. /\ k \in 0 .. Len(Mine) /\ k \in 0 .. Len(Theirs)
        /\ r \in Seq(Edges) /\ rest = r \o From(Mine, k)
        /\ o \in Seq(Edges) /\ other = o \o From(Theirs, k)
        /\ merged \in Seq(Words) /\ merged \o (r \o o) = UpTo(Union, k)
    BY DEF MergePlace
  <1>2. r \in Seq(Words) /\ o \in Seq(Words)
    BY <1>1 DEF Words
  <1>3. /\ Mine \in Seq(Seq(Words)) /\ Theirs \in Seq(Seq(Words)) /\ Union \in Seq(Seq(Words))
        /\ Len(Mine) \in Nat /\ Len(Theirs) \in Nat
        /\ Len(Union) = IF Len(Mine) <= Len(Theirs) THEN Len(Theirs) ELSE Len(Mine)
    BY DEF Files
  <1>4. From(Mine, k) \in Seq(Words) /\ From(Theirs, k) \in Seq(Words)
    BY <1>1, <1>3, UpToFrom
  <1>5. rest \in Seq(Words) /\ other \in Seq(Words)
    <2>1. r \o From(Mine, k) \in Seq(Words)
      BY ONLY <1>2, <1>4, ConcatProperties
    <2>2. o \o From(Theirs, k) \in Seq(Words)
      BY ONLY <1>2, <1>4, ConcatProperties
    <2> QED BY ONLY <1>1, <2>1, <2>2
  <1>6. CASE rest = <<>>
    <2>1. r = <<>> /\ From(Mine, k) = <<>>
      <3> DEFINE y == From(Mine, k)
      <3>1. r \in Seq(Words) /\ y \in Seq(Words) /\ r \o y = <<>>
        BY ONLY <1>1, <1>2, <1>4, <1>6
      <3> HIDE DEF y
      <3>2. r = <<>> /\ y = <<>>
        BY ONLY <3>1, ConcatEqualIffEmpty
      <3> QED BY <3>2 DEF y
    <2>2. k = Len(Mine)
      <3> SUFFICES ASSUME k # Len(Mine) PROVE FALSE
        OBVIOUS
      <3>1. k + 1 \in 1..Len(Mine) /\ (k + 1) - 1 = k /\ k + 1 \in Nat \ {0}
            /\ k \in 0 .. Len(Mine) - 1
        BY ONLY <1>1, <1>3, k # Len(Mine)
      <3> DEFINE w == Header(k % EvidMod, Written[k + 1].nwords)
                 x == EdgesLeft(k)
      <3>2. /\ EdgesLeft((k + 1) - 1) \in Seq(Edges) /\ Written[k + 1].nwords \in Nat
            /\ Mine[k + 1] = <<Header(((k + 1) - 1) % EvidMod, Written[k + 1].nwords)>>
                               \o EdgesLeft((k + 1) - 1)
        BY <3>1 DEF Files
      <3>3. x \in Seq(Edges) /\ Written[k + 1].nwords \in Nat /\ Mine[k + 1] = <<w>> \o x
        BY ONLY <3>1, <3>2
      <3>4. w \in Words
        BY <3>1, <3>3, HeaderWord
      <3>5. x \in Seq(Words)
        BY <3>3 DEF Words
      <3> HIDE DEF w, x
      <3>6. From(Mine, k) # <<>>
        BY <1>3, <3>1, <3>3, <3>4, <3>5, EventBegins
      <3> QED BY <2>1, <3>6
    <2>3. From(Union, k) = From(Theirs, k)
      <3>1. Len(Union) = Len(Theirs) /\ k \in 0 .. Len(Union)
            /\ \A i \in k + 1 .. Len(Union) : i \in 1..Len(Union) /\ i > Len(Mine)
        BY ONLY <1>1, <1>3, <2>2
      <3>2. \A i \in k + 1 .. Len(Union) : Union[i] = Theirs[i]
        BY <3>1 DEF Files
      <3> QED BY ONLY <1>3, <3>1, <3>2, FromSame
    <2>4. merged \o o = UpTo(Union, k)
      <3>1. <<>> \o o = o
        BY ONLY <1>2, ConcatEmptySeq
      <3> QED BY ONLY <1>1, <2>1, <3>1
    <2>5. merged \o (o \o From(Union, k)) = FlattenSeq(Union)
      <3>1. Union \in Seq(Seq(Words)) /\ k \in 0 .. Len(Union) /\ merged \in Seq(Words)
            /\ o \in Seq(Words) /\ merged \o o = UpTo(Union, k)
        <4>1. k \in 0 .. Len(Union)
          BY ONLY <1>1, <1>3
        <4> QED BY ONLY <1>1, <1>2, <1>3, <2>4, <4>1
      <3> QED BY ONLY <3>1, AddTail
    <2>6. merged \o rest = merged
      BY <1>1, <1>6, ConcatEmptySeq
    <2> QED BY ONLY <1>1, <2>3, <2>5, <2>6
  <1>7. CASE other = <<>>
    <2>1. o = <<>> /\ From(Theirs, k) = <<>>
      <3> DEFINE y == From(Theirs, k)
      <3>1. o \in Seq(Words) /\ y \in Seq(Words) /\ o \o y = <<>>
        BY ONLY <1>1, <1>2, <1>4, <1>7
      <3> HIDE DEF y
      <3>2. o = <<>> /\ y = <<>>
        BY ONLY <3>1, ConcatEqualIffEmpty
      <3> QED BY <3>2 DEF y
    <2>2. k = Len(Theirs)
      <3> SUFFICES ASSUME k # Len(Theirs) PROVE FALSE
        OBVIOUS
      <3>1. k + 1 \in 1..Len(Theirs) /\ (k + 1) - 1 = k /\ k + 1 \in Nat \ {0}
            /\ k \in 0 .. Len(Theirs) - 1
        BY ONLY <1>1, <1>3, k # Len(Theirs)
      <3> DEFINE w == Header(k % EvidMod, otherSizes[k + 1])
                 x == OtherEdges(k + 1)
      <3>2. /\ OtherEdges(k + 1) \in Seq(Edges) /\ otherSizes[k + 1] \in Nat
            /\ Theirs[k + 1] = <<Header(((k + 1) - 1) % EvidMod, otherSizes[k + 1])>>
                                 \o OtherEdges(k + 1)
        BY <3>1 DEF Files
      <3>3. x \in Seq(Edges) /\ otherSizes[k + 1] \in Nat /\ Theirs[k + 1] = <<w>> \o x
        BY ONLY <3>1, <3>2
      <3>4. w \in Words
        BY <3>1, <3>3, HeaderWord
      <3>5. x \in Seq(Words)
        BY <3>3 DEF Words
      <3> HIDE DEF w, x
      <3>6. From(Theirs, k) # <<>>
        BY <1>3, <3>1, <3>3, <3>4, <3>5, EventBegins
      <3> QED BY <2>1, <3>6
    <2>3. From(Union, k) = From(Mine, k)
      <3>1. Len(Union) = Len(Mine) /\ k \in 0 .. Len(Union)
            /\ \A i \in k + 1 .. Len(Union) : i \in 1..Len(Union) /\ i > Len(Theirs)
        BY ONLY <1>1, <1>3, <2>2
      <3>2. \A i \in k + 1 .. Len(Union) : Union[i] = Mine[i]
        BY <3>1 DEF Files
      <3> QED BY ONLY <1>3, <3>1, <3>2, FromSame
    <2>4. merged \o r = UpTo(Union, k)
      <3>1. r \o <<>> = r
        BY ONLY <1>2, ConcatEmptySeq
      <3> QED BY ONLY <1>1, <2>1, <3>1
    <2>5. merged \o (r \o From(Union, k)) = FlattenSeq(Union)
      <3>1. Union \in Seq(Seq(Words)) /\ k \in 0 .. Len(Union) /\ merged \in Seq(Words)
            /\ r \in Seq(Words) /\ merged \o r = UpTo(Union, k)
        <4>1. k \in 0 .. Len(Union)
          BY ONLY <1>1, <1>3
        <4> QED BY ONLY <1>1, <1>2, <1>3, <2>4, <4>1
      <3> QED BY ONLY <3>1, AddTail
    <2>6. (merged \o rest) \o <<>> = merged \o rest
      <3>1. merged \o rest \in Seq(Words)
        BY ONLY <1>1, <1>5, ConcatProperties
      <3> QED BY ONLY <3>1, ConcatEmptySeq
    <2> QED BY ONLY <1>1, <1>7, <2>3, <2>5, <2>6
  <1> QED BY <1>6, <1>7

\* The merge starts in front of both files.
StartsInFront ==
    rest = WordsToClean /\ other = OtherWords(otherSizes) /\ merged = <<>> =>
      MergePlace(0, <<>>, <<>>)

\* There no event is merged.
LEMMA MergeStarts ==
    ASSUME Files
    PROVE  StartsInFront
  <1> SUFFICES ASSUME rest = WordsToClean, other = OtherWords(otherSizes), merged = <<>>
               PROVE  MergePlace(0, <<>>, <<>>)
    BY DEF StartsInFront
  <1>1. /\ Mine \in Seq(Seq(Words)) /\ Theirs \in Seq(Seq(Words)) /\ Union \in Seq(Seq(Words))
        /\ Len(Mine) \in Nat /\ Len(Theirs) \in Nat
    BY DEF Files
  <1>2. rest = From(Mine, 0) /\ other = From(Theirs, 0)
        /\ From(Mine, 0) \in Seq(Words) /\ From(Theirs, 0) \in Seq(Words)
    <2>1. 0 \in 0 .. Len(Mine) /\ 0 \in 0 .. Len(Theirs)
      BY ONLY <1>1
    <2>2. From(Mine, 0) = FlattenSeq(Mine) /\ From(Mine, 0) \in Seq(Words)
      BY ONLY <1>1, <2>1, FromStep
    <2>3. From(Theirs, 0) = FlattenSeq(Theirs) /\ From(Theirs, 0) \in Seq(Words)
      BY ONLY <1>1, <2>1, FromStep
    <2> QED BY <2>2, <2>3, FilesAreEvents
  <1>3. UpTo(Union, 0) = <<>>
    BY ONLY <1>1, UpToStep
  <1>4. \A S : <<>> \in Seq(S)
    OBVIOUS
  <1>5. <<>> \o From(Mine, 0) = From(Mine, 0)
    BY ONLY <1>2, ConcatEmptySeq
  <1>6. <<>> \o From(Theirs, 0) = From(Theirs, 0)
    BY ONLY <1>2, ConcatEmptySeq
  <1>7. <<>> \o <<>> = <<>>
    BY ONLY <1>4, ConcatEmptySeq
  <1>8. 0 \in 0 .. Len(Mine) /\ 0 \in 0 .. Len(Theirs)
    BY ONLY <1>1
  <1> QED
    BY ONLY <1>2, <1>3, <1>4, <1>5, <1>6, <1>7, <1>8, merged = <<>> DEF MergePlace

\* Known in every state, from the types alone.
Known ==
    DamageOK /\ otherSizes \in Seq(Nat) => Files /\ StartsInFront

\* The types never change.
LEMMA AlwaysKnown == Spec => []Known
  <1>1. file \in Seq(WP!Packet) => Known
    BY FilesKnown, MergeStarts DEF Known
  <1> QED BY <1>1, FileTyped, PTL

\* Each program starts after the one before it, and the merge is in order.
IInv == InOrder /\ MergeExact /\ MergeInv

\* Cleaning goes on only between its start and its end.
LEMMA CleanKeepsOrder ==
    ASSUME CleanNext
    PROVE  cleaning = "on" /\ cleaning' # "off"
  <1>1. CASE CopyWord
    BY <1>1 DEF CopyWord, InHand
  <1>2. CASE SkipError
    BY <1>2 DEF SkipError, InHand
  <1>3. CASE CopyEmptyOne
    BY <1>3 DEF CopyEmptyOne, InHand
  <1>4. CASE SkipMetadata
    BY <1>4 DEF SkipMetadata, InHand
  <1>5. CASE StopCleaning
    BY <1>5 DEF StopCleaning, InHand
  <1>6. CASE StopAtEnd
    BY <1>6 DEF StopAtEnd, InHand
  <1>7. CASE LoseTheWay
    BY <1>7 DEF LoseTheWay, InHand
  <1>8. CASE FinishCleaning
    BY <1>8 DEF FinishCleaning
  <1> QED BY <1>1, <1>2, <1>3, <1>4, <1>5, <1>6, <1>7, <1>8 DEF CleanNext

\* MergeExact: whatever the events and however long the files, two cleaned files become the
\* union of their events, and the program never stops at a mismatch.
THEOREM MergesExactly == Spec => []MergeExact
  <1>1. Init => IInv
    BY DEF Init, CleanInit, IInv, InOrder, DamageOK, MergeExact, MergeInv
  <1>2. ASSUME Known, Known', IInv, [Next]_vars
        PROVE  IInv'
    <2>1. InOrder /\ MergeExact /\ MergeInv
      BY <1>2 DEF IInv
    <2>2. CASE Record
      <3>1. /\ cleaning = "off" /\ cleaning' = "off" /\ merging' = merging /\ merged' = merged
            /\ errorWord' = errorWord /\ gap' = gap
        BY <2>2 DEF Record, cleanVars, inputVars, mergeVars
      <3>2. merging = "off" /\ merged = <<>> /\ errorWord = None /\ gap = -1
        BY <2>1, <3>1 DEF InOrder
      <3>3. InOrder'
        BY <3>1, <3>2 DEF InOrder, DamageOK, None
      <3> QED BY <3>1, <3>2, <3>3 DEF IInv, MergeExact, MergeInv
    <2>3. CASE StartCleaning
      <3>1. /\ cleaning = "off" /\ cleaning' = "on" /\ merging' = merging /\ merged' = merged
            /\ file' = file
            /\ errorWord' \in {None} \cup WordsWritten /\ gap' \in {-1} \cup 1 .. Len(Written) - 1
        BY <2>3 DEF StartCleaning, OpenFile, writerVars, mergeVars
      <3>2. merging = "off" /\ merged = <<>>
        BY <2>1, <3>1 DEF InOrder
      <3>3. Written' = Written
        BY <3>1 DEF Written
      <3>4. WordsWritten' = WordsWritten
        BY <3>3 DEF WordsWritten
      <3>5. DamageOK'
        BY <3>1, <3>3, <3>4 DEF DamageOK, None
      <3>6. InOrder'
        BY <3>1, <3>2, <3>5 DEF InOrder
      <3> QED BY <3>1, <3>2, <3>6 DEF IInv, MergeExact, MergeInv
    <2>4. CASE Clean
      <3>1. /\ cleaning = "on" /\ cleaning' # "off" /\ merging' = merging /\ merged' = merged
            /\ UNCHANGED <<file, errorWord, gap>>
        BY <2>4, CleanKeepsOrder DEF Clean, writerVars, inputVars, mergeVars
      <3>2. merging = "off" /\ merged = <<>> /\ DamageOK
        BY <2>1, <3>1 DEF InOrder
      <3>3. DamageOK'
        BY <3>1, <3>2, FilesStay
      <3>4. InOrder'
        BY <3>1, <3>2, <3>3 DEF InOrder
      <3> QED BY <3>1, <3>2, <3>4 DEF IInv, MergeExact, MergeInv
    <2>5. CASE StartMerge
      <3>1. /\ cleaning \in {"finished", "stopped"} /\ cleaning' = cleaning
            /\ merging = "off" /\ merging' = "on" /\ merged' = merged /\ clean' = clean
            /\ UNCHANGED <<file, errorWord, gap>>
            /\ otherSizes' \in OtherFiles /\ other' = OtherWords(otherSizes') /\ rest' = clean
        BY <2>5 DEF StartMerge, writerVars, cleanVars, inputVars
      <3>2. merged = <<>> /\ DamageOK
        BY <2>1, <3>1 DEF InOrder
      <3>3. DamageOK'
        BY <3>1, <3>2, FilesStay
      <3>4. otherSizes' \in Seq(Nat)
        BY <3>1, OtherFilesAssumption DEF OtherFilesAssumption
      <3>5. InOrder'
        BY <3>1, <3>3, <3>4 DEF InOrder
      <3>6. StartsInFront'
        BY <1>2, <3>3, <3>4 DEF Known
      <3>7. ASSUME clean' = WordsToClean'
            PROVE  \E k, r, o : MergePlace(k, r, o)'
        <4>1. rest' = WordsToClean' /\ other' = OtherWords(otherSizes)' /\ merged' = <<>>
          BY <3>1, <3>2, <3>7
        <4>2. MergePlace(0, <<>>, <<>>)'
          BY <3>6, <4>1 DEF StartsInFront
        <4> QED BY <4>2
      <3>8. MergeInv'
        BY <3>7 DEF MergeInv
      <3> QED BY <3>1, <3>5, <3>8 DEF IInv, MergeExact
    <2>6. ASSUME merging = "on", UNCHANGED <<file, errorWord, gap, otherSizes, cleaning, clean>>,
                 merging' # "off", merging' \in {"on", "finished", "stopped"}
          PROVE  /\ InOrder' /\ Files
                 /\ Mine' = Mine /\ Theirs' = Theirs /\ Union' = Union
                 /\ (clean = WordsToClean) = (clean' = WordsToClean')
                 /\ UnionOfEvents(EventsToClean)' = UnionOfEvents(EventsToClean)
      <3>1. DamageOK /\ otherSizes \in Seq(Nat) /\ cleaning \in {"finished", "stopped"}
        BY <2>1, <2>6 DEF InOrder
      <3>2. /\ WordsToClean' = WordsToClean /\ Mine' = Mine /\ DamageOK'
            /\ Theirs' = Theirs /\ Union' = Union
            /\ UnionOfEvents(EventsToClean)' = UnionOfEvents(EventsToClean)
        BY <2>6, <3>1, FilesStay
      <3>3. Files
        BY <1>2, <3>1 DEF Known
      <3>4. InOrder'
        BY <2>6, <3>1, <3>2 DEF InOrder
      <3> QED BY <2>6, <3>2, <3>3, <3>4
    <2>7. CASE MergeWords
      <3>1. merging = "on" /\ merging' = "on"
            /\ UNCHANGED <<file, errorWord, gap, otherSizes, cleaning, clean>>
        BY <2>7 DEF MergeWords, writerVars, cleanVars, inputVars
      <3>2. /\ InOrder' /\ Files
            /\ Mine' = Mine /\ Theirs' = Theirs /\ Union' = Union
            /\ (clean = WordsToClean) = (clean' = WordsToClean')
        BY <2>6, <3>1
      <3>3. ASSUME clean' = WordsToClean'
            PROVE  \E k, r, o : MergePlace(k, r, o)'
        <4>1. PICK k, r, o : MergePlace(k, r, o)
          BY <2>1, <3>1, <3>2, <3>3 DEF MergeInv
        <4> QED BY <2>7, <3>2, <4>1, TurnMerges
      <3>4. MergeInv'
        BY <3>3 DEF MergeInv
      <3> QED BY <3>1, <3>2, <3>4 DEF IInv, MergeExact
    <2>8. CASE Mismatch
      <3>1. merging = "on" /\ merging' = "stopped"
            /\ UNCHANGED <<file, errorWord, gap, otherSizes, cleaning, clean>>
        BY <2>8 DEF Mismatch, writerVars, cleanVars, inputVars
      <3>2. InOrder' /\ Files /\ (clean = WordsToClean) = (clean' = WordsToClean')
        BY <2>6, <3>1
      <3>3. clean # WordsToClean
        <4> SUFFICES ASSUME clean = WordsToClean PROVE FALSE
          OBVIOUS
        <4>1. PICK k, r, o : MergePlace(k, r, o)
          BY <2>1, <3>1 DEF MergeInv
        <4> QED BY <2>8, <3>2, <4>1, NeverMismatch
      <3> QED BY <3>1, <3>2, <3>3 DEF IInv, MergeExact, MergeInv
    <2>9. CASE CopyTail
      <3>1. /\ merging = "on" /\ merging' = "finished" /\ (rest = <<>> \/ other = <<>>)
            /\ merged' = merged \o rest \o other
            /\ UNCHANGED <<file, errorWord, gap, otherSizes, cleaning, clean>>
        BY <2>9 DEF CopyTail, writerVars, cleanVars, inputVars
      <3>2. /\ InOrder' /\ Files /\ (clean = WordsToClean) = (clean' = WordsToClean')
            /\ UnionOfEvents(EventsToClean)' = UnionOfEvents(EventsToClean)
        BY <2>6, <3>1
      <3>3. ASSUME clean' = WordsToClean'
            PROVE  merged' = UnionOfEvents(EventsToClean)'
        <4>1. PICK k, r, o : MergePlace(k, r, o)
          BY <2>1, <3>1, <3>2, <3>3 DEF MergeInv
        <4>2. merged \o rest \o other = FlattenSeq(Union)
          BY <3>1, <3>2, <4>1, TailCompletes
        <4> QED BY <3>1, <3>2, <4>2, FilesAreEvents
      <3>4. MergeExact'
        BY <3>1, <3>3 DEF MergeExact
      <3> QED BY <3>1, <3>2, <3>4 DEF IInv, MergeInv
    <2>10. CASE UNCHANGED vars
      <3>1. UNCHANGED <<file, errorWord, gap, otherSizes, cleaning, clean, merging, merged, rest,
                        other>>
        BY <2>10 DEF vars, writerVars, cleanVars, inputVars, mergeVars
      <3>2. /\ WordsToClean' = WordsToClean /\ Mine' = Mine /\ (DamageOK => DamageOK')
            /\ Theirs' = Theirs /\ Union' = Union
            /\ UnionOfEvents(EventsToClean)' = UnionOfEvents(EventsToClean)
        BY <3>1, FilesStay
      <3>3. InOrder'
        BY <2>1, <3>1, <3>2 DEF InOrder
      <3>4. MergeExact'
        BY <2>1, <3>1, <3>2 DEF MergeExact
      <3>5. MergeInv'
        <4>1. ASSUME NEW k, NEW r, NEW o, MergePlace(k, r, o)
              PROVE  MergePlace(k, r, o)'
          BY <3>1, <3>2, <4>1 DEF MergePlace
        <4> QED BY <2>1, <3>1, <3>2, <4>1 DEF MergeInv
      <3> QED BY <3>3, <3>4, <3>5 DEF IInv
    <2> QED BY <1>2, <2>2, <2>3, <2>4, <2>5, <2>7, <2>8, <2>9, <2>10 DEF Next
  <1>3. IInv => MergeExact
    BY DEF IInv
  <1> QED BY <1>1, <1>2, <1>3, AlwaysKnown, PTL DEF Spec

--------------------------------------------------------------------------------
(* The packets of a data file, as long as DeleteMeta expects them. *)

\* Events that fit into a header as DeleteMeta expects it.
SmallEvents(events) == \A k \in 1..Len(events) : events[k].nwords < CountLimit

\* A packet is never empty, and longer than any event.
LikePacket(p) ==
    /\ p.events # <<>> /\ SmallEvents(p.events)
    /\ p.nDataWords + metadataSize > HighCount /\ p.nDataWords + metadataSize <= CountMod

PacketsInv ==
    /\ \A i \in 1..Len(file) : LikePacket(file[i])
    /\ SmallEvents(dataBuf)
    /\ dataBuf = <<>> => nDataWords = 0

\* One more small event.
LEMMA SmallAppend ==
    ASSUME NEW S, NEW s \in Seq(S), NEW e, SmallEvents(s), e.nwords < CountLimit
    PROVE  SmallEvents(Append(s, e)) /\ Append(s, e) # <<>> /\ SmallEvents(<<e>>)
  <1>1. SmallEvents(<<e>>)
    <2>1. Len(<<e>>) = 1 /\ <<e>>[1] = e
      OBVIOUS
    <2>2. \A k \in 1..Len(<<e>>) : k = 1
      BY <2>1
    <2> QED BY <2>1, <2>2 DEF SmallEvents
  <1> DEFINE T == S \cup {e}
  <1>2. s \in Seq(T) /\ e \in T
    OBVIOUS
  <1> HIDE DEF T
  <1> DEFINE t == Append(s, e)
  <1>3. /\ Len(t) = Len(s) + 1 /\ Len(s) \in Nat /\ t[Len(s) + 1] = e
        /\ \A k \in 1..Len(s) : t[k] = s[k]
    BY <1>2, AppendProperties
  <1>4. t # <<>>
    BY <1>2, AppendProperties
  <1> HIDE DEF t
  <1>5. ASSUME NEW k \in 1..Len(t) PROVE t[k].nwords < CountLimit
    <2>1. k = Len(s) + 1 \/ k \in 1..Len(s)
      BY <1>3
    <2>2. CASE k \in 1..Len(s)
      BY <1>3, <2>2 DEF SmallEvents
    <2>3. CASE k = Len(s) + 1
      BY <1>3, <2>3
    <2> QED BY <2>1, <2>2, <2>3
  <1>6. SmallEvents(t)
    BY <1>5 DEF SmallEvents
  <1> QED BY <1>1, <1>4, <1>6 DEF t

\* Every packet that the recording writes is like that.
LEMMA PacketsInductive == WP!Spec => []PacketsInv
  <1>1. WP!Init => PacketsInv
    BY DEF WP!Init, PacketsInv, SmallEvents
  <1>2. ASSUME WP!TypeOK, WP!PacketFits, PacketsInv, [WP!Next]_WP!vars
        PROVE  PacketsInv'
    <2>1. CASE WP!Start
      BY <2>1 DEF WP!Start, PacketsInv, SmallEvents
    <2>2. CASE WP!EndOfCollecting
      BY <1>2, <2>2 DEF WP!EndOfCollecting, WP!buf, PacketsInv, SmallEvents
    <2>3. CASE UNCHANGED WP!vars
      BY <1>2, <2>3 DEF WP!vars, WP!buf, WP!out, PacketsInv, SmallEvents
    <2>4. ASSUME NEW n \in Sizes, WP!EmitEvent(n)
          PROVE  PacketsInv'
      <3> DEFINE nwords == WP!Kept(n)
                 event == [evt |-> evtNumber, nwords |-> nwords]
      <3>1. /\ n \in Nat /\ n < CountLimit /\ CountMod - CountLimit > HighCount
            /\ CountMod \in Nat /\ CountLimit \in Nat /\ HighCount \in Nat /\ CountMod > 12
        BY SizesFit, FieldsAssumption DEF SizesFit, FieldsAssumption
      <3>2. nwords \in Nat /\ nwords < CountLimit /\ 12 + nwords <= CountMod
        BY <3>1 DEF WP!Kept
      <3>3. /\ dataBuf \in Seq(WP!EventRecord) /\ nDataWords \in Nat /\ file \in Seq(WP!Packet)
            /\ nDataWords + 11 <= CountMod
        BY <1>2, <3>1 DEF WP!TypeOK, WP!PacketFits, WP!HeaderWords
      <3>4. event.nwords < CountLimit
        BY <3>2
      <3>5. /\ SmallEvents(dataBuf) /\ (dataBuf = <<>> => nDataWords = 0)
            /\ \A i \in 1..Len(file) : LikePacket(file[i])
        BY <1>2 DEF PacketsInv
      <3>6. CASE UNCHANGED <<WP!buf, WP!out>>
        BY <3>5, <3>6 DEF WP!buf, WP!out, PacketsInv, SmallEvents
      <3>7. CASE ~WP!Full(nwords) /\ dataBuf' = Append(dataBuf, event) /\ UNCHANGED WP!out
        <4> HIDE DEF event
        <4>1. SmallEvents(Append(dataBuf, event)) /\ Append(dataBuf, event) # <<>>
          BY <3>3, <3>4, <3>5, SmallAppend
        <4>2. file' = file
          BY <3>7 DEF WP!out
        <4> QED BY <3>5, <3>7, <4>1, <4>2 DEF PacketsInv, SmallEvents
      <3>8. CASE WP!Full(nwords) /\ WP!Flush /\ dataBuf' = <<event>>
        <4> HIDE DEF event
        <4>1. SmallEvents(<<event>>) /\ <<event>> # <<>>
          BY <3>3, <3>4, <3>5, SmallAppend
        <4>2. SmallEvents(dataBuf)' /\ dataBuf' # <<>>
          BY <3>8, <4>1 DEF SmallEvents
        <4>3. \A i \in 1..Len(file') : LikePacket(file'[i])
          <5>1. CASE file' = file
            BY <3>5, <5>1
          <5>2. CASE file' = Append(file, WP!ThePacket)
            <6> DEFINE p == WP!ThePacket
            <6>1. p.events = dataBuf /\ p.nDataWords = nDataWords
              BY DEF WP!ThePacket
            <6>2. nDataWords + 12 + nwords > CountMod
              BY <3>8 DEF WP!Full
            <6> HIDE DEF p, nwords
            <6>3. nDataWords + 11 > HighCount /\ nDataWords # 0
              BY <3>1, <3>2, <3>3, <6>2
            <6>4. LikePacket(p)
              BY <3>3, <3>5, <6>1, <6>3 DEF LikePacket, metadataSize
            <6>5. Len(file') = Len(file) + 1 /\ Len(file) \in Nat /\ file'[Len(file) + 1] = p
                  /\ \A i \in 1..Len(file) : file'[i] = file[i]
              <7>1. file' = Append(file, p)
                BY <5>2 DEF p
              <7>2. Len(file) \in Nat
                BY <3>3
              <7> QED BY <7>1, <7>2, <3>3
            <6>6. ASSUME NEW i \in 1..Len(file') PROVE LikePacket(file'[i])
              <7>1. i = Len(file) + 1 \/ i \in 1..Len(file)
                BY <6>5
              <7> QED BY <3>5, <6>4, <6>5, <7>1
            <6> QED BY <6>6
          <5> QED BY <3>8, <5>1, <5>2 DEF WP!Flush
        <4>4. (\A i \in 1..Len(file) : LikePacket(file[i]))'
          BY <4>3
        <4> QED BY <4>2, <4>4 DEF PacketsInv
      <3> QED BY <2>4, <3>6, <3>7, <3>8 DEF WP!EmitEvent
    <2> QED BY <1>2, <2>1, <2>2, <2>3, <2>4 DEF WP!Next
  <1>3. WP!Spec => []WP!TypeOK
    BY WP!TypeCorrect, WriterAssumptions
  <1>4. WP!Spec => []WP!PacketFits
    BY WP!DataBufNeverOverflows, WriterAssumptions
  <1> QED BY <1>1, <1>2, <1>3, <1>4, PTL DEF WP!Spec

\* The data file, whenever it is read.
Recorded ==
    /\ file \in Seq(WP!Packet) /\ WP!FileInOrder
    /\ \A i \in 1..Len(file) : LikePacket(file[i])

\* In every state it is what PacketWriter promises.
LEMMA AlwaysRecorded == Spec => []Recorded
  <1>1. WP!TypeOK /\ WP!FileInOrder /\ PacketsInv => Recorded
    BY DEF WP!TypeOK, PacketsInv, Recorded
  <1>2. WP!Spec => []WP!TypeOK
    BY WP!TypeCorrect, WriterAssumptions
  <1>3. WP!Spec => []WP!FileInOrder
    BY WP!FileHasNoHole, WriterAssumptions
  <1> QED BY <1>1, <1>2, <1>3, PacketsInductive, RecordsAsWriter, PTL

--------------------------------------------------------------------------------
(* The layout of a data file: where the events are, and what is between them. *)

AllWords == Words \cup {[kind |-> "error"], Meta, runNumber}

\* Word i of event e.
WordOf(e, i) ==
    IF errorWord = [event |-> e, place |-> i] THEN [kind |-> "error"] ELSE Edge(1, e, i)

\* The words of an event.
LEMMA WordsOfEvent ==
    ASSUME NEW e \in Nat, NEW n \in Nat
    PROVE  /\ EventWords(e, n) \in Seq(AllWords) /\ Len(EventWords(e, n)) = n + 1
           /\ EventWords(e, n)[1] = Header(Evid(e), n) /\ Evid(e) \in Nat
           /\ \A i \in 1..n : EventWords(e, n)[i + 1] = WordOf(e, i)
  <1> DEFINE w == Header(Evid(e), n)
             x == [i \in 1..n |-> WordOf(e, i)]
  <1>1. EventWords(e, n) = <<w>> \o x
    BY DEF EventWords, WordOf
  <1>2. Evid(e) \in Nat
    <2>1. EvidMod \in Nat \ {0} /\ e + 1 \in Nat
      BY FieldsAssumption DEF FieldsAssumption
    <2> DEFINE d == IF gap # -1 /\ e >= gap THEN e + 1 ELSE e
    <2>2. d \in Nat
      OBVIOUS
    <2>3. Evid(e) = (d % EvidMod)
      BY DEF Evid
    <2> HIDE DEF d
    <2> QED BY ONLY <2>1, <2>2, <2>3
  <1>3. w \in AllWords
    BY <1>2 DEF Header, AllWords, Words
  <1>4. x \in Seq(AllWords) /\ Len(x) = n /\ \A i \in 1..n : x[i] = WordOf(e, i)
    <2>1. \A i \in 1..n : WordOf(e, i) \in AllWords
      BY DEF WordOf, Edge, AllWords, Words, Edges
    <2> QED BY <2>1
  <1> HIDE DEF w, x
  <1>5. <<w>> \in Seq(AllWords) /\ Len(<<w>>) = 1 /\ <<w>>[1] = w
    BY <1>3
  <1>6. /\ <<w>> \o x \in Seq(AllWords) /\ Len(<<w>> \o x) = 1 + n
        /\ \A i \in 1 .. 1 + n : (<<w>> \o x)[i] = IF i <= 1 THEN <<w>>[i] ELSE x[i - 1]
    BY ONLY <1>4, <1>5, ConcatProperties
  <1>7. (<<w>> \o x)[1] = w /\ \A i \in 1..n : (<<w>> \o x)[i + 1] = WordOf(e, i)
    BY ONLY <1>4, <1>5, <1>6, n \in Nat
  <1> QED BY <1>1, <1>2, <1>6, <1>7 DEF w

\* The metadata of a packet, and its events.
MetaWords(p) == <<HeaderOf(p.nDataWords + metadataSize), runNumber>> \o [i \in 1..9 |-> Meta]
EventsOf(p) == [k \in 1..Len(p.events) |-> EventWords(p.events[k].evt, p.events[k].nwords)]

\* The words of a packet are its metadata and the words of its events.
LEMMA WordsOfPacket ==
    ASSUME NEW p \in WP!Packet
    PROVE  /\ PacketWords(p) = MetaWords(p) \o FlattenSeq(EventsOf(p))
           /\ MetaWords(p) \in Seq(AllWords) /\ Len(MetaWords(p)) = 11
           /\ MetaWords(p)[1] = HeaderOf(p.nDataWords + metadataSize)
           /\ MetaWords(p)[2] = runNumber
           /\ p.events \in Seq(EventRecord)
           /\ EventsOf(p) \in Seq(Seq(AllWords)) /\ Len(EventsOf(p)) = Len(p.events)
           /\ PacketWords(p) \in Seq(AllWords)
  <1>1. p.nDataWords \in Nat /\ p.events \in Seq(EventRecord)
    BY DEF WP!Packet, WP!EventRecord, EventRecord
  <1> DEFINE L == HeaderOf(p.nDataWords + metadataSize)
             a == <<L, runNumber>>
             b == [i \in 1..9 |-> Meta]
  <1>2. L \in AllWords /\ runNumber \in AllWords /\ Meta \in AllWords
    <2>1. EvidMod \in Nat \ {0} /\ CountMod \in Nat \ {0} /\ p.nDataWords + metadataSize \in Nat
      BY <1>1, FieldsAssumption DEF FieldsAssumption, metadataSize
    <2> DEFINE d == p.nDataWords + metadataSize
    <2>2. L = Header(((d \div CountMod) % EvidMod), (d % CountMod))
      BY DEF HeaderOf
    <2> HIDE DEF d
    <2>3. (d \div CountMod) \in Nat /\ (d % CountMod) \in Nat
      BY <2>1 DEF d
    <2>4. ((d \div CountMod) % EvidMod) \in Nat
      BY ONLY <2>1, <2>3
    <2> HIDE DEF L
    <2> QED BY <2>2, <2>3, <2>4 DEF AllWords, Words, Header
  <1>3. a \in Seq(AllWords) /\ Len(a) = 2 /\ a[1] = L /\ a[2] = runNumber
    <2> HIDE DEF L
    <2> QED BY <1>2
  <1>4. b \in Seq(AllWords) /\ Len(b) = 9
    BY <1>2
  <1>5. PacketWords(p) = (a \o b) \o FlattenSeq(EventsOf(p)) /\ MetaWords(p) = a \o b
    BY DEF PacketWords, EventsOf, MetaWords
  <1> HIDE DEF a, b, L
  <1>6. /\ a \o b \in Seq(AllWords) /\ Len(a \o b) = 11
        /\ \A i \in 1 .. 11 : (a \o b)[i] = IF i <= 2 THEN a[i] ELSE b[i - 2]
    <2>1. a \in Seq(AllWords) /\ b \in Seq(AllWords)
      BY <1>3, <1>4
    <2>2. /\ a \o b \in Seq(AllWords) /\ Len(a \o b) = Len(a) + Len(b)
          /\ \A i \in 1 .. Len(a) + Len(b) :
               (a \o b)[i] = IF i <= Len(a) THEN a[i] ELSE b[i - Len(a)]
      BY ONLY <2>1, ConcatProperties
    <2>3. Len(a) = 2 /\ Len(b) = 9 /\ Len(a) + Len(b) = 11
      BY <1>3, <1>4
    <2> QED BY ONLY <2>2, <2>3
  <1>7. (a \o b)[1] = L /\ (a \o b)[2] = runNumber
    <2>1. 1 \in 1..11 /\ 2 \in 1..11 /\ 1 <= 2 /\ 2 <= 2
      OBVIOUS
    <2> QED BY ONLY <1>3, <1>6, <2>1
  <1>8. EventsOf(p) \in Seq(Seq(AllWords)) /\ Len(EventsOf(p)) = Len(p.events)
    <2>1. ASSUME NEW k \in 1..Len(p.events)
          PROVE  EventWords(p.events[k].evt, p.events[k].nwords) \in Seq(AllWords)
      <3>1. p.events[k] \in EventRecord
        BY <1>1
      <3>2. p.events[k].evt \in Nat /\ p.events[k].nwords \in Nat
        BY <3>1 DEF EventRecord
      <3> QED BY <3>2, WordsOfEvent
    <2>2. Len(p.events) \in Nat
      BY <1>1
    <2>3. EventsOf(p) \in [1..Len(p.events) -> Seq(AllWords)]
      BY <2>1 DEF EventsOf
    <2> QED BY ONLY <2>2, <2>3
  <1>9. FlattenSeq(EventsOf(p)) \in Seq(AllWords)
    BY <1>8, FlatType
  <1>10. (a \o b) \o FlattenSeq(EventsOf(p)) \in Seq(AllWords)
    BY ONLY <1>6, <1>9, ConcatProperties
  <1> QED BY <1>1, <1>5, <1>6, <1>7, <1>8, <1>10 DEF L

\* Where event k of E ends, if it begins at H[k].
EndOf(E, H, k) == IF k = 0 THEN 0 ELSE H[k] + E[k].nwords

\* Event k, at its place.
EventThere(D, E, H, k) ==
    /\ H[k] \in Nat /\ H[k] > 0 /\ H[k] + E[k].nwords <= Len(D) /\ E[k].nwords < CountLimit
    /\ D[H[k]] = Header(Evid(k - 1), E[k].nwords)
    /\ \A i \in 1..E[k].nwords : D[H[k] + i] = WordOf(k - 1, i)

\* The next event follows, or the metadata of the next packet are in front of it.
NextThere(D, E, H, k) ==
    \/ k # 0 /\ H[k + 1] = EndOf(E, H, k) + 1
    \/ /\ H[k + 1] = EndOf(E, H, k) + 12
       /\ \E i \in 1..Len(file) :
            /\ WP!NextEvent(i - 1) = k
            /\ D[EndOf(E, H, k) + 1] = HeaderOf(file[i].nDataWords + metadataSize)
            /\ D[EndOf(E, H, k) + 2] = runNumber

\* The words D are those of the events E, of which the k-th begins at H[k].
Layout(D, E, H) ==
    /\ D \in Seq(AllWords) /\ E \in Seq(EventRecord)
    /\ Len(D) = EndOf(E, H, Len(E))
    /\ \A k \in 1..Len(E) : EventThere(D, E, H, k)
    /\ \A k \in 0 .. Len(E) - 1 : NextThere(D, E, H, k)

\* What may be in front of the next event.
InFront(M, k) ==
    /\ M \in Seq(AllWords)
    /\ \/ k # 0 /\ Len(M) = 0
       \/ /\ Len(M) = 11
          /\ \E i \in 1..Len(file) :
               /\ WP!NextEvent(i - 1) = k
               /\ M[1] = HeaderOf(file[i].nDataWords + metadataSize) /\ M[2] = runNumber

\* One more event.
LEMMA LayoutGrows ==
    ASSUME NEW D, NEW E, NEW H, Layout(D, E, H), NEW M, InFront(M, Len(E)),
           NEW r \in EventRecord, r.nwords < CountLimit
    PROVE  \E G : Layout(D \o (M \o EventWords(Len(E), r.nwords)), Append(E, r), G)
  <1> DEFINE m == Len(E)
             n == r.nwords
             W == EventWords(m, n)
             X == M \o W
             Y == D \o X
             p == Len(D) + Len(M) + 1
             F == Append(E, r)
             G == [k \in 0 .. m + 1 |-> IF k = m + 1 THEN p ELSE H[k]]
  <1>1. /\ D \in Seq(AllWords) /\ E \in Seq(EventRecord) /\ m \in Nat /\ n \in Nat
        /\ M \in Seq(AllWords) /\ Len(M) \in Nat /\ Len(D) \in Nat
    BY DEF Layout, InFront, EventRecord
  <1>2. /\ W \in Seq(AllWords) /\ Len(W) = n + 1 /\ W[1] = Header(Evid(m), n)
        /\ \A i \in 1..n : W[i + 1] = WordOf(m, i)
    BY <1>1, WordsOfEvent
  <1>3. /\ F \in Seq(EventRecord) /\ Len(F) = m + 1 /\ F[m + 1] = r
        /\ \A k \in 1..m : F[k] = E[k]
    BY <1>1
  <1> HIDE DEF W, F
  <1>4. /\ X \in Seq(AllWords) /\ Len(X) = Len(M) + (n + 1)
        /\ \A i \in 1 .. Len(M) + (n + 1) : X[i] = IF i <= Len(M) THEN M[i] ELSE W[i - Len(M)]
    <2>1. W \in Seq(AllWords) /\ M \in Seq(AllWords)
      BY <1>1, <1>2
    <2>2. /\ M \o W \in Seq(AllWords) /\ Len(M \o W) = Len(M) + Len(W)
          /\ \A i \in 1 .. Len(M) + Len(W) :
               (M \o W)[i] = IF i <= Len(M) THEN M[i] ELSE W[i - Len(M)]
      BY ONLY <2>1, ConcatProperties
    <2>3. Len(W) = n + 1
      BY <1>2
    <2> QED BY ONLY <2>2, <2>3
  <1> HIDE DEF X
  <1>5. /\ Y \in Seq(AllWords) /\ Len(Y) = Len(D) + Len(X)
        /\ \A i \in 1 .. Len(D) + Len(X) : Y[i] = IF i <= Len(D) THEN D[i] ELSE X[i - Len(D)]
    <2>1. D \in Seq(AllWords) /\ X \in Seq(AllWords)
      BY <1>1, <1>4
    <2> QED BY ONLY <2>1, ConcatProperties
  <1> HIDE DEF Y
  <1>6. Len(Y) = Len(D) + Len(M) + n + 1
    BY <1>1, <1>4, <1>5
  <1>7. \A i \in 1..Len(D) : Y[i] = D[i]
    <2> TAKE i \in 1..Len(D)
    <2>1. i \in 1 .. Len(D) + Len(X) /\ i <= Len(D)
      BY <1>1, <1>4
    <2> QED BY ONLY <1>5, <2>1
  <1>8. \A i \in 1..Len(M) : Y[Len(D) + i] = M[i]
    <2> TAKE i \in 1..Len(M)
    <2>1. /\ Len(D) + i \in 1 .. Len(D) + Len(X) /\ ~(Len(D) + i <= Len(D))
          /\ Len(D) + i - Len(D) = i /\ i \in 1 .. Len(M) + (n + 1) /\ i <= Len(M)
      BY <1>1, <1>4
    <2>2. Y[Len(D) + i] = X[Len(D) + i - Len(D)]
      BY ONLY <1>5, <2>1
    <2>3. X[i] = M[i]
      BY ONLY <1>4, <2>1
    <2> QED BY ONLY <2>1, <2>2, <2>3
  <1>9. \A i \in 1 .. n + 1 : Y[Len(D) + Len(M) + i] = W[i]
    <2> TAKE i \in 1 .. n + 1
    <2>1. /\ Len(D) + Len(M) + i \in 1 .. Len(D) + Len(X) /\ Len(D) + Len(M) + i > Len(D)
          /\ Len(D) + Len(M) + i - Len(D) = Len(M) + i /\ Len(M) + i \in 1 .. Len(M) + (n + 1)
          /\ Len(M) + i > Len(M) /\ Len(M) + i - Len(M) = i
      BY <1>1, <1>4
    <2>2. Y[Len(D) + Len(M) + i] = X[Len(M) + i]
      BY <1>1, <1>5, <2>1
    <2>3. X[Len(M) + i] = W[i]
      BY <1>1, <1>4, <2>1
    <2> QED BY <2>2, <2>3
  <1>10. G[m + 1] = p /\ \A k \in 0..m : G[k] = H[k]
    BY <1>1
  <1>11. p \in Nat /\ p > 0 /\ p + n = Len(Y) /\ p = Len(D) + Len(M) + 1
    BY <1>1, <1>6
  <1> HIDE DEF G, p
  <1>12. \A k \in 0..m : EndOf(F, G, k) = EndOf(E, H, k)
    BY <1>1, <1>3, <1>10 DEF EndOf
  <1>13. EndOf(F, G, m + 1) = Len(Y)
    BY <1>1, <1>3, <1>10, <1>11 DEF EndOf
  <1>14. /\ Len(D) = EndOf(E, H, m)
         /\ \A k \in 1..m : EventThere(D, E, H, k)
         /\ \A k \in 0 .. m - 1 : NextThere(D, E, H, k)
    BY DEF Layout
  <1>15. ASSUME NEW k \in 1 .. m + 1 PROVE EventThere(Y, F, G, k)
    <2>1. CASE k = m + 1
      <3>1. G[k] = p /\ F[k].nwords = n /\ k - 1 = m
        BY <1>1, <1>3, <1>10, <2>1
      <3>2. Y[p] = Header(Evid(m), n)
        <4>1. 1 \in 1 .. n + 1
          BY <1>1
        <4>2. Y[Len(D) + Len(M) + 1] = W[1]
          BY <1>9, <4>1
        <4> QED BY <1>2, <1>11, <4>2
      <3>3. ASSUME NEW i \in 1..n PROVE Y[p + i] = WordOf(m, i)
        <4>1. i + 1 \in 1 .. n + 1 /\ p + i = Len(D) + Len(M) + (i + 1)
          BY <1>1, <1>11
        <4>2. Y[p + i] = W[i + 1]
          BY <1>9, <4>1
        <4> QED BY <1>2, <4>2
      <3> QED BY <1>1, <1>11, <3>1, <3>2, <3>3 DEF EventThere
    <2>2. CASE k \in 1..m
      <3>1. EventThere(D, E, H, k) /\ G[k] = H[k] /\ F[k] = E[k]
        BY <1>1, <1>3, <1>10, <1>14, <2>2
      <3>2. E[k] \in EventRecord
        BY <1>1, <2>2
      <3>3. E[k].nwords \in Nat
        BY <3>2 DEF EventRecord
      <3>4. /\ H[k] \in Nat /\ H[k] > 0 /\ H[k] + E[k].nwords <= Len(D)
            /\ E[k].nwords < CountLimit
            /\ D[H[k]] = Header(Evid(k - 1), E[k].nwords)
            /\ \A i \in 1..E[k].nwords : D[H[k] + i] = WordOf(k - 1, i)
        BY <3>1 DEF EventThere
      <3>5. /\ Len(D) \in Nat /\ E[k].nwords \in Nat
            /\ H[k] \in Nat /\ H[k] > 0 /\ H[k] + E[k].nwords <= Len(D)
        BY <1>1, <3>3, <3>4
      <3>6. H[k] \in 1..Len(D) /\ \A i \in 1..E[k].nwords : H[k] + i \in 1..Len(D)
        BY ONLY <3>5
      <3>7. H[k] + E[k].nwords <= Len(Y)
        <4>1. Len(Y) \in Nat /\ Len(D) <= Len(Y)
          BY <1>1, <1>6
        <4> QED BY ONLY <3>5, <4>1
      <3>8. Y[H[k]] = D[H[k]] /\ \A i \in 1..E[k].nwords : Y[H[k] + i] = D[H[k] + i]
        BY <1>7, <3>6
      <3> QED BY <3>1, <3>4, <3>7, <3>8 DEF EventThere
    <2>3. k = m + 1 \/ k \in 1..m
      BY <1>1
    <2> QED BY <2>1, <2>2, <2>3
  <1>16. ASSUME NEW k \in 0..m PROVE NextThere(Y, F, G, k)
    <2>1. CASE k = m
      <3>1. G[k + 1] = Len(D) + Len(M) + 1 /\ EndOf(F, G, k) = Len(D)
        BY <1>1, <1>10, <1>11, <1>12, <1>14, <2>1
      <3>2. CASE k # 0 /\ Len(M) = 0
        BY <1>1, <3>1, <3>2 DEF NextThere
      <3>3. ASSUME Len(M) = 11, NEW i \in 1..Len(file), WP!NextEvent(i - 1) = k,
                   M[1] = HeaderOf(file[i].nDataWords + metadataSize), M[2] = runNumber
            PROVE  NextThere(Y, F, G, k)
        <4>1. G[k + 1] = EndOf(F, G, k) + 12
          BY <1>1, <3>1, <3>3
        <4>2. 1 \in 1..Len(M) /\ 2 \in 1..Len(M)
          BY <3>3
        <4>3. Y[EndOf(F, G, k) + 1] = M[1] /\ Y[EndOf(F, G, k) + 2] = M[2]
          BY <1>8, <3>1, <4>2
        <4> QED BY <3>3, <4>1, <4>3 DEF NextThere
      <3> QED BY <2>1, <3>2, <3>3 DEF InFront
    <2>2. CASE k \in 0 .. m - 1
      <3>1. NextThere(D, E, H, k) /\ k + 1 \in 1..m /\ k \in 0..m
        BY <1>1, <1>14, <2>2
      <3>2. G[k + 1] = H[k + 1] /\ EndOf(F, G, k) = EndOf(E, H, k)
        BY <1>1, <1>10, <1>12, <3>1
      <3>3. CASE k # 0 /\ H[k + 1] = EndOf(E, H, k) + 1
        BY <3>2, <3>3 DEF NextThere
      <3>4. ASSUME H[k + 1] = EndOf(E, H, k) + 12, NEW i \in 1..Len(file),
                   WP!NextEvent(i - 1) = k,
                   D[EndOf(E, H, k) + 1] = HeaderOf(file[i].nDataWords + metadataSize),
                   D[EndOf(E, H, k) + 2] = runNumber
            PROVE  NextThere(Y, F, G, k)
        <4>1. EventThere(D, E, H, k + 1)
          BY <1>14, <3>1
        <4>2. E[k + 1] \in EventRecord
          BY <1>1, <3>1
        <4>3. H[k + 1] <= Len(D) /\ H[k + 1] \in Nat
          <5>1. /\ E[k + 1].nwords \in Nat /\ Len(D) \in Nat /\ H[k + 1] \in Nat
                /\ H[k + 1] + E[k + 1].nwords <= Len(D)
            BY <1>1, <4>1, <4>2 DEF EventThere, EventRecord
          <5> QED BY ONLY <5>1
        <4>4. EndOf(E, H, k) \in Nat
          <5>1. CASE k = 0
            BY <5>1 DEF EndOf
          <5>2. CASE k # 0
            <6>1. k \in 1..m
              BY <2>2, <5>2
            <6>2. H[k] \in Nat /\ E[k] \in EventRecord
              BY <1>1, <1>14, <6>1 DEF EventThere
            <6> QED BY <5>2, <6>2 DEF EndOf, EventRecord
          <5> QED BY <5>1, <5>2
        <4> DEFINE q == EndOf(E, H, k)
        <4>5. q + 1 \in 1..Len(D) /\ q + 2 \in 1..Len(D)
          <5>1. /\ q \in Nat /\ Len(D) \in Nat /\ H[k + 1] \in Nat /\ H[k + 1] <= Len(D)
                /\ H[k + 1] = q + 12
            BY <1>1, <3>4, <4>3, <4>4
          <5> HIDE DEF q
          <5> QED BY ONLY <5>1
        <4>6. Y[q + 1] = D[q + 1] /\ Y[q + 2] = D[q + 2]
          BY <1>7, <4>5
        <4> QED BY <3>2, <3>4, <4>6 DEF NextThere
      <3> QED BY <3>1, <3>3, <3>4 DEF NextThere
    <2>3. k = m \/ k \in 0 .. m - 1
      BY <1>1
    <2> QED BY <2>1, <2>2, <2>3
  <1>17. Layout(Y, F, G)
    <2>1. Len(F) - 1 = m
      BY <1>1, <1>3
    <2> QED BY <1>3, <1>5, <1>13, <1>15, <1>16, <2>1 DEF Layout
  <1> QED BY <1>17 DEF Y, X, W, F

\* The words of the first j events of a packet, with its metadata, behind D.
PartWords(D, p, j) == D \o (MetaWords(p) \o UpTo(EventsOf(p), j))
PartEvents(E, p, j) == E \o SubSeq(p.events, 1, j)

\* The parts of a packet have the types of their words and events, and grow by an event.
LEMMA PartsOfPacket ==
    ASSUME NEW p \in WP!Packet, NEW D \in Seq(AllWords), NEW E \in Seq(EventRecord)
    PROVE  /\ p.events # <<>> =>
                /\ 1 \in 1..Len(p.events)
                /\ PartWords(D, p, 1) = D \o (MetaWords(p) \o EventsOf(p)[1])
                /\ PartEvents(E, p, 1) = Append(E, p.events[1])
           /\ \A j \in 2..Len(p.events) :
                /\ PartWords(D, p, j) = PartWords(D, p, j - 1) \o EventsOf(p)[j]
                /\ PartEvents(E, p, j) = Append(PartEvents(E, p, j - 1), p.events[j])
           /\ \A j \in 0..Len(p.events) :
                /\ PartEvents(E, p, j) \in Seq(EventRecord)
                /\ Len(PartEvents(E, p, j)) = Len(E) + j
           /\ PartWords(D, p, Len(p.events)) = D \o PacketWords(p)
           /\ PartEvents(E, p, Len(p.events)) = E \o p.events
  <1> DEFINE V == EventsOf(p)
             M == MetaWords(p)
             s == p.events
             n == Len(s)
  <1>1. /\ PacketWords(p) = M \o FlattenSeq(V) /\ M \in Seq(AllWords)
        /\ s \in Seq(EventRecord) /\ V \in Seq(Seq(AllWords)) /\ Len(V) = n
    BY WordsOfPacket
  <1>2. \A j : PartWords(D, p, j) = D \o (M \o UpTo(V, j))
    BY DEF PartWords
  <1>3. \A j : PartEvents(E, p, j) = E \o SubSeq(s, 1, j)
    BY DEF PartEvents
  <1> HIDE DEF V, M, s
  <1>4. /\ UpTo(V, 0) = <<>> /\ UpTo(V, n) = FlattenSeq(V)
        /\ \A j \in 0..n : UpTo(V, j) \in Seq(AllWords)
        /\ \A j \in 1..n : UpTo(V, j) = UpTo(V, j - 1) \o V[j]
    <2>1. /\ UpTo(V, 0) = <<>> /\ UpTo(V, Len(V)) = FlattenSeq(V)
          /\ \A j \in 0..Len(V) : UpTo(V, j) \in Seq(AllWords)
          /\ \A j \in 1..Len(V) : UpTo(V, j) = UpTo(V, j - 1) \o V[j]
      BY <1>1, UpToStep
    <2>2. Len(V) = n
      BY <1>1
    <2> QED BY ONLY <2>1, <2>2
  <1>5. n \in Nat /\ SubSeq(s, 1, n) = s /\ SubSeq(s, 1, 0) = <<>>
    BY <1>1, SubSeqFull, SubSeqEmpty
  <1>6. ASSUME NEW j \in 1..n
        PROVE  /\ s[j] \in EventRecord /\ SubSeq(s, 1, j - 1) \in Seq(EventRecord)
               /\ SubSeq(s, 1, j) = Append(SubSeq(s, 1, j - 1), s[j])
    BY <1>1
  <1>7. ASSUME NEW j \in 1..n
        PROVE  PartEvents(E, p, j) = Append(PartEvents(E, p, j - 1), s[j])
    <2> DEFINE u == SubSeq(s, 1, j - 1)
    <2>1. s[j] \in EventRecord /\ u \in Seq(EventRecord) /\ SubSeq(s, 1, j) = Append(u, s[j])
      BY <1>6
    <2> HIDE DEF u
    <2>2. E \o Append(u, s[j]) = Append(E \o u, s[j])
      <3> DEFINE v == <<s[j]>>
      <3>1. v \in Seq(EventRecord) /\ E \in Seq(EventRecord) /\ u \in Seq(EventRecord)
        BY <2>1
      <3>2. E \o u \in Seq(EventRecord)
        BY <2>1, ConcatProperties
      <3>3. Append(u, s[j]) = u \o v /\ Append(E \o u, s[j]) = (E \o u) \o v
        BY <2>1, <3>2, AppendIsConcat
      <3> HIDE DEF v
      <3>4. (E \o u) \o v = E \o (u \o v)
        BY ONLY <3>1, ConcatAssociative, SMTT(20)
      <3> QED BY ONLY <3>3, <3>4
    <2> QED BY <1>3, <2>1, <2>2 DEF u
  <1>8. ASSUME NEW j \in 0..n
        PROVE  /\ PartEvents(E, p, j) \in Seq(EventRecord)
               /\ Len(PartEvents(E, p, j)) = Len(E) + j
    <2> DEFINE u == SubSeq(s, 1, j)
    <2>1. u \in Seq(EventRecord) /\ Len(u) = j
      BY <1>1, <1>5
    <2> HIDE DEF u
    <2>2. E \o u \in Seq(EventRecord) /\ Len(E \o u) = Len(E) + Len(u)
      BY <2>1, ConcatProperties
    <2> QED BY <1>3, <2>1, <2>2 DEF u
  <1>9. ASSUME NEW j \in 2..n
        PROVE  PartWords(D, p, j) = PartWords(D, p, j - 1) \o V[j]
    <2> DEFINE u == UpTo(V, j - 1)
               v == V[j]
               x == M \o u
               y == u \o v
    <2>1. j \in 1..n /\ j - 1 \in 0..n
      BY <1>5
    <2>2. u \in Seq(AllWords) /\ v \in Seq(AllWords) /\ UpTo(V, j) = y
      <3>1. Len(V) = n
        BY <1>1
      <3>2. v \in Seq(AllWords)
        BY ONLY <1>1, <2>1, <3>1
      <3> QED BY ONLY <1>4, <2>1, <3>2
    <2> HIDE DEF u, v
    <2>3. M \in Seq(AllWords) /\ u \in Seq(AllWords) /\ v \in Seq(AllWords)
      BY <1>1, <2>2
    <2>4. (M \o u) \o v = M \o (u \o v)
      BY ONLY <2>3, ConcatAssociative, SMTT(20)
    <2>5. x \in Seq(AllWords)
      BY ONLY <2>3, ConcatProperties
    <2> HIDE DEF x
    <2>6. D \in Seq(AllWords) /\ x \in Seq(AllWords) /\ v \in Seq(AllWords)
      BY <2>3, <2>5
    <2>7. (D \o x) \o v = D \o (x \o v)
      BY ONLY <2>6, ConcatAssociative, SMTT(20)
    <2>8. x \o v = M \o y
      BY <2>4 DEF x
    <2>9. PartWords(D, p, j) = D \o (M \o y) /\ PartWords(D, p, j - 1) = D \o x
      BY <1>2, <2>2 DEF u, x
    <2> QED BY <2>7, <2>8, <2>9 DEF v
  <1>10. ASSUME s # <<>>
         PROVE  /\ 1 \in 1..n /\ PartWords(D, p, 1) = D \o (M \o V[1])
                /\ PartEvents(E, p, 1) = Append(E, s[1])
    <2>1. n # 0
      BY <1>1, <1>10, EmptySeq
    <2>2. 1 \in 1..n /\ 1 - 1 = 0
      BY <1>5, <2>1
    <2>3. V[1] \in Seq(AllWords)
      BY <1>1, <2>2
    <2>4. UpTo(V, 1) = <<>> \o V[1]
      <3>1. UpTo(V, 1) = UpTo(V, 1 - 1) \o V[1]
        BY ONLY <1>4, <2>2
      <3> QED BY ONLY <1>4, <2>2, <3>1
    <2>5. <<>> \o V[1] = V[1]
      BY <2>3, ConcatEmptySeq
    <2>6. PartEvents(E, p, 0) = E
      BY <1>3, <1>5, ConcatEmptySeq
    <2> QED BY <1>2, <1>7, <2>2, <2>4, <2>5, <2>6
  <1>11. /\ PartWords(D, p, n) = D \o PacketWords(p)
         /\ PartEvents(E, p, n) = E \o s
    BY <1>1, <1>2, <1>3, <1>4, <1>5
  <1>12. \A j \in 2..n : j \in 1..n
    BY <1>5
  <1> QED BY <1>7, <1>8, <1>9, <1>10, <1>11, <1>12 DEF V, M, s

\* A packet behind a file that is laid out.
LEMMA PacketLaidOut ==
    ASSUME Recorded, NEW i \in 1..Len(file), NEW D, NEW E, NEW H, Layout(D, E, H),
           Len(E) = WP!NextEvent(i - 1)
    PROVE  /\ \E G : Layout(D \o PacketWords(file[i]), E \o file[i].events, G)
           /\ Len(E \o file[i].events) = WP!NextEvent(i)
  <1> DEFINE p == file[i]
             s == p.events
             n == Len(s)
             T == {j \in 1..n : ~ \E G : Layout(PartWords(D, p, j), PartEvents(E, p, j), G)}
  <1>1. /\ p \in WP!Packet /\ s # <<>> /\ n \in Nat
        /\ WP!Consecutive(s, WP!NextEvent(i - 1))
        /\ WP!NextEvent(i) = WP!NextEvent(i - 1) + n
        /\ SmallEvents(s)
    <2>1. p \in WP!Packet /\ LikePacket(p)
      BY DEF Recorded
    <2>2. s \in Seq(WP!EventRecord)
      BY <2>1 DEF WP!Packet
    <2> QED BY <2>1, <2>2 DEF Recorded, WP!FileInOrder, LikePacket
  <1>2. D \in Seq(AllWords) /\ E \in Seq(EventRecord) /\ Len(E) \in Nat
    BY DEF Layout
  <1> HIDE DEF p
  <1>3. /\ 1 \in 1..n
        /\ PartWords(D, p, 1) = D \o (MetaWords(p) \o EventsOf(p)[1])
        /\ PartEvents(E, p, 1) = Append(E, s[1])
    BY <1>1, <1>2, PartsOfPacket
  <1>4. \A j \in 2..n :
          /\ PartWords(D, p, j) = PartWords(D, p, j - 1) \o EventsOf(p)[j]
          /\ PartEvents(E, p, j) = Append(PartEvents(E, p, j - 1), s[j])
    BY <1>1, <1>2, PartsOfPacket
  <1>5. \A j \in 0..n :
          /\ PartEvents(E, p, j) \in Seq(EventRecord)
          /\ Len(PartEvents(E, p, j)) = Len(E) + j
    BY <1>1, <1>2, PartsOfPacket
  <1>6. /\ PartWords(D, p, n) = D \o PacketWords(p)
        /\ PartEvents(E, p, n) = E \o s
    BY <1>1, <1>2, PartsOfPacket
  <1>7. ASSUME NEW j \in 1..n
        PROVE  /\ s[j] \in EventRecord /\ s[j].nwords < CountLimit
               /\ EventsOf(p)[j] = EventWords(Len(E) + (j - 1), s[j].nwords)
               /\ EventsOf(p)[j] \in Seq(AllWords)
    <2>1. s \in Seq(EventRecord)
      BY <1>1, WordsOfPacket
    <2>2. s[j] \in EventRecord
      BY <2>1
    <2>3. s[j].evt = WP!NextEvent(i - 1) + j - 1
      BY <1>1 DEF WP!Consecutive
    <2>4. s[j].evt = Len(E) + (j - 1)
      BY <1>2, <2>3
    <2>5. EventsOf(p)[j] = EventWords(s[j].evt, s[j].nwords)
      BY DEF EventsOf
    <2>6. s[j].evt \in Nat /\ s[j].nwords \in Nat
      BY <2>2 DEF EventRecord
    <2>7. s[j].nwords < CountLimit
      BY <1>1 DEF SmallEvents
    <2> QED BY <2>2, <2>4, <2>5, <2>6, <2>7, WordsOfEvent
  <1>8. ASSUME T # {} PROVE FALSE
    <2>1. T \in SUBSET Nat
      OBVIOUS
    <2> HIDE DEF T
    <2>2. PICK j \in T : \A m \in T : j <= m
      BY <1>8, <2>1, LeastNumber
    <2>3. j \in 1..n /\ ~ \E G : Layout(PartWords(D, p, j), PartEvents(E, p, j), G)
      BY <2>2 DEF T
    <2>4. CASE j = 1
      <3>1. InFront(MetaWords(p), Len(E))
        <4>1. /\ MetaWords(p) \in Seq(AllWords) /\ Len(MetaWords(p)) = 11
              /\ MetaWords(p)[1] = HeaderOf(p.nDataWords + metadataSize)
              /\ MetaWords(p)[2] = runNumber
          BY <1>1, WordsOfPacket
        <4> QED BY <4>1 DEF InFront, p
      <3>2. /\ s[1] \in EventRecord /\ s[1].nwords < CountLimit
            /\ EventsOf(p)[1] = EventWords(Len(E), s[1].nwords)
        <4>1. 1 \in 1..n /\ Len(E) + (1 - 1) = Len(E)
          BY <1>2, <1>3
        <4>2. s[1] \in EventRecord /\ s[1].nwords < CountLimit
              /\ EventsOf(p)[1] = EventWords(Len(E) + (1 - 1), s[1].nwords)
          BY <1>7, <4>1
        <4> QED BY ONLY <4>1, <4>2
      <3>3. \E G : Layout(D \o (MetaWords(p) \o EventWords(Len(E), s[1].nwords)),
                          Append(E, s[1]), G)
        BY <3>1, <3>2, LayoutGrows
      <3> QED BY <1>3, <2>3, <2>4, <3>2, <3>3
    <2>5. CASE j # 1
      <3>1. j - 1 \in 1..n /\ j \in 2..n /\ j - 1 < j /\ j - 1 \in 0..n
        BY <1>1, <2>3, <2>5
      <3>2. j - 1 \notin T
        BY <2>1, <2>2, <3>1
      <3> DEFINE D2 == PartWords(D, p, j - 1)
                 E2 == PartEvents(E, p, j - 1)
      <3>3. PICK G : Layout(D2, E2, G)
        BY <3>1, <3>2 DEF T
      <3>4. Len(E2) = Len(E) + (j - 1) /\ Len(E2) # 0
        BY <1>2, <1>5, <3>1
      <3>5. InFront(<<>>, Len(E2))
        <4>1. <<>> \in Seq(AllWords) /\ Len(<<>>) = 0
          OBVIOUS
        <4> QED BY <3>4, <4>1 DEF InFront
      <3>6. /\ s[j] \in EventRecord /\ s[j].nwords < CountLimit
            /\ EventsOf(p)[j] = EventWords(Len(E2), s[j].nwords)
            /\ EventsOf(p)[j] \in Seq(AllWords)
        BY <1>7, <2>3, <3>4
      <3> HIDE DEF D2, E2
      <3>7. \E F : Layout(D2 \o (<<>> \o EventWords(Len(E2), s[j].nwords)),
                          Append(E2, s[j]), F)
        BY <3>3, <3>5, <3>6, LayoutGrows
      <3>8. <<>> \o EventsOf(p)[j] = EventsOf(p)[j]
        BY <3>6, ConcatEmptySeq
      <3>9. /\ PartWords(D, p, j) = D2 \o EventsOf(p)[j]
            /\ PartEvents(E, p, j) = Append(E2, s[j])
        BY <1>4, <3>1 DEF D2, E2
      <3> QED BY <2>3, <3>6, <3>7, <3>8, <3>9
    <2> QED BY <2>4, <2>5
  <1>9. n \in 1..n /\ n \in 0..n
    BY <1>1, <1>3
  <1>10. \E G : Layout(PartWords(D, p, n), PartEvents(E, p, n), G)
    BY <1>8, <1>9
  <1>11. Len(E \o s) = WP!NextEvent(i)
    BY <1>1, <1>5, <1>6, <1>9
  <1> QED BY <1>6, <1>10, <1>11 DEF p

\* So is the whole file.
LEMMA FileLaidOut ==
    ASSUME Recorded
    PROVE  /\ \E H : Layout(FileWords, Written, H)
           /\ file # <<>> => Len(Written) # 0
  <1> DEFINE P == [i \in 1..Len(file) |-> PacketWords(file[i])]
             V == [i \in 1..Len(file) |-> file[i].events]
             n == Len(file)
             T == {i \in 0..n : ~(/\ \E H : Layout(UpTo(P, i), UpTo(V, i), H)
                                  /\ Len(UpTo(V, i)) = WP!NextEvent(i))}
  <1>1. /\ P \in Seq(Seq(AllWords)) /\ Len(P) = n /\ n \in Nat
        /\ V \in Seq(Seq(EventRecord)) /\ Len(V) = n
    <2>1. n \in Nat /\ \A i \in 1..n : file[i] \in WP!Packet
      BY DEF Recorded
    <2>2. \A i \in 1..n : PacketWords(file[i]) \in Seq(AllWords)
                          /\ file[i].events \in Seq(EventRecord)
      BY <2>1, WordsOfPacket
    <2>3. P \in [1..n -> Seq(AllWords)] /\ V \in [1..n -> Seq(EventRecord)]
      BY <2>2
    <2> HIDE DEF P, V
    <2> QED BY ONLY <2>1, <2>3
  <1>2. \A i \in 1..n : P[i] = PacketWords(file[i]) /\ V[i] = file[i].events
    OBVIOUS
  <1>3. FileWords = FlattenSeq(P) /\ Written = FlattenSeq(V)
    BY DEF FileWords, Written
  <1> HIDE DEF P, V
  <1>4. /\ UpTo(P, 0) = <<>> /\ UpTo(P, n) = FlattenSeq(P)
        /\ \A i \in 1..n : UpTo(P, i) = UpTo(P, i - 1) \o P[i]
    <2>1. /\ UpTo(P, 0) = <<>> /\ UpTo(P, Len(P)) = FlattenSeq(P)
          /\ \A i \in 1..Len(P) : UpTo(P, i) = UpTo(P, i - 1) \o P[i]
      BY <1>1, UpToStep
    <2>2. Len(P) = n
      BY <1>1
    <2> QED BY ONLY <2>1, <2>2
  <1>5. /\ UpTo(V, 0) = <<>> /\ UpTo(V, n) = FlattenSeq(V)
        /\ \A i \in 1..n : UpTo(V, i) = UpTo(V, i - 1) \o V[i]
    <2>1. /\ UpTo(V, 0) = <<>> /\ UpTo(V, Len(V)) = FlattenSeq(V)
          /\ \A i \in 1..Len(V) : UpTo(V, i) = UpTo(V, i - 1) \o V[i]
      BY <1>1, UpToStep
    <2>2. Len(V) = n
      BY <1>1
    <2> QED BY ONLY <2>1, <2>2
  <1>6. ASSUME T # {} PROVE FALSE
    <2>1. T \in SUBSET Nat
      BY <1>1
    <2> HIDE DEF T
    <2>2. PICK i \in T : \A m \in T : i <= m
      BY <1>6, <2>1, LeastNumber
    <2>3. /\ i \in 0..n
          /\ ~(/\ \E H : Layout(UpTo(P, i), UpTo(V, i), H)
               /\ Len(UpTo(V, i)) = WP!NextEvent(i))
      BY <2>2 DEF T
    <2>4. CASE i = 0
      <3>1. \A S : <<>> \in Seq(S) /\ Len(<<>>) = 0
        OBVIOUS
      <3>2. WP!NextEvent(0) = 0
        BY DEF WP!NextEvent
      <3>3. Layout(<<>>, <<>>, <<>>)
        BY <3>1 DEF Layout, EndOf
      <3> QED BY <1>4, <1>5, <2>3, <2>4, <3>1, <3>2, <3>3
    <2>5. CASE i # 0
      <3>1. i - 1 \in 0..n /\ i \in 1..n /\ i - 1 < i
        BY <1>1, <2>3, <2>5
      <3>2. i - 1 \notin T
        BY <2>1, <2>2, <3>1
      <3> DEFINE D == UpTo(P, i - 1)
                 E == UpTo(V, i - 1)
      <3>3. PICK H : Layout(D, E, H)
        BY <3>1, <3>2 DEF T
      <3>4. Len(E) = WP!NextEvent(i - 1)
        BY <3>1, <3>2 DEF T
      <3>5. UpTo(P, i) = D \o PacketWords(file[i]) /\ UpTo(V, i) = E \o file[i].events
        BY <1>2, <1>4, <1>5, <3>1
      <3> HIDE DEF D, E
      <3>6. /\ \E G : Layout(D \o PacketWords(file[i]), E \o file[i].events, G)
            /\ Len(E \o file[i].events) = WP!NextEvent(i)
        BY <3>1, <3>3, <3>4, PacketLaidOut
      <3> QED BY <2>3, <3>5, <3>6
    <2> QED BY <2>4, <2>5
  <1>7. n \in 0..n
    BY <1>1
  <1>8. \E H : Layout(UpTo(P, n), UpTo(V, n), H)
    BY <1>6, <1>7
  <1>9. ASSUME file # <<>> PROVE Len(Written) # 0
    <2>1. n \in 1..n /\ n \in Nat
      BY <1>1, <1>9, EmptySeq DEF Recorded
    <2>2. /\ WP!NextEvent(n) = WP!NextEvent(n - 1) + Len(file[n].events)
          /\ file[n] \in WP!Packet /\ file[n].events # <<>>
      BY <2>1 DEF Recorded, WP!FileInOrder, LikePacket
    <2>3. file[n].events \in Seq(WP!EventRecord)
      BY <2>2 DEF WP!Packet
    <2>4. Len(file[n].events) \in Nat /\ Len(file[n].events) # 0
      BY <2>2, <2>3, EmptySeq
    <2>5. WP!NextEvent(n - 1) \in Nat
      <3>1. CASE n - 1 = 0
        BY <3>1 DEF WP!NextEvent
      <3>2. CASE n - 1 # 0
        <4> DEFINE m == n - 1
        <4>1. m \in 1..n
          <5> HIDE DEF n
          <5> QED BY <2>1, <3>2
        <4>2. file[m] \in WP!Packet
          BY <4>1 DEF Recorded
        <4>3. file[m].evtNumber \in Nat
          BY <4>2 DEF WP!Packet
        <4> QED BY <3>2, <4>3 DEF WP!NextEvent
      <3> QED BY <3>1, <3>2
    <2>6. WP!NextEvent(n) # 0
      BY <2>2, <2>4, <2>5
    <2>7. Len(UpTo(V, n)) = WP!NextEvent(n)
      BY <1>6, <1>7
    <2> QED BY <1>3, <1>5, <2>6, <2>7
  <1> QED BY <1>3, <1>4, <1>5, <1>8, <1>9

\* In every state, so that the words of the file are known when they are read.
FileKnown ==
    Recorded /\ (\E H : Layout(FileWords, Written, H)) /\ (file # <<>> => Len(Written) # 0)

\* Any file that PacketWriter may have written can be laid out.
LEMMA AlwaysFileKnown == Spec => []FileKnown
  <1>1. Recorded => FileKnown
    BY FileLaidOut DEF FileKnown
  <1> QED BY <1>1, AlwaysRecorded, PTL

--------------------------------------------------------------------------------
(* One turn of DeleteMeta, by the word in hand. *)

WordInHand(w) == cleaning = "on" /\ pos \in 1..Len(data) /\ data[pos] = w

\* An edge is copied.
LEMMA TurnOnEdge ==
    ASSUME NEW w, WordInHand(w), IsEdge(w), CleanNext
    PROVE  Write(w, pos + 1) /\ UNCHANGED <<data, cleaning>>
  <1>1. InHand = {w}
    BY DEF WordInHand, InHand
  <1>2. ~IsHeader(w) /\ w.kind # "error" /\ w.kind # "meta" /\ w # EmptyOne /\ ~Unexpected(w)
    BY DEF IsEdge, IsHeader, EmptyOne, Header, Unexpected
  <1>3. ~FinishCleaning
    BY DEF WordInHand, FinishCleaning
  <1> QED BY <1>1, <1>2, <1>3
    DEF CleanNext, CopyWord, SkipError, CopyEmptyOne, SkipMetadata, StopCleaning, StopAtEnd,
        LoseTheWay

\* What follows an error word is skipped.
LEMMA TurnOnError ==
    ASSUME NEW w, WordInHand(w), w.kind = "error", CleanNext
    PROVE  SkipError
  <1>1. InHand = {w}
    BY DEF WordInHand, InHand
  <1>2. ~IsHeader(w) /\ ~IsEdge(w) /\ w.kind # "meta" /\ w # EmptyOne /\ ~Unexpected(w)
        /\ ~Expected(w)
    BY DEF IsEdge, IsHeader, EmptyOne, Header, Unexpected, Expected
  <1>3. ~FinishCleaning
    BY DEF WordInHand, FinishCleaning
  <1> QED BY <1>1, <1>2, <1>3
    DEF CleanNext, CopyWord, CopyEmptyOne, SkipMetadata, StopCleaning, StopAtEnd, LoseTheWay

\* A header that is expected, or told to be event 1, is copied.
LEMMA TurnOnHeader ==
    ASSUME NEW w, WordInHand(w), IsHeader(w), Expected(w) \/ IsEmptyOne, CleanNext
    PROVE  Write(w, pos + 1) /\ UNCHANGED <<data, cleaning>>
  <1>1. InHand = {w}
    BY DEF WordInHand, InHand
  <1>2. w.kind # "error" /\ w.kind # "meta" /\ ~Unexpected(w)
    BY DEF IsHeader, Unexpected
  <1>3. ~FinishCleaning
    BY DEF WordInHand, FinishCleaning
  <1>4. CopyWord \/ CopyEmptyOne
    BY <1>1, <1>2, <1>3
      DEF CleanNext, SkipError, SkipMetadata, StopCleaning, StopAtEnd, LoseTheWay
  <1> QED BY <1>1, <1>4 DEF CopyWord, CopyEmptyOne

\* The metadata in front of the next event is skipped.
LEMMA TurnOnMetadata ==
    ASSUME NEW w, WordInHand(w), IsHeader(w), ~Expected(w), ~IsEmptyOne,
           pos + metadataSize <= Len(data), IsNext(data[pos + metadataSize]), CleanNext
    PROVE  /\ Write(data[pos + metadataSize], pos + metadataSize + 1)
           /\ UNCHANGED <<data, cleaning>>
  <1>1. InHand = {w}
    BY DEF WordInHand, InHand
  <1>2. w.kind # "error" /\ w.kind # "meta" /\ Unexpected(w) /\ ~IsEdge(w)
    BY DEF IsHeader, IsEdge, Unexpected
  <1>3. ~FinishCleaning
    BY DEF WordInHand, FinishCleaning
  <1>4. data[pos + metadataSize].kind # "meta"
    BY DEF IsNext, IsHeader
  <1>5. ~CopyWord /\ ~SkipError /\ ~CopyEmptyOne
    BY <1>1, <1>2 DEF CopyWord, SkipError, CopyEmptyOne
  <1>6. ~StopCleaning /\ ~LoseTheWay
    BY <1>1, <1>2, <1>4 DEF StopCleaning, LoseTheWay, Distance
  <1>7. ~StopAtEnd
    <2>1. pos + metadataSize \in Int /\ Len(data) \in Int
      BY DEF WordInHand, metadataSize
    <2>2. ~(pos + Distance > Len(data))
      BY <2>1 DEF Distance
    <2> QED BY <2>2 DEF StopAtEnd
  <1>8. SkipMetadata
    BY <1>3, <1>5, <1>6, <1>7 DEF CleanNext
  <1> QED BY <1>1, <1>8 DEF SkipMetadata, Distance

\* An event 1 without words that is the last word of the file.
LEMMA TurnOnLastWord ==
    ASSUME NEW w, WordInHand(w), IsNext(w), ~Expected(w), ~IsEmptyOne, Len(data) \in Nat,
           pos = Len(data), CleanNext
    PROVE  clean' = Append(clean, w) /\ cleaning' = "finished" /\ UNCHANGED <<data, pos>>
  <1>1. InHand = {w} /\ data[Len(data)] = w
    BY DEF WordInHand, InHand
  <1>2. w.kind # "error" /\ w.kind # "meta" /\ Unexpected(w) /\ ~IsEdge(w)
    BY DEF IsNext, IsHeader, IsEdge, Unexpected
  <1>3. ~FinishCleaning
    BY DEF WordInHand, FinishCleaning
  <1>4. ~(pos + Distance <= Len(data))
    BY DEF Distance, metadataSize
  <1>5. ~CopyWord /\ ~SkipError /\ ~CopyEmptyOne
    BY <1>1, <1>2 DEF CopyWord, SkipError, CopyEmptyOne
  <1>6. ~StopCleaning /\ ~LoseTheWay /\ ~SkipMetadata
    BY <1>1, <1>2, <1>4 DEF StopCleaning, LoseTheWay, SkipMetadata
  <1>7. StopAtEnd
    BY <1>3, <1>5, <1>6 DEF CleanNext
  <1> QED BY <1>1, <1>7 DEF StopAtEnd

\* At the end of the file the program finishes.
LEMMA TurnAtEnd ==
    ASSUME pos \in Nat, Len(data) \in Nat, pos > Len(data), CleanNext
    PROVE  cleaning' = "finished" /\ UNCHANGED <<data, pos, clean>>
  <1>1. InHand = {}
    BY DEF InHand
  <1>2. FinishCleaning
    BY <1>1 DEF CleanNext, CopyWord, SkipError, CopyEmptyOne, SkipMetadata, StopCleaning,
        StopAtEnd, LoseTheWay
  <1> QED BY <1>2 DEF FinishCleaning

\* Whatever is in hand, at most one word is written.
LEMMA TurnWrites ==
    ASSUME CleanNext
    PROVE  clean' = clean \/ \E e : clean' = Append(clean, e)
  <1>1. CASE CopyWord
    BY <1>1 DEF CopyWord, Write
  <1>2. CASE SkipError
    BY <1>2 DEF SkipError
  <1>3. CASE CopyEmptyOne
    BY <1>3 DEF CopyEmptyOne, Write
  <1>4. CASE SkipMetadata
    BY <1>4 DEF SkipMetadata, Write
  <1>5. CASE StopCleaning
    BY <1>5 DEF StopCleaning
  <1>6. CASE StopAtEnd
    BY <1>6 DEF StopAtEnd
  <1>7. CASE LoseTheWay
    BY <1>7 DEF LoseTheWay
  <1>8. CASE FinishCleaning
    BY <1>8 DEF FinishCleaning
  <1> QED BY <1>1, <1>2, <1>3, <1>4, <1>5, <1>6, <1>7, <1>8 DEF CleanNext

\* The program reads the file and goes forward in it.
LEMMA TurnReads ==
    ASSUME CleanNext, pos \in Nat \ {0}, Len(data) \in Nat
    PROVE  pos' \in Nat \ {0} /\ data' = data
  <1>1. CASE CopyWord
    BY <1>1 DEF CopyWord, Write
  <1>2. CASE SkipError
    BY <1>2 DEF SkipError, HeadersAfter
  <1>3. CASE CopyEmptyOne
    BY <1>3 DEF CopyEmptyOne, Write
  <1>4. CASE SkipMetadata
    BY <1>4 DEF SkipMetadata, Write, Distance, metadataSize
  <1>5. CASE StopCleaning
    BY <1>5 DEF StopCleaning
  <1>6. CASE StopAtEnd
    BY <1>6 DEF StopAtEnd
  <1>7. CASE LoseTheWay
    BY <1>7 DEF LoseTheWay
  <1>8. CASE FinishCleaning
    BY <1>8 DEF FinishCleaning
  <1> QED BY <1>1, <1>2, <1>3, <1>4, <1>5, <1>6, <1>7, <1>8 DEF CleanNext

--------------------------------------------------------------------------------
(* Where DeleteMeta is in the file, and what it has written by then. *)

\* Not more than one thing is wrong.
OneDamage == DamageOK /\ (errorWord = None \/ gap = -1)

\* The words of an event: edges, but for the error word.
LEMMA EdgesOfEvent ==
    ASSUME file \in Seq(WP!Packet), OneDamage, NEW k \in 1..Len(Written),
           NEW n, n = Written[k].nwords, NEW m, m = WordsLeft(k - 1, n)
    PROVE  /\ n \in Nat /\ m \in 0..n
           /\ EdgesLeft(k - 1) \in Seq(Edges) /\ Len(EdgesLeft(k - 1)) = m
           /\ \A i \in 1..m : EdgesLeft(k - 1)[i] = WordOf(k - 1, i)
           /\ \A i \in 1..n : i # m + 1 => IsEdge(WordOf(k - 1, i))
           /\ m < n => /\ WordOf(k - 1, m + 1).kind = "error"
                       /\ errorWord.event = k - 1 /\ gap = -1
  <1>1. Written \in Seq(EventRecord) /\ k - 1 \in Nat /\ (k - 1) + 1 = k
    BY WrittenType
  <1>2. n \in Nat
    <2>1. Written[k] \in EventRecord
      BY <1>1
    <2> QED BY <2>1 DEF EventRecord
  <1>3. CASE errorWord.event # k - 1
    <2>1. m = n
      BY <1>3 DEF WordsLeft
    <2>2. \A i : errorWord # [event |-> k - 1, place |-> i]
      BY <1>3
    <2>3. \A i : WordOf(k - 1, i) = Edge(1, k - 1, i)
      BY <2>2 DEF WordOf
    <2>4. EdgesLeft(k - 1) = [i \in 1..n |-> Edge(1, k - 1, i)]
      BY <1>1, <2>1 DEF EdgesLeft
    <2>5. \A i \in 1..n : Edge(1, k - 1, i) \in Edges /\ IsEdge(Edge(1, k - 1, i))
      BY <1>1, <1>2 DEF Edge, Edges, IsEdge
    <2> QED BY <1>2, <2>1, <2>3, <2>4, <2>5
  <1>4. CASE errorWord.event = k - 1
    <2>1. errorWord # None
      BY <1>1, <1>4 DEF None
    <2>2. errorWord \in WordsWritten /\ gap = -1
      BY <2>1 DEF OneDamage, DamageOK
    <2>3. PICK e \in 0 .. Len(Written) - 1 :
            errorWord \in {[event |-> e, place |-> i] : i \in 1 .. Written[e + 1].nwords}
      BY <2>2 DEF WordsWritten
    <2>4. PICK q \in 1 .. Written[e + 1].nwords : errorWord = [event |-> e, place |-> q]
      BY <2>3
    <2>5. e = k - 1
      BY <1>4, <2>4
    <2>6. q \in 1..n
      BY <1>1, <2>4, <2>5
    <2>7. errorWord = [event |-> k - 1, place |-> q]
      BY <2>4, <2>5
    <2>8. m = q - 1
      BY <1>4, <2>7 DEF WordsLeft
    <2>9. m \in 0..n /\ m + 1 = q /\ m < n /\ m \in Nat
      BY <1>2, <2>6, <2>8
    <2>10. \A i : i # q => WordOf(k - 1, i) = Edge(1, k - 1, i)
      <3> TAKE i
      <3> HAVE i # q
      <3>1. errorWord # [event |-> k - 1, place |-> i]
        <4>1. errorWord.place = q /\ [event |-> k - 1, place |-> i].place = i
          BY <2>7
        <4> QED BY ONLY <4>1, i # q
      <3> QED BY <3>1 DEF WordOf
    <2>11. WordOf(k - 1, q).kind = "error"
      BY <2>7 DEF WordOf
    <2>12. EdgesLeft(k - 1) = [i \in 1..m |-> Edge(1, k - 1, i)]
      BY <1>1 DEF EdgesLeft
    <2>13. \A i \in 1..n : Edge(1, k - 1, i) \in Edges /\ IsEdge(Edge(1, k - 1, i))
      BY <1>1, <1>2 DEF Edge, Edges, IsEdge
    <2>14. \A i \in 1..m : i \in 1..n /\ i # q
      BY <1>2, <2>9
    <2>15. EdgesLeft(k - 1) \in Seq(Edges) /\ Len(EdgesLeft(k - 1)) = m
           /\ \A i \in 1..m : EdgesLeft(k - 1)[i] = WordOf(k - 1, i)
      BY <2>9, <2>10, <2>12, <2>13, <2>14
    <2> QED BY <1>2, <1>4, <2>2, <2>9, <2>10, <2>11, <2>13, <2>15
  <1> QED BY <1>3, <1>4

\* Of which event the last header was.
HeaderRead(k) == previous_EVID = IF k = 0 THEN -1 ELSE (k - 1) % EvidMod

\* The first k events are written and the word in hand is the one behind them.
Between(H, k) ==
    /\ k \in 0..EventsToClean
    /\ pos = IF k = 0 THEN H[1] ELSE EndOf(Written, H, k) + 1
    /\ HeaderRead(k)
    /\ clean = UpTo(Mine, k)

\* j words of event k are written.
Within(H, k, j) ==
    /\ k \in 1..EventsToClean
    /\ j \in 0..Len(EdgesLeft(k - 1))
    /\ pos = H[k] + j + 1
    /\ HeaderRead(k)
    /\ clean \in Seq(Words)
    /\ clean \o SubSeq(EdgesLeft(k - 1), j + 1, Len(EdgesLeft(k - 1))) = UpTo(Mine, k)

OnItsWay == \E H : /\ Layout(data, Written, H)
                   /\ (\E k : Between(H, k)) \/ (\E k, j : Within(H, k, j))

\* After a missed trigger anything may follow the events that were in front of it.
Behind == gap # -1 /\ \E S : \E u \in Seq(S) : WordsToClean \in Seq(S) /\ clean = WordsToClean \o u

CleanPlace ==
    \/ Behind
    \/ cleaning = "on" /\ OnItsWay
    \/ cleaning \in {"finished", "hanging"} /\ clean = WordsToClean

\* What stays while the file is read.
InputStays == UNCHANGED <<file, errorWord, gap, runNumber, data>>

\* Places in the file mean the same as long as its input does not change.
LEMMA PlacesStay ==
    ASSUME InputStays
    PROVE  /\ Written' = Written /\ Mine' = Mine /\ WordsToClean' = WordsToClean
           /\ EventsToClean' = EventsToClean
           /\ \A e : EdgesLeft(e)' = EdgesLeft(e)
           /\ \A H : Layout(data, Written, H)' = Layout(data, Written, H)
  <1>1. UNCHANGED <<file, errorWord, gap>>
    BY DEF InputStays
  <1>2. Written' = Written
    BY <1>1 DEF Written
  <1>3. Mine' = Mine /\ WordsToClean' = WordsToClean
    BY <1>1, FilesStay
  <1>4. EventsToClean' = EventsToClean
    BY <1>1, <1>2 DEF EventsToClean
  <1>5. \A e : EdgesLeft(e)' = EdgesLeft(e)
    BY <1>1, <1>2 DEF EdgesLeft, WordsLeft
  <1>6. AllWords' = AllWords
    BY DEF InputStays, AllWords
  <1>7. \A H : Layout(data, Written, H)' = Layout(data, Written, H)
    <2>1. \A e : Evid(e)' = Evid(e)
      BY <1>1 DEF Evid
    <2>2. \A e, i : WordOf(e, i)' = WordOf(e, i)
      BY <1>1 DEF WordOf
    <2>3. \A i : WP!NextEvent(i)' = WP!NextEvent(i)
      BY <1>1 DEF WP!NextEvent
    <2> TAKE H
    <2>4. \A k : EventThere(data, Written, H, k)' = EventThere(data, Written, H, k)
      BY <1>2, <2>1, <2>2 DEF InputStays, EventThere
    <2>5. \A k : NextThere(data, Written, H, k)' = NextThere(data, Written, H, k)
      BY <1>2, <2>3 DEF InputStays, NextThere, EndOf
    <2> QED BY <1>2, <1>6, <2>4, <2>5 DEF InputStays, Layout, EndOf
  <1> QED BY <1>2, <1>3, <1>4, <1>5, <1>7

--------------------------------------------------------------------------------
(* From one event to the next. *)

\* The length of a packet as a header: no event, but for a full packet event 1 without
\* words.
LEMMA LengthWord ==
    ASSUME NEW L \in Nat, L > HighCount, L <= CountMod
    PROVE  /\ L < CountMod => HeaderOf(L) = Header(0, L)
           /\ L = CountMod => HeaderOf(L) = EmptyOne
           /\ IsHeader(HeaderOf(L))
  <1> DEFINE q == L \div CountMod
             r == L % CountMod
  <1>1. /\ CountMod \in Nat \ {0} /\ CountMod > 12 /\ EvidMod \in Nat \ {0} /\ EvidMod > 1
        /\ HighCount \in Nat
    BY FieldsAssumption DEF FieldsAssumption
  <1>2. r \in 0 .. CountMod - 1 /\ q \in Int /\ L = CountMod * q + r
    BY <1>1, Division
  <1>3. HeaderOf(L) = Header(q % EvidMod, r)
    BY DEF HeaderOf
  <1> HIDE DEF q, r
  <1>4. CASE L < CountMod
    <2>1. L \in 0 .. CountMod - 1 /\ CountMod * q + r = CountMod * 0 + L /\ 0 \in Int
      BY <1>1, <1>2, <1>4
    <2>2. r = L
      BY ONLY <1>1, <1>2, <2>1, Unique
    <2>3. q = 0
      <3>1. CountMod * q = 0
        BY <1>1, <1>2, <2>2
      <3> QED BY <1>1, <1>2, <3>1
    <2>4. (0 % EvidMod) = 0
      BY <1>1
    <2> QED BY <1>3, <1>4, <2>2, <2>3, <2>4 DEF Header, IsHeader
  <1>5. CASE L = CountMod
    <2>1. 0 \in 0 .. CountMod - 1 /\ CountMod * q + r = CountMod * 1 + 0 /\ 1 \in Int
      BY <1>1, <1>2, <1>5
    <2>2. r = 0
      BY ONLY <1>1, <1>2, <2>1, Unique
    <2>3. q = 1
      <3>1. CountMod * q = CountMod * 1
        BY <1>1, <1>2, <1>5, <2>2
      <3>2. CountMod * (q - 1) = 0
        BY <1>1, <1>2, <3>1
      <3> QED BY <1>1, <1>2, <3>2
    <2>4. (1 % EvidMod) = 1
      BY <1>1
    <2> QED BY <1>3, <1>5, <2>2, <2>3, <2>4 DEF Header, IsHeader, EmptyOne
  <1>6. (L < CountMod \/ L = CountMod) /\ ~(L < CountMod /\ L = CountMod)
    BY <1>1
  <1> QED BY ONLY <1>4, <1>5, <1>6

\* The EVIDs of events one behind the other.
LEMMA EvidsFollow ==
    ASSUME NEW k \in Nat
    PROVE  /\ (k % EvidMod) \in 0 .. EvidMod - 1
           /\ HeaderRead(k) => NextEVID = (k % EvidMod)
           /\ (k % EvidMod) = 1 =>
                k # 0 /\ ((k - 1) % EvidMod) = 0 /\ ((k + 1) % EvidMod) = (2 % EvidMod)
  <1>1. EvidMod \in Nat \ {0} /\ EvidMod > 1
    BY FieldsAssumption DEF FieldsAssumption
  <1>2. (k % EvidMod) \in 0 .. EvidMod - 1
    BY <1>1, Division
  <1>3. ASSUME HeaderRead(k) PROVE NextEVID = (k % EvidMod)
    <2>1. CASE k = 0
      <3>1. previous_EVID + 1 = k
        BY <1>3, <2>1 DEF HeaderRead
      <3> QED BY <3>1 DEF NextEVID
    <2>2. CASE k # 0
      <3> DEFINE a == k - 1
      <3>1. a \in Int /\ a + 1 = k /\ 1 \in Int
        OBVIOUS
      <3>2. previous_EVID = (a % EvidMod)
        BY <1>3, <2>2 DEF HeaderRead
      <3> HIDE DEF a
      <3>3. (((a % EvidMod) + 1) % EvidMod) = ((a + 1) % EvidMod)
        BY ONLY <1>1, <3>1, ModAdd
      <3> QED BY <3>1, <3>2, <3>3 DEF NextEVID
    <2> QED BY <2>1, <2>2
  <1>4. ASSUME (k % EvidMod) = 1
        PROVE  k # 0 /\ ((k - 1) % EvidMod) = 0 /\ ((k + 1) % EvidMod) = (2 % EvidMod)
    <2>1. k \in Int /\ -1 \in Int /\ 1 \in Int
      OBVIOUS
    <2>2. (((k % EvidMod) + (-1)) % EvidMod) = ((k + (-1)) % EvidMod)
      BY ONLY <1>1, <2>1, ModAdd
    <2>3. (((k % EvidMod) + 1) % EvidMod) = ((k + 1) % EvidMod)
      BY ONLY <1>1, <2>1, ModAdd
    <2>4. (0 % EvidMod) = 0
      BY <1>1
    <2>5. 1 + (-1) = 0 /\ 1 + 1 = 2 /\ k + (-1) = k - 1
      OBVIOUS
    <2>6. k # 0
      BY ONLY <1>4, <2>4
    <2> QED BY ONLY <1>4, <2>2, <2>3, <2>4, <2>5, <2>6
  <1> QED BY <1>2, <1>3, <1>4

\* The place of an event in the file, and its words.
LEMMA EventFound ==
    ASSUME Recorded, OneDamage, NEW H, Layout(data, Written, H), NEW k \in 1..EventsToClean,
           NEW n, n = Written[k].nwords
    PROVE  /\ k \in 1..Len(Written) /\ k \in Nat /\ n \in Nat /\ n < CountLimit
           /\ Mine \in Seq(Seq(Words)) /\ Len(Mine) = EventsToClean
           /\ Mine[k] = <<Header((k - 1) % EvidMod, n)>> \o EdgesLeft(k - 1)
           /\ Header((k - 1) % EvidMod, n) \in Words /\ EdgesLeft(k - 1) \in Seq(Words)
           /\ H[k] \in 1..Len(data) /\ H[k] + n <= Len(data) /\ Len(data) \in Nat
           /\ data[H[k]] = Header((k - 1) % EvidMod, n)
           /\ \A i \in 1..n : data[H[k] + i] = WordOf(k - 1, i)
  <1>1. file \in Seq(WP!Packet) /\ DamageOK
    BY DEF Recorded, OneDamage
  <1>2. /\ EventsToClean \in 0 .. Len(Written)
        /\ Mine \in Seq(Seq(Words)) /\ Len(Mine) = EventsToClean
        /\ EdgesLeft(k - 1) \in Seq(Edges) /\ n \in Nat
        /\ Mine[k] = <<Header((k - 1) % EvidMod, n)>> \o EdgesLeft(k - 1)
    BY <1>1, MineEvents
  <1>3. Len(Written) \in Nat /\ Len(data) \in Nat
    BY DEF Layout
  <1>4. k \in 1..Len(Written) /\ k \in Nat \ {0}
    BY <1>2, <1>3
  <1>5. EventThere(data, Written, H, k)
    BY <1>4 DEF Layout
  <1>6. Evid(k - 1) = ((k - 1) % EvidMod)
    <2>1. ~(gap # -1 /\ k - 1 >= gap)
      <3>1. CASE gap = -1
        BY <3>1
      <3>2. CASE gap # -1
        <4>1. gap \in 1 .. Len(Written) - 1 /\ EventsToClean = gap
          BY <1>1, <3>2 DEF DamageOK, EventsToClean
        <4> QED BY <1>3, <4>1
      <3> QED BY <3>1, <3>2
    <2> QED BY <2>1 DEF Evid
  <1>7. Header((k - 1) % EvidMod, n) \in Words
    BY <1>2, <1>4, HeaderWord
  <1>8. EdgesLeft(k - 1) \in Seq(Words)
    BY <1>2 DEF Words
  <1>9. H[k] \in 1..Len(data)
    <2>1. /\ n \in Nat /\ Len(data) \in Nat /\ H[k] \in Nat /\ H[k] > 0
          /\ H[k] + n <= Len(data)
      BY <1>2, <1>3, <1>5 DEF EventThere
    <2> QED BY ONLY <2>1
  <1> QED BY <1>2, <1>3, <1>4, <1>5, <1>6, <1>7, <1>8, <1>9 DEF EventThere

\* The header of the next event is written.
LEMMA EventStarts ==
    ASSUME Recorded, OneDamage, NEW H, Layout(data, Written, H), NEW k \in Nat,
           k + 1 \in 1..EventsToClean, HeaderRead(k), clean = UpTo(Mine, k), InputStays,
           Write(Header(k % EvidMod, Written[k + 1].nwords), H[k + 1] + 1)
    PROVE  Within(H, k + 1, 0)'
  <1> DEFINE n == Written[k + 1].nwords
             w == Header(k % EvidMod, n)
             x == EdgesLeft(k)
             m == Len(x)
  <1>1. k + 1 \in 1..EventsToClean /\ (k + 1) - 1 = k
    OBVIOUS
  <1>2. /\ Mine \in Seq(Seq(Words)) /\ Len(Mine) = EventsToClean
        /\ Mine[k + 1] = <<Header(((k + 1) - 1) % EvidMod, n)>> \o EdgesLeft((k + 1) - 1)
        /\ Header(((k + 1) - 1) % EvidMod, n) \in Words /\ EdgesLeft((k + 1) - 1) \in Seq(Words)
        /\ H[k + 1] \in 1..Len(data)
    BY <1>1, EventFound
  <1>3. Mine[k + 1] = <<w>> \o x /\ w \in Words /\ x \in Seq(Words)
    BY ONLY <1>1, <1>2
  <1>4. ~IsEdge(w)
    BY DEF Header, IsEdge
  <1> HIDE DEF n, w, x
  <1>5. clean' = Append(clean, w) /\ pos' = H[k + 1] + 1 /\ previous_EVID' = NextEVID
    BY <1>4 DEF Write, w, n
  <1>6. NextEVID = (k % EvidMod)
    BY EvidsFollow
  <1>7. Append(UpTo(Mine, k), w) \o x = UpTo(Mine, k + 1) /\ UpTo(Mine, k) \in Seq(Words)
    <2>1. k + 1 \in 1..Len(Mine) /\ k \in 0..Len(Mine)
      BY <1>1, <1>2
    <2>2. Append(UpTo(Mine, (k + 1) - 1), w) \o x = UpTo(Mine, k + 1)
      BY ONLY <1>2, <1>3, <2>1, BeginEvent
    <2>3. UpTo(Mine, k) \in Seq(Words)
      BY ONLY <1>2, <2>1, UpToStep
    <2> QED BY ONLY <1>1, <2>2, <2>3
  <1>8. clean' \in Seq(Words) /\ clean' \o x = UpTo(Mine, k + 1)
    BY <1>3, <1>5, <1>7
  <1>9. m \in Nat /\ SubSeq(x, 0 + 1, m) = x
    <2>1. SubSeq(x, 1, Len(x)) = x
      BY <1>3, SubSeqFull
    <2>2. 0 + 1 = 1
      OBVIOUS
    <2> QED BY ONLY <1>3, <2>1, <2>2
  <1>10. 0 \in 0..m /\ pos' = H[k + 1] + 0 + 1
    BY <1>2, <1>5, <1>9
  <1>11. previous_EVID' = IF k + 1 = 0 THEN -1 ELSE ((k + 1) - 1) % EvidMod
    BY <1>1, <1>5, <1>6
  <1>12. Mine' = Mine /\ EventsToClean' = EventsToClean /\ x = EdgesLeft((k + 1) - 1)'
    BY <1>1, PlacesStay DEF x
  <1>13. UpTo(Mine, k + 1)' = UpTo(Mine, k + 1)
    BY <1>12 DEF UpTo
  <1>14. HeaderRead(k + 1)'
    BY <1>11 DEF HeaderRead
  <1>15. clean' \o SubSeq(x, 0 + 1, m) = UpTo(Mine, k + 1)
    BY ONLY <1>8, <1>9
  <1> QED BY <1>1, <1>8, <1>10, <1>12, <1>13, <1>14, <1>15 DEF Within

\* An edge of event k is written.
LEMMA EdgeStep ==
    ASSUME Recorded, OneDamage, NEW H, Layout(data, Written, H), cleaning = "on",
           NEW k, NEW j, Within(H, k, j), j < Len(EdgesLeft(k - 1)), CleanNext, InputStays
    PROVE  cleaning' = "on" /\ Within(H, k, j + 1)'
  <1> DEFINE n == Written[k].nwords
             s == EdgesLeft(k - 1)
             m == Len(s)
             w == WordOf(k - 1, j + 1)
             r == SubSeq(s, j + 1, m)
  <1>1. /\ k \in 1..EventsToClean /\ j \in 0..m /\ j < m /\ pos = H[k] + j + 1
        /\ clean \in Seq(Words) /\ clean \o r = UpTo(Mine, k) /\ HeaderRead(k)
    BY DEF Within
  <1>2. /\ k \in 1..Len(Written) /\ n \in Nat /\ H[k] \in 1..Len(data) /\ H[k] + n <= Len(data)
        /\ Len(data) \in Nat /\ s \in Seq(Words)
        /\ \A i \in 1..n : data[H[k] + i] = WordOf(k - 1, i)
    BY <1>1, EventFound
  <1>3. /\ m \in 0..n
        /\ \A i \in 1..m : s[i] = WordOf(k - 1, i)
        /\ \A i \in 1..n : i # m + 1 => IsEdge(WordOf(k - 1, i))
    <2>1. file \in Seq(WP!Packet)
      BY DEF Recorded
    <2> DEFINE l == WordsLeft(k - 1, n)
    <2>2. /\ l \in 0..n /\ Len(EdgesLeft(k - 1)) = l
          /\ \A i \in 1..l : EdgesLeft(k - 1)[i] = WordOf(k - 1, i)
          /\ \A i \in 1..n : i # l + 1 => IsEdge(WordOf(k - 1, i))
      BY <1>2, <2>1, EdgesOfEvent
    <2> HIDE DEF l
    <2> QED BY <2>2
  <1> HIDE DEF n, s, m
  <1>4. j + 1 \in 1..n /\ j + 1 \in 1..m /\ j + 1 # m + 1 /\ pos = H[k] + (j + 1)
        /\ m \in Nat /\ j \in Nat
    <2>1. m \in 0..n /\ n \in Nat /\ j \in 0..m /\ j < m
      BY <1>1, <1>2, <1>3
    <2>2. m \in Nat /\ j \in Nat
      BY ONLY <2>1
    <2>3. j + 1 \in 1..n /\ j + 1 \in 1..m /\ j + 1 # m + 1
      BY ONLY <2>1, <2>2
    <2>4. H[k] \in Nat /\ pos = H[k] + j + 1
      BY <1>1, <1>2
    <2>5. pos = H[k] + (j + 1)
      BY ONLY <2>2, <2>4
    <2> QED BY <2>2, <2>3, <2>5
  <1>5. data[pos] = w /\ IsEdge(w) /\ pos \in 1..Len(data)
    <2>1. data[H[k] + (j + 1)] = w /\ IsEdge(w)
      BY <1>2, <1>3, <1>4
    <2>2. H[k] + (j + 1) \in 1..Len(data)
      <3>1. /\ n \in Nat /\ j + 1 \in 1..n /\ H[k] \in 1..Len(data) /\ Len(data) \in Nat
            /\ H[k] + n <= Len(data)
        BY <1>2, <1>4
      <3> QED BY ONLY <3>1
    <2> HIDE DEF w
    <2> QED BY <1>4, <2>1, <2>2
  <1>6. Write(w, pos + 1) /\ UNCHANGED <<data, cleaning>>
    <2>1. WordInHand(w)
      BY <1>5 DEF WordInHand
    <2> HIDE DEF w
    <2> QED BY <1>5, <2>1, TurnOnEdge
  <1>7. clean' = Append(clean, w) /\ pos' = pos + 1 /\ previous_EVID' = previous_EVID
    BY <1>5, <1>6 DEF Write
  <1>8. /\ r \in Seq(Words) /\ r # <<>> /\ Head(r) = w /\ Tail(r) = SubSeq(s, (j + 1) + 1, m)
    <2>1. m = Len(s) /\ j + 1 \in 1..Len(s) /\ m \in (j + 1) .. Len(s) /\ s \in Seq(Words)
      BY <1>2, <1>4 DEF m
    <2>2. w = s[j + 1]
      BY <1>3, <1>4
    <2>3. Head(r) = s[j + 1] /\ Tail(r) = SubSeq(s, (j + 1) + 1, m)
      BY ONLY <2>1, HeadTailOfSubSeq
    <2>4. /\ j + 1 \in Int /\ m \in Int /\ j + 1 <= m /\ m - (j + 1) + 1 # 0
          /\ \A i \in (j + 1) .. m : s[i] \in Words
      BY <1>4, <2>1
    <2>5. r \in Seq(Words) /\ Len(r) = m - (j + 1) + 1
      BY ONLY <2>4, SubSeqProperties
    <2> HIDE DEF r, w
    <2>6. r # <<>>
      BY ONLY <2>4, <2>5
    <2> QED BY ONLY <2>2, <2>3, <2>5, <2>6
  <1> DEFINE t == SubSeq(s, (j + 1) + 1, m)
  <1>9. clean' \in Seq(Words) /\ clean' \o t = UpTo(Mine, k)
    <2> HIDE DEF r, t
    <2>1. Tail(r) = t
      BY ONLY <1>8 DEF t
    <2>2. clean \in Seq(Words) /\ r \in Seq(Words) /\ r # <<>> /\ <<>> \in Seq(Words)
      BY <1>1, <1>8
    <2>3. Append(clean, Head(r)) \in Seq(Words)
          /\ Append(clean, Head(r)) \o (Tail(r) \o <<>>) = clean \o (r \o <<>>)
      BY ONLY <2>2, MoveWord
    <2>4. t \in Seq(Words)
      BY ONLY <2>1, <2>2, HeadTailProperties
    <2>5. t \o <<>> = t /\ r \o <<>> = r
      BY ONLY <2>2, <2>4, ConcatEmptySeq
    <2> QED BY ONLY <1>1, <1>7, <1>8, <2>1, <2>3, <2>5
  <1>10. /\ EventsToClean' = EventsToClean /\ Mine' = Mine /\ EdgesLeft(k - 1)' = EdgesLeft(k - 1)
    BY PlacesStay
  <1>11. UpTo(Mine, k)' = UpTo(Mine, k)
    BY <1>10 DEF UpTo
  <1>12. HeaderRead(k)'
    BY <1>1, <1>7 DEF HeaderRead
  <1>13. j + 1 \in 0..m /\ pos' = H[k] + (j + 1) + 1
    BY <1>2, <1>4, <1>7
  <1> HIDE DEF t
  <1>14. s = EdgesLeft(k - 1)' /\ m = Len(EdgesLeft(k - 1)')
    BY <1>10 DEF s, m
  <1>15. k \in 1..EventsToClean'
    BY <1>1, <1>10
  <1> QED BY <1>6, <1>9, <1>11, <1>12, <1>13, <1>14, <1>15 DEF Within, t

\* An event is complete in the file: all of its words are written.
LEMMA EventEnds ==
    ASSUME Recorded, OneDamage, NEW H, Layout(data, Written, H),
           NEW k, NEW j, Within(H, k, j), j = Written[k].nwords
    PROVE  Between(H, k)
  <1> DEFINE n == Written[k].nwords
             s == EdgesLeft(k - 1)
             m == Len(s)
  <1>1. /\ k \in 1..EventsToClean /\ j \in 0..m /\ pos = H[k] + j + 1
        /\ clean \in Seq(Words) /\ clean \o SubSeq(s, j + 1, m) = UpTo(Mine, k) /\ HeaderRead(k)
    BY DEF Within
  <1>2. k \in 1..Len(Written) /\ n \in Nat /\ s \in Seq(Words) /\ k \in Nat
        /\ Len(Mine) = EventsToClean
    BY <1>1, EventFound
  <1>3. m \in 0..n
    <2>1. file \in Seq(WP!Packet)
      BY DEF Recorded
    <2> DEFINE l == WordsLeft(k - 1, n)
    <2>2. l \in 0..n /\ Len(EdgesLeft(k - 1)) = l
      BY <1>2, <2>1, EdgesOfEvent
    <2> QED BY <2>2
  <1>4. j = m
    BY <1>1, <1>2, <1>3
  <1>5. SubSeq(s, j + 1, m) = <<>>
    BY <1>1, <1>4, SubSeqEmpty
  <1>6. clean = UpTo(Mine, k)
    BY <1>1, <1>5, ConcatEmptySeq
  <1>7. k \in 0..EventsToClean /\ k # 0
    <2>1. EventsToClean \in Nat
      BY <1>2
    <2> QED BY <1>1, <2>1
  <1> QED BY <1>1, <1>6, <1>7 DEF Between, EndOf

\* Behind an event comes the next one, or the length of the next packet.
LEMMA WhatFollows ==
    ASSUME Recorded, NEW H, Layout(data, Written, H), NEW k \in 0 .. Len(Written) - 1,
           NEW e, e = EndOf(Written, H, k) + 1
    PROVE  /\ e \in 1..Len(data) /\ IsHeader(data[e]) /\ Len(data) \in Nat
           /\ H[k + 1] \in 1..Len(data)
           /\ \/ k # 0 /\ H[k + 1] = e
              \/ /\ H[k + 1] = e + metadataSize
                 /\ \E i \in 1..Len(file) :
                      LET L == file[i].nDataWords + metadataSize
                      IN  /\ L \in Nat /\ L > HighCount /\ L <= CountMod
                          /\ data[e] = HeaderOf(L) /\ data[e + 1] = runNumber
                          /\ k # 0 => i \in 2..Len(file) /\ LastOf(i - 1) = k - 1
  <1>1. /\ Len(data) \in Nat /\ Written \in Seq(EventRecord) /\ Len(Written) \in Nat
        /\ Len(data) = EndOf(Written, H, Len(Written))
        /\ \A l \in 1..Len(Written) : EventThere(data, Written, H, l)
        /\ NextThere(data, Written, H, k)
    BY DEF Layout
  <1>2. k \in Nat /\ k + 1 \in 1..Len(Written)
    BY <1>1
  <1>3. \A l \in 1..Len(Written) : Written[l].nwords \in Nat
    <2> TAKE l \in 1..Len(Written)
    <2>1. Written[l] \in EventRecord
      BY <1>1
    <2> QED BY <2>1 DEF EventRecord
  <1>4. H[k + 1] \in 1..Len(data) /\ IsHeader(data[H[k + 1]])
    <2>1. EventThere(data, Written, H, k + 1) /\ Written[k + 1].nwords \in Nat
      BY <1>1, <1>2, <1>3
    <2>2. /\ H[k + 1] \in Nat /\ H[k + 1] > 0 /\ H[k + 1] + Written[k + 1].nwords <= Len(data)
          /\ data[H[k + 1]] = Header(Evid((k + 1) - 1), Written[k + 1].nwords)
      BY <2>1 DEF EventThere
    <2>3. H[k + 1] \in 1..Len(data)
      BY <1>1, <2>1, <2>2
    <2>4. IsHeader(data[H[k + 1]])
      BY <2>2 DEF IsHeader, Header
    <2> QED BY <2>3, <2>4
  <1>5. e \in Nat \ {0}
    <2>1. CASE k = 0
      BY <2>1 DEF EndOf
    <2>2. CASE k # 0
      <3>1. k \in 1..Len(Written)
        BY <1>1, <2>2
      <3>2. H[k] \in Nat
        BY <1>1, <3>1 DEF EventThere
      <3> QED BY <1>3, <2>2, <3>1, <3>2 DEF EndOf
    <2> QED BY <2>1, <2>2
  <1>6. CASE k # 0 /\ H[k + 1] = e
    BY <1>1, <1>4, <1>6
  <1>7. ASSUME H[k + 1] = EndOf(Written, H, k) + 12, NEW i \in 1..Len(file),
               WP!NextEvent(i - 1) = k,
               data[EndOf(Written, H, k) + 1] = HeaderOf(file[i].nDataWords + metadataSize),
               data[EndOf(Written, H, k) + 2] = runNumber
        PROVE  /\ e \in 1..Len(data) /\ IsHeader(data[e])
               /\ H[k + 1] = e + metadataSize
               /\ LET L == file[i].nDataWords + metadataSize
                  IN  /\ L \in Nat /\ L > HighCount /\ L <= CountMod
                      /\ data[e] = HeaderOf(L) /\ data[e + 1] = runNumber
                      /\ k # 0 => i \in 2..Len(file) /\ LastOf(i - 1) = k - 1
    <2> DEFINE q == EndOf(Written, H, k)
               L == file[i].nDataWords + metadataSize
    <2>1. file[i] \in WP!Packet /\ LikePacket(file[i])
      BY DEF Recorded
    <2>2. file[i].nDataWords \in Nat
      BY <2>1 DEF WP!Packet
    <2>3. L \in Nat /\ L > HighCount /\ L <= CountMod
      BY <2>1, <2>2 DEF LikePacket, metadataSize
    <2>4. e = q + 1 /\ H[k + 1] = q + 12 /\ data[q + 1] = HeaderOf(L) /\ data[q + 2] = runNumber
      BY <1>7
    <2>5. q \in Int
      <3>1. CASE k = 0
        BY <3>1 DEF EndOf
      <3>2. CASE k # 0
        <4>1. k \in 1..Len(Written)
          BY <1>1, <3>2
        <4>2. H[k] \in Nat
          BY <1>1, <4>1 DEF EventThere
        <4> QED BY <1>3, <3>2, <4>1, <4>2 DEF EndOf
      <3> QED BY <3>1, <3>2
    <2> HIDE DEF q, L
    <2>6. e + 1 = q + 2 /\ H[k + 1] = e + metadataSize /\ e \in 1..Len(data)
      BY <1>1, <1>4, <1>5, <2>4, <2>5 DEF metadataSize
    <2>7. IsHeader(data[e])
      BY <2>3, <2>4, LengthWord
    <2>8. ASSUME k # 0 PROVE i \in 2..Len(file) /\ LastOf(i - 1) = k - 1
      <3>1. i - 1 # 0
        BY <1>7, <2>8 DEF WP!NextEvent
      <3>2. Len(file) \in Nat
        BY DEF Recorded
      <3>3. i \in 2..Len(file)
        BY <3>1, <3>2
      <3>4. file[i - 1].evtNumber = k
        BY <1>7, <3>1 DEF WP!NextEvent
      <3> QED BY <3>3, <3>4 DEF LastOf
    <2> QED BY <2>3, <2>4, <2>6, <2>7, <2>8 DEF L
  <1> QED BY <1>1, <1>4, <1>6, <1>7 DEF NextThere

\* What is left of an event with an error word is skipped; in the last event there is no end
\* to that.
LEMMA ErrorStep ==
    ASSUME Recorded, OneDamage, NEW H, Layout(data, Written, H), cleaning = "on",
           NEW k, NEW j, Within(H, k, j), j = Len(EdgesLeft(k - 1)), j < Written[k].nwords,
           CleanNext, InputStays
    PROVE  \/ cleaning' = "on" /\ Between(H, k)'
           \/ cleaning' = "hanging" /\ clean' = WordsToClean'
  <1> DEFINE n == Written[k].nwords
             s == EdgesLeft(k - 1)
             w == WordOf(k - 1, j + 1)
             e == EndOf(Written, H, k) + 1
  <1>1. /\ k \in 1..EventsToClean /\ pos = H[k] + j + 1 /\ HeaderRead(k)
        /\ clean \in Seq(Words) /\ clean \o SubSeq(s, j + 1, Len(s)) = UpTo(Mine, k)
    BY DEF Within
  <1>2. /\ k \in 1..Len(Written) /\ k \in Nat /\ n \in Nat
        /\ H[k] \in 1..Len(data) /\ H[k] + n <= Len(data) /\ Len(data) \in Nat
        /\ \A i \in 1..n : data[H[k] + i] = WordOf(k - 1, i)
        /\ Mine \in Seq(Seq(Words)) /\ Len(Mine) = EventsToClean /\ s \in Seq(Words)
    BY <1>1, EventFound
  <1>3. /\ j \in 0..n /\ w.kind = "error" /\ gap = -1
        /\ \A i \in 1..n : i # j + 1 => IsEdge(WordOf(k - 1, i))
    <2>1. file \in Seq(WP!Packet)
      BY DEF Recorded
    <2> DEFINE l == WordsLeft(k - 1, n)
    <2>2. /\ l \in 0..n /\ Len(EdgesLeft(k - 1)) = l
          /\ \A i \in 1..n : i # l + 1 => IsEdge(WordOf(k - 1, i))
          /\ l < n => WordOf(k - 1, l + 1).kind = "error" /\ gap = -1
      BY <1>2, <2>1, EdgesOfEvent
    <2>3. l = j
      BY <2>2
    <2> HIDE DEF l
    <2> QED BY <2>2, <2>3
  <1>4. clean = UpTo(Mine, k)
    <2>1. j = Len(s) /\ j \in Nat
      BY <1>3
    <2>2. SubSeq(s, j + 1, Len(s)) = <<>>
      BY <2>1, SubSeqEmpty
    <2> QED BY <1>1, <2>2, ConcatEmptySeq
  <1> HIDE DEF n, s, w
  <1>5. EventsToClean = Len(Written)
    BY <1>3 DEF EventsToClean
  <1>6. j < n
    BY DEF n
  <1>7. e = H[k] + n + 1
    <2>1. k # 0
      BY <1>2
    <2> QED BY <2>1 DEF EndOf, n
  <1> HIDE DEF e
  <1>8. /\ n \in Nat /\ H[k] \in Nat /\ Len(data) \in Nat /\ H[k] > 0 /\ H[k] + n <= Len(data)
         /\ j \in Nat /\ j < n /\ pos = H[k] + j + 1 /\ e = H[k] + n + 1
    <2>1. n \in Nat /\ H[k] \in 1..Len(data) /\ Len(data) \in Nat /\ H[k] + n <= Len(data)
      BY <1>2
    <2>2. j \in Nat
      BY <1>3, <2>1
    <2>3. H[k] \in Nat /\ H[k] > 0
      BY ONLY <2>1
    <2> QED BY <1>1, <1>6, <1>7, <2>1, <2>2, <2>3
  <1>9. pos \in 1..Len(data) /\ data[pos] = w /\ pos < e
    <2>1. j + 1 \in 1..n /\ pos = H[k] + (j + 1)
      BY ONLY <1>8
    <2>2. data[pos] = w
      BY <1>2, <2>1 DEF w
    <2>3. pos \in 1..Len(data) /\ pos < e
      BY ONLY <1>8
    <2> QED BY <2>2, <2>3
  <1>10. SkipError
    <2>1. WordInHand(w)
      BY <1>9 DEF WordInHand
    <2> QED BY <1>3, <2>1, TurnOnError
  <1>11. UNCHANGED <<data, previous_EVID, clean>>
    BY <1>10 DEF SkipError
  <1>12. ASSUME NEW i \in pos + 1 .. Len(data), IsHeader(data[i])
         PROVE  i >= e
    <2> SUFFICES ASSUME ~(i >= e) PROVE FALSE
      OBVIOUS
    <2> DEFINE l == i - H[k]
    <2>1. i \in Int /\ i > pos /\ i < e
      BY <1>8
    <2>2. l \in 1..n /\ l # j + 1 /\ H[k] + l = i
      BY ONLY <1>8, <2>1, SMTT(20)
    <2> HIDE DEF l
    <2>3. data[i] = WordOf(k - 1, l) /\ IsEdge(WordOf(k - 1, l))
      BY <1>2, <1>3, <2>2
    <2> QED BY <1>12, <2>3 DEF IsHeader, IsEdge
  <1>13. /\ EventsToClean' = EventsToClean /\ Mine' = Mine /\ Written' = Written
         /\ WordsToClean' = WordsToClean
    BY PlacesStay
  <1>14. CASE k < Len(Written)
    <2>1. k \in 0 .. Len(Written) - 1
      BY <1>2, <1>14
    <2>2. e \in 1..Len(data) /\ IsHeader(data[e])
      BY <2>1, WhatFollows DEF e
    <2>3. e \in HeadersAfter(pos) /\ pos \in Nat
      BY <1>2, <1>9, <2>2 DEF HeadersAfter
    <2>4. pos' = e /\ cleaning' = cleaning
      <3>1. PICK i \in HeadersAfter(pos) :
              (\A l \in HeadersAfter(pos) : i <= l) /\ pos' = i /\ cleaning' = cleaning
        BY <1>10, <2>3 DEF SkipError
      <3>2. i >= e /\ i <= e /\ i \in Int /\ e \in Int
        <4>1. i \in pos + 1 .. Len(data) /\ IsHeader(data[i])
          BY DEF HeadersAfter
        <4>2. i >= e
          BY <1>12, <4>1
        <4> QED BY <1>2, <2>2, <2>3, <3>1, <4>1, <4>2
      <3> QED BY <3>1, <3>2
    <2>5. Between(H, k)'
      <3>1. k \in 0..EventsToClean' /\ k # 0
        BY <1>2, <1>5, <1>13
      <3>2. pos' = EndOf(Written, H, k)' + 1
        BY <1>13, <2>4 DEF e, EndOf
      <3>3. HeaderRead(k)'
        BY <1>1, <1>11 DEF HeaderRead
      <3>4. clean' = UpTo(Mine, k)'
        BY <1>4, <1>11, <1>13 DEF UpTo
      <3> QED BY <3>1, <3>2, <3>3, <3>4 DEF Between
    <2> QED BY <2>4, <2>5
  <1>15. CASE k = Len(Written)
    <2>1. e = Len(data) + 1
      BY <1>2, <1>15 DEF Layout, e
    <2>2. HeadersAfter(pos) = {}
      <3> SUFFICES ASSUME NEW i \in HeadersAfter(pos) PROVE FALSE
        OBVIOUS
      <3>1. i \in pos + 1 .. Len(data) /\ IsHeader(data[i])
        BY DEF HeadersAfter
      <3>2. i >= e
        BY <1>12, <3>1
      <3> QED BY <1>2, <1>9, <2>1, <3>1, <3>2
    <2>3. cleaning' = "hanging"
      BY <1>10, <2>2 DEF SkipError
    <2>4. UpTo(Mine, k) = WordsToClean
      <3>1. k = Len(Mine)
        BY <1>2, <1>5, <1>15
      <3>2. UpTo(Mine, k) = FlattenSeq(Mine)
        BY <1>2, <3>1, UpToStep
      <3> QED BY <3>2, FilesAreEvents
    <2> QED BY <1>4, <1>11, <1>13, <2>3, <2>4
  <1>16. k < Len(Written) \/ k = Len(Written)
    BY <1>2
  <1> QED BY <1>14, <1>15, <1>16

\* Behind the last event the program finishes.
LEMMA EndStep ==
    ASSUME Recorded, OneDamage, NEW H, Layout(data, Written, H), Len(Written) # 0,
           NEW k, Between(H, k), k = Len(Written), CleanNext, InputStays
    PROVE  cleaning' = "finished" /\ clean' = WordsToClean'
  <1>1. Written \in Seq(EventRecord) /\ Len(Written) \in Nat /\ Len(data) \in Nat
        /\ Len(data) = EndOf(Written, H, Len(Written))
    BY DEF Layout
  <1>2. file \in Seq(WP!Packet) /\ DamageOK
    BY DEF Recorded, OneDamage
  <1>3. /\ EventsToClean \in 0 .. Len(Written)
        /\ Mine \in Seq(Seq(Words)) /\ Len(Mine) = EventsToClean
    BY <1>2, MineEvents
  <1>4. k \in 0..EventsToClean /\ clean = UpTo(Mine, k) /\ k # 0
        /\ pos = EndOf(Written, H, k) + 1
    BY DEF Between
  <1>5. k = Len(Mine)
    BY <1>1, <1>3, <1>4
  <1>6. clean = WordsToClean
    <2>1. UpTo(Mine, Len(Mine)) = FlattenSeq(Mine)
      BY <1>3, UpToStep
    <2> QED BY <1>4, <1>5, <2>1, FilesAreEvents
  <1>7. pos \in Nat /\ pos > Len(data)
    BY <1>1, <1>4
  <1>8. cleaning' = "finished" /\ UNCHANGED <<data, pos, clean>>
    BY <1>1, <1>7, TurnAtEnd
  <1> QED BY <1>6, <1>8, PlacesStay

\* Once all that was in front of a missed trigger is written, it stays written.
LEMMA BehindStep ==
    ASSUME Behind, CleanNext, InputStays
    PROVE  Behind'
  <1>1. PICK S : \E u \in Seq(S) : WordsToClean \in Seq(S) /\ clean = WordsToClean \o u
    BY DEF Behind
  <1>2. PICK u \in Seq(S) : WordsToClean \in Seq(S) /\ clean = WordsToClean \o u
    BY <1>1
  <1>3. gap' = gap /\ gap # -1 /\ WordsToClean' = WordsToClean
    BY PlacesStay DEF InputStays, Behind
  <1>4. CASE clean' = clean
    BY <1>2, <1>3, <1>4 DEF Behind
  <1>5. ASSUME NEW x, clean' = Append(clean, x) PROVE Behind'
    <2> DEFINE T == S \cup {x}
               a == WordsToClean
               v == <<x>>
    <2>1. a \in Seq(T) /\ u \in Seq(T) /\ v \in Seq(T) /\ x \in T
      BY <1>2
    <2> HIDE DEF T
    <2>2. a \o u \in Seq(T)
      BY <2>1, ConcatProperties
    <2>3. Append(a \o u, x) = (a \o u) \o v
      BY <2>1, <2>2, AppendIsConcat
    <2>4. clean' = Append(a \o u, x)
      BY <1>2, <1>5
    <2>5. WordsToClean' = a
      BY <1>3
    <2> HIDE DEF a, v
    <2>6. a \in Seq(T) /\ u \in Seq(T) /\ v \in Seq(T)
      BY <2>1
    <2>7. (a \o u) \o v = a \o (u \o v)
      BY ONLY <2>6, ConcatAssociative, SMTT(20)
    <2>8. u \o v \in Seq(T)
      BY ONLY <2>6, ConcatProperties
    <2>9. clean' = a \o (u \o v)
      BY ONLY <2>3, <2>4, <2>7
    <2>10. \E z \in Seq(T) : WordsToClean' \in Seq(T) /\ clean' = WordsToClean' \o z
      BY ONLY <2>5, <2>6, <2>8, <2>9
    <2> QED BY <1>3, <2>10 DEF Behind
  <1> QED BY <1>4, <1>5, TurnWrites

\* An error word behind which there is no header is one of the last event.
LEMMA HangsInLast ==
    ASSUME NEW H, Layout(data, Written, H), Len(Written) # 0, DamageOK, pos \in Nat \ {0},
           cleaning = "on", CleanNext, cleaning' = "hanging"
    PROVE  errorWord.event = Len(Written) - 1
  <1> DEFINE N == Len(Written)
             n == Written[N].nwords
             h == H[N]
  <1>1. /\ N \in Nat /\ N # 0 /\ Written \in Seq(EventRecord) /\ Len(data) \in Nat
        /\ EventThere(data, Written, H, N) /\ Len(data) = EndOf(Written, H, N)
    <2>1. Written \in Seq(EventRecord) /\ N \in Nat /\ N # 0
      BY DEF Layout
    <2>2. N \in 1..N
      BY <2>1
    <2> QED BY <2>1, <2>2 DEF Layout
  <1>2. n \in Nat
    <2>1. Written[N] \in EventRecord
      BY <1>1
    <2> QED BY <2>1 DEF EventRecord
  <1>3. /\ h \in Nat /\ h > 0 /\ Len(data) = h + n
        /\ data[h] = Header(Evid(N - 1), n)
        /\ \A i \in 1..n : data[h + i] = WordOf(N - 1, i)
    BY <1>1 DEF EventThere, EndOf
  <1>4. SkipError
    BY DEF CleanNext, CopyWord, CopyEmptyOne, SkipMetadata, StopCleaning, StopAtEnd, LoseTheWay,
         FinishCleaning
  <1>5. HeadersAfter(pos) = {} /\ \E w \in InHand : w.kind = "error"
    BY <1>4 DEF SkipError
  <1>6. pos \in 1..Len(data) /\ data[pos].kind = "error"
    <2>1. pos <= Len(data) /\ data[pos].kind = "error"
      BY <1>5 DEF InHand
    <2> QED BY <1>1, <2>1
  <1> HIDE DEF N, n, h
  <1>7. pos >= h
    <2> SUFFICES ASSUME ~(pos >= h) PROVE FALSE
      OBVIOUS
    <2>1. h \in pos + 1 .. Len(data)
      BY <1>1, <1>2, <1>3, <1>6
    <2>2. IsHeader(data[h])
      BY <1>3 DEF IsHeader, Header
    <2> QED BY <1>5, <2>1, <2>2 DEF HeadersAfter
  <1>8. pos # h
    BY <1>3, <1>6 DEF Header
  <1> DEFINE i == pos - h
  <1>9. i \in 1..n /\ h + i = pos
    BY <1>2, <1>3, <1>6, <1>7, <1>8
  <1> HIDE DEF i
  <1>10. WordOf(N - 1, i).kind = "error"
    BY <1>3, <1>6, <1>9
  <1>11. errorWord = [event |-> N - 1, place |-> i]
    BY <1>10 DEF WordOf, Edge
  <1> QED BY <1>11 DEF N

\* The EVID of an event in front of a missed trigger.
LEMMA EvidInFront ==
    ASSUME OneDamage, Len(Written) \in Nat, NEW e \in Nat, e < EventsToClean
    PROVE  Evid(e) = (e % EvidMod)
  <1>1. CASE gap = -1
    BY <1>1 DEF Evid
  <1>2. CASE gap # -1
    <2>1. gap \in 1 .. Len(Written) - 1 /\ EventsToClean = gap
      BY <1>2 DEF OneDamage, DamageOK, EventsToClean
    <2>2. ~(e >= gap)
      BY <2>1
    <2> QED BY <2>2 DEF Evid
  <1> QED BY <1>1, <1>2

\* Event 1 without words is told from a packet.
LEMMA EmptyOneTold ==
    ASSUME Recorded, OneDamage, NEW H, Layout(data, Written, H), ~EventLikePacket,
           NEW k \in Nat, k + 1 \in 1..EventsToClean, k + 1 < Len(Written), HeaderRead(k),
           pos = H[k + 1], Header(k % EvidMod, Written[k + 1].nwords) = EmptyOne
    PROVE  IsEmptyOne
  <1> DEFINE n == Written[k + 1].nwords
             h == H[k + 1]
  <1>1. /\ k + 1 \in 1..Len(Written) /\ h \in 1..Len(data) /\ Len(data) \in Nat
        /\ data[h] = Header(k % EvidMod, n)
    <2> DEFINE l == k + 1
    <2>1. l \in 1..EventsToClean /\ Recorded /\ OneDamage /\ Layout(data, Written, H)
          /\ n = Written[l].nwords
      OBVIOUS
    <2>2. l - 1 = k /\ h = H[l]
      OBVIOUS
    <2> HIDE DEF l, n, h
    <2>3. /\ l \in 1..Len(Written) /\ H[l] \in 1..Len(data) /\ Len(data) \in Nat
          /\ data[H[l]] = Header((l - 1) % EvidMod, n)
      BY ONLY <2>1, EventFound, ZenonT(40)
    <2> QED BY ONLY <2>2, <2>3 DEF l
  <1>2. (k % EvidMod) = 1 /\ n = 0 /\ data[h] = EmptyOne
    BY <1>1 DEF Header, EmptyOne
  <1>3. k # 0 /\ ((k - 1) % EvidMod) = 0 /\ ((k + 1) % EvidMod) = (2 % EvidMod)
    BY <1>2, EvidsFollow
  <1>4. previous_EVID = 0
    BY <1>3 DEF HeaderRead
  <1>5. Len(Written) \in Nat
    BY DEF Layout
  <1>6. Evid(k) = 1
    <2>1. k < EventsToClean
      <3>1. EventsToClean \in Int
        <4>1. CASE gap = -1
          BY <1>5, <4>1 DEF EventsToClean
        <4>2. CASE gap # -1
          BY <4>2 DEF EventsToClean, OneDamage, DamageOK
        <4> QED BY <4>1, <4>2
      <3> QED BY <3>1
    <2> QED BY <1>2, <1>5, <2>1, EvidInFront
  <1>7. EndOf(Written, H, k + 1) + 1 = h + 1
    <2>1. EndOf(Written, H, k + 1) = h + n
      BY DEF EndOf
    <2>2. h + 0 = h
      BY <1>1
    <2> QED BY <1>2, <2>1, <2>2
  <1>8. /\ h + 1 \in 1..Len(data) /\ IsHeader(data[h + 1])
        /\ \/ H[(k + 1) + 1] = h + 1
           \/ \E i \in 1..Len(file) :
                LET L == file[i].nDataWords + metadataSize
                IN  /\ L \in Nat /\ L > HighCount /\ L <= CountMod
                    /\ data[h + 1] = HeaderOf(L)
                    /\ k + 1 # 0 => i \in 2..Len(file) /\ LastOf(i - 1) = (k + 1) - 1
    <2> DEFINE l == k + 1
               e == EndOf(Written, H, l) + 1
    <2>1. l \in 0 .. Len(Written) - 1 /\ Recorded /\ Layout(data, Written, H)
      BY <1>5
    <2>2. e = h + 1
      BY <1>7
    <2> HIDE DEF l
    <2>3. /\ e \in 1..Len(data) /\ IsHeader(data[e])
          /\ \/ H[l + 1] = e
             \/ \E i \in 1..Len(file) :
                  LET L == file[i].nDataWords + metadataSize
                  IN  /\ L \in Nat /\ L > HighCount /\ L <= CountMod
                      /\ data[e] = HeaderOf(L)
                      /\ l # 0 => i \in 2..Len(file) /\ LastOf(i - 1) = l - 1
      BY ONLY <2>1, WhatFollows
    <2> HIDE DEF e, h
    <2> QED BY ONLY <2>2, <2>3 DEF l
  <1>9. (k + 1) - 1 = k /\ k + 1 # 0
    OBVIOUS
  <1>10. gap # k + 1
    <2> SUFFICES ASSUME gap = k + 1 PROVE FALSE
      OBVIOUS
    <2>1. k + 1 \in 1..Len(Written) /\ Evid((k + 1) - 1) = 1 /\ Written[k + 1].nwords = 0
      BY <1>1, <1>2, <1>6, <1>9
    <2> QED BY <2>1 DEF EventLikePacket
  <1>11. CASE H[(k + 1) + 1] = h + 1
    <2>1. (k + 1) + 1 \in 1..Len(Written)
      BY <1>5
    <2>2. EventThere(data, Written, H, (k + 1) + 1)
      BY <2>1 DEF Layout
    <2>3. data[h + 1] = Header(Evid(((k + 1) + 1) - 1), Written[(k + 1) + 1].nwords)
      BY <1>11, <2>2 DEF EventThere
    <2>4. ((k + 1) + 1) - 1 = k + 1
      OBVIOUS
    <2>5. Evid(k + 1) = ((k + 1) % EvidMod)
      <3>1. ~(gap # -1 /\ k + 1 >= gap)
        <4> SUFFICES ASSUME gap # -1, k + 1 >= gap PROVE FALSE
          OBVIOUS
        <4>1. gap \in 1 .. Len(Written) - 1 /\ EventsToClean = gap
          BY DEF OneDamage, DamageOK, EventsToClean
        <4> QED BY <1>5, <1>10, <4>1
      <3> QED BY <3>1 DEF Evid
    <2>6. data[h + 1].evid = (2 % EvidMod)
      BY <1>3, <2>3, <2>4, <2>5 DEF Header
    <2> QED BY <1>1, <1>2, <1>4, <1>8, <2>6 DEF IsEmptyOne, FollowsEmptyOne
  <1>12. ASSUME NEW i \in 1..Len(file), NEW L, L = file[i].nDataWords + metadataSize,
                L \in Nat, L > HighCount, L <= CountMod,
                data[h + 1] = HeaderOf(L), i \in 2..Len(file), LastOf(i - 1) = k
         PROVE  IsEmptyOne
    <2>1. L # CountMod
      <3> SUFFICES ASSUME L = CountMod PROVE FALSE
        OBVIOUS
      <3>1. /\ k + 1 \in 1..Len(Written) /\ Evid((k + 1) - 1) = 1 /\ Written[k + 1].nwords = 0
            /\ i \in 2..Len(file) /\ LastOf(i - 1) = (k + 1) - 1
            /\ file[i].nDataWords + metadataSize = CountMod
        BY <1>1, <1>2, <1>6, <1>9, <1>12
      <3> QED BY <3>1 DEF EventLikePacket
    <2>2. L < CountMod
      BY <1>12, <2>1, FieldsAssumption DEF FieldsAssumption
    <2>3. data[h + 1] = Header(0, L)
      BY <1>12, <2>2, LengthWord
    <2>4. data[h + 1].count > HighCount
      BY <1>12, <2>3 DEF Header
    <2> QED BY <1>1, <1>2, <1>4, <1>8, <2>4 DEF IsEmptyOne, FollowsEmptyOne
  <1> QED BY <1>8, <1>9, <1>11, <1>12

\* The length of a packet is never told for an event.
LEMMA LengthTold ==
    ASSUME OneDamage, ~PacketLikeEvent, Len(Written) \in Nat,
           NEW k \in Nat \ {0}, k < EventsToClean, HeaderRead(k),
           NEW i \in 2..Len(file), NEW L \in Nat, L = file[i].nDataWords + metadataSize,
           L > HighCount, L <= CountMod, LastOf(i - 1) = k - 1,
           data[pos] = HeaderOf(L), data[pos + 1] = runNumber
    PROVE  ~Expected(HeaderOf(L)) /\ ~IsEmptyOne
  <1> DEFINE v == HeaderOf(L)
  <1>1. HighCount \in Nat /\ CountLimit \in Nat /\ CountMod \in Nat /\ HighCount >= CountLimit
    BY FieldsAssumption, SizesFit DEF FieldsAssumption, SizesFit
  <1>2. CASE L < CountMod
    <2>1. v = Header(0, L)
      BY <1>2, LengthWord
    <2>2. ~(v.count < CountLimit)
      BY <1>1, <2>1 DEF Header
    <2>3. v # EmptyOne
      BY <2>1 DEF Header, EmptyOne
    <2> QED BY <2>2, <2>3 DEF Expected, IsEmptyOne
  <1>3. CASE L = CountMod
    <2>1. v = EmptyOne
      BY <1>3, LengthWord
    <2>2. ~Expected(v)
      BY <2>1 DEF Expected
    <2>3. ~IsEmptyOne
      <3> SUFFICES ASSUME IsEmptyOne PROVE FALSE
        OBVIOUS
      <3>1. previous_EVID = 0 /\ FollowsEmptyOne(runNumber)
        BY DEF IsEmptyOne
      <3>2. ((k - 1) % EvidMod) = 0
        BY <3>1 DEF HeaderRead
      <3>3. k - 1 \in Nat /\ k - 1 < EventsToClean
        <4>1. EventsToClean \in Int
          <5>1. CASE gap = -1
            BY <5>1 DEF EventsToClean
          <5>2. CASE gap # -1
            BY <5>2 DEF EventsToClean, OneDamage, DamageOK
          <5> QED BY <5>1, <5>2
        <4> QED BY <4>1
      <3>4. Evid(k - 1) = 0
        BY <3>2, <3>3, EvidInFront
      <3>5. file[i].nDataWords + metadataSize = CountMod /\ Evid(LastOf(i - 1)) = 0
        BY <1>3, <3>4
      <3> QED BY <3>1, <3>5 DEF PacketLikeEvent
    <2> QED BY <2>2, <2>3
  <1>4. L < CountMod \/ L = CountMod
    BY <1>1
  <1> QED BY <1>2, <1>3, <1>4

\* The header of the next event is found and written, with or without metadata in front.
LEMMA NextStep ==
    ASSUME Recorded, OneDamage, NEW H, Layout(data, Written, H), cleaning = "on", ~Ambiguous,
           NEW k, Between(H, k), k < EventsToClean, CleanNext, InputStays
    PROVE  \/ cleaning' = "on" /\ Within(H, k + 1, 0)'
           \/ cleaning' = "finished" /\ clean' = WordsToClean'
  <1> DEFINE l == k + 1
             n == Written[l].nwords
             h == H[l]
             w == Header(k % EvidMod, n)
  <1>1. file \in Seq(WP!Packet) /\ DamageOK /\ ~PacketLikeEvent /\ ~EventLikePacket
    BY DEF Recorded, OneDamage, Ambiguous
  <1>2. /\ EventsToClean \in 0 .. Len(Written) /\ Len(Written) \in Nat
        /\ Mine \in Seq(Seq(Words)) /\ Len(Mine) = EventsToClean
    <2>1. Len(Written) \in Nat
      BY DEF Layout
    <2>2. /\ EventsToClean \in 0 .. Len(Written)
          /\ Mine \in Seq(Seq(Words)) /\ Len(Mine) = EventsToClean
      BY <1>1, MineEvents
    <2> QED BY <2>1, <2>2
  <1>3. /\ k \in 0..EventsToClean /\ HeaderRead(k) /\ clean = UpTo(Mine, k)
        /\ pos = IF k = 0 THEN H[1] ELSE EndOf(Written, H, k) + 1
    BY DEF Between
  <1>4. k \in Nat /\ l \in 1..EventsToClean /\ l - 1 = k /\ l \in Nat
    BY <1>2, <1>3
  <1> HIDE DEF l
  <1>5. /\ l \in 1..Len(Written) /\ n \in Nat /\ n < CountLimit
        /\ Mine[l] = <<Header((l - 1) % EvidMod, n)>> \o EdgesLeft(l - 1)
        /\ Header((l - 1) % EvidMod, n) \in Words /\ EdgesLeft(l - 1) \in Seq(Words)
        /\ h \in 1..Len(data) /\ h + n <= Len(data) /\ Len(data) \in Nat
        /\ data[h] = Header((l - 1) % EvidMod, n)
    <2>1. Recorded /\ OneDamage /\ Layout(data, Written, H) /\ l \in 1..EventsToClean
          /\ n = Written[l].nwords /\ h = H[l]
      BY <1>4
    <2> HIDE DEF n, h
    <2> QED BY ONLY <2>1, EventFound, ZenonT(40)
  <1>6. Mine[l] = <<w>> \o EdgesLeft(k) /\ w \in Words /\ EdgesLeft(k) \in Seq(Words)
        /\ data[h] = w
    BY ONLY <1>4, <1>5
  <1>7. NextEVID = (k % EvidMod)
    BY <1>3, <1>4, EvidsFollow
  <1>8. IsHeader(w) /\ IsNext(w) /\ w.evid = NextEVID /\ w.count = n
    BY <1>7 DEF IsHeader, IsNext, Header
  <1> HIDE DEF w, n, h
  <1>9. ASSUME Write(w, h + 1), cleaning' = cleaning
        PROVE  cleaning' = "on" /\ Within(H, k + 1, 0)'
    <2>1. Write(Header(k % EvidMod, Written[k + 1].nwords), H[k + 1] + 1)
      BY <1>9 DEF w, h, n, l
    <2>2. k + 1 \in 1..EventsToClean
      BY <1>4 DEF l
    <2>3. Within(H, k + 1, 0)'
      BY <1>3, <1>4, <2>1, <2>2, EventStarts
    <2> QED BY <1>9, <2>3
  <1>10. CASE pos = h
    <2>1. WordInHand(w)
      BY <1>5, <1>6, <1>10 DEF WordInHand
    <2>2. CASE w # EmptyOne
      <3>1. Expected(w)
        BY <1>5, <1>8, <2>2 DEF Expected
      <3>2. Write(w, h + 1) /\ UNCHANGED cleaning
        BY <1>8, <1>10, <2>1, <3>1, TurnOnHeader
      <3> QED BY <1>9, <3>2
    <2>3. CASE w = EmptyOne /\ l < Len(Written)
      <3>1. IsEmptyOne
        <4>1. k + 1 \in 1..EventsToClean /\ k + 1 < Len(Written) /\ pos = H[k + 1]
              /\ Header(k % EvidMod, Written[k + 1].nwords) = EmptyOne
          BY <1>4, <1>10, <2>3 DEF l, h, w, n
        <4> QED BY <1>1, <1>3, <1>4, <4>1, EmptyOneTold
      <3>2. Write(w, h + 1) /\ UNCHANGED cleaning
        BY <1>8, <1>10, <2>1, <3>1, TurnOnHeader
      <3> QED BY <1>9, <3>2
    <2>4. CASE w = EmptyOne /\ l = Len(Written)
      <3>1. n = 0
        BY <2>4 DEF w, Header, EmptyOne
      <3>2. pos = Len(data)
        <4>1. Len(data) = EndOf(Written, H, l)
          BY <2>4 DEF Layout
        <4>2. l # 0
          BY <1>5
        <4>3. EndOf(Written, H, l) = h + n
          BY <4>2 DEF EndOf, h, n
        <4>4. h + 0 = h
          BY <1>5
        <4> QED BY <1>10, <3>1, <4>1, <4>3, <4>4
      <3>3. ~Expected(w) /\ ~IsEmptyOne
        <4>1. ~(pos < Len(data))
          BY <1>5, <3>2
        <4> QED BY <2>4, <4>1 DEF Expected, IsEmptyOne
      <3>4. clean' = Append(clean, w) /\ cleaning' = "finished"
        BY <1>5, <1>8, <2>1, <3>2, <3>3, TurnOnLastWord
      <3>5. EdgesLeft(k) = <<>>
        <4>1. EdgesLeft(l - 1) \in Seq(Edges) /\ Len(EdgesLeft(l - 1)) = WordsLeft(l - 1, n)
              /\ WordsLeft(l - 1, n) \in 0..n
          BY <1>1, <1>5, EdgesOfEvent DEF n
        <4>2. EdgesLeft(k) \in Seq(Edges) /\ Len(EdgesLeft(k)) = 0
          BY <1>4, <3>1, <4>1
        <4> QED BY <4>2, EmptySeq
      <3>6. Append(UpTo(Mine, k), w) \o EdgesLeft(k) = UpTo(Mine, l)
            /\ UpTo(Mine, k) \in Seq(Words)
        <4>1. l \in 1..Len(Mine) /\ k \in 0..Len(Mine)
          BY <1>2, <1>3, <1>4
        <4>2. Append(UpTo(Mine, l - 1), w) \o EdgesLeft(k) = UpTo(Mine, l)
          BY ONLY <1>2, <1>6, <4>1, BeginEvent
        <4>3. UpTo(Mine, k) \in Seq(Words)
          BY ONLY <1>2, <4>1, UpToStep
        <4> QED BY ONLY <1>4, <4>2, <4>3
      <3>7. Append(clean, w) \in Seq(Words)
        BY <1>3, <1>6, <3>6, AppendProperties
      <3>8. Append(clean, w) = UpTo(Mine, l)
        BY <1>3, <3>5, <3>6, <3>7, ConcatEmptySeq
      <3>9. l = Len(Mine)
        BY <1>2, <1>4, <2>4
      <3>10. UpTo(Mine, l) = WordsToClean
        <4>1. UpTo(Mine, Len(Mine)) = FlattenSeq(Mine)
          BY <1>2, UpToStep
        <4> QED BY <3>9, <4>1, FilesAreEvents
      <3> QED BY <3>4, <3>8, <3>10, PlacesStay
    <2>5. l < Len(Written) \/ l = Len(Written)
      BY <1>2, <1>5
    <2> QED BY <2>2, <2>3, <2>4, <2>5
  <1>11. ASSUME k # 0, h = pos + metadataSize, NEW i \in 1..Len(file), NEW L \in Nat,
                L = file[i].nDataWords + metadataSize, L > HighCount, L <= CountMod,
                data[pos] = HeaderOf(L), data[pos + 1] = runNumber,
                i \in 2..Len(file), LastOf(i - 1) = k - 1
         PROVE  cleaning' = "on" /\ Within(H, k + 1, 0)'
    <2> DEFINE v == HeaderOf(L)
    <2>1. k \in Nat \ {0}
      BY <1>4, <1>11
    <2>2. ~Expected(v) /\ ~IsEmptyOne
      BY <1>1, <1>2, <1>3, <1>11, <2>1, LengthTold
    <2>3. IsHeader(v)
      BY <1>11, LengthWord
    <2>4. pos \in 1..Len(data)
      <3>1. \E q \in 1..Len(data) : q = pos
        <4>1. EndOf(Written, H, k) + 1 \in 1..Len(data)
          <5>1. k \in 0 .. Len(Written) - 1
            BY <1>2, <1>4, <1>5 DEF l
          <5> QED BY <5>1, WhatFollows
        <4> QED BY <1>3, <1>11, <4>1
      <3> QED BY <3>1
    <2>5. WordInHand(v)
      BY <1>11, <2>4 DEF WordInHand
    <2>6. pos + metadataSize <= Len(data) /\ IsNext(data[pos + metadataSize])
          /\ data[pos + metadataSize] = w
      BY <1>5, <1>6, <1>8, <1>11
    <2> HIDE DEF v
    <2>7. Write(w, pos + metadataSize + 1) /\ UNCHANGED cleaning
      BY <2>2, <2>3, <2>5, <2>6, TurnOnMetadata
    <2>8. Write(w, h + 1)
      BY <1>11, <2>7
    <2> QED BY <1>9, <2>7, <2>8
  <1>12. CASE k = 0
    <2>1. pos = h
      BY <1>3, <1>12 DEF h, l
    <2> QED BY <1>10, <2>1
  <1>13. CASE k # 0
    <2>1. pos = EndOf(Written, H, k) + 1
      BY <1>3, <1>13
    <2>2. k \in 0 .. Len(Written) - 1 /\ Recorded /\ Layout(data, Written, H)
      BY <1>2, <1>4, <1>5 DEF l
    <2>3. \/ H[k + 1] = pos
          \/ /\ H[k + 1] = pos + metadataSize
             /\ \E i \in 1..Len(file) :
                  LET L == file[i].nDataWords + metadataSize
                  IN  /\ L \in Nat /\ L > HighCount /\ L <= CountMod
                      /\ data[pos] = HeaderOf(L) /\ data[pos + 1] = runNumber
                      /\ k # 0 => i \in 2..Len(file) /\ LastOf(i - 1) = k - 1
      BY ONLY <2>1, <2>2, WhatFollows
    <2>4. CASE H[k + 1] = pos
      BY <1>10, <2>4 DEF h, l
    <2>5. CASE H[k + 1] = pos + metadataSize
               /\ \E i \in 1..Len(file) :
                    LET L == file[i].nDataWords + metadataSize
                    IN  /\ L \in Nat /\ L > HighCount /\ L <= CountMod
                        /\ data[pos] = HeaderOf(L) /\ data[pos + 1] = runNumber
                        /\ k # 0 => i \in 2..Len(file) /\ LastOf(i - 1) = k - 1
      BY <1>11, <1>13, <2>5 DEF h, l
    <2> QED BY <2>3, <2>4, <2>5
  <1> QED BY <1>12, <1>13

--------------------------------------------------------------------------------
(* The whole file. *)

\* What goes on with something is one with it in front.
LEMMA PrefixOf ==
    ASSUME NEW S, NEW s \in Seq(S), NEW u \in Seq(S), NEW t, t = s \o u
    PROVE  IsPrefix(s, t)
  <1> DEFINE n == Len(s)
  <1>1. t \in Seq(S) /\ Len(t) = n + Len(u) /\ n \in Nat /\ Len(u) \in Nat
        /\ \A i \in 1..n : t[i] = s[i]
    BY ConcatProperties
  <1>2. SubSeq(s, 1, n) = s
    BY SubSeqFull
  <1>3. SubSeq(t, 1, n) \in Seq(S) /\ Len(SubSeq(t, 1, n)) = n
        /\ \A i \in 1..n : SubSeq(t, 1, n)[i] = t[i]
    BY <1>1
  <1>4. SubSeq(t, 1, n) = s
    BY <1>1, <1>3
  <1>5. n <= Len(t)
    BY <1>1
  <1> QED BY <1>2, <1>4, <1>5 DEF IsPrefix

\* The first events of the file are in front of the others.
LEMMA EventsInFront ==
    ASSUME file \in Seq(WP!Packet), DamageOK, NEW k \in 0..EventsToClean
    PROVE  \E u \in Seq(Words) : UpTo(Mine, k) \in Seq(Words) /\ WordsToClean = UpTo(Mine, k) \o u
  <1>1. Mine \in Seq(Seq(Words)) /\ Len(Mine) = EventsToClean
    BY MineEvents
  <1>2. k \in 0 .. Len(Mine)
    BY <1>1
  <1>3. From(Mine, k) \in Seq(Words) /\ UpTo(Mine, k) \o From(Mine, k) = FlattenSeq(Mine)
    BY ONLY <1>1, <1>2, UpToFrom
  <1>4. UpTo(Mine, k) \in Seq(Words)
    BY ONLY <1>1, <1>2, UpToStep
  <1> QED BY <1>3, <1>4, FilesAreEvents

\* A place in the file shows that nothing wrong has been written.
LEMMA PlaceIsPrefix ==
    ASSUME file \in Seq(WP!Packet), DamageOK, OnItsWay
    PROVE  IsPrefix(clean, WordsToClean)
  <1>1. ASSUME NEW k, NEW u \in Seq(Words), k \in 0..EventsToClean, clean \in Seq(Words),
               clean \o u = UpTo(Mine, k)
        PROVE  IsPrefix(clean, WordsToClean)
    <2>1. PICK v \in Seq(Words) : WordsToClean = UpTo(Mine, k) \o v
      BY <1>1, EventsInFront
    <2>2. clean \in Seq(Words) /\ u \in Seq(Words) /\ v \in Seq(Words)
      BY <1>1
    <2>3. WordsToClean = (clean \o u) \o v
      BY <1>1, <2>1
    <2>4. (clean \o u) \o v = clean \o (u \o v) /\ u \o v \in Seq(Words)
      <3>1. (clean \o u) \o v = clean \o (u \o v)
        BY ONLY <2>2, ConcatAssociative, SMTT(20)
      <3>2. u \o v \in Seq(Words)
        BY ONLY <2>2, ConcatProperties
      <3> QED BY <3>1, <3>2
    <2>5. WordsToClean = clean \o (u \o v)
      BY <2>3, <2>4
    <2> DEFINE z == u \o v
               W == WordsToClean
    <2>6. clean \in Seq(Words) /\ z \in Seq(Words) /\ W = clean \o z
      BY <2>2, <2>4, <2>5
    <2> HIDE DEF z, W
    <2>7. IsPrefix(clean, W)
      BY ONLY <2>6, PrefixOf
    <2> QED BY <2>7 DEF W
  <1>2. PICK H : (\E k : Between(H, k)) \/ (\E k, j : Within(H, k, j))
    BY DEF OnItsWay
  <1>3. ASSUME NEW k, Between(H, k) PROVE IsPrefix(clean, WordsToClean)
    <2>1. k \in 0..EventsToClean /\ clean = UpTo(Mine, k)
      BY <1>3 DEF Between
    <2>2. clean \in Seq(Words)
      BY <2>1, EventsInFront
    <2>3. clean \o <<>> = UpTo(Mine, k) /\ <<>> \in Seq(Words)
      BY <2>1, <2>2, ConcatEmptySeq
    <2> QED BY <1>1, <2>1, <2>2, <2>3
  <1>4. ASSUME NEW k, NEW j, Within(H, k, j) PROVE IsPrefix(clean, WordsToClean)
    <2> DEFINE s == EdgesLeft(k - 1)
               u == SubSeq(s, j + 1, Len(s))
    <2>1. k \in 1..EventsToClean /\ j \in 0..Len(s) /\ clean \in Seq(Words)
          /\ clean \o u = UpTo(Mine, k)
      BY <1>4 DEF Within
    <2>2. EventsToClean \in Int /\ s \in Seq(Edges)
      <3>1. s \in Seq(Edges)
        BY <2>1, MineEvents
      <3>2. EventsToClean \in 0 .. Len(Written)
        BY MineEvents
      <3>3. Len(Written) \in Nat
        BY WrittenType
      <3> QED BY <3>1, <3>2, <3>3
    <2>3. u \in Seq(Words)
      <3>1. s \in Seq(Words)
        BY <2>2 DEF Words
      <3>2. j \in Nat /\ Len(s) \in Nat
        BY <2>1, <2>2
      <3> HIDE DEF s
      <3> QED BY <3>1, <3>2
    <2>4. k \in 0..EventsToClean
      BY <2>1, <2>2
    <2> HIDE DEF u
    <2> QED BY <1>1, <2>1, <2>3, <2>4
  <1> QED BY <1>2, <1>3, <1>4

\* What 0x1000 stands for does not change while the file is read.
LEMMA AmbiguityStays ==
    ASSUME InputStays
    PROVE  PacketLikeEvent' = PacketLikeEvent /\ EventLikePacket' = EventLikePacket
  <1>1. file' = file /\ gap' = gap /\ runNumber' = runNumber /\ Written' = Written
    BY PlacesStay DEF InputStays
  <1>2. \A e : Evid(e)' = Evid(e)
    BY <1>1 DEF Evid
  <1>3. \A i : LastOf(i)' = LastOf(i)
    BY <1>1 DEF LastOf
  <1>4. PacketLikeEvent' = PacketLikeEvent
    BY <1>1, <1>2, <1>3 DEF PacketLikeEvent, FollowsEmptyOne, IsHeader
  <1>5. EventLikePacket' = EventLikePacket
    BY <1>1, <1>2, <1>3 DEF EventLikePacket
  <1> QED BY <1>4, <1>5

\* Every turn goes from one place of the file to another, to the end, or behind a missed
\* trigger.
LEMMA TurnCleans ==
    ASSUME Recorded, OneDamage, Len(Written) # 0, cleaning = "on", ~Ambiguous,
           Behind \/ OnItsWay, CleanNext, InputStays
    PROVE  CleanPlace'
  <1>1. CASE Behind
    BY <1>1, BehindStep DEF CleanPlace
  <1>2. CASE OnItsWay
    <2>1. PICK H : /\ Layout(data, Written, H)
                   /\ (\E k : Between(H, k)) \/ (\E k, j : Within(H, k, j))
      BY <1>2 DEF OnItsWay
    <2>2. Layout(data, Written, H)'
      BY <2>1, PlacesStay
    <2>3. file \in Seq(WP!Packet) /\ DamageOK /\ Len(Written) \in Nat
      BY <2>1 DEF Recorded, OneDamage, Layout
    <2>4. /\ EventsToClean \in 0 .. Len(Written)
          /\ Mine \in Seq(Seq(Words)) /\ Len(Mine) = EventsToClean
      BY <2>3, MineEvents
    <2>5. ASSUME NEW k, Between(H, k) PROVE CleanPlace'
      <3>1. k \in 0..EventsToClean /\ clean = UpTo(Mine, k)
        BY <2>5 DEF Between
      <3>2. CASE k < EventsToClean
        <4>1. \/ cleaning' = "on" /\ Within(H, k + 1, 0)'
              \/ cleaning' = "finished" /\ clean' = WordsToClean'
          BY <2>1, <2>5, <3>2, NextStep
        <4> QED BY <2>2, <4>1 DEF CleanPlace, OnItsWay
      <3>3. CASE k = EventsToClean /\ gap = -1
        <4>1. k = Len(Written)
          BY <3>3 DEF EventsToClean
        <4>2. cleaning' = "finished" /\ clean' = WordsToClean'
          BY <2>1, <2>5, <4>1, EndStep
        <4> QED BY <4>2 DEF CleanPlace
      <3>4. CASE k = EventsToClean /\ gap # -1
        <4>1. k = Len(Mine)
          BY <2>4, <3>4
        <4>2. clean = WordsToClean
          <5>1. UpTo(Mine, Len(Mine)) = FlattenSeq(Mine)
            BY <2>4, UpToStep
          <5> QED BY <3>1, <4>1, <5>1, FilesAreEvents
        <4>3. WordsToClean \in Seq(Words)
          <5>1. FlattenSeq(Mine) \in Seq(Words)
            BY <2>4, FlatType
          <5> QED BY <5>1, FilesAreEvents
        <4>4. clean = WordsToClean \o <<>> /\ <<>> \in Seq(Words)
          BY <4>2, <4>3, ConcatEmptySeq
        <4>5. Behind
          BY <3>4, <4>3, <4>4 DEF Behind
        <4> QED BY <4>5, BehindStep DEF CleanPlace
      <3>5. k < EventsToClean \/ k = EventsToClean
        BY <2>4, <3>1
      <3> QED BY <3>2, <3>3, <3>4, <3>5
    <2>6. ASSUME NEW k, NEW j, Within(H, k, j) PROVE CleanPlace'
      <3> DEFINE m == Len(EdgesLeft(k - 1))
                 n == Written[k].nwords
      <3>1. k \in 1..EventsToClean /\ j \in 0..m
        BY <2>6 DEF Within
      <3>2. m \in Nat /\ m <= n /\ n \in Nat
        <4>1. /\ Recorded /\ OneDamage /\ Layout(data, Written, H) /\ k \in 1..EventsToClean
              /\ n = Written[k].nwords
          BY <2>1, <3>1
        <4>2. k \in 1..Len(Written) /\ n \in Nat
          BY ONLY <4>1, EventFound, ZenonT(40)
        <4>3. Len(EdgesLeft(k - 1)) = WordsLeft(k - 1, n) /\ WordsLeft(k - 1, n) \in 0..n
          BY <2>3, <4>2, EdgesOfEvent
        <4> QED BY <4>2, <4>3
      <3> HIDE DEF m, n
      <3>3. CASE j < m
        <4>1. cleaning' = "on" /\ Within(H, k, j + 1)'
          BY <2>1, <2>6, <3>3, EdgeStep DEF m
        <4> QED BY <2>2, <4>1 DEF CleanPlace, OnItsWay
      <3>4. CASE j = m /\ j < n
        <4>1. \/ cleaning' = "on" /\ Between(H, k)'
              \/ cleaning' = "hanging" /\ clean' = WordsToClean'
          BY <2>1, <2>6, <3>4, ErrorStep DEF m, n
        <4> QED BY <2>2, <4>1 DEF CleanPlace, OnItsWay
      <3>5. CASE j = n
        <4>1. Between(H, k)
          BY <2>1, <2>6, <3>5, EventEnds DEF n
        <4> QED BY <2>5, <4>1
      <3>6. j < m \/ (j = m /\ j < n) \/ j = n
        BY <3>1, <3>2
      <3> QED BY <3>3, <3>4, <3>5, <3>6
    <2> QED BY <2>1, <2>5, <2>6
  <1> QED BY <1>1, <1>2

\* The file is read from its first word on; and where the program is in it, unless 0x1000
\* stands for the wrong thing.
CleanInv ==
    /\ OneDamage
    /\ cleaning = "off" => previous_EVID = -1 /\ clean = <<>> /\ errorWord = None /\ gap = -1
    /\ cleaning # "off" => data = FileWords /\ pos \in Nat \ {0} /\ file # <<>>
    /\ cleaning # "off" /\ ~Ambiguous => CleanPlace
    /\ cleaning = "hanging" => errorWord.event = Len(Written) - 1

\* The program starts in front of the first event.
StartsThere ==
    (/\ OneDamage /\ data = FileWords /\ file # <<>> /\ pos = metadataSize + 1
     /\ clean = <<>> /\ previous_EVID = -1)
    => OnItsWay

\* The layout of the file shows it.
LEMMA CleaningStarts ==
    ASSUME FileKnown
    PROVE  StartsThere
  <1> SUFFICES ASSUME OneDamage, data = FileWords, file # <<>>, pos = metadataSize + 1,
                      clean = <<>>, previous_EVID = -1
               PROVE  OnItsWay
    BY DEF StartsThere
  <1>1. PICK H : Layout(data, Written, H)
    BY DEF FileKnown
  <1>2. file \in Seq(WP!Packet) /\ DamageOK /\ Len(Written) \in Nat /\ Len(Written) # 0
    BY <1>1 DEF FileKnown, Recorded, OneDamage, Layout
  <1>3. /\ EventsToClean \in 0 .. Len(Written) /\ Mine \in Seq(Seq(Words))
    BY <1>2, MineEvents
  <1>4. H[0 + 1] = EndOf(Written, H, 0) + 12
    <2>1. 0 \in 0 .. Len(Written) - 1
      BY <1>2
    <2>2. NextThere(data, Written, H, 0)
      BY <1>1, <2>1 DEF Layout
    <2> QED BY <2>2 DEF NextThere
  <1>5. H[1] = 12
    BY <1>4 DEF EndOf
  <1>6. 0 \in 0..EventsToClean
    BY <1>2, <1>3
  <1>7. UpTo(Mine, 0) = <<>>
    BY <1>3, UpToStep
  <1>8. Between(H, 0)
    BY <1>5, <1>6, <1>7 DEF Between, HeaderRead, metadataSize
  <1> QED BY <1>1, <1>8 DEF OnItsWay

\* CleanInv is kept.
LEMMA CleanInductive == Spec => []CleanInv
  <1>1. Init => CleanInv
    BY DEF Init, CleanInit, CleanInv, OneDamage, DamageOK
  <1>2. ASSUME FileKnown, FileKnown', StartsThere', CleanInv, [Next]_vars
        PROVE  CleanInv'
    <2>1. CASE Record
      <3>1. /\ cleaning = "off" /\ cleaning' = "off" /\ previous_EVID' = previous_EVID
            /\ clean' = clean /\ errorWord' = errorWord /\ gap' = gap
        BY <2>1 DEF Record, cleanVars, inputVars
      <3>2. OneDamage'
        BY <1>2, <3>1 DEF CleanInv, OneDamage, DamageOK
      <3> QED BY <1>2, <3>1, <3>2 DEF CleanInv
    <2>2. CASE StartCleaning
      <3>1. /\ cleaning = "off" /\ cleaning' = "on" /\ file # <<>> /\ file' = file
            /\ data' = FileWords' /\ pos' = metadataSize + 1
            /\ previous_EVID' = previous_EVID /\ clean' = clean
            /\ errorWord' \in {None} \cup WordsWritten /\ gap' \in {-1} \cup 1 .. Len(Written) - 1
            /\ errorWord' = None \/ gap' = -1
        BY <2>2 DEF StartCleaning, OpenFile, writerVars
      <3>2. Written' = Written
        BY <3>1 DEF Written
      <3>3. WordsWritten' = WordsWritten
        BY <3>2 DEF WordsWritten
      <3>4. None' = None
        BY DEF None
      <3>5. OneDamage'
        BY <3>1, <3>2, <3>3, <3>4 DEF OneDamage, DamageOK
      <3>6. previous_EVID' = -1 /\ clean' = <<>>
        BY <1>2, <3>1 DEF CleanInv
      <3>7. OnItsWay'
        BY <1>2, <3>1, <3>5, <3>6 DEF StartsThere
      <3>8. pos' \in Nat \ {0} /\ file' # <<>>
        BY <3>1 DEF metadataSize
      <3> QED BY <3>1, <3>5, <3>7, <3>8 DEF CleanInv, CleanPlace
    <2>3. CASE Clean
      <3>1. CleanNext /\ UNCHANGED <<file, errorWord, gap, runNumber>>
        BY <2>3 DEF Clean, writerVars, inputVars
      <3>2. cleaning = "on" /\ cleaning' # "off"
        BY <3>1, CleanKeepsOrder
      <3>3. OneDamage /\ data = FileWords /\ pos \in Nat \ {0} /\ file # <<>>
        BY <1>2, <3>2 DEF CleanInv
      <3>4. PICK H : Layout(data, Written, H)
        BY <1>2, <3>3 DEF FileKnown
      <3>5. Recorded /\ Len(Written) # 0 /\ Len(data) \in Nat /\ DamageOK
        BY <1>2, <3>3, <3>4 DEF FileKnown, Layout, OneDamage
      <3>6. pos' \in Nat \ {0} /\ data' = data
        BY <3>1, <3>3, <3>5, TurnReads
      <3>7. InputStays
        BY <3>1, <3>6 DEF InputStays
      <3>8. Written' = Written
        BY <3>7, PlacesStay
      <3>9. OneDamage'
        <4>1. DamageOK'
          BY <3>1, <3>5, FilesStay
        <4> QED BY <3>1, <3>3, <4>1 DEF OneDamage
      <3>10. data' = FileWords' /\ file' # <<>>
        <4>1. FileWords' = FileWords
          BY <3>1 DEF FileWords, PacketWords, EventWords, Evid
        <4> QED BY <3>1, <3>3, <3>6, <4>1
      <3>11. cleaning' = "hanging" => errorWord'.event = Len(Written') - 1
        BY <3>1, <3>2, <3>3, <3>4, <3>5, <3>8, HangsInLast
      <3>12. ASSUME ~Ambiguous' PROVE CleanPlace'
        <4>1. ~Ambiguous
          BY <3>2, <3>7, <3>12, AmbiguityStays DEF Ambiguous
        <4>2. Behind \/ OnItsWay
          BY <1>2, <3>2, <4>1 DEF CleanInv, CleanPlace
        <4> QED BY <3>1, <3>2, <3>3, <3>5, <3>7, <4>1, <4>2, TurnCleans
      <3> QED BY <3>2, <3>3, <3>6, <3>9, <3>10, <3>11, <3>12 DEF CleanInv
    <2>4. ASSUME UNCHANGED <<cleanVars, file, inputVars>> PROVE CleanInv'
      <3>1. UNCHANGED <<data, pos, previous_EVID, clean, cleaning, file, runNumber, errorWord, gap>>
        BY <2>4 DEF cleanVars, inputVars
      <3>2. InputStays
        BY <3>1 DEF InputStays
      <3>3. /\ Written' = Written /\ WordsToClean' = WordsToClean
            /\ PacketLikeEvent' = PacketLikeEvent /\ EventLikePacket' = EventLikePacket
        BY <3>2, PlacesStay, AmbiguityStays
      <3>4. Behind' = Behind /\ Ambiguous' = Ambiguous
        BY <3>1, <3>3 DEF Behind, Ambiguous
      <3>5. OnItsWay => OnItsWay'
        <4> SUFFICES ASSUME OnItsWay PROVE OnItsWay'
          OBVIOUS
        <4>1. PICK H : /\ Layout(data, Written, H)
                       /\ (\E k : Between(H, k)) \/ (\E k, j : Within(H, k, j))
          BY DEF OnItsWay
        <4>2. Layout(data, Written, H)'
          BY <3>2, <4>1, PlacesStay
        <4>3. /\ Mine' = Mine /\ EventsToClean' = EventsToClean /\ Written' = Written
              /\ \A e : EdgesLeft(e)' = EdgesLeft(e)
          BY <3>2, PlacesStay
        <4>4. ASSUME NEW k, Between(H, k) PROVE Between(H, k)'
          BY <3>1, <4>3, <4>4 DEF Between, HeaderRead, EndOf
        <4>5. ASSUME NEW k, NEW j, Within(H, k, j) PROVE Within(H, k, j)'
          <5>1. EdgesLeft(k - 1)' = EdgesLeft(k - 1)
            BY <4>3
          <5> QED BY <3>1, <4>3, <4>5, <5>1 DEF Within, HeaderRead
        <4> QED BY <4>1, <4>2, <4>4, <4>5 DEF OnItsWay
      <3>6. CleanPlace => CleanPlace'
        BY <3>1, <3>3, <3>4, <3>5 DEF CleanPlace
      <3>7. OneDamage => OneDamage'
        BY <3>1, FilesStay DEF OneDamage, None
      <3>8. FileWords' = FileWords
        BY <3>1 DEF FileWords, PacketWords, EventWords, Evid
      <3> QED BY <1>2, <3>1, <3>3, <3>4, <3>6, <3>7, <3>8 DEF CleanInv
    <2>5. CASE StartMerge
      BY <2>4, <2>5 DEF StartMerge, writerVars
    <2>6. CASE MergeWords
      BY <2>4, <2>6 DEF MergeWords, writerVars
    <2>7. CASE Mismatch
      BY <2>4, <2>7 DEF Mismatch, writerVars
    <2>8. CASE CopyTail
      BY <2>4, <2>8 DEF CopyTail, writerVars
    <2>9. CASE UNCHANGED vars
      BY <2>4, <2>9 DEF vars, writerVars
    <2> QED BY <1>2, <2>1, <2>2, <2>3, <2>5, <2>6, <2>7, <2>8, <2>9 DEF Next
  <1>3. FileKnown => StartsThere
    BY CleaningStarts
  <1> QED BY <1>1, <1>2, <1>3, AlwaysFileKnown, PTL DEF Spec

\* CleanExact: whatever was recorded and wherever a word of it is wrong, DeleteMeta writes the
\* words of the events and no others, up to a missed trigger, except where 0x1000 stands for
\* the wrong thing.
THEOREM CleansExactly == Spec => []CleanExact
  <1>1. ASSUME FileKnown, CleanInv, ~Ambiguous
        PROVE  /\ IsPrefix(clean, WordsToClean) \/ IsPrefix(WordsToClean, clean)
               /\ cleaning = "finished" /\ gap = -1 => clean = WordsToClean
               /\ cleaning \in {"stopped", "lost"} => IsPrefix(WordsToClean, clean)
    <2>1. file \in Seq(WP!Packet) /\ DamageOK
      BY <1>1 DEF FileKnown, Recorded, CleanInv, OneDamage
    <2>2. Mine \in Seq(Seq(Words)) /\ EventsToClean \in 0 .. Len(Written)
      BY <2>1, MineEvents
    <2>3. WordsToClean \in Seq(Words)
      <3>1. FlattenSeq(Mine) \in Seq(Words)
        BY <2>2, FlatType
      <3> QED BY <3>1, FilesAreEvents
    <2>4. IsPrefix(WordsToClean, WordsToClean)
      <3> DEFINE W == WordsToClean
      <3>1. W \in Seq(Words) /\ <<>> \in Seq(Words) /\ W = W \o <<>>
        BY <2>3, ConcatEmptySeq
      <3> HIDE DEF W
      <3>2. IsPrefix(W, W)
        BY ONLY <3>1, PrefixOf
      <3> QED BY <3>2 DEF W
    <2>5. CASE Behind
      <3> DEFINE W == WordsToClean
      <3>1. PICK S : \E u \in Seq(S) : W \in Seq(S) /\ clean = W \o u
        BY <2>5 DEF Behind
      <3>2. PICK u \in Seq(S) : W \in Seq(S) /\ clean = W \o u
        BY <3>1
      <3>3. W \in Seq(S) /\ u \in Seq(S) /\ clean = W \o u
        BY <3>2
      <3> HIDE DEF W
      <3>4. IsPrefix(W, clean)
        BY ONLY <3>3, PrefixOf
      <3> QED BY <2>5, <3>4 DEF Behind, W
    <2>6. CASE cleaning = "on" /\ OnItsWay
      BY <2>1, <2>6, PlaceIsPrefix
    <2>7. CASE cleaning \in {"finished", "hanging"} /\ clean = WordsToClean
      BY <2>4, <2>7
    <2>8. CASE cleaning = "off"
      <3>1. gap = -1 /\ clean = <<>>
        BY <1>1, <2>8 DEF CleanInv
      <3>2. <<>> \in Seq(Words) /\ WordsToClean = <<>> \o WordsToClean
        BY <2>3, ConcatEmptySeq
      <3> DEFINE W == WordsToClean
                 e == <<>>
      <3>3. e \in Seq(Words) /\ W \in Seq(Words) /\ W = e \o W
        BY <2>3, <3>2
      <3> HIDE DEF W, e
      <3>4. IsPrefix(e, W)
        BY ONLY <3>3, PrefixOf
      <3> QED BY <2>8, <3>1, <3>4 DEF W, e
    <2> QED BY <1>1, <2>5, <2>6, <2>7, <2>8 DEF CleanInv, CleanPlace
  <1>2. FileKnown /\ CleanInv => CleanExact
    BY <1>1 DEF CleanExact
  <1> QED BY <1>2, CleanInductive, AlwaysFileKnown, PTL

\* FinishesUnlessDamaged: DeleteMeta stops with an error, or loses its way, only behind a
\* missed trigger or where 0x1000 stands for the wrong thing, and it hangs only in the last
\* event of the file.
THEOREM FinishesIfUndamaged == Spec => []FinishesUnlessDamaged
  <1>1. CleanInv => FinishesUnlessDamaged
    BY DEF CleanInv, CleanPlace, FinishesUnlessDamaged, Behind
  <1> QED BY <1>1, CleanInductive, PTL
================================================================================
