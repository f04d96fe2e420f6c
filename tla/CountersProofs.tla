----------------------------- MODULE CountersProofs -----------------------------
(***************************************************************************)
(* Proofs about the counters of a run, for every size of a word and every  *)
(* step: types, and that the sums are exact, or at worst too high, however *)
(* the reports are interleaved with the counting.                          *)
(***************************************************************************)
EXTENDS Counters, TotalsProofs, TLAPS

--------------------------------------------------------------------------------
(* Sums of words. *)

\* A sum of two words either fits, or is one word too small and carries.
LEMMA PlusWord ==
    ASSUME NEW a \in Words, NEW b \in Words
    PROVE  /\ Plus(a, b) \in Words
           /\ a + b < Word => Plus(a, b) = a + b /\ ~Carries(a, Plus(a, b))
           /\ a + b >= Word => Plus(a, b) = a + b - Word /\ Carries(a, Plus(a, b))
<1>1. Word \in Nat /\ Word > 1 /\ a \in Nat /\ b \in Nat /\ a < Word /\ b < Word
  BY WordAssumption DEF WordAssumption, Words
<1>2. a + b < Word => (a + b) % Word = a + b
  BY <1>1
<1>3. a + b >= Word => (a + b) % Word = a + b - Word
  BY <1>1
<1> QED
  BY <1>1, <1>2, <1>3 DEF Plus, Carries, Words

\* A narrow sum is the true one or the largest word.
LEMMA NarrowSumSaturates ==
    ASSUME NEW a \in Words, NEW b \in Words
    PROVE  NarrowSum(a, b) \in Words /\ NarrowSum(a, b) = Saturated(a + b)
<1>1. a \in Nat /\ b \in Nat /\ Word \in Nat /\ Word > 1
  BY WordAssumption DEF WordAssumption, Words
<1>2. /\ Plus(a, b) \in Words
      /\ a + b < Word => Plus(a, b) = a + b /\ ~Carries(a, Plus(a, b))
      /\ a + b >= Word => Carries(a, Plus(a, b))
  BY PlusWord
<1>3. CASE a + b < Word
  BY <1>1, <1>2, <1>3 DEF NarrowSum, Saturated, Words
<1>4. CASE a + b >= Word
  BY <1>1, <1>2, <1>4 DEF NarrowSum, Saturated, Words
<1> QED
  BY <1>1, <1>3, <1>4

\* Limiting a sum twice is limiting it once.
LEMMA SaturatedTwice ==
    ASSUME NEW d \in Nat, NEW b \in Nat
    PROVE  Saturated(Saturated(d) + b) = Saturated(d + b)
BY WordAssumption DEF WordAssumption, Saturated

\* Word * (h + 1) is one word more.
LEMMA NextHigh ==
    ASSUME NEW h \in Nat
    PROVE  Word * (h + 1) = Word * h + Word /\ Word * h \in Nat
BY WordAssumption DEF WordAssumption

\* Adding an interval to sums adds its counts, with the carry and the limit.
LEMMA AddedAdds ==
    ASSUME NEW sums \in Sums, NEW single \in [Kinds -> Words]
    PROVE  /\ Added(sums, single) \in Sums
           /\ Value(Added(sums, single)) = Value(sums) + single["wide"]
           /\ Added(sums, single).word["narrow"]
                = Saturated(sums.word["narrow"] + single["narrow"])
<1> DEFINE a == sums.word["wide"]  s == single["wide"]  h == sums.high
           n == NarrowSum(sums.word["narrow"], single["narrow"])
           new == Added(sums, single)
<1>1. a \in Words /\ s \in Words /\ h \in Nat
  BY DEF Sums, Kinds
<1>2. sums.word["narrow"] \in Words /\ single["narrow"] \in Words
  BY DEF Sums, Kinds
<1>3. n \in Words /\ n = Saturated(sums.word["narrow"] + single["narrow"])
  BY <1>2, NarrowSumSaturates
<1>4. /\ new.word = [k \in Kinds |-> IF k = "wide" THEN Plus(a, s)
                                     ELSE NarrowSum(sums.word[k], single[k])]
      /\ new.high = IF Carries(a, Plus(a, s)) THEN h + 1 ELSE h
      /\ new = [word |-> new.word, high |-> new.high]
  BY DEF Added
<1>5. new.word["wide"] = Plus(a, s) /\ new.word["narrow"] = n
  BY <1>4 DEF Kinds
<1>6. Plus(a, s) \in Words
  BY <1>1, PlusWord
<1>7. new \in Sums
  <2>1. new.word \in [Kinds -> Words]
    <3>1. ASSUME NEW k \in Kinds
          PROVE  (IF k = "wide" THEN Plus(a, s) ELSE NarrowSum(sums.word[k], single[k]))
                   \in Words
      BY <3>1, <1>3, <1>6 DEF Kinds
    <3> QED
      BY <3>1, <1>4
  <2>2. new.high \in Nat
    BY <1>1, <1>4
  <2> QED
    BY <2>1, <2>2, <1>4 DEF Sums
<1>8. Value(new) = Value(sums) + s
  <2>1. Value(new) = Word * new.high + Plus(a, s) /\ Value(sums) = Word * h + a
    BY <1>5 DEF Value
  <2>2. Word * (h + 1) = Word * h + Word /\ Word * h \in Nat
    BY <1>1, NextHigh
  <2>3. a \in Nat /\ s \in Nat /\ Word \in Nat
    BY <1>1, WordAssumption DEF WordAssumption, Words
  <2>4. CASE a + s < Word
    BY <2>1, <2>2, <2>3, <2>4, <1>1, <1>4, PlusWord
  <2>5. CASE a + s >= Word
    BY <2>1, <2>2, <2>3, <2>5, <1>1, <1>4, PlusWord
  <2> QED
    BY <2>3, <2>4, <2>5
<1> QED
  BY <1>3, <1>5, <1>7, <1>8

--------------------------------------------------------------------------------
(* Types. *)

LEMMA InitType == Init => TypeOK
<1> SUFFICES ASSUME Init PROVE TypeOK
  OBVIOUS
<1>1. 0 \in Words /\ Zero \in [Kinds -> Words] /\ Zero \in [Kinds -> Nat]
  BY WordAssumption DEF WordAssumption, Words, Zero
<1>2. ZeroSum \in Sums
  BY <1>1 DEF ZeroSum, Sums
<1>3. reg \in [kind : Kinds, old : Words, new : Words, fits : BOOLEAN]
  BY <1>1 DEF Init, Kinds
<1>4. reports \in Seq([Kinds -> Words])
  BY DEF Init
<1> QED
  BY <1>1, <1>2, <1>3, <1>4 DEF Init, TypeOK

LEMMA CountType == ASSUME TypeOK, NEW k \in Kinds, NEW n \in Steps, Count(k, n) PROVE TypeOK'
<1>1. singleCounter[k] \in Words /\ n \in Words
  BY StepAssumption, WordAssumption DEF StepAssumption, WordAssumption, TypeOK, Words
<1>2. Plus(singleCounter[k], n) \in Words
  BY <1>1, PlusWord
<1>3. reg' \in [kind : Kinds, old : Words, new : Words, fits : BOOLEAN]
  BY <1>2 DEF TypeOK, Count
<1>4. counted' \in [Kinds -> Nat]
  BY <1>1 DEF TypeOK, Count, Words
<1>5. spoilt' \subseteq Causes
  BY DEF TypeOK, Count, Causes
<1> QED
  BY <1>3, <1>4, <1>5 DEF TypeOK, Count

LEMMA ReportType == ASSUME TypeOK, Report PROVE TypeOK'
<1>1. Added(analysisCounter, singleCounter) \in Sums
  BY AddedAdds DEF TypeOK
<1>2. singleCounter' \in [Kinds -> Words]
  BY WordAssumption DEF WordAssumption, Report, Zero, Words
<1>3. reports' \in Seq([Kinds -> Words])
  BY DEF TypeOK, Report
<1>4. spoilt' \subseteq Causes
  BY DEF TypeOK, Report, Spoils, Causes
<1> QED
  BY <1>1, <1>2, <1>3, <1>4 DEF TypeOK, Report, Summed

LEMMA HearType == ASSUME TypeOK, Hear PROVE TypeOK'
<1>1. Head(reports) \in [Kinds -> Words] /\ Tail(reports) \in Seq([Kinds -> Words])
  BY DEF TypeOK, Hear
<1>2. Added(hostCounter, Head(reports)) \in Sums
  BY <1>1, AddedAdds DEF TypeOK
<1> QED
  BY <1>1, <1>2 DEF TypeOK, Hear, Collected

LEMMA DropType == ASSUME TypeOK, Drop PROVE TypeOK'
<1>1. Head(reports) \in [Kinds -> Words] /\ Tail(reports) \in Seq([Kinds -> Words])
  BY DEF TypeOK, Drop
<1>2. Head(reports)["wide"] \in Nat
  BY <1>1 DEF Kinds, Words
<1> QED
  BY <1>1, <1>2 DEF TypeOK, Drop

\* The steps of EndOfCollecting.
End == EndOfCollecting \/ LoadSum \/ LoadSingle \/ CompareWide \/ CompareNarrow \/ StoreSum

LEMMA EndType == ASSUME TypeOK, End PROVE TypeOK'
<1>1. /\ reg.kind \in Kinds /\ reg.old \in Words /\ reg.new \in Words
      /\ analysisCounter.word[reg.kind] \in Words /\ singleCounter[reg.kind] \in Words
      /\ analysisCounter.high \in Nat /\ "wide" \in Kinds /\ "narrow" \in Kinds
  BY DEF TypeOK, Sums, Kinds
<1>2. Plus(reg.old, singleCounter[reg.kind]) \in Words
  BY <1>1, PlusWord
<1>3. Word - 1 \in Words
  BY WordAssumption DEF WordAssumption, Words
<1>4. CASE EndOfCollecting
  BY <1>1, <1>4 DEF TypeOK, EndOfCollecting, sumsOnly, Ending
<1>5. CASE LoadSum
  BY <1>1, <1>5 DEF TypeOK, LoadSum, sumsOnly, Ending
<1>6. CASE LoadSingle
  BY <1>2, <1>6 DEF TypeOK, LoadSingle, sumsOnly, Ending
<1>7. CASE CompareWide
  BY <1>1, <1>7 DEF TypeOK, CompareWide, sumsOnly, Ending, Sums
<1>8. CASE CompareNarrow
  <2>1. [analysisCounter.word EXCEPT !["narrow"] = Word - 1] \in [Kinds -> Words]
    BY <1>3 DEF TypeOK, Sums
  <2>2. analysisCounter' \in Sums
    BY <1>8, <2>1 DEF TypeOK, CompareNarrow, Sums
  <2> QED
    BY <1>8, <2>2 DEF TypeOK, CompareNarrow, sumsOnly, Ending
<1>9. CASE StoreSum
  <2>1. [analysisCounter.word EXCEPT ![reg.kind] = reg.new] \in [Kinds -> Words]
    BY <1>1 DEF TypeOK, Sums
  <2>2. analysisCounter' \in Sums
    BY <1>9, <2>1 DEF TypeOK, StoreSum, Sums
  <2> QED
    BY <1>1, <1>9, <2>2 DEF TypeOK, StoreSum, sumsOnly, Ending
<1> QED
  BY <1>4, <1>5, <1>6, <1>7, <1>8, <1>9 DEF End

LEMMA NextType == TypeOK /\ [Next]_vars => TypeOK'
<1> SUFFICES ASSUME TypeOK, [Next]_vars PROVE TypeOK'
  OBVIOUS
<1>1. CASE Store
  BY <1>1 DEF TypeOK, Store
<1>2. CASE RequestAll
  BY <1>2 DEF TypeOK, RequestAll
<1>3. CASE UNCHANGED vars
  BY <1>3 DEF TypeOK, vars
<1> QED
  BY <1>1, <1>2, <1>3, CountType, EndType, ReportType, HearType, DropType DEF Next, End

\* TypeOK: every counter stays a word and every cause is a known one, for any word size.
THEOREM TypeCorrect == Spec => []TypeOK
BY InitType, NextType, PTL DEF Spec

--------------------------------------------------------------------------------
(* The sums. *)

A == analysisCounter.word
S == singleCounter

\* EndOfCollecting has added the wide counter up.
WideDone == pc = "ended" \/ (pc \in Ending /\ reg.kind = "narrow")

\* All that has been counted, as the words have it: with the register in hand when the
\* carry has been made and the low word not been stored.
WideTotal ==
    IF WideDone THEN Value(analysisCounter)
    ELSE IF pc = "storeSum" /\ reg.kind = "wide" THEN Word * analysisCounter.high + reg.new
    ELSE Value(analysisCounter) + Pending("wide")

WideInv ==
    /\ spoilt \subseteq {"increment", "again"} => WideTotal >= counted["wide"]
    /\ spoilt = {} => WideTotal = counted["wide"]

NarrowInv ==
    spoilt = {} =>
      /\ counted["narrow"] >= Pending("narrow")
      /\ A["narrow"] = Saturated(counted["narrow"] - Pending("narrow"))

\* Without a report in between, the registers of EndOfCollecting hold what they should.
RegisterInv ==
    "end" \notin spoilt =>
      /\ pc = "loadSingle" => reg.old = A[reg.kind]
      /\ pc = "compare" => reg.new = Plus(A[reg.kind], S[reg.kind])
      /\ pc = "storeSum" /\ reg.kind = "narrow" => reg.new = Plus(A["narrow"], S["narrow"])
      /\ pc \in Ending /\ reg.fits =>
           reg.kind = "narrow" /\ A["narrow"] + S["narrow"] < Word
      /\ pc = "storeSum" /\ reg.kind = "narrow" => reg.fits

SumInv == WideInv /\ NarrowInv /\ RegisterInv

LEMMA SumFacts ==
    ASSUME TypeOK
    PROVE  /\ Word \in Nat /\ Word > 1
           /\ reg.kind \in {"wide", "narrow"} /\ reg.new \in 0 .. Word - 1
           /\ A["wide"] \in 0 .. Word - 1 /\ A["narrow"] \in 0 .. Word - 1
           /\ S["wide"] \in 0 .. Word - 1 /\ S["narrow"] \in 0 .. Word - 1
           /\ counted["wide"] \in Nat /\ counted["narrow"] \in Nat
           /\ analysisCounter.high \in Nat
           /\ Value(analysisCounter) \in Nat
           /\ Value(analysisCounter) = Word * analysisCounter.high + A["wide"]
           /\ Word * analysisCounter.high \in Nat
<1>1. /\ reg.kind \in {"wide", "narrow"} /\ reg.new \in 0 .. Word - 1
      /\ A["wide"] \in 0 .. Word - 1 /\ A["narrow"] \in 0 .. Word - 1
      /\ S["wide"] \in 0 .. Word - 1 /\ S["narrow"] \in 0 .. Word - 1
      /\ counted["wide"] \in Nat /\ counted["narrow"] \in Nat
      /\ analysisCounter.high \in Nat
  BY DEF TypeOK, Sums, Kinds, Words, A, S
<1>2. Word \in Nat /\ Word > 1
  BY WordAssumption DEF WordAssumption
<1>3. Word * analysisCounter.high \in Nat
  BY <1>1, NextHigh
<1>4. Value(analysisCounter) = Word * analysisCounter.high + A["wide"]
  BY DEF Value, A
<1> QED
  BY <1>1, <1>2, <1>3, <1>4

LEMMA InitSums == Init => SumInv
<1> SUFFICES ASSUME Init PROVE SumInv
  OBVIOUS
<1>1. Word \in Nat /\ Word > 1
  BY WordAssumption DEF WordAssumption
<1>2. /\ pc = "count" /\ S["wide"] = 0 /\ S["narrow"] = 0
      /\ A["wide"] = 0 /\ A["narrow"] = 0 /\ analysisCounter.high = 0
      /\ counted["wide"] = 0 /\ counted["narrow"] = 0 /\ ~WideDone /\ pc \notin Ending
  BY DEF Init, A, S, Zero, ZeroSum, Kinds, WideDone, Ending
<1>3. Pending("wide") = 0 /\ Pending("narrow") = 0
  BY <1>2 DEF Pending, S
<1>4. Value(analysisCounter) = 0
  BY <1>1, <1>2 DEF Value, A
<1>5. WideTotal = 0
  BY <1>2, <1>3, <1>4 DEF WideTotal
<1>6. Saturated(0) = 0
  BY <1>1 DEF Saturated
<1> QED
  BY <1>2, <1>3, <1>5, <1>6 DEF SumInv, WideInv, NarrowInv, RegisterInv, Ending

LEMMA CountSums ==
    ASSUME TypeOK, SumInv, NEW k \in Kinds, NEW n \in Steps, Count(k, n) PROVE SumInv'
<1> USE SumFacts
<1>1. /\ pc = "count" /\ pc' = "store" /\ A' = A /\ S' = S /\ ~WideDone /\ ~WideDone'
      /\ Value(analysisCounter)' = Value(analysisCounter)
      /\ reg'.kind = k /\ reg'.new = Plus(S[k], n)
      /\ counted'[k] = counted[k] + n
      /\ \A j \in Kinds \ {k} : counted'[j] = counted[j]
  BY DEF Count, TypeOK, A, S, WideDone, Ending, Value
<1>2. k \in {"wide", "narrow"} /\ n \in 1 .. Word - 1 /\ S[k] \in 0 .. Word - 1
  BY StepAssumption DEF StepAssumption, Kinds
<1>3. spoilt' \subseteq {"increment", "again"} =>
        spoilt' = spoilt /\ reg'.new = S[k] + n
  <2>1. S[k] + n < Word => Plus(S[k], n) = S[k] + n
    BY <1>2, PlusWord DEF Words
  <2> QED
    BY <1>1, <2>1 DEF Count, S
<1>4. \A j \in Kinds : Pending(j) = S[j] /\ Pending(j)' = IF j = k THEN reg'.new ELSE S[j]
  BY <1>1 DEF Pending, S
<1>5. WideTotal = Value(analysisCounter) + Pending("wide")
  BY <1>1 DEF WideTotal
<1>6. WideTotal' = Value(analysisCounter) + Pending("wide")'
  BY <1>1 DEF WideTotal
<1>7. WideInv'
  BY <1>1, <1>2, <1>3, <1>4, <1>5, <1>6 DEF SumInv, WideInv, Kinds
<1>8. NarrowInv'
  BY <1>1, <1>2, <1>3, <1>4 DEF SumInv, NarrowInv, Kinds
<1>9. RegisterInv'
  BY <1>1 DEF RegisterInv, Ending
<1> QED
  BY <1>7, <1>8, <1>9 DEF SumInv

LEMMA StoreSums == ASSUME TypeOK, SumInv, Store PROVE SumInv'
<1> USE SumFacts
<1>1. /\ pc = "store" /\ pc' = "count" /\ A' = A /\ ~WideDone /\ ~WideDone'
      /\ Value(analysisCounter)' = Value(analysisCounter)
      /\ counted' = counted /\ spoilt' = spoilt
      /\ \A j \in Kinds : S'[j] = IF j = reg.kind THEN reg.new ELSE S[j]
  BY DEF Store, TypeOK, A, S, WideDone, Ending, Value
<1>2. \A j \in Kinds : Pending(j)' = Pending(j)
  BY <1>1 DEF Pending, S
<1>3. WideTotal' = WideTotal
  BY <1>1, <1>2 DEF WideTotal, Kinds
<1>4. WideInv' /\ NarrowInv' /\ RegisterInv'
  BY <1>1, <1>2, <1>3 DEF SumInv, WideInv, NarrowInv, RegisterInv, Ending, Kinds
<1> QED
  BY <1>4 DEF SumInv

\* The steps of EndOfCollecting, one by one.
LEMMA EndBeginSums == ASSUME TypeOK, SumInv, EndOfCollecting PROVE SumInv'
<1> USE SumFacts
<1>1. /\ pc = "count" /\ pc' = "loadSum" /\ A' = A /\ S' = S /\ ~WideDone /\ ~WideDone'
      /\ Value(analysisCounter)' = Value(analysisCounter)
      /\ counted' = counted /\ spoilt' = spoilt /\ reg'.kind = "wide" /\ ~reg'.fits
  BY DEF EndOfCollecting, sumsOnly, TypeOK, A, S, WideDone, Ending, Value
<1>2. \A j \in Kinds : Pending(j) = S[j] /\ Pending(j)' = S[j]
  BY <1>1 DEF Pending, S
<1>3. WideTotal' = WideTotal
  BY <1>1, <1>2 DEF WideTotal, Kinds
<1> QED
  BY <1>1, <1>2, <1>3 DEF SumInv, WideInv, NarrowInv, RegisterInv, Ending, Kinds

LEMMA LoadSumSums == ASSUME TypeOK, SumInv, LoadSum PROVE SumInv'
<1> USE SumFacts
<1>1. /\ pc = "loadSum" /\ pc' = "loadSingle" /\ A' = A /\ S' = S
      /\ Value(analysisCounter)' = Value(analysisCounter)
      /\ counted' = counted /\ spoilt' = spoilt
      /\ reg'.kind = reg.kind /\ reg'.fits = reg.fits /\ reg'.old = A[reg.kind]
  BY DEF LoadSum, sumsOnly, TypeOK, A, S, Value
<1>2. \A j \in Kinds : Pending(j) = S[j] /\ Pending(j)' = S[j]
  BY <1>1 DEF Pending, S
<1>3. WideDone' = WideDone
  BY <1>1 DEF WideDone, Ending
<1>4. WideTotal' = WideTotal
  BY <1>1, <1>2, <1>3 DEF WideTotal, Kinds
<1> QED
  BY <1>1, <1>2, <1>4 DEF SumInv, WideInv, NarrowInv, RegisterInv, Ending, Kinds

LEMMA LoadSingleSums == ASSUME TypeOK, SumInv, LoadSingle PROVE SumInv'
<1> USE SumFacts
<1>1. /\ pc = "loadSingle" /\ pc' = (IF reg.fits THEN "storeSum" ELSE "compare")
      /\ A' = A /\ S' = S /\ Value(analysisCounter)' = Value(analysisCounter)
      /\ counted' = counted /\ spoilt' = spoilt
      /\ reg'.kind = reg.kind /\ reg'.fits = reg.fits
      /\ reg'.new = Plus(reg.old, S[reg.kind])
  BY DEF LoadSingle, sumsOnly, TypeOK, A, S, Value
<1>2. \A j \in Kinds : Pending(j) = S[j] /\ Pending(j)' = S[j]
  BY <1>1 DEF Pending, S
<1>3. WideDone' = WideDone
  BY <1>1 DEF WideDone, Ending
<1>4. "end" \notin spoilt => (reg.fits => reg.kind = "narrow") /\ reg.old = A[reg.kind]
  BY <1>1 DEF SumInv, RegisterInv, Ending
<1>5. "end" \notin spoilt => WideTotal' = WideTotal
  BY <1>1, <1>2, <1>3, <1>4 DEF WideTotal, Kinds
<1>6. WideInv' /\ NarrowInv'
  BY <1>1, <1>2, <1>5 DEF SumInv, WideInv, NarrowInv, Kinds
<1>7. RegisterInv'
  BY <1>1, <1>4 DEF SumInv, RegisterInv, Ending
<1> QED
  BY <1>6, <1>7 DEF SumInv

LEMMA CompareWideSums == ASSUME TypeOK, SumInv, CompareWide PROVE SumInv'
<1> USE SumFacts
<1> DEFINE h == analysisCounter.high
<1>1. /\ pc = "compare" /\ pc' = "storeSum" /\ reg.kind = "wide" /\ reg' = reg
      /\ A' = A /\ S' = S /\ counted' = counted /\ spoilt' = spoilt
      /\ analysisCounter'.high = IF Carries(A["wide"], reg.new) THEN h + 1 ELSE h
  BY DEF CompareWide, sumsOnly, TypeOK, Sums, A, S
<1>2. \A j \in Kinds : Pending(j) = S[j] /\ Pending(j)' = S[j]
  BY <1>1 DEF Pending, S
<1>3. ~WideDone /\ ~WideDone'
  BY <1>1 DEF WideDone, Ending
<1>4. WideTotal = Value(analysisCounter) + S["wide"]
  BY <1>1, <1>2, <1>3 DEF WideTotal, Kinds
<1>5. WideTotal' = Word * analysisCounter'.high + reg.new
  BY <1>1, <1>3 DEF WideTotal
<1>6. "end" \notin spoilt =>
        reg.new = Plus(A["wide"], S["wide"]) /\ ~reg.fits
  BY <1>1 DEF SumInv, RegisterInv, Ending
<1>7. "end" \notin spoilt => WideTotal' = WideTotal
  <2> SUFFICES ASSUME "end" \notin spoilt PROVE WideTotal' = WideTotal
    OBVIOUS
  <2>1. Word * (h + 1) = Word * h + Word
    BY NextHigh
  <2>2. CASE A["wide"] + S["wide"] < Word
    <3>1. Plus(A["wide"], S["wide"]) = A["wide"] + S["wide"]
          /\ ~Carries(A["wide"], Plus(A["wide"], S["wide"]))
      BY <2>2, PlusWord DEF Words
    <3> QED
      BY <3>1, <1>1, <1>4, <1>5, <1>6
  <2>3. CASE A["wide"] + S["wide"] >= Word
    <3>1. Plus(A["wide"], S["wide"]) = A["wide"] + S["wide"] - Word
          /\ Carries(A["wide"], Plus(A["wide"], S["wide"]))
      BY <2>3, PlusWord DEF Words
    <3> QED
      BY <3>1, <2>1, <1>1, <1>4, <1>5, <1>6
  <2> QED
    BY <2>2, <2>3
<1>8. WideInv' /\ NarrowInv'
  BY <1>1, <1>2, <1>7 DEF SumInv, WideInv, NarrowInv, Kinds
<1>9. RegisterInv'
  BY <1>1, <1>6 DEF RegisterInv, Ending
<1> QED
  BY <1>8, <1>9 DEF SumInv

LEMMA CompareNarrowSums == ASSUME TypeOK, SumInv, CompareNarrow PROVE SumInv'
<1> USE SumFacts
<1>1. /\ pc = "compare" /\ reg.kind = "narrow" /\ S' = S
      /\ counted' = counted /\ spoilt' = spoilt
      /\ A'["wide"] = A["wide"] /\ analysisCounter'.high = analysisCounter.high
  BY SMTT(30) DEF CompareNarrow, sumsOnly, TypeOK, Sums, Kinds, A, S
<1>2. Value(analysisCounter)' = Value(analysisCounter)
  BY <1>1 DEF Value, A
<1>3. WideDone /\ WideDone'
  BY <1>1 DEF CompareNarrow, TypeOK, WideDone, Ending
<1>4. WideTotal' = WideTotal
  BY <1>2, <1>3 DEF WideTotal
<1>5. Pending("narrow") = S["narrow"]
  BY <1>1 DEF Pending, S
<1>6. "end" \notin spoilt => reg.new = Plus(A["narrow"], S["narrow"])
  BY <1>1 DEF SumInv, RegisterInv
<1>7. CASE Carries(A["narrow"], reg.new)
  <2>1. pc' = "ended" /\ A'["narrow"] = Word - 1
    BY <1>7 DEF CompareNarrow, TypeOK, Sums, Kinds, A
  <2>2. Pending("narrow")' = 0
    BY <2>1 DEF Pending
  <2>3. "end" \notin spoilt => A["narrow"] + S["narrow"] >= Word
    <3>1. ~(A["narrow"] + S["narrow"] >= Word) =>
            ~Carries(A["narrow"], Plus(A["narrow"], S["narrow"]))
      <4>1. A["narrow"] \in Words /\ S["narrow"] \in Words
        BY DEF Words
      <4> QED
        BY <4>1, PlusWord
    <3> QED
      BY <3>1, <1>6, <1>7
  <2>4. ASSUME spoilt = {} PROVE Word - 1 = Saturated(counted["narrow"])
    <3>1. counted["narrow"] >= S["narrow"]
          /\ A["narrow"] = Saturated(counted["narrow"] - S["narrow"])
      BY <2>4, <1>5 DEF SumInv, NarrowInv
    <3>2. counted["narrow"] >= Word
      BY <2>3, <2>4, <3>1 DEF Saturated
    <3> QED
      BY <3>2 DEF Saturated
  <2> QED
    BY <1>1, <1>4, <2>1, <2>2, <2>4 DEF SumInv, WideInv, NarrowInv, RegisterInv, Ending
<1>8. CASE ~Carries(A["narrow"], reg.new)
  <2>1. pc' = "loadSum" /\ A' = A /\ reg'.kind = "narrow" /\ reg'.fits
    BY <1>1, <1>8 DEF CompareNarrow, TypeOK, A
  <2>2. Pending("narrow")' = S["narrow"]
    BY <1>1, <2>1 DEF Pending, S
  <2>3. "end" \notin spoilt => A["narrow"] + S["narrow"] < Word
    <3>1. ~(A["narrow"] + S["narrow"] < Word) =>
            Carries(A["narrow"], Plus(A["narrow"], S["narrow"]))
      <4>1. A["narrow"] \in Words /\ S["narrow"] \in Words
        BY DEF Words
      <4> QED
        BY <4>1, PlusWord
    <3> QED
      BY <3>1, <1>6, <1>8
  <2> QED
    BY <1>1, <1>4, <1>5, <2>1, <2>2, <2>3 DEF SumInv, WideInv, NarrowInv, RegisterInv, Ending
<1> QED
  BY <1>7, <1>8

LEMMA StoreSumSums == ASSUME TypeOK, SumInv, StoreSum PROVE SumInv'
<1> USE SumFacts
<1>1. /\ pc = "storeSum" /\ pc' = (IF reg.kind = "wide" THEN "loadSum" ELSE "ended")
      /\ reg'.kind = "narrow" /\ reg'.fits = reg.fits /\ S' = S
      /\ counted' = counted /\ spoilt' = spoilt
      /\ analysisCounter'.high = analysisCounter.high
      /\ A' = [A EXCEPT ![reg.kind] = reg.new]
  BY DEF StoreSum, sumsOnly, TypeOK, Sums, A, S
<1>2. Value(analysisCounter)' = Word * analysisCounter.high + A'["wide"]
  BY <1>1 DEF Value, A
<1>3. WideDone'
  BY <1>1 DEF WideDone, Ending
<1>4. WideTotal' = Word * analysisCounter.high + A'["wide"]
  BY <1>2, <1>3 DEF WideTotal
<1>5. A \in [Kinds -> Words]
  BY DEF TypeOK, Sums, A
<1>6. Pending("narrow") = S["narrow"]
  BY <1>1 DEF Pending, S
<1>7. CASE reg.kind = "wide"
  <2>1. A'["wide"] = reg.new /\ A'["narrow"] = A["narrow"] /\ ~WideDone /\ pc' = "loadSum"
    BY <1>1, <1>5, <1>7 DEF Kinds, WideDone
  <2>2. WideTotal = Word * analysisCounter.high + reg.new
    BY <1>1, <1>7, <2>1 DEF WideTotal
  <2>3. Pending("narrow")' = S["narrow"]
    BY <1>1, <2>1 DEF Pending, S
  <2>4. "end" \notin spoilt => ~reg.fits
    BY <1>1, <1>7 DEF SumInv, RegisterInv, Ending
  <2> QED
    BY <1>1, <1>4, <1>6, <2>1, <2>2, <2>3, <2>4
       DEF SumInv, WideInv, NarrowInv, RegisterInv, Ending
<1>8. CASE reg.kind = "narrow"
  <2>1. A'["wide"] = A["wide"] /\ A'["narrow"] = reg.new /\ WideDone /\ pc' = "ended"
    BY <1>1, <1>5, <1>8 DEF Kinds, WideDone, Ending
  <2>2. WideTotal' = WideTotal
    BY <1>4, <2>1 DEF WideTotal
  <2>3. Pending("narrow")' = 0
    BY <2>1 DEF Pending
  <2>4. "end" \notin spoilt => reg.new = A["narrow"] + S["narrow"] /\ reg.new < Word
    <3>1. "end" \notin spoilt =>
            reg.new = Plus(A["narrow"], S["narrow"]) /\ A["narrow"] + S["narrow"] < Word
      BY <1>1, <1>8 DEF SumInv, RegisterInv, Ending
    <3> QED
      BY <3>1, PlusWord DEF Words
  <2>5. spoilt = {} => reg.new = Saturated(counted["narrow"])
    BY <1>6, <2>4 DEF SumInv, NarrowInv, Saturated
  <2> QED
    BY <1>1, <2>1, <2>2, <2>3, <2>5 DEF SumInv, WideInv, NarrowInv, RegisterInv, Ending
<1> QED
  BY <1>7, <1>8

LEMMA EndSums == ASSUME TypeOK, SumInv, End PROVE SumInv'
BY EndBeginSums, LoadSumSums, LoadSingleSums, CompareWideSums, CompareNarrowSums, StoreSumSums
   DEF End

\* A report adds what is in singleCounter to the sums, wherever the child is.
LEMMA ReportSums == ASSUME TypeOK, SumInv, Report PROVE SumInv'
<1> USE SumFacts
<1>1. /\ pc' = pc /\ reg' = reg /\ counted' = counted /\ spoilt' = spoilt \cup Spoils
      /\ S'["wide"] = 0 /\ S'["narrow"] = 0
  BY DEF Report, S, Zero, Kinds
<1>2. /\ Value(analysisCounter)' = Value(analysisCounter) + S["wide"]
      /\ A'["narrow"] = Saturated(A["narrow"] + S["narrow"])
  BY AddedAdds DEF Report, Summed, TypeOK, A, S, Value
<1>3. WideDone' = WideDone
  BY <1>1 DEF WideDone
<1>4. spoilt \subseteq spoilt'
  BY <1>1
<1>5. spoilt' = {} => spoilt = {} /\ Spoils = {}
  BY <1>1
<1>6. CASE pc \in Ending
  <2>1. "end" \notin spoilt' => ~Counting
    BY <1>1, <1>6 DEF Spoils, Ending
  <2>2. ~Counting => S["wide"] = 0 /\ S["narrow"] = 0 /\ S' = S
    <3>1. ~Counting => \A k \in Kinds : S[k] = 0
      BY DEF Counting, TypeOK, Words, S
    <3> QED
      BY <3>1 DEF Report, TypeOK, Zero, Kinds, S
  <2>3. ~Counting => analysisCounter' = analysisCounter
    <3> SUFFICES ASSUME ~Counting PROVE Added(analysisCounter, S) = analysisCounter
      BY DEF Report, Summed, S
    <3>1. Plus(A["wide"], 0) = A["wide"] /\ ~Carries(A["wide"], A["wide"])
      <4>1. 0 \in Words /\ A["wide"] \in Words /\ A["wide"] + 0 < Word
        BY DEF Words
      <4>2. Plus(A["wide"], 0) = A["wide"] + 0 /\ ~Carries(A["wide"], Plus(A["wide"], 0))
        BY <4>1, PlusWord
      <4> QED
        BY <4>2
    <3>2. NarrowSum(A["narrow"], 0) = A["narrow"]
      <4>1. 0 \in Words /\ A["narrow"] \in Words
        BY DEF Words
      <4>2. NarrowSum(A["narrow"], 0) = Saturated(A["narrow"] + 0)
        BY <4>1, NarrowSumSaturates
      <4> QED
        BY <4>2 DEF Saturated
    <3>3. Added(analysisCounter, S).word = A
      BY <2>2, <3>1, <3>2 DEF Added, TypeOK, Sums, Kinds, A
    <3>4. Added(analysisCounter, S).high = analysisCounter.high
      BY <2>2, <3>1 DEF Added, A
    <3> QED
      BY <3>3, <3>4 DEF Added, TypeOK, Sums, A
  <2>4. "end" \notin spoilt' => spoilt' = spoilt /\ A' = A /\ S' = S
          /\ Value(analysisCounter)' = Value(analysisCounter)
          /\ analysisCounter'.high = analysisCounter.high
    BY <1>1, <1>6, <2>1, <2>2, <2>3 DEF Spoils, A, Ending, Value
  <2>5. \A k \in Kinds : Pending(k) = S[k] /\ Pending(k)' = S'[k]
    BY <1>1, <1>6 DEF Pending, Ending, S
  <2>6. "end" \notin spoilt' => WideTotal' = WideTotal
    BY <1>1, <1>3, <2>4, <2>5 DEF WideTotal, Kinds
  <2> QED
    BY <1>1, <2>4, <2>5, <2>6 DEF SumInv, WideInv, NarrowInv, RegisterInv, Kinds
<1>7. CASE pc = "ended"
  <2>1. WideDone /\ Pending("narrow") = 0 /\ Pending("narrow")' = 0
    BY <1>1, <1>7 DEF WideDone, Pending
  <2>2. WideTotal' = WideTotal + S["wide"]
    BY <1>2, <1>3, <2>1 DEF WideTotal
  <2>3. spoilt' = {} => S["wide"] = 0 /\ S["narrow"] = 0
    BY <1>5, <1>7 DEF Spoils, Counting, Kinds, S, Ending
  <2>4. Saturated(A["narrow"]) = A["narrow"]
    BY DEF Saturated
  <2>5. WideTotal \in Int
    BY <2>1 DEF WideTotal
  <2>6. WideInv'
    BY <1>1, <1>4, <1>5, <2>2, <2>3, <2>5 DEF SumInv, WideInv
  <2>7. NarrowInv'
    BY <1>1, <1>2, <1>5, <2>1, <2>3, <2>4 DEF SumInv, NarrowInv
  <2> QED
    BY <1>1, <1>7, <2>6, <2>7 DEF SumInv, RegisterInv, Ending
<1>8. CASE pc \in {"count", "store"}
  <2>1. ~WideDone /\ ~WideDone'
    BY <1>1, <1>8 DEF WideDone, Ending
  <2>2. WideTotal = Value(analysisCounter) + Pending("wide")
    BY <1>8, <2>1 DEF WideTotal
  <2>3. WideTotal' = Value(analysisCounter) + S["wide"] + Pending("wide")'
    BY <1>1, <1>2, <1>8, <2>1 DEF WideTotal
  <2>4. \A k \in Kinds :
          /\ Pending(k) = IF pc = "store" /\ reg.kind = k THEN reg.new ELSE S[k]
          /\ Pending(k)' = IF pc = "store" /\ reg.kind = k THEN reg.new ELSE 0
    BY <1>1, <1>8 DEF Pending, S, Kinds
  <2>5. spoilt' = {} /\ pc = "store" => S[reg.kind] = 0
    BY <1>5 DEF Spoils, S, Ending, TypeOK, Words
  <2>6. spoilt' \subseteq {"increment", "again"} => WideTotal' >= counted["wide"]
    BY <1>4, <2>2, <2>3, <2>4 DEF SumInv, WideInv, Kinds
  <2>7. spoilt' = {} => WideTotal' = counted["wide"]
    BY <1>5, <2>2, <2>3, <2>4, <2>5 DEF SumInv, WideInv, Kinds
  <2>8. NarrowInv'
    <3> SUFFICES ASSUME spoilt' = {}
                 PROVE  /\ counted["narrow"] >= Pending("narrow")'
                        /\ A'["narrow"] = Saturated(counted["narrow"] - Pending("narrow")')
      BY <1>1 DEF NarrowInv
    <3>1. /\ counted["narrow"] >= Pending("narrow")
          /\ A["narrow"] = Saturated(counted["narrow"] - Pending("narrow"))
      BY <1>5 DEF SumInv, NarrowInv
    <3>2. CASE pc = "store" /\ reg.kind = "narrow"
      <4>1. Pending("narrow") = reg.new /\ Pending("narrow")' = reg.new /\ S["narrow"] = 0
        BY <2>4, <2>5, <3>2 DEF Kinds
      <4>2. Saturated(A["narrow"]) = A["narrow"]
        BY DEF Saturated
      <4> QED
        BY <1>2, <3>1, <4>1, <4>2
    <3>3. CASE ~(pc = "store" /\ reg.kind = "narrow")
      <4>1. Pending("narrow") = S["narrow"] /\ Pending("narrow")' = 0
        BY <2>4, <3>3 DEF Kinds
      <4>2. Saturated(Saturated(counted["narrow"] - S["narrow"]) + S["narrow"])
              = Saturated(counted["narrow"])
        <5>1. counted["narrow"] - S["narrow"] \in Nat /\ S["narrow"] \in Nat
          BY <3>1, <4>1
        <5>2. Saturated(Saturated(counted["narrow"] - S["narrow"]) + S["narrow"])
                = Saturated((counted["narrow"] - S["narrow"]) + S["narrow"])
          BY <5>1, SaturatedTwice
        <5>3. (counted["narrow"] - S["narrow"]) + S["narrow"] = counted["narrow"]
          BY <5>1
        <5> QED
          BY <5>2, <5>3
      <4> QED
        BY <1>2, <3>1, <4>1, <4>2
    <3> QED
      BY <3>2, <3>3
  <2> QED
    BY <1>1, <1>8, <2>6, <2>7, <2>8 DEF SumInv, WideInv, RegisterInv, Ending
<1> QED
  BY <1>6, <1>7, <1>8 DEF TypeOK

LEMMA NextSums == TypeOK /\ SumInv /\ [Next]_vars => SumInv'
<1> SUFFICES ASSUME TypeOK, SumInv, [Next]_vars PROVE SumInv'
  OBVIOUS
<1>1. CASE Hear \/ Drop \/ RequestAll \/ UNCHANGED vars
  <2>1. UNCHANGED <<pc, reg, singleCounter, analysisCounter, counted, spoilt>>
    BY <1>1 DEF Hear, Drop, RequestAll, vars
  <2>2. WideTotal' = WideTotal /\ Pending("narrow")' = Pending("narrow")
    BY <2>1 DEF WideTotal, WideDone, Pending, Value
  <2> QED
    BY <2>1, <2>2 DEF SumInv, WideInv, NarrowInv, RegisterInv, A, S
<1> QED
  BY <1>1, CountSums, StoreSums, EndSums, ReportSums DEF Next, End

LEMMA SumsInductive == Spec => [](TypeOK /\ SumInv)
<1>1. Init => TypeOK /\ SumInv
  BY InitType, InitSums
<1>2. TypeOK /\ SumInv /\ [Next]_vars => (TypeOK /\ SumInv)'
  BY NextType, NextSums
<1> QED
  BY <1>1, <1>2, PTL DEF Spec

\* SumsExact: for every word size, what has been counted is in the sums once, unless a
\* report hits one of the three windows.
THEOREM SumsAreExact == Spec => []SumsExact
<1>1. TypeOK /\ SumInv => SumsExact
  BY DEF SumInv, WideInv, NarrowInv, SumsExact, WideTotal, WideDone, Pending, Ending, A,
         TypeOK, Value, Sums, Words, Kinds
<1> QED
  BY <1>1, SumsInductive, PTL

\* NothingLost: a report in the middle of an increment, or after the end, only ever
\* counts twice.
THEOREM CountsAreNotLost == Spec => []NothingLost
<1>1. ASSUME TypeOK, pc \notin Ending
      PROVE  WideTotal = Value(analysisCounter) + Pending("wide")
  BY <1>1, SumFacts DEF WideTotal, WideDone, Pending, Ending
<1>2. TypeOK /\ SumInv => NothingLost
  BY <1>1 DEF SumInv, WideInv, NothingLost
<1> QED
  BY <1>2, SumsInductive, PTL

\* Once the host has all counters, reports bring nothing any more.
InformedInv ==
    informed =>
      /\ pc = "ended"
      /\ spoilt = {} =>
           /\ Value(hostCounter) = Value(analysisCounter)
           /\ \A i \in 1..Len(reports) : reports[i]["wide"] = 0

LEMMA ValueNat == ASSUME NEW sums \in Sums PROVE Value(sums) \in Nat
<1>1. sums.high \in Nat /\ sums.word["wide"] \in Nat
  BY DEF Sums, Words, Kinds
<1>2. Word * sums.high \in Nat
  BY <1>1, NextHigh
<1> QED
  BY <1>1, <1>2 DEF Value

LEMMA NextInformed == TypeOK /\ InformedInv /\ [Next]_vars => InformedInv'
<1> SUFFICES ASSUME TypeOK, InformedInv, [Next]_vars PROVE InformedInv'
  OBVIOUS
<1>1. CASE Report
  <2> SUFFICES ASSUME informed
               PROVE  /\ pc' = "ended"
                      /\ spoilt' = {} =>
                           /\ Value(hostCounter)' = Value(analysisCounter)'
                           /\ \A i \in 1..Len(reports') : reports'[i]["wide"] = 0
    BY <1>1 DEF Report, InformedInv
  <2>1. pc = "ended" /\ pc' = "ended"
    BY <1>1 DEF Report, InformedInv
  <2>2. spoilt' = {} => spoilt = {} /\ singleCounter["wide"] = 0
    <3>1. spoilt' = spoilt \cup Spoils
      BY <1>1 DEF Report
    <3>2. Counting => Spoils = {"again"}
      BY <2>1 DEF Spoils, Ending
    <3>3. ~Counting => singleCounter["wide"] = 0
      BY DEF Counting, TypeOK, Kinds, Words
    <3> QED
      BY <3>1, <3>2, <3>3
  <2>3. Value(analysisCounter)' = Value(analysisCounter) + singleCounter["wide"]
    BY <1>1, AddedAdds DEF Report, Summed, TypeOK, Value
  <2>4. Value(hostCounter)' = Value(hostCounter)
    BY <1>1 DEF Report, Value
  <2>5. Value(analysisCounter) \in Nat
    BY ValueNat DEF TypeOK
  <2>6. \A i \in 1..Len(reports') :
          reports'[i] = IF i <= Len(reports) THEN reports[i] ELSE singleCounter
    BY <1>1 DEF Report, TypeOK
  <2>7. \A i \in 1..Len(reports') : i <= Len(reports) => i \in 1..Len(reports)
    BY DEF TypeOK
  <2> QED
    BY <2>1, <2>2, <2>3, <2>4, <2>5, <2>6, <2>7 DEF InformedInv
<1>2. CASE Hear
  <2>1. Head(reports) \in [Kinds -> Words] /\ Head(reports) = reports[1] /\ 1 \in 1..Len(reports)
    BY <1>2 DEF Hear, TypeOK
  <2>2. Value(hostCounter)' = Value(hostCounter) + Head(reports)["wide"]
    BY <1>2, <2>1, AddedAdds DEF Hear, Collected, TypeOK, Value
  <2>3. \A i \in 1..Len(reports') : reports'[i] = reports[i + 1] /\ i + 1 \in 1..Len(reports)
    BY <1>2 DEF Hear, TypeOK
  <2>4. Value(hostCounter) \in Nat
    BY ValueNat DEF TypeOK
  <2>5. UNCHANGED <<pc, informed, spoilt, analysisCounter>>
    BY <1>2 DEF Hear
  <2>6. Value(analysisCounter)' = Value(analysisCounter)
    BY <2>5 DEF Value
  <2> QED
    BY <2>1, <2>2, <2>3, <2>4, <2>5, <2>6 DEF InformedInv
<1>3. CASE Drop
  <2>1. \A i \in 1..Len(reports') : reports'[i] = reports[i + 1] /\ i + 1 \in 1..Len(reports)
    BY <1>3 DEF Drop, TypeOK
  <2>2. UNCHANGED <<pc, informed, spoilt, analysisCounter, hostCounter>>
    BY <1>3 DEF Drop
  <2> QED
    BY <2>1, <2>2 DEF InformedInv, Value
<1>4. CASE RequestAll
  BY <1>4 DEF RequestAll, InformedInv, Value
<1>5. CASE End \/ Store \/ \E k \in Kinds, n \in Steps : Count(k, n)
  <2>1. pc # "ended" /\ informed' = informed
    BY <1>5 DEF End, EndOfCollecting, LoadSum, LoadSingle, CompareWide, CompareNarrow, StoreSum,
                sumsOnly, Store, Count
  <2> QED
    BY <2>1 DEF InformedInv
<1>6. CASE UNCHANGED vars
  BY <1>6 DEF vars, InformedInv, Value
<1> QED
  BY <1>1, <1>2, <1>3, <1>4, <1>5, <1>6 DEF Next, End

\* InformedExactly: for every word size, what the host has at the end of the run is what
\* was counted, whatever reports it has missed, unless a report hit a window.
THEOREM HostIsInformed == Spec => []InformedExactly
<1>1. Init => InformedInv
  BY DEF Init, InformedInv
<1>2. TypeOK /\ SumInv /\ InformedInv => InformedExactly
  BY SumFacts DEF SumInv, WideInv, InformedInv, InformedExactly, WideTotal, WideDone
<1> QED
  BY <1>1, <1>2, NextInformed, SumsInductive, PTL DEF Spec

--------------------------------------------------------------------------------
(* The host while the run goes on. *)

\* The wide counts in a sequence of reports.
Wides(q) == [i \in 1..Len(q) |-> q[i]["wide"]]

LEMMA WidesTyped ==
    ASSUME NEW q \in Seq([Kinds -> Words])
    PROVE  Wides(q) \in Seq(Int) /\ Len(Wides(q)) = Len(q) /\ Total(Wides(q)) \in Nat
<1>1. \A i \in 1..Len(q) : q[i]["wide"] \in Nat
  BY DEF Kinds, Words
<1>2. Wides(q) \in Seq(Nat) /\ Len(Wides(q)) = Len(q)
  BY <1>1 DEF Wides
<1>3. Wides(q) \in Seq(Int)
  BY <1>2
<1> QED
  BY <1>2, <1>3, TotalNat

LEMMA WidesAppend ==
    ASSUME NEW q \in Seq([Kinds -> Words]), NEW r \in [Kinds -> Words]
    PROVE  Total(Wides(Append(q, r))) = Total(Wides(q)) + r["wide"]
<1>1. Wides(Append(q, r)) = Append(Wides(q), r["wide"])
  BY DEF Wides
<1>2. r["wide"] \in Int
  BY DEF Kinds, Words
<1> QED
  BY <1>1, <1>2, WidesTyped, TotalAppend

LEMMA WidesTail ==
    ASSUME NEW q \in Seq([Kinds -> Words]), q # <<>>
    PROVE  Total(Wides(q)) = Head(q)["wide"] + Total(Wides(Tail(q)))
<1>1. Wides(q) \in Seq(Int) /\ Wides(q) # <<>>
  BY WidesTyped
<1>2. Head(Wides(q)) = Head(q)["wide"] /\ Tail(Wides(q)) = Wides(Tail(q))
  BY DEF Wides
<1> QED
  BY <1>1, <1>2, TotalTail

LEMMA NextFollows == TypeOK /\ HostFollows /\ [Next]_vars => HostFollows'
<1> SUFFICES ASSUME TypeOK, HostFollows, [Next]_vars PROVE HostFollows'
  OBVIOUS
<1>1. UnderWay = Total(Wides(reports)) /\ UnderWay' = Total(Wides(reports'))
  BY DEF UnderWay, Wides
<1>2. /\ reports \in Seq([Kinds -> Words]) /\ singleCounter \in [Kinds -> Words]
      /\ dropped \in Nat /\ UnderWay \in Nat
      /\ Value(hostCounter) \in Nat /\ Value(analysisCounter) \in Nat
  BY <1>1, WidesTyped, ValueNat DEF TypeOK
<1>3. CASE Report
  <2>1. Value(analysisCounter)' = Value(analysisCounter) + singleCounter["wide"]
    BY <1>3, AddedAdds DEF Report, Summed, TypeOK, Value
  <2>2. UnderWay' = UnderWay + singleCounter["wide"]
    BY <1>1, <1>2, <1>3, WidesAppend DEF Report
  <2>3. Value(hostCounter)' = Value(hostCounter) /\ UNCHANGED <<pc, dropped>>
    BY <1>3 DEF Report, Value
  <2>4. singleCounter["wide"] \in Nat
    BY <1>2 DEF Kinds, Words
  <2> QED
    BY <1>2, <2>1, <2>2, <2>3, <2>4 DEF HostFollows
<1>4. ASSUME reports # <<>>, reports' = Tail(reports)
      PROVE  /\ Head(reports)["wide"] \in Nat /\ UnderWay' \in Nat
             /\ UnderWay = Head(reports)["wide"] + UnderWay'
  <2>1. reports' \in Seq([Kinds -> Words]) /\ Head(reports) \in [Kinds -> Words]
    BY <1>2, <1>4
  <2>2. Total(Wides(reports)) = Head(reports)["wide"] + Total(Wides(Tail(reports)))
    BY <1>2, <1>4, WidesTail
  <2>3. Total(Wides(reports')) \in Nat
    BY <2>1, WidesTyped
  <2>4. Head(reports)["wide"] \in Nat
    BY <2>1 DEF Kinds, Words
  <2> QED
    BY <1>1, <1>4, <2>2, <2>3, <2>4
<1>5. CASE Hear
  <2>1. Head(reports) \in [Kinds -> Words]
    BY <1>2, <1>5 DEF Hear
  <2>2. Value(hostCounter)' = Value(hostCounter) + Head(reports)["wide"]
    BY <1>5, <2>1, AddedAdds DEF Hear, Collected, TypeOK, Value
  <2>3. Value(analysisCounter)' = Value(analysisCounter) /\ UNCHANGED <<pc, dropped>>
    BY <1>5 DEF Hear, Value
  <2>4. reports # <<>> /\ reports' = Tail(reports)
    BY <1>5 DEF Hear
  <2> QED
    BY <1>2, <1>4, <2>2, <2>3, <2>4 DEF HostFollows
<1>6. CASE Drop
  <2>1. reports # <<>> /\ reports' = Tail(reports)
    BY <1>6 DEF Drop
  <2>2. dropped' = dropped + Head(reports)["wide"] /\ pc' = pc
    BY <1>6 DEF Drop
  <2>3. Value(analysisCounter)' = Value(analysisCounter) /\ Value(hostCounter)' = Value(hostCounter)
    BY <1>6 DEF Drop, Value
  <2> QED
    BY <1>2, <1>4, <2>1, <2>2, <2>3, SMTT(30) DEF HostFollows
<1>7. CASE Store \/ \E k \in Kinds, n \in Steps : Count(k, n)
  <2>1. UNCHANGED <<reports, hostCounter, analysisCounter, dropped>> /\ pc \in {"count", "store"}
    BY <1>7 DEF Store, Count
  <2> QED
    BY <1>1, <2>1 DEF HostFollows, Value
<1>8. CASE End \/ RequestAll
  <2>1. pc' \notin {"count", "store"}
    BY <1>8 DEF End, EndOfCollecting, LoadSum, LoadSingle, CompareWide, CompareNarrow, StoreSum,
                sumsOnly, RequestAll, TypeOK
  <2> QED
    BY <2>1 DEF HostFollows
<1>9. CASE UNCHANGED vars
  BY <1>1, <1>9 DEF vars, HostFollows, Value
<1> QED
  BY <1>3, <1>5, <1>6, <1>7, <1>8, <1>9 DEF Next, End

\* While the run goes on the host's sum and the child's differ by what is on its way or
\* was dropped, for every word size and any number of reports, however the words wrap.
THEOREM HostKeepsUp == Spec => []HostFollows
<1>1. Init => HostFollows
  <2> SUFFICES ASSUME Init PROVE HostFollows
    OBVIOUS
  <2>1. UnderWay = 0
    <3>1. UnderWay = Total(<<>>)
      BY DEF Init, UnderWay
    <3> QED
      BY <3>1, TotalEmpty
  <2>2. Value(hostCounter) = Value(analysisCounter) /\ Value(hostCounter) \in Nat /\ dropped = 0
    <3>1. TypeOK
      BY InitType
    <3> QED
      BY <3>1, ValueNat DEF Init, TypeOK
  <2> QED
    BY <2>1, <2>2 DEF HostFollows
<1> QED
  BY <1>1, NextFollows, TypeCorrect, PTL DEF Spec
================================================================================
