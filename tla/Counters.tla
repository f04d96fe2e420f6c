-------------------------------- MODULE Counters --------------------------------
(***************************************************************************)
(* The counters of a run: singleCounter and analysisCounter of the first   *)
(* CSM (filar_side/class_CSM.cpp), their reports by ChildSigUSR1Handler    *)
(* (filar_side/CSMMiniDAQ_dualCSM.cpp), and the sums the MiniDAQ host makes*)
(* of the reports (labwindows, CollectDAQInfor in DAQControl.c).           *)
(*                                                                         *)
(* The event builder counts in singleCounter.  A report, made in a signal  *)
(* handler, sends singleCounter, adds it to analysisCounter and clears it. *)
(* At the end of the run EndOfCollecting adds the last interval, without   *)
(* clearing it.  The host adds up the reports, and replaces its sums by    *)
(* analysisCounter when the run has been stopped (CMDREQALLDAQINFOR).      *)
(*                                                                         *)
(* Counters are words.  A "wide" one (ANALYSEDEVENT, NTOTALWORD, NGOODCYCLE*)
(* and four more) is summed in a word and a ...HIGH word that takes the    *)
(* carries; the sum of a "narrow" one, an error counter, stays at the      *)
(* largest word.  One of each stands for them all; the extremes and the    *)
(* last values (MINEVENTSIZE, CURREVENTID, ...) are left out.              *)
(*                                                                         *)
(* The build has no optimisation: an increment is a load and a store, and  *)
(* the sums of EndOfCollecting read both counters before they write.  The  *)
(* handler may come between.                                               *)
(***************************************************************************)
EXTENDS Integers, Sequences, Totals

CONSTANTS
    Word,       \* 2^32: the number of values of a word
    Steps,      \* what is added to a counter at a time
    MaxCount,   \* bound: how far a counter gets in the run
    MaxReports  \* bound: the reports on their way to the host

ASSUME WordAssumption == Word \in Nat /\ Word > 1
ASSUME StepAssumption == Steps \subseteq 1 .. Word - 1
ASSUME BoundAssumption == MaxCount \in Nat /\ MaxReports \in Nat

VARIABLES
    pc,         \* the child: "count" in DataAssembling, "store" inside an increment,
                \* in EndOfCollecting "loadSum", "loadSingle", "compare", "storeSum",
                \* and "ended" after it
    reg,        \* registers: the counter in hand, its old and new part, and whether
                \* a narrow one has been found not to overflow
    singleCounter, analysisCounter,
    reports,    \* the reports sent, in pipe2, the parent and the socket
    hostCounter,    \* the host's analysisCounter
    informed,   \* the host has got all counters at the end of the run
    counted,    \* history: what the event builder has counted
    dropped,    \* history: the wide counts in reports the host has not looked at
    spoilt      \* history: what has spoilt the sums

vars == <<pc, reg, singleCounter, analysisCounter, reports, hostCounter, informed,
          counted, dropped, spoilt>>

Kinds == {"wide", "narrow"}
Words == 0 .. Word - 1
Ending == {"loadSum", "loadSingle", "compare", "storeSum"}

Zero == [k \in Kinds |-> 0]

\* Sums: a word for each counter, and the ...HIGH word of the wide one.
Sums == [word : [Kinds -> Words], high : Nat]
ZeroSum == [word |-> Zero, high |-> 0]
Value(sums) == Word * sums.high + sums.word["wide"]

\* Causes of wrong sums: a report in the middle of an increment or of EndOfCollecting,
\* one after it, and an interval with more counts than a word holds.
Causes == {"increment", "end", "again", "interval"}

TypeOK ==
    /\ pc \in {"count", "store", "ended"} \cup Ending
    /\ reg \in [kind : Kinds, old : Words, new : Words, fits : BOOLEAN]
    /\ singleCounter \in [Kinds -> Words]
    /\ analysisCounter \in Sums /\ hostCounter \in Sums
    /\ reports \in Seq([Kinds -> Words])
    /\ informed \in BOOLEAN
    /\ counted \in [Kinds -> Nat] /\ dropped \in Nat
    /\ spoilt \subseteq Causes

\* The collector of a new run, and the host at the end of the run before.
Init ==
    /\ pc = "count"
    /\ reg = [kind |-> "wide", old |-> 0, new |-> 0, fits |-> FALSE]
    /\ singleCounter = Zero /\ analysisCounter = ZeroSum
    /\ reports = <<>> /\ hostCounter = ZeroSum /\ informed = FALSE
    /\ counted = Zero /\ dropped = 0 /\ spoilt = {}

--------------------------------------------------------------------------------
(* Sums of words. *)

Plus(a, b) == (a + b) % Word

\* (variant: a sum that has not changed counts as a carry)
CarriesIfEqual(a, sum) == sum <= a

\* The sum is smaller than what was added to.
Carries(a, sum) == sum < a

\* (variant: no limit is set to the error counters)
NarrowUnlimited(a, b) == a + b

NarrowSum(a, b) == IF Carries(a, Plus(a, b)) THEN Word - 1 ELSE a + b

\* An interval is added to sums.
Added(sums, single) ==
    LET sum == Plus(sums.word["wide"], single["wide"])
    IN  [word |-> [k \in Kinds |->
                     IF k = "wide" THEN sum ELSE NarrowSum(sums.word[k], single[k])],
         high |-> IF Carries(sums.word["wide"], sum) THEN sums.high + 1 ELSE sums.high]

--------------------------------------------------------------------------------
(* The child, outside the handler. *)

\* singleCounter[k] += n begins: the counter is loaded.
Count(k, n) ==
    /\ pc = "count" /\ counted[k] + n <= MaxCount
    /\ pc' = "store"
    /\ reg' = [reg EXCEPT !.kind = k, !.new = Plus(singleCounter[k], n)]
    /\ counted' = [counted EXCEPT ![k] = @ + n]
    /\ spoilt' = IF singleCounter[k] + n < Word THEN spoilt ELSE spoilt \cup {"interval"}
    /\ UNCHANGED <<singleCounter, analysisCounter, reports, hostCounter, informed, dropped>>

Store ==
    /\ pc = "store"
    /\ pc' = "count"
    /\ singleCounter' = [singleCounter EXCEPT ![reg.kind] = reg.new]
    /\ UNCHANGED <<reg, analysisCounter, reports, hostCounter, informed, counted, dropped>>
    /\ UNCHANGED spoilt

sumsOnly == <<singleCounter, reports, hostCounter, informed, counted, dropped, spoilt>>

\* (variant: the last interval is not added)
EndWithoutSums ==
    /\ pc = "count"
    /\ pc' = "ended"
    /\ UNCHANGED <<reg, analysisCounter, sumsOnly>>

\* DAQ_process ends, stopped by the host or by the event builder.
EndOfCollecting ==
    /\ pc = "count"
    /\ pc' = "loadSum"
    /\ reg' = [reg EXCEPT !.kind = "wide", !.fits = FALSE]
    /\ UNCHANGED <<analysisCounter, sumsOnly>>

LoadSum ==
    /\ pc = "loadSum"
    /\ pc' = "loadSingle"
    /\ reg' = [reg EXCEPT !.old = analysisCounter.word[reg.kind]]
    /\ UNCHANGED <<analysisCounter, sumsOnly>>

LoadSingle ==
    /\ pc = "loadSingle"
    /\ pc' = IF reg.fits THEN "storeSum" ELSE "compare"
    /\ reg' = [reg EXCEPT !.new = Plus(reg.old, singleCounter[reg.kind])]
    /\ UNCHANGED <<analysisCounter, sumsOnly>>

\* The sum is compared with the counter as it is now.
CompareWide ==
    /\ pc = "compare" /\ reg.kind = "wide"
    /\ pc' = "storeSum"
    /\ analysisCounter' = IF Carries(analysisCounter.word["wide"], reg.new)
                          THEN [analysisCounter EXCEPT !.high = @ + 1] ELSE analysisCounter
    /\ UNCHANGED <<reg, sumsOnly>>

\* A narrow sum that overflows is set to the largest word, one that fits is made again.
CompareNarrow ==
    /\ pc = "compare" /\ reg.kind = "narrow"
    /\ IF Carries(analysisCounter.word["narrow"], reg.new)
       THEN /\ pc' = "ended"
            /\ analysisCounter' = [analysisCounter EXCEPT !.word["narrow"] = Word - 1]
            /\ UNCHANGED reg
       ELSE /\ pc' = "loadSum"
            /\ reg' = [reg EXCEPT !.fits = TRUE]
            /\ UNCHANGED analysisCounter
    /\ UNCHANGED sumsOnly

StoreSum ==
    /\ pc = "storeSum"
    /\ pc' = IF reg.kind = "wide" THEN "loadSum" ELSE "ended"
    /\ reg' = [reg EXCEPT !.kind = "narrow"]
    /\ analysisCounter' = [analysisCounter EXCEPT !.word[reg.kind] = reg.new]
    /\ UNCHANGED sumsOnly

--------------------------------------------------------------------------------
(* The reports. *)

\* There are counts in singleCounter.
Counting == \E k \in Kinds : singleCounter[k] > 0

\* What a report at this point does to the sums, other than adding the interval.
Spoils ==
    CASE pc = "store" /\ singleCounter[reg.kind] > 0 -> {"increment"}
      [] pc \in Ending /\ Counting -> {"end"}
      [] pc = "ended" /\ Counting -> {"again"}
      [] OTHER -> {}

\* (variant: the counters are cleared before they are added up)
ClearedFirst(sums, single) == Added(sums, Zero)

\* analysisCounter after a report.
Summed(sums, single) == Added(sums, single)

\* ChildSigUSR1Handler.  The poll that asks for it may come at any point; after a run
\* that the event builder has stopped the host still polls once.
Report ==
    /\ Len(reports) < MaxReports
    /\ reports' = Append(reports, singleCounter)
    /\ analysisCounter' = Summed(analysisCounter, singleCounter)
    /\ singleCounter' = Zero
    /\ spoilt' = spoilt \cup Spoils
    /\ UNCHANGED <<pc, reg, hostCounter, informed, counted, dropped>>

\* (variant: the host does not carry)
CollectedWithoutCarry(sums, counter) == [Added(sums, counter) EXCEPT !.high = sums.high]

\* CollectDAQInfor: the host adds a report up as the child does.
Collected(sums, counter) == Added(sums, counter)

\* The host reads a report.
Hear ==
    /\ reports # <<>>
    /\ reports' = Tail(reports)
    /\ hostCounter' = Collected(hostCounter, Head(reports))
    /\ UNCHANGED <<pc, reg, singleCounter, analysisCounter, informed, counted, dropped, spoilt>>

\* A report that comes after another answer has been taken for it is not looked at.
\* CMDREREQDAQINFOR, which is to get it again, gets a status only.
Drop ==
    /\ reports # <<>>
    /\ reports' = Tail(reports)
    /\ dropped' = dropped + Head(reports)["wide"]
    /\ UNCHANGED <<pc, reg, singleCounter, analysisCounter, hostCounter, informed, counted>>
    /\ UNCHANGED spoilt

\* CMDREQALLDAQINFOR, after the run has been stopped: CopyDAQInfor takes analysisCounter
\* over.
RequestAll ==
    /\ pc = "ended" /\ reports = <<>>
    /\ hostCounter' = analysisCounter
    /\ informed' = TRUE
    /\ UNCHANGED <<pc, reg, singleCounter, analysisCounter, reports, counted, dropped, spoilt>>

Next ==
    \/ \E k \in Kinds, n \in Steps : Count(k, n)
    \/ Store
    \/ EndOfCollecting \/ LoadSum \/ LoadSingle \/ CompareWide \/ CompareNarrow \/ StoreSum
    \/ Report \/ Hear \/ Drop \/ RequestAll

Spec == Init /\ [][Next]_vars

--------------------------------------------------------------------------------
(* Properties. *)

\* What has been counted and not yet been added to analysisCounter.
Pending(k) ==
    CASE pc = "ended" -> 0
      [] pc = "store" /\ reg.kind = k -> reg.new
      [] OTHER -> singleCounter[k]

Saturated(n) == IF n < Word THEN n ELSE Word - 1

\* Unless a report hits an increment, the sums of EndOfCollecting, or an interval already
\* summed, everything counted is in analysisCounter or singleCounter, once: the carries
\* are right at every boundary of a word, and an error counter shows its true sum or the
\* largest word.
SumsExact ==
    (spoilt = {} /\ pc \notin Ending) =>
      /\ Value(analysisCounter) + Pending("wide") = counted["wide"]
      /\ analysisCounter.word["narrow"] = Saturated(counted["narrow"] - Pending("narrow"))

\* A report in the middle of an increment, or after the end of a run, counts an interval
\* twice, but never loses a count.
NothingLost ==
    (spoilt \subseteq {"increment", "again"} /\ pc \notin Ending) =>
      Value(analysisCounter) + Pending("wide") >= counted["wide"]

\* The wide counts in reports on their way.
UnderWay == Total([i \in 1..Len(reports) |-> reports[i]["wide"]])

\* While the run goes on the host's sum and the child's differ by the reports on their
\* way and those dropped, and by nothing else, however the words wrap on either side.
HostFollows ==
    pc \in {"count", "store"} =>
      Value(hostCounter) + UnderWay + dropped = Value(analysisCounter)

\* What the host has in the end is what was counted, whatever reports it has missed.
InformedExactly ==
    (informed /\ spoilt = {}) => Value(hostCounter) = counted["wide"]
================================================================================
