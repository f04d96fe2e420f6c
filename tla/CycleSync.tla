------------------------------- MODULE CycleSync -------------------------------
(***************************************************************************)
(* Which card a word comes from: the spacer synchronisation at the head of *)
(* CollectCSMData::DataAssembling (filar_side/class_CSM.cpp).              *)
(*                                                                         *)
(* A CSM sends cycles: a spacer word, then one word of every mezzanine     *)
(* card.  Only the place in the cycle tells which card a word is from.     *)
(* The FILAR card cuts the stream into blocks anywhere.  The collector     *)
(* counts the words in `channel`, over the blocks; at the head of a block  *)
(* it looks for a spacer where it expects the next one, and if there is    *)
(* none, searches for the first spacer of the block.                       *)
(*                                                                         *)
(* Places of a cycle are numbered from 0, the spacer; place k is card k-1. *)
(* Empty words of a card (CSMIDLEWORD) count like its data.  What becomes  *)
(* of the words is EventBuilder's subject.  The cycle counters are left    *)
(* out, and so is badCycleAtBeginning, which only selects among them.      *)
(***************************************************************************)
EXTENDS Integers, Sequences

CONSTANTS
    Cards,      \* 18: MAXNUMBERMEZZANINE
    MaxBlock    \* bound: words of a block

ASSUME CardsAssumption == Cards \in Nat \ {0}
ASSUME MaxBlockAssumption == MaxBlock \in Nat

VARIABLES
    synchWordControl,   \* whether spacers carry status bits (STATUSTRIGTIMEINSYNCHWORD)
    block,              \* the block in memory
    channel,            \* the count of words since the last spacer
    given               \* given[i]: the place DataAssembling took word i of the block for

vars == <<synchWordControl, block, channel, given>>

Cycle == Cards + 1
Places == 0 .. Cards

\* A word: its true place, and how it looks: "spacer" is SWORDHEADER itself, "status" a
\* word with its upper bits only, "data" anything else.
Looks == {"spacer", "status", "data"}
Words == [place : Places, looks : Looks]

\* How a word of place p looks when it leaves the CSM.
Intended(p) ==
    IF p # 0 THEN {"data"} ELSE IF synchWordControl THEN {"spacer", "status"} ELSE {"spacer"}

TypeOK ==
    /\ synchWordControl \in BOOLEAN
    /\ block \in Seq(Words)
    /\ channel \in 0 .. Cards + MaxBlock
    /\ given \in Seq(Places) /\ Len(given) <= Len(block)

\* The collector of a run is new: channel starts at MAXNUMBERMEZZANINE.
Init ==
    /\ synchWordControl \in BOOLEAN
    /\ block = <<>>
    /\ channel = Cards
    /\ given = <<>>

--------------------------------------------------------------------------------
(* The blocks. *)

\* n words from place p on, with skip words missing after the first cut, and spacers
\* that look like s.
Stream(p, n, cut, skip, s) ==
    [i \in 1..n |->
       LET place == (p + i - 1 + IF i > cut THEN skip ELSE 0) % Cycle
       IN  [place |-> place, looks |-> IF place = 0 THEN s ELSE "data"]]

\* Block b with word i damaged so that it looks like d.
Damaged(b, i, d) == [b EXCEPT ![i].looks = d]

\* Blocks of n words from any place on: the blocks before it may have been lost.  In the
\* block a word may be damaged, and words be missing.
Blocks(n) ==
    {Damaged(Stream(p, n, cut, skip, s), i, d) :
       p \in Places, cut \in 1..n, skip \in Places, s \in Intended(0), i \in 1..n, d \in Looks}

--------------------------------------------------------------------------------
(* DataAssembling. *)

\* (variant: the count of a cycle without a spacer is kept)
CountAsIs(c) == c

\* A count that ran past the end of the cycle.
CountInCycle(c) == IF c > Cards THEN c % Cards ELSE c

\* The words of b, and of what an earlier block left behind it in the buffer, that look
\* like spacers.  The code looks at Cards + 1 words, however long the block is.
SpacersSeen(b, stale) == {i \in 1..Len(b) : b[i].looks # "data"} \cup stale

\* (variant: the search as DataAssembling_triggerless still has it, which reads the same
\* word again and again, and finds nothing)
NoSearch(seen) == {}

\* The spacers the search finds: among the Cards words after the first.
Searched(seen) == seen \cap 2..Cycle

\* The count for the first word of a block: kept if a spacer stands where the count
\* puts it or the search finds none, and taken from the first spacer found otherwise.
FirstChannel(seen) ==
    LET c == CountInCycle(channel)
        found == Searched(seen)
    IN  \/ /\ Cycle - c \in seen \/ found = {}
           /\ channel' = c
        \/ /\ Cycle - c \notin seen
           /\ \E i \in found : (\A j \in found : i <= j) /\ channel' = Cycle - i

\* The next block has been transferred; its first words are looked at.
Arrive ==
    /\ block = <<>>
    /\ \E n \in 1..MaxBlock : \E b \in Blocks(n), stale \in SUBSET (n + 1 .. Cycle) :
         /\ block' = b
         /\ FirstChannel(SpacersSeen(b, stale))
    /\ UNCHANGED <<synchWordControl, given>>

\* (variant: a spacer that is not expected is ignored)
ExpectedSpacer(w) == w.looks # "data" /\ channel >= Cards

\* A word that is taken for a spacer.  Unless spacers carry status bits, only
\* SWORDHEADER itself is, while the search looks at the upper bits in any case.
SynchWord(w) == w.looks = "spacer" \/ (synchWordControl /\ w.looks = "status")

\* The next word: a spacer restarts the count, any other is of card channel % Cards.
NextWord ==
    /\ Len(given) < Len(block)
    /\ IF SynchWord(block[Len(given) + 1])
       THEN channel' = 0 /\ given' = Append(given, 0)
       ELSE channel' = channel + 1 /\ given' = Append(given, (channel % Cards) + 1)
    /\ UNCHANGED <<synchWordControl, block>>

\* The block is done with: its buffer is requested again.
Release ==
    /\ block # <<>> /\ Len(given) = Len(block)
    /\ block' = <<>>
    /\ given' = <<>>
    /\ UNCHANGED <<synchWordControl, channel>>

Next == Arrive \/ NextWord \/ Release

Spec == Init /\ [][Next]_vars

--------------------------------------------------------------------------------
(* Properties. *)

\* Word i is as the CSM sent it.
Intact(i) == block[i].looks \in Intended(block[i].place)

\* Words a to b are as they were sent, and none between them (or whole cycles) missing.
Undamaged(a, b) ==
    \A i \in a..b :
      /\ Intact(i)
      /\ block[i].place = (block[a].place + i - a) % Cycle

\* The block has a whole cycle at its head.
WholeCycle == Len(block) >= Cycle /\ Undamaged(1, Cycle)

\* Whatever went wrong before, the words from an intact spacer to the next damage are
\* taken for words of the right cards, whichever words are missing later.
RightAfterSpacer ==
    \A i, j \in 1..Len(given) :
      i <= j /\ block[i].place = 0 /\ Undamaged(i, j) => given[j] = block[j].place

\* Whatever was lost before a block, of which the collector is not told, a block
\* that starts with a whole cycle is taken right from its first word on, up to its
\* first damage: the search finds the place before the first spacer has come.
RightFromFirstWord ==
    \A j \in 1..Len(given) :
      WholeCycle /\ Undamaged(1, j) => given[j] = block[j].place
================================================================================
