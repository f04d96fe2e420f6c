------------------------------ MODULE PacketWriter ------------------------------
(***************************************************************************)
(* The output side of the event builder: how DataAssembling packs emitted  *)
(* events into dataBuf, and when dataBuf is written to the data file and   *)
(* sent to the online display (filar_side/class_CSM.cpp, twice the same    *)
(* code: for forced events and for ready ones).                            *)
(*                                                                         *)
(* dataBuf is an array of MAXEVTRECORD words: a header of 11 words, then   *)
(* the events, each a word with EVID and word count followed by its nwords *)
(* words.  Here an event in dataBuf is its number and the word count that  *)
(* was packed; the header is the fields a reader of the file relies on.    *)
(***************************************************************************)
EXTENDS Integers, Sequences, Totals

CONSTANTS
    MAXEVTRECORD,   \* 4096: words of dataBuf
    Sizes,          \* the word counts events may have
    FileLimit,      \* 2000000000 bytes, here in words
    MaxEvents       \* bound: events of a run

ASSUME RecordAssumption == MAXEVTRECORD \in Nat /\ MAXEVTRECORD > 12
ASSUME SizesAssumption == Sizes \subseteq Nat
ASSUME PacketBoundAssumption ==
    FileLimit \in Nat /\ MaxEvents \in Nat

VARIABLES
    collecting,         \* between the constructor and EndOfCollecting
    CSMDataFile,        \* "open", or "NULL": never opened, or closed
    limitReached,       \* history: CSMDataFile was closed at the size limit
    file,               \* the packets in the data file of the run
    dataBuf,            \* the events packed and not yet written
    nDataWords,         \* the words they take
    nPackedEvt,         \* their number
    evtNumber,          \* number of events emitted in the run
    fileSize,           \* words written, and those that would have been
    saveRunCondition    \* which of the run conditions the header carries next

buf == <<dataBuf, nDataWords, nPackedEvt>>
out == <<CSMDataFile, limitReached, file, fileSize, saveRunCondition>>
vars == <<collecting, buf, out, evtNumber>>

HeaderWords == 11

\* An event as it is packed.
EventRecord == [evt : Nat, nwords : Nat]

\* A packet: dataBuf[2], [5], [10] and the condition number in its upper half, and
\* the events that follow the header.
Packet == [evtNumber : Nat, nPackedEvt : Nat, nDataWords : Nat, condition : 0..5,
           events : Seq(EventRecord)]

TypeOK ==
    /\ collecting \in BOOLEAN
    /\ CSMDataFile \in {"open", "NULL"}
    /\ limitReached \in BOOLEAN
    /\ file \in Seq(Packet)
    /\ dataBuf \in Seq(EventRecord)
    /\ nDataWords \in Nat
    /\ nPackedEvt \in Nat
    /\ evtNumber \in Nat
    /\ fileSize \in Nat
    /\ saveRunCondition \in Nat

Init ==
    /\ collecting = FALSE
    /\ CSMDataFile = "NULL"
    /\ limitReached = FALSE
    /\ file = <<>>
    /\ dataBuf = <<>>
    /\ nDataWords = 0
    /\ nPackedEvt = 0
    /\ evtNumber = 0
    /\ fileSize = 0
    /\ saveRunCondition = 0

\* The constructor.  Opening the data file may fail; the run then goes on without.
Start ==
    /\ ~collecting
    /\ collecting' = TRUE
    /\ CSMDataFile' \in {"open", "NULL"}
    /\ limitReached' = FALSE
    /\ file' = <<>>
    /\ dataBuf' = <<>>
    /\ nDataWords' = 0
    /\ nPackedEvt' = 0
    /\ evtNumber' = 0
    /\ fileSize' = 0
    /\ saveRunCondition' = 0

\* A huge event is dropped: only its first word, flagged, is packed.
Kept(nwords) == IF 12 + nwords > MAXEVTRECORD THEN 0 ELSE nwords

\* (variant: one set of conditions too many)
ConditionTooLong(n) == IF n <= 6 THEN n ELSE 0

\* The condition number a header gets: 1 to 5 once each, then none.
Condition(n) == IF n <= 5 THEN n ELSE 0

\* (variants: evtNumber, or nPackedEvt, already counts the event that did not fit)
PacketOfNext ==
    [evtNumber |-> evtNumber + 1, nPackedEvt |-> nPackedEvt, nDataWords |-> nDataWords,
     condition |-> Condition(saveRunCondition + 1), events |-> dataBuf]
PacketCountsNext ==
    [evtNumber |-> evtNumber, nPackedEvt |-> nPackedEvt + 1, nDataWords |-> nDataWords,
     condition |-> Condition(saveRunCondition + 1), events |-> dataBuf]

ThePacket ==
    [evtNumber |-> evtNumber, nPackedEvt |-> nPackedEvt, nDataWords |-> nDataWords,
     condition |-> Condition(saveRunCondition + 1), events |-> dataBuf]

\* dataBuf is written out, or the file is closed if that would take it to the limit.
\* The packet also goes to the socket of the online display, which returns nothing.
Flush ==
    /\ saveRunCondition' = saveRunCondition + 1
    /\ fileSize' = fileSize + nDataWords + HeaderWords
    /\ IF fileSize' >= FileLimit
       THEN /\ CSMDataFile' = "NULL" /\ limitReached' = TRUE
            /\ UNCHANGED file
       ELSE /\ file' = Append(file, ThePacket)
            /\ UNCHANGED <<CSMDataFile, limitReached>>

\* (variant: the word with EVID and word count is forgotten)
FullWithoutCount(nwords) == nDataWords + 11 + nwords > MAXEVTRECORD

\* dataBuf has no room for one more event of nwords words.
Full(nwords) == nDataWords + 12 + nwords > MAXEVTRECORD

\* The builder emits an event of n words: huge events are dropped, a full dataBuf is
\* written first, and the event is packed.  Without a file nothing is packed.
EmitEvent(n) ==
    LET nwords == Kept(n)
        event == [evt |-> evtNumber, nwords |-> nwords]
    IN  /\ collecting
        /\ evtNumber < MaxEvents
        /\ evtNumber' = evtNumber + 1
        /\ \/ /\ CSMDataFile = "NULL"
              /\ UNCHANGED <<buf, out>>
           \/ /\ CSMDataFile = "open" /\ ~Full(nwords)
              /\ dataBuf' = Append(dataBuf, event)
              /\ nPackedEvt' = nPackedEvt + 1
              /\ nDataWords' = nDataWords + nwords + 1
              /\ UNCHANGED out
           \/ /\ CSMDataFile = "open" /\ Full(nwords)
              /\ Flush
              /\ dataBuf' = <<event>>
              /\ nPackedEvt' = 1
              /\ nDataWords' = nwords + 1
        /\ UNCHANGED collecting

\* EndOfCollecting closes the file.  What is still in dataBuf stays there.
EndOfCollecting ==
    /\ collecting
    /\ collecting' = FALSE
    /\ CSMDataFile' = "NULL"
    /\ UNCHANGED <<buf, limitReached, file, fileSize, saveRunCondition, evtNumber>>

Next == Start \/ EndOfCollecting \/ \E n \in Sizes : EmitEvent(n)

Spec == Init /\ [][Next]_vars

--------------------------------------------------------------------------------
(* Properties. *)

\* The packed events never run over the end of dataBuf, although dataBuf is tested
\* for room only when the next event comes and huge events are cut after the word
\* count of the event was written.
PacketFits == HeaderWords + nDataWords <= MAXEVTRECORD

\* The events of a packet or of dataBuf are consecutive from first on.
Consecutive(events, first) == \A k \in 1..Len(events) : events[k].evt = first + k - 1

\* The number of the first event that is in none of the first i packets of the file.
NextEvent(i) == IF i = 0 THEN 0 ELSE file[i].evtNumber

\* While the file is open, file and dataBuf together hold every event of the run, once
\* and in order.  Once it is closed the file still holds a beginning of the run: an
\* event is never lost between two that are kept, nor is one kept twice.
FileInOrder ==
    /\ \A i \in 1..Len(file) :
         /\ Consecutive(file[i].events, NextEvent(i - 1))
         /\ NextEvent(i) = NextEvent(i - 1) + Len(file[i].events)
    /\ CSMDataFile = "open" =>
         /\ Consecutive(dataBuf, NextEvent(Len(file)))
         /\ evtNumber = NextEvent(Len(file)) + Len(dataBuf)

\* The words that events take.
WordsOf(events) == Total([k \in 1..Len(events) |-> events[k].nwords + 1])

\* What the header of a packet says agrees with what follows it and with its place in the
\* file: a reader finds the next packet by the word count, numbers the events backwards
\* from evtNumber, and finds the five sets of run conditions in the first five packets.
HeaderAgrees ==
    \A i \in 1..Len(file) :
      /\ file[i].nDataWords = WordsOf(file[i].events)
      /\ file[i].nPackedEvt = Len(file[i].events)
      /\ file[i].condition = IF i <= 5 THEN i ELSE 0

\* "write down the events to file1 when the recorded words in the ring buffer exceeds
\* a size limit or this block of data comes to an end" (CSMMiniDAQ_note.txt:42): when
\* a run has ended, which is after its last block, its events are in the file.
RunIsRecorded ==
    (~collecting /\ ~limitReached /\ (file # <<>> \/ dataBuf # <<>>)) =>
      NextEvent(Len(file)) = evtNumber
================================================================================
