------------------------------ MODULE OfflineMerge ------------------------------
(***************************************************************************)
(* From the event builders to one file: the data file of a CSM is written  *)
(* (PacketWriter), cleaned (DeleteMeta), and merged with the cleaned file  *)
(* of the other CSM by OfflineMerge (offline_merge/OfflineMerge.cpp), which*)
(* joins the events of equal EVID.                                         *)
(*                                                                         *)
(* The file of the other CSM is any clean file of events that start at 0,  *)
(* shorter or longer than the first.  Neither has headers or trailers of   *)
(* the cards, which DeleteMeta takes for errors.                           *)
(***************************************************************************)
EXTENDS DeleteMeta, SequencesExt

CONSTANTS
    Sizes,          \* the word counts of events
    MaxEvents,      \* bound: events of a run
    RunNumbers,     \* of a run number only what it reads like as a word of an event
    OtherFiles      \* the word counts of the events of the other CSM, from event 0 on

\* Events are short enough for DeleteMeta: every packet is then longer than HighCount.
ASSUME SizesFit ==
    /\ \A n \in Sizes : n \in Nat /\ n < CountLimit
    /\ CountMod - CountLimit > HighCount /\ HighCount >= CountLimit

ASSUME FieldsAssumption ==
    /\ EvidMod \in Nat /\ EvidMod > 1 /\ CountMod \in Nat /\ CountMod > 12
    /\ CountLimit \in Nat /\ HighCount \in Nat /\ MaxEvents \in Nat

ASSUME OtherFilesAssumption == OtherFiles \subseteq Seq(Nat)

VARIABLES
    collecting, CSMDataFile, limitReached, file, dataBuf, nDataWords, nPackedEvt,
    evtNumber, fileSize, saveRunCondition,  \* of PacketWriter
    runNumber,
    errorWord,      \* the event with an error word and its place, or none
    gap,            \* the first event after a missed trigger, or none
    otherSizes,     \* the word counts in the file of the other CSM
    other,          \* the words left in it
    rest,           \* the words left in clean
    merged,         \* the words written to merged.dat
    merging         \* "off", "on", "finished", or "stopped" by a mismatch

Writer == INSTANCE PacketWriter WITH MAXEVTRECORD <- CountMod, FileLimit <- 1000

writerVars == <<collecting, CSMDataFile, limitReached, file, dataBuf, nDataWords,
                nPackedEvt, evtNumber, fileSize, saveRunCondition>>
inputVars == <<runNumber, errorWord, gap>>
mergeVars == <<otherSizes, other, rest, merged, merging>>
vars == <<writerVars, cleanVars, inputVars, mergeVars>>

None == [event |-> -1, place |-> 0]
Meta == [kind |-> "meta"]

Init ==
    /\ Writer!Init
    /\ CleanInit
    /\ runNumber = Meta
    /\ errorWord = None /\ gap = -1
    /\ otherSizes = <<>> /\ other = <<>> /\ rest = <<>> /\ merged = <<>> /\ merging = "off"

--------------------------------------------------------------------------------
(* The words of an event and of a file. *)

\* The EVID of an event: after a missed trigger it is one higher.
Evid(e) == (IF gap # -1 /\ e >= gap THEN e + 1 ELSE e) % EvidMod

Edge(csm, e, i) == [kind |-> "edge", csm |-> csm, event |-> e, place |-> i]

\* The words of event e with n words, the error word in its place.
EventWords(e, n) ==
    <<Header(Evid(e), n)>> \o
    [i \in 1..n |-> IF errorWord = [event |-> e, place |-> i] THEN [kind |-> "error"]
                    ELSE Edge(1, e, i)]

\* A packet as dataBuf has it.
PacketWords(p) ==
    <<HeaderOf(p.nDataWords + metadataSize), runNumber>> \o [i \in 1..9 |-> Meta] \o
    FlattenSeq([k \in 1..Len(p.events) |-> EventWords(p.events[k].evt, p.events[k].nwords)])

FileWords == FlattenSeq([i \in 1..Len(file) |-> PacketWords(file[i])])

\* The events in the file, and the words of theirs.
Written == FlattenSeq([i \in 1..Len(file) |-> file[i].events])
WordsWritten ==
    UNION {{[event |-> e, place |-> i] : i \in 1 .. Written[e + 1].nwords} :
           e \in 0 .. Len(Written) - 1}

--------------------------------------------------------------------------------
(* The programs, one after the other. *)

\* One run is recorded.
Record ==
    /\ cleaning = "off"
    /\ \/ Writer!Start /\ evtNumber = 0
       \/ \E n \in Sizes : Writer!EmitEvent(n)
       \/ Writer!EndOfCollecting
    /\ UNCHANGED <<cleanVars, inputVars, mergeVars>>

\* The data file is cleaned.  A word in it is an error word, or a trigger was missed in
\* the run, or neither.
StartCleaning ==
    /\ ~collecting /\ file # <<>>
    /\ UNCHANGED writerVars
    /\ runNumber' \in RunNumbers
    /\ errorWord' \in {None} \cup WordsWritten
    /\ gap' \in {-1} \cup 1 .. Len(Written) - 1
    /\ errorWord' = None \/ gap' = -1
    /\ OpenFile(FileWords')
    /\ UNCHANGED mergeVars

Clean ==
    /\ CleanNext
    /\ UNCHANGED <<writerVars, inputVars, mergeVars>>

\* The file of the other CSM.
OtherEvent(e, n) == <<Header(e % EvidMod, n)>> \o [i \in 1..n |-> Edge(2, e, i)]
OtherWords(sizes) == FlattenSeq([k \in 1..Len(sizes) |-> OtherEvent(k - 1, sizes[k])])

\* The file is merged, also when the cleaning stopped with an error.
StartMerge ==
    /\ cleaning \in {"finished", "stopped"} /\ merging = "off"
    /\ otherSizes' \in OtherFiles
    /\ other' = OtherWords(otherSizes')
    /\ rest' = clean
    /\ merging' = "on"
    /\ UNCHANGED <<writerVars, cleanVars, inputVars, merged>>

SameEvent(w, v) == IsHeader(w) /\ IsHeader(v) /\ w.evid = v.evid

\* (variant: the count of the first file is kept)
FirstHeader(w, v) ==
    /\ SameEvent(w, v)
    /\ merged' = Append(merged, w)
    /\ rest' = Tail(rest) /\ other' = Tail(other)

\* Two headers become one, with the sum of the counts.
MergeHeaders(w, v) ==
    /\ SameEvent(w, v)
    /\ merged' = Append(merged, Header(w.evid, w.count + v.count))
    /\ rest' = Tail(rest) /\ other' = Tail(other)

\* The edges of the first file come first.
CopyFirst(w, v) ==
    /\ IsEdge(w)
    /\ merged' = Append(merged, w)
    /\ rest' = Tail(rest) /\ UNCHANGED other

CopySecond(w, v) ==
    /\ ~IsEdge(w) /\ IsEdge(v)
    /\ merged' = Append(merged, v)
    /\ other' = Tail(other) /\ UNCHANGED rest

\* Both files have words left.
MergeWords ==
    /\ merging = "on" /\ rest # <<>> /\ other # <<>>
    /\ LET w == Head(rest)
           v == Head(other)
       IN  MergeHeaders(w, v) \/ CopyFirst(w, v) \/ CopySecond(w, v)
    /\ UNCHANGED <<writerVars, cleanVars, inputVars, otherSizes, merging>>

\* Headers of different events end the program, and with it merged.dat.
Mismatch ==
    /\ merging = "on" /\ rest # <<>> /\ other # <<>>
    /\ ~SameEvent(Head(rest), Head(other))
    /\ ~IsEdge(Head(rest)) /\ ~IsEdge(Head(other))
    /\ merging' = "stopped"
    /\ UNCHANGED <<writerVars, cleanVars, inputVars, otherSizes, other, rest, merged>>

\* One file has come to its end: the rest of the other one follows.
CopyTail ==
    /\ merging = "on" /\ (rest = <<>> \/ other = <<>>)
    /\ merged' = merged \o rest \o other
    /\ merging' = "finished"
    /\ UNCHANGED <<writerVars, cleanVars, inputVars, otherSizes, other, rest>>

Next ==
    \/ Record \/ StartCleaning \/ Clean
    \/ StartMerge \/ MergeWords \/ Mismatch \/ CopyTail

Spec == Init /\ [][Next]_vars

--------------------------------------------------------------------------------
(* Properties. *)

\* What is left of event e: the words in front of the error word.
WordsLeft(e, n) == IF errorWord.event = e THEN errorWord.place - 1 ELSE n
EdgesLeft(e) == [i \in 1 .. WordsLeft(e, Written[e + 1].nwords) |-> Edge(1, e, i)]

\* The events in the file up to a missed trigger, and their words.
EventsToClean == IF gap = -1 THEN Len(Written) ELSE gap
WordsToClean ==
    FlattenSeq([k \in 1..EventsToClean |->
                  <<Header((k - 1) % EvidMod, Written[k].nwords)>> \o EdgesLeft(k - 1)])

\* The last event in the first i packets.
LastOf(i) == file[i].evtNumber - 1

\* The length of a packet is the word 0x1000 where event 1 is due, and the run number
\* fits behind an event 1.
PacketLikeEvent ==
    \E i \in 2..Len(file) :
      /\ file[i].nDataWords + metadataSize = CountMod
      /\ Evid(LastOf(i - 1)) = 0 /\ FollowsEmptyOne(runNumber)

\* An event 1 without words, with something behind it that does not fit there: again
\* the length of a full packet, or the event after a missed trigger.
EventLikePacket ==
    \E k \in 1..Len(Written) :
      /\ Evid(k - 1) = 1 /\ Written[k].nwords = 0
      /\ \/ gap = k
         \/ \E i \in 2..Len(file) :
              LastOf(i - 1) = k - 1 /\ file[i].nDataWords + metadataSize = CountMod

Ambiguous == cleaning # "off" /\ (PacketLikeEvent \/ EventLikePacket)

\* The cleaned file has the events of the data file and nothing else: every word up to
\* an error word of the event, up to a missed trigger, and no word of the metadata.
\* The exceptions are the two in which 0x1000 stands for the wrong thing.
CleanExact ==
    ~Ambiguous =>
      /\ IsPrefix(clean, WordsToClean) \/ IsPrefix(WordsToClean, clean)
      /\ cleaning = "finished" /\ gap = -1 => clean = WordsToClean
      /\ cleaning \in {"stopped", "lost"} => IsPrefix(WordsToClean, clean)

\* DeleteMeta comes to its end ("File clean finished.") unless a trigger was missed or
\* 0x1000 stands for the wrong thing; and if the error word is in the last event of the
\* file it never ends.
FinishesUnlessDamaged ==
    /\ cleaning \in {"stopped", "lost"} => gap # -1 \/ Ambiguous
    /\ cleaning = "hanging" => errorWord.event = Len(Written) - 1 \/ Ambiguous

\* What OfflineMerge should make of a cleaned file of which clean has the first n events.
UnionOfEvents(n) ==
    LET Mine(k) == k <= n
        Theirs(k) == k <= Len(otherSizes)
        Count(k) == (IF Mine(k) THEN Written[k].nwords ELSE 0) +
                    (IF Theirs(k) THEN otherSizes[k] ELSE 0)
        Edges(k) == (IF Mine(k) THEN EdgesLeft(k - 1) ELSE <<>>) \o
                    (IF Theirs(k) THEN Tail(OtherEvent(k - 1, otherSizes[k])) ELSE <<>>)
    IN  FlattenSeq([k \in 1..Max({n, Len(otherSizes)}) |->
                      <<Header((k - 1) % EvidMod, Count(k))>> \o Edges(k)])

\* Two cleaned files become the union of their events: each event is there once, with
\* the words of both, those of the first file in front, and a header that counts them,
\* up to the end of the longer file.  A mismatch is only found if a file is not clean.
MergeExact ==
    clean = WordsToClean =>
      /\ merging # "stopped"
      /\ merging = "finished" => merged = UnionOfEvents(EventsToClean)
================================================================================
