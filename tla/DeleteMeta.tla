------------------------------- MODULE DeleteMeta -------------------------------
(***************************************************************************)
(* The cleaning of a data file before it is merged offline: DeleteMeta     *)
(* (offline_merge/DeleteMeta.cpp) copies the events of a file and leaves   *)
(* out the 11 words of metadata in front of every packet, and what follows *)
(* an error word.                                                          *)
(*                                                                         *)
(* The program does not count words.  It expects the header of the next    *)
(* event, by its EVID, and takes a word that is not what it expects for the*)
(* first one of the metadata, after which the event must come.  That word  *)
(* is the length of the packet, and itself looks like an event header: one *)
(* of EVID 0, or for a packet that fills dataBuf to the last word, of EVID *)
(* 1 without words, which the program tries to tell from a real one.       *)
(*                                                                         *)
(* One action is one turn of the main loop.                                *)
(***************************************************************************)
EXTENDS Integers, Sequences

CONSTANTS
    EvidMod,        \* 4096: EVIDs of the header
    CountMod,       \* 4096: word counts of the header, and the words of dataBuf
    CountLimit,     \* 0x0F0: events from this size on are not expected
    HighCount       \* 0xF00: packets are expected to be longer than that

VARIABLES
    data,           \* the words of the file
    pos,            \* the word in hand is data[pos]; there is none at the end
    previous_EVID,
    clean,          \* the words written
    cleaning        \* "off", "on", "finished", "stopped" by an error, "hanging" or "lost"

cleanVars == <<data, pos, previous_EVID, clean, cleaning>>

\* Words: headers, edges and errors, and the metadata other than the length and the run
\* number, which may look like anything.
Header(evid, count) == [kind |-> "header", evid |-> evid, count |-> count]
HeaderOf(n) == Header((n \div CountMod) % EvidMod, n % CountMod)
IsHeader(w) == w.kind = "header"
IsEdge(w) == w.kind = "edge"

metadataSize == 11

CleanInit ==
    /\ data = <<>> /\ pos = 1 /\ previous_EVID = -1
    /\ clean = <<>> /\ cleaning = "off"

\* The program is started on a file.
OpenFile(words) ==
    /\ cleaning = "off"
    /\ cleaning' = "on"
    /\ data' = words
    /\ pos' = metadataSize + 1
    /\ UNCHANGED <<previous_EVID, clean>>

NextEVID == (previous_EVID + 1) % EvidMod

\* Event 1 without words, or the length of a full packet.
EmptyOne == Header(1, 0)

\* w is written and the next word is data[p].
Write(w, p) ==
    /\ clean' = Append(clean, w)
    /\ pos' = p
    /\ previous_EVID' = IF IsEdge(w) THEN previous_EVID ELSE NextEVID

\* The word in hand, if there is one.
InHand == IF cleaning = "on" /\ pos <= Len(data) THEN {data[pos]} ELSE {}

\* (variant: only the EVID is looked at)
ExpectedByEVID(w) == IsHeader(w) /\ w.evid = NextEVID

Expected(w) ==
    IsHeader(w) /\ w.evid = NextEVID /\ w.count < CountLimit /\ w # EmptyOne

CopyWord ==
    \E w \in InHand :
      /\ Expected(w) \/ IsEdge(w)
      /\ Write(w, pos + 1)
      /\ UNCHANGED <<data, cleaning>>

HeadersAfter(p) == {j \in p + 1 .. Len(data) : IsHeader(data[j])}

\* What follows an error word is left out up to the next header.  If there is none the
\* program reads on at the end of the file for ever.
SkipError ==
    /\ \E w \in InHand : w.kind = "error"
    /\ \/ \E j \in HeadersAfter(pos) :
            /\ \A i \in HeadersAfter(pos) : j <= i
            /\ pos' = j
            /\ UNCHANGED cleaning
       \/ /\ HeadersAfter(pos) = {}
          /\ cleaning' = "hanging"
          /\ UNCHANGED pos
    /\ UNCHANGED <<data, previous_EVID, clean>>

\* (variant: an event 1 without words is told by the event after it only)
FollowsEvent(w) == IsHeader(w) /\ w.evid = 2 % EvidMod

\* The word after an event 1 without words: event 2, or the length of a packet.
FollowsEmptyOne(w) == IsHeader(w) /\ (w.evid = 2 % EvidMod \/ w.count > HighCount)

\* After event 0, a word that could be event 1 is one if the next word is fit to follow.
IsEmptyOne ==
    /\ previous_EVID = 0 /\ data[pos] = EmptyOne
    /\ pos < Len(data) /\ FollowsEmptyOne(data[pos + 1])

CopyEmptyOne ==
    /\ EmptyOne \in InHand /\ IsEmptyOne
    /\ Write(EmptyOne, pos + 1)
    /\ UNCHANGED <<data, cleaning>>

Unexpected(w) == IsHeader(w) /\ ~Expected(w) /\ ~IsEmptyOne

\* (variant: one word too many is taken for metadata)
MetadataAndCount == metadataSize + 1

\* How far the event is from the first word of the metadata.
Distance == metadataSize

IsNext(e) == IsHeader(e) /\ e.evid = NextEVID

\* An unexpected word is the first of the metadata if the event expected comes 11 words
\* later.
SkipMetadata ==
    \E w \in InHand :
      /\ Unexpected(w)
      /\ pos + Distance <= Len(data)
      /\ LET e == data[pos + Distance]
         IN  IsNext(e) /\ Write(e, pos + Distance + 1)
      /\ UNCHANGED <<data, cleaning>>

\* Otherwise the program gives up: events are missing, or it is lost.  In the first case
\* it writes the word 11 words on, whatever it is.
StopCleaning ==
    \E w \in InHand :
      /\ Unexpected(w)
      /\ pos + Distance <= Len(data)
      /\ LET e == data[pos + Distance]
         IN  /\ ~IsNext(e) /\ e.kind # "meta"
             /\ clean' = IF IsEdge(data[pos + 1]) THEN Append(clean, e) ELSE clean
      /\ cleaning' = "stopped"
      /\ UNCHANGED <<data, pos, previous_EVID>>

\* The file ends before: the word in hand is the last one of the file, and the word that
\* tells missing events from other errors is never read.
StopAtEnd ==
    \E w \in InHand :
      /\ Unexpected(w)
      /\ pos + Distance > Len(data)
      /\ LET e == data[Len(data)]
         IN  IF IsNext(e)
             THEN clean' = Append(clean, e) /\ cleaning' = "finished"
             ELSE clean' \in {clean, Append(clean, e)} /\ cleaning' = "stopped"
      /\ UNCHANGED <<data, pos, previous_EVID>>

\* Other words of the metadata may look like anything, an event or an edge.  Once the
\* program takes one for the next word the model follows it no further: more words may
\* be written after this.
LoseTheWay ==
    /\ \E w \in InHand :
         \/ w.kind = "meta"
         \/ Unexpected(w) /\ pos + Distance <= Len(data) /\ data[pos + Distance].kind = "meta"
    /\ cleaning' = "lost"
    /\ UNCHANGED <<data, pos, previous_EVID, clean>>

FinishCleaning ==
    /\ cleaning = "on" /\ pos > Len(data)
    /\ cleaning' = "finished"
    /\ UNCHANGED <<data, pos, previous_EVID, clean>>

CleanNext ==
    \/ CopyWord \/ SkipError \/ CopyEmptyOne \/ SkipMetadata
    \/ StopCleaning \/ StopAtEnd \/ LoseTheWay \/ FinishCleaning
================================================================================
