------------------------------ MODULE EventBuilder ------------------------------
(***************************************************************************)
(* The event builder of one CSM: the trigger-mode CollectCSMData::         *)
(* DataAssembling (filar_side/class_CSM.cpp), word by word.                *)
(*                                                                         *)
(* Every enabled mezzanine card sends, for every trigger, a fragment: a    *)
(* TDC header with the event number EVID, its hits, and a TDC trailer.     *)
(* The words of the cards are interleaved.  The builder collects them in a *)
(* ring of NSlots event buffers: card m writes into slot evtWRBuf[m], which*)
(* its trailer advances, and slots are emitted from evtRDBuf on.  A slot is*)
(* emitted when it has seen a trailer of every enabled card; older slots   *)
(* that are still incomplete are then forced out before it.                *)
(*                                                                         *)
(* Time spectra, error counters and word counts are left out, one hit      *)
(* stands for the hits of a fragment, and an event buffer keeps the words  *)
(* of each card apart: how they interleave is not told.  The links may     *)
(* damage the stream: Faults names how, {} being the healthy detector.     *)
(***************************************************************************)
EXTENDS Integers, Sequences, SequencesExt

CONSTANTS
    Mezz,       \* the enabled mezzanine cards (mezzEnables)
    NSlots,     \* 64: event buffers in the ring
    EvidMod,    \* 4096: the EVID of a trigger is its number modulo EvidMod
    NEvents,    \* bound: triggers of the run
    Faults,     \* subset of {"header", "hit", "trailer", "fragment", "repeat"}
    MaxFaults   \* bound: damaged places of the run

ASSUME RingAssumption == NSlots \in Nat \ {0} /\ EvidMod \in Nat /\ NSlots < EvidMod
ASSUME BoundAssumption == NEvents \in Nat /\ MaxFaults \in Nat
ASSUME FaultAssumption == Faults \subseteq {"header", "hit", "trailer", "fragment", "repeat"}

VARIABLES
    sent,           \* sent[m]: words of m that left the card, 3 per trigger
    previousData,   \* previousData[m]: the last word seen from m
    slots,          \* the ring: bufEmpty, bufEVID, gotHeader, gotTrailer, eventBuf
    evtWRBuf,       \* evtWRBuf[m]: the slot card m writes
    evtRDBuf,       \* the next slot to emit
    built,          \* the events emitted, in order; evtNumber is its length
    DAQState,       \* "Running", or "Idle" once the builder has given up
    lost,           \* history: the words that were lost
    repeated,       \* history: the trailers that arrived more than once
    faults          \* number of damaged places so far

vars == <<sent, previousData, slots, evtWRBuf, evtRDBuf, built, DAQState, lost, repeated, faults>>

Slots == 0 .. NSlots - 1
Events == 0 .. NEvents - 1
Evid(e) == e % EvidMod

\* A word: the card, what it is, and the trigger it was taken for.  On the wire a
\* header or a trailer carries the EVID of the trigger, a hit nothing of it.
Kinds == {"header", "hit", "trailer"}
Word(m, k, e) == [mezz |-> m, kind |-> k, event |-> e]
Words == [mezz : Mezz, kind : Kinds, event : Events]
NoWord == [mezz |-> "none", kind |-> "none", event |-> 0]

\* The words of one trigger from card m, and the i-th word m sends (i from 0).
Fragment(m, e) == <<Word(m, "header", e), Word(m, "hit", e), Word(m, "trailer", e)>>
NthWord(m, i) == Fragment(m, i \div 3)[(i % 3) + 1]

NoWords == [m \in Mezz |-> <<>>]
EmptySlot == [bufEmpty |-> TRUE, bufEVID |-> 0, gotHeader |-> {}, gotTrailer |-> {},
              eventBuf |-> NoWords]

TypeOK ==
    /\ sent \in [Mezz -> 0 .. 3 * NEvents]
    /\ previousData \in [Mezz -> Words \cup {NoWord}]
    /\ \A s \in Slots :
         /\ slots[s].bufEmpty \in BOOLEAN /\ slots[s].bufEVID \in 0 .. EvidMod - 1
         /\ slots[s].gotHeader \subseteq Mezz /\ slots[s].gotTrailer \subseteq Mezz
         /\ slots[s].eventBuf \in [Mezz -> Seq(Words)]
    /\ evtWRBuf \in [Mezz -> Slots]
    /\ evtRDBuf \in Slots
    /\ built \in Seq([evid : 0 .. EvidMod - 1, words : [Mezz -> Seq(Words)], forced : BOOLEAN])
    /\ DAQState \in {"Running", "Idle"}
    /\ lost \subseteq Words /\ repeated \subseteq Words
    /\ faults \in 0 .. MaxFaults

Init ==
    /\ sent = [m \in Mezz |-> 0]
    /\ previousData = [m \in Mezz |-> NoWord]
    /\ slots = [s \in Slots |-> EmptySlot]
    /\ evtWRBuf = [m \in Mezz |-> 0]
    /\ evtRDBuf = 0
    /\ built = <<>>
    /\ DAQState = "Running"
    /\ lost = {} /\ repeated = {}
    /\ faults = 0

--------------------------------------------------------------------------------
(* What DataAssembling does with one word of an enabled card. *)

\* (variant: the write index runs past the end of the ring)
NextIndex(s) == s + 1

NextSlot(s) == (s + 1) % NSlots

\* A slot is opened for an event: bufEVID is set, gotHeader and gotTrailer are not.
Opened(slot, evid) == [slot EXCEPT !.bufEmpty = FALSE, !.bufEVID = evid]

\* The word is copied into the slot and becomes the last word seen from its card.
Stored(slot, w) == [slot EXCEPT !.eventBuf[w.mezz] = Append(@, w)]

\* (variants: the search does not stop at a slot in use, or does not look for the slot
\* of the same event)
AnyPlaces(m, evid) == Slots
EmptyPlaces(m, evid) == {k \in Slots : slots[(evtWRBuf[m] + k) % NSlots].bufEmpty}

\* The slots, k places after evtWRBuf[m], where a header of evid may go: the slot
\* of the same event, or an empty one.
Places(m, evid) ==
    {k \in Slots : LET slot == slots[(evtWRBuf[m] + k) % NSlots]
                   IN  slot.bufEmpty \/ slot.bufEVID = evid}

\* A header moves its card forward to the first such slot, and opens it if empty.
PlaceHeader(w) ==
    LET evid == Evid(w.event)
        k == CHOOSE p \in Places(w.mezz, evid) : \A q \in Places(w.mezz, evid) : p <= q
        s == (evtWRBuf[w.mezz] + k) % NSlots
        slot == IF slots[s].bufEmpty THEN Opened(slots[s], evid) ELSE slots[s]
    IN  /\ Places(w.mezz, evid) # {}
        /\ evtWRBuf' = [evtWRBuf EXCEPT ![w.mezz] = s]
        /\ slots' = [slots EXCEPT ![s] =
                       Stored([slot EXCEPT !.gotHeader = @ \cup {w.mezz}], w)]
        /\ previousData' = [previousData EXCEPT ![w.mezz] = w]
        /\ UNCHANGED <<evtRDBuf, built, DAQState>>

\* No slot is left for a new event: the builder stops the run (requestForStop).
TooManyEvents(w) ==
    /\ Places(w.mezz, Evid(w.event)) = {}
    /\ evtWRBuf' = [evtWRBuf EXCEPT ![w.mezz] = NextSlot(@)]
    /\ DAQState' = "Idle"
    /\ UNCHANGED <<previousData, slots, evtRDBuf, built>>

\* A hit goes where its card writes.  In an empty slot it is a pointer error, and the
\* slot is opened for the event number expected next, unless it repeats a word.
PlaceHit(w) ==
    LET s == evtWRBuf[w.mezz]
        again == slots[s].bufEmpty /\ previousData[w.mezz] = w
        slot == IF slots[s].bufEmpty THEN Opened(slots[s], Len(built) % EvidMod)
                ELSE slots[s]
    IN  /\ slots' = IF again THEN slots ELSE [slots EXCEPT ![s] = Stored(slot, w)]
        /\ previousData' = [previousData EXCEPT ![w.mezz] = w]
        /\ UNCHANGED <<evtWRBuf, evtRDBuf, built, DAQState>>

\* (variant: a trailer replaces those noted before it)
NotedAlone(slot, m) == [slot EXCEPT !.gotTrailer = {m}]

Noted(slot, m) == [slot EXCEPT !.gotTrailer = @ \cup {m}]

\* The slot of w.mezz once trailer w has been noted in it.  The trailer counts
\* even when the word itself is dropped as a repetition, and whatever its EVID.
TrailerSlot(w) ==
    LET slot == slots[evtWRBuf[w.mezz]]
        noted == Noted(slot, w.mezz)
    IN  IF ~slot.bufEmpty THEN Stored(noted, w)
        ELSE IF previousData[w.mezz] = w THEN noted
        ELSE Stored(Opened(noted, Evid(w.event)), w)

\* (variant: incomplete older slots are skipped)
SkippedOut(older) == <<>>

\* The events forced out of the first older slots, as they are, under the EVID they
\* were opened for.
ForcedOut(older) ==
    [i \in 1..older |->
       LET o == slots[(evtRDBuf + i - 1) % NSlots]
       IN  [evid |-> o.bufEVID, words |-> o.eventBuf, forced |-> TRUE]]

\* Slot s is complete: the slots from evtRDBuf up to s are forced out, then comes s
\* under the EVID of its last trailer.
Emit(s, slot, evid) ==
    LET older == (s - evtRDBuf) % NSlots
        event == [evid |-> evid, words |-> slot.eventBuf, forced |-> FALSE]
    IN  /\ built' = Append(built \o ForcedOut(older), event)
        /\ slots' = [t \in Slots |->
                       IF (t - evtRDBuf) % NSlots <= older
                       THEN [EmptySlot EXCEPT !.bufEVID = slots[t].bufEVID]
                       ELSE slots[t]]
        /\ evtRDBuf' = NextSlot(s)

\* (variant: the first trailer completes an event)
HasTrailer(slot) == slot.gotTrailer # {}

Complete(slot) == slot.gotTrailer = Mezz

PlaceTrailer(w) ==
    LET s == evtWRBuf[w.mezz]
        slot == TrailerSlot(w)
    IN  /\ IF Complete(slot)
           THEN Emit(s, slot, Evid(w.event))
           ELSE slots' = [slots EXCEPT ![s] = slot] /\ UNCHANGED <<evtRDBuf, built>>
        /\ evtWRBuf' = IF previousData[w.mezz] = w THEN evtWRBuf
                       ELSE [evtWRBuf EXCEPT ![w.mezz] = NextSlot(s)]
        /\ previousData' = [previousData EXCEPT ![w.mezz] = w]
        /\ UNCHANGED DAQState

Assemble(w) ==
    CASE w.kind = "header" -> PlaceHeader(w) \/ TooManyEvents(w)
      [] w.kind = "hit" -> PlaceHit(w)
      [] w.kind = "trailer" -> PlaceTrailer(w)

--------------------------------------------------------------------------------
(* The cards and the links. *)

\* The next word of m arrives.
Deliver(m) ==
    /\ DAQState = "Running"
    /\ sent[m] < 3 * NEvents
    /\ Assemble(NthWord(m, sent[m]))
    /\ sent' = [sent EXCEPT ![m] = @ + 1]
    /\ UNCHANGED <<lost, repeated, faults>>

\* n words of m never arrive.
Skip(m, n) ==
    /\ DAQState = "Running"
    /\ faults < MaxFaults
    /\ sent[m] + n <= 3 * NEvents
    /\ sent' = [sent EXCEPT ![m] = @ + n]
    /\ lost' = lost \cup {NthWord(m, sent[m] + i) : i \in 0 .. n - 1}
    /\ faults' = faults + 1
    /\ UNCHANGED <<previousData, slots, evtWRBuf, evtRDBuf, built, DAQState, repeated>>

\* The next word of m is lost.
LoseWord(m) ==
    /\ sent[m] < 3 * NEvents /\ NthWord(m, sent[m]).kind \in Faults
    /\ Skip(m, 1)

\* A whole fragment of m is lost: the card missed the trigger.
LoseFragment(m) ==
    /\ "fragment" \in Faults
    /\ sent[m] % 3 = 0
    /\ Skip(m, 3)

\* The last word of m, a trailer, arrives a second time.
RepeatTrailer(m) ==
    /\ "repeat" \in Faults
    /\ DAQState = "Running"
    /\ faults < MaxFaults
    /\ previousData[m].kind = "trailer" /\ previousData[m] = NthWord(m, sent[m] - 1)
    /\ Assemble(previousData[m])
    /\ repeated' = repeated \cup {previousData[m]}
    /\ faults' = faults + 1
    /\ UNCHANGED <<sent, lost>>

Next == \E m \in Mezz : Deliver(m) \/ LoseWord(m) \/ LoseFragment(m) \/ RepeatTrailer(m)

Spec == Init /\ [][Next]_vars

\* A card that has words to send is read out: every CSM cycle has a word of every card.
FairSpec == Spec /\ \A m \in Mezz : WF_vars(Deliver(m))

--------------------------------------------------------------------------------
(* Properties of the healthy detector (Faults = {}). *)

\* Fragments of m that have arrived completely.
Done(m) == sent[m] \div 3

\* Some card is a whole ring of event buffers ahead of another one.
Ahead == \E m, n \in Mezz : Done(m) - Done(n) >= NSlots

\* Event e, whole: exactly the fragment of every card, under its own EVID.
WholeEvent(b, e) == b.evid = Evid(e) /\ \A m \in Mezz : b.words[m] = Fragment(m, e)

\* However the cards are interleaved, the events whose last trailer has arrived have
\* been emitted by DataAssembling, whole, once, in the order of the triggers, none of
\* them forced out, and nothing else has.
BuildsInOrder ==
    /\ \A e \in Events : Len(built) > e <=> \A m \in Mezz : Done(m) > e
    /\ \A k \in 1..Len(built) : WholeEvent(built[k], k - 1) /\ ~built[k].forced

\* The triggers with a word in slot s.
EventsIn(s) ==
    {e \in Events : \E m \in Mezz : \E i \in 1..Len(slots[s].eventBuf[m]) :
       slots[s].eventBuf[m][i].event = e}

\* An event buffer holds the words of one trigger, that of its EVID, and no two
\* buffers share a trigger: a slot is never reused while it is in use.
SlotsNotShared ==
    \A s \in Slots : ~slots[s].bufEmpty =>
      /\ \E e \in Events : EventsIn(s) = {e} /\ slots[s].bufEVID = Evid(e)
      /\ \A t \in Slots \ {s} : EventsIn(s) \cap EventsIn(t) = {}

\* The builder gives up ("Try to build too many events") only when a card is NSlots
\* events ahead of the slowest one.
StopsOnlyWhenFull == DAQState = "Idle" => Ahead

\* Every event of the run is emitted, unless a card got too far ahead.
EventsAreBuilt == <>(Len(built) = NEvents \/ Ahead)

--------------------------------------------------------------------------------
(* Properties of the damaged stream. *)

\* s and w behind it, unless w is gone.
Behind(s, w, gone) == IF w \in gone THEN s ELSE Append(s, w)

\* The fragment of m for event e without the words that are gone.
Kept(m, e, gone) ==
    Behind(Behind(Behind(<<>>, Word(m, "header", e), gone), Word(m, "hit", e), gone),
           Word(m, "trailer", e), gone)

\* Nothing but hits and trailers is damaged, and they are lost.
HeadersArrive == repeated = {} /\ \A w \in lost : w.kind # "header"

\* Lost trailers and hits never mix events: the events still come out once and in the
\* order of the triggers, forced or not, with all of their words that arrived.
DamageContained ==
    HeadersArrive =>
      \A k \in 1..Len(built) :
        /\ built[k].evid = Evid(k - 1)
        /\ \A m \in Mezz : built[k].words[m] = Kept(m, k - 1, lost)

\* The words of m that have arrived.
Received(m) == {NthWord(m, i) : i \in 0 .. sent[m] - 1} \ lost

\* A header is lost with the rest of its fragment only: the card missed the trigger.
MissesAreWhole == \A m \in Mezz : \A w \in Received(m) : Word(m, "header", w.event) \notin lost

\* No card has come so far since a miss that the EVIDs of the slots left behind come again.
MissesAreRecent ==
    \A w \in lost : w.kind = "header" => \A m \in Mezz : Done(m) < w.event + EvidMod - NSlots

IsBuilt(e) == \E k \in 1..Len(built) : WholeEvent(built[k], e)

\* A missed trigger sets the write pointers of the cards apart, and while one card is
\* ahead every event may come out in pieces.  But they come together again: an event of
\* which no word is lost comes out whole if the one before it did, however far the
\* pointers have drifted before.
HealsAfterMiss ==
    (DAQState = "Running" /\ repeated = {} /\ MissesAreWhole /\ MissesAreRecent) =>
      \A e \in Events \ {0} :
        (/\ IsBuilt(e - 1) /\ \A w \in lost : w.event # e
         /\ \A m \in Mezz : Done(m) > e) => IsBuilt(e)

\* The event buffers in the order in which they are emitted: those of the events that
\* have been, then those of the ring, from evtRDBuf on.
Buffers == 1 .. Len(built) + NSlots
Buffer(n) ==
    IF n <= Len(built) THEN built[n].words
    ELSE slots[(evtRDBuf + n - Len(built) - 1) % NSlots].eventBuf

\* Whatever is damaged, no word is dropped by the moves of the pointers or when slots
\* are forced out, and none but a repeated trailer is recorded twice.
WordsConserved ==
    DAQState = "Running" =>
      \A m \in Mezz :
        /\ UNION {ToSet(Buffer(n)[m]) : n \in Buffers} = Received(m)
        /\ \A n \in Buffers : \A i \in DOMAIN Buffer(n)[m] :
             LET w == Buffer(n)[m][i]
             IN  w \in repeated
                 \/ /\ \A j \in 1 .. i - 1 : Buffer(n)[m][j] # w
                    /\ \A p \in 1 .. n - 1 : w \notin ToSet(Buffer(p)[m])

\* "ends the build when it finds all enabled TDC trailers with Event ID = eventn"
\* (CSMMiniDAQ_note.txt:38): an event that was not forced out has them all.
EndsWithAllTrailers ==
    \A k \in 1..Len(built) : ~built[k].forced =>
      \A m \in Mezz : \E i \in 1..Len(built[k].words[m]) :
        LET w == built[k].words[m][i] IN w.kind = "trailer" /\ Evid(w.event) = built[k].evid
================================================================================
