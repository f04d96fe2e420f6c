--------------------------- MODULE EventBuilderProofs ---------------------------
(***************************************************************************)
(* Proofs about EventBuilder, for every set of cards, every ring size and  *)
(* any number of triggers, in four parts:                                  *)
(*  - on a healthy detector events come out whole and in order             *)
(*    (WholeEventsInOrder), for every EVID width that exceeds the ring;    *)
(*  - lost hits and trailers damage their own event only, until a header   *)
(*    is lost or a trailer repeated (LossesStayContained);                 *)
(*  - no word is ever dropped or recorded twice, whatever the links do     *)
(*    (NoWordIsDropped);                                                   *)
(*  - when cards miss triggers, whatever that does to their write pointers,*)
(*    events that came together stay together (MissesHeal).                *)
(***************************************************************************)
EXTENDS EventBuilder, WireNumber, TotalsProofs

--------------------------------------------------------------------------------
(* Arithmetic of the ring: places of events modulo its size. *)

\* Two numbers less than n apart have different places.
LEMMA ModApart ==
    ASSUME NEW a \in Int, NEW b \in Int, NEW n \in Nat \ {0},
           a < b, b - a < n
    PROVE  a % n # b % n
  <1> DEFINE x == a % n
             p == a \div n
             y == b % n
             q == b \div n
  <1>1. x \in 0 .. n - 1 /\ p \in Int /\ a = n * p + x
    BY Division
  <1>2. y \in 0 .. n - 1 /\ q \in Int /\ b = n * q + y
    BY Division
  <1> HIDE DEF x, p, y, q
  <1>3. ASSUME x = y PROVE FALSE
    <2>1. n * q + 0 = n * p + (b - a)
      BY <1>1, <1>2, <1>3
    <2>2. b - a \in 0 .. n - 1 /\ 0 \in 0 .. n - 1
      OBVIOUS
    <2>3. 0 = b - a
      BY ONLY <2>1, <2>2, <1>1, <1>2, Unique
    <2> QED BY <2>3
  <1> QED BY <1>3 DEF x, y

\* The distance of two places is the distance of the numbers, up to the size.
LEMMA ModDistance ==
    ASSUME NEW a \in Int, NEW b \in Int, NEW n \in Nat \ {0}, a <= b, b - a < n
    PROVE  ((b % n) - (a % n)) % n = b - a
  <1> DEFINE x == a % n
             p == a \div n
             y == b % n
             q == b \div n
             d == (y - x) % n
             t == (y - x) \div n
  <1>1. x \in 0 .. n - 1 /\ p \in Int /\ a = n * p + x
    BY Division
  <1>2. y \in 0 .. n - 1 /\ q \in Int /\ b = n * q + y
    BY Division
  <1>3. d \in 0 .. n - 1 /\ t \in Int /\ y - x = n * t + d
    <2>1. y - x \in Int
      BY <1>1, <1>2
    <2> QED BY <2>1, Division
  <1> HIDE DEF x, p, y, q, d, t
  <1>4. n * (p - q) + (b - a) = n * t + d
    <2>1. n * (p - q) = n * p - n * q
      BY <1>1, <1>2
    <2> QED BY <2>1, <1>1, <1>2, <1>3
  <1>5. b - a \in 0 .. n - 1 /\ p - q \in Int
    BY <1>1, <1>2
  <1>6. b - a = d
    BY ONLY <1>3, <1>4, <1>5, Unique
  <1> QED BY <1>6 DEF d, x, y

LEMMA ModPeriod ==
    ASSUME NEW a \in Int, NEW n \in Nat \ {0}
    PROVE  (a + n) % n = a % n
  <1> DEFINE x == a % n
             p == a \div n
             y == (a + n) % n
             q == (a + n) \div n
  <1>1. x \in 0 .. n - 1 /\ p \in Int /\ a = n * p + x
    BY Division
  <1>2. y \in 0 .. n - 1 /\ q \in Int /\ a + n = n * q + y
    BY Division
  <1> HIDE DEF x, p, y, q
  <1>3. n * (p + 1) + x = n * q + y
    <2>1. n * (p + 1) = n * p + n
      BY <1>1
    <2> QED BY <2>1, <1>1, <1>2
  <1>4. x = y
    BY <1>1, <1>2, <1>3, Unique
  <1> QED BY <1>4 DEF x, y

\* Every place of the ring holds some number of a window of its size.
LEMMA ModCovers ==
    ASSUME NEW b \in Nat, NEW n \in Nat \ {0}, NEW s \in 0 .. n - 1
    PROVE  \E k \in 0 .. n - 1 : (b + k) % n = s
  <1> DEFINE k == (s - b) % n
  <1>1. k \in 0 .. n - 1
    <2>1. s - b \in Int
      OBVIOUS
    <2> QED BY <2>1, Division
  <1>2. (k + b) % n = ((s - b) + b) % n
    <2>1. s - b \in Int /\ b \in Int
      OBVIOUS
    <2> QED BY <2>1, ModAdd
  <1>3. ((s - b) + b) % n = s
    <2>1. (s - b) + b = s
      OBVIOUS
    <2>2. s % n = s
      <3>1. s % n \in 0 .. n - 1 /\ s \div n \in Int /\ s = n * (s \div n) + (s % n)
        BY Division
      <3>2. n * (s \div n) + (s % n) = n * 0 + s
        BY <3>1
      <3> QED BY <3>1, <3>2, Unique, 0 \in Int
    <2> QED BY <2>1, <2>2
  <1> HIDE DEF k
  <1>4. (b + k) % n = s
    <2>1. b + k = k + b
      BY <1>1
    <2> QED BY <2>1, <1>2, <1>3
  <1> QED BY <1>1, <1>4

--------------------------------------------------------------------------------
(***************************************************************************)
(* The inductive invariant.  While the builder runs, the ring is a window  *)
(* of NSlots events, from the next one to emit on, and each slot holds     *)
(* what has arrived of its event.                                          *)
(***************************************************************************)

SlotRecord == [bufEmpty : BOOLEAN, bufEVID : 0 .. EvidMod - 1, gotHeader : SUBSET Mezz,
               gotTrailer : SUBSET Mezz, eventBuf : [Mezz -> Seq(Words)]]
BuiltEvent == [evid : 0 .. EvidMod - 1, words : [Mezz -> Seq(Words)], forced : BOOLEAN]

Typed ==
    /\ sent \in [Mezz -> 0 .. 3 * NEvents]
    /\ previousData \in [Mezz -> Words \cup {NoWord}]
    /\ slots \in [Slots -> SlotRecord]
    /\ evtWRBuf \in [Mezz -> Slots]
    /\ evtRDBuf \in Slots
    /\ built \in Seq(BuiltEvent)
    /\ DAQState \in {"Running", "Idle"}
    /\ lost = {} /\ repeated = {} /\ faults = 0

\* What has arrived of event e from card m when it has sent n words.
Arrived(m, e, n) ==
    IF n <= 3 * e THEN <<>>
    ELSE IF n = 3 * e + 1 THEN <<Word(m, "header", e)>>
    ELSE IF n = 3 * e + 2 THEN <<Word(m, "header", e), Word(m, "hit", e)>>
    ELSE Fragment(m, e)

\* The slot holds what has arrived of event e when the cards have sent sn words.
Holds(slot, e, sn) ==
    /\ slot.gotTrailer = {m \in Mezz : sn[m] >= 3 * e + 3}
    /\ slot.bufEmpty <=> \A m \in Mezz : sn[m] <= 3 * e
    /\ ~slot.bufEmpty => slot.bufEVID = Evid(e)
    /\ slot.eventBuf = [m \in Mezz |-> Arrived(m, e, sn[m])]

\* The event k places behind the next one to emit is k slots behind evtRDBuf.
Window ==
    \A e \in Len(built) .. Len(built) + NSlots - 1 : Holds(slots[e % NSlots], e, sent)

Pointers ==
    /\ \A m \in Mezz : evtWRBuf[m] = Done(m) % NSlots
    /\ evtRDBuf = Len(built) % NSlots

\* No card lags behind the last emitted event or is more than the ring ahead of
\* it, and some card has not finished the next event.
Spread ==
    /\ \A m \in Mezz : 3 * Len(built) <= sent[m] /\ sent[m] <= 3 * (Len(built) + NSlots)
    /\ \E m \in Mezz : sent[m] < 3 * Len(built) + 3

\* Before a trailer comes the hit, never a copy of the trailer.
HitFirst == \A m \in Mezz : sent[m] % 3 = 2 => previousData[m].kind = "hit"

AllWhole == \A k \in 1..Len(built) : WholeEvent(built[k], k - 1) /\ ~built[k].forced

Ring == Window /\ Pointers /\ Spread /\ HitFirst /\ AllWhole

IInv ==
    /\ Typed
    /\ DAQState = "Running" => Ring
    /\ BuildsInOrder
    /\ SlotsNotShared
    /\ StopsOnlyWhenFull

--------------------------------------------------------------------------------
(* Facts about words and slots, free of the state. *)

LEMMA Sizes == NSlots \in Nat \ {0} /\ EvidMod \in Nat \ {0} /\ NSlots < EvidMod /\ NEvents \in Nat
  BY RingAssumption, BoundAssumption DEF RingAssumption, BoundAssumption

\* The n-th word of a card: word r of trigger e.
LEMMA TheWord ==
    ASSUME NEW m \in Mezz, NEW n \in 0 .. 3 * NEvents, n < 3 * NEvents
    PROVE  \E e \in Events : \E r \in 0..2 :
             /\ n = 3 * e + r /\ n \div 3 = e /\ n % 3 = r
             /\ r = 0 => NthWord(m, n) = Word(m, "header", e)
             /\ r = 1 => NthWord(m, n) = Word(m, "hit", e)
             /\ r = 2 => NthWord(m, n) = Word(m, "trailer", e)
  <1> DEFINE e == n \div 3
             r == n % 3
  <1>1. e \in Events /\ r \in 0..2 /\ n = 3 * e + r
    BY Sizes DEF Events
  <1>2. NthWord(m, n) = Fragment(m, e)[r + 1]
    BY DEF NthWord
  <1> HIDE DEF e, r
  <1>3. /\ r = 0 => NthWord(m, n) = Word(m, "header", e)
        /\ r = 1 => NthWord(m, n) = Word(m, "hit", e)
        /\ r = 2 => NthWord(m, n) = Word(m, "trailer", e)
    BY <1>1, <1>2 DEF Fragment
  <1> QED BY <1>1, <1>3 DEF e, r

LEMMA Thirds ==
    ASSUME NEW n \in Nat
    PROVE  /\ n \div 3 \in Nat
           /\ 3 * (n \div 3) <= n /\ n < 3 * (n \div 3) + 3
  OBVIOUS

LEMMA WordTyped ==
    ASSUME NEW m \in Mezz, NEW k \in Kinds, NEW e \in Events
    PROVE  /\ Word(m, k, e) \in Words
           /\ Word(m, k, e).mezz = m /\ Word(m, k, e).kind = k /\ Word(m, k, e).event = e
  BY DEF Word, Words

LEMMA EvidRange == ASSUME NEW e \in Nat PROVE Evid(e) \in 0 .. EvidMod - 1
  BY Sizes, Division DEF Evid

\* Events less than the ring apart have different EVIDs and different slots.
LEMMA Apart ==
    ASSUME NEW a \in Nat, NEW b \in Nat, a < b
    PROVE  /\ b - a <= NSlots => Evid(a) # Evid(b)
           /\ b - a < NSlots => a % NSlots # b % NSlots
  <1>1. a \in Int /\ b \in Int
    OBVIOUS
  <1>2. b - a <= NSlots => b - a < EvidMod
    BY Sizes
  <1> QED BY <1>1, <1>2, Sizes, ModApart DEF Evid

LEMMA PlaceInRing == ASSUME NEW a \in Nat PROVE a % NSlots \in Slots
  BY Sizes, Division DEF Slots

LEMMA NextPlace == ASSUME NEW a \in Nat PROVE NextSlot(a % NSlots) = (a + 1) % NSlots
  <1>1. a \in Int /\ 1 \in Int
    OBVIOUS
  <1> QED BY <1>1, Sizes, ModAdd DEF NextSlot

\* A word of event e changes nothing of the other events.
LEMMA OthersHold ==
    ASSUME NEW sn \in [Mezz -> Nat], NEW m \in Mezz, NEW e \in Nat, NEW r \in 0..2,
           sn[m] = 3 * e + r, NEW f \in Nat, f # e, NEW slot, Holds(slot, f, sn)
    PROVE  Holds(slot, f, [sn EXCEPT ![m] = @ + 1])
  <1> DEFINE sx == [sn EXCEPT ![m] = @ + 1]
  <1>1. \A x \in Mezz : /\ sn[x] \in Nat
                         /\ sx[x] = IF x = m THEN sn[x] + 1 ELSE sn[x]
    OBVIOUS
  <1> HIDE DEF sx
  <1>2. ASSUME NEW x \in Mezz
        PROVE  /\ sn[x] >= 3 * f + 3 <=> sx[x] >= 3 * f + 3
               /\ sn[x] <= 3 * f <=> sx[x] <= 3 * f
               /\ Arrived(x, f, sn[x]) = Arrived(x, f, sx[x])
    <2>1. CASE x # m
      BY <1>1, <2>1
    <2>2. CASE x = m
      <3>1. sn[x] = 3 * e + r /\ sx[x] = 3 * e + r + 1
        BY <1>1, <2>2
      <3>2. CASE f < e
        <4>1. sn[x] >= 3 * f + 3 /\ sx[x] >= 3 * f + 3
          BY <3>1, <3>2
        <4> QED BY <4>1, <3>1 DEF Arrived
      <3>3. CASE f > e
        <4>1. sn[x] <= 3 * f /\ sx[x] <= 3 * f
          BY <3>1, <3>3
        <4> QED BY <4>1, <3>1 DEF Arrived
      <3> QED BY <3>2, <3>3
    <2> QED BY <2>1, <2>2
  <1>3. {x \in Mezz : sn[x] >= 3 * f + 3} = {x \in Mezz : sx[x] >= 3 * f + 3}
    BY <1>2
  <1>4. [x \in Mezz |-> Arrived(x, f, sn[x])] = [x \in Mezz |-> Arrived(x, f, sx[x])]
    BY <1>2
  <1>5. (\A x \in Mezz : sn[x] <= 3 * f) <=> \A x \in Mezz : sx[x] <= 3 * f
    BY <1>2
  <1>6. Holds(slot, f, sx)
    BY <1>3, <1>4, <1>5 DEF Holds
  <1> QED BY <1>6 DEF sx

--------------------------------------------------------------------------------
(* What the ring says of the properties. *)

\* What has arrived of an event is of that event, and is something once a word has.
LEMMA ArrivedWords ==
    ASSUME NEW m \in Mezz, NEW e \in Nat, NEW n \in Nat
    PROVE  /\ \A i \in 1..Len(Arrived(m, e, n)) : Arrived(m, e, n)[i].event = e
           /\ n > 3 * e => Len(Arrived(m, e, n)) >= 1
           /\ n >= 3 * e + 3 => Arrived(m, e, n) = Fragment(m, e)
  BY DEF Arrived, Fragment, Word

LEMMA SlotEvents ==
    ASSUME Typed, NEW s \in Slots, NEW e \in Nat, Holds(slots[s], e, sent)
    PROVE  /\ EventsIn(s) \subseteq {e}
           /\ ~slots[s].bufEmpty => EventsIn(s) = {e} /\ e \in Events
  <1>1. \A m \in Mezz : sent[m] \in Nat /\ sent[m] <= 3 * NEvents
    BY Sizes DEF Typed
  <1>2. \A m \in Mezz : slots[s].eventBuf[m] = Arrived(m, e, sent[m])
    BY DEF Holds
  <1>3. EventsIn(s) \subseteq {e}
    <2> SUFFICES ASSUME NEW f \in Events, NEW m \in Mezz,
                        NEW i \in 1..Len(slots[s].eventBuf[m]),
                        slots[s].eventBuf[m][i].event = f
                 PROVE  f = e
      BY DEF EventsIn
    <2> QED BY <1>1, <1>2, ArrivedWords
  <1>4. ASSUME ~slots[s].bufEmpty PROVE e \in EventsIn(s) /\ e \in Events
    <2>1. PICK m \in Mezz : ~(sent[m] <= 3 * e)
      BY <1>4 DEF Holds
    <2>2. sent[m] \in Nat /\ sent[m] > 3 * e /\ sent[m] <= 3 * NEvents
      BY <1>1, <2>1
    <2>3. e \in Events
      BY <2>2, Sizes DEF Events
    <2>4. Len(Arrived(m, e, sent[m])) >= 1 /\ Arrived(m, e, sent[m])[1].event = e
      <3>1. Len(Arrived(m, e, sent[m])) >= 1
        BY <2>2, ArrivedWords
      <3>2. Len(Arrived(m, e, sent[m])) \in Nat
        BY DEF Arrived, Fragment
      <3>3. 1 \in 1..Len(Arrived(m, e, sent[m]))
        BY <3>1, <3>2
      <3> QED BY <3>1, <3>3, <2>2, ArrivedWords
    <2>5. 1 \in 1..Len(slots[s].eventBuf[m])
      <3>1. Len(Arrived(m, e, sent[m])) \in Nat
        BY DEF Arrived, Fragment
      <3> QED BY <3>1, <2>4, <1>2
    <2>6. slots[s].eventBuf[m][1].event = e
      BY <2>4, <1>2
    <2> QED BY <2>3, <2>5, <2>6 DEF EventsIn
  <1> QED BY <1>3, <1>4

\* The number of emitted events is that of the slowest card.
LEMMA RingBuilds ==
    ASSUME Typed, Spread, AllWhole
    PROVE  BuildsInOrder
  <1>1. Len(built) \in Nat
    BY DEF Typed
  <1>2. \A m \in Mezz : sent[m] \in Nat
    BY Sizes DEF Typed
  <1>3. ASSUME NEW e \in Events, Len(built) > e, NEW m \in Mezz PROVE Done(m) > e
    <2>1. sent[m] >= 3 * Len(built)
      BY DEF Spread
    <2> QED BY <2>1, <1>1, <1>2, <1>3, Thirds DEF Done, Events
  <1>4. ASSUME NEW e \in Events, \A m \in Mezz : Done(m) > e PROVE Len(built) > e
    <2>1. PICK m \in Mezz : sent[m] < 3 * Len(built) + 3
      BY DEF Spread
    <2>2. Done(m) > e
      BY <1>4
    <2> QED BY <2>1, <2>2, <1>1, <1>2, Thirds DEF Done, Events
  <1>5. \A e \in Events : Len(built) > e <=> \A m \in Mezz : Done(m) > e
    BY <1>3, <1>4
  <1> QED BY <1>5 DEF BuildsInOrder, AllWhole

\* Slots of the window hold different events.
LEMMA RingSeparates ==
    ASSUME Typed, Window
    PROVE  SlotsNotShared
  <1>1. Len(built) \in Nat
    BY DEF Typed
  <1>2. ASSUME NEW s \in Slots
        PROVE  \E e \in Nat : /\ e \in Len(built) .. Len(built) + NSlots - 1
                               /\ e % NSlots = s /\ Holds(slots[s], e, sent)
    <2>1. PICK k \in 0 .. NSlots - 1 : (Len(built) + k) % NSlots = s
      BY <1>1, Sizes, ModCovers DEF Slots
    <2>2. Len(built) + k \in Len(built) .. Len(built) + NSlots - 1 /\ Len(built) + k \in Nat
      BY <1>1, Sizes
    <2> QED BY <2>1, <2>2 DEF Window
  <1> SUFFICES ASSUME NEW s \in Slots, ~slots[s].bufEmpty
               PROVE  /\ \E e \in Events : EventsIn(s) = {e} /\ slots[s].bufEVID = Evid(e)
                      /\ \A t \in Slots \ {s} : EventsIn(s) \cap EventsIn(t) = {}
    BY DEF SlotsNotShared
  <1>3. PICK e \in Nat : /\ e \in Len(built) .. Len(built) + NSlots - 1
                         /\ e % NSlots = s /\ Holds(slots[s], e, sent)
    BY <1>2
  <1>4. EventsIn(s) = {e} /\ e \in Events
    BY <1>3, SlotEvents
  <1>5. slots[s].bufEVID = Evid(e)
    BY <1>3 DEF Holds
  <1>6. ASSUME NEW t \in Slots \ {s} PROVE EventsIn(s) \cap EventsIn(t) = {}
    <2>1. PICK f \in Nat : f % NSlots = t /\ Holds(slots[t], f, sent)
      BY <1>2
    <2>2. EventsIn(t) \subseteq {f}
      BY <2>1, SlotEvents
    <2>3. f # e
      BY <2>1, <1>3
    <2> QED BY <2>2, <2>3, <1>4
  <1> QED BY <1>4, <1>5, <1>6

LEMMA RingGood ==
    ASSUME Typed, Ring, DAQState = "Running"
    PROVE  IInv
  BY RingBuilds, RingSeparates DEF Ring, IInv, StopsOnlyWhenFull

LEMMA RingGoodNext == (Typed /\ Ring /\ DAQState = "Running" => IInv)'
  <1>1. Typed /\ Ring /\ DAQState = "Running" => IInv
    BY RingGood
  <1> QED BY <1>1, PTL

--------------------------------------------------------------------------------
(* The initial state. *)

LEMMA InitIInv == ASSUME Mezz # {}, Init PROVE IInv
  <1> USE Sizes
  <1>1. NoWords \in [Mezz -> Seq(Words)]
    BY DEF NoWords
  <1>2. EmptySlot \in SlotRecord
    BY <1>1 DEF EmptySlot, SlotRecord
  <1>3. Len(built) = 0 /\ built \in Seq(BuiltEvent)
    BY DEF Init
  <1>4. Typed
    BY <1>2, <1>3 DEF Init, Typed, Slots
  <1>5. 0 % NSlots = 0
    <2>1. 0 % NSlots \in 0 .. NSlots - 1 /\ 0 \div NSlots \in Int
          /\ 0 = NSlots * (0 \div NSlots) + (0 % NSlots)
      BY Division
    <2>2. NSlots * (0 \div NSlots) + (0 % NSlots) = NSlots * 0 + 0
      BY <2>1
    <2>3. 0 \in Int /\ 0 \in 0 .. NSlots - 1
      OBVIOUS
    <2> QED BY <2>1, <2>2, <2>3, Unique
  <1>6. Pointers
    BY <1>3, <1>5 DEF Init, Pointers, Done
  <1>7. Window
    <2> SUFFICES ASSUME NEW e \in Nat, e <= NSlots - 1
                 PROVE  Holds(slots[e % NSlots], e, sent)
      BY <1>3 DEF Window
    <2>1. slots[e % NSlots] = EmptySlot
      BY Division DEF Init, Slots
    <2>2. \A m \in Mezz : sent[m] = 0
      BY DEF Init
    <2>3. \A m \in Mezz : Arrived(m, e, sent[m]) = <<>>
      BY <2>2 DEF Arrived
    <2>4. EmptySlot.gotTrailer = {m \in Mezz : sent[m] >= 3 * e + 3}
      BY <2>2 DEF EmptySlot
    <2>5. EmptySlot.eventBuf = [m \in Mezz |-> Arrived(m, e, sent[m])]
      BY <2>3 DEF EmptySlot, NoWords
    <2>6. EmptySlot.bufEmpty = TRUE /\ \A m \in Mezz : sent[m] <= 3 * e
      BY <2>2 DEF EmptySlot
    <2> QED BY <2>1, <2>4, <2>5, <2>6 DEF Holds
  <1>8. Spread
    BY <1>3 DEF Init, Spread
  <1>9. HitFirst /\ AllWhole /\ DAQState = "Running"
    BY <1>3 DEF Init, HitFirst, AllWhole
  <1> QED BY <1>4, <1>6, <1>7, <1>8, <1>9, RingGood DEF Ring

--------------------------------------------------------------------------------
(* The steps of a healthy detector. *)

\* Word r of event e from card m goes into the slot of e.
WordOf(m, e, r) == Fragment(m, e)[r + 1]
Extends(new, slot, m, e, r) ==
    /\ new.bufEmpty = FALSE /\ new.bufEVID = Evid(e)
    /\ new.gotTrailer = IF r = 2 THEN slot.gotTrailer \cup {m} ELSE slot.gotTrailer
    /\ new.eventBuf = [slot.eventBuf EXCEPT ![m] = Append(@, WordOf(m, e, r))]

LEMMA AppendShort ==
    ASSUME NEW S, NEW x \in S, NEW y \in S, NEW z \in S
    PROVE  /\ Append(<<>>, x) = <<x>>
           /\ Append(<<x>>, y) = <<x, y>>
           /\ Append(<<x, y>>, z) = <<x, y, z>>
  <1>1. Append(<<>>, x) = <<x>>
    OBVIOUS
  <1>2. Append(<<x>>, y) = <<x, y>>
    <2>1. Append(<<x>>, y) \in Seq(S) /\ <<x, y>> \in Seq(S)
      OBVIOUS
    <2>2. Len(Append(<<x>>, y)) = 2 /\ Len(<<x, y>>) = 2
      OBVIOUS
    <2>3. \A i \in 1..2 : Append(<<x>>, y)[i] = <<x, y>>[i]
      OBVIOUS
    <2> QED BY <2>1, <2>2, <2>3, SeqEqual
  <1>3. Append(<<x, y>>, z) = <<x, y, z>>
    <2>1. Append(<<x, y>>, z) \in Seq(S) /\ <<x, y, z>> \in Seq(S)
      OBVIOUS
    <2>2. Len(Append(<<x, y>>, z)) = 3 /\ Len(<<x, y, z>>) = 3
      OBVIOUS
    <2>3. \A i \in 1..3 : Append(<<x, y>>, z)[i] = <<x, y, z>>[i]
      OBVIOUS
    <2> QED BY <2>1, <2>2, <2>3, SeqEqual
  <1> QED BY <1>1, <1>2, <1>3

LEMMA StillHolds ==
    ASSUME NEW sn \in [Mezz -> Nat], NEW m \in Mezz, NEW e \in Nat, NEW r \in 0..2,
           sn[m] = 3 * e + r, NEW slot, Holds(slot, e, sn),
           NEW new, Extends(new, slot, m, e, r)
    PROVE  Holds(new, e, [sn EXCEPT ![m] = @ + 1])
  <1> DEFINE sx == [sn EXCEPT ![m] = @ + 1]
  <1>1. \A x \in Mezz : /\ sn[x] \in Nat
                         /\ sx[x] = IF x = m THEN sn[x] + 1 ELSE sn[x]
    OBVIOUS
  <1>2. sx[m] = 3 * e + r + 1
    BY <1>1
  <1> HIDE DEF sx
  <1>3. new.gotTrailer = {x \in Mezz : sx[x] >= 3 * e + 3}
    <2>1. slot.gotTrailer = {x \in Mezz : sn[x] >= 3 * e + 3}
      BY DEF Holds
    <2>2. CASE r = 2
      <3>1. sx[m] >= 3 * e + 3
        BY <1>2, <2>2
      <3>2. \A x \in Mezz : x # m => sx[x] = sn[x]
        BY <1>1
      <3>3. new.gotTrailer = {x \in Mezz : sn[x] >= 3 * e + 3} \cup {m}
        BY <2>1, <2>2 DEF Extends
      <3> QED BY <3>1, <3>2, <3>3
    <2>3. CASE r # 2
      <3>1. ~(sx[m] >= 3 * e + 3) /\ ~(sn[m] >= 3 * e + 3)
        BY <1>2, <2>3
      <3>2. \A x \in Mezz : x # m => sx[x] = sn[x]
        BY <1>1
      <3> QED BY <3>1, <3>2, <2>1, <2>3 DEF Extends
    <2> QED BY <2>2, <2>3
  <1>4. ~(\A x \in Mezz : sx[x] <= 3 * e)
    BY <1>2
  <1>5. new.eventBuf = [x \in Mezz |-> Arrived(x, e, sx[x])]
    <2>1. slot.eventBuf = [x \in Mezz |-> Arrived(x, e, sn[x])]
      BY DEF Holds
    <2>2. new.eventBuf = [x \in Mezz |-> IF x = m THEN Append(Arrived(m, e, sn[m]), WordOf(m, e, r))
                                                  ELSE Arrived(x, e, sn[x])]
      BY <2>1 DEF Extends
    <2>3. Append(Arrived(m, e, sn[m]), WordOf(m, e, r)) = Arrived(m, e, sx[m])
      <3> DEFINE H == Word(m, "header", e)
                 h == Word(m, "hit", e)
                 T == Word(m, "trailer", e)
      <3>0. Append(<<>>, H) = <<H>> /\ Append(<<H>>, h) = <<H, h>> /\ Append(<<H, h>>, T) = <<H, h, T>>
        <4> HIDE DEF H, h, T
        <4>1. H \in {H, h, T} /\ h \in {H, h, T} /\ T \in {H, h, T}
          OBVIOUS
        <4> QED BY ONLY <4>1, AppendShort
      <3>1. CASE r = 0
        <4>1. Arrived(m, e, sn[m]) = <<>> /\ Arrived(m, e, sx[m]) = <<Word(m, "header", e)>>
          BY <1>2, <3>1 DEF Arrived
        <4>2. WordOf(m, e, r) = Word(m, "header", e)
          BY <3>1 DEF WordOf, Fragment
        <4> QED BY <4>1, <4>2, <3>0
      <3>2. CASE r = 1
        <4>1. Arrived(m, e, sn[m]) = <<Word(m, "header", e)>>
          BY <3>2 DEF Arrived
        <4>2. Arrived(m, e, sx[m]) = <<Word(m, "header", e), Word(m, "hit", e)>>
          BY <1>2, <3>2 DEF Arrived
        <4>3. WordOf(m, e, r) = Word(m, "hit", e)
          BY <3>2 DEF WordOf, Fragment
        <4> QED BY <4>1, <4>2, <4>3, <3>0
      <3>3. CASE r = 2
        <4>1. Arrived(m, e, sn[m]) = <<Word(m, "header", e), Word(m, "hit", e)>>
          BY <3>3 DEF Arrived
        <4>2. Arrived(m, e, sx[m]) = Fragment(m, e)
          BY <1>2, <3>3 DEF Arrived
        <4>3. WordOf(m, e, r) = Word(m, "trailer", e)
          BY <3>3 DEF WordOf, Fragment
        <4> QED BY <4>1, <4>2, <4>3, <3>0 DEF Fragment
      <3>4. r = 0 \/ r = 1 \/ r = 2
        OBVIOUS
      <3> QED BY ONLY <3>1, <3>2, <3>3, <3>4
    <2>4. \A x \in Mezz : x # m => Arrived(x, e, sx[x]) = Arrived(x, e, sn[x])
      BY <1>1
    <2> QED BY <2>2, <2>3, <2>4
  <1>6. Holds(new, e, sx)
    BY <1>3, <1>4, <1>5 DEF Holds, Extends
  <1> QED BY <1>6 DEF sx

\* The window after a word that emits nothing.
LEMMA WindowStep ==
    ASSUME Typed, Window, NEW m \in Mezz, NEW e \in Nat, NEW r \in 0..2,
           sent[m] = 3 * e + r, e \in Len(built) .. Len(built) + NSlots - 1,
           NEW new, Extends(new, slots[e % NSlots], m, e, r),
           slots' = [slots EXCEPT ![e % NSlots] = new],
           sent' = [sent EXCEPT ![m] = @ + 1], built' = built
    PROVE  Window'
  <1>1. Len(built) \in Nat /\ sent \in [Mezz -> Nat]
    BY Sizes DEF Typed
  <1> SUFFICES ASSUME NEW f \in Nat, f \in Len(built) .. Len(built) + NSlots - 1
               PROVE  Holds(slots'[f % NSlots], f, sent')
    <2>1. \A f \in Len(built') .. Len(built') + NSlots - 1 :
            f \in Nat /\ f \in Len(built) .. Len(built) + NSlots - 1
      BY <1>1, Sizes
    <2> QED BY <1>1, <2>1, SMTT(30) DEF Window, Holds
  <1>2. e % NSlots \in Slots /\ f % NSlots \in Slots
    BY PlaceInRing
  <1>3. Holds(slots[f % NSlots], f, sent)
    BY DEF Window
  <1>4. CASE f = e
    <2>1. slots'[f % NSlots] = new
      BY <1>2, <1>4 DEF Typed
    <2>2. Holds(new, e, sent')
      BY <1>1, <1>3, <1>4, StillHolds
    <2> QED BY <2>1, <2>2, <1>4
  <1>5. CASE f # e
    <2>1. f % NSlots # e % NSlots
      <3>1. CASE f < e
        BY <3>1, <1>1, Apart, Sizes
      <3>2. CASE e < f
        BY <3>2, <1>1, Apart, Sizes
      <3> QED BY <3>1, <3>2, <1>5
    <2>2. slots'[f % NSlots] = slots[f % NSlots]
      BY <1>2, <2>1 DEF Typed
    <2>3. Holds(slots[f % NSlots], f, sent')
      BY <1>1, <1>3, <1>5, OthersHold
    <2> QED BY <2>2, <2>3
  <1> QED BY <1>4, <1>5

\* What a card may do next: its event is in the window, or it is a ring ahead.
LEMMA NextEvent ==
    ASSUME Typed, Spread, NEW m \in Mezz, NEW e \in Nat, NEW r \in 0..2, sent[m] = 3 * e + r
    PROVE  /\ Len(built) \in Nat /\ Len(built) <= e
           /\ e < Len(built) + NSlots \/ (e = Len(built) + NSlots /\ r = 0)
           /\ Done(m) = e
  <1>1. Len(built) \in Nat
    BY DEF Typed
  <1>2. 3 * Len(built) <= sent[m] /\ sent[m] <= 3 * (Len(built) + NSlots)
    BY DEF Spread
  <1>3. (3 * e + r) \div 3 = e
    OBVIOUS
  <1> QED BY <1>1, <1>2, <1>3, Sizes DEF Done

\* Header or hit: no event is finished.
LEMMA SpreadStep ==
    ASSUME Typed, Spread, NEW m \in Mezz, NEW e \in Nat, NEW r \in 0..1,
           sent[m] = 3 * e + r, e < Len(built) + NSlots,
           sent' = [sent EXCEPT ![m] = @ + 1], built' = built
    PROVE  Spread' /\ \A x \in Mezz : Done(x)' = Done(x)
  <1>1. Len(built) \in Nat /\ Len(built) <= e
    <2>1. r \in 0..2
      OBVIOUS
    <2> QED BY <2>1, NextEvent
  <1>2. \A x \in Mezz : sent[x] \in Nat /\ sent'[x] = IF x = m THEN sent[x] + 1 ELSE sent[x]
    BY Sizes DEF Typed
  <1>3. sent'[m] = 3 * e + r + 1
    BY <1>2
  <1>4. \A x \in Mezz : 3 * Len(built) <= sent'[x] /\ sent'[x] <= 3 * (Len(built) + NSlots)
    <2> TAKE x \in Mezz
    <2>1. CASE x = m
      BY <1>1, <1>3, <2>1, Sizes
    <2>2. CASE x # m
      BY <1>2, <2>2 DEF Spread
    <2> QED BY <2>1, <2>2
  <1>5. \E x \in Mezz : sent'[x] < 3 * Len(built) + 3
    <2>1. PICK x \in Mezz : sent[x] < 3 * Len(built) + 3
      BY DEF Spread
    <2>2. CASE x = m
      <3>1. e = Len(built)
        BY <1>1, <2>1, <2>2
      <3>2. sent'[m] < 3 * Len(built) + 3
        BY <1>3, <3>1, <1>1
      <3> QED BY <3>2
    <2>3. CASE x # m
      BY <1>2, <2>1, <2>3
    <2> QED BY <2>2, <2>3
  <1>6. (3 * e + r) \div 3 = e /\ (3 * e + r + 1) \div 3 = e
    OBVIOUS
  <1>7. \A x \in Mezz : Done(x)' = Done(x)
    BY <1>2, <1>3, <1>6 DEF Done
  <1> QED BY <1>4, <1>5, <1>7 DEF Spread

LEMMA WordOfFacts ==
    ASSUME NEW m \in Mezz, NEW e \in Events, NEW r \in 0..2
    PROVE  /\ WordOf(m, e, r) \in Words
           /\ WordOf(m, e, r).mezz = m /\ WordOf(m, e, r).event = e
           /\ r = 0 => WordOf(m, e, r) = Word(m, "header", e) /\ WordOf(m, e, r).kind = "header"
           /\ r = 1 => WordOf(m, e, r) = Word(m, "hit", e) /\ WordOf(m, e, r).kind = "hit"
           /\ r = 2 => WordOf(m, e, r) = Word(m, "trailer", e) /\ WordOf(m, e, r).kind = "trailer"
  <1>1. /\ r = 0 => WordOf(m, e, r) = Word(m, "header", e)
        /\ r = 1 => WordOf(m, e, r) = Word(m, "hit", e)
        /\ r = 2 => WordOf(m, e, r) = Word(m, "trailer", e)
    BY DEF WordOf, Fragment
  <1>2. r = 0 \/ r = 1 \/ r = 2
    OBVIOUS
  <1>3. "header" \in Kinds /\ "hit" \in Kinds /\ "trailer" \in Kinds
    BY DEF Kinds
  <1> QED BY <1>1, <1>2, <1>3, WordTyped

\* What opening a slot, noting a header and storing a word do to its fields.
LEMMA OpenedFields ==
    ASSUME NEW slot \in SlotRecord, NEW v \in 0 .. EvidMod - 1
    PROVE  /\ Opened(slot, v) \in SlotRecord
           /\ Opened(slot, v).bufEmpty = FALSE /\ Opened(slot, v).bufEVID = v
           /\ Opened(slot, v).gotTrailer = slot.gotTrailer
           /\ Opened(slot, v).eventBuf = slot.eventBuf
  BY DEF Opened, SlotRecord

LEMMA StoredFields ==
    ASSUME NEW slot \in SlotRecord, NEW m \in Mezz, NEW w \in Words, w.mezz = m
    PROVE  /\ Stored(slot, w) \in SlotRecord
           /\ Stored(slot, w).bufEmpty = slot.bufEmpty /\ Stored(slot, w).bufEVID = slot.bufEVID
           /\ Stored(slot, w).gotTrailer = slot.gotTrailer
           /\ Stored(slot, w).eventBuf = [slot.eventBuf EXCEPT ![m] = Append(@, w)]
  <1>1. slot.eventBuf \in [Mezz -> Seq(Words)]
    BY DEF SlotRecord
  <1>2. [slot.eventBuf EXCEPT ![m] = Append(@, w)] \in [Mezz -> Seq(Words)]
    BY <1>1
  <1> QED BY <1>2 DEF Stored, SlotRecord

LEMMA HeaderFields ==
    ASSUME NEW slot \in SlotRecord, NEW m \in Mezz
    PROVE  LET x == [slot EXCEPT !.gotHeader = @ \cup {m}]
           IN  /\ x \in SlotRecord
               /\ x.bufEmpty = slot.bufEmpty /\ x.bufEVID = slot.bufEVID
               /\ x.gotTrailer = slot.gotTrailer /\ x.eventBuf = slot.eventBuf
  BY DEF SlotRecord

LEMMA NotedFields ==
    ASSUME NEW slot \in SlotRecord, NEW m \in Mezz
    PROVE  /\ Noted(slot, m) \in SlotRecord
           /\ Noted(slot, m).bufEmpty = slot.bufEmpty /\ Noted(slot, m).bufEVID = slot.bufEVID
           /\ Noted(slot, m).gotTrailer = slot.gotTrailer \cup {m}
           /\ Noted(slot, m).eventBuf = slot.eventBuf
  BY DEF Noted, SlotRecord

\* A header or a hit in its slot keeps the ring.
LEMMA QuietStep ==
    ASSUME Typed, Ring, NEW m \in Mezz, NEW e \in Events, NEW r \in 0..1,
           sent[m] = 3 * e + r, e < Len(built) + NSlots,
           NEW new \in SlotRecord, Extends(new, slots[e % NSlots], m, e, r),
           slots' = [slots EXCEPT ![e % NSlots] = new],
           sent' = [sent EXCEPT ![m] = @ + 1],
           evtWRBuf' = [evtWRBuf EXCEPT ![m] = e % NSlots],
           previousData' = [previousData EXCEPT ![m] = WordOf(m, e, r)],
           UNCHANGED <<evtRDBuf, built, DAQState, lost, repeated, faults>>
    PROVE  Typed' /\ Ring'
  <1>1. e \in Nat /\ e < NEvents /\ r \in 0..2
    BY Sizes DEF Events
  <1>2. e % NSlots \in Slots
    BY <1>1, PlaceInRing
  <1>3. Len(built) \in Nat /\ Len(built) <= e /\ Done(m) = e
    BY <1>1, NextEvent DEF Ring
  <1>4. Window'
    <2>1. e \in Len(built) .. Len(built) + NSlots - 1
      BY <1>1, <1>3, Sizes
    <2> QED BY <2>1, <1>1, WindowStep DEF Ring
  <1>5. Spread' /\ \A x \in Mezz : Done(x)' = Done(x)
    BY <1>1, SpreadStep DEF Ring
  <1>6. Pointers'
    <2>1. \A x \in Mezz : evtWRBuf'[x] = Done(x) % NSlots
      BY <1>3 DEF Ring, Pointers, Typed
    <2>2. evtRDBuf' = Len(built') % NSlots
      BY DEF Ring, Pointers
    <2> QED BY <2>1, <2>2, <1>5 DEF Pointers
  <1>7. HitFirst'
    <2> SUFFICES ASSUME NEW x \in Mezz, sent'[x] % 3 = 2 PROVE previousData'[x].kind = "hit"
      BY DEF HitFirst
    <2>1. CASE x = m
      <3>1. sent'[m] = 3 * e + r + 1
        BY DEF Typed
      <3>2. r = 0 => (3 * e + r + 1) % 3 # 2
        BY <1>1
      <3>3. r = 1
        BY <3>1, <3>2, <2>1
      <3>4. previousData'[m] = WordOf(m, e, r)
        BY DEF Typed
      <3> QED BY <3>3, <3>4, <2>1, <1>1, WordOfFacts
    <2>2. CASE x # m
      <3>1. sent'[x] = sent[x] /\ previousData'[x] = previousData[x]
        BY <2>2 DEF Typed
      <3> QED BY <3>1 DEF Ring, HitFirst
    <2> QED BY <2>1, <2>2
  <1>8. AllWhole'
    BY DEF Ring, AllWhole, WholeEvent
  <1>9. Typed'
    <2>1. sent' \in [Mezz -> 0 .. 3 * NEvents]
      <3>1. sent[m] + 1 \in 0 .. 3 * NEvents
        BY <1>1, Sizes
      <3> QED BY <3>1 DEF Typed
    <2>2. previousData' \in [Mezz -> Words \cup {NoWord}]
      <3>1. WordOf(m, e, r) \in Words
        BY <1>1, WordOfFacts
      <3> QED BY <3>1 DEF Typed
    <2>3. slots' \in [Slots -> SlotRecord]
      BY <1>2 DEF Typed
    <2>4. evtWRBuf' \in [Mezz -> Slots]
      BY <1>2 DEF Typed
    <2> QED BY <2>1, <2>2, <2>3, <2>4 DEF Typed
  <1> QED BY <1>4, <1>5, <1>6, <1>7, <1>8, <1>9 DEF Ring

\* The slot a card writes is that of its event, as long as the event is in the window.
LEMMA OwnSlot ==
    ASSUME Typed, Ring, NEW m \in Mezz, NEW e \in Events, NEW r \in 0..2,
           sent[m] = 3 * e + r, e < Len(built) + NSlots
    PROVE  /\ evtWRBuf[m] = e % NSlots /\ e % NSlots \in Slots
           /\ Holds(slots[e % NSlots], e, sent)
           /\ slots[e % NSlots] \in SlotRecord
           /\ ((e % NSlots) + 0) % NSlots = e % NSlots
           /\ r > 0 => ~slots[e % NSlots].bufEmpty
  <1>1. e \in Nat /\ e \in Int /\ 0 \in Int
    BY DEF Events
  <1>2. Len(built) \in Nat /\ Len(built) <= e /\ Done(m) = e
    BY <1>1, NextEvent DEF Ring
  <1>3. evtWRBuf[m] = e % NSlots
    BY <1>2 DEF Ring, Pointers
  <1>4. Holds(slots[e % NSlots], e, sent)
    <2>1. e \in Len(built) .. Len(built) + NSlots - 1
      BY <1>1, <1>2, Sizes
    <2> QED BY <2>1 DEF Ring, Window
  <1>5. e % NSlots \in Slots /\ slots[e % NSlots] \in SlotRecord
    <2>1. e % NSlots \in Slots
      BY <1>1, PlaceInRing
    <2> QED BY <2>1 DEF Typed
  <1>6. ((e % NSlots) + 0) % NSlots = (e + 0) % NSlots
    BY <1>1, Sizes, ModAdd
  <1>7. e + 0 = e
    BY <1>1
  <1>8. r > 0 => ~slots[e % NSlots].bufEmpty
    <2>1. r > 0 => ~(sent[m] <= 3 * e)
      BY <1>1
    <2> QED BY <2>1, <1>4 DEF Holds
  <1> QED BY <1>3, <1>4, <1>5, <1>6, <1>7, <1>8

\* A card that is the whole ring ahead finds no slot for its header.
LEMMA FullRing ==
    ASSUME Typed, Ring, NEW m \in Mezz, NEW e \in Events, sent[m] = 3 * e,
           e = Len(built) + NSlots
    PROVE  Places(m, Evid(e)) = {}
  <1>1. Len(built) \in Nat /\ e \in Nat
    BY DEF Typed, Events
  <1>2. evtWRBuf[m] = Len(built) % NSlots
    <2>1. Done(m) = e
      <3>1. 0 \in 0..2 /\ sent[m] = 3 * e + 0
        BY <1>1
      <3> QED BY <3>1, <1>1, NextEvent DEF Ring
    <2>2. (Len(built) + NSlots) % NSlots = Len(built) % NSlots
      <3>1. Len(built) \in Int
        BY <1>1
      <3> QED BY <3>1, Sizes, ModPeriod
    <2> QED BY <2>1, <2>2 DEF Ring, Pointers
  <1> SUFFICES ASSUME NEW k \in Slots
               PROVE  LET slot == slots[(evtWRBuf[m] + k) % NSlots]
                      IN  ~(slot.bufEmpty \/ slot.bufEVID = Evid(e))
    BY DEF Places
  <1>3. k \in Nat /\ k < NSlots
    BY Sizes DEF Slots
  <1> DEFINE f == Len(built) + k
  <1>4. f \in Nat /\ f \in Len(built) .. Len(built) + NSlots - 1 /\ f < e /\ e - f <= NSlots
    BY <1>1, <1>3, Sizes
  <1>5. (evtWRBuf[m] + k) % NSlots = f % NSlots
    <2>1. Len(built) \in Int /\ k \in Int
      BY <1>1, <1>3
    <2> QED BY <2>1, <1>2, Sizes, ModAdd
  <1> HIDE DEF f
  <1>6. Holds(slots[f % NSlots], f, sent)
    BY <1>4 DEF Ring, Window
  <1>7. ~slots[f % NSlots].bufEmpty
    <2>1. ~(sent[m] <= 3 * f)
      BY <1>1, <1>4
    <2> QED BY <2>1, <1>6 DEF Holds
  <1>8. slots[f % NSlots].bufEVID # Evid(e)
    BY <1>1, <1>4, <1>6, <1>7, Apart DEF Holds
  <1> QED BY <1>5, <1>7, <1>8

\* A header whose event is in the window opens or joins the slot of its event.
LEMMA HeaderStep ==
    ASSUME Typed, Ring, NEW m \in Mezz, NEW e \in Events, sent[m] = 3 * e,
           PlaceHeader(Word(m, "header", e)),
           sent' = [sent EXCEPT ![m] = @ + 1], UNCHANGED <<lost, repeated, faults>>
    PROVE  Typed' /\ Ring' /\ DAQState' = DAQState
  <1> DEFINE w == Word(m, "header", e)
             P == Places(w.mezz, Evid(w.event))
             k == CHOOSE p \in P : \A q \in P : p <= q
             s == (evtWRBuf[w.mezz] + k) % NSlots
             opened == IF slots[s].bufEmpty THEN Opened(slots[s], Evid(w.event)) ELSE slots[s]
             noted == [opened EXCEPT !.gotHeader = @ \cup {w.mezz}]
             new == Stored(noted, w)
  <1>1. e \in Nat /\ sent[m] = 3 * e + 0 /\ 0 \in 0..2 /\ 0 \in 0..1
    BY DEF Events
  <1>2. w \in Words /\ w.mezz = m /\ w.event = e /\ w = WordOf(m, e, 0)
    BY <1>1, WordOfFacts
  <1> HIDE DEF w
  <1>3. /\ P # {}
        /\ evtWRBuf' = [evtWRBuf EXCEPT ![w.mezz] = s]
        /\ slots' = [slots EXCEPT ![s] = new]
        /\ previousData' = [previousData EXCEPT ![w.mezz] = w]
        /\ UNCHANGED <<evtRDBuf, built, DAQState>>
    <2>1. PlaceHeader(w)
      BY DEF w
    <2> QED BY <2>1 DEF PlaceHeader
  <1>4. e < Len(built) + NSlots
    BY <1>1, <1>2, <1>3, FullRing, NextEvent DEF Ring
  <1>5. /\ evtWRBuf[m] = e % NSlots /\ e % NSlots \in Slots
        /\ Holds(slots[e % NSlots], e, sent) /\ slots[e % NSlots] \in SlotRecord
        /\ ((e % NSlots) + 0) % NSlots = e % NSlots
    BY <1>1, <1>4, OwnSlot
  <1>6. k = 0
    <2>1. 0 \in P
      <3>1. 0 \in Slots
        BY Sizes DEF Slots
      <3> QED BY <3>1, <1>2, <1>5 DEF Places, Holds
    <2>2. P \subseteq Nat
      BY Sizes DEF Places, Slots
    <2> HIDE DEF P
    <2>3. k \in P /\ \A q \in P : k <= q
      <3>1. \A q \in P : 0 <= q
        BY <2>2
      <3>2. \E p \in P : \A q \in P : p <= q
        BY <2>1, <3>1
      <3> QED BY <3>2, Zenon
    <2> HIDE DEF k
    <2> QED BY <2>1, <2>2, <2>3
  <1>7. s = e % NSlots
    BY <1>2, <1>5, <1>6
  <1> HIDE DEF k, s, P
  <1>8. opened \in SlotRecord /\ opened.bufEmpty = FALSE /\ opened.bufEVID = Evid(e)
        /\ opened.gotTrailer = slots[s].gotTrailer /\ opened.eventBuf = slots[s].eventBuf
    <2>1. CASE slots[s].bufEmpty
      BY <2>1, <1>1, <1>2, <1>5, <1>7, EvidRange, OpenedFields
    <2>2. CASE ~slots[s].bufEmpty
      <3>1. slots[s].bufEmpty = FALSE
        BY <2>2, <1>5, <1>7 DEF SlotRecord
      <3> QED BY <3>1, <1>5, <1>7 DEF Holds
    <2> QED BY <2>1, <2>2
  <1> HIDE DEF opened
  <1>9. noted \in SlotRecord /\ noted.bufEmpty = FALSE /\ noted.bufEVID = Evid(e)
        /\ noted.gotTrailer = slots[s].gotTrailer /\ noted.eventBuf = slots[s].eventBuf
    BY <1>2, <1>8, HeaderFields
  <1> HIDE DEF noted
  <1>10. new \in SlotRecord /\ new.bufEmpty = FALSE /\ new.bufEVID = Evid(e)
         /\ new.gotTrailer = slots[s].gotTrailer
         /\ new.eventBuf = [slots[s].eventBuf EXCEPT ![m] = Append(@, w)]
    <2>1. /\ Stored(noted, w) \in SlotRecord
          /\ Stored(noted, w).bufEmpty = noted.bufEmpty
          /\ Stored(noted, w).bufEVID = noted.bufEVID
          /\ Stored(noted, w).gotTrailer = noted.gotTrailer
          /\ Stored(noted, w).eventBuf = [noted.eventBuf EXCEPT ![m] = Append(@, w)]
      BY ONLY <1>2, <1>9, m \in Mezz, StoredFields
    <2> QED BY ONLY <1>9, <2>1
  <1> HIDE DEF new
  <1>11. Extends(new, slots[e % NSlots], m, e, 0)
    BY <1>2, <1>7, <1>10 DEF Extends
  <1> QED BY <1>1, <1>2, <1>3, <1>4, <1>7, <1>10, <1>11, QuietStep

\* A hit follows its header.
LEMMA HitStep ==
    ASSUME Typed, Ring, NEW m \in Mezz, NEW e \in Events, sent[m] = 3 * e + 1,
           PlaceHit(Word(m, "hit", e)),
           sent' = [sent EXCEPT ![m] = @ + 1], UNCHANGED <<lost, repeated, faults>>
    PROVE  Typed' /\ Ring' /\ DAQState' = DAQState
  <1> DEFINE w == Word(m, "hit", e)
             s == evtWRBuf[m]
             slot == slots[s]
             new == Stored(slot, w)
  <1>1. e \in Nat /\ 1 \in 0..2 /\ 1 \in 0..1
    BY DEF Events
  <1>2. w \in Words /\ w.mezz = m /\ w.event = e /\ w = WordOf(m, e, 1)
    BY <1>1, WordOfFacts
  <1> HIDE DEF w
  <1>3. e < Len(built) + NSlots
    BY <1>1, NextEvent DEF Ring
  <1>4. /\ s = e % NSlots /\ e % NSlots \in Slots
        /\ Holds(slots[e % NSlots], e, sent) /\ slots[e % NSlots] \in SlotRecord
        /\ ~slots[s].bufEmpty
    BY <1>1, <1>3, OwnSlot
  <1>5. /\ slots' = [slots EXCEPT ![s] = new]
        /\ previousData' = [previousData EXCEPT ![m] = w]
        /\ UNCHANGED <<evtWRBuf, evtRDBuf, built, DAQState>>
    <2>1. PlaceHit(w)
      BY DEF w
    <2> QED BY <2>1, <1>2, <1>4 DEF PlaceHit
  <1>6. evtWRBuf' = [evtWRBuf EXCEPT ![m] = e % NSlots]
    BY <1>4, <1>5 DEF Typed
  <1>7. slot \in SlotRecord /\ slot.bufEmpty = FALSE /\ slot.bufEVID = Evid(e)
    BY <1>4 DEF SlotRecord, Holds
  <1> HIDE DEF s, slot
  <1>8. new \in SlotRecord /\ new.bufEmpty = FALSE /\ new.bufEVID = Evid(e)
        /\ new.gotTrailer = slot.gotTrailer
        /\ new.eventBuf = [slot.eventBuf EXCEPT ![m] = Append(@, w)]
    BY <1>2, <1>7, StoredFields
  <1> HIDE DEF new
  <1>9. Extends(new, slots[e % NSlots], m, e, 1)
    BY <1>2, <1>4, <1>8 DEF Extends, slot
  <1> QED BY <1>1, <1>2, <1>3, <1>4, <1>5, <1>6, <1>8, <1>9, QuietStep

\* A trailer is stored in the slot of its event and noted there.
LEMMA TrailerInSlot ==
    ASSUME Typed, Ring, NEW m \in Mezz, NEW e \in Events, sent[m] = 3 * e + 2,
           NEW w, w = Word(m, "trailer", e)
    PROVE  /\ TrailerSlot(w) \in SlotRecord
           /\ Extends(TrailerSlot(w), slots[e % NSlots], m, e, 2)
           /\ previousData[m] # w
  <1>1. e \in Nat /\ 2 \in 0..2
    BY DEF Events
  <1>2. w \in Words /\ w.mezz = m /\ w.event = e /\ w.kind = "trailer" /\ w = WordOf(m, e, 2)
    BY <1>1, WordOfFacts
  <1>3. e < Len(built) + NSlots
    BY <1>1, NextEvent DEF Ring
  <1>4. /\ evtWRBuf[m] = e % NSlots
        /\ Holds(slots[e % NSlots], e, sent) /\ slots[e % NSlots] \in SlotRecord
        /\ ~slots[e % NSlots].bufEmpty
    BY <1>1, <1>3, OwnSlot
  <1>5. previousData[m].kind = "hit"
    <2>1. (3 * e + 2) % 3 = 2
      BY <1>1
    <2> QED BY <2>1 DEF Ring, HitFirst
  <1> DEFINE slot == slots[e % NSlots]
             noted == Noted(slot, m)
             new == Stored(noted, w)
  <1>6. TrailerSlot(w) = new
    BY <1>2, <1>4 DEF TrailerSlot
  <1>7. slot \in SlotRecord /\ slot.bufEmpty = FALSE /\ slot.bufEVID = Evid(e)
    BY <1>4 DEF SlotRecord, Holds
  <1> HIDE DEF slot
  <1>8. noted \in SlotRecord /\ noted.bufEmpty = FALSE /\ noted.bufEVID = Evid(e)
        /\ noted.gotTrailer = slot.gotTrailer \cup {m} /\ noted.eventBuf = slot.eventBuf
    BY <1>7, NotedFields
  <1> HIDE DEF noted
  <1>9. new \in SlotRecord /\ new.bufEmpty = FALSE /\ new.bufEVID = Evid(e)
        /\ new.gotTrailer = slot.gotTrailer \cup {m}
        /\ new.eventBuf = [slot.eventBuf EXCEPT ![m] = Append(@, w)]
    BY <1>2, <1>8, StoredFields
  <1> HIDE DEF new
  <1>10. Extends(new, slot, m, e, 2)
    BY <1>2, <1>9 DEF Extends
  <1> QED BY <1>2, <1>5, <1>6, <1>9, <1>10 DEF slot

\* What a trailer changes whether or not it completes its event.
LEMMA TrailerSent ==
    ASSUME Typed, Ring, NEW m \in Mezz, NEW e \in Events, sent[m] = 3 * e + 2,
           sent' = [sent EXCEPT ![m] = @ + 1],
           evtWRBuf' = [evtWRBuf EXCEPT ![m] = NextSlot(e % NSlots)],
           previousData' = [previousData EXCEPT ![m] = Word(m, "trailer", e)]
    PROVE  /\ sent' \in [Mezz -> 0 .. 3 * NEvents] /\ evtWRBuf' \in [Mezz -> Slots]
           /\ previousData' \in [Mezz -> Words \cup {NoWord}]
           /\ sent'[m] = 3 * e + 3 /\ \A x \in Mezz : x # m => sent'[x] = sent[x]
           /\ \A x \in Mezz : evtWRBuf'[x] = Done(x)' % NSlots
           /\ HitFirst'
  <1>1. e \in Nat /\ e < NEvents
    BY Sizes DEF Events
  <1>2. sent'[m] = 3 * e + 3 /\ \A x \in Mezz : x # m => sent'[x] = sent[x]
    BY <1>1 DEF Typed
  <1>3. sent' \in [Mezz -> 0 .. 3 * NEvents]
    <2>1. sent[m] + 1 \in 0 .. 3 * NEvents
      BY <1>1, Sizes
    <2> QED BY <2>1 DEF Typed
  <1>4. NextSlot(e % NSlots) = (e + 1) % NSlots /\ NextSlot(e % NSlots) \in Slots
    BY <1>1, NextPlace, PlaceInRing
  <1>5. evtWRBuf' \in [Mezz -> Slots]
    BY <1>4 DEF Typed
  <1>6. previousData' \in [Mezz -> Words \cup {NoWord}]
    <2>1. Word(m, "trailer", e) \in Words
      BY WordTyped DEF Kinds
    <2> QED BY <2>1 DEF Typed
  <1>7. ASSUME NEW x \in Mezz PROVE evtWRBuf'[x] = Done(x)' % NSlots
    <2>1. CASE x = m
      <3>1. (3 * e + 3) \div 3 = e + 1
        BY <1>1
      <3>2. Done(m)' = e + 1
        BY <1>2, <3>1 DEF Done
      <3>3. evtWRBuf'[m] = NextSlot(e % NSlots)
        BY DEF Typed
      <3> QED BY <1>4, <2>1, <3>2, <3>3
    <2>2. CASE x # m
      <3>1. evtWRBuf'[x] = evtWRBuf[x] /\ Done(x)' = Done(x)
        BY <1>2, <2>2 DEF Typed, Done
      <3> QED BY <3>1 DEF Ring, Pointers
    <2> QED BY <2>1, <2>2
  <1>8. HitFirst'
    <2> SUFFICES ASSUME NEW x \in Mezz, sent'[x] % 3 = 2 PROVE previousData'[x].kind = "hit"
      BY DEF HitFirst
    <2>1. (3 * e + 3) % 3 # 2
      BY <1>1
    <2>2. x # m
      BY <1>2, <2>1
    <2>3. sent'[x] = sent[x] /\ previousData'[x] = previousData[x]
      BY <1>2, <2>2 DEF Typed
    <2> QED BY <2>3 DEF Ring, HitFirst
  <1> QED BY <1>2, <1>3, <1>5, <1>6, <1>7, <1>8

\* The trailers in a slot after trailer e of card m: complete or not.
LEMMA TrailerCount ==
    ASSUME Typed, Ring, NEW m \in Mezz, NEW e \in Events, sent[m] = 3 * e + 2,
           sent' = [sent EXCEPT ![m] = @ + 1],
           NEW new, Extends(new, slots[e % NSlots], m, e, 2)
    PROVE  /\ Holds(new, e, sent')
           /\ Complete(new) => e = Len(built) /\ \A x \in Mezz : sent'[x] >= 3 * e + 3
           /\ ~Complete(new) => \E x \in Mezz : sent'[x] < 3 * Len(built) + 3
  <1>1. e \in Nat /\ 2 \in 0..2 /\ sent \in [Mezz -> Nat]
    BY Sizes DEF Events, Typed
  <1>2. Len(built) \in Nat /\ Len(built) <= e /\ e < Len(built) + NSlots
    BY <1>1, NextEvent DEF Ring
  <1>3. Holds(slots[e % NSlots], e, sent)
    BY <1>1, <1>2, OwnSlot
  <1>4. Holds(new, e, sent')
    BY <1>1, <1>3, StillHolds
  <1>5. /\ \A x \in Mezz : sent'[x] \in Nat
        /\ sent'[m] = 3 * e + 3 /\ \A x \in Mezz : x # m => sent'[x] = sent[x]
    BY <1>1
  <1>6. PICK n \in Mezz : sent[n] < 3 * Len(built) + 3
    BY DEF Ring, Spread
  <1>7. ASSUME Complete(new) PROVE e = Len(built) /\ \A x \in Mezz : sent'[x] >= 3 * e + 3
    <2>1. \A x \in Mezz : sent'[x] >= 3 * e + 3
      BY <1>4, <1>7 DEF Holds, Complete
    <2>2. n = m
      BY <1>1, <1>2, <1>5, <1>6, <2>1
    <2> QED BY <1>1, <1>2, <1>6, <2>1, <2>2
  <1>8. ASSUME ~Complete(new) PROVE \E x \in Mezz : sent'[x] < 3 * Len(built) + 3
    <2>1. PICK x \in Mezz : ~(sent'[x] >= 3 * e + 3)
      BY <1>4, <1>8 DEF Holds, Complete
    <2>2. CASE n = m
      <3>1. e = Len(built)
        BY <1>1, <1>2, <1>6, <2>2
      <3> QED BY <1>1, <1>5, <2>1, <3>1
    <2>3. CASE n # m
      BY <1>5, <1>6, <2>3
    <2> QED BY <2>2, <2>3
  <1> QED BY <1>4, <1>7, <1>8

\* A trailer that leaves others to come.
LEMMA TrailerWaits ==
    ASSUME Typed, Ring, NEW m \in Mezz, NEW e \in Events, sent[m] = 3 * e + 2,
           NEW new \in SlotRecord, Extends(new, slots[e % NSlots], m, e, 2), ~Complete(new),
           slots' = [slots EXCEPT ![e % NSlots] = new],
           sent' = [sent EXCEPT ![m] = @ + 1],
           evtWRBuf' = [evtWRBuf EXCEPT ![m] = NextSlot(e % NSlots)],
           previousData' = [previousData EXCEPT ![m] = Word(m, "trailer", e)],
           UNCHANGED <<evtRDBuf, built, DAQState, lost, repeated, faults>>
    PROVE  Typed' /\ Ring'
  <1>1. e \in Nat /\ 2 \in 0..2 /\ e % NSlots \in Slots
    BY Sizes, PlaceInRing DEF Events
  <1>2. Len(built) \in Nat /\ Len(built) <= e /\ e < Len(built) + NSlots
    BY <1>1, NextEvent DEF Ring
  <1>3. /\ sent' \in [Mezz -> 0 .. 3 * NEvents] /\ evtWRBuf' \in [Mezz -> Slots]
        /\ previousData' \in [Mezz -> Words \cup {NoWord}]
        /\ sent'[m] = 3 * e + 3 /\ \A x \in Mezz : x # m => sent'[x] = sent[x]
        /\ \A x \in Mezz : evtWRBuf'[x] = Done(x)' % NSlots
        /\ HitFirst'
    BY TrailerSent
  <1>4. Window'
    <2>1. e \in Len(built) .. Len(built) + NSlots - 1
      BY <1>1, <1>2, Sizes
    <2> QED BY <2>1, <1>1, WindowStep DEF Ring
  <1>5. Pointers'
    BY <1>3 DEF Ring, Pointers
  <1>6. Spread'
    <2>1. \A x \in Mezz : 3 * Len(built) <= sent'[x] /\ sent'[x] <= 3 * (Len(built) + NSlots)
      <3> TAKE x \in Mezz
      <3>1. CASE x = m
        BY <1>1, <1>2, <1>3, <3>1, Sizes
      <3>2. CASE x # m
        BY <1>3, <3>2 DEF Ring, Spread
      <3> QED BY <3>1, <3>2
    <2>2. \E x \in Mezz : sent'[x] < 3 * Len(built) + 3
      BY TrailerCount
    <2> QED BY <2>1, <2>2 DEF Spread
  <1>7. AllWhole'
    BY DEF Ring, AllWhole, WholeEvent
  <1>8. slots' \in [Slots -> SlotRecord]
    BY <1>1 DEF Typed
  <1>9. Typed'
    BY <1>3, <1>8 DEF Typed
  <1> QED BY <1>3, <1>4, <1>5, <1>6, <1>7, <1>9 DEF Ring

\* The last trailer of an event: it is the event at evtRDBuf, no older slot is
\* forced out, and its slot becomes that of the event a ring ahead.
LEMMA TrailerCompletes ==
    ASSUME Typed, Ring, NEW m \in Mezz, NEW e \in Events, sent[m] = 3 * e + 2,
           NEW new \in SlotRecord, Extends(new, slots[e % NSlots], m, e, 2), Complete(new),
           Emit(e % NSlots, new, Evid(e)),
           sent' = [sent EXCEPT ![m] = @ + 1],
           evtWRBuf' = [evtWRBuf EXCEPT ![m] = NextSlot(e % NSlots)],
           previousData' = [previousData EXCEPT ![m] = Word(m, "trailer", e)],
           UNCHANGED <<DAQState, lost, repeated, faults>>
    PROVE  Typed' /\ Ring'
  <1> DEFINE B == Len(built)
             s == e % NSlots
             event == [evid |-> Evid(e), words |-> new.eventBuf, forced |-> FALSE]
             cleared == [EmptySlot EXCEPT !.bufEVID = slots[s].bufEVID]
  <1>1. e \in Nat /\ s \in Slots /\ B \in Nat
    BY Sizes, PlaceInRing DEF Events, Typed
  <1>2. e = B /\ Holds(new, e, sent') /\ \A x \in Mezz : sent'[x] >= 3 * e + 3
    BY TrailerCount
  <1>3. /\ sent' \in [Mezz -> 0 .. 3 * NEvents] /\ evtWRBuf' \in [Mezz -> Slots]
        /\ previousData' \in [Mezz -> Words \cup {NoWord}]
        /\ sent'[m] = 3 * e + 3 /\ \A x \in Mezz : x # m => sent'[x] = sent[x]
        /\ \A x \in Mezz : evtWRBuf'[x] = Done(x)' % NSlots
        /\ HitFirst'
    BY TrailerSent
  <1>4. evtRDBuf = s /\ (s - evtRDBuf) % NSlots = 0
    <2>1. evtRDBuf = s
      BY <1>2 DEF Ring, Pointers
    <2>2. e \in Int /\ e <= e /\ e - e < NSlots /\ e - e = 0
      BY <1>1, Sizes
    <2>3. (s - s) % NSlots = 0
      BY <2>2, Sizes, ModDistance
    <2> QED BY <2>1, <2>3
  <1>5. built' = Append(built, event)
    <2>1. built' = Append(built \o ForcedOut(0), event)
      BY <1>4 DEF Emit
    <2>2. ForcedOut(0) = <<>>
      BY DEF ForcedOut
    <2>3. built \o <<>> = built
      BY DEF Typed
    <2> QED BY <2>1, <2>2, <2>3
  <1>6. \A t \in Slots : slots'[t] = IF t = s THEN cleared ELSE slots[t]
    <2> SUFFICES ASSUME NEW t \in Slots
                 PROVE  slots'[t] = IF t = s THEN cleared ELSE slots[t]
      OBVIOUS
    <2>1. slots'[t] = IF (t - evtRDBuf) % NSlots <= 0
                      THEN [EmptySlot EXCEPT !.bufEVID = slots[t].bufEVID] ELSE slots[t]
      BY <1>4 DEF Emit
    <2>2. (t - s) % NSlots <= 0 => t = s
      <3>1. t - s \in Int /\ s \in Int /\ t \in Int /\ t \in 0 .. NSlots - 1 /\ s \in 0 .. NSlots - 1
        BY <1>1, Sizes DEF Slots
      <3> HIDE DEF s
      <3>2. /\ (t - s) % NSlots \in 0 .. NSlots - 1 /\ (t - s) \div NSlots \in Int
            /\ t - s = NSlots * ((t - s) \div NSlots) + ((t - s) % NSlots)
        BY <3>1, Sizes, Division
      <3>3. ASSUME (t - s) % NSlots <= 0 PROVE t = s
        <4>1. NSlots * ((t - s) \div NSlots) + s = NSlots * 0 + t
          BY <3>1, <3>2, <3>3, Sizes
        <4> QED BY <3>1, <3>2, <4>1, Sizes, Unique, 0 \in Int
      <3> QED BY <3>3
    <2> QED BY <1>4, <2>1, <2>2
  <1>7. evtRDBuf' = (B + 1) % NSlots
    BY <1>1, <1>2, NextPlace DEF Emit
  <1>8. /\ event \in BuiltEvent
        /\ event.evid = Evid(e) /\ event.words = new.eventBuf /\ event.forced = FALSE
    BY <1>1, EvidRange DEF BuiltEvent, SlotRecord
  <1>9. cleared \in SlotRecord /\ cleared.bufEmpty = TRUE /\ cleared.gotTrailer = {}
        /\ cleared.eventBuf = NoWords
    <2>1. slots[s].bufEVID \in 0 .. EvidMod - 1
      BY <1>1 DEF Typed, SlotRecord
    <2>2. NoWords \in [Mezz -> Seq(Words)]
      BY DEF NoWords
    <2> QED BY <2>1, <2>2 DEF EmptySlot, SlotRecord
  <1> HIDE DEF event, cleared
  <1>10. /\ built' \in Seq(BuiltEvent) /\ Len(built') = B + 1
         /\ \A k \in 1..B : built'[k] = built[k]
         /\ built'[B + 1] = event
    BY <1>5, <1>8 DEF Typed
  <1>11. AllWhole'
    <2> SUFFICES ASSUME NEW k \in 1 .. B + 1
                 PROVE  WholeEvent(built'[k], k - 1) /\ ~built'[k].forced
      BY <1>10 DEF AllWhole, WholeEvent
    <2>1. CASE k \in 1..B
      BY <1>10, <2>1 DEF Ring, AllWhole
    <2>2. CASE k = B + 1
      <3>1. k - 1 = e
        BY <1>1, <1>2, <2>2
      <3>2. \A x \in Mezz : new.eventBuf[x] = Fragment(x, e)
        <4> TAKE x \in Mezz
        <4>1. sent'[x] \in Nat /\ sent'[x] >= 3 * e + 3
          BY <1>2, <1>3, Sizes
        <4>2. Arrived(x, e, sent'[x]) = Fragment(x, e)
          BY <1>1, <4>1, ArrivedWords
        <4> QED BY <1>2, <4>2 DEF Holds
      <3> QED BY <1>8, <1>10, <2>2, <3>1, <3>2 DEF WholeEvent
    <2> QED BY <1>1, <2>1, <2>2
  <1>12. Spread'
    <2>1. \A x \in Mezz : 3 * (B + 1) <= sent'[x] /\ sent'[x] <= 3 * (B + NSlots)
      <3> TAKE x \in Mezz
      <3>1. CASE x = m
        BY <1>1, <1>2, <1>3, <3>1, Sizes
      <3>2. CASE x # m
        BY <1>1, <1>2, <1>3, <3>2, Sizes DEF Ring, Spread
      <3> QED BY <3>1, <3>2
    <2>2. \A x \in Mezz : sent'[x] <= 3 * (B + 1 + NSlots)
      <3> TAKE x \in Mezz
      <3>1. sent'[x] <= 3 * (B + NSlots) /\ sent'[x] \in Nat
        BY <1>3, <2>1, Sizes
      <3> QED BY <3>1, <1>1, Sizes
    <2>3. sent'[m] < 3 * (B + 1) + 3
      BY <1>1, <1>2, <1>3
    <2> QED BY <1>10, <2>1, <2>2, <2>3 DEF Spread
  <1>13. Window'
    <2> SUFFICES ASSUME NEW f \in Nat, f \in B + 1 .. B + NSlots
                 PROVE  Holds(slots'[f % NSlots], f, sent')
      <3>1. \A f \in Len(built') .. Len(built') + NSlots - 1 : f \in Nat /\ f \in B + 1 .. B + NSlots
        BY <1>1, <1>10, Sizes
      <3> QED BY <3>1 DEF Window, Holds
    <2>1. CASE f < B + NSlots
      <3>1. f % NSlots # s /\ f % NSlots \in Slots
        BY <1>1, <1>2, <2>1, Apart, PlaceInRing, Sizes
      <3>2. Holds(slots[f % NSlots], f, sent)
        <4>1. f \in B .. B + NSlots - 1
          BY <1>1, <2>1, Sizes
        <4> QED BY <4>1 DEF Ring, Window
      <3>3. Holds(slots[f % NSlots], f, sent')
        <4>1. sent \in [Mezz -> Nat] /\ f # e /\ 2 \in 0..2
          BY <1>1, <1>2, Sizes DEF Typed
        <4> QED BY <1>1, <3>2, <4>1, OthersHold
      <3> QED BY <1>6, <3>1, <3>3
    <2>2. CASE f = B + NSlots
      <3>1. f % NSlots = s
        <4>1. B \in Int
          BY <1>1
        <4> QED BY <1>2, <2>2, <4>1, Sizes, ModPeriod
      <3>2. \A x \in Mezz : sent'[x] \in Nat /\ sent'[x] <= 3 * f
        <4> TAKE x \in Mezz
        <4>1. CASE x = m
          BY <1>1, <1>2, <1>3, <2>2, <4>1, Sizes
        <4>2. CASE x # m
          BY <1>1, <1>3, <2>2, <4>2, Sizes DEF Ring, Spread, Typed
        <4> QED BY <4>1, <4>2
      <3>3. \A x \in Mezz : Arrived(x, f, sent'[x]) = <<>> /\ ~(sent'[x] >= 3 * f + 3)
        BY <3>2 DEF Arrived
      <3>4. Holds(cleared, f, sent')
        <4>1. cleared.gotTrailer = {x \in Mezz : sent'[x] >= 3 * f + 3}
          BY <1>9, <3>3
        <4>2. cleared.eventBuf = [x \in Mezz |-> Arrived(x, f, sent'[x])]
          BY <1>9, <3>3 DEF NoWords
        <4> QED BY <1>9, <3>2, <4>1, <4>2 DEF Holds
      <3> QED BY <1>1, <1>6, <3>1, <3>4
    <2> QED BY <1>1, <2>1, <2>2, Sizes
  <1>14. Pointers'
    BY <1>3, <1>7, <1>10 DEF Pointers
  <1>15. Typed'
    <2>1. slots' \in [Slots -> SlotRecord]
      <3>1. slots' = [t \in Slots |-> slots'[t]]
        BY DEF Emit
      <3>2. \A t \in Slots : slots'[t] \in SlotRecord
        BY <1>6, <1>9 DEF Typed
      <3> QED BY <3>1, <3>2
    <2>2. evtRDBuf' \in Slots
      <3>1. B + 1 \in Nat
        BY <1>1
      <3> QED BY <1>7, <3>1, PlaceInRing
    <2> QED BY <1>3, <1>10, <2>1, <2>2 DEF Typed
  <1> QED BY <1>3, <1>11, <1>12, <1>13, <1>14, <1>15 DEF Ring

\* The builder gives up only on the header of a card that is a whole ring ahead.
LEMMA StopStep ==
    ASSUME IInv, Ring, NEW m \in Mezz, NEW e \in Events, sent[m] = 3 * e,
           TooManyEvents(Word(m, "header", e)),
           sent' = [sent EXCEPT ![m] = @ + 1], UNCHANGED <<lost, repeated, faults>>
    PROVE  IInv'
  <1> DEFINE w == Word(m, "header", e)
  <1>1. e \in Nat /\ e < NEvents /\ sent[m] = 3 * e + 0 /\ 0 \in 0..2 /\ Typed
    BY Sizes DEF Events, IInv
  <1>2. w.mezz = m /\ w.event = e
    BY <1>1, WordTyped DEF Kinds
  <1> HIDE DEF w
  <1>3. /\ Places(m, Evid(e)) = {}
        /\ evtWRBuf' = [evtWRBuf EXCEPT ![m] = NextSlot(@)]
        /\ DAQState' = "Idle"
        /\ UNCHANGED <<previousData, slots, evtRDBuf, built>>
    <2>1. TooManyEvents(w)
      BY DEF w
    <2> QED BY <2>1, <1>2 DEF TooManyEvents
  <1>4. e = Len(built) + NSlots /\ Done(m) = e /\ Len(built) \in Nat
    <2>1. ~(e < Len(built) + NSlots)
      <3> SUFFICES ASSUME e < Len(built) + NSlots PROVE FALSE
        OBVIOUS
      <3>1. /\ evtWRBuf[m] = e % NSlots /\ Holds(slots[e % NSlots], e, sent)
            /\ ((e % NSlots) + 0) % NSlots = e % NSlots
        BY <1>1, OwnSlot
      <3>2. 0 \in Slots
        BY Sizes DEF Slots
      <3>3. 0 \in Places(m, Evid(e))
        BY <3>1, <3>2 DEF Places, Holds
      <3> QED BY <1>3, <3>3
    <2> QED BY <1>1, <2>1, NextEvent DEF Ring
  <1>5. sent' \in [Mezz -> 0 .. 3 * NEvents] /\ sent'[m] = 3 * e + 1
        /\ \A x \in Mezz : x # m => sent'[x] = sent[x]
    <2>1. sent[m] + 1 \in 0 .. 3 * NEvents
      BY <1>1, Sizes
    <2> QED BY <1>1, <2>1 DEF Typed
  <1>6. \A x \in Mezz : Done(x)' = Done(x)
    <2>1. (3 * e + 1) \div 3 = e
      BY <1>1
    <2> QED BY <1>4, <1>5, <2>1 DEF Done
  <1>7. BuildsInOrder'
    BY <1>3, <1>6 DEF IInv, BuildsInOrder, WholeEvent
  <1>8. SlotsNotShared'
    BY <1>3 DEF IInv, SlotsNotShared, EventsIn
  <1>9. StopsOnlyWhenFull'
    <2>1. PICK n \in Mezz : sent[n] < 3 * Len(built) + 3
      BY DEF Ring, Spread
    <2>2. sent[n] \in Nat /\ 3 * Len(built) <= sent[n]
      BY <1>1, Sizes DEF Ring, Spread, Typed
    <2>3. Done(n) = Len(built)
      BY <1>4, <2>1, <2>2, Thirds DEF Done
    <2>4. Done(m)' - Done(n)' >= NSlots
      BY <1>4, <1>6, <2>3, Sizes
    <2> QED BY <2>4 DEF StopsOnlyWhenFull, Ahead
  <1>10. Typed'
    <2>1. NextSlot(evtWRBuf[m]) \in Slots
      <3>1. evtWRBuf[m] + 1 \in Nat
        BY <1>1, Sizes DEF Typed, Slots
      <3> QED BY <3>1, PlaceInRing DEF NextSlot
    <2>2. evtWRBuf' \in [Mezz -> Slots]
      BY <1>1, <1>3, <2>1 DEF Typed
    <2> QED BY <1>1, <1>3, <1>5, <2>2 DEF Typed
  <1> QED BY <1>3, <1>7, <1>8, <1>9, <1>10 DEF IInv

\* Every word that arrives.
LEMMA DeliverStep ==
    ASSUME IInv, NEW m \in Mezz, Deliver(m)
    PROVE  IInv'
  <1>1. /\ DAQState = "Running" /\ sent[m] < 3 * NEvents
        /\ Assemble(NthWord(m, sent[m]))
        /\ sent' = [sent EXCEPT ![m] = @ + 1]
        /\ UNCHANGED <<lost, repeated, faults>>
    BY DEF Deliver
  <1>2. Typed /\ Ring /\ sent[m] \in 0 .. 3 * NEvents
    BY <1>1 DEF IInv, Typed
  <1>3. PICK e \in Events : \E r \in 0..2 :
           /\ sent[m] = 3 * e + r
           /\ r = 0 => NthWord(m, sent[m]) = Word(m, "header", e)
           /\ r = 1 => NthWord(m, sent[m]) = Word(m, "hit", e)
           /\ r = 2 => NthWord(m, sent[m]) = Word(m, "trailer", e)
    BY <1>1, <1>2, TheWord
  <1>4. PICK r \in 0..2 :
           /\ sent[m] = 3 * e + r
           /\ r = 0 => NthWord(m, sent[m]) = Word(m, "header", e)
           /\ r = 1 => NthWord(m, sent[m]) = Word(m, "hit", e)
           /\ r = 2 => NthWord(m, sent[m]) = Word(m, "trailer", e)
    BY <1>3
  <1>5. e \in Nat
    BY DEF Events
  <1>6. CASE r = 0
    <2> DEFINE w == Word(m, "header", e)
    <2>1. w.kind = "header"
      BY WordTyped DEF Kinds
    <2>2. Assemble(w) /\ sent[m] = 3 * e
      BY <1>1, <1>4, <1>5, <1>6
    <2> HIDE DEF w
    <2>3. PlaceHeader(w) \/ TooManyEvents(w)
      BY <2>1, <2>2 DEF Assemble
    <2>4. CASE PlaceHeader(w)
      <3>1. Typed' /\ Ring' /\ DAQState' = "Running"
        BY <1>1, <1>2, <2>2, <2>4, HeaderStep DEF w
      <3> QED BY <3>1, RingGoodNext
    <2>5. CASE TooManyEvents(w)
      BY <1>1, <1>2, <2>2, <2>5, StopStep DEF w
    <2> QED BY <2>3, <2>4, <2>5
  <1>7. CASE r = 1
    <2> DEFINE w == Word(m, "hit", e)
    <2>1. w.kind = "hit"
      BY WordTyped DEF Kinds
    <2>2. Assemble(w) /\ sent[m] = 3 * e + 1
      BY <1>1, <1>4, <1>7
    <2> HIDE DEF w
    <2>3. PlaceHit(w)
      BY <2>1, <2>2 DEF Assemble
    <2>4. Typed' /\ Ring' /\ DAQState' = "Running"
      BY <1>1, <1>2, <2>2, <2>3, HitStep DEF w
    <2> QED BY <2>4, RingGoodNext
  <1>8. CASE r = 2
    <2> DEFINE w == Word(m, "trailer", e)
               s == e % NSlots
               new == TrailerSlot(w)
    <2>1. w.kind = "trailer" /\ w.mezz = m /\ w.event = e
      BY WordTyped DEF Kinds
    <2>2. Assemble(w) /\ sent[m] = 3 * e + 2
      BY <1>1, <1>4, <1>8
    <2>3. new \in SlotRecord /\ Extends(new, slots[s], m, e, 2) /\ previousData[m] # w
      BY <1>2, <2>2, TrailerInSlot
    <2>4. evtWRBuf[m] = s
      <3>1. 2 \in 0..2
        OBVIOUS
      <3>2. e < Len(built) + NSlots
        BY <1>2, <1>5, <2>2, <3>1, NextEvent DEF Ring
      <3> QED BY <1>2, <2>2, <3>1, <3>2, OwnSlot
    <2> HIDE DEF w
    <2>5. PlaceTrailer(w)
      BY <2>1, <2>2 DEF Assemble
    <2>6. /\ IF Complete(new) THEN Emit(s, new, Evid(e))
             ELSE slots' = [slots EXCEPT ![s] = new] /\ UNCHANGED <<evtRDBuf, built>>
          /\ evtWRBuf' = [evtWRBuf EXCEPT ![m] = NextSlot(s)]
          /\ previousData' = [previousData EXCEPT ![m] = w]
          /\ UNCHANGED DAQState
      BY <2>1, <2>3, <2>4, <2>5 DEF PlaceTrailer
    <2> HIDE DEF new
    <2>7. CASE Complete(new)
      <3>1. Typed' /\ Ring'
        BY <1>1, <1>2, <2>2, <2>3, <2>6, <2>7, TrailerCompletes DEF w
      <3> QED BY <1>1, <2>6, <3>1, RingGoodNext
    <2>8. CASE ~Complete(new)
      <3>1. Typed' /\ Ring'
        BY <1>1, <1>2, <2>2, <2>3, <2>6, <2>8, TrailerWaits DEF w
      <3> QED BY <1>1, <2>6, <3>1, RingGoodNext
    <2> QED BY <2>7, <2>8
  <1>9. r = 0 \/ r = 1 \/ r = 2
    OBVIOUS
  <1> QED BY <1>6, <1>7, <1>8, <1>9

LEMMA NextIInv == ASSUME Faults = {}, IInv, [Next]_vars PROVE IInv'
  <1>1. CASE UNCHANGED vars
    <2>1. \A m \in Mezz : Done(m)' = Done(m)
      BY <1>1 DEF vars, Done
    <2>2. Typed'
      BY <1>1 DEF vars, IInv, Typed
    <2>3. DAQState' = "Running" => Ring'
      <3> SUFFICES ASSUME DAQState' = "Running" PROVE Ring'
        OBVIOUS
      <3>1. Ring
        BY <1>1 DEF vars, IInv
      <3>2. Window' /\ Spread' /\ HitFirst'
        BY <1>1, <3>1 DEF vars, Ring, Window, Holds, Spread, HitFirst
      <3>3. Pointers' /\ AllWhole'
        BY <1>1, <2>1, <3>1 DEF vars, Ring, Pointers, AllWhole, WholeEvent
      <3> QED BY <3>2, <3>3 DEF Ring
    <2>4. BuildsInOrder'
      BY <1>1, <2>1 DEF vars, IInv, BuildsInOrder, WholeEvent
    <2>5. SlotsNotShared'
      BY <1>1 DEF vars, IInv, SlotsNotShared, EventsIn
    <2>6. StopsOnlyWhenFull'
      <3> SUFFICES ASSUME DAQState' = "Idle" PROVE Ahead'
        BY DEF StopsOnlyWhenFull
      <3>1. Ahead
        BY <1>1 DEF vars, IInv, StopsOnlyWhenFull
      <3>2. PICK m \in Mezz, n \in Mezz : Done(m) - Done(n) >= NSlots
        BY <3>1 DEF Ahead
      <3>3. Done(m)' - Done(n)' >= NSlots
        BY <2>1, <3>2
      <3> QED BY <3>3 DEF Ahead
    <2> QED BY <2>2, <2>3, <2>4, <2>5, <2>6 DEF IInv
  <1>2. CASE Next
    <2>1. PICK m \in Mezz : Deliver(m) \/ LoseWord(m) \/ LoseFragment(m) \/ RepeatTrailer(m)
      BY <1>2 DEF Next
    <2>2. ~LoseWord(m) /\ ~LoseFragment(m) /\ ~RepeatTrailer(m)
      BY DEF LoseWord, LoseFragment, RepeatTrailer
    <2> QED BY <2>1, <2>2, DeliverStep
  <1> QED BY <1>1, <1>2

--------------------------------------------------------------------------------
(* The theorems: a healthy detector with at least one card. *)

LEMMA Invariance == ASSUME Faults = {}, Mezz # {} PROVE Spec => []IInv
  <1>1. Init => IInv
    BY InitIInv
  <1>2. IInv /\ [Next]_vars => IInv'
    BY NextIInv
  <1> QED BY <1>1, <1>2, PTL DEF Spec

\* The builder's state has its types, for every ring and every set of cards.
THEOREM TypeCorrect == ASSUME Faults = {}, Mezz # {} PROVE Spec => []TypeOK
  <1>1. IInv => TypeOK
    <2> SUFFICES ASSUME Typed PROVE TypeOK
      BY DEF IInv
    <2>1. \A s \in Slots : slots[s] \in SlotRecord
      BY DEF Typed
    <2>2. \A s \in Slots :
            /\ slots[s].bufEmpty \in BOOLEAN /\ slots[s].bufEVID \in 0 .. EvidMod - 1
            /\ slots[s].gotHeader \subseteq Mezz /\ slots[s].gotTrailer \subseteq Mezz
            /\ slots[s].eventBuf \in [Mezz -> Seq(Words)]
      BY <2>1 DEF SlotRecord
    <2>3. lost \subseteq Words /\ repeated \subseteq Words /\ faults \in 0 .. MaxFaults
      BY BoundAssumption DEF Typed, BoundAssumption
    <2> QED BY <2>2, <2>3 DEF Typed, TypeOK, BuiltEvent
  <1> QED BY <1>1, Invariance, PTL

\* However the words of the cards are interleaved, DataAssembling emits each trigger
\* whose last trailer has arrived, whole, once, in order, and none by force.
THEOREM WholeEventsInOrder == ASSUME Faults = {}, Mezz # {} PROVE Spec => []BuildsInOrder
  <1>1. IInv => BuildsInOrder
    BY DEF IInv
  <1> QED BY <1>1, Invariance, PTL

\* No event buffer is reused while it is in use: the buffers that are not empty hold
\* the words of different triggers, each under its own EVID.
THEOREM BuffersApart == ASSUME Faults = {}, Mezz # {} PROVE Spec => []SlotsNotShared
  <1>1. IInv => SlotsNotShared
    BY DEF IInv
  <1> QED BY <1>1, Invariance, PTL

\* "Try to build too many events" ends a run only when a card is a whole ring of
\* event buffers ahead of the slowest one.
THEOREM GivesUpWhenFull == ASSUME Faults = {}, Mezz # {} PROVE Spec => []StopsOnlyWhenFull
  <1>1. IInv => StopsOnlyWhenFull
    BY DEF IInv
  <1> QED BY <1>1, Invariance, PTL

--------------------------------------------------------------------------------
(* The numbers that the event builder writes into the words of its events. *)

\* Every channel of every card has a number that fits into the word and is listed under
\* its own card and channel: the event builder and the programs that read its words agree
\* on all 18 cards, and no two channels of a CSM share a number.
THEOREM ListedAsWritten ==
    ASSUME NEW mezz \in Cards, NEW chan \in Channels
    PROVE  /\ Encoded(mezz, chan) \in WireNumbers
           /\ Decoded(Encoded(mezz, chan)) = [mezz |-> mezz, chan |-> chan]
<1>1. mezz \in 0..17 /\ chan \in 0..23
  BY DEF Cards, Channels
<1>2. CASE mezz < 16
  BY <1>1, <1>2 DEF Encoded, Decoded, WireNumbers
<1>3. CASE mezz \in {16, 17}
  <2>1. CASE chan < 8
    <3>1. chan % 8 = chan
      BY <1>1, <2>1
    <3> QED
      BY <1>1, <1>3, <2>1, <3>1 DEF Encoded, Decoded, WireNumbers, FirstTDC
  <2>2. CASE chan >= 8 /\ chan < 16
    <3>1. chan % 8 = chan - 8
      BY <1>1, <2>2
    <3> QED
      BY <1>1, <1>3, <2>2, <3>1 DEF Encoded, Decoded, WireNumbers, FirstTDC
  <2>3. CASE chan >= 16
    <3>1. chan % 8 = chan - 16
      BY <1>1, <2>3
    <3> QED
      BY <1>1, <1>3, <2>3, <3>1 DEF Encoded, Decoded, WireNumbers, FirstTDC
  <2> QED
    BY <1>1, <2>1, <2>2, <2>3
<1> QED
  BY <1>1, <1>2, <1>3

--------------------------------------------------------------------------------
(***************************************************************************)
(* The inductive invariant.  The ring is a window of NSlots events as for  *)
(* a healthy detector, but a slot holds what was not lost, a card whose    *)
(* trailer was lost still writes the slot behind, and events leave the     *)
(* window several at a time.                                               *)
(***************************************************************************)

\* What is left of event e from card m when it has sent n words and gone was lost.
Left(m, e, n, gone) ==
    IF n <= 3 * e THEN <<>>
    ELSE IF n = 3 * e + 1 THEN Behind(<<>>, Word(m, "header", e), gone)
    ELSE IF n = 3 * e + 2
      THEN Behind(Behind(<<>>, Word(m, "header", e), gone), Word(m, "hit", e), gone)
    ELSE Kept(m, e, gone)

\* The trailer of event e from m has arrived.
Ended(m, e, n, gone) == n >= 3 * e + 3 /\ Word(m, "trailer", e) \notin gone

\* The slot holds what is left of event e.
Keeps(slot, e, sn, gone) ==
    /\ slot.gotTrailer = {m \in Mezz : Ended(m, e, sn[m], gone)}
    /\ slot.bufEmpty <=> \A m \in Mezz : sn[m] <= 3 * e
    /\ ~slot.bufEmpty => slot.bufEVID = Evid(e)
    /\ slot.eventBuf = [m \in Mezz |-> Left(m, e, sn[m], gone)]

\* The event card m writes: the next one, unless the trailer of the last one was lost.
Writes(m, n, gone) ==
    IF n % 3 = 0 /\ n > 0 /\ Word(m, "trailer", n \div 3 - 1) \in gone
    THEN n \div 3 - 1 ELSE n \div 3

KeptTypes ==
    /\ sent \in [Mezz -> 0 .. 3 * NEvents]
    /\ slots \in [Slots -> SlotRecord]
    /\ evtWRBuf \in [Mezz -> Slots] /\ evtRDBuf \in Slots
    /\ built \in Seq(BuiltEvent)
    /\ previousData = [m \in Mezz |-> previousData[m]]

KeptWindow ==
    \A e \in Len(built) .. Len(built) + NSlots - 1 : Keeps(slots[e % NSlots], e, sent, lost)

KeptPointers ==
    /\ \A m \in Mezz : evtWRBuf[m] = Writes(m, sent[m], lost) % NSlots
    /\ evtRDBuf = Len(built) % NSlots

\* All trailers of the last emitted event have arrived, and no card is more than the
\* ring ahead of it.
KeptSpread ==
    \A m \in Mezz :
      /\ 3 * Len(built) <= sent[m] /\ sent[m] <= 3 * (Len(built) + NSlots)
      /\ Len(built) > 0 => Word(m, "trailer", Len(built) - 1) \notin lost

\* The next trailer of a card is not the last word seen from it.
NotSeen == \A m \in Mezz : \A e \in Nat : sent[m] < 3 * e + 3 => previousData[m] # Word(m, "trailer", e)

\* What was lost had been sent.
LostInPast ==
    \A m \in Mezz : \A e \in Nat :
      /\ Word(m, "hit", e) \in lost => sent[m] >= 3 * e + 2
      /\ Word(m, "trailer", e) \in lost => sent[m] >= 3 * e + 3
      /\ Word(m, "header", e) \notin lost

KeptRing == KeptTypes /\ KeptWindow /\ KeptPointers /\ KeptSpread /\ NotSeen /\ LostInPast

AllKept ==
    \A k \in 1..Len(built) :
      /\ built[k].evid = Evid(k - 1)
      /\ \A m \in Mezz : built[k].words[m] = Kept(m, k - 1, lost)

KeptInv == HeadersArrive => AllKept /\ (DAQState = "Running" => KeptRing)

--------------------------------------------------------------------------------
(* Facts about words and slots, free of the state. *)

LEMMA WordsDiffer ==
    ASSUME NEW m, NEW k, NEW e, NEW n, NEW l, NEW f
    PROVE  Word(m, k, e) = Word(n, l, f) <=> m = n /\ k = l /\ e = f
  BY DEF Word

LEMMA WordKinds ==
    ASSUME NEW m \in Mezz, NEW e \in Nat, NEW r \in 0..2
    PROVE  /\ r = 0 => WordOf(m, e, r) = Word(m, "header", e)
           /\ r = 1 => WordOf(m, e, r) = Word(m, "hit", e)
           /\ r = 2 => WordOf(m, e, r) = Word(m, "trailer", e)
           /\ WordOf(m, e, r).mezz = m /\ WordOf(m, e, r).event = e
  <1>1. /\ r = 0 => WordOf(m, e, r) = Word(m, "header", e)
        /\ r = 1 => WordOf(m, e, r) = Word(m, "hit", e)
        /\ r = 2 => WordOf(m, e, r) = Word(m, "trailer", e)
    BY DEF WordOf, Fragment
  <1>2. r = 0 \/ r = 1 \/ r = 2
    OBVIOUS
  <1> QED BY <1>1, <1>2 DEF Word

\* The r-th word of event e, sent as word 3 * e + r, writes event e.
LEMMA WritesFacts ==
    ASSUME NEW m \in Mezz, NEW e \in Nat, NEW r \in 0..2, NEW n, n = 3 * e + r, NEW gone
    PROVE  /\ n \div 3 = e /\ n % 3 = r
           /\ r > 0 => Writes(m, n, gone) = e
           /\ r = 0 /\ e > 0 /\ Word(m, "trailer", e - 1) \in gone => Writes(m, n, gone) = e - 1
           /\ r = 0 /\ ~(e > 0 /\ Word(m, "trailer", e - 1) \in gone) => Writes(m, n, gone) = e
  <1>1. n \div 3 = e /\ n % 3 = r /\ (n > 0 /\ r = 0 <=> e > 0 /\ r = 0)
    OBVIOUS
  <1> QED BY <1>1 DEF Writes

\* What is left of an event does not change while none of its words is sent or lost.
LEMMA LeftStays ==
    ASSUME NEW x \in Mezz, NEW f \in Nat, NEW n \in Nat, NEW k \in Nat, NEW gone, NEW more,
           n = k \/ (n <= 3 * f /\ k <= 3 * f) \/ (n >= 3 * f + 3 /\ k >= 3 * f + 3),
           Word(x, "header", f) \in more <=> Word(x, "header", f) \in gone,
           Word(x, "hit", f) \in more <=> Word(x, "hit", f) \in gone,
           Word(x, "trailer", f) \in more <=> Word(x, "trailer", f) \in gone
    PROVE  /\ Ended(x, f, k, more) <=> Ended(x, f, n, gone)
           /\ Left(x, f, k, more) = Left(x, f, n, gone)
  <1>1. Left(x, f, n, gone) = Left(x, f, n, more)
    BY DEF Left, Kept, Behind
  <1>2. Left(x, f, n, more) = Left(x, f, k, more)
    BY DEF Left
  <1>3. n >= 3 * f + 3 <=> k >= 3 * f + 3
    OBVIOUS
  <1> QED BY <1>1, <1>2, <1>3 DEF Ended

\* A word that arrives comes behind what is left of its event.
LEMMA LeftGrows ==
    ASSUME NEW m \in Mezz, NEW e \in Nat, NEW r \in 0..2, NEW n, n = 3 * e + r,
           NEW k, k = n + 1, NEW gone, WordOf(m, e, r) \notin gone
    PROVE  /\ Left(m, e, k, gone) = Append(Left(m, e, n, gone), WordOf(m, e, r))
           /\ ~Ended(m, e, n, gone) /\ (Ended(m, e, k, gone) <=> r = 2)
  <1>1. /\ r = 0 => WordOf(m, e, r) = Word(m, "header", e)
        /\ r = 1 => WordOf(m, e, r) = Word(m, "hit", e)
        /\ r = 2 => WordOf(m, e, r) = Word(m, "trailer", e)
    BY WordKinds
  <1>2. ~Ended(m, e, n, gone) /\ (Ended(m, e, k, gone) <=> r = 2)
    BY <1>1 DEF Ended
  <1>3. CASE r = 0
    <2>1. Left(m, e, n, gone) = <<>>
      BY <1>3 DEF Left
    <2>2. Left(m, e, k, gone) = Behind(<<>>, WordOf(m, e, r), gone)
      BY <1>1, <1>3 DEF Left
    <2> QED BY <1>2, <2>1, <2>2 DEF Behind
  <1>4. CASE r = 1
    <2>1. Left(m, e, n, gone) = Behind(<<>>, Word(m, "header", e), gone)
      BY <1>4 DEF Left
    <2>2. Left(m, e, k, gone)
            = Behind(Behind(<<>>, Word(m, "header", e), gone), WordOf(m, e, r), gone)
      BY <1>1, <1>4 DEF Left
    <2>3. Left(m, e, k, gone) = Behind(Left(m, e, n, gone), WordOf(m, e, r), gone)
      BY <2>1, <2>2
    <2> QED BY <1>2, <2>3 DEF Behind
  <1>5. CASE r = 2
    <2>1. Left(m, e, n, gone)
            = Behind(Behind(<<>>, Word(m, "header", e), gone), Word(m, "hit", e), gone)
      BY <1>5 DEF Left
    <2>2. Left(m, e, k, gone) = Kept(m, e, gone)
      BY <1>5 DEF Left
    <2>3. Left(m, e, k, gone) = Behind(Left(m, e, n, gone), WordOf(m, e, r), gone)
      BY <1>1, <1>5, <2>1, <2>2 DEF Kept
    <2> QED BY <1>2, <2>3 DEF Behind
  <1>6. r = 0 \/ r = 1 \/ r = 2
    OBVIOUS
  <1> QED BY ONLY <1>3, <1>4, <1>5, <1>6

\* A hit or a trailer that is lost changes nothing of what is left.
LEMMA LeftLost ==
    ASSUME NEW m \in Mezz, NEW e \in Nat, NEW r \in 1..2, NEW n, n = 3 * e + r,
           NEW k, k = n + 1, NEW gone, NEW more, more = gone \cup {WordOf(m, e, r)}
    PROVE  /\ Left(m, e, k, more) = Left(m, e, n, gone)
           /\ ~Ended(m, e, n, gone) /\ ~Ended(m, e, k, more)
  <1>1. /\ r = 1 => WordOf(m, e, r) = Word(m, "hit", e)
        /\ r = 2 => WordOf(m, e, r) = Word(m, "trailer", e)
    <2>1. r \in 0..2
      OBVIOUS
    <2> QED BY <2>1, WordKinds
  <1>2. /\ WordOf(m, e, r) \in more
        /\ \A w : w # WordOf(m, e, r) => (w \in more <=> w \in gone)
    OBVIOUS
  <1>3. CASE r = 1
    <2>1. Left(m, e, n, gone) = Behind(<<>>, Word(m, "header", e), gone)
      BY <1>3 DEF Left
    <2>2. Left(m, e, k, more)
            = Behind(Behind(<<>>, Word(m, "header", e), more), Word(m, "hit", e), more)
      BY <1>3 DEF Left
    <2>3. Word(m, "hit", e) \in more
      BY <1>1, <1>2, <1>3
    <2>4. Word(m, "header", e) \in more <=> Word(m, "header", e) \in gone
      BY <1>1, <1>2, <1>3, WordsDiffer
    <2>5. ~Ended(m, e, n, gone) /\ ~Ended(m, e, k, more)
      BY <1>3 DEF Ended
    <2> QED BY <2>1, <2>2, <2>3, <2>4, <2>5 DEF Behind
  <1>4. CASE r = 2
    <2>1. Left(m, e, n, gone)
            = Behind(Behind(<<>>, Word(m, "header", e), gone), Word(m, "hit", e), gone)
      BY <1>4 DEF Left
    <2>2. Left(m, e, k, more) = Kept(m, e, more)
      BY <1>4 DEF Left
    <2>3. Word(m, "trailer", e) \in more
      BY <1>1, <1>2, <1>4
    <2>4. Word(m, "header", e) \in more <=> Word(m, "header", e) \in gone
      BY <1>1, <1>2, <1>4, WordsDiffer
    <2>5. Word(m, "hit", e) \in more <=> Word(m, "hit", e) \in gone
      BY <1>1, <1>2, <1>4, WordsDiffer
    <2>6. ~Ended(m, e, n, gone) /\ ~Ended(m, e, k, more)
      BY <1>4, <2>3 DEF Ended
    <2> QED BY <2>1, <2>2, <2>3, <2>4, <2>5, <2>6 DEF Kept, Behind
  <1>5. r = 1 \/ r = 2
    OBVIOUS
  <1> QED BY <1>3, <1>4, <1>5

\* A word of event e, lost or not, changes nothing of the other events.
LEMMA OthersKeep ==
    ASSUME NEW sn \in [Mezz -> Nat], NEW m \in Mezz, NEW e \in Nat, NEW r \in 0..2,
           sn[m] = 3 * e + r, NEW f \in Nat, f # e, NEW slot, NEW gone, NEW more,
           Keeps(slot, f, sn, gone), more = gone \/ more = gone \cup {WordOf(m, e, r)}
    PROVE  Keeps(slot, f, [sn EXCEPT ![m] = @ + 1], more)
  <1> DEFINE sx == [sn EXCEPT ![m] = @ + 1]
  <1>1. \A x \in Mezz : /\ sn[x] \in Nat
                         /\ sx[x] = IF x = m THEN sn[x] + 1 ELSE sn[x]
    OBVIOUS
  <1> HIDE DEF sx
  <1>2. \A x \in Mezz, k \in Kinds : Word(x, k, f) \in more <=> Word(x, k, f) \in gone
    <2> TAKE x \in Mezz, k \in Kinds
    <2>1. WordOf(m, e, r).event = e /\ Word(x, k, f).event = f
      BY WordKinds DEF Word
    <2> QED BY <2>1
  <1>3. "header" \in Kinds /\ "hit" \in Kinds /\ "trailer" \in Kinds
    BY DEF Kinds
  <1>4. ASSUME NEW x \in Mezz
        PROVE  /\ Ended(x, f, sn[x], gone) <=> Ended(x, f, sx[x], more)
               /\ sn[x] <= 3 * f <=> sx[x] <= 3 * f
               /\ Left(x, f, sn[x], gone) = Left(x, f, sx[x], more)
    <2>1. /\ Word(x, "header", f) \in more <=> Word(x, "header", f) \in gone
          /\ Word(x, "hit", f) \in more <=> Word(x, "hit", f) \in gone
          /\ Word(x, "trailer", f) \in more <=> Word(x, "trailer", f) \in gone
      BY <1>2, <1>3
    <2>2. /\ sn[x] >= 3 * f + 3 <=> sx[x] >= 3 * f + 3
          /\ sn[x] <= 3 * f <=> sx[x] <= 3 * f
          /\ sn[x] = sx[x] \/ (sn[x] <= 3 * f /\ sx[x] <= 3 * f)
             \/ (sn[x] >= 3 * f + 3 /\ sx[x] >= 3 * f + 3)
      <3>1. CASE x # m
        BY <1>1, <3>1
      <3>2. CASE x = m
        <4>1. sn[x] = 3 * e + r /\ sx[x] = 3 * e + r + 1
          BY <1>1, <3>2
        <4>2. CASE f < e
          BY <4>1, <4>2
        <4>3. CASE f > e
          BY <4>1, <4>3
        <4> QED BY <4>2, <4>3
      <3> QED BY <3>1, <3>2
    <2>3. sn[x] \in Nat /\ sx[x] \in Nat
      BY <1>1
    <2>4. /\ Ended(x, f, sx[x], more) <=> Ended(x, f, sn[x], gone)
          /\ Left(x, f, sx[x], more) = Left(x, f, sn[x], gone)
      BY <2>1, <2>2, <2>3, LeftStays
    <2> QED BY <2>2, <2>4
  <1>5. {x \in Mezz : Ended(x, f, sn[x], gone)} = {x \in Mezz : Ended(x, f, sx[x], more)}
    BY <1>4
  <1>6. [x \in Mezz |-> Left(x, f, sn[x], gone)] = [x \in Mezz |-> Left(x, f, sx[x], more)]
    BY <1>4
  <1>7. (\A x \in Mezz : sn[x] <= 3 * f) <=> \A x \in Mezz : sx[x] <= 3 * f
    BY <1>4
  <1>8. Keeps(slot, f, sx, more)
    BY <1>5, <1>6, <1>7 DEF Keeps
  <1> QED BY <1>8 DEF sx

\* A word of event e that arrives is stored in the slot of e.
LEMMA StoredKeeps ==
    ASSUME NEW sn \in [Mezz -> Nat], NEW m \in Mezz, NEW e \in Nat, NEW r \in 0..2,
           sn[m] = 3 * e + r, NEW slot, NEW gone, Keeps(slot, e, sn, gone),
           WordOf(m, e, r) \notin gone,
           NEW new, Extends(new, slot, m, e, r)
    PROVE  Keeps(new, e, [sn EXCEPT ![m] = @ + 1], gone)
  <1> DEFINE sx == [sn EXCEPT ![m] = @ + 1]
  <1>1. \A x \in Mezz : /\ sn[x] \in Nat
                         /\ sx[x] = IF x = m THEN sn[x] + 1 ELSE sn[x]
    OBVIOUS
  <1>2. sx[m] = 3 * e + r + 1
    BY <1>1
  <1> HIDE DEF sx
  <1>3. /\ r = 0 => WordOf(m, e, r) = Word(m, "header", e)
        /\ r = 1 => WordOf(m, e, r) = Word(m, "hit", e)
        /\ r = 2 => WordOf(m, e, r) = Word(m, "trailer", e)
    BY WordKinds
  <1>4. new.gotTrailer = {x \in Mezz : Ended(x, e, sx[x], gone)}
    <2>1. \A x \in Mezz : x # m => (Ended(x, e, sx[x], gone) <=> Ended(x, e, sn[x], gone))
      BY <1>1
    <2>2. ~Ended(m, e, sn[m], gone)
      BY DEF Ended
    <2>3. Ended(m, e, sx[m], gone) <=> r = 2
      BY <1>2, <1>3 DEF Ended
    <2>4. slot.gotTrailer = {x \in Mezz : Ended(x, e, sn[x], gone)}
      BY DEF Keeps
    <2>5. CASE r = 2
      <3>1. new.gotTrailer = slot.gotTrailer \cup {m}
        BY <2>5 DEF Extends
      <3> QED BY <2>1, <2>3, <2>4, <2>5, <3>1
    <2>6. CASE r # 2
      <3>1. new.gotTrailer = slot.gotTrailer
        BY <2>6 DEF Extends
      <3> QED BY <2>1, <2>2, <2>3, <2>4, <2>6, <3>1
    <2> QED BY <2>5, <2>6
  <1>5. ~(\A x \in Mezz : sx[x] <= 3 * e)
    BY <1>2
  <1>6. new.eventBuf = [x \in Mezz |-> Left(x, e, sx[x], gone)]
    <2>1. slot.eventBuf = [x \in Mezz |-> Left(x, e, sn[x], gone)]
      BY DEF Keeps
    <2>2. new.eventBuf = [x \in Mezz |-> IF x = m THEN Append(Left(m, e, sn[m], gone), WordOf(m, e, r))
                                                  ELSE Left(x, e, sn[x], gone)]
      BY <2>1 DEF Extends
    <2>3. Append(Left(m, e, sn[m], gone), WordOf(m, e, r)) = Left(m, e, sx[m], gone)
      <3>1. sn[m] = 3 * e + r /\ sx[m] = sn[m] + 1
        BY <1>2
      <3>2. /\ Left(m, e, sx[m], gone) = Append(Left(m, e, sn[m], gone), WordOf(m, e, r))
            /\ ~Ended(m, e, sn[m], gone) /\ (Ended(m, e, sx[m], gone) <=> r = 2)
        BY <3>1, LeftGrows
      <3> QED BY <3>2
    <2>4. \A x \in Mezz : x # m => Left(x, e, sx[x], gone) = Left(x, e, sn[x], gone)
      BY <1>1
    <2> QED BY <2>2, <2>3, <2>4
  <1>7. Keeps(new, e, sx, gone)
    BY <1>4, <1>5, <1>6 DEF Keeps, Extends
  <1> QED BY <1>7 DEF sx

\* A hit or a trailer of event e that is lost leaves the slot of e as it should be.
LEMMA LostKeeps ==
    ASSUME NEW sn \in [Mezz -> Nat], NEW m \in Mezz, NEW e \in Nat, NEW r \in 1..2,
           sn[m] = 3 * e + r, NEW slot, NEW gone, Keeps(slot, e, sn, gone)
    PROVE  Keeps(slot, e, [sn EXCEPT ![m] = @ + 1], gone \cup {WordOf(m, e, r)})
  <1> DEFINE sx == [sn EXCEPT ![m] = @ + 1]
             more == gone \cup {WordOf(m, e, r)}
  <1>1. \A x \in Mezz : /\ sn[x] \in Nat
                         /\ sx[x] = IF x = m THEN sn[x] + 1 ELSE sn[x]
    OBVIOUS
  <1>2. sx[m] = 3 * e + r + 1
    BY <1>1
  <1>3. /\ r = 1 => WordOf(m, e, r) = Word(m, "hit", e)
        /\ r = 2 => WordOf(m, e, r) = Word(m, "trailer", e)
        /\ WordOf(m, e, r).mezz = m
    <2>1. r \in 0..2
      OBVIOUS
    <2> QED BY <2>1, WordKinds
  <1>4. r = 1 \/ r = 2
    OBVIOUS
  <1>5. /\ WordOf(m, e, r) \in more
        /\ \A w : w # WordOf(m, e, r) => (w \in more <=> w \in gone)
    OBVIOUS
  <1> HIDE DEF sx, more
  <1>6. \A x \in Mezz : x # m => /\ Ended(x, e, sx[x], more) <=> Ended(x, e, sn[x], gone)
                                 /\ Left(x, e, sx[x], more) = Left(x, e, sn[x], gone)
    <2> SUFFICES ASSUME NEW x \in Mezz, x # m
                 PROVE  /\ Ended(x, e, sx[x], more) <=> Ended(x, e, sn[x], gone)
                        /\ Left(x, e, sx[x], more) = Left(x, e, sn[x], gone)
      OBVIOUS
    <2>1. sx[x] = sn[x]
      BY <1>1
    <2>2. \A k : Word(x, k, e) # WordOf(m, e, r)
      BY <1>3 DEF Word
    <2>3. /\ Word(x, "header", e) \in more <=> Word(x, "header", e) \in gone
          /\ Word(x, "hit", e) \in more <=> Word(x, "hit", e) \in gone
          /\ Word(x, "trailer", e) \in more <=> Word(x, "trailer", e) \in gone
      BY <1>5, <2>2
    <2> QED BY <2>1, <2>3 DEF Ended, Left, Kept, Behind
  <1>7. ~Ended(m, e, sx[m], more) /\ ~Ended(m, e, sn[m], gone)
        /\ Left(m, e, sx[m], more) = Left(m, e, sn[m], gone)
    <2>1. sn[m] = 3 * e + r /\ sx[m] = sn[m] + 1 /\ more = gone \cup {WordOf(m, e, r)}
      BY <1>2 DEF more
    <2> QED BY <2>1, LeftLost
  <1>9. {x \in Mezz : Ended(x, e, sn[x], gone)} = {x \in Mezz : Ended(x, e, sx[x], more)}
    BY <1>6, <1>7
  <1>10. [x \in Mezz |-> Left(x, e, sn[x], gone)] = [x \in Mezz |-> Left(x, e, sx[x], more)]
    BY <1>6, <1>7
  <1>11. ~(\A x \in Mezz : sn[x] <= 3 * e) /\ ~(\A x \in Mezz : sx[x] <= 3 * e)
    <2>1. ~(sn[m] <= 3 * e) /\ ~(sx[m] <= 3 * e)
      BY <1>2, <1>4
    <2> QED BY <2>1
  <1>12. Keeps(slot, e, sx, more)
    BY <1>9, <1>10, <1>11 DEF Keeps
  <1> QED BY <1>12 DEF sx, more

--------------------------------------------------------------------------------
(* What the ring says of the card that sends next. *)

LEMMA KeptNextEvent ==
    ASSUME KeptRing, NEW m \in Mezz, NEW e \in Nat, NEW r \in 0..2, sent[m] = 3 * e + r
    PROVE  /\ sent \in [Mezz -> Nat] /\ Len(built) \in Nat /\ Len(built) <= e
           /\ e < Len(built) + NSlots \/ (e = Len(built) + NSlots /\ r = 0)
  <1>1. sent \in [Mezz -> Nat] /\ Len(built) \in Nat
    BY Sizes DEF KeptRing, KeptTypes
  <1>2. 3 * Len(built) <= sent[m] /\ sent[m] <= 3 * (Len(built) + NSlots)
    BY DEF KeptRing, KeptSpread
  <1> QED BY <1>1, <1>2, Sizes

LEMMA KeptSlot ==
    ASSUME KeptRing, NEW m \in Mezz, NEW e \in Nat, NEW r \in 0..2, sent[m] = 3 * e + r,
           e < Len(built) + NSlots
    PROVE  /\ e % NSlots \in Slots /\ slots[e % NSlots] \in SlotRecord
           /\ Keeps(slots[e % NSlots], e, sent, lost)
           /\ r > 0 => ~slots[e % NSlots].bufEmpty /\ evtWRBuf[m] = e % NSlots
  <1>1. Len(built) \in Nat /\ Len(built) <= e
    BY KeptNextEvent
  <1>2. e % NSlots \in Slots /\ slots[e % NSlots] \in SlotRecord
    <2>1. e % NSlots \in Slots
      BY PlaceInRing
    <2> QED BY <2>1 DEF KeptRing, KeptTypes
  <1>3. Keeps(slots[e % NSlots], e, sent, lost)
    <2>1. e \in Len(built) .. Len(built) + NSlots - 1
      BY <1>1, Sizes
    <2> QED BY <2>1 DEF KeptRing, KeptWindow
  <1>4. ASSUME r > 0 PROVE ~slots[e % NSlots].bufEmpty /\ evtWRBuf[m] = e % NSlots
    <2>1. ~(sent[m] <= 3 * e)
      BY <1>4
    <2>2. Writes(m, sent[m], lost) = e
      <3>1. sent[m] % 3 = r /\ sent[m] \div 3 = e
        BY WritesFacts
      <3> QED BY <3>1, <1>4 DEF Writes
    <2> QED BY <2>1, <2>2, <1>3 DEF Keeps, KeptRing, KeptPointers
  <1> QED BY <1>2, <1>3, <1>4

\* The counts after one more word of m, which has arrived or was lost.
LEMMA MoveOn ==
    ASSUME KeptRing, NEW m \in Mezz, NEW e \in Events, NEW r \in 0..2, sent[m] = 3 * e + r,
           e < Len(built) + NSlots,
           sent' = [sent EXCEPT ![m] = @ + 1],
           lost' = lost \/ (r > 0 /\ lost' = lost \cup {WordOf(m, e, r)})
    PROVE  /\ sent' \in [Mezz -> 0 .. 3 * NEvents]
           /\ sent'[m] = 3 * e + r + 1 /\ \A x \in Mezz : x # m => sent'[x] = sent[x]
           /\ \A x \in Mezz : 3 * Len(built) <= sent'[x] /\ sent'[x] <= 3 * (Len(built) + NSlots)
           /\ LostInPast'
  <1>1. e \in Nat /\ e < NEvents
    BY Sizes DEF Events
  <1>2. sent \in [Mezz -> Nat] /\ Len(built) \in Nat /\ Len(built) <= e
    BY <1>1, KeptNextEvent
  <1>3. sent'[m] = 3 * e + r + 1 /\ \A x \in Mezz : x # m => sent'[x] = sent[x]
    BY <1>2
  <1>4. sent' \in [Mezz -> 0 .. 3 * NEvents]
    <2>1. sent[m] + 1 \in 0 .. 3 * NEvents
      BY <1>1, Sizes
    <2> QED BY <2>1 DEF KeptRing, KeptTypes
  <1>5. \A x \in Mezz : 3 * Len(built) <= sent'[x] /\ sent'[x] <= 3 * (Len(built) + NSlots)
    <2> TAKE x \in Mezz
    <2>1. CASE x = m
      BY <1>1, <1>2, <1>3, <2>1, Sizes
    <2>2. CASE x # m
      BY <1>3, <2>2 DEF KeptRing, KeptSpread
    <2> QED BY <2>1, <2>2
  <1>6. LostInPast'
    <2> SUFFICES ASSUME NEW x \in Mezz, NEW f \in Nat
                 PROVE  /\ Word(x, "hit", f) \in lost' => sent'[x] >= 3 * f + 2
                        /\ Word(x, "trailer", f) \in lost' => sent'[x] >= 3 * f + 3
                        /\ Word(x, "header", f) \notin lost'
      BY DEF LostInPast
    <2>1. /\ Word(x, "hit", f) \in lost => sent[x] >= 3 * f + 2
          /\ Word(x, "trailer", f) \in lost => sent[x] >= 3 * f + 3
          /\ Word(x, "header", f) \notin lost
      BY DEF KeptRing, LostInPast
    <2>2. sent[x] \in Nat /\ sent'[x] \in Nat /\ sent'[x] >= sent[x]
      BY <1>2, <1>3
    <2>3. ASSUME NEW k, Word(x, k, f) \in lost', Word(x, k, f) \notin lost
          PROVE  x = m /\ f = e /\ ((r = 1 /\ k = "hit") \/ (r = 2 /\ k = "trailer"))
      <3>1. r > 0 /\ Word(x, k, f) = WordOf(m, e, r)
        BY <2>3
      <3>2. /\ r = 1 => WordOf(m, e, r) = Word(m, "hit", e)
            /\ r = 2 => WordOf(m, e, r) = Word(m, "trailer", e)
        BY <1>1, WordKinds
      <3>3. r = 1 \/ r = 2
        BY <3>1
      <3> QED BY <3>1, <3>2, <3>3, WordsDiffer
    <2>4. Word(x, "hit", f) \in lost' => sent'[x] >= 3 * f + 2
      <3>1. CASE Word(x, "hit", f) \in lost
        BY <2>1, <2>2, <3>1
      <3>2. ASSUME Word(x, "hit", f) \in lost', Word(x, "hit", f) \notin lost
            PROVE  sent'[x] >= 3 * f + 2
        BY <1>1, <1>3, <2>3, <3>2
      <3> QED BY <3>1, <3>2
    <2>5. Word(x, "trailer", f) \in lost' => sent'[x] >= 3 * f + 3
      <3>1. CASE Word(x, "trailer", f) \in lost
        BY <2>1, <2>2, <3>1
      <3>2. ASSUME Word(x, "trailer", f) \in lost', Word(x, "trailer", f) \notin lost
            PROVE  sent'[x] >= 3 * f + 3
        BY <1>1, <1>3, <2>3, <3>2
      <3> QED BY <3>1, <3>2
    <2>6. Word(x, "header", f) \notin lost'
      BY <2>1, <2>3
    <2> QED BY <2>4, <2>5, <2>6
  <1> QED BY <1>3, <1>4, <1>5, <1>6

\* Where the cards write then: a lost trailer leaves the card where it was.
LEMMA MovePointers ==
    ASSUME KeptRing, NEW m \in Mezz, NEW e \in Events, NEW r \in 0..2, sent[m] = 3 * e + r,
           e < Len(built) + NSlots,
           sent' = [sent EXCEPT ![m] = @ + 1],
           lost' = lost \/ (r > 0 /\ lost' = lost \cup {WordOf(m, e, r)})
    PROVE  /\ \A x \in Mezz : x # m => Writes(x, sent'[x], lost') = Writes(x, sent[x], lost)
           /\ lost' = lost => Writes(m, sent'[m], lost') = IF r = 2 THEN e + 1 ELSE e
           /\ lost' = lost \cup {WordOf(m, e, r)} => Writes(m, sent'[m], lost') = e
  <1>1. e \in Nat /\ e + 1 \in Nat /\ (e + 1) - 1 = e
    BY DEF Events
  <1>2. sent'[m] = 3 * e + r + 1 /\ \A x \in Mezz : x # m => sent'[x] = sent[x]
    BY MoveOn
  <1>3. \A x \in Mezz : x # m => Writes(x, sent'[x], lost') = Writes(x, sent[x], lost)
    <2> SUFFICES ASSUME NEW x \in Mezz, x # m
                 PROVE  Writes(x, sent'[x], lost') = Writes(x, sent[x], lost)
      OBVIOUS
    <2>1. \A f : Word(x, "trailer", f) \in lost' <=> Word(x, "trailer", f) \in lost
      <3>1. \A f : Word(x, "trailer", f) # WordOf(m, e, r)
        <4>1. WordOf(m, e, r).mezz = m
          BY <1>1, WordKinds
        <4> QED BY <4>1 DEF Word
      <3> QED BY <3>1
    <2> QED BY <1>2, <2>1 DEF Writes
  <1>4. CASE r < 2
    <2>1. r + 1 \in 0..2 /\ r + 1 > 0 /\ sent'[m] = 3 * e + (r + 1)
      BY <1>1, <1>2, <1>4
    <2>2. Writes(m, sent'[m], lost') = e
      BY <1>1, <2>1, WritesFacts
    <2> QED BY <1>3, <1>4, <2>2
  <1>5. CASE r = 2
    <2>1. 0 \in 0..2 /\ sent'[m] = 3 * (e + 1) + 0 /\ e + 1 > 0
      BY <1>1, <1>2, <1>5
    <2>2. ASSUME lost' = lost PROVE Writes(m, sent'[m], lost') = e + 1
      <3>1. Word(m, "trailer", e) \notin lost
        <4>1. ~(sent[m] >= 3 * e + 3)
          BY <1>1, <1>5
        <4> QED BY <4>1, <1>1 DEF KeptRing, LostInPast
      <3>2. Word(m, "trailer", (e + 1) - 1) \notin lost'
        BY <1>1, <2>2, <3>1
      <3> QED BY <1>1, <2>1, <3>2, WritesFacts
    <2>3. ASSUME lost' = lost \cup {WordOf(m, e, r)} PROVE Writes(m, sent'[m], lost') = e
      <3>1. WordOf(m, e, r) = Word(m, "trailer", e)
        BY <1>1, <1>5, WordKinds
      <3>2. Word(m, "trailer", (e + 1) - 1) \in lost'
        BY <1>1, <2>3, <3>1
      <3>3. Writes(m, sent'[m], lost') = (e + 1) - 1
        <4>1. sent'[m] % 3 = 0 /\ sent'[m] \div 3 = e + 1 /\ sent'[m] > 0
          BY <1>1, <2>1
        <4> QED BY <4>1, <3>2 DEF Writes
      <3> QED BY <1>1, <3>3
    <2> QED BY <1>3, <1>5, <2>2, <2>3
  <1>6. r < 2 \/ r = 2
    OBVIOUS
  <1> QED BY <1>4, <1>5, <1>6

\* A word that has arrived becomes the last one seen, a lost one is not seen.
LEMMA MoveSeen ==
    ASSUME KeptRing, NEW m \in Mezz, NEW e \in Events, NEW r \in 0..2, sent[m] = 3 * e + r,
           sent' = [sent EXCEPT ![m] = @ + 1],
           previousData' = previousData
             \/ previousData' = [previousData EXCEPT ![m] = WordOf(m, e, r)]
    PROVE  NotSeen' /\ previousData' = [x \in Mezz |-> previousData'[x]]
  <1>1. e \in Nat
    BY DEF Events
  <1>2. sent \in [Mezz -> Nat]
    BY <1>1, KeptNextEvent
  <1>3. sent'[m] = 3 * e + r + 1 /\ \A x \in Mezz : x # m => sent'[x] = sent[x]
    BY <1>2
  <1>4. previousData = [x \in Mezz |-> previousData[x]]
    BY DEF KeptRing, KeptTypes
  <1>5. /\ previousData' = [x \in Mezz |-> previousData'[x]]
        /\ \A x \in Mezz : x # m => previousData'[x] = previousData[x]
        /\ previousData'[m] = previousData[m] \/ previousData'[m] = WordOf(m, e, r)
    BY <1>4
  <1>6. NotSeen'
    <2> SUFFICES ASSUME NEW x \in Mezz, NEW f \in Nat, sent'[x] < 3 * f + 3
                 PROVE  previousData'[x] # Word(x, "trailer", f)
      BY DEF NotSeen
    <2>1. CASE x # m
      BY <1>3, <1>5, <2>1 DEF KeptRing, NotSeen
    <2>2. CASE x = m
      <3>1. sent[m] < 3 * f + 3 /\ (r = 2 => f # e)
        BY <1>1, <1>3, <2>2
      <3>2. previousData[m] # Word(m, "trailer", f)
        BY <3>1 DEF KeptRing, NotSeen
      <3>3. WordOf(m, e, r) # Word(m, "trailer", f)
        <4>1. /\ r = 0 => WordOf(m, e, r) = Word(m, "header", e)
              /\ r = 1 => WordOf(m, e, r) = Word(m, "hit", e)
              /\ r = 2 => WordOf(m, e, r) = Word(m, "trailer", e)
          BY <1>1, WordKinds
        <4>2. r = 0 \/ r = 1 \/ r = 2
          OBVIOUS
        <4> QED BY <3>1, <4>1, <4>2, WordsDiffer
      <3> QED BY <1>5, <2>2, <3>2, <3>3
    <2> QED BY <2>1, <2>2
  <1> QED BY <1>5, <1>6

--------------------------------------------------------------------------------
(* The steps: a word is stored, is lost, completes an event, or finds no slot. *)

LEMMA NotYetLost ==
    ASSUME KeptRing, NEW m \in Mezz, NEW e \in Nat, NEW r \in 0..2, sent[m] = 3 * e + r
    PROVE  WordOf(m, e, r) \notin lost
  <1>1. /\ r = 0 => WordOf(m, e, r) = Word(m, "header", e)
        /\ r = 1 => WordOf(m, e, r) = Word(m, "hit", e)
        /\ r = 2 => WordOf(m, e, r) = Word(m, "trailer", e)
    BY WordKinds
  <1>2. /\ Word(m, "hit", e) \in lost => sent[m] >= 3 * e + 2
        /\ Word(m, "trailer", e) \in lost => sent[m] >= 3 * e + 3
        /\ Word(m, "header", e) \notin lost
    BY DEF KeptRing, LostInPast
  <1>3. r = 0 \/ r = 1 \/ r = 2
    OBVIOUS
  <1> QED BY <1>1, <1>2, <1>3

\* Different events of the window are in different slots.
LEMMA WindowApart ==
    ASSUME NEW b \in Nat, NEW e \in Nat, NEW f \in Nat, e # f,
           b <= e, e < b + NSlots, b <= f, f < b + NSlots
    PROVE  e % NSlots # f % NSlots
  <1>1. CASE e < f
    <2>1. f - e < NSlots
      BY Sizes
    <2> QED BY <1>1, <2>1, Apart
  <1>2. CASE f < e
    <2>1. e - f < NSlots
      BY Sizes
    <2> QED BY <1>2, <2>1, Apart
  <1> QED BY <1>1, <1>2

LEMMA KeptStore ==
    ASSUME KeptRing, NEW m \in Mezz, NEW e \in Events, NEW r \in 0..2, sent[m] = 3 * e + r,
           e < Len(built) + NSlots,
           NEW new \in SlotRecord, Extends(new, slots[e % NSlots], m, e, r),
           slots' = [slots EXCEPT ![e % NSlots] = new],
           sent' = [sent EXCEPT ![m] = @ + 1],
           evtWRBuf' = [evtWRBuf EXCEPT ![m] = IF r = 2 THEN NextSlot(e % NSlots) ELSE e % NSlots],
           previousData' = [previousData EXCEPT ![m] = WordOf(m, e, r)],
           UNCHANGED <<evtRDBuf, built, lost>>
    PROVE  KeptRing'
  <1>1. e \in Nat
    BY DEF Events
  <1>2. sent \in [Mezz -> Nat] /\ Len(built) \in Nat /\ Len(built) <= e
    BY <1>1, KeptNextEvent
  <1>3. /\ e % NSlots \in Slots /\ slots[e % NSlots] \in SlotRecord
        /\ Keeps(slots[e % NSlots], e, sent, lost)
    BY <1>1, KeptSlot
  <1>4. /\ sent' \in [Mezz -> 0 .. 3 * NEvents]
        /\ sent'[m] = 3 * e + r + 1 /\ \A x \in Mezz : x # m => sent'[x] = sent[x]
        /\ \A x \in Mezz : 3 * Len(built) <= sent'[x] /\ sent'[x] <= 3 * (Len(built) + NSlots)
        /\ LostInPast'
    BY MoveOn
  <1>5. /\ \A x \in Mezz : x # m => Writes(x, sent'[x], lost') = Writes(x, sent[x], lost)
        /\ Writes(m, sent'[m], lost') = IF r = 2 THEN e + 1 ELSE e
    BY MovePointers
  <1>6. NotSeen' /\ previousData' = [x \in Mezz |-> previousData'[x]]
    BY MoveSeen
  <1>7. NextSlot(e % NSlots) = (e + 1) % NSlots /\ NextSlot(e % NSlots) \in Slots
    BY <1>1, NextPlace, PlaceInRing
  <1>8. KeptTypes'
    <2>1. slots' \in [Slots -> SlotRecord]
      BY <1>3 DEF KeptRing, KeptTypes
    <2>2. evtWRBuf' \in [Mezz -> Slots]
      BY <1>3, <1>7 DEF KeptRing, KeptTypes
    <2> QED BY <1>4, <1>6, <2>1, <2>2 DEF KeptRing, KeptTypes
  <1>9. KeptWindow'
    <2> SUFFICES ASSUME NEW f \in Nat, f \in Len(built) .. Len(built) + NSlots - 1
                 PROVE  Keeps(slots'[f % NSlots], f, sent', lost)
      BY <1>2, Sizes DEF KeptWindow, Keeps
    <2>1. f % NSlots \in Slots /\ Keeps(slots[f % NSlots], f, sent, lost)
      BY PlaceInRing DEF KeptRing, KeptWindow
    <2>2. CASE f = e
      <3>1. slots'[f % NSlots] = new
        BY <1>3, <2>2 DEF KeptRing, KeptTypes
      <3>2. WordOf(m, e, r) \notin lost
        BY <1>1, NotYetLost
      <3>3. Keeps(new, e, sent', lost)
        BY <1>1, <1>2, <1>3, <3>2, StoredKeeps
      <3> QED BY <2>2, <3>1, <3>3
    <2>3. CASE f # e
      <3>1. f % NSlots # e % NSlots
        <4>1. Len(built) <= f /\ f < Len(built) + NSlots
          BY <1>2, Sizes
        <4> QED BY <1>1, <1>2, <2>3, <4>1, WindowApart
      <3>2. slots'[f % NSlots] = slots[f % NSlots]
        BY <1>3, <2>1, <3>1 DEF KeptRing, KeptTypes
      <3>3. Keeps(slots[f % NSlots], f, sent', lost)
        BY <1>1, <1>2, <2>1, <2>3, OthersKeep
      <3> QED BY <3>2, <3>3
    <2> QED BY <2>2, <2>3
  <1>10. KeptPointers'
    <2>1. ASSUME NEW x \in Mezz PROVE evtWRBuf'[x] = Writes(x, sent'[x], lost') % NSlots
      <3>1. CASE x = m
        <4>1. evtWRBuf'[m] = IF r = 2 THEN NextSlot(e % NSlots) ELSE e % NSlots
          BY DEF KeptRing, KeptTypes
        <4> QED BY <1>5, <1>7, <3>1, <4>1
      <3>2. CASE x # m
        <4>1. evtWRBuf'[x] = evtWRBuf[x]
          BY <3>2 DEF KeptRing, KeptTypes
        <4> QED BY <1>5, <3>2, <4>1 DEF KeptRing, KeptPointers
      <3> QED BY <3>1, <3>2
    <2> QED BY <2>1 DEF KeptRing, KeptPointers
  <1>11. KeptSpread'
    BY <1>4 DEF KeptRing, KeptSpread
  <1> QED BY <1>4, <1>6, <1>8, <1>9, <1>10, <1>11 DEF KeptRing

\* A hit or a trailer is lost on the link.
LEMMA KeptLose ==
    ASSUME KeptRing, NEW m \in Mezz, NEW e \in Events, NEW r \in 1..2, sent[m] = 3 * e + r,
           sent' = [sent EXCEPT ![m] = @ + 1],
           lost' = lost \cup {WordOf(m, e, r)},
           UNCHANGED <<slots, evtWRBuf, previousData, evtRDBuf, built>>
    PROVE  KeptRing' /\ (AllKept => AllKept')
  <1>1. e \in Nat /\ r \in 0..2 /\ r > 0
    BY DEF Events
  <1>2. /\ sent \in [Mezz -> Nat] /\ Len(built) \in Nat /\ Len(built) <= e
        /\ e < Len(built) + NSlots
    <2>1. /\ sent \in [Mezz -> Nat] /\ Len(built) \in Nat /\ Len(built) <= e
          /\ e < Len(built) + NSlots \/ (e = Len(built) + NSlots /\ r = 0)
      BY <1>1, KeptNextEvent
    <2> QED BY <1>1, <2>1
  <1>3. /\ Keeps(slots[e % NSlots], e, sent, lost) /\ evtWRBuf[m] = e % NSlots
    BY <1>1, <1>2, KeptSlot
  <1>4. /\ sent' \in [Mezz -> 0 .. 3 * NEvents]
        /\ sent'[m] = 3 * e + r + 1 /\ \A x \in Mezz : x # m => sent'[x] = sent[x]
        /\ \A x \in Mezz : 3 * Len(built) <= sent'[x] /\ sent'[x] <= 3 * (Len(built) + NSlots)
        /\ LostInPast'
    BY <1>1, <1>2, MoveOn
  <1>5. /\ \A x \in Mezz : x # m => Writes(x, sent'[x], lost') = Writes(x, sent[x], lost)
        /\ Writes(m, sent'[m], lost') = e
    BY <1>1, <1>2, MovePointers
  <1>6. NotSeen' /\ previousData' = [x \in Mezz |-> previousData'[x]]
    BY <1>1, MoveSeen
  <1>7. KeptTypes'
    BY <1>4, <1>6 DEF KeptRing, KeptTypes
  <1>8. KeptWindow'
    <2>1. ASSUME NEW f \in Nat, f \in Len(built) .. Len(built) + NSlots - 1
          PROVE  Keeps(slots'[f % NSlots], f, sent', lost')
      <3>1. Keeps(slots[f % NSlots], f, sent, lost)
        BY <2>1 DEF KeptRing, KeptWindow
      <3>2. Keeps(slots[f % NSlots], f, sent', lost')
        <4>1. CASE f = e
          BY <1>1, <1>2, <3>1, <4>1, LostKeeps
        <4>2. CASE f # e
          BY <1>1, <1>2, <3>1, <4>2, OthersKeep
        <4> QED BY <4>1, <4>2
      <3> QED BY <3>2
    <2>2. \A f \in Len(built') .. Len(built') + NSlots - 1 : Keeps(slots'[f % NSlots], f, sent', lost')
      <3>1. \A f \in Len(built) .. Len(built) + NSlots - 1 : f \in Nat
        BY <1>2, Sizes
      <3> QED BY <2>1, <3>1
    <2> QED BY <2>2 DEF KeptWindow, Keeps
  <1>9. KeptPointers'
    <2>1. ASSUME NEW x \in Mezz PROVE evtWRBuf'[x] = Writes(x, sent'[x], lost') % NSlots
      <3>1. CASE x = m
        BY <1>3, <1>5, <3>1
      <3>2. CASE x # m
        BY <1>5, <3>2 DEF KeptRing, KeptPointers
      <3> QED BY <3>1, <3>2
    <2> QED BY <2>1 DEF KeptRing, KeptPointers
  <1>10. \A x \in Mezz : \A k, f : f # e => (Word(x, k, f) \in lost' <=> Word(x, k, f) \in lost)
    <2>1. WordOf(m, e, r).event = e
      BY <1>1, WordKinds
    <2> QED BY <2>1 DEF Word
  <1>11. KeptSpread'
    <2>1. \A x \in Mezz : Len(built) > 0 => Word(x, "trailer", Len(built) - 1) \notin lost'
      <3>1. Len(built) - 1 # e
        BY <1>2
      <3> QED BY <1>10, <3>1 DEF KeptRing, KeptSpread
    <2> QED BY <1>4, <2>1 DEF KeptSpread
  <1>12. ASSUME AllKept PROVE AllKept'
    <2> SUFFICES ASSUME NEW k \in 1..Len(built)
                 PROVE  /\ built[k].evid = Evid(k - 1)
                        /\ \A x \in Mezz : built[k].words[x] = Kept(x, k - 1, lost')
      BY DEF AllKept
    <2>1. k - 1 # e
      BY <1>2
    <2>2. \A x \in Mezz : Kept(x, k - 1, lost') = Kept(x, k - 1, lost)
      BY <1>10, <2>1 DEF Kept, Behind
    <2> QED BY <1>12, <2>2 DEF AllKept
  <1> QED BY <1>4, <1>6, <1>7, <1>8, <1>9, <1>11, <1>12 DEF KeptRing

\* A header whose event is in the window finds the slot of its event first: where its
\* card writes, or one place further if the trailer before was lost.
LEMMA KeptPlace ==
    ASSUME KeptRing, NEW m \in Mezz, NEW e \in Nat, sent[m] = 3 * e, e < Len(built) + NSlots
    PROVE  \E j \in Places(m, Evid(e)) : /\ \A q \in Places(m, Evid(e)) : j <= q
                                         /\ (evtWRBuf[m] + j) % NSlots = e % NSlots
  <1>1. 0 \in 0..2 /\ sent[m] = 3 * e + 0 /\ e \in Int /\ 0 \in Int
    OBVIOUS
  <1>2. sent \in [Mezz -> Nat] /\ Len(built) \in Nat /\ Len(built) <= e
    BY <1>1, KeptNextEvent
  <1>3. Keeps(slots[e % NSlots], e, sent, lost)
    BY <1>1, KeptSlot
  <1>4. evtWRBuf[m] = Writes(m, sent[m], lost) % NSlots
    BY DEF KeptRing, KeptPointers
  <1>5. sent[m] \div 3 = e /\ sent[m] % 3 = 0 /\ (sent[m] > 0 <=> e > 0)
    OBVIOUS
  <1>6. Places(m, Evid(e)) \subseteq Nat
    BY Sizes DEF Places, Slots
  <1>7. CASE ~(e > 0 /\ Word(m, "trailer", e - 1) \in lost)
    <2>1. evtWRBuf[m] = e % NSlots
      BY <1>4, <1>5, <1>7 DEF Writes
    <2>2. (evtWRBuf[m] + 0) % NSlots = e % NSlots
      <3>1. ((e % NSlots) + 0) % NSlots = (e + 0) % NSlots
        BY <1>1, Sizes, ModAdd
      <3> QED BY <2>1, <3>1
    <2>3. 0 \in Places(m, Evid(e))
      <3>1. 0 \in Slots
        BY Sizes DEF Slots
      <3> QED BY <1>3, <2>2, <3>1 DEF Places, Keeps
    <2> QED BY <1>6, <2>2, <2>3
  <1>8. CASE e > 0 /\ Word(m, "trailer", e - 1) \in lost
    <2> DEFINE d == e - 1
    <2>1. d \in Nat /\ d \in Int /\ 1 \in Int /\ d + 1 = e /\ d < e /\ e - d <= NSlots
      BY <1>8, Sizes
    <2>2. Len(built) <= d /\ d < Len(built) + NSlots /\ NSlots > 1
      <3>1. Len(built) # e
        <4>1. Len(built) > 0 => Word(m, "trailer", Len(built) - 1) \notin lost
          BY DEF KeptRing, KeptSpread
        <4> QED BY <1>8, <4>1
      <3> QED BY <1>2, <3>1, Sizes
    <2>3. evtWRBuf[m] = d % NSlots
      BY <1>4, <1>5, <1>8 DEF Writes
    <2>4. Keeps(slots[d % NSlots], d, sent, lost)
      <3>1. d \in Len(built) .. Len(built) + NSlots - 1
        BY <1>2, <2>1, <2>2, Sizes
      <3> QED BY <3>1 DEF KeptRing, KeptWindow
    <2> HIDE DEF d
    <2>5. (evtWRBuf[m] + 0) % NSlots = d % NSlots
      <3>1. ((d % NSlots) + 0) % NSlots = (d + 0) % NSlots
        <4>1. d \in Int /\ 0 \in Int
          BY <2>1
        <4> QED BY ONLY <4>1, Sizes, ModAdd
      <3>2. d + 0 = d
        BY <2>1
      <3> QED BY <2>3, <3>1, <3>2
    <2>6. (evtWRBuf[m] + 1) % NSlots = e % NSlots
      <3>1. ((d % NSlots) + 1) % NSlots = (d + 1) % NSlots
        <4>1. d \in Int /\ 1 \in Int
          BY <2>1
        <4> QED BY ONLY <4>1, Sizes, ModAdd
      <3> QED BY <2>1, <2>3, <3>1
    <2>7. 0 \notin Places(m, Evid(e))
      <3>1. ~(sent[m] <= 3 * d)
        BY <2>1
      <3>2. ~slots[d % NSlots].bufEmpty /\ slots[d % NSlots].bufEVID = Evid(d)
        BY <2>4, <3>1 DEF Keeps
      <3>3. Evid(d) # Evid(e)
        BY <2>1, Apart
      <3> QED BY <2>5, <3>2, <3>3 DEF Places
    <2>8. 1 \in Places(m, Evid(e))
      <3>1. 1 \in Slots
        BY <2>2, Sizes DEF Slots
      <3> QED BY <1>3, <2>6, <3>1 DEF Places, Keeps
    <2>9. \A q \in Places(m, Evid(e)) : 1 <= q
      BY <1>6, <2>7
    <2> QED BY <2>6, <2>8, <2>9
  <1> QED BY <1>7, <1>8

\* With the ring full of events of its card, a header finds no slot.
LEMMA KeptFull ==
    ASSUME KeptRing, NEW m \in Mezz, NEW e \in Nat, sent[m] = 3 * e, e = Len(built) + NSlots
    PROVE  Places(m, Evid(e)) = {}
  <1>1. Len(built) \in Nat /\ evtWRBuf[m] \in Nat
    BY Sizes DEF KeptRing, KeptTypes, Slots
  <1> SUFFICES ASSUME NEW k \in Slots
               PROVE  LET slot == slots[(evtWRBuf[m] + k) % NSlots]
                      IN  ~(slot.bufEmpty \/ slot.bufEVID = Evid(e))
    BY DEF Places
  <1>2. (evtWRBuf[m] + k) % NSlots \in 0 .. NSlots - 1
    <2>1. evtWRBuf[m] + k \in Int
      BY <1>1, Sizes DEF Slots
    <2> QED BY <2>1, Sizes, Division
  <1>3. PICK j \in 0 .. NSlots - 1 : (Len(built) + j) % NSlots = (evtWRBuf[m] + k) % NSlots
    BY <1>1, <1>2, Sizes, ModCovers
  <1> DEFINE f == Len(built) + j
  <1>4. f \in Nat /\ f \in Len(built) .. Len(built) + NSlots - 1 /\ f < e /\ e - f <= NSlots
    BY <1>1, Sizes
  <1>5. f % NSlots = (evtWRBuf[m] + k) % NSlots
    BY <1>3
  <1> HIDE DEF f
  <1>6. Keeps(slots[f % NSlots], f, sent, lost)
    BY <1>4 DEF KeptRing, KeptWindow
  <1>7. ~slots[f % NSlots].bufEmpty
    <2>1. ~(sent[m] <= 3 * f)
      BY <1>4
    <2> QED BY <2>1, <1>6 DEF Keeps
  <1>8. slots[f % NSlots].bufEVID # Evid(e)
    BY <1>4, <1>6, <1>7, Apart DEF Keeps
  <1> QED BY <1>5, <1>7, <1>8

LEMMA KeptHeader ==
    ASSUME KeptRing, NEW m \in Mezz, NEW e \in Events, sent[m] = 3 * e,
           PlaceHeader(Word(m, "header", e)),
           sent' = [sent EXCEPT ![m] = @ + 1], UNCHANGED lost
    PROVE  KeptRing' /\ UNCHANGED <<built, DAQState>>
  <1> DEFINE w == Word(m, "header", e)
             P == Places(w.mezz, Evid(w.event))
             k == CHOOSE p \in P : \A q \in P : p <= q
             s == (evtWRBuf[w.mezz] + k) % NSlots
             opened == IF slots[s].bufEmpty THEN Opened(slots[s], Evid(w.event)) ELSE slots[s]
             noted == [opened EXCEPT !.gotHeader = @ \cup {w.mezz}]
             new == Stored(noted, w)
  <1>1. e \in Nat /\ sent[m] = 3 * e + 0 /\ 0 \in 0..2
    BY DEF Events
  <1>2. w \in Words /\ w.mezz = m /\ w.event = e /\ w = WordOf(m, e, 0)
    BY <1>1, WordOfFacts
  <1> HIDE DEF w
  <1>3. /\ P # {}
        /\ evtWRBuf' = [evtWRBuf EXCEPT ![w.mezz] = s]
        /\ slots' = [slots EXCEPT ![s] = new]
        /\ previousData' = [previousData EXCEPT ![w.mezz] = w]
        /\ UNCHANGED <<evtRDBuf, built, DAQState>>
    <2>1. PlaceHeader(w)
      BY DEF w
    <2> QED BY <2>1 DEF PlaceHeader
  <1>4. e < Len(built) + NSlots
    BY <1>1, <1>2, <1>3, KeptFull, KeptNextEvent
  <1>5. /\ e % NSlots \in Slots /\ slots[e % NSlots] \in SlotRecord
        /\ Keeps(slots[e % NSlots], e, sent, lost)
    BY <1>1, <1>4, KeptSlot
  <1>6. s = e % NSlots
    <2>1. PICK j \in P : (\A q \in P : j <= q) /\ (evtWRBuf[w.mezz] + j) % NSlots = e % NSlots
      BY <1>1, <1>2, <1>4, KeptPlace
    <2>2. P \subseteq Nat
      BY Sizes DEF Places, Slots
    <2> HIDE DEF P
    <2>3. k \in P /\ \A q \in P : k <= q
      BY <2>1, Zenon
    <2> HIDE DEF k
    <2>4. k = j
      BY <2>1, <2>2, <2>3
    <2> QED BY <2>1, <2>4
  <1> HIDE DEF k, s, P
  <1>7. opened \in SlotRecord /\ opened.bufEmpty = FALSE /\ opened.bufEVID = Evid(e)
        /\ opened.gotTrailer = slots[s].gotTrailer /\ opened.eventBuf = slots[s].eventBuf
    <2>1. CASE slots[s].bufEmpty
      BY <2>1, <1>1, <1>2, <1>5, <1>6, EvidRange, OpenedFields
    <2>2. CASE ~slots[s].bufEmpty
      <3>1. slots[s].bufEmpty = FALSE
        BY <2>2, <1>5, <1>6 DEF SlotRecord
      <3> QED BY <3>1, <1>5, <1>6 DEF Keeps
    <2> QED BY <2>1, <2>2
  <1> HIDE DEF opened
  <1>8. noted \in SlotRecord /\ noted.bufEmpty = FALSE /\ noted.bufEVID = Evid(e)
        /\ noted.gotTrailer = slots[s].gotTrailer /\ noted.eventBuf = slots[s].eventBuf
    BY <1>2, <1>7, HeaderFields
  <1> HIDE DEF noted
  <1>9. new \in SlotRecord /\ new.bufEmpty = FALSE /\ new.bufEVID = Evid(e)
        /\ new.gotTrailer = slots[s].gotTrailer
        /\ new.eventBuf = [slots[s].eventBuf EXCEPT ![m] = Append(@, w)]
    <2>1. noted \in SlotRecord /\ w \in Words /\ w.mezz = m
      BY <1>2, <1>8
    <2>2. /\ new \in SlotRecord /\ new.bufEmpty = noted.bufEmpty /\ new.bufEVID = noted.bufEVID
          /\ new.gotTrailer = noted.gotTrailer
          /\ new.eventBuf = [noted.eventBuf EXCEPT ![m] = Append(@, w)]
      BY ONLY <2>1, m \in Mezz, StoredFields
    <2> QED BY <1>8, <2>2
  <1> HIDE DEF new
  <1>10. Extends(new, slots[e % NSlots], m, e, 0)
    BY <1>2, <1>6, <1>9 DEF Extends
  <1>11. evtWRBuf' = [evtWRBuf EXCEPT ![m] = IF 0 = 2 THEN NextSlot(e % NSlots) ELSE e % NSlots]
    <2>1. e % NSlots = IF 0 = 2 THEN NextSlot(e % NSlots) ELSE e % NSlots
      OBVIOUS
    <2>2. evtWRBuf' = [evtWRBuf EXCEPT ![m] = e % NSlots]
      BY ONLY <1>2, <1>3, <1>6
    <2> QED BY ONLY <2>1, <2>2
  <1>12. KeptRing'
    BY <1>1, <1>2, <1>3, <1>4, <1>6, <1>9, <1>10, <1>11, KeptStore
  <1> QED BY <1>3, <1>12

LEMMA KeptHit ==
    ASSUME KeptRing, NEW m \in Mezz, NEW e \in Events, sent[m] = 3 * e + 1,
           PlaceHit(Word(m, "hit", e)),
           sent' = [sent EXCEPT ![m] = @ + 1], UNCHANGED lost
    PROVE  KeptRing' /\ UNCHANGED <<built, DAQState>>
  <1> DEFINE w == Word(m, "hit", e)
             s == evtWRBuf[m]
             slot == slots[s]
             new == Stored(slot, w)
  <1>1. e \in Nat /\ 1 \in 0..2
    BY DEF Events
  <1>2. w \in Words /\ w.mezz = m /\ w.event = e /\ w = WordOf(m, e, 1)
    BY <1>1, WordOfFacts
  <1> HIDE DEF w
  <1>3. e < Len(built) + NSlots
    BY <1>1, KeptNextEvent
  <1>4. /\ s = e % NSlots /\ e % NSlots \in Slots
        /\ Keeps(slots[e % NSlots], e, sent, lost) /\ slots[e % NSlots] \in SlotRecord
        /\ ~slots[s].bufEmpty
    BY <1>1, <1>3, KeptSlot
  <1>5. /\ slots' = [slots EXCEPT ![s] = new]
        /\ previousData' = [previousData EXCEPT ![m] = w]
        /\ UNCHANGED <<evtWRBuf, evtRDBuf, built, DAQState>>
    <2>1. PlaceHit(w)
      BY DEF w
    <2> QED BY <2>1, <1>2, <1>4 DEF PlaceHit
  <1>6. evtWRBuf' = [evtWRBuf EXCEPT ![m] = IF 1 = 2 THEN NextSlot(e % NSlots) ELSE e % NSlots]
    BY <1>4, <1>5 DEF KeptRing, KeptTypes
  <1>7. slot \in SlotRecord /\ slot.bufEmpty = FALSE /\ slot.bufEVID = Evid(e)
    BY <1>4 DEF SlotRecord, Keeps
  <1> HIDE DEF s, slot
  <1>8. new \in SlotRecord /\ new.bufEmpty = FALSE /\ new.bufEVID = Evid(e)
        /\ new.gotTrailer = slot.gotTrailer
        /\ new.eventBuf = [slot.eventBuf EXCEPT ![m] = Append(@, w)]
    BY <1>2, <1>7, StoredFields
  <1> HIDE DEF new
  <1>9. Extends(new, slots[e % NSlots], m, e, 1)
    BY <1>2, <1>4, <1>8 DEF Extends, slot
  <1>10. KeptRing'
    BY <1>1, <1>2, <1>3, <1>4, <1>5, <1>6, <1>8, <1>9, KeptStore
  <1> QED BY <1>5, <1>10

LEMMA KeptTrailerSlot ==
    ASSUME KeptRing, NEW m \in Mezz, NEW e \in Events, sent[m] = 3 * e + 2,
           NEW w, w = Word(m, "trailer", e)
    PROVE  /\ TrailerSlot(w) \in SlotRecord
           /\ Extends(TrailerSlot(w), slots[e % NSlots], m, e, 2)
           /\ evtWRBuf[m] = e % NSlots /\ previousData[m] # w
  <1>1. e \in Nat /\ 2 \in 0..2
    BY DEF Events
  <1>2. w \in Words /\ w.mezz = m /\ w.event = e /\ w = WordOf(m, e, 2)
    BY <1>1, WordOfFacts
  <1>3. e < Len(built) + NSlots
    BY <1>1, KeptNextEvent
  <1>4. /\ evtWRBuf[m] = e % NSlots
        /\ Keeps(slots[e % NSlots], e, sent, lost) /\ slots[e % NSlots] \in SlotRecord
        /\ ~slots[e % NSlots].bufEmpty
    BY <1>1, <1>3, KeptSlot
  <1>5. previousData[m] # w
    <2>1. sent[m] < 3 * e + 3
      BY <1>1
    <2> QED BY <1>1, <2>1 DEF KeptRing, NotSeen
  <1> DEFINE slot == slots[e % NSlots]
             noted == Noted(slot, m)
             new == Stored(noted, w)
  <1>6. TrailerSlot(w) = new
    BY <1>2, <1>4 DEF TrailerSlot
  <1>7. slot \in SlotRecord /\ slot.bufEmpty = FALSE /\ slot.bufEVID = Evid(e)
    BY <1>4 DEF SlotRecord, Keeps
  <1> HIDE DEF slot
  <1>8. noted \in SlotRecord /\ noted.bufEmpty = FALSE /\ noted.bufEVID = Evid(e)
        /\ noted.gotTrailer = slot.gotTrailer \cup {m} /\ noted.eventBuf = slot.eventBuf
    BY <1>7, NotedFields
  <1> HIDE DEF noted
  <1>9. new \in SlotRecord /\ new.bufEmpty = FALSE /\ new.bufEVID = Evid(e)
        /\ new.gotTrailer = slot.gotTrailer \cup {m}
        /\ new.eventBuf = [slot.eventBuf EXCEPT ![m] = Append(@, w)]
    BY <1>2, <1>8, StoredFields
  <1> HIDE DEF new
  <1>10. Extends(new, slot, m, e, 2)
    BY <1>2, <1>9 DEF Extends
  <1> QED BY <1>4, <1>5, <1>6, <1>9, <1>10 DEF slot

\* A slot of the window that every card has left behind is emitted as what is left
\* of its event.
LEMMA KeptOlder ==
    ASSUME KeptRing, NEW m \in Mezz, NEW f \in Nat, f \in Len(built) .. Len(built) + NSlots - 1,
           \A x \in Mezz : sent[x] >= 3 * f + 3
    PROVE  LET o == slots[f % NSlots]
           IN  /\ [evid |-> o.bufEVID, words |-> o.eventBuf, forced |-> TRUE] \in BuiltEvent
               /\ o.bufEVID = Evid(f)
               /\ \A x \in Mezz : o.eventBuf[x] = Kept(x, f, lost)
  <1> DEFINE o == slots[f % NSlots]
  <1>1. o \in SlotRecord
    <2>1. f % NSlots \in Slots
      BY PlaceInRing
    <2> QED BY <2>1 DEF KeptRing, KeptTypes
  <1>2. Keeps(o, f, sent, lost)
    BY DEF KeptRing, KeptWindow
  <1>3. \A x \in Mezz : sent[x] \in Nat
    BY Sizes DEF KeptRing, KeptTypes
  <1>4. o.bufEVID = Evid(f)
    <2>1. ~(sent[m] <= 3 * f)
      BY <1>3
    <2> QED BY <2>1, <1>2 DEF Keeps
  <1>5. \A x \in Mezz : Left(x, f, sent[x], lost) = Kept(x, f, lost)
    BY <1>3 DEF Left
  <1>6. \A x \in Mezz : o.eventBuf[x] = Kept(x, f, lost)
    BY <1>2, <1>5 DEF Keeps
  <1>7. [evid |-> o.bufEVID, words |-> o.eventBuf, forced |-> TRUE] \in BuiltEvent
    BY <1>1 DEF SlotRecord, BuiltEvent
  <1> QED BY <1>4, <1>6, <1>7

\* Which events leave the ring: those up to the completed one.
LEMMA KeptBuilt ==
    ASSUME KeptRing, AllKept, NEW m \in Mezz, NEW e \in Events, sent[m] = 3 * e + 2,
           e < Len(built) + NSlots,
           NEW new \in SlotRecord, Extends(new, slots[e % NSlots], m, e, 2), Complete(new),
           Emit(e % NSlots, new, Evid(e)),
           sent' = [sent EXCEPT ![m] = @ + 1], UNCHANGED lost
    PROVE  /\ Len(built') = e + 1 /\ built' \in Seq(BuiltEvent) /\ AllKept'
           /\ \A x \in Mezz : sent'[x] >= 3 * e + 3 /\ Word(x, "trailer", e) \notin lost
           /\ ((e % NSlots) - evtRDBuf) % NSlots = e - Len(built)
  <1> DEFINE B == Len(built)
             older == e - B
             event == [evid |-> Evid(e), words |-> new.eventBuf, forced |-> FALSE]
             out == ForcedOut(older)
  <1>1. e \in Nat /\ e \in Int /\ 2 \in 0..2
    BY DEF Events
  <1>2. sent \in [Mezz -> Nat] /\ B \in Nat /\ B \in Int /\ B <= e
    BY <1>1, KeptNextEvent
  <1>3. older \in Nat /\ older < NSlots
    BY <1>1, <1>2, Sizes
  <1>4. evtRDBuf = B % NSlots
    BY DEF KeptRing, KeptPointers
  <1>5. ((e % NSlots) - evtRDBuf) % NSlots = older
    BY <1>1, <1>2, <1>3, <1>4, Sizes, ModDistance
  <1>6. built' = Append(built \o out, event)
    BY <1>5 DEF Emit
  <1>7. Keeps(new, e, sent', lost)
    <2>1. Keeps(slots[e % NSlots], e, sent, lost)
      BY <1>1, KeptSlot
    <2>2. WordOf(m, e, 2) \notin lost
      BY <1>1, NotYetLost
    <2> QED BY <1>1, <1>2, <2>1, <2>2, StoredKeeps
  <1>8. \A x \in Mezz : sent'[x] >= 3 * e + 3 /\ Word(x, "trailer", e) \notin lost
    BY <1>7 DEF Complete, Keeps, Ended
  <1>9. \A x \in Mezz : sent[x] \in Nat /\ sent'[x] \in Nat /\ sent[x] >= 3 * e + 2
    <2> TAKE x \in Mezz
    <2>1. sent'[x] = IF x = m THEN sent[x] + 1 ELSE sent[x]
      BY <1>2
    <2> QED BY <1>1, <1>2, <1>8, <2>1
  <1> HIDE DEF B, older
  <1>10. ASSUME NEW i \in 1..older
         PROVE  /\ out[i] \in BuiltEvent /\ out[i].evid = Evid(B + i - 1)
                /\ \A x \in Mezz : out[i].words[x] = Kept(x, B + i - 1, lost)
    <2> DEFINE f == B + i - 1
    <2>1. f \in Nat /\ f \in B .. B + NSlots - 1 /\ f < e
      BY <1>1, <1>2, <1>3, Sizes DEF older
    <2>2. (evtRDBuf + i - 1) % NSlots = f % NSlots
      <3>1. i - 1 \in Int
        OBVIOUS
      <3>2. ((B % NSlots) + (i - 1)) % NSlots = (B + (i - 1)) % NSlots
        BY ONLY <1>2, <3>1, Sizes, ModAdd
      <3>3. evtRDBuf + i - 1 = (B % NSlots) + (i - 1) /\ B + (i - 1) = f
        <4>1. B % NSlots \in Int
          BY <1>2, Sizes, Division
        <4> QED BY <1>2, <1>4, <4>1
      <3> QED BY <3>2, <3>3
    <2>3. out[i] = LET o == slots[(evtRDBuf + i - 1) % NSlots]
                   IN  [evid |-> o.bufEVID, words |-> o.eventBuf, forced |-> TRUE]
      BY DEF ForcedOut
    <2>4. \A x \in Mezz : sent[x] >= 3 * f + 3
      BY <1>1, <1>9, <2>1
    <2> HIDE DEF f, out
    <2>5. LET o == slots[f % NSlots]
          IN  /\ [evid |-> o.bufEVID, words |-> o.eventBuf, forced |-> TRUE] \in BuiltEvent
              /\ o.bufEVID = Evid(f)
              /\ \A x \in Mezz : o.eventBuf[x] = Kept(x, f, lost)
      BY <2>1, <2>4, KeptOlder DEF B
    <2>6. out[i] \in BuiltEvent /\ out[i].evid = Evid(f)
          /\ \A x \in Mezz : out[i].words[x] = Kept(x, f, lost)
      <3> DEFINE o == slots[f % NSlots]
      <3>1. out[i] = [evid |-> o.bufEVID, words |-> o.eventBuf, forced |-> TRUE]
        BY <2>2, <2>3
      <3>2. /\ [evid |-> o.bufEVID, words |-> o.eventBuf, forced |-> TRUE] \in BuiltEvent
            /\ o.bufEVID = Evid(f)
            /\ \A x \in Mezz : o.eventBuf[x] = Kept(x, f, lost)
        BY <2>5
      <3> HIDE DEF o
      <3>3. out[i].evid = o.bufEVID /\ out[i].words = o.eventBuf
        BY <3>1
      <3> QED BY <3>1, <3>2, <3>3
    <2> QED BY <2>6 DEF f
  <1>11. out \in Seq(BuiltEvent) /\ Len(out) = older
    <2>1. out = [i \in 1..older |-> out[i]]
      BY DEF ForcedOut
    <2> HIDE DEF out
    <2> QED BY <1>3, <1>10, <2>1
  <1>12. event \in BuiltEvent /\ event.evid = Evid(e)
         /\ \A x \in Mezz : event.words[x] = Kept(x, e, lost)
    <2>1. \A x \in Mezz : new.eventBuf[x] = Left(x, e, sent'[x], lost)
      BY <1>7 DEF Keeps
    <2>2. \A x \in Mezz : Left(x, e, sent'[x], lost) = Kept(x, e, lost)
      BY <1>1, <1>8, <1>9 DEF Left
    <2>3. event \in BuiltEvent
      BY <1>1, EvidRange DEF BuiltEvent, SlotRecord
    <2> QED BY <2>1, <2>2, <2>3
  <1> HIDE DEF out, event
  <1>13. built \in Seq(BuiltEvent) /\ Len(built) = B
    BY DEF KeptRing, KeptTypes, B
  <1>14. /\ built \o out \in Seq(BuiltEvent) /\ Len(built \o out) = B + older
         /\ \A k \in 1 .. B + older : (built \o out)[k] = IF k <= B THEN built[k] ELSE out[k - B]
    BY <1>11, <1>13, ConcatProperties
  <1>15. /\ built' \in Seq(BuiltEvent) /\ Len(built') = B + older + 1
         /\ \A k \in 1 .. B + older : built'[k] = IF k <= B THEN built[k] ELSE out[k - B]
         /\ built'[B + older + 1] = event
    <2> DEFINE front == built \o out
    <2>1. front \in Seq(BuiltEvent) /\ Len(front) = B + older /\ built' = Append(front, event)
      BY <1>6, <1>14
    <2> HIDE DEF front
    <2>2. /\ Append(front, event) \in Seq(BuiltEvent) /\ Len(Append(front, event)) = Len(front) + 1
          /\ \A k \in 1 .. Len(front) : Append(front, event)[k] = front[k]
          /\ Append(front, event)[Len(front) + 1] = event
      BY <1>12, <2>1, AppendProperties
    <2> QED BY <1>14, <2>1, <2>2 DEF front
  <1>16. B + older = e
    BY <1>1, <1>2 DEF older
  <1>17. AllKept'
    <2> SUFFICES ASSUME NEW k \in 1 .. e + 1
                 PROVE  /\ built'[k].evid = Evid(k - 1)
                        /\ \A x \in Mezz : built'[k].words[x] = Kept(x, k - 1, lost)
      BY <1>15, <1>16 DEF AllKept, Kept, Behind
    <2>1. CASE k \in 1..B
      <3>1. built'[k] = built[k]
        BY <1>2, <1>3, <1>15, <2>1
      <3> QED BY <1>13, <2>1, <3>1 DEF AllKept
    <2>2. CASE k \in B + 1 .. e
      <3>1. k - B \in 1..older /\ B + (k - B) - 1 = k - 1 /\ built'[k] = out[k - B]
        BY <1>1, <1>2, <1>15, <1>16, <2>2 DEF older
      <3> QED BY <1>10, <3>1
    <2>3. CASE k = e + 1
      <3>1. k - 1 = e /\ built'[k] = event
        BY <1>1, <1>15, <1>16, <2>3
      <3> QED BY <1>12, <3>1
    <2>4. k \in 1..B \/ k \in B + 1 .. e \/ k = e + 1
      BY <1>1, <1>2
    <2> QED BY <2>1, <2>2, <2>3, <2>4
  <1>18. Len(built') = e + 1
    BY <1>15, <1>16
  <1> QED BY <1>5, <1>8, <1>15, <1>17, <1>18 DEF older, B

\* The trailer that completes an event: the window moves behind it.
LEMMA KeptEmit ==
    ASSUME KeptRing, AllKept, NEW m \in Mezz, NEW e \in Events, sent[m] = 3 * e + 2,
           NEW new \in SlotRecord, Extends(new, slots[e % NSlots], m, e, 2), Complete(new),
           Emit(e % NSlots, new, Evid(e)),
           sent' = [sent EXCEPT ![m] = @ + 1],
           evtWRBuf' = [evtWRBuf EXCEPT ![m] = NextSlot(e % NSlots)],
           previousData' = [previousData EXCEPT ![m] = WordOf(m, e, 2)],
           UNCHANGED lost
    PROVE  KeptRing' /\ AllKept'
  <1> DEFINE B == Len(built)
             Cleared(t) == [EmptySlot EXCEPT !.bufEVID = slots[t].bufEVID]
  <1>1. e \in Nat /\ e \in Int /\ 2 \in 0..2
    BY DEF Events
  <1>2. sent \in [Mezz -> Nat] /\ B \in Nat /\ B \in Int /\ B <= e /\ e < B + NSlots
    <2>1. /\ sent \in [Mezz -> Nat] /\ B \in Nat /\ B <= e
          /\ e < B + NSlots \/ (e = B + NSlots /\ 2 = 0)
      BY <1>1, KeptNextEvent
    <2> QED BY <2>1
  <1>3. /\ Len(built') = e + 1 /\ built' \in Seq(BuiltEvent) /\ AllKept'
        /\ \A x \in Mezz : sent'[x] >= 3 * e + 3 /\ Word(x, "trailer", e) \notin lost
        /\ ((e % NSlots) - evtRDBuf) % NSlots = e - B
    BY <1>2, KeptBuilt
  <1>4. /\ sent' \in [Mezz -> 0 .. 3 * NEvents]
        /\ sent'[m] = 3 * e + 2 + 1 /\ \A x \in Mezz : x # m => sent'[x] = sent[x]
        /\ \A x \in Mezz : 3 * B <= sent'[x] /\ sent'[x] <= 3 * (B + NSlots)
        /\ LostInPast'
    BY <1>1, <1>2, MoveOn
  <1>5. /\ \A x \in Mezz : x # m => Writes(x, sent'[x], lost') = Writes(x, sent[x], lost)
        /\ Writes(m, sent'[m], lost') = e + 1
    BY <1>1, <1>2, MovePointers
  <1>6. NotSeen' /\ previousData' = [x \in Mezz |-> previousData'[x]]
    BY <1>1, MoveSeen
  <1>7. NextSlot(e % NSlots) = (e + 1) % NSlots /\ NextSlot(e % NSlots) \in Slots
    BY <1>1, NextPlace, PlaceInRing
  <1>8. evtRDBuf = B % NSlots /\ evtRDBuf' = (e + 1) % NSlots
    BY <1>7 DEF KeptRing, KeptPointers, Emit
  <1>9. /\ slots' = [t \in Slots |-> slots'[t]]
        /\ \A t \in Slots : slots'[t] = IF (t - evtRDBuf) % NSlots <= e - B
                                        THEN Cleared(t) ELSE slots[t]
    BY <1>3 DEF Emit
  <1>10. ASSUME NEW t \in Slots
         PROVE  /\ Cleared(t) \in SlotRecord /\ Cleared(t).bufEmpty = TRUE
                /\ Cleared(t).gotTrailer = {} /\ Cleared(t).eventBuf = NoWords
    <2>1. slots[t].bufEVID \in 0 .. EvidMod - 1
      BY DEF KeptRing, KeptTypes, SlotRecord
    <2>2. NoWords \in [Mezz -> Seq(Words)]
      BY DEF NoWords
    <2> QED BY <2>1, <2>2 DEF EmptySlot, SlotRecord
  <1> HIDE DEF Cleared, B
  <1>11. KeptTypes'
    <2>1. slots' \in [Slots -> SlotRecord]
      <3>1. \A t \in Slots : slots'[t] \in SlotRecord
        BY <1>9, <1>10 DEF KeptRing, KeptTypes
      <3> QED BY <1>9, <3>1
    <2>2. evtWRBuf' \in [Mezz -> Slots]
      BY <1>7 DEF KeptRing, KeptTypes
    <2>3. evtRDBuf' \in Slots
      BY <1>7, <1>8
    <2> QED BY <1>3, <1>4, <1>6, <2>1, <2>2, <2>3 DEF KeptTypes
  <1>12. ASSUME NEW f \in Nat, f \in e + 1 .. e + NSlots
         PROVE  Keeps(slots'[f % NSlots], f, sent', lost)
    <2>1. f % NSlots \in Slots
      BY PlaceInRing
    <2>2. CASE f < B + NSlots
      <3>1. ((f % NSlots) - evtRDBuf) % NSlots = f - B
        <4>1. f \in Int /\ B <= f /\ f - B < NSlots
          BY <1>1, <1>2, <1>12, <2>2, Sizes
        <4> QED BY <1>2, <1>8, <4>1, Sizes, ModDistance
      <3>2. ~(f - B <= e - B)
        BY <1>1, <1>2, <1>12, Sizes
      <3>3. slots'[f % NSlots] = slots[f % NSlots]
        BY <1>9, <2>1, <3>1, <3>2
      <3>4. Keeps(slots[f % NSlots], f, sent, lost)
        <4>1. f \in B .. B + NSlots - 1
          BY <1>1, <1>2, <1>12, <2>2, Sizes
        <4> QED BY <4>1 DEF KeptRing, KeptWindow, B
      <3>5. Keeps(slots[f % NSlots], f, sent', lost)
        <4>1. f # e
          BY <1>1, <1>12, Sizes
        <4> QED BY <1>1, <1>2, <3>4, <4>1, OthersKeep
      <3> QED BY <3>3, <3>5
    <2>3. CASE f >= B + NSlots
      <3> DEFINE g == f - NSlots
      <3>1. g \in Int /\ B <= g /\ g <= e /\ g - B < NSlots /\ g + NSlots = f
        BY <1>1, <1>2, <1>12, <2>3, Sizes
      <3> HIDE DEF g
      <3>2. g % NSlots = f % NSlots
        BY <3>1, Sizes, ModPeriod
      <3>3. ((f % NSlots) - evtRDBuf) % NSlots = g - B
        BY <1>2, <1>8, <3>1, <3>2, Sizes, ModDistance
      <3>4. g - B <= e - B
        BY <1>1, <1>2, <3>1
      <3>5. slots'[f % NSlots] = Cleared(f % NSlots)
        BY <1>9, <2>1, <3>3, <3>4
      <3>6. \A x \in Mezz : sent'[x] \in Nat /\ sent'[x] <= 3 * f
        <4> TAKE x \in Mezz
        <4>1. sent'[x] \in Nat /\ sent'[x] <= 3 * (B + NSlots)
          BY <1>4, Sizes
        <4> QED BY <1>2, <2>3, <4>1, Sizes
      <3>7. \A x \in Mezz : Left(x, f, sent'[x], lost) = <<>> /\ ~Ended(x, f, sent'[x], lost)
        BY <3>6 DEF Left, Ended
      <3>8. Cleared(f % NSlots).gotTrailer = {x \in Mezz : Ended(x, f, sent'[x], lost)}
        BY <1>10, <2>1, <3>7
      <3>9. Cleared(f % NSlots).eventBuf = [x \in Mezz |-> Left(x, f, sent'[x], lost)]
        BY <1>10, <2>1, <3>7 DEF NoWords
      <3>10. Cleared(f % NSlots).bufEmpty = TRUE
        BY <1>10, <2>1
      <3>11. Keeps(Cleared(f % NSlots), f, sent', lost)
        BY <3>6, <3>8, <3>9, <3>10 DEF Keeps
      <3> QED BY <3>5, <3>11
    <2> QED BY <1>2, <2>2, <2>3, Sizes
  <1>13. KeptWindow'
    <2>1. \A f \in Len(built') .. Len(built') + NSlots - 1 : Keeps(slots'[f % NSlots], f, sent', lost')
      <3>1. \A f \in Len(built') .. Len(built') + NSlots - 1 : f \in Nat /\ f \in e + 1 .. e + NSlots
        BY <1>1, <1>3, Sizes
      <3> QED BY <1>12, <3>1
    <2> QED BY <2>1 DEF KeptWindow, Keeps
  <1>14. KeptPointers'
    <2>1. ASSUME NEW x \in Mezz PROVE evtWRBuf'[x] = Writes(x, sent'[x], lost') % NSlots
      <3>1. CASE x = m
        <4>1. evtWRBuf'[m] = NextSlot(e % NSlots)
          BY DEF KeptRing, KeptTypes
        <4> QED BY <1>5, <1>7, <3>1, <4>1
      <3>2. CASE x # m
        <4>1. evtWRBuf'[x] = evtWRBuf[x]
          BY <3>2 DEF KeptRing, KeptTypes
        <4> QED BY <1>5, <3>2, <4>1 DEF KeptRing, KeptPointers
      <3> QED BY <3>1, <3>2
    <2> QED BY <1>3, <1>8, <2>1 DEF KeptPointers
  <1>15. KeptSpread'
    <2> SUFFICES ASSUME NEW x \in Mezz
                 PROVE  /\ 3 * (e + 1) <= sent'[x] /\ sent'[x] <= 3 * (e + 1 + NSlots)
                        /\ Word(x, "trailer", (e + 1) - 1) \notin lost
      BY <1>3 DEF KeptSpread
    <2>1. sent'[x] \in Nat /\ sent'[x] <= 3 * (B + NSlots) /\ sent'[x] >= 3 * e + 3
      BY <1>3, <1>4, Sizes
    <2>2. 3 * (e + 1) <= sent'[x] /\ sent'[x] <= 3 * (e + 1 + NSlots)
      BY <1>1, <1>2, <2>1, Sizes
    <2>3. (e + 1) - 1 = e
      BY <1>1
    <2> QED BY <1>3, <2>2, <2>3
  <1> QED BY <1>3, <1>4, <1>6, <1>11, <1>13, <1>14, <1>15 DEF KeptRing

--------------------------------------------------------------------------------
(* Every step, and the theorem. *)

LEMMA KeptInit == ASSUME Init PROVE KeptInv
  <1> USE Sizes
  <1>1. NoWords \in [Mezz -> Seq(Words)]
    BY DEF NoWords
  <1>2. EmptySlot \in SlotRecord
    BY <1>1 DEF EmptySlot, SlotRecord
  <1>3. Len(built) = 0 /\ built \in Seq(BuiltEvent)
    BY DEF Init
  <1>4. KeptTypes
    BY <1>2, <1>3 DEF Init, KeptTypes, Slots
  <1>5. 0 % NSlots = 0
    <2>1. 0 \in Int /\ 0 <= 0 /\ 0 - 0 < NSlots /\ 0 - 0 = 0
      OBVIOUS
    <2>2. 0 % NSlots \in 0 .. NSlots - 1 /\ 0 \div NSlots \in Int
          /\ 0 = NSlots * (0 \div NSlots) + (0 % NSlots)
      BY Division
    <2>3. NSlots * (0 \div NSlots) + (0 % NSlots) = NSlots * 0 + 0
      BY <2>2
    <2>4. 0 \in 0 .. NSlots - 1
      OBVIOUS
    <2> QED BY <2>1, <2>2, <2>3, <2>4, Unique
  <1>6. \A m \in Mezz : sent[m] = 0
    BY DEF Init
  <1>7. \A m \in Mezz : Writes(m, sent[m], lost) = 0
    BY <1>6 DEF Writes
  <1>8. KeptPointers
    BY <1>3, <1>5, <1>7 DEF Init, KeptPointers
  <1>9. KeptWindow
    <2> SUFFICES ASSUME NEW e \in Nat, e <= NSlots - 1
                 PROVE  Keeps(slots[e % NSlots], e, sent, lost)
      BY <1>3 DEF KeptWindow
    <2>1. slots[e % NSlots] = EmptySlot
      BY Division DEF Init, Slots
    <2>2. \A m \in Mezz : Left(m, e, sent[m], lost) = <<>> /\ ~Ended(m, e, sent[m], lost)
      BY <1>6 DEF Left, Ended
    <2>3. EmptySlot.gotTrailer = {m \in Mezz : Ended(m, e, sent[m], lost)}
      BY <2>2 DEF EmptySlot
    <2>4. EmptySlot.eventBuf = [m \in Mezz |-> Left(m, e, sent[m], lost)]
      BY <2>2 DEF EmptySlot, NoWords
    <2>5. EmptySlot.bufEmpty = TRUE /\ \A m \in Mezz : sent[m] <= 3 * e
      BY <1>6 DEF EmptySlot
    <2> QED BY <2>1, <2>3, <2>4, <2>5 DEF Keeps
  <1>10. KeptSpread
    BY <1>3, <1>6 DEF KeptSpread
  <1>11. NotSeen
    BY DEF Init, NotSeen, NoWord, Word
  <1>12. LostInPast /\ AllKept
    BY <1>3 DEF Init, LostInPast, AllKept
  <1> QED BY <1>4, <1>8, <1>9, <1>10, <1>11, <1>12 DEF KeptInv, KeptRing

LEMMA KeptDeliver ==
    ASSUME KeptInv, HeadersArrive, NEW m \in Mezz, Deliver(m)
    PROVE  KeptInv'
  <1>1. /\ DAQState = "Running" /\ sent[m] < 3 * NEvents
        /\ Assemble(NthWord(m, sent[m]))
        /\ sent' = [sent EXCEPT ![m] = @ + 1]
        /\ UNCHANGED <<lost, repeated, faults>>
    BY DEF Deliver
  <1>2. KeptRing /\ AllKept /\ sent[m] \in 0 .. 3 * NEvents
    <2>1. KeptRing /\ AllKept
      BY <1>1 DEF KeptInv
    <2> QED BY <2>1 DEF KeptRing, KeptTypes
  <1>3. PICK e \in Events : \E r \in 0..2 :
           /\ sent[m] = 3 * e + r
           /\ r = 0 => NthWord(m, sent[m]) = Word(m, "header", e)
           /\ r = 1 => NthWord(m, sent[m]) = Word(m, "hit", e)
           /\ r = 2 => NthWord(m, sent[m]) = Word(m, "trailer", e)
    BY <1>1, <1>2, TheWord
  <1>4. PICK r \in 0..2 :
           /\ sent[m] = 3 * e + r
           /\ r = 0 => NthWord(m, sent[m]) = Word(m, "header", e)
           /\ r = 1 => NthWord(m, sent[m]) = Word(m, "hit", e)
           /\ r = 2 => NthWord(m, sent[m]) = Word(m, "trailer", e)
    BY <1>3
  <1>5. e \in Nat
    BY DEF Events
  <1>6. ASSUME built' = built PROVE AllKept'
    BY <1>1, <1>2, <1>6 DEF AllKept, Kept, Behind
  <1>7. CASE r = 0
    <2> DEFINE w == Word(m, "header", e)
    <2>1. w.kind = "header"
      BY DEF Word
    <2>2. Assemble(w) /\ sent[m] = 3 * e
      BY <1>1, <1>4, <1>5, <1>7
    <2> HIDE DEF w
    <2>3. PlaceHeader(w) \/ TooManyEvents(w)
      BY <2>1, <2>2 DEF Assemble
    <2>4. CASE PlaceHeader(w)
      <3>1. KeptRing' /\ built' = built
        BY <1>1, <1>2, <2>2, <2>4, KeptHeader DEF w
      <3> QED BY <1>6, <3>1 DEF KeptInv
    <2>5. CASE TooManyEvents(w)
      <3>1. built' = built /\ DAQState' = "Idle"
        BY <2>5 DEF TooManyEvents
      <3> QED BY <1>6, <3>1 DEF KeptInv
    <2> QED BY <2>3, <2>4, <2>5
  <1>8. CASE r = 1
    <2> DEFINE w == Word(m, "hit", e)
    <2>1. w.kind = "hit"
      BY DEF Word
    <2>2. Assemble(w) /\ sent[m] = 3 * e + 1
      BY <1>1, <1>4, <1>8
    <2> HIDE DEF w
    <2>3. PlaceHit(w)
      BY <2>1, <2>2 DEF Assemble
    <2>4. KeptRing' /\ built' = built
      BY <1>1, <1>2, <2>2, <2>3, KeptHit DEF w
    <2> QED BY <1>6, <2>4 DEF KeptInv
  <1>9. CASE r = 2
    <2> DEFINE w == Word(m, "trailer", e)
               s == e % NSlots
               new == TrailerSlot(w)
    <2>1. w.kind = "trailer" /\ w.mezz = m /\ w.event = e
      BY DEF Word
    <2>2. Assemble(w) /\ sent[m] = 3 * e + 2 /\ 2 \in 0..2
      BY <1>1, <1>4, <1>9
    <2>3. w = WordOf(m, e, 2)
      BY <1>5, <2>2, WordKinds
    <2>4. /\ new \in SlotRecord /\ Extends(new, slots[s], m, e, 2)
          /\ evtWRBuf[m] = s /\ previousData[m] # w
      BY <1>2, <2>2, KeptTrailerSlot
    <2>5. e < Len(built) + NSlots
      BY <1>2, <1>5, <2>2, KeptNextEvent
    <2> HIDE DEF w
    <2>6. PlaceTrailer(w)
      BY <2>1, <2>2 DEF Assemble
    <2>7. /\ IF Complete(new) THEN Emit(s, new, Evid(e))
             ELSE slots' = [slots EXCEPT ![s] = new] /\ UNCHANGED <<evtRDBuf, built>>
          /\ evtWRBuf' = [evtWRBuf EXCEPT ![m] = NextSlot(s)]
          /\ previousData' = [previousData EXCEPT ![m] = w]
          /\ UNCHANGED DAQState
      BY <2>1, <2>4, <2>6 DEF PlaceTrailer
    <2> HIDE DEF new
    <2>8. CASE Complete(new)
      <3>1. KeptRing' /\ AllKept'
        BY <1>1, <1>2, <2>2, <2>3, <2>4, <2>7, <2>8, KeptEmit
      <3> QED BY <3>1 DEF KeptInv
    <2>9. CASE ~Complete(new)
      <3>1. evtWRBuf' = [evtWRBuf EXCEPT ![m] = IF 2 = 2 THEN NextSlot(s) ELSE s]
        BY <2>7
      <3>2. KeptRing'
        BY <1>1, <1>2, <2>2, <2>3, <2>4, <2>5, <2>7, <2>9, <3>1, KeptStore
      <3> QED BY <1>6, <2>7, <2>9, <3>2 DEF KeptInv
    <2> QED BY <2>8, <2>9
  <1>10. r = 0 \/ r = 1 \/ r = 2
    OBVIOUS
  <1> QED BY <1>7, <1>8, <1>9, <1>10

\* Words that are skipped are hits or trailers, or headers do not all arrive any more.
LEMMA KeptSkip ==
    ASSUME KeptInv, HeadersArrive, HeadersArrive', NEW m \in Mezz, NEW n \in {1, 3},
           Skip(m, n), n = 3 => sent[m] % 3 = 0
    PROVE  KeptInv'
  <1>1. /\ DAQState = "Running" /\ sent[m] + n <= 3 * NEvents
        /\ sent' = [sent EXCEPT ![m] = @ + n]
        /\ lost' = lost \cup {NthWord(m, sent[m] + i) : i \in 0 .. n - 1}
        /\ UNCHANGED <<previousData, slots, evtWRBuf, evtRDBuf, built, DAQState, repeated>>
    BY DEF Skip
  <1>2. KeptRing /\ AllKept /\ sent[m] \in 0 .. 3 * NEvents /\ sent[m] < 3 * NEvents
    <2>1. KeptRing /\ AllKept
      BY <1>1 DEF KeptInv
    <2>2. sent[m] \in 0 .. 3 * NEvents
      BY <2>1 DEF KeptRing, KeptTypes
    <2> QED BY <1>1, <2>1, <2>2, Sizes
  <1>3. PICK e \in Events : \E r \in 0..2 :
           /\ sent[m] = 3 * e + r /\ sent[m] % 3 = r
           /\ r = 0 => NthWord(m, sent[m]) = Word(m, "header", e)
           /\ r = 1 => NthWord(m, sent[m]) = Word(m, "hit", e)
           /\ r = 2 => NthWord(m, sent[m]) = Word(m, "trailer", e)
    BY <1>2, TheWord
  <1>4. PICK r \in 0..2 :
           /\ sent[m] = 3 * e + r /\ sent[m] % 3 = r
           /\ r = 0 => NthWord(m, sent[m]) = Word(m, "header", e)
           /\ r = 1 => NthWord(m, sent[m]) = Word(m, "hit", e)
           /\ r = 2 => NthWord(m, sent[m]) = Word(m, "trailer", e)
    BY <1>3
  <1>5. NthWord(m, sent[m]) \in lost'
    <2>1. 0 \in 0 .. n - 1 /\ sent[m] + 0 = sent[m]
      BY <1>2
    <2>2. NthWord(m, sent[m] + 0) \in lost'
      BY <1>1, <2>1
    <2> QED BY <2>1, <2>2
  <1>6. r # 0
    <2>1. NthWord(m, sent[m]).kind # "header"
      BY <1>5 DEF HeadersArrive
    <2>2. Word(m, "header", e).kind = "header"
      BY DEF Word
    <2> QED BY <1>4, <2>1, <2>2
  <1>7. n = 1 /\ r \in 1..2
    BY <1>4, <1>6
  <1>8. NthWord(m, sent[m]) = WordOf(m, e, r)
    <2>1. e \in Nat
      BY DEF Events
    <2> QED BY <1>4, <1>7, <2>1, WordKinds
  <1>9. lost' = lost \cup {WordOf(m, e, r)}
    <2>1. {NthWord(m, sent[m] + i) : i \in 0 .. n - 1} = {NthWord(m, sent[m])}
      <3>1. 0 .. n - 1 = {0} /\ sent[m] + 0 = sent[m]
        BY <1>2, <1>7
      <3> QED BY <3>1
    <2> QED BY <1>1, <1>8, <2>1
  <1>10. sent' = [sent EXCEPT ![m] = @ + 1]
    BY <1>1, <1>7
  <1>11. KeptRing' /\ AllKept'
    <2>1. r \in 1..2 /\ e \in Events /\ sent[m] = 3 * e + r /\ m \in Mezz
      BY <1>4, <1>7
    <2>2. UNCHANGED <<slots, evtWRBuf, previousData, evtRDBuf, built>>
      BY <1>1
    <2>3. KeptRing' /\ (AllKept => AllKept')
      BY ONLY <1>2, <1>9, <1>10, <2>1, <2>2, KeptLose, Zenon
    <2> QED BY <1>2, <2>3
  <1> QED BY <1>11 DEF KeptInv

LEMMA KeptNext == ASSUME KeptInv, [Next]_vars PROVE KeptInv'
  <1> SUFFICES ASSUME HeadersArrive' PROVE KeptInv'
    BY DEF KeptInv
  <1>1. CASE UNCHANGED vars
    <2>1. HeadersArrive
      BY <1>1 DEF vars, HeadersArrive
    <2>2. AllKept'
      BY <1>1, <2>1 DEF vars, KeptInv, AllKept, Kept, Behind
    <2>3. ASSUME DAQState' = "Running" PROVE KeptRing'
      <3>1. KeptRing
        BY <1>1, <2>1, <2>3 DEF vars, KeptInv
      <3>2. KeptTypes' /\ KeptSpread' /\ NotSeen' /\ LostInPast'
        BY <1>1, <3>1 DEF vars, KeptRing, KeptTypes, KeptSpread, NotSeen, LostInPast
      <3>3. KeptPointers'
        BY <1>1, <3>1 DEF vars, KeptRing, KeptPointers, Writes
      <3>4. KeptWindow'
        <4>1. \A f \in Len(built') .. Len(built') + NSlots - 1 : Keeps(slots'[f % NSlots], f, sent', lost')
          BY <1>1, <3>1 DEF vars, KeptRing, KeptWindow
        <4> QED BY <4>1 DEF KeptWindow, Keeps
      <3> QED BY <3>2, <3>3, <3>4 DEF KeptRing
    <2> QED BY <2>2, <2>3 DEF KeptInv
  <1>2. CASE Next
    <2>1. PICK m \in Mezz : Deliver(m) \/ LoseWord(m) \/ LoseFragment(m) \/ RepeatTrailer(m)
      BY <1>2 DEF Next
    <2>2. CASE Deliver(m)
      <3>1. HeadersArrive
        BY <2>2 DEF Deliver, HeadersArrive
      <3> QED BY <2>2, <3>1, KeptDeliver
    <2>3. ASSUME NEW n \in {1, 3}, Skip(m, n) PROVE HeadersArrive
      BY <2>3 DEF Skip, HeadersArrive
    <2>4. CASE LoseWord(m)
      <3>1. Skip(m, 1)
        BY <2>4 DEF LoseWord
      <3> QED BY <2>3, <3>1, KeptSkip
    <2>5. CASE LoseFragment(m)
      <3>1. Skip(m, 3) /\ sent[m] % 3 = 0
        BY <2>5 DEF LoseFragment
      <3> QED BY <2>3, <3>1, KeptSkip
    <2>6. CASE RepeatTrailer(m)
      <3>1. repeated' # {}
        BY <2>6 DEF RepeatTrailer
      <3> QED BY <3>1 DEF HeadersArrive
    <2> QED BY <2>1, <2>2, <2>4, <2>5, <2>6
  <1> QED BY <1>1, <1>2

\* Whatever hits and trailers the links lose, and wherever: until a header is lost or a
\* trailer repeated, DataAssembling emits the events once and in the order of the
\* triggers, each with all of its words that arrived, forced out or not.
THEOREM LossesStayContained == Spec => []DamageContained
  <1>1. Init => KeptInv
    BY KeptInit
  <1>2. KeptInv /\ [Next]_vars => KeptInv'
    BY KeptNext
  <1>3. KeptInv => DamageContained
    BY DEF KeptInv, AllKept, DamageContained
  <1> QED BY <1>1, <1>2, <1>3, PTL DEF Spec

--------------------------------------------------------------------------------
(***************************************************************************)
(* Whatever is damaged.  Every step of the builder puts one word into one  *)
(* slot, or none, and may then emit the slots up to it (Move).  Counted as *)
(* Buffer counts them, emission moves no buffer: it only brings empty ones *)
(* in at the end.  So a step appends one word to one buffer.               *)
(***************************************************************************)

RingTypes ==
    /\ slots \in [Slots -> SlotRecord]
    /\ evtWRBuf \in [Mezz -> Slots] /\ evtRDBuf \in Slots
    /\ built \in Seq(BuiltEvent)
    /\ previousData \in [Mezz -> Words \cup {NoWord}]
    /\ DAQState \in {"Running", "Idle"}

\* The slot has one more word, or is as it was when the word repeats the last one.
TakesWord(slot, s, w) ==
    \/ slot.eventBuf = [slots[s].eventBuf EXCEPT ![w.mezz] = Append(@, w)]
    \/ previousData[w.mezz] = w /\ slot.eventBuf = slots[s].eventBuf

\* What a step does to the buffers: slot s becomes slot, and may be emitted.
Move(s, slot, w) ==
    /\ TakesWord(slot, s, w)
    /\ \/ slots' = [slots EXCEPT ![s] = slot] /\ UNCHANGED <<evtRDBuf, built>>
       \/ \E v \in 0 .. EvidMod - 1 : Emit(s, slot, v)

LEMMA InRing == ASSUME NEW a \in Int PROVE a % NSlots \in Slots
  BY Sizes, Division DEF Slots

LEMMA HeaderMoves ==
    ASSUME RingTypes, NEW w \in Words, PlaceHeader(w)
    PROVE  /\ \E s \in Slots : \E slot \in SlotRecord : Move(s, slot, w)
           /\ evtWRBuf' \in [Mezz -> Slots]
           /\ previousData' = [previousData EXCEPT ![w.mezz] = w] /\ DAQState' = DAQState
  <1> DEFINE m == w.mezz
             evid == Evid(w.event)
             P == Places(m, evid)
             k == CHOOSE p \in P : \A q \in P : p <= q
             s == (evtWRBuf[m] + k) % NSlots
             slot == IF slots[s].bufEmpty THEN Opened(slots[s], evid) ELSE slots[s]
             noted == [slot EXCEPT !.gotHeader = @ \cup {m}]
             new == Stored(noted, w)
  <1>1. m \in Mezz /\ w.event \in Nat
    BY DEF Words, Events
  <1>2. /\ P # {} /\ evtWRBuf' = [evtWRBuf EXCEPT ![m] = s]
        /\ slots' = [slots EXCEPT ![s] = new]
        /\ previousData' = [previousData EXCEPT ![m] = w]
        /\ UNCHANGED <<evtRDBuf, built, DAQState>>
    BY DEF PlaceHeader
  <1>3. s \in Slots
    <2>1. P \in SUBSET Nat
      BY Sizes DEF Places, Slots
    <2>2. \E p \in P : \A q \in P : p <= q
      BY ONLY <1>2, <2>1, LeastNumber
    <2> HIDE DEF P
    <2>3. k \in P
      BY <2>2, Zenon
    <2> HIDE DEF k
    <2>4. evtWRBuf[m] \in Nat /\ k \in Nat
      BY <1>1, <2>1, <2>3, Sizes DEF RingTypes, Slots
    <2> QED BY <2>4, InRing
  <1> HIDE DEF k, s, P, m
  <1>4. slots[s] \in SlotRecord
    BY <1>3 DEF RingTypes
  <1>5. evid \in 0 .. EvidMod - 1
    BY <1>1, EvidRange
  <1> HIDE DEF evid
  <1>6. slot \in SlotRecord /\ slot.eventBuf = slots[s].eventBuf
    BY <1>4, <1>5, OpenedFields
  <1> HIDE DEF slot
  <1>7. noted \in SlotRecord /\ noted.eventBuf = slot.eventBuf
    BY <1>1, <1>6, HeaderFields
  <1> HIDE DEF noted
  <1>8. new \in SlotRecord /\ new.eventBuf = [noted.eventBuf EXCEPT ![m] = Append(@, w)]
    BY <1>1, <1>7, StoredFields DEF m
  <1> HIDE DEF new
  <1>9. Move(s, new, w)
    BY <1>2, <1>6, <1>7, <1>8 DEF Move, TakesWord, m
  <1>10. evtWRBuf' \in [Mezz -> Slots]
    BY <1>2, <1>3 DEF RingTypes
  <1> QED BY <1>2, <1>3, <1>8, <1>9, <1>10 DEF m

LEMMA HitMoves ==
    ASSUME RingTypes, NEW w \in Words, PlaceHit(w)
    PROVE  /\ \E s \in Slots : \E slot \in SlotRecord : Move(s, slot, w)
           /\ evtWRBuf' \in [Mezz -> Slots]
           /\ previousData' = [previousData EXCEPT ![w.mezz] = w] /\ DAQState' = DAQState
  <1> DEFINE m == w.mezz
             s == evtWRBuf[m]
             evid == Len(built) % EvidMod
             slot == IF slots[s].bufEmpty THEN Opened(slots[s], evid) ELSE slots[s]
  <1>1. m \in Mezz /\ s \in Slots /\ evtWRBuf' \in [Mezz -> Slots]
    BY DEF Words, RingTypes, PlaceHit
  <1>2. /\ \/ slots' = slots /\ previousData[m] = w
           \/ slots' = [slots EXCEPT ![s] = Stored(slot, w)]
        /\ previousData' = [previousData EXCEPT ![m] = w]
        /\ UNCHANGED <<evtRDBuf, built, DAQState>>
    BY DEF PlaceHit
  <1>3. slots[s] \in SlotRecord
    BY <1>1 DEF RingTypes
  <1>4. evid \in 0 .. EvidMod - 1
    <2>1. Len(built) \in Int
      BY DEF RingTypes
    <2> QED BY <2>1, Sizes, Division
  <1> HIDE DEF evid, s
  <1>5. slot \in SlotRecord /\ slot.eventBuf = slots[s].eventBuf
    BY <1>3, <1>4, OpenedFields
  <1> HIDE DEF slot
  <1>6. Stored(slot, w) \in SlotRecord
        /\ Stored(slot, w).eventBuf = [slot.eventBuf EXCEPT ![m] = Append(@, w)]
    BY <1>1, <1>5, StoredFields
  <1>7. CASE slots' = slots /\ previousData[m] = w
    <2>1. slots' = [slots EXCEPT ![s] = slots[s]]
      BY <1>1, <1>7 DEF RingTypes
    <2>2. Move(s, slots[s], w)
      BY <1>2, <1>7, <2>1 DEF Move, TakesWord
    <2> QED BY <1>1, <1>2, <1>3, <2>2
  <1>8. CASE slots' = [slots EXCEPT ![s] = Stored(slot, w)]
    <2>1. Move(s, Stored(slot, w), w)
      BY <1>2, <1>5, <1>6, <1>8 DEF Move, TakesWord
    <2> QED BY <1>1, <1>2, <1>6, <2>1
  <1> QED BY <1>2, <1>7, <1>8

LEMMA TrailerMoves ==
    ASSUME RingTypes, NEW w \in Words, PlaceTrailer(w)
    PROVE  /\ \E s \in Slots : \E slot \in SlotRecord : Move(s, slot, w)
           /\ evtWRBuf' \in [Mezz -> Slots]
           /\ previousData' = [previousData EXCEPT ![w.mezz] = w] /\ DAQState' = DAQState
  <1> DEFINE m == w.mezz
             s == evtWRBuf[m]
             evid == Evid(w.event)
             noted == Noted(slots[s], m)
             new == TrailerSlot(w)
  <1>1. m \in Mezz /\ s \in Slots /\ w.event \in Nat
    BY DEF Words, Events, RingTypes
  <1>2. slots[s] \in SlotRecord
    BY <1>1 DEF RingTypes
  <1>3. evid \in 0 .. EvidMod - 1
    BY <1>1, EvidRange
  <1>4. noted \in SlotRecord /\ noted.eventBuf = slots[s].eventBuf
    BY <1>1, <1>2, NotedFields
  <1>5. /\ Opened(noted, evid) \in SlotRecord
        /\ Opened(noted, evid).eventBuf = noted.eventBuf
    BY <1>3, <1>4, OpenedFields
  <1>6. \/ new = Stored(noted, w)
        \/ previousData[m] = w /\ new = noted
        \/ new = Stored(Opened(noted, evid), w)
    BY DEF TrailerSlot
  <1>7. /\ \/ Emit(s, new, evid)
           \/ slots' = [slots EXCEPT ![s] = new] /\ UNCHANGED <<evtRDBuf, built>>
        /\ evtWRBuf' = evtWRBuf \/ evtWRBuf' = [evtWRBuf EXCEPT ![m] = NextSlot(s)]
        /\ previousData' = [previousData EXCEPT ![m] = w] /\ DAQState' = DAQState
    BY DEF PlaceTrailer
  <1> HIDE DEF new, noted, evid, s
  <1>8. /\ Stored(noted, w) \in SlotRecord
        /\ Stored(noted, w).eventBuf = [noted.eventBuf EXCEPT ![m] = Append(@, w)]
    BY <1>1, <1>4, StoredFields
  <1>9. /\ Stored(Opened(noted, evid), w) \in SlotRecord
        /\ Stored(Opened(noted, evid), w).eventBuf
             = [Opened(noted, evid).eventBuf EXCEPT ![m] = Append(@, w)]
    BY <1>1, <1>5, StoredFields
  <1>10. new \in SlotRecord /\ TakesWord(new, s, w)
    BY <1>4, <1>5, <1>6, <1>8, <1>9 DEF TakesWord
  <1>11. Move(s, new, w)
    BY <1>3, <1>7, <1>10 DEF Move
  <1>12. evtWRBuf' \in [Mezz -> Slots]
    <2>1. NextSlot(s) \in Slots
      <3>1. s + 1 \in Int
        BY <1>1, Sizes DEF Slots
      <3> QED BY <3>1, InRing DEF NextSlot
    <2> QED BY <1>7, <2>1 DEF RingTypes
  <1> QED BY <1>1, <1>7, <1>10, <1>11, <1>12

\* A step of the builder is a move, or the builder gives up.
LEMMA AssembleMoves ==
    ASSUME RingTypes, NEW w \in Words, Assemble(w)
    PROVE  /\ \/ DAQState' = "Idle" /\ UNCHANGED <<slots, evtRDBuf, built, previousData>>
              \/ /\ \E s \in Slots : \E slot \in SlotRecord : Move(s, slot, w)
                 /\ previousData' = [previousData EXCEPT ![w.mezz] = w] /\ DAQState' = DAQState
           /\ evtWRBuf' \in [Mezz -> Slots]
  <1>1. w.kind = "header" \/ w.kind = "hit" \/ w.kind = "trailer"
    BY DEF Words, Kinds
  <1>2. PlaceHeader(w) \/ TooManyEvents(w) \/ PlaceHit(w) \/ PlaceTrailer(w)
    BY <1>1 DEF Assemble
  <1>3. CASE TooManyEvents(w)
    <2>1. \A t \in Slots : NextSlot(t) \in Slots
      <3>1. \A t \in Slots : t + 1 \in Int
        BY Sizes DEF Slots
      <3> QED BY <3>1, InRing DEF NextSlot
    <2>2. w.mezz \in Mezz
      BY DEF Words
    <2> QED BY <1>3, <2>1, <2>2 DEF TooManyEvents, RingTypes
  <1> QED BY <1>2, <1>3, HeaderMoves, HitMoves, TrailerMoves

--------------------------------------------------------------------------------
(* The buffers, and what a move does to them. *)

\* Buffer of events bu and a ring sl that is read from rd on.
BufferOf(bu, sl, rd, n) ==
    IF n <= Len(bu) THEN bu[n].words ELSE sl[(rd + n - Len(bu) - 1) % NSlots].eventBuf

\* Slot s is the place after rd that its distance from rd says, and no other.
LEMMA Distance ==
    ASSUME NEW r \in Slots, NEW s \in Slots
    PROVE  /\ (s - r) % NSlots \in 0 .. NSlots - 1
           /\ (r + ((s - r) % NSlots)) % NSlots = s
           /\ \A d \in 0 .. NSlots - 1 : (r + d) % NSlots = s => d = (s - r) % NSlots
  <1>1. r \in Int /\ s \in Int /\ s - r \in Int /\ r % NSlots = r /\ s % NSlots = s
    BY Sizes DEF Slots
  <1>2. (s - r) % NSlots \in 0 .. NSlots - 1
    BY <1>1, Sizes, Division
  <1>3. (r + ((s - r) % NSlots)) % NSlots = s
    <2>1. (((s - r) % NSlots) + r) % NSlots = ((s - r) + r) % NSlots
      BY ONLY <1>1, Sizes, ModAdd
    <2>2. (s - r) + r = s
      BY <1>1
    <2>3. ((s - r) % NSlots) + r = r + ((s - r) % NSlots)
      BY <1>1, <1>2
    <2> QED BY <1>1, <2>1, <2>2, <2>3
  <1>4. ASSUME NEW d \in 0 .. NSlots - 1, (r + d) % NSlots = s
        PROVE  d = (s - r) % NSlots
    <2>1. r + d \in Int /\ r <= r + d /\ (r + d) - r < NSlots /\ (r + d) - r = d
      BY <1>1, Sizes
    <2>2. (((r + d) % NSlots) - (r % NSlots)) % NSlots = (r + d) - r
      BY ONLY <1>1, <2>1, Sizes, ModDistance
    <2> QED BY <1>1, <1>4, <2>1, <2>2
  <1> QED BY <1>2, <1>3, <1>4

\* One slot is one buffer.
LEMMA StoreBuffer ==
    ASSUME RingTypes, NEW s \in Slots, NEW slot \in SlotRecord
    PROVE  LET x == Len(built) + 1 + ((s - evtRDBuf) % NSlots)
               sx == [slots EXCEPT ![s] = slot]
           IN  /\ x \in 1 .. Len(built) + NSlots
               /\ BufferOf(built, slots, evtRDBuf, x) = slots[s].eventBuf
               /\ BufferOf(built, sx, evtRDBuf, x) = slot.eventBuf
               /\ \A n \in 1 .. Len(built) + NSlots :
                    n # x => BufferOf(built, sx, evtRDBuf, n) = BufferOf(built, slots, evtRDBuf, n)
  <1> DEFINE d == (s - evtRDBuf) % NSlots
             x == Len(built) + 1 + d
             sx == [slots EXCEPT ![s] = slot]
  <1>1. Len(built) \in Nat /\ evtRDBuf \in Nat /\ evtRDBuf \in Slots
    BY Sizes DEF Slots, RingTypes
  <1>2. /\ d \in 0 .. NSlots - 1 /\ (evtRDBuf + d) % NSlots = s
        /\ \A c \in 0 .. NSlots - 1 : (evtRDBuf + c) % NSlots = s => c = d
    BY <1>1, Distance
  <1> HIDE DEF d
  <1>3. /\ x \in 1 .. Len(built) + NSlots /\ ~(x <= Len(built))
        /\ evtRDBuf + x - Len(built) - 1 = evtRDBuf + d
    BY <1>1, <1>2, Sizes
  <1>4. sx[s] = slot /\ \A t \in Slots : t # s => sx[t] = slots[t]
    BY DEF RingTypes
  <1> HIDE DEF x, sx
  <1>5. /\ BufferOf(built, slots, evtRDBuf, x) = slots[s].eventBuf
        /\ BufferOf(built, sx, evtRDBuf, x) = slot.eventBuf
    BY <1>2, <1>3, <1>4 DEF BufferOf
  <1>6. ASSUME NEW n \in 1 .. Len(built) + NSlots, n # x
        PROVE  BufferOf(built, sx, evtRDBuf, n) = BufferOf(built, slots, evtRDBuf, n)
    <2>1. CASE n <= Len(built)
      BY <2>1 DEF BufferOf
    <2>2. CASE n > Len(built)
      <3> DEFINE c == n - Len(built) - 1
                 t == (evtRDBuf + c) % NSlots
      <3>1. /\ c \in 0 .. NSlots - 1 /\ c # d /\ evtRDBuf + c \in Int
            /\ evtRDBuf + n - Len(built) - 1 = evtRDBuf + c
        BY <1>1, <1>2, <1>6, <2>2, Sizes DEF x
      <3>2. t \in Slots /\ t # s
        BY <1>2, <3>1, InRing
      <3>3. sx[t] = slots[t]
        BY <1>4, <3>2
      <3>4. BufferOf(built, sx, evtRDBuf, n) = sx[t].eventBuf
            /\ BufferOf(built, slots, evtRDBuf, n) = slots[t].eventBuf
        BY <1>1, <2>2, <3>1 DEF BufferOf
      <3> QED BY <3>3, <3>4
    <2> QED BY <1>1, <2>1, <2>2
  <1> QED BY <1>3, <1>5, <1>6 DEF d, x, sx

\* What is emitted: the slots from evtRDBuf up to s, in their order.
LEMMA EmitBuilds ==
    ASSUME RingTypes, NEW s \in Slots, NEW slot \in SlotRecord, NEW v \in 0 .. EvidMod - 1,
           Emit(s, slot, v)
    PROVE  LET older == (s - evtRDBuf) % NSlots
               B == Len(built)
           IN  /\ built' \in Seq(BuiltEvent) /\ Len(built') = B + older + 1
               /\ \A n \in 1..B : built'[n] = built[n]
               /\ \A n \in B + 1 .. B + older :
                    /\ built'[n].words = slots[(evtRDBuf + n - B - 1) % NSlots].eventBuf
                    /\ built'[n].evid = slots[(evtRDBuf + n - B - 1) % NSlots].bufEVID
               /\ built'[B + older + 1].words = slot.eventBuf /\ built'[B + older + 1].evid = v
  <1> DEFINE B == Len(built)
             older == (s - evtRDBuf) % NSlots
             event == [evid |-> v, words |-> slot.eventBuf, forced |-> FALSE]
             out == ForcedOut(older)
             Old(i) == slots[(evtRDBuf + i - 1) % NSlots]
  <1>1. older \in Nat
    BY Distance DEF RingTypes
  <1>2. built' = Append(built \o out, event)
    BY DEF Emit
  <1>3. built \in Seq(BuiltEvent) /\ B \in Nat
    BY DEF RingTypes
  <1> HIDE DEF older
  <1>4. ASSUME NEW i \in 1..older
        PROVE  out[i] \in BuiltEvent /\ out[i].words = Old(i).eventBuf /\ out[i].evid = Old(i).bufEVID
    <2>1. Old(i) \in SlotRecord
      <3>1. evtRDBuf + i - 1 \in Int
        BY Sizes DEF RingTypes, Slots
      <3>2. (evtRDBuf + i - 1) % NSlots \in Slots
        BY <3>1, InRing
      <3> QED BY <3>2 DEF RingTypes
    <2>2. out[i] = [evid |-> Old(i).bufEVID, words |-> Old(i).eventBuf, forced |-> TRUE]
      BY DEF ForcedOut
    <2> HIDE DEF Old, out
    <2> QED BY <2>1, <2>2 DEF SlotRecord, BuiltEvent
  <1>5. out \in Seq(BuiltEvent) /\ Len(out) = older
    <2>1. out = [i \in 1..older |-> out[i]]
      BY DEF ForcedOut
    <2> HIDE DEF out
    <2> QED BY <1>1, <1>4, <2>1
  <1>6. event \in BuiltEvent /\ event.words = slot.eventBuf /\ event.evid = v
    BY DEF BuiltEvent, SlotRecord
  <1> HIDE DEF out, event, Old
  <1>7. /\ built \o out \in Seq(BuiltEvent) /\ Len(built \o out) = B + older
        /\ \A n \in 1 .. B + older : (built \o out)[n] = IF n <= B THEN built[n] ELSE out[n - B]
    BY <1>3, <1>5, ConcatProperties
  <1>8. /\ built' \in Seq(BuiltEvent) /\ Len(built') = B + older + 1
        /\ \A n \in 1 .. B + older : built'[n] = IF n <= B THEN built[n] ELSE out[n - B]
        /\ built'[B + older + 1] = event
    <2> DEFINE front == built \o out
    <2>1. front \in Seq(BuiltEvent) /\ Len(front) = B + older /\ built' = Append(front, event)
      BY <1>2, <1>7
    <2> HIDE DEF front
    <2>2. /\ Append(front, event) \in Seq(BuiltEvent) /\ Len(Append(front, event)) = Len(front) + 1
          /\ \A n \in 1 .. Len(front) : Append(front, event)[n] = front[n]
          /\ Append(front, event)[Len(front) + 1] = event
      BY <1>6, <2>1, AppendProperties
    <2> QED BY <1>7, <2>1, <2>2 DEF front
  <1> HIDE DEF B
  <1>9. ASSUME NEW n \in B + 1 .. B + older
        PROVE  /\ built'[n].words = slots[(evtRDBuf + n - B - 1) % NSlots].eventBuf
               /\ built'[n].evid = slots[(evtRDBuf + n - B - 1) % NSlots].bufEVID
    <2>1. n - B \in 1..older /\ n \in 1 .. B + older /\ ~(n <= B)
      BY <1>1, <1>3
    <2>2. evtRDBuf + (n - B) - 1 = evtRDBuf + n - B - 1
      BY <1>3, Sizes DEF RingTypes, Slots
    <2>3. out[n - B].words = Old(n - B).eventBuf /\ out[n - B].evid = Old(n - B).bufEVID
      BY <1>4, <2>1
    <2> QED BY <1>8, <2>1, <2>2, <2>3 DEF Old
  <1>10. \A n \in 1..B : built'[n] = built[n]
    BY <1>1, <1>3, <1>8
  <1> QED BY <1>6, <1>8, <1>9, <1>10 DEF B, older

\* Emission moves no buffer, and brings empty ones in behind them.
LEMMA EmitBuffers ==
    ASSUME RingTypes, NEW s \in Slots, NEW slot \in SlotRecord, NEW v \in 0 .. EvidMod - 1,
           Emit(s, slot, v)
    PROVE  LET sx == [slots EXCEPT ![s] = slot]
           IN  /\ built' \in Seq(BuiltEvent) /\ slots' \in [Slots -> SlotRecord]
               /\ evtRDBuf' \in Slots /\ Len(built') >= Len(built)
               /\ \A n \in 1 .. Len(built) + NSlots :
                    BufferOf(built', slots', evtRDBuf', n) = BufferOf(built, sx, evtRDBuf, n)
               /\ \A n \in Len(built) + NSlots + 1 .. Len(built') + NSlots :
                    BufferOf(built', slots', evtRDBuf', n) = NoWords
  <1> DEFINE B == Len(built)
             older == (s - evtRDBuf) % NSlots
             sx == [slots EXCEPT ![s] = slot]
             New(n) == BufferOf(built', slots', evtRDBuf', n)
             Cleared(t) == [EmptySlot EXCEPT !.bufEVID = slots[t].bufEVID]
  <1>1. /\ built' \in Seq(BuiltEvent) /\ Len(built') = B + older + 1
        /\ \A n \in 1..B : built'[n] = built[n]
        /\ \A n \in B + 1 .. B + older :
             built'[n].words = slots[(evtRDBuf + n - B - 1) % NSlots].eventBuf
        /\ built'[B + older + 1].words = slot.eventBuf
    BY EmitBuilds
  <1>2. /\ older \in 0 .. NSlots - 1 /\ (evtRDBuf + older) % NSlots = s
        /\ evtRDBuf \in Slots /\ evtRDBuf \in Int /\ B \in Nat
    <2>1. evtRDBuf \in Slots /\ evtRDBuf \in Int /\ B \in Nat
      BY Sizes DEF RingTypes, Slots
    <2> QED BY <2>1, Distance
  <1>3. evtRDBuf' \in Slots /\ evtRDBuf' = (s + 1) % NSlots
    <2>1. s + 1 \in Int
      BY Sizes DEF Slots
    <2> QED BY <2>1, InRing DEF Emit, NextSlot
  <1>4. /\ slots' = [t \in Slots |-> slots'[t]]
        /\ \A t \in Slots : slots'[t] = IF (t - evtRDBuf) % NSlots <= older
                                        THEN Cleared(t) ELSE slots[t]
    BY DEF Emit
  <1>5. ASSUME NEW t \in Slots
        PROVE  Cleared(t) \in SlotRecord /\ Cleared(t).eventBuf = NoWords
    <2>1. slots[t].bufEVID \in 0 .. EvidMod - 1
      BY DEF RingTypes, SlotRecord
    <2>2. NoWords \in [Mezz -> Seq(Words)]
      BY DEF NoWords
    <2> QED BY <2>1, <2>2 DEF EmptySlot, SlotRecord
  <1>6. /\ slots \in [Slots -> SlotRecord]
        /\ sx[s] = slot /\ \A t \in Slots : t # s => sx[t] = slots[t]
    BY DEF RingTypes
  <1> HIDE DEF older, Cleared, sx
  <1>7. slots' \in [Slots -> SlotRecord]
    <2>1. \A t \in Slots : slots'[t] \in SlotRecord
      BY <1>4, <1>5, <1>6
    <2> QED BY <1>4, <2>1
  \* A slot d behind evtRDBuf.
  <1>8. ASSUME NEW d \in 0 .. NSlots - 1
        PROVE  /\ (evtRDBuf + d) % NSlots \in Slots
               /\ (((evtRDBuf + d) % NSlots) - evtRDBuf) % NSlots = d
    <2>1. (evtRDBuf + d) % NSlots \in Slots
      BY <1>2, InRing
    <2> QED BY <1>2, <2>1, Distance
  \* The slots of the ring after the emission.
  <1>9. ASSUME NEW n \in Nat, n > B + older + 1
        PROVE  LET c == n - B - 1
               IN  /\ New(n) = slots'[(evtRDBuf + c) % NSlots].eventBuf
    <2> DEFINE c == n - B - 1
               k == n - (B + older + 1) - 1
    <2>1. /\ New(n) = slots'[(evtRDBuf' + n - Len(built') - 1) % NSlots].eventBuf
      BY <1>1, <1>2, <1>9 DEF BufferOf
    <2>2. /\ evtRDBuf' \in Int /\ k \in Int /\ k + 1 \in Int /\ c \in Int /\ s \in Int
          /\ evtRDBuf' + n - Len(built') - 1 = evtRDBuf' + k
          /\ k + 1 = c - older
      BY <1>1, <1>2, <1>3, Sizes DEF Slots
    <2>3. (((s + 1) % NSlots) + k) % NSlots = ((s + 1) + k) % NSlots
      <3>1. s + 1 \in Int /\ k \in Int
        BY <2>2
      <3> HIDE DEF k
      <3> QED BY ONLY <3>1, Sizes, ModAdd
    <2>4. (s + 1) + k = s + (k + 1)
      BY <2>2
    <2>5. (((evtRDBuf + older) % NSlots) + (k + 1)) % NSlots = ((evtRDBuf + older) + (k + 1)) % NSlots
      <3>1. evtRDBuf + older \in Int /\ k + 1 \in Int
        BY <1>2, <2>2
      <3> HIDE DEF k
      <3> QED BY ONLY <3>1, Sizes, ModAdd
    <2>6. (evtRDBuf + older) + (k + 1) = evtRDBuf + c
      BY <1>2, <2>2
    <2> QED BY <1>2, <1>3, <2>1, <2>2, <2>3, <2>4, <2>5, <2>6
  <1>10. ASSUME NEW n \in 1 .. B + NSlots
         PROVE  New(n) = BufferOf(built, sx, evtRDBuf, n)
    <2>1. CASE n <= B
      <3>1. n \in 1..B /\ n <= Len(built')
        BY <1>1, <1>2, <2>1
      <3> QED BY <1>1, <2>1, <3>1 DEF BufferOf
    <2>2. CASE n > B
      <3> DEFINE d == n - B - 1
                 t == (evtRDBuf + d) % NSlots
      <3>1. /\ d \in 0 .. NSlots - 1 /\ evtRDBuf + n - B - 1 = evtRDBuf + d
            /\ ~(n <= B)
        BY ONLY <1>2, <2>2, Sizes, n \in 1 .. B + NSlots
      <3>2. BufferOf(built, sx, evtRDBuf, n) = sx[t].eventBuf
        BY <3>1 DEF BufferOf
      <3>3. t \in Slots /\ (t - evtRDBuf) % NSlots = d
        BY <1>8, <3>1
      <3>4. CASE d < older
        <4>1. n \in B + 1 .. B + older /\ n <= Len(built')
          BY <1>1, <1>2, <3>1, <3>4
        <4>2. New(n) = slots[t].eventBuf
          BY <1>1, <3>1, <4>1 DEF BufferOf
        <4>3. t # s
          BY <3>3, <3>4, <1>2 DEF older
        <4> QED BY <1>6, <3>2, <3>3, <4>2, <4>3
      <3>5. CASE d = older
        <4>1. n = B + older + 1 /\ n <= Len(built') /\ t = s
          BY <1>1, <1>2, <3>1, <3>5
        <4>2. New(n) = slot.eventBuf
          BY <1>1, <4>1 DEF BufferOf
        <4> QED BY <1>6, <3>2, <4>1, <4>2
      <3>6. CASE d > older
        <4>1. n \in Nat /\ n > B + older + 1
          BY <1>2, <3>1, <3>6
        <4>2. New(n) = slots'[t].eventBuf
          BY <1>9, <4>1
        <4>3. slots'[t] = slots[t]
          BY <1>2, <1>4, <3>1, <3>3, <3>6
        <4>4. t # s
          BY <3>3, <3>6, <1>2 DEF older
        <4> QED BY <1>6, <3>2, <3>3, <4>2, <4>3, <4>4
      <3> QED BY <1>2, <3>1, <3>4, <3>5, <3>6
    <2> QED BY <1>2, <2>1, <2>2
  <1>11. ASSUME NEW n \in B + NSlots + 1 .. Len(built') + NSlots
         PROVE  New(n) = NoWords
    <2> DEFINE c == n - B - 1
               d == c - NSlots
               t == (evtRDBuf + d) % NSlots
    <2>1. /\ n \in Nat /\ n > B + older + 1 /\ d \in 0 .. NSlots - 1 /\ d <= older
          /\ evtRDBuf + d \in Int /\ (evtRDBuf + d) + NSlots = evtRDBuf + c
      BY <1>1, <1>2, Sizes
    <2>2. New(n) = slots'[(evtRDBuf + c) % NSlots].eventBuf
      BY <1>9, <2>1
    <2>3. (evtRDBuf + c) % NSlots = t
      <3>1. ((evtRDBuf + d) + NSlots) % NSlots = (evtRDBuf + d) % NSlots
        BY ONLY <2>1, Sizes, ModPeriod
      <3> QED BY <2>1, <3>1
    <2>4. t \in Slots /\ (t - evtRDBuf) % NSlots = d
      BY <1>8, <2>1
    <2>5. slots'[t] = Cleared(t)
      BY <1>4, <2>1, <2>4
    <2> QED BY <1>5, <2>2, <2>3, <2>4, <2>5
  <1> HIDE DEF New
  <1>12. Len(built') >= Len(built)
    BY <1>1, <1>2
  <1> QED BY <1>1, <1>3, <1>7, <1>10, <1>11, <1>12 DEF B, sx, New

--------------------------------------------------------------------------------
(* Words in buffers: the n buffers B hold the words W, each once unless in rep. *)

Held(B, N, W, rep) ==
    /\ \A n \in 1..N : \A i \in 1..Len(B[n]) : B[n][i] \in W
    /\ \A w \in W : \E n \in 1..N : \E i \in 1..Len(B[n]) : B[n][i] = w
    /\ \A n \in 1..N : \A i \in 1..Len(B[n]) :
         \/ B[n][i] \in rep
         \/ /\ \A j \in 1 .. i - 1 : B[n][j] # B[n][i]
            /\ \A p \in 1 .. n - 1 : \A j \in 1..Len(B[p]) : B[p][j] # B[n][i]

\* A word that is put behind one of the buffers is new or may repeat.
LEMMA HeldAppend ==
    ASSUME NEW N \in Nat, NEW B \in [1..N -> Seq(Words)], NEW W, NEW rep, NEW more,
           Held(B, N, W, rep), rep \subseteq more, NEW w \in Words, w \notin W \/ w \in more,
           NEW x \in 1..N, NEW C \in [1..N -> Seq(Words)], C[x] = Append(B[x], w),
           \A n \in 1..N : n # x => C[n] = B[n]
    PROVE  Held(C, N, W \cup {w}, more)
  <1> DEFINE L == Len(B[x]) + 1
  <1>1. /\ L \in Nat /\ Len(C[x]) = L /\ C[x][L] = w
        /\ \A i \in 1..Len(B[x]) : C[x][i] = B[x][i]
    BY B[x] \in Seq(Words)
  \* A place of C is one of B with the same word, or the new one.
  <1>2. ASSUME NEW n \in 1..N, NEW i \in 1..Len(C[n])
        PROVE  \/ n = x /\ i = L /\ C[n][i] = w
               \/ i \in 1..Len(B[n]) /\ C[n][i] = B[n][i]
    <2>1. CASE n = x
      <3>1. i = L \/ i \in 1..Len(B[x])
        <4>1. Len(B[x]) \in Nat
          BY B[x] \in Seq(Words)
        <4> QED BY <1>1, <2>1, <4>1
      <3> QED BY <1>1, <2>1, <3>1
    <2>2. CASE n # x
      BY <2>2
    <2> QED BY <2>1, <2>2
  <1>3. ASSUME NEW n \in 1..N, NEW i \in 1..Len(B[n])
        PROVE  i \in 1..Len(C[n]) /\ C[n][i] = B[n][i]
    <2>1. CASE n = x
      <3>1. Len(B[x]) \in Nat
        BY B[x] \in Seq(Words)
      <3> QED BY <1>1, <2>1, <3>1
    <2>2. CASE n # x
      BY <2>2
    <2> QED BY <2>1, <2>2
  <1>4. \A n \in 1..N : \A i \in 1..Len(C[n]) : C[n][i] \in W \cup {w}
    BY <1>2 DEF Held
  <1>5. \A v \in W \cup {w} : \E n \in 1..N : \E i \in 1..Len(C[n]) : C[n][i] = v
    <2> TAKE v \in W \cup {w}
    <2>1. CASE v = w
      <3>1. L \in 1..Len(C[x])
        <4>1. Len(B[x]) \in Nat
          BY B[x] \in Seq(Words)
        <4> QED BY <1>1, <4>1
      <3> QED BY <1>1, <2>1, <3>1
    <2>2. CASE v \in W
      <3>1. PICK n \in 1..N : \E i \in 1..Len(B[n]) : B[n][i] = v
        BY <2>2 DEF Held
      <3> QED BY <1>3, <3>1
    <2> QED BY <2>1, <2>2
  <1>6. ASSUME NEW n \in 1..N, NEW i \in 1..Len(C[n]), C[n][i] \notin more
        PROVE  /\ \A j \in 1 .. i - 1 : C[n][j] # C[n][i]
               /\ \A p \in 1 .. n - 1 : \A j \in 1..Len(C[p]) : C[p][j] # C[n][i]
    <2>1. CASE n = x /\ i = L /\ C[n][i] = w
      <3>1. w \notin W
        BY <1>6, <2>1
      <3>2. \A p \in 1..N : \A j \in 1..Len(B[p]) : B[p][j] # w
        BY <3>1 DEF Held
      <3>3. \A j \in 1 .. i - 1 : j \in 1..Len(B[x]) /\ C[x][j] = B[x][j]
        <4>1. Len(B[x]) \in Nat
          BY B[x] \in Seq(Words)
        <4> QED BY <1>1, <2>1, <4>1
      <3>4. \A p \in 1 .. n - 1 : p \in 1..N /\ C[p] = B[p]
        BY <2>1
      <3>5. \A j \in 1 .. i - 1 : C[n][j] # w
        BY <2>1, <3>2, <3>3
      <3>6. \A p \in 1 .. n - 1 : \A j \in 1..Len(C[p]) : C[p][j] # w
        BY <3>2, <3>4
      <3> QED BY <2>1, <3>5, <3>6
    <2>2. CASE i \in 1..Len(B[n]) /\ C[n][i] = B[n][i]
      <3>1. C[n][i] \in W /\ C[n][i] # w
        BY <1>6, <2>2 DEF Held
      <3>2. B[n][i] \notin rep
        BY <1>6, <2>2
      <3>3. /\ \A j \in 1 .. i - 1 : B[n][j] # B[n][i]
            /\ \A p \in 1 .. n - 1 : \A j \in 1..Len(B[p]) : B[p][j] # B[n][i]
        BY <2>2, <3>2 DEF Held
      <3>4. \A j \in 1 .. i - 1 : C[n][j] # C[n][i]
        <4>1. \A j \in 1 .. i - 1 : j \in 1..Len(B[n]) /\ C[n][j] = B[n][j]
          <5>1. \A j \in 1 .. i - 1 : j \in 1..Len(B[n])
            <6>1. Len(B[n]) \in Nat
              BY B[n] \in Seq(Words)
            <6> QED BY <2>2, <6>1
          <5> QED BY <1>3, <5>1
        <4> QED BY <2>2, <3>3, <4>1
      <3>5. ASSUME NEW p \in 1 .. n - 1, NEW j \in 1..Len(C[p])
            PROVE  C[p][j] # C[n][i]
        <4>1. p \in 1..N
          OBVIOUS
        <4>2. C[p][j] = w \/ (j \in 1..Len(B[p]) /\ C[p][j] = B[p][j])
          BY <1>2, <4>1
        <4> QED BY <2>2, <3>1, <3>3, <4>2
      <3> QED BY <3>4, <3>5
    <2> QED BY <1>2, <2>1, <2>2
  <1> HIDE DEF L
  <1> QED BY <1>4, <1>5, <1>6 DEF Held

\* Empty buffers hold nothing, and more words may be allowed to repeat.
LEMMA HeldMore ==
    ASSUME NEW N \in Nat, NEW M \in Nat, N <= M, NEW B, NEW C, NEW W, NEW rep, NEW more,
           Held(B, N, W, rep), rep \subseteq more,
           \A n \in 1..N : C[n] = B[n], \A n \in N + 1 .. M : C[n] = <<>>
    PROVE  Held(C, M, W, more)
  <1>1. ASSUME NEW n \in 1..M, NEW i \in 1..Len(C[n])
        PROVE  n \in 1..N /\ C[n] = B[n] /\ i \in 1..Len(B[n])
    <2>1. CASE n \in N + 1 .. M
      <3>1. Len(C[n]) = 0
        BY <2>1
      <3> QED BY <3>1
    <2> QED BY <2>1
  <1>2. \A n \in 1..M : \A i \in 1..Len(C[n]) : C[n][i] \in W
    BY <1>1 DEF Held
  <1>3. \A w \in W : \E n \in 1..M : \E i \in 1..Len(C[n]) : C[n][i] = w
    <2> TAKE w \in W
    <2>1. PICK n \in 1..N : \E i \in 1..Len(B[n]) : B[n][i] = w
      BY DEF Held
    <2>2. n \in 1..M /\ C[n] = B[n]
      OBVIOUS
    <2> QED BY <2>1, <2>2
  <1>4. ASSUME NEW n \in 1..M, NEW i \in 1..Len(C[n]), C[n][i] \notin more
        PROVE  /\ \A j \in 1 .. i - 1 : C[n][j] # C[n][i]
               /\ \A p \in 1 .. n - 1 : \A j \in 1..Len(C[p]) : C[p][j] # C[n][i]
    <2>1. n \in 1..N /\ C[n] = B[n] /\ i \in 1..Len(B[n])
      BY <1>1
    <2>2. /\ \A j \in 1 .. i - 1 : B[n][j] # B[n][i]
          /\ \A p \in 1 .. n - 1 : \A j \in 1..Len(B[p]) : B[p][j] # B[n][i]
      BY <1>4, <2>1 DEF Held
    <2>3. \A p \in 1 .. n - 1 : C[p] = B[p]
      BY <2>1
    <2> QED BY <2>1, <2>2, <2>3
  <1> QED BY <1>2, <1>3, <1>4 DEF Held

\* What card m has in the buffers.
BuffersOf(bu, sl, rd, m) == [n \in 1 .. Len(bu) + NSlots |-> BufferOf(bu, sl, rd, n)[m]]

LEMMA BuffersTyped ==
    ASSUME NEW bu \in Seq(BuiltEvent), NEW sl \in [Slots -> SlotRecord], NEW rd \in Slots,
           NEW m \in Mezz
    PROVE  /\ Len(bu) + NSlots \in Nat
           /\ BuffersOf(bu, sl, rd, m) \in [1 .. Len(bu) + NSlots -> Seq(Words)]
           /\ \A n \in 1 .. Len(bu) + NSlots : BufferOf(bu, sl, rd, n) \in [Mezz -> Seq(Words)]
  <1>1. Len(bu) \in Nat /\ rd \in Int /\ Len(bu) + NSlots \in Nat
    BY Sizes DEF Slots
  <1>2. ASSUME NEW n \in 1 .. Len(bu) + NSlots
        PROVE  BufferOf(bu, sl, rd, n) \in [Mezz -> Seq(Words)]
    <2>1. CASE n <= Len(bu)
      <3>1. bu[n] \in BuiltEvent
        BY <1>1, <2>1
      <3> QED BY <2>1, <3>1 DEF BufferOf, BuiltEvent
    <2>2. CASE n > Len(bu)
      <3> DEFINE t == (rd + n - Len(bu) - 1) % NSlots
      <3>1. t \in Slots
        <4>1. rd + n - Len(bu) - 1 \in Int
          BY <1>1
        <4> QED BY <4>1, InRing
      <3> HIDE DEF t
      <3>2. sl[t] \in SlotRecord
        BY <3>1
      <3>3. sl[t].eventBuf \in [Mezz -> Seq(Words)]
        BY <3>2 DEF SlotRecord
      <3>4. BufferOf(bu, sl, rd, n) = sl[t].eventBuf
        BY <1>1, <2>2 DEF BufferOf, t
      <3> QED BY <3>3, <3>4
    <2> QED BY <1>1, <2>1, <2>2
  <1>3. \A n \in 1 .. Len(bu) + NSlots : BufferOf(bu, sl, rd, n)[m] \in Seq(Words)
    BY <1>2
  <1> QED BY <1>1, <1>2, <1>3 DEF BuffersOf

\* A move keeps the words, and adds its own where it must.
LEMMA MoveHolds ==
    ASSUME RingTypes, NEW w \in Words, NEW s \in Slots, NEW slot \in SlotRecord,
           Move(s, slot, w), NEW m \in Mezz, NEW W, NEW rep, NEW more,
           Held(BuffersOf(built, slots, evtRDBuf, m), Len(built) + NSlots, W, rep),
           rep \subseteq more,
           m = w.mezz => /\ w \notin W \/ w \in more
                         /\ previousData[m] = w => w \in W
    PROVE  Held(BuffersOf(built', slots', evtRDBuf', m), Len(built') + NSlots,
                IF m = w.mezz THEN W \cup {w} ELSE W, more)
  <1> DEFINE N == Len(built) + NSlots
             sx == [slots EXCEPT ![s] = slot]
             B == BuffersOf(built, slots, evtRDBuf, m)
             C == BuffersOf(built, sx, evtRDBuf, m)
             D == BuffersOf(built', slots', evtRDBuf', m)
             V == IF m = w.mezz THEN W \cup {w} ELSE W
             x == Len(built) + 1 + ((s - evtRDBuf) % NSlots)
  <1>1. /\ built \in Seq(BuiltEvent) /\ slots \in [Slots -> SlotRecord] /\ evtRDBuf \in Slots
        /\ sx \in [Slots -> SlotRecord]
    BY DEF RingTypes
  <1>2. /\ x \in 1..N
        /\ BufferOf(built, slots, evtRDBuf, x) = slots[s].eventBuf
        /\ BufferOf(built, sx, evtRDBuf, x) = slot.eventBuf
        /\ \A n \in 1..N : n # x =>
             BufferOf(built, sx, evtRDBuf, n) = BufferOf(built, slots, evtRDBuf, n)
    BY StoreBuffer
  <1> HIDE DEF x, sx
  <1>3. /\ N \in Nat /\ B \in [1..N -> Seq(Words)] /\ C \in [1..N -> Seq(Words)]
        /\ \A n \in 1..N : /\ B[n] = BufferOf(built, slots, evtRDBuf, n)[m]
                           /\ C[n] = BufferOf(built, sx, evtRDBuf, n)[m]
    <2>1. N \in Nat /\ B \in [1..N -> Seq(Words)] /\ C \in [1..N -> Seq(Words)]
      BY <1>1, BuffersTyped
    <2> QED BY <2>1 DEF BuffersOf
  <1>4. Held(C, N, V, more)
    <2>1. \A n \in 1..N : n # x => C[n] = B[n]
      BY <1>2, <1>3
    <2>2. slots[s].eventBuf \in [Mezz -> Seq(Words)]
      <3>1. slots[s] \in SlotRecord
        BY <1>1
      <3> QED BY <3>1 DEF SlotRecord
    <2>3. CASE m = w.mezz /\ slot.eventBuf = [slots[s].eventBuf EXCEPT ![w.mezz] = Append(@, w)]
      <3>3. B[x] = slots[s].eventBuf[m] /\ C[x] = slot.eventBuf[m]
        BY ONLY <1>2, <1>3
      <3>4. slot.eventBuf[m] = Append(slots[s].eventBuf[m], w)
        BY ONLY <2>2, <2>3, m \in Mezz
      <3>1. C[x] = Append(B[x], w)
        BY ONLY <3>3, <3>4
      <3>5. Held(B, N, W, rep)
        OBVIOUS
      <3>6. w \notin W \/ w \in more
        BY <2>3
      <3> HIDE DEF B, C, N
      <3>7. /\ N \in Nat /\ B \in [1..N -> Seq(Words)] /\ C \in [1..N -> Seq(Words)] /\ x \in 1..N
            /\ Held(B, N, W, rep) /\ rep \subseteq more /\ w \in Words /\ (w \notin W \/ w \in more)
            /\ C[x] = Append(B[x], w) /\ \A n \in 1..N : n # x => C[n] = B[n]
        BY <1>2, <1>3, <2>1, <3>1, <3>5, <3>6
      <3>2. Held(C, N, W \cup {w}, more)
        BY ONLY <3>7, HeldAppend
      <3> QED BY <2>3, <3>2
    <2>4. ASSUME slot.eventBuf[m] = slots[s].eventBuf[m], V = W
          PROVE  Held(C, N, V, more)
      <3>1. C[x] = B[x]
        BY <1>2, <1>3, <2>4
      <3>2. (\A n \in 1..N : C[n] = B[n]) /\ (\A n \in N + 1 .. N : C[n] = <<>>)
        <4>1. \A n \in N + 1 .. N : FALSE
          BY <1>3
        <4> QED BY <2>1, <3>1, <4>1
      <3> HIDE DEF B, C, N, V
      <3>3. N <= N /\ Held(B, N, W, rep)
        BY <1>3 DEF B, N
      <3> QED BY ONLY <1>3, <2>4, <3>2, <3>3, rep \subseteq more, HeldMore
    <2>5. CASE m # w.mezz
      <3>1. slot.eventBuf[m] = slots[s].eventBuf[m]
        BY <2>2, <2>5 DEF Move, TakesWord
      <3> QED BY <2>4, <2>5, <3>1
    <2>6. CASE m = w.mezz /\ previousData[w.mezz] = w /\ slot.eventBuf = slots[s].eventBuf
      <3>1. W \cup {w} = W
        BY <2>6
      <3> QED BY <2>4, <2>6, <3>1
    <2> QED BY <2>3, <2>5, <2>6 DEF Move, TakesWord
  <1>5. CASE slots' = sx /\ UNCHANGED <<evtRDBuf, built>>
    BY <1>4, <1>5
  <1>6. ASSUME NEW v \in 0 .. EvidMod - 1, Emit(s, slot, v)
        PROVE  Held(D, Len(built') + NSlots, V, more)
    <2>1. /\ built' \in Seq(BuiltEvent) /\ slots' \in [Slots -> SlotRecord]
          /\ evtRDBuf' \in Slots /\ Len(built') >= Len(built)
          /\ \A n \in 1..N :
               BufferOf(built', slots', evtRDBuf', n) = BufferOf(built, sx, evtRDBuf, n)
          /\ \A n \in N + 1 .. Len(built') + NSlots :
               BufferOf(built', slots', evtRDBuf', n) = NoWords
      BY <1>6, EmitBuffers DEF sx
    <2> DEFINE M == Len(built') + NSlots
    <2>2. M \in Nat /\ N <= M
      BY <1>1, <2>1, Sizes
    <2>3. \A n \in 1..M : D[n] = BufferOf(built', slots', evtRDBuf', n)[m]
      BY DEF BuffersOf
    <2>4. (\A n \in 1..N : D[n] = C[n]) /\ (\A n \in N + 1 .. M : D[n] = <<>>)
      <3>1. \A n \in 1..N : n \in 1..M
        BY <1>3, <2>2
      <3>2. \A n \in N + 1 .. M : n \in 1..M
        BY <1>3, <2>2
      <3>3. NoWords[m] = <<>>
        BY DEF NoWords
      <3> HIDE DEF N, M, C, D
      <3> QED BY <1>3, <2>1, <2>3, <3>1, <3>2, <3>3 DEF M
    <2> HIDE DEF N, M, C, D, V
    <2> QED BY <1>3, <1>4, <2>2, <2>4, HeldMore DEF M
  <1> QED BY <1>5, <1>6 DEF Move, sx

--------------------------------------------------------------------------------
(* The invariant: types, what was lost or seen had been sent, and the words. *)

\* The first k words of m.
FirstWords(m, k) == {NthWord(m, i) : i \in 0 .. k - 1}

AllTypes ==
    /\ RingTypes
    /\ sent \in [Mezz -> 0 .. 3 * NEvents]
    /\ lost \subseteq Words /\ repeated \subseteq Words /\ faults \in 0 .. MaxFaults

PastInv ==
    \A m \in Mezz :
      /\ \A i \in 0 .. 3 * NEvents - 1 : NthWord(m, i) \in lost => i < sent[m]
      /\ previousData[m] = NoWord \/ previousData[m] \in FirstWords(m, sent[m]) \ lost

WordsInv ==
    DAQState = "Running" =>
      \A m \in Mezz :
        Held(BuffersOf(built, slots, evtRDBuf, m), Len(built) + NSlots,
             FirstWords(m, sent[m]) \ lost, repeated)

\* A word of a card, known by its number.
LEMMA NthWordFacts ==
    ASSUME NEW m \in Mezz, NEW i \in 0 .. 3 * NEvents - 1
    PROVE  /\ NthWord(m, i) \in Words /\ NthWord(m, i).mezz = m /\ NthWord(m, i) # NoWord
           /\ \A n \in Mezz, j \in 0 .. 3 * NEvents - 1 : NthWord(n, j) = NthWord(m, i) => n = m /\ j = i
  <1>1. ASSUME NEW n \in Mezz, NEW j \in 0 .. 3 * NEvents - 1
        PROVE  \E e \in Events : \E r \in 0..2 : \E k \in Kinds :
                 /\ j = 3 * e + r /\ NthWord(n, j) = Word(n, k, e)
                 /\ k = IF r = 0 THEN "header" ELSE IF r = 1 THEN "hit" ELSE "trailer"
    <2>1. j \in 0 .. 3 * NEvents /\ j < 3 * NEvents
      BY Sizes
    <2>2. PICK e \in Events : \E r \in 0..2 :
             /\ j = 3 * e + r
             /\ r = 0 => NthWord(n, j) = Word(n, "header", e)
             /\ r = 1 => NthWord(n, j) = Word(n, "hit", e)
             /\ r = 2 => NthWord(n, j) = Word(n, "trailer", e)
      BY <2>1, TheWord
    <2>3. PICK r \in 0..2 :
             /\ j = 3 * e + r
             /\ r = 0 => NthWord(n, j) = Word(n, "header", e)
             /\ r = 1 => NthWord(n, j) = Word(n, "hit", e)
             /\ r = 2 => NthWord(n, j) = Word(n, "trailer", e)
      BY <2>2
    <2>4. r = 0 \/ r = 1 \/ r = 2
      OBVIOUS
    <2> QED BY <2>3, <2>4 DEF Kinds
  <1>2. PICK e \in Events : \E r \in 0..2 : \E k \in Kinds :
           /\ i = 3 * e + r /\ NthWord(m, i) = Word(m, k, e)
           /\ k = IF r = 0 THEN "header" ELSE IF r = 1 THEN "hit" ELSE "trailer"
    BY <1>1
  <1>3. PICK r \in 0..2, k \in Kinds :
           /\ i = 3 * e + r /\ NthWord(m, i) = Word(m, k, e)
           /\ k = IF r = 0 THEN "header" ELSE IF r = 1 THEN "hit" ELSE "trailer"
    BY <1>2
  <1>4. NthWord(m, i) \in Words /\ NthWord(m, i).mezz = m /\ NthWord(m, i).kind \in Kinds
    BY <1>3, WordTyped
  <1>5. NthWord(m, i) # NoWord
    <2>1. NoWord.kind \notin Kinds
      BY DEF NoWord, Kinds
    <2> QED BY <1>4, <2>1
  <1>6. ASSUME NEW n \in Mezz, NEW j \in 0 .. 3 * NEvents - 1, NthWord(n, j) = NthWord(m, i)
        PROVE  n = m /\ j = i
    <2>1. PICK f \in Events, q \in 0..2, l \in Kinds :
             /\ j = 3 * f + q /\ NthWord(n, j) = Word(n, l, f)
             /\ l = IF q = 0 THEN "header" ELSE IF q = 1 THEN "hit" ELSE "trailer"
      BY <1>1
    <2>2. n = m /\ l = k /\ f = e
      BY <1>3, <1>6, <2>1 DEF Word
    <2>3. q = r
      BY <1>3, <2>1, <2>2
    <2> QED BY <1>3, <2>1, <2>2, <2>3
  <1> QED BY <1>4, <1>5, <1>6

LEMMA FirstWordsGrow ==
    ASSUME NEW m \in Mezz, NEW k \in Nat, NEW n \in Nat
    PROVE  FirstWords(m, k + n) = FirstWords(m, k) \cup {NthWord(m, k + i) : i \in 0 .. n - 1}
  <1>1. ASSUME NEW w \in FirstWords(m, k + n), w \notin FirstWords(m, k)
        PROVE  w \in {NthWord(m, k + i) : i \in 0 .. n - 1}
    <2>1. PICK j \in 0 .. k + n - 1 : w = NthWord(m, j)
      BY DEF FirstWords
    <2>2. j >= k
      BY <1>1, <2>1 DEF FirstWords
    <2>3. j - k \in 0 .. n - 1 /\ k + (j - k) = j
      BY <2>2
    <2> QED BY <2>1, <2>3
  <1>2. \A j \in 0 .. k - 1 : j \in 0 .. k + n - 1
    OBVIOUS
  <1>3. \A i \in 0 .. n - 1 : k + i \in 0 .. k + n - 1
    OBVIOUS
  <1> QED BY <1>1, <1>2, <1>3 DEF FirstWords

\* The next words of m are none of the first ones of any card.
LEMMA NextIsNew ==
    ASSUME AllTypes, NEW m \in Mezz, NEW i \in sent[m] .. 3 * NEvents - 1, NEW x \in Mezz
    PROVE  i \in 0 .. 3 * NEvents - 1 /\ NthWord(m, i) \notin FirstWords(x, sent[x])
  <1>1. sent[m] \in 0 .. 3 * NEvents /\ sent[x] \in 0 .. 3 * NEvents
    BY DEF AllTypes
  <1>2. i \in 0 .. 3 * NEvents - 1
    BY <1>1, Sizes
  <1>3. ASSUME NEW j \in 0 .. sent[x] - 1 PROVE NthWord(x, j) # NthWord(m, i)
    <2>1. j \in 0 .. 3 * NEvents - 1 /\ (x = m => j # i)
      BY <1>1, Sizes
    <2> QED BY <1>2, <2>1, NthWordFacts
  <1> QED BY <1>2, <1>3 DEF FirstWords

LEMMA WordsInit == Init => AllTypes /\ PastInv /\ WordsInv
  <1> SUFFICES ASSUME Init PROVE AllTypes /\ PastInv /\ WordsInv
    OBVIOUS
  <1>1. EmptySlot \in SlotRecord /\ EmptySlot.eventBuf = NoWords
    <2>1. 0 \in 0 .. EvidMod - 1
      BY Sizes
    <2>2. NoWords \in [Mezz -> Seq(Words)]
      BY DEF NoWords
    <2> QED BY <2>1, <2>2 DEF EmptySlot, SlotRecord
  <1>2. 0 \in Slots /\ 0 \in 0 .. 3 * NEvents /\ 0 \in 0 .. MaxFaults
    BY Sizes, BoundAssumption DEF Slots, BoundAssumption
  <1>3. AllTypes
    BY <1>1, <1>2 DEF Init, AllTypes, RingTypes
  <1>4. PastInv
    BY DEF Init, PastInv
  <1>5. ASSUME NEW m \in Mezz
        PROVE  Held(BuffersOf(built, slots, evtRDBuf, m), Len(built) + NSlots,
                    FirstWords(m, sent[m]) \ lost, repeated)
    <2>1. FirstWords(m, sent[m]) \ lost = {}
      BY DEF Init, FirstWords
    <2>2. ASSUME NEW n \in 1 .. Len(built) + NSlots
          PROVE  Len(BuffersOf(built, slots, evtRDBuf, m)[n]) = 0
      <3>1. (evtRDBuf + n - Len(built) - 1) % NSlots \in Slots
        <4>1. evtRDBuf + n - Len(built) - 1 \in Int
          BY <1>3, Sizes DEF AllTypes, RingTypes, Slots
        <4> QED BY <4>1, InRing
      <3>2. ~(n <= Len(built))
        BY DEF Init
      <3>3. BufferOf(built, slots, evtRDBuf, n) = NoWords
        BY <1>1, <3>1, <3>2 DEF Init, BufferOf
      <3> QED BY <3>3 DEF BuffersOf, NoWords
    <2> QED BY <2>1, <2>2 DEF Held
  <1> QED BY <1>3, <1>4, <1>5 DEF WordsInv

\* What a step of the builder with word w of m leaves typed.
LEMMA MoveTypes ==
    ASSUME AllTypes, NEW w \in Words, Assemble(w)
    PROVE  RingTypes'
  <1>1. /\ \/ DAQState' = "Idle" /\ UNCHANGED <<slots, evtRDBuf, built, previousData>>
           \/ /\ \E s \in Slots : \E slot \in SlotRecord : Move(s, slot, w)
              /\ previousData' = [previousData EXCEPT ![w.mezz] = w] /\ DAQState' = DAQState
        /\ evtWRBuf' \in [Mezz -> Slots]
    BY AssembleMoves DEF AllTypes
  <1>2. CASE DAQState' = "Idle" /\ UNCHANGED <<slots, evtRDBuf, built, previousData>>
    BY <1>1, <1>2 DEF AllTypes, RingTypes
  <1>3. ASSUME NEW s \in Slots, NEW slot \in SlotRecord, Move(s, slot, w),
               previousData' = [previousData EXCEPT ![w.mezz] = w], DAQState' = DAQState
        PROVE  RingTypes'
    <2>1. slots' \in [Slots -> SlotRecord] /\ evtRDBuf' \in Slots /\ built' \in Seq(BuiltEvent)
      <3>1. CASE slots' = [slots EXCEPT ![s] = slot] /\ UNCHANGED <<evtRDBuf, built>>
        BY <3>1 DEF AllTypes, RingTypes
      <3>2. ASSUME NEW v \in 0 .. EvidMod - 1, Emit(s, slot, v)
            PROVE  slots' \in [Slots -> SlotRecord] /\ evtRDBuf' \in Slots /\ built' \in Seq(BuiltEvent)
        BY <3>2, EmitBuffers DEF AllTypes
      <3> QED BY <1>3, <3>1, <3>2 DEF Move
    <2>2. previousData' \in [Mezz -> Words \cup {NoWord}] /\ DAQState' \in {"Running", "Idle"}
      BY <1>3 DEF AllTypes, RingTypes
    <2> QED BY <1>1, <2>1, <2>2 DEF RingTypes
  <1> QED BY <1>1, <1>2, <1>3

\* What it leaves in the buffers: the words that were there, and w.
LEMMA MoveWords ==
    ASSUME AllTypes, NEW w \in Words, Assemble(w), DAQState' = "Running",
           NEW m \in Mezz, NEW W, NEW more,
           Held(BuffersOf(built, slots, evtRDBuf, m), Len(built) + NSlots, W, repeated),
           repeated \subseteq more,
           m = w.mezz => /\ w \notin W \/ w \in more
                         /\ previousData[m] = w => w \in W
    PROVE  Held(BuffersOf(built', slots', evtRDBuf', m), Len(built') + NSlots,
                IF m = w.mezz THEN W \cup {w} ELSE W, more)
  <1>1. RingTypes
    BY DEF AllTypes
  <1>2. PICK s \in Slots, slot \in SlotRecord : Move(s, slot, w)
    <2>1. DAQState' # "Idle"
      OBVIOUS
    <2> QED BY <1>1, <2>1, AssembleMoves
  <1> QED BY <1>1, <1>2, MoveHolds

LEMMA DeliverWords ==
    ASSUME AllTypes, PastInv, WordsInv, NEW m \in Mezz, Deliver(m)
    PROVE  AllTypes' /\ PastInv' /\ WordsInv'
  <1> DEFINE w == NthWord(m, sent[m])
  <1>1. /\ Assemble(w) /\ sent' = [sent EXCEPT ![m] = @ + 1] /\ UNCHANGED <<lost, repeated, faults>>
        /\ DAQState = "Running" /\ sent[m] < 3 * NEvents
    BY DEF Deliver
  <1>2. sent[m] \in Nat /\ sent[m] \in sent[m] .. 3 * NEvents - 1 /\ sent[m] \in 0 .. 3 * NEvents - 1
    BY <1>1, Sizes DEF AllTypes
  <1>3. w \in Words /\ w.mezz = m /\ w # NoWord
    BY <1>2, NthWordFacts
  <1>4. \A x \in Mezz : w \notin FirstWords(x, sent[x])
    BY <1>2, NextIsNew
  <1>5. w \notin lost /\ previousData[m] # w
    BY <1>2, <1>3, <1>4 DEF PastInv
  <1>6. FirstWords(m, sent'[m]) = FirstWords(m, sent[m]) \cup {w}
    <2>1. sent'[m] = sent[m] + 1
      BY <1>1 DEF AllTypes
    <2>2. FirstWords(m, sent[m] + 1)
            = FirstWords(m, sent[m]) \cup {NthWord(m, sent[m] + i) : i \in 0 .. 1 - 1}
      BY <1>2, FirstWordsGrow
    <2>3. \A i \in 0 .. 1 - 1 : sent[m] + i = sent[m]
      BY <1>2
    <2>4. 0 \in 0 .. 1 - 1
      OBVIOUS
    <2> QED BY <2>1, <2>2, <2>3, <2>4
  <1>7. \A x \in Mezz : x # m => sent'[x] = sent[x]
    BY <1>1 DEF AllTypes
  <1> HIDE DEF w
  <1>8. AllTypes'
    <2>1. sent' \in [Mezz -> 0 .. 3 * NEvents]
      BY <1>1, <1>2, Sizes DEF AllTypes
    <2> QED BY <1>1, <1>3, <2>1, MoveTypes DEF AllTypes
  <1>9. PastInv'
    <2>1. \A x \in Mezz : previousData'[x] \in {previousData[x]} \cup (IF x = m THEN {w} ELSE {})
      <3>1. previousData' = previousData \/ previousData' = [previousData EXCEPT ![m] = w]
        BY <1>1, <1>3, AssembleMoves DEF AllTypes
      <3> QED BY <3>1 DEF AllTypes, RingTypes
    <2>2. \A x \in Mezz : FirstWords(x, sent[x]) \subseteq FirstWords(x, sent'[x])
      BY <1>6, <1>7
    <2>3. \A x \in Mezz : sent[x] <= sent'[x]
      BY <1>1, <1>7, Sizes DEF AllTypes
    <2>4. w \in FirstWords(m, sent'[m])
      BY <1>6
    <2>5. \A x \in Mezz : \A i \in 0 .. 3 * NEvents - 1 : NthWord(x, i) \in lost' => i < sent'[x]
      <3>1. \A x \in Mezz : sent[x] \in Int /\ sent'[x] \in Int
        BY <1>8 DEF AllTypes
      <3> QED BY <1>1, <2>3, <3>1 DEF PastInv
    <2>6. \A x \in Mezz : previousData'[x] = NoWord \/ previousData'[x] \in FirstWords(x, sent'[x]) \ lost'
      BY <1>1, <1>5, <2>1, <2>2, <2>4 DEF PastInv
    <2> QED BY <2>5, <2>6 DEF PastInv, FirstWords
  <1>10. WordsInv'
    <2> SUFFICES ASSUME DAQState' = "Running", NEW x \in Mezz
                 PROVE  Held(BuffersOf(built', slots', evtRDBuf', x), Len(built') + NSlots,
                             FirstWords(x, sent'[x]) \ lost, repeated)
      BY <1>1 DEF WordsInv
    <2> DEFINE W == FirstWords(x, sent[x]) \ lost
    <2>1. Held(BuffersOf(built, slots, evtRDBuf, x), Len(built) + NSlots, W, repeated)
      BY <1>1 DEF WordsInv
    <2>2. w \notin W
      BY <1>4
    <2>3. FirstWords(x, sent'[x]) \ lost = IF x = w.mezz THEN W \cup {w} ELSE W
      BY <1>3, <1>5, <1>6, <1>7
    <2> HIDE DEF W
    <2>4. Held(BuffersOf(built', slots', evtRDBuf', x), Len(built') + NSlots,
               IF x = w.mezz THEN W \cup {w} ELSE W, repeated)
      BY <1>1, <1>3, <1>5, <2>1, <2>2, MoveWords
    <2> QED BY <2>3, <2>4
  <1> QED BY <1>8, <1>9, <1>10

LEMMA SkipWords ==
    ASSUME AllTypes, PastInv, WordsInv, NEW m \in Mezz, NEW n \in Nat, Skip(m, n)
    PROVE  AllTypes' /\ PastInv' /\ WordsInv'
  <1> DEFINE New == {NthWord(m, sent[m] + i) : i \in 0 .. n - 1}
  <1>1. /\ sent' = [sent EXCEPT ![m] = @ + n] /\ lost' = lost \cup New /\ faults' = faults + 1
        /\ UNCHANGED <<previousData, slots, evtWRBuf, evtRDBuf, built, DAQState, repeated>>
        /\ faults < MaxFaults /\ sent[m] + n <= 3 * NEvents
    BY DEF Skip
  <1>2. sent[m] \in Nat /\ sent'[m] = sent[m] + n /\ \A x \in Mezz : x # m => sent'[x] = sent[x]
    BY <1>1, Sizes DEF AllTypes
  <1>3. ASSUME NEW i \in 0 .. n - 1
        PROVE  sent[m] + i \in sent[m] .. 3 * NEvents - 1 /\ sent[m] + i \in 0 .. 3 * NEvents - 1
    BY <1>1, <1>2, Sizes
  <1>4. New \subseteq Words
    BY <1>3, NthWordFacts
  <1>5. \A x \in Mezz : \A w \in New : w \notin FirstWords(x, sent[x])
    BY <1>3, NextIsNew
  <1>6. FirstWords(m, sent'[m]) = FirstWords(m, sent[m]) \cup New
    BY <1>2, FirstWordsGrow
  <1>7. \A x \in Mezz : FirstWords(x, sent'[x]) \ lost' = FirstWords(x, sent[x]) \ lost
    <2> TAKE x \in Mezz
    <2>1. FirstWords(x, sent'[x]) \subseteq FirstWords(x, sent[x]) \cup New
          /\ FirstWords(x, sent[x]) \subseteq FirstWords(x, sent'[x])
      BY <1>2, <1>6
    <2> HIDE DEF New
    <2> QED BY <1>1, <1>5, <2>1
  <1>8. AllTypes'
    <2>1. sent' \in [Mezz -> 0 .. 3 * NEvents]
      BY <1>1, <1>2, Sizes DEF AllTypes
    <2>2. faults' \in 0 .. MaxFaults
      BY <1>1, BoundAssumption DEF AllTypes, BoundAssumption
    <2> HIDE DEF New
    <2> QED BY <1>1, <1>4, <2>1, <2>2 DEF AllTypes, RingTypes
  <1>9. PastInv'
    <2>1. ASSUME NEW x \in Mezz, NEW i \in 0 .. 3 * NEvents - 1, NthWord(x, i) \in lost'
          PROVE  i < sent'[x]
      <3>1. sent[x] \in Int /\ sent'[x] \in Int /\ sent[x] <= sent'[x]
        BY <1>2, Sizes DEF AllTypes
      <3>2. CASE NthWord(x, i) \in lost
        BY <3>1, <3>2 DEF PastInv
      <3>3. CASE NthWord(x, i) \in New
        <4>1. PICK j \in 0 .. n - 1 : NthWord(x, i) = NthWord(m, sent[m] + j)
          BY <3>3
        <4>2. sent[m] + j \in 0 .. 3 * NEvents - 1
          BY <1>3
        <4>3. x = m /\ i = sent[m] + j
          BY <4>1, <4>2, NthWordFacts
        <4> QED BY <1>2, <4>3
      <3> QED BY <1>1, <2>1, <3>2, <3>3
    <2>2. \A x \in Mezz : previousData'[x] = NoWord \/ previousData'[x] \in FirstWords(x, sent'[x]) \ lost'
      BY <1>1, <1>7 DEF PastInv
    <2> QED BY <2>1, <2>2 DEF PastInv, FirstWords
  <1>10. WordsInv'
    <2>1. \A x \in Mezz : FirstWords(x, sent'[x]) \ lost' = FirstWords(x, sent[x]) \ lost
      BY <1>7
    <2> QED BY <1>1, <2>1 DEF WordsInv
  <1> QED BY <1>8, <1>9, <1>10

LEMMA RepeatWords ==
    ASSUME AllTypes, PastInv, WordsInv, NEW m \in Mezz, RepeatTrailer(m)
    PROVE  AllTypes' /\ PastInv' /\ WordsInv'
  <1> DEFINE w == previousData[m]
  <1>1. /\ Assemble(w) /\ repeated' = repeated \cup {w} /\ faults' = faults + 1
        /\ UNCHANGED <<sent, lost>> /\ faults < MaxFaults
        /\ DAQState = "Running" /\ w.kind = "trailer" /\ w = NthWord(m, sent[m] - 1)
    BY DEF RepeatTrailer
  <1>2. w \in FirstWords(m, sent[m]) \ lost
    <2>1. NoWord.kind # "trailer"
      BY DEF NoWord
    <2> QED BY <1>1, <2>1 DEF PastInv
  <1>3. w \in Words /\ w.mezz = m
    <2>1. PICK i \in 0 .. sent[m] - 1 : w = NthWord(m, i)
      BY <1>2 DEF FirstWords
    <2>2. i \in 0 .. 3 * NEvents - 1
      BY Sizes DEF AllTypes
    <2> QED BY <2>1, <2>2, NthWordFacts
  <1> HIDE DEF w
  <1>4. AllTypes'
    <2>1. faults' \in 0 .. MaxFaults
      BY <1>1, BoundAssumption DEF AllTypes, BoundAssumption
    <2> QED BY <1>1, <1>3, <2>1, MoveTypes DEF AllTypes
  <1>5. PastInv'
    <2>1. \A x \in Mezz : previousData'[x] = previousData[x]
      <3>1. previousData' = previousData \/ previousData' = [previousData EXCEPT ![m] = w]
        BY <1>1, <1>3, AssembleMoves DEF AllTypes
      <3> QED BY <3>1 DEF AllTypes, RingTypes, w
    <2> QED BY <1>1, <2>1 DEF PastInv, FirstWords
  <1>6. WordsInv'
    <2> SUFFICES ASSUME DAQState' = "Running", NEW x \in Mezz
                 PROVE  Held(BuffersOf(built', slots', evtRDBuf', x), Len(built') + NSlots,
                             FirstWords(x, sent[x]) \ lost, repeated')
      BY <1>1 DEF WordsInv
    <2> DEFINE W == FirstWords(x, sent[x]) \ lost
    <2>1. Held(BuffersOf(built, slots, evtRDBuf, x), Len(built) + NSlots, W, repeated)
      BY <1>1 DEF WordsInv
    <2>2. x = w.mezz => w \in W
      BY <1>2, <1>3
    <2>3. W = IF x = w.mezz THEN W \cup {w} ELSE W
      BY <2>2
    <2> HIDE DEF W
    <2>4. repeated \subseteq repeated' /\ w \in repeated'
      BY <1>1
    <2>5. Held(BuffersOf(built', slots', evtRDBuf', x), Len(built') + NSlots,
               IF x = w.mezz THEN W \cup {w} ELSE W, repeated')
      BY <1>1, <1>3, <2>1, <2>2, <2>4, MoveWords
    <2> QED BY <2>3, <2>5 DEF W
  <1> QED BY <1>4, <1>5, <1>6

LEMMA WordsNext ==
    AllTypes /\ PastInv /\ WordsInv /\ [Next]_vars => (AllTypes /\ PastInv /\ WordsInv)'
  <1> SUFFICES ASSUME AllTypes, PastInv, WordsInv, [Next]_vars
               PROVE  AllTypes' /\ PastInv' /\ WordsInv'
    OBVIOUS
  <1>1. CASE UNCHANGED vars
    BY <1>1 DEF vars, AllTypes, RingTypes, PastInv, WordsInv
  <1>2. ASSUME NEW m \in Mezz, LoseWord(m) \/ LoseFragment(m)
        PROVE  AllTypes' /\ PastInv' /\ WordsInv'
    <2>1. Skip(m, 1) \/ Skip(m, 3)
      BY <1>2 DEF LoseWord, LoseFragment
    <2> QED BY <2>1, SkipWords
  <1> QED BY <1>1, <1>2, DeliverWords, RepeatWords DEF Next

LEMMA WordsInductive == Spec => [](AllTypes /\ PastInv /\ WordsInv)
  <1> QED BY WordsInit, WordsNext, PTL DEF Spec

\* TypeOK: whatever the links do to the words, for every ring and number of cards.
THEOREM TypesStayCorrect == Spec => []TypeOK
  <1>1. AllTypes => TypeOK
    <2> SUFFICES ASSUME AllTypes PROVE TypeOK
      OBVIOUS
    <2>1. ASSUME NEW s \in Slots
          PROVE  /\ slots[s].bufEmpty \in BOOLEAN /\ slots[s].bufEVID \in 0 .. EvidMod - 1
                 /\ slots[s].gotHeader \subseteq Mezz /\ slots[s].gotTrailer \subseteq Mezz
                 /\ slots[s].eventBuf \in [Mezz -> Seq(Words)]
      <3>1. slots[s] \in SlotRecord
        BY DEF AllTypes, RingTypes
      <3> QED BY <3>1 DEF SlotRecord
    <2> QED BY <2>1 DEF TypeOK, AllTypes, RingTypes, BuiltEvent
  <1> QED BY <1>1, WordsInductive, PTL

\* WordsConserved: whatever the links do, as long as the builder runs every word that
\* arrived is in an emitted event or in an event buffer, and none but a repeated trailer
\* is there twice, however the pointers of the cards drift apart.
THEOREM NoWordIsDropped == Spec => []WordsConserved
  <1>1. AllTypes /\ WordsInv => WordsConserved
    <2> SUFFICES ASSUME AllTypes, WordsInv, DAQState = "Running", NEW m \in Mezz
                 PROVE  /\ UNION {ToSet(Buffer(n)[m]) : n \in Buffers}
                             = {NthWord(m, i) : i \in 0 .. sent[m] - 1} \ lost
                        /\ \A n \in Buffers : \A i \in DOMAIN Buffer(n)[m] :
                             LET w == Buffer(n)[m][i]
                             IN  w \in repeated
                                 \/ /\ \A j \in 1 .. i - 1 : Buffer(n)[m][j] # w
                                    /\ \A p \in 1 .. n - 1 : w \notin ToSet(Buffer(p)[m])
      BY DEF WordsConserved, Received
    <2> DEFINE B == BuffersOf(built, slots, evtRDBuf, m)
               N == Len(built) + NSlots
               W == FirstWords(m, sent[m]) \ lost
    <2>1. Held(B, N, W, repeated)
      BY DEF WordsInv
    <2>2. N \in Nat /\ B \in [1..N -> Seq(Words)]
      BY BuffersTyped DEF AllTypes, RingTypes
    <2>3. Buffers = 1..N /\ \A n \in 1..N : Buffer(n)[m] = B[n]
      BY DEF Buffers, Buffer, BufferOf, BuffersOf
    <2>4. W = {NthWord(m, i) : i \in 0 .. sent[m] - 1} \ lost
      BY DEF FirstWords
    <2> HIDE DEF B, N, W
    <2>5. \A n \in 1..N : DOMAIN B[n] = 1..Len(B[n]) /\ ToSet(B[n]) = {B[n][i] : i \in 1..Len(B[n])}
      <3> TAKE n \in 1..N
      <3>1. B[n] \in Seq(Words)
        BY <2>2
      <3> QED BY <3>1 DEF ToSet
    <2>6. UNION {ToSet(Buffer(n)[m]) : n \in Buffers} = W
      <3>1. ASSUME NEW w \in UNION {ToSet(Buffer(n)[m]) : n \in Buffers}
            PROVE  w \in W
        <4>1. PICK n \in 1..N : w \in ToSet(B[n])
          BY <2>3
        <4>2. PICK i \in 1..Len(B[n]) : w = B[n][i]
          BY <2>5, <4>1
        <4> QED BY <2>1, <4>2 DEF Held
      <3>2. ASSUME NEW w \in W
            PROVE  w \in UNION {ToSet(Buffer(n)[m]) : n \in Buffers}
        <4>1. PICK n \in 1..N : \E i \in 1..Len(B[n]) : B[n][i] = w
          BY <2>1 DEF Held
        <4> QED BY <2>3, <2>5, <4>1
      <3> QED BY <3>1, <3>2
    <2>7. ASSUME NEW n \in Buffers, NEW i \in DOMAIN Buffer(n)[m],
                 Buffer(n)[m][i] \notin repeated
          PROVE  /\ \A j \in 1 .. i - 1 : Buffer(n)[m][j] # Buffer(n)[m][i]
                 /\ \A p \in 1 .. n - 1 : Buffer(n)[m][i] \notin ToSet(Buffer(p)[m])
      <3>1. n \in 1..N /\ Buffer(n)[m] = B[n] /\ i \in 1..Len(B[n]) /\ B[n][i] \notin repeated
        BY <2>3, <2>5, <2>7
      <3>2. /\ \A j \in 1 .. i - 1 : B[n][j] # B[n][i]
            /\ \A p \in 1 .. n - 1 : \A j \in 1..Len(B[p]) : B[p][j] # B[n][i]
        BY <2>1, <3>1 DEF Held
      <3>3. ASSUME NEW p \in 1 .. n - 1
            PROVE  Buffer(n)[m][i] \notin ToSet(Buffer(p)[m])
        <4>1. p \in 1..N
          BY <2>2, <3>1
        <4>2. Buffer(p)[m] = B[p] /\ ToSet(B[p]) = {B[p][j] : j \in 1..Len(B[p])}
          BY <2>3, <2>5, <4>1
        <4> QED BY <3>1, <3>2, <4>2
      <3> QED BY <3>1, <3>2, <3>3
    <2>8. UNION {ToSet(Buffer(n)[m]) : n \in Buffers}
            = {NthWord(m, i) : i \in 0 .. sent[m] - 1} \ lost
      BY <2>4, <2>6
    <2> QED BY <2>7, <2>8
  <1> QED BY <1>1, WordsInductive, PTL

--------------------------------------------------------------------------------
(***************************************************************************)
(* Missed triggers.  A card that has missed a trigger writes a slot behind *)
(* the others or before them, and from then on an event may be spread over *)
(* several slots.  A slot is known by its place: how many have been        *)
(* emitted before it.  Places below Len(built) are in built, those up to   *)
(* top in the ring.  at[p] is the event of place p, pos[m][x] the place    *)
(* where card m has its fragment of event x, ptr[m] the place it writes.   *)
(***************************************************************************)

\* Something of event x from m has arrived, its header first.
Begun(m, x) == sent[m] > 3 * x /\ Word(m, "header", x) \notin lost

\* The cards with words at place p.
Joined(at, pos, p) == {m \in Mezz : Begun(m, at[p]) /\ pos[m][at[p]] = p}

\* No card has sent words of its event that are not at place p.
Together(at, pos, p) == \A m \in Mezz : sent[m] > 3 * at[p] => m \in Joined(at, pos, p)

\* The slot has seen what is left of event x from these cards.
Content(slot, x, cards, sn, gone) ==
    /\ slot.gotTrailer = {m \in cards : Ended(m, x, sn[m], gone)}
    /\ slot.eventBuf = [m \in Mezz |-> IF m \in cards THEN Left(m, x, sn[m], gone) ELSE <<>>]

DriftRing(top, at, pos) ==
    \A p \in Len(built) .. Len(built) + NSlots - 1 :
      /\ Content(slots[p % NSlots], at[p], Joined(at, pos, p), sent, lost)
      /\ IF p < top THEN slots[p % NSlots].bufEmpty = FALSE /\ slots[p % NSlots].bufEVID = Evid(at[p])
                    ELSE slots[p % NSlots].bufEmpty = TRUE

\* What has been emitted is complete, and will have no further words.
DriftBuilt(at, pos) ==
    \A p \in 0 .. Len(built) - 1 :
      /\ built[p + 1].evid = Evid(at[p])
      /\ \A m \in Mezz :
           /\ sent[m] >= 3 * at[p] + 3
           /\ built[p + 1].words[m] = IF m \in Joined(at, pos, p) THEN Kept(m, at[p], lost) ELSE <<>>

DriftPlaces(top, at, pos) ==
    /\ \A m \in Mezz : \A x \in Nat :
         Begun(m, x) => pos[m][x] \in 0 .. top - 1 /\ at[pos[m][x]] = x
    /\ \A p \in 0 .. top - 1 : Joined(at, pos, p) # {}

\* Event f is the last one that m has begun: its trailer moves the pointer on.
LastBegun(m, f, pos, ptr) ==
    /\ Begun(m, f)
    /\ \A y \in Nat : y > f => ~Begun(m, y)
    /\ ptr[m] = IF Ended(m, f, sent[m], lost) THEN pos[m][f] + 1 ELSE pos[m][f]

DriftPointers(top, pos, ptr) ==
    \A m \in Mezz :
      /\ evtWRBuf[m] = ptr[m] % NSlots
      /\ Len(built) <= ptr[m] /\ ptr[m] <= top
      /\ (\A x \in Nat : ~Begun(m, x)) \/ \E f \in Nat : LastBegun(m, f, pos, ptr)

\* Events are out of their order only where they come in pieces.
DriftOrder(top, at, pos) ==
    \A i \in 0 .. top - 1 : \A j \in 0 .. i - 1 : at[j] < at[i] \/ ~Together(at, pos, i)

\* Behind an event that is together comes the next one, together, if nothing of it is lost.
DriftFollows(top, at, pos) ==
    \A p \in 0 .. top - 1 :
      Together(at, pos, p) /\ (\A w \in lost : w.event # at[p] + 1) =>
        \/ \A m \in Mezz : sent[m] <= 3 * (at[p] + 1)
        \/ \E r \in p + 1 .. top - 1 : at[r] = at[p] + 1 /\ Together(at, pos, r)

\* A slot with all trailers would have been emitted.
DriftOpen(top, at, pos) ==
    \A p \in Len(built) .. top - 1 :
      \E m \in Mezz : ~(m \in Joined(at, pos, p) /\ Ended(m, at[p], sent[m], lost))

\* Nothing in the ring is much older than a miss.
DriftBase(top, at) ==
    (\E w \in lost : w.kind = "header") =>
      \E w \in lost : /\ w.kind = "header"
                      /\ \A m \in Mezz : sent[m] >= 3 * (w.event - NSlots)
                      /\ \A p \in Len(built) .. top - 1 : at[p] >= w.event - NSlots

DriftTypes(top, at, pos, ptr) ==
    /\ top \in Nat /\ at \in [Nat -> Nat]
    /\ pos \in [Mezz -> [Nat -> Nat]] /\ ptr \in [Mezz -> Nat]

Drift(top, at, pos, ptr) ==
    /\ DriftTypes(top, at, pos, ptr)
    /\ Len(built) <= top /\ top <= Len(built) + NSlots /\ evtRDBuf = Len(built) % NSlots
    /\ DriftRing(top, at, pos) /\ DriftBuilt(at, pos)
    /\ DriftPlaces(top, at, pos) /\ DriftPointers(top, pos, ptr)
    /\ DriftOrder(top, at, pos) /\ DriftFollows(top, at, pos)
    /\ DriftOpen(top, at, pos) /\ DriftBase(top, at)

\* The cards miss triggers, and nothing worse.
MissesOnly == DAQState = "Running" /\ repeated = {} /\ MissesAreWhole /\ MissesAreRecent

DriftInv == MissesOnly => \E top, at, pos, ptr : Drift(top, at, pos, ptr)

--------------------------------------------------------------------------------
(* Nothing that is more than a missed trigger is forgotten. *)

LEMMA AllSizes ==
    ASSUME AllTypes
    PROVE  /\ Len(built) \in Nat /\ sent \in [Mezz -> Nat] /\ evtRDBuf \in Slots
           /\ \A m \in Mezz : sent[m] \in Nat /\ sent[m] <= 3 * NEvents /\ evtWRBuf[m] \in Slots
  BY Sizes DEF AllTypes, RingTypes

LEMMA Ghosts ==
    ASSUME NEW top, NEW at, NEW pos, NEW ptr, DriftTypes(top, at, pos, ptr)
    PROVE  /\ top \in Nat /\ \A p \in Nat : at[p] \in Nat
           /\ \A m \in Mezz : ptr[m] \in Nat /\ \A x \in Nat : pos[m][x] \in Nat
  BY DEF DriftTypes

LEMMA StepGrows ==
    ASSUME AllTypes, AllTypes', PastInv, [Next]_vars
    PROVE  /\ lost \subseteq lost' /\ repeated \subseteq repeated'
           /\ DAQState' = "Running" => DAQState = "Running"
           /\ \A m \in Mezz : sent[m] <= sent'[m] /\ Received(m) \subseteq Received(m)'
  <1>1. \A m \in Mezz : sent[m] \in Nat /\ sent'[m] \in Nat
    BY Sizes DEF AllTypes
  <1>2. CASE UNCHANGED vars
    BY <1>1, <1>2 DEF vars, Received
  <1>3. ASSUME NEW m \in Mezz, Deliver(m) \/ RepeatTrailer(m)
        PROVE  /\ lost \subseteq lost' /\ repeated \subseteq repeated' /\ DAQState = "Running"
               /\ \A x \in Mezz : sent[x] <= sent'[x] /\ Received(x) \subseteq Received(x)'
    <2>1. /\ lost' = lost /\ repeated \subseteq repeated' /\ DAQState = "Running"
          /\ sent' = sent \/ sent' = [sent EXCEPT ![m] = @ + 1]
      BY <1>3 DEF Deliver, RepeatTrailer
    <2>2. \A x \in Mezz : sent[x] <= sent'[x]
      BY <1>1, <2>1 DEF AllTypes
    <2>3. \A x \in Mezz : Received(x) \subseteq Received(x)'
      <3> TAKE x \in Mezz
      <3>1. \A i \in 0 .. sent[x] - 1 : i \in 0 .. sent'[x] - 1
        BY <1>1, <2>2
      <3> QED BY <2>1, <3>1 DEF Received
    <2> QED BY <2>1, <2>2, <2>3
  <1>4. ASSUME NEW m \in Mezz, NEW n \in Nat, Skip(m, n)
        PROVE  /\ lost \subseteq lost' /\ repeated \subseteq repeated' /\ DAQState = "Running"
               /\ \A x \in Mezz : sent[x] <= sent'[x] /\ Received(x) \subseteq Received(x)'
    <2> DEFINE New == {NthWord(m, sent[m] + i) : i \in 0 .. n - 1}
    <2>1. /\ lost' = lost \cup New /\ repeated' = repeated /\ DAQState = "Running"
          /\ sent' = [sent EXCEPT ![m] = @ + n] /\ sent[m] + n <= 3 * NEvents
      BY <1>4 DEF Skip
    <2>2. \A x \in Mezz : sent[x] <= sent'[x]
      BY <1>1, <2>1 DEF AllTypes
    <2>3. ASSUME NEW x \in Mezz, NEW w \in New PROVE w \notin FirstWords(x, sent[x])
      <3>1. PICK i \in 0 .. n - 1 : w = NthWord(m, sent[m] + i)
        OBVIOUS
      <3>2. sent[m] + i \in sent[m] .. 3 * NEvents - 1
        BY <1>1, <2>1, Sizes
      <3> QED BY <3>1, <3>2, NextIsNew
    <2>4. \A x \in Mezz : Received(x) \subseteq Received(x)'
      <3> TAKE x \in Mezz
      <3>1. \A i \in 0 .. sent[x] - 1 : i \in 0 .. sent'[x] - 1
        BY <1>1, <2>2
      <3>2. \A w \in FirstWords(x, sent[x]) : w \notin New
        BY <2>3
      <3> HIDE DEF New
      <3> QED BY <2>1, <3>1, <3>2 DEF Received, FirstWords
    <2> QED BY <2>1, <2>2, <2>4
  <1>5. CASE Next
    <2>1. PICK m \in Mezz : Deliver(m) \/ LoseWord(m) \/ LoseFragment(m) \/ RepeatTrailer(m)
      BY <1>5 DEF Next
    <2>2. CASE LoseWord(m) \/ LoseFragment(m)
      <3>1. Skip(m, 1) \/ Skip(m, 3)
        BY <2>2 DEF LoseWord, LoseFragment
      <3> QED BY <1>4, <3>1
    <2> QED BY <1>3, <2>1, <2>2
  <1> QED BY <1>2, <1>5

\* If the cards have done no worse than to miss triggers, they have never done worse.
LEMMA MissesBefore ==
    ASSUME AllTypes, AllTypes', PastInv, [Next]_vars, MissesOnly'
    PROVE  MissesOnly
  <1>1. /\ lost \subseteq lost' /\ repeated \subseteq repeated'
        /\ DAQState' = "Running" => DAQState = "Running"
        /\ \A m \in Mezz : sent[m] <= sent'[m] /\ Received(m) \subseteq Received(m)'
    BY StepGrows
  <1>2. MissesAreWhole
    BY <1>1 DEF MissesOnly, MissesAreWhole
  <1>3. MissesAreRecent
    <2>1. \A m \in Mezz : Done(m) \in Nat /\ Done(m)' \in Nat /\ Done(m) <= Done(m)'
      <3> TAKE m \in Mezz
      <3>1. sent[m] \in Nat /\ sent'[m] \in Nat /\ sent[m] <= sent'[m]
        BY <1>1, Sizes DEF AllTypes
      <3>2. sent[m] \div 3 \in Nat /\ sent'[m] \div 3 \in Nat /\ sent[m] \div 3 <= sent'[m] \div 3
        BY <3>1
      <3> QED BY <3>2 DEF Done
    <2>2. \A w \in lost : w.event \in Nat
      BY DEF AllTypes, Words, Events
    <2> SUFFICES ASSUME NEW w \in lost, w.kind = "header", NEW m \in Mezz
                 PROVE  Done(m) < w.event + EvidMod - NSlots
      BY DEF MissesAreRecent
    <2>3. Done(m)' < w.event + EvidMod - NSlots
      BY <1>1 DEF MissesOnly, MissesAreRecent
    <2> QED BY <2>1, <2>2, <2>3, Sizes
  <1> QED BY <1>1, <1>2, <1>3 DEF MissesOnly

--------------------------------------------------------------------------------
(* Steps that begin no fragment: a hit or a trailer arrives, or words are lost. *)

Quiet ==
    /\ lost \subseteq lost' /\ \A m \in Mezz : sent[m] <= sent'[m]
    /\ \A m \in Mezz : \A x \in Nat :
         /\ Begun(m, x)' <=> Begun(m, x)
         /\ sent'[m] > 3 * x /\ ~(sent[m] > 3 * x) => Word(m, "header", x) \in lost'

LEMMA QuietJoined ==
    ASSUME AllTypes, AllTypes', Quiet, NEW at, NEW pos, NEW p, at[p] \in Nat
    PROVE  /\ Joined(at, pos, p)' = Joined(at, pos, p)
           /\ Together(at, pos, p)' => Together(at, pos, p)
           /\ Together(at, pos, p) /\ (\A m \in Mezz : Word(m, "header", at[p]) \notin lost')
                => Together(at, pos, p)'
  <1>2. Joined(at, pos, p)' = Joined(at, pos, p)
    BY DEF Quiet, Joined
  <1>3. \A m \in Mezz : sent[m] > 3 * at[p] => sent'[m] > 3 * at[p]
    BY Sizes DEF AllTypes, Quiet
  <1>4. Together(at, pos, p)' => Together(at, pos, p)
    BY <1>2, <1>3 DEF Together
  <1>5. ASSUME Together(at, pos, p), \A m \in Mezz : Word(m, "header", at[p]) \notin lost'
        PROVE  Together(at, pos, p)'
    <2>1. \A m \in Mezz : sent'[m] > 3 * at[p] => sent[m] > 3 * at[p]
      BY <1>5 DEF Quiet
    <2> QED BY <1>2, <1>5, <2>1 DEF Together
  <1> QED BY <1>2, <1>4, <1>5

LEMMA QuietPlaces ==
    ASSUME AllTypes, AllTypes', Quiet, NEW top \in Nat, NEW at, \A p \in Nat : at[p] \in Nat, NEW pos,
           DriftPlaces(top, at, pos), DriftOrder(top, at, pos), DriftFollows(top, at, pos)
    PROVE  DriftPlaces(top, at, pos)' /\ DriftOrder(top, at, pos)' /\ DriftFollows(top, at, pos)'
  <1>1. \A p \in Nat : /\ Joined(at, pos, p)' = Joined(at, pos, p)
                       /\ Together(at, pos, p)' => Together(at, pos, p)
    BY QuietJoined
  <1>2. DriftPlaces(top, at, pos)'
    <2>1. \A m \in Mezz : \A x \in Nat :
            Begun(m, x)' => pos[m][x] \in 0 .. top - 1 /\ at[pos[m][x]] = x
      BY DEF DriftPlaces, Quiet
    <2>2. \A p \in 0 .. top - 1 : Joined(at, pos, p)' # {}
      BY <1>1 DEF DriftPlaces
    <2> QED BY <2>1, <2>2 DEF DriftPlaces
  <1>3. DriftOrder(top, at, pos)'
    BY <1>1 DEF DriftOrder
  <1>4. DriftFollows(top, at, pos)'
    <2> SUFFICES ASSUME NEW p \in 0 .. top - 1, Together(at, pos, p)',
                        \A w \in lost' : w.event # at[p] + 1
                 PROVE  \/ \A m \in Mezz : sent'[m] <= 3 * (at[p] + 1)
                        \/ \E r \in p + 1 .. top - 1 : at[r] = at[p] + 1 /\ Together(at, pos, r)'
      BY DEF DriftFollows
    <2>1. p \in Nat /\ at[p] \in Nat /\ at[p] + 1 \in Nat
      OBVIOUS
    <2>2. \A m \in Mezz : Word(m, "header", at[p] + 1) \notin lost'
      BY DEF Word
    <2>3. Together(at, pos, p) /\ \A w \in lost : w.event # at[p] + 1
      BY <1>1, <2>1 DEF Quiet
    <2>4. \/ \A m \in Mezz : sent[m] <= 3 * (at[p] + 1)
          \/ \E r \in p + 1 .. top - 1 : at[r] = at[p] + 1 /\ Together(at, pos, r)
      BY <2>3 DEF DriftFollows
    <2>5. CASE \A m \in Mezz : sent[m] <= 3 * (at[p] + 1)
      <3>1. ASSUME NEW m \in Mezz PROVE sent'[m] <= 3 * (at[p] + 1)
        <4>1. sent[m] \in Nat /\ sent'[m] \in Nat /\ sent[m] <= 3 * (at[p] + 1)
          BY <2>5, Sizes DEF AllTypes
        <4>2. ~(sent'[m] > 3 * (at[p] + 1))
          BY <2>1, <2>2, <4>1 DEF Quiet
        <4> QED BY <2>1, <4>1, <4>2
      <3> QED BY <3>1
    <2>6. ASSUME NEW r \in p + 1 .. top - 1, at[r] = at[p] + 1, Together(at, pos, r)
          PROVE  Together(at, pos, r)'
      <3>1. r \in Nat /\ \A m \in Mezz : Word(m, "header", at[r]) \notin lost'
        BY <2>2, <2>6
      <3> QED BY <2>6, <3>1, QuietJoined
    <2> QED BY <2>4, <2>5, <2>6
  <1> QED BY <1>2, <1>3, <1>4

--------------------------------------------------------------------------------
(* The EVID of a header tells its event among those of the ring. *)

LEMMA EvidApart ==
    ASSUME NEW a \in Nat, NEW b \in Nat, Evid(a) = Evid(b), a - b < EvidMod, b - a < EvidMod
    PROVE  a = b
  <1>1. a \in Int /\ b \in Int /\ EvidMod \in Nat \ {0}
    BY Sizes
  <1>2. CASE a < b
    BY <1>1, <1>2, ModApart DEF Evid
  <1>3. CASE b < a
    BY <1>1, <1>3, ModApart DEF Evid
  <1> QED BY <1>2, <1>3

LEMMA LeftHeader ==
    ASSUME NEW m \in Mezz, NEW e \in Nat, NEW n \in Nat, NEW gone,
           n > 3 * e, Word(m, "header", e) \notin gone
    PROVE  Left(m, e, n, gone) # <<>> /\ Left(m, e, n, gone)[1] = Word(m, "header", e)
  <1> DEFINE h == Word(m, "header", e)
             i == Word(m, "hit", e)
             t == Word(m, "trailer", e)
             S == {h, i, t}
             Good(s) == s \in Seq(S) /\ Len(s) > 0 /\ s[1] = h
  <1>1. h \in S /\ i \in S /\ t \in S
    OBVIOUS
  <1>2. Behind(<<>>, h, gone) = <<h>>
    BY DEF Behind
  <1> HIDE DEF h, i, t, S
  <1>3. Good(Behind(<<>>, h, gone))
    <2>1. <<h>> \in Seq(S) /\ Len(<<h>>) > 0 /\ <<h>>[1] = h
      BY <1>1
    <2> QED BY <1>2, <2>1
  <1>4. \A s : Good(s) => Good(Append(s, i)) /\ Good(Append(s, t))
    BY <1>1
  <1> HIDE DEF Good
  <1>5. Good(Behind(Behind(<<>>, h, gone), i, gone))
    BY <1>3, <1>4 DEF Behind
  <1>6. Good(Behind(Behind(Behind(<<>>, h, gone), i, gone), t, gone))
    BY <1>4, <1>5 DEF Behind
  <1>7. Good(Left(m, e, n, gone))
    BY <1>3, <1>5, <1>6 DEF Left, Kept, h, i, t
  <1> QED BY <1>7 DEF Good, h

LEMMA LivePlace ==
    ASSUME AllTypes, NEW top, NEW at, NEW pos, NEW ptr, Drift(top, at, pos, ptr),
           NEW p \in Len(built) .. top - 1
    PROVE  /\ Len(built) \in Nat /\ p \in Nat /\ p \in 0 .. top - 1 /\ at[p] \in Nat
           /\ p \in Len(built) .. Len(built) + NSlots - 1 /\ top \in Nat
           /\ Len(built) <= p /\ p < top
  <1>1. Len(built) \in Nat /\ top \in Nat /\ top <= Len(built) + NSlots /\ NSlots \in Nat
    BY AllSizes, Sizes, Ghosts DEF Drift
  <1>2. p \in Nat /\ p \in 0 .. top - 1 /\ p \in Len(built) .. Len(built) + NSlots - 1
    BY <1>1
  <1> QED BY <1>1, <1>2, Ghosts DEF Drift

\* Until a header is lost, the ring is the window of LossesStayContained.
LEMMA EarlyPlaces ==
    ASSUME AllTypes, KeptRing, HeadersArrive, NEW top, NEW at, NEW pos, NEW ptr,
           Drift(top, at, pos, ptr), NEW p \in Len(built) .. top - 1
    PROVE  at[p] = p
  <1>1. /\ Len(built) \in Nat /\ p \in Nat /\ p \in 0 .. top - 1 /\ at[p] \in Nat
        /\ p \in Len(built) .. Len(built) + NSlots - 1
    BY LivePlace
  <1>2. PICK m \in Mezz : m \in Joined(at, pos, p)
    BY <1>1 DEF Drift, DriftPlaces, Joined
  <1>3. slots[p % NSlots].eventBuf[m] = Left(m, at[p], sent[m], lost)
    BY <1>1, <1>2 DEF Drift, DriftRing, Content
  <1>4. slots[p % NSlots].eventBuf[m] = Left(m, p, sent[m], lost)
    BY <1>1 DEF KeptRing, KeptWindow, Keeps
  <1>5. /\ sent[m] \in Nat /\ sent[m] > 3 * at[p] /\ Word(m, "header", at[p]) \notin lost
        /\ Word(m, "header", p) \notin lost /\ at[p] \in Nat
    BY <1>1, <1>2, AllSizes DEF Joined, Begun, HeadersArrive, Word
  <1>6. /\ Left(m, at[p], sent[m], lost) # <<>>
        /\ Left(m, at[p], sent[m], lost)[1] = Word(m, "header", at[p])
    BY <1>5, LeftHeader
  <1>7. sent[m] > 3 * p
    <2>1. Left(m, p, sent[m], lost) # <<>>
      BY <1>3, <1>4, <1>6
    <2>2. ~(sent[m] <= 3 * p)
      BY <2>1 DEF Left
    <2>3. 3 * p \in Nat /\ sent[m] \in Nat
      BY <1>1, <1>5
    <2> QED BY ONLY <2>2, <2>3
  <1>8. Left(m, p, sent[m], lost)[1] = Word(m, "header", p)
    BY <1>1, <1>5, <1>7, LeftHeader
  <1>9. Word(m, "header", at[p]) = Word(m, "header", p)
    BY <1>3, <1>4, <1>6, <1>8
  <1> QED BY <1>9, WordsDiffer

LEMMA NoAlias ==
    ASSUME AllTypes, KeptInv, MissesOnly, NEW top, NEW at, NEW pos, NEW ptr, Drift(top, at, pos, ptr),
           NEW m \in Mezz, NEW x \in Nat, sent[m] = 3 * x,
           NEW p \in Len(built) .. top - 1, Evid(at[p]) = Evid(x)
    PROVE  at[p] = x
  <1>1. /\ Len(built) \in Nat /\ p \in Nat /\ p \in 0 .. top - 1 /\ at[p] \in Nat
        /\ Len(built) <= p /\ p < top /\ top \in Nat
    BY LivePlace
  <1>2. PICK q \in Mezz : Begun(q, at[p])
    BY <1>1 DEF Drift, DriftPlaces, Joined
  <1>3. /\ sent[q] \in Nat /\ sent[q] > 3 * at[p] /\ Done(q) \in Nat /\ at[p] <= Done(q)
        /\ Done(m) = x
    <2>1. sent[q] \in Nat /\ sent[q] > 3 * at[p]
      BY <1>2, AllSizes DEF Begun
    <2>2. sent[q] \div 3 \in Nat /\ at[p] <= sent[q] \div 3 /\ sent[m] \div 3 = x
      BY <1>1, <2>1
    <2> QED BY <2>1, <2>2 DEF Done
  <1>4. CASE \E w \in lost : w.kind = "header"
    <2>1. PICK w \in lost : /\ w.kind = "header"
                            /\ \A y \in Mezz : sent[y] >= 3 * (w.event - NSlots)
                            /\ \A y \in Len(built) .. top - 1 : at[y] >= w.event - NSlots
      BY <1>4 DEF Drift, DriftBase
    <2>2. w.event \in Nat
      BY DEF AllTypes, Words, Events
    <2>3. at[p] >= w.event - NSlots /\ x >= w.event - NSlots
      <3>1. 3 * x >= 3 * (w.event - NSlots)
        BY <2>1
      <3>2. w.event - NSlots \in Int
        BY ONLY <2>2, Sizes
      <3>3. x >= w.event - NSlots
        BY ONLY <3>1, <3>2
      <3> QED BY <2>1, <3>3
    <2>4. Done(q) < w.event + EvidMod - NSlots /\ x < w.event + EvidMod - NSlots
      BY <1>3, <2>1 DEF MissesOnly, MissesAreRecent
    <2>5. at[p] - x < EvidMod /\ x - at[p] < EvidMod
      <3>1. /\ at[p] \in Nat /\ w.event \in Nat /\ NSlots \in Nat /\ EvidMod \in Nat /\ Done(q) \in Nat
            /\ at[p] <= Done(q)
        BY <1>1, <1>3, <2>2, Sizes
      <3> QED BY ONLY <2>3, <2>4, <3>1
    <2> QED BY <1>1, <2>5, EvidApart
  <1>5. CASE \A w \in lost : w.kind # "header"
    <2>1. HeadersArrive /\ KeptRing
      BY <1>5 DEF MissesOnly, HeadersArrive, KeptInv
    <2>2. at[p] = p
      BY <2>1, EarlyPlaces DEF Drift
    <2>3. Len(built) <= x /\ x <= Len(built) + NSlots
      <3>1. sent[m] = 3 * x + 0 /\ 0 \in 0..2
        OBVIOUS
      <3>2. Len(built) <= x /\ (x < Len(built) + NSlots \/ (x = Len(built) + NSlots /\ 0 = 0))
        BY <2>1, <3>1, KeptNextEvent
      <3> QED BY ONLY <1>1, <3>2, Sizes
    <2>4. at[p] - x < EvidMod /\ x - at[p] < EvidMod
      <3>1. top <= Len(built) + NSlots
        BY DEF Drift
      <3>3. p - x < EvidMod /\ x - p < EvidMod
        BY <1>1, <2>3, <3>1, Sizes
      <3> QED BY <2>2, <3>3
    <2> QED BY <1>1, <2>4, EvidApart
  <1> QED BY <1>4, <1>5

--------------------------------------------------------------------------------
(* A step of card m with its event x touches nothing else. *)

Elsewhere(m, x) ==
    \A c \in Mezz, f \in Nat : (c = m => f # x) =>
      /\ Left(c, f, sent'[c], lost') = Left(c, f, sent[c], lost)
      /\ Ended(c, f, sent'[c], lost') <=> Ended(c, f, sent[c], lost)
      /\ Begun(c, f)' <=> Begun(c, f)
      /\ sent'[c] > 3 * f <=> sent[c] > 3 * f

LEMMA StepElsewhere ==
    ASSUME AllTypes, AllTypes', NEW m \in Mezz, NEW x \in Nat,
           3 * x <= sent[m], sent[m] < 3 * x + 3, sent[m] < sent'[m], sent'[m] <= 3 * x + 3,
           \A c \in Mezz : c # m => sent'[c] = sent[c],
           lost \subseteq lost', \A w \in lost' : w \notin lost => w.event = x /\ w.mezz = m
    PROVE  Elsewhere(m, x)
  <1> SUFFICES ASSUME NEW c \in Mezz, NEW f \in Nat, c = m => f # x
               PROVE  /\ Left(c, f, sent'[c], lost') = Left(c, f, sent[c], lost)
                      /\ Ended(c, f, sent'[c], lost') <=> Ended(c, f, sent[c], lost)
                      /\ Begun(c, f)' <=> Begun(c, f)
                      /\ sent'[c] > 3 * f <=> sent[c] > 3 * f
    BY DEF Elsewhere
  <1>1. sent[c] \in Nat /\ sent'[c] \in Nat
    BY Sizes DEF AllTypes
  <1>2. \A k : Word(c, k, f) \in lost' <=> Word(c, k, f) \in lost
    BY DEF Word
  <1>3. /\ sent'[c] > 3 * f <=> sent[c] > 3 * f
        /\ \/ sent'[c] = sent[c] \/ (sent[c] <= 3 * f /\ sent'[c] <= 3 * f)
           \/ (sent[c] >= 3 * f + 3 /\ sent'[c] >= 3 * f + 3)
    <2>1. CASE c # m
      <3>1. sent'[c] = sent[c]
        BY <2>1
      <3> QED BY <3>1
    <2>2. CASE c = m
      <3>1. f < x \/ f > x
        BY <2>2
      <3>2. CASE f < x
        <4>1. 3 * f + 3 <= 3 * x
          BY <3>2
        <4> QED BY <1>1, <2>2, <4>1
      <3>3. CASE f > x
        <4>1. 3 * x + 3 <= 3 * f
          BY <3>3
        <4> QED BY <1>1, <2>2, <4>1
      <3> QED BY <3>1, <3>2, <3>3
    <2> QED BY <2>1, <2>2
  <1>4. /\ Ended(c, f, sent'[c], lost') <=> Ended(c, f, sent[c], lost)
        /\ Left(c, f, sent'[c], lost') = Left(c, f, sent[c], lost)
    <2>1. /\ Word(c, "header", f) \in lost' <=> Word(c, "header", f) \in lost
          /\ Word(c, "hit", f) \in lost' <=> Word(c, "hit", f) \in lost
          /\ Word(c, "trailer", f) \in lost' <=> Word(c, "trailer", f) \in lost
      BY <1>2
    <2>2. \/ sent[c] = sent'[c] \/ (sent[c] <= 3 * f /\ sent'[c] <= 3 * f)
          \/ (sent[c] >= 3 * f + 3 /\ sent'[c] >= 3 * f + 3)
      BY <1>3
    <2> DEFINE n == sent[c]
               k == sent'[c]
               more == lost'
    <2>3. /\ n \in Nat /\ k \in Nat /\ c \in Mezz /\ f \in Nat
          /\ n = k \/ (n <= 3 * f /\ k <= 3 * f) \/ (n >= 3 * f + 3 /\ k >= 3 * f + 3)
          /\ Word(c, "header", f) \in more <=> Word(c, "header", f) \in lost
          /\ Word(c, "hit", f) \in more <=> Word(c, "hit", f) \in lost
          /\ Word(c, "trailer", f) \in more <=> Word(c, "trailer", f) \in lost
      BY <1>1, <2>1, <2>2
    <2> HIDE DEF n, k, more
    <2>4. /\ Ended(c, f, k, more) <=> Ended(c, f, n, lost)
          /\ Left(c, f, k, more) = Left(c, f, n, lost)
      BY ONLY <2>3, LeftStays
    <2> QED BY <2>4 DEF n, k, more
  <1>5. Begun(c, f)' <=> Begun(c, f)
    BY <1>2, <1>3 DEF Begun
  <1> QED BY <1>3, <1>4, <1>5

\* A slot without that fragment holds what it held.
LEMMA ContentStays ==
    ASSUME NEW m \in Mezz, NEW x \in Nat, Elsewhere(m, x), NEW slot, NEW f \in Nat,
           NEW cards \in SUBSET Mezz, Content(slot, f, cards, sent, lost), f # x \/ m \notin cards
    PROVE  Content(slot, f, cards, sent', lost')
  <1>1. \A c \in cards :
          /\ Left(c, f, sent'[c], lost') = Left(c, f, sent[c], lost)
          /\ Ended(c, f, sent'[c], lost') <=> Ended(c, f, sent[c], lost)
    BY DEF Elsewhere
  <1> QED BY <1>1 DEF Content

\* A slot that takes the next word of that fragment holds what is left of it.
LEMMA ContentGrows ==
    ASSUME NEW m \in Mezz, NEW x \in Nat, NEW r \in 0..2, Elsewhere(m, x), NEW slot, NEW new,
           NEW cards \in SUBSET Mezz, Content(slot, x, cards, sent, lost), Extends(new, slot, m, x, r),
           m \in cards \/ r = 0, sent[m] = 3 * x + r, sent'[m] = sent[m] + 1,
           lost' = lost, WordOf(m, x, r) \notin lost
    PROVE  Content(new, x, cards \cup {m}, sent', lost')
  <1> DEFINE more == cards \cup {m}
  <1>1. /\ Left(m, x, sent'[m], lost) = Append(Left(m, x, sent[m], lost), WordOf(m, x, r))
        /\ ~Ended(m, x, sent[m], lost) /\ (Ended(m, x, sent'[m], lost) <=> r = 2)
    BY LeftGrows
  <1>2. \A c \in cards : c # m =>
          /\ Left(c, x, sent'[c], lost) = Left(c, x, sent[c], lost)
          /\ Ended(c, x, sent'[c], lost) <=> Ended(c, x, sent[c], lost)
    BY DEF Elsewhere
  <1>3. new.gotTrailer = {c \in more : Ended(c, x, sent'[c], lost)}
    <2>1. slot.gotTrailer = {c \in cards : Ended(c, x, sent[c], lost)}
      BY DEF Content
    <2>2. CASE r = 2
      <3>1. new.gotTrailer = slot.gotTrailer \cup {m}
        BY <2>2 DEF Extends
      <3> QED BY <1>1, <1>2, <2>1, <2>2, <3>1
    <2>3. CASE r # 2
      <3>1. new.gotTrailer = slot.gotTrailer
        BY <2>3 DEF Extends
      <3> QED BY <1>1, <1>2, <2>1, <2>3, <3>1
    <2> QED BY <2>2, <2>3
  <1>4. new.eventBuf = [c \in Mezz |-> IF c \in more THEN Left(c, x, sent'[c], lost) ELSE <<>>]
    <2>1. slot.eventBuf = [c \in Mezz |-> IF c \in cards THEN Left(c, x, sent[c], lost) ELSE <<>>]
      BY DEF Content
    <2>2. slot.eventBuf[m] = Left(m, x, sent[m], lost)
      <3>1. r = 0 => Left(m, x, sent[m], lost) = <<>>
        BY DEF Left
      <3> QED BY <2>1, <3>1
    <2>3. new.eventBuf = [slot.eventBuf EXCEPT ![m] = Left(m, x, sent'[m], lost)]
      BY <1>1, <2>2 DEF Extends
    <2> QED BY <1>2, <2>1, <2>3
  <1> QED BY <1>3, <1>4 DEF Content

--------------------------------------------------------------------------------
(* Words are lost. *)

\* What is lost belongs to one event of the card: what it would have sent next.
LEMMA SkipLoses ==
    ASSUME AllTypes, NEW m \in Mezz, NEW n \in {1, 3}, Skip(m, n), n = 3 => sent[m] % 3 = 0
    PROVE  \E x \in Events : \E r \in 0..2 :
             /\ sent[m] = 3 * x + r /\ sent'[m] = sent[m] + n /\ sent'[m] <= 3 * x + 3
             /\ \A c \in Mezz : c # m => sent'[c] = sent[c]
             /\ lost \subseteq lost' /\ \A w \in lost' : w \notin lost => w.event = x /\ w.mezz = m
             /\ r = 0 => Word(m, "header", x) \in lost'
             /\ r # 0 => lost' = lost \cup {WordOf(m, x, r)}
  <1> DEFINE New == {NthWord(m, sent[m] + i) : i \in 0 .. n - 1}
  <1>1. /\ sent[m] + n <= 3 * NEvents /\ sent' = [sent EXCEPT ![m] = @ + n] /\ lost' = lost \cup New
    BY DEF Skip
  <1>2. sent[m] \in Nat /\ sent[m] \in 0 .. 3 * NEvents /\ sent[m] < 3 * NEvents /\ n \in Nat /\ n > 0
    BY <1>1, Sizes DEF AllTypes
  <1>3. PICK x \in Events : \E r \in 0..2 :
           /\ sent[m] = 3 * x + r /\ sent[m] % 3 = r
           /\ r = 0 => NthWord(m, sent[m]) = Word(m, "header", x)
           /\ r = 1 => NthWord(m, sent[m]) = Word(m, "hit", x)
           /\ r = 2 => NthWord(m, sent[m]) = Word(m, "trailer", x)
    BY <1>2, TheWord
  <1>4. PICK r \in 0..2 :
           /\ sent[m] = 3 * x + r /\ sent[m] % 3 = r
           /\ r = 0 => NthWord(m, sent[m]) = Word(m, "header", x)
           /\ r = 1 => NthWord(m, sent[m]) = Word(m, "hit", x)
           /\ r = 2 => NthWord(m, sent[m]) = Word(m, "trailer", x)
    BY <1>3
  <1>5. x \in Nat /\ (n = 3 => r = 0) /\ r + n <= 3
    BY <1>4 DEF Events
  <1>6. /\ sent'[m] = sent[m] + n /\ \A c \in Mezz : c # m => sent'[c] = sent[c]
        /\ sent'[m] <= 3 * x + 3
    <2>1. sent'[m] = sent[m] + n /\ \A c \in Mezz : c # m => sent'[c] = sent[c]
      BY <1>1 DEF AllTypes
    <2> QED BY <1>4, <1>5, <2>1
  <1>7. ASSUME NEW w \in New PROVE w.event = x /\ w.mezz = m
    <2>1. PICK i \in 0 .. n - 1 : w = NthWord(m, sent[m] + i)
      OBVIOUS
    <2>2. sent[m] + i \in 0 .. 3 * NEvents /\ sent[m] + i < 3 * NEvents
      BY <1>1, <1>2, Sizes
    <2>3. PICK e \in Events : \E q \in 0..2 :
             /\ sent[m] + i = 3 * e + q
             /\ q = 0 => NthWord(m, sent[m] + i) = Word(m, "header", e)
             /\ q = 1 => NthWord(m, sent[m] + i) = Word(m, "hit", e)
             /\ q = 2 => NthWord(m, sent[m] + i) = Word(m, "trailer", e)
      BY <2>2, TheWord
    <2>4. e = x
      <3>1. 3 * e <= 3 * x + r + i /\ 3 * x + r + i < 3 * e + 3 /\ r + i < 3 /\ e \in Nat /\ i \in Nat
        BY <1>2, <1>4, <1>5, <2>3 DEF Events
      <3> QED BY <1>5, <3>1
    <2>5. \E k : w = Word(m, k, x)
      <3>1. PICK q \in 0..2 :
             /\ q = 0 => NthWord(m, sent[m] + i) = Word(m, "header", e)
             /\ q = 1 => NthWord(m, sent[m] + i) = Word(m, "hit", e)
             /\ q = 2 => NthWord(m, sent[m] + i) = Word(m, "trailer", e)
        BY <2>3
      <3>2. q = 0 \/ q = 1 \/ q = 2
        OBVIOUS
      <3> QED BY <2>1, <2>4, <3>1, <3>2
    <2> QED BY <2>5 DEF Word
  <1>8. NthWord(m, sent[m]) \in New
    <2>1. 0 \in 0 .. n - 1 /\ sent[m] + 0 = sent[m]
      BY <1>2
    <2> QED BY <2>1
  <1>9. ASSUME r # 0 PROVE lost' = lost \cup {WordOf(m, x, r)}
    <2>1. NthWord(m, sent[m]) = WordOf(m, x, r)
      <3>1. r = 1 \/ r = 2
        BY <1>9
      <3> QED BY <1>4, <1>5, <3>1, WordKinds
    <2>2. New = {NthWord(m, sent[m])}
      <3>1. 0 .. n - 1 = {0} /\ sent[m] + 0 = sent[m]
        BY <1>2, <1>5, <1>9
      <3> QED BY <3>1
    <2> QED BY <1>1, <2>1, <2>2
  <1> HIDE DEF New
  <1>10. lost \subseteq lost' /\ \A w \in lost' : w \notin lost => w.event = x /\ w.mezz = m
    BY <1>1, <1>7
  <1>11. r = 0 => Word(m, "header", x) \in lost'
    BY <1>1, <1>4, <1>8
  <1> QED BY <1>4, <1>6, <1>9, <1>10, <1>11

\* No fragment begins, and of those that have begun the same words are there.
LEMMA SkipQuiet ==
    ASSUME AllTypes, AllTypes', NEW m \in Mezz, NEW x \in Nat, NEW r \in 0..2, NEW n \in {1, 3},
           sent[m] = 3 * x + r, sent'[m] = sent[m] + n, sent'[m] <= 3 * x + 3,
           \A c \in Mezz : c # m => sent'[c] = sent[c],
           lost \subseteq lost', \A w \in lost' : w \notin lost => w.event = x /\ w.mezz = m,
           r = 0 => Word(m, "header", x) \in lost',
           r # 0 => lost' = lost \cup {WordOf(m, x, r)}
    PROVE  /\ Quiet
           /\ \A c \in Mezz, f \in Nat : Begun(c, f) =>
                /\ Left(c, f, sent'[c], lost') = Left(c, f, sent[c], lost)
                /\ Ended(c, f, sent'[c], lost') <=> Ended(c, f, sent[c], lost)
  <1>1. \A c \in Mezz : sent[c] \in Nat /\ sent'[c] \in Nat /\ sent[c] <= sent'[c]
    BY Sizes DEF AllTypes
  <1>2. Elsewhere(m, x)
    BY <1>1, StepElsewhere
  <1>3. /\ Begun(m, x)' <=> Begun(m, x)
        /\ sent'[m] > 3 * x /\ ~(sent[m] > 3 * x) => Word(m, "header", x) \in lost'
        /\ Begun(m, x) => /\ Left(m, x, sent'[m], lost') = Left(m, x, sent[m], lost)
                          /\ Ended(m, x, sent'[m], lost') <=> Ended(m, x, sent[m], lost)
    <2>1. CASE r = 0
      <3>1. ~(sent[m] > 3 * x) /\ Word(m, "header", x) \in lost'
        BY <2>1
      <3> QED BY <3>1 DEF Begun
    <2>2. CASE r # 0
      <3>1. r \in 1..2 /\ sent[m] > 3 * x /\ sent'[m] > 3 * x /\ sent'[m] = sent[m] + 1
        BY <1>1, <2>2
      <3>2. /\ Left(m, x, sent'[m], lost') = Left(m, x, sent[m], lost)
            /\ ~Ended(m, x, sent[m], lost) /\ ~Ended(m, x, sent'[m], lost')
        <4>1. /\ m \in Mezz /\ x \in Nat /\ r \in 1..2 /\ sent[m] = 3 * x + r
              /\ sent'[m] = sent[m] + 1 /\ lost' = lost \cup {WordOf(m, x, r)}
          BY <2>2, <3>1
        <4> QED BY ONLY <4>1, LeftLost
      <3>3. Word(m, "header", x) \in lost' <=> Word(m, "header", x) \in lost
        <4>1. WordOf(m, x, r) # Word(m, "header", x)
          <5>1. r = 1 \/ r = 2
            BY <3>1
          <5> QED BY <5>1, WordKinds, WordsDiffer
        <4> QED BY <2>2, <4>1
      <3> QED BY <3>1, <3>2, <3>3 DEF Begun
    <2> QED BY <2>1, <2>2
  <1>4. Quiet
    <2>1. ASSUME NEW c \in Mezz, NEW f \in Nat
          PROVE  /\ Begun(c, f)' <=> Begun(c, f)
                 /\ sent'[c] > 3 * f /\ ~(sent[c] > 3 * f) => Word(c, "header", f) \in lost'
      <3>1. CASE c = m /\ f = x
        BY <1>3, <3>1
      <3>2. CASE ~(c = m /\ f = x)
        BY <1>2, <3>2 DEF Elsewhere
      <3> QED BY <3>1, <3>2
    <2> QED BY <1>1, <2>1 DEF Quiet
  <1>5. ASSUME NEW c \in Mezz, NEW f \in Nat, Begun(c, f)
        PROVE  /\ Left(c, f, sent'[c], lost') = Left(c, f, sent[c], lost)
               /\ Ended(c, f, sent'[c], lost') <=> Ended(c, f, sent[c], lost)
    <2>1. CASE c = m /\ f = x
      BY <1>3, <1>5, <2>1
    <2>2. CASE ~(c = m /\ f = x)
      BY <1>2, <2>2 DEF Elsewhere
    <2> QED BY <2>1, <2>2
  <1> QED BY <1>4, <1>5

LEMMA SkipBase ==
    ASSUME AllTypes, AllTypes', KeptInv, MissesOnly, UNCHANGED built,
           NEW top, NEW at, NEW pos, NEW ptr, Drift(top, at, pos, ptr),
           NEW m \in Mezz, NEW x \in Nat, NEW r \in 0..2, sent[m] = 3 * x + r,
           \A c \in Mezz : sent[c] <= sent'[c],
           lost \subseteq lost', \A w \in lost' : w \notin lost => w.event = x /\ w.mezz = m
    PROVE  DriftBase(top, at)'
  <1> SUFFICES ASSUME NEW h \in lost', h.kind = "header"
               PROVE  \E w \in lost' : /\ w.kind = "header"
                                       /\ \A c \in Mezz : sent'[c] >= 3 * (w.event - NSlots)
                                       /\ \A p \in Len(built) .. top - 1 : at[p] >= w.event - NSlots
    BY DEF DriftBase
  <1>1. \A c \in Mezz : sent[c] \in Nat /\ sent'[c] \in Nat
    BY Sizes DEF AllTypes
  <1>2. NSlots \in Nat /\ Len(built) \in Nat
    BY AllSizes, Sizes
  <1>3. CASE \E w \in lost : w.kind = "header"
    <2>1. PICK w \in lost : /\ w.kind = "header"
                            /\ \A c \in Mezz : sent[c] >= 3 * (w.event - NSlots)
                            /\ \A p \in Len(built) .. top - 1 : at[p] >= w.event - NSlots
      BY <1>3 DEF Drift, DriftBase
    <2>2. w.event \in Nat
      BY DEF AllTypes, Words, Events
    <2>3. 3 * (w.event - NSlots) \in Int
      BY <1>2, <2>2
    <2>4. \A c \in Mezz : sent'[c] >= 3 * (w.event - NSlots)
      BY <1>1, <2>1, <2>3
    <2> QED BY <2>1, <2>4
  <1>4. CASE \A w \in lost : w.kind # "header"
    <2>1. HeadersArrive /\ KeptRing
      BY <1>4 DEF MissesOnly, HeadersArrive, KeptInv
    <2>2. h.event = x
      BY <1>4
    <2>3. x <= Len(built) + NSlots
      <3>1. Len(built) <= x /\ (x < Len(built) + NSlots \/ (x = Len(built) + NSlots /\ r = 0))
        BY <2>1, KeptNextEvent
      <3> QED BY <1>2, <3>1
    <2>4. 3 * (x - NSlots) <= 3 * Len(built)
      BY <1>2, <2>3
    <2>5. \A c \in Mezz : sent'[c] >= 3 * (x - NSlots)
      <3> TAKE c \in Mezz
      <3>1. 3 * Len(built) <= sent[c] /\ sent[c] <= sent'[c]
        BY <2>1 DEF KeptRing, KeptSpread
      <3>2. 3 * Len(built) \in Int /\ 3 * (x - NSlots) \in Int /\ sent[c] \in Int /\ sent'[c] \in Int
        BY <1>1, <1>2
      <3> QED BY ONLY <2>4, <3>1, <3>2
    <2>6. \A p \in Len(built) .. top - 1 : at[p] >= x - NSlots
      <3> SUFFICES ASSUME NEW p \in Len(built) .. top - 1 PROVE at[p] >= x - NSlots
        OBVIOUS
      <3>1. at[p] = p
        BY <2>1, EarlyPlaces
      <3>2. p \in Nat /\ Len(built) <= p
        BY LivePlace
      <3> QED BY <1>2, <2>3, <3>1, <3>2
    <2> QED BY <2>2, <2>5, <2>6
  <1> QED BY <1>3, <1>4

LEMMA SkipDrift ==
    ASSUME AllTypes, AllTypes', KeptInv, MissesOnly,
           NEW top, NEW at, NEW pos, NEW ptr, Drift(top, at, pos, ptr),
           NEW m \in Mezz, NEW n \in {1, 3}, Skip(m, n), n = 3 => sent[m] % 3 = 0
    PROVE  Drift(top, at, pos, ptr)'
  <1>1. UNCHANGED <<slots, evtWRBuf, evtRDBuf, built>>
    BY DEF Skip
  <1>2. PICK x \in Events : \E r \in 0..2 :
             /\ sent[m] = 3 * x + r /\ sent'[m] = sent[m] + n /\ sent'[m] <= 3 * x + 3
             /\ \A c \in Mezz : c # m => sent'[c] = sent[c]
             /\ lost \subseteq lost' /\ \A w \in lost' : w \notin lost => w.event = x /\ w.mezz = m
             /\ r = 0 => Word(m, "header", x) \in lost'
             /\ r # 0 => lost' = lost \cup {WordOf(m, x, r)}
    BY SkipLoses
  <1>3. PICK r \in 0..2 :
             /\ sent[m] = 3 * x + r /\ sent'[m] = sent[m] + n /\ sent'[m] <= 3 * x + 3
             /\ \A c \in Mezz : c # m => sent'[c] = sent[c]
             /\ lost \subseteq lost' /\ \A w \in lost' : w \notin lost => w.event = x /\ w.mezz = m
             /\ r = 0 => Word(m, "header", x) \in lost'
             /\ r # 0 => lost' = lost \cup {WordOf(m, x, r)}
    BY <1>2
  <1>4. x \in Nat
    BY DEF Events
  <1>5. /\ Quiet
        /\ \A c \in Mezz, f \in Nat : Begun(c, f) =>
             /\ Left(c, f, sent'[c], lost') = Left(c, f, sent[c], lost)
             /\ Ended(c, f, sent'[c], lost') <=> Ended(c, f, sent[c], lost)
    BY <1>3, <1>4, SkipQuiet
  <1>6. \A c \in Mezz : sent[c] \in Nat /\ sent'[c] \in Nat /\ sent[c] <= sent'[c]
    BY <1>5, Sizes DEF AllTypes, Quiet
  <1>7. /\ DriftTypes(top, at, pos, ptr) /\ top \in Nat /\ \A p \in Nat : at[p] \in Nat
        /\ Len(built) \in Nat /\ NSlots \in Nat
    BY Ghosts, AllSizes, Sizes DEF Drift
  <1>8. \A p \in Nat : Joined(at, pos, p)' = Joined(at, pos, p)
    BY <1>5, <1>7, QuietJoined
  <1>9. DriftRing(top, at, pos)'
    <2> SUFFICES ASSUME NEW p \in Len(built) .. Len(built) + NSlots - 1
                 PROVE  Content(slots[p % NSlots], at[p], Joined(at, pos, p)', sent', lost')
      BY <1>1 DEF Drift, DriftRing
    <2>1. p \in Nat /\ at[p] \in Nat
      BY <1>7
    <2>2. Content(slots[p % NSlots], at[p], Joined(at, pos, p), sent, lost)
      BY DEF Drift, DriftRing
    <2>3. \A c \in Joined(at, pos, p) :
            /\ Left(c, at[p], sent'[c], lost') = Left(c, at[p], sent[c], lost)
            /\ Ended(c, at[p], sent'[c], lost') <=> Ended(c, at[p], sent[c], lost)
      BY <1>5, <2>1 DEF Joined
    <2> QED BY <1>8, <2>1, <2>2, <2>3 DEF Content
  <1>10. DriftBuilt(at, pos)'
    <2> SUFFICES ASSUME NEW p \in 0 .. Len(built) - 1, NEW c \in Mezz
                 PROVE  /\ sent'[c] >= 3 * at[p] + 3
                        /\ Kept(c, at[p], lost') = Kept(c, at[p], lost)
                        /\ Joined(at, pos, p)' = Joined(at, pos, p)
      BY <1>1 DEF Drift, DriftBuilt
    <2>1. p \in Nat /\ at[p] \in Nat /\ sent[c] >= 3 * at[p] + 3
      <3>1. p \in Nat
        BY <1>7
      <3>2. sent[c] >= 3 * at[p] + 3
        BY DEF Drift, DriftBuilt
      <3> QED BY <1>7, <3>1, <3>2
    <2>2. c = m => at[p] # x
      BY <1>3, <1>4, <2>1
    <2>3. \A k : Word(c, k, at[p]) \in lost' <=> Word(c, k, at[p]) \in lost
      BY <1>3, <2>2 DEF Word
    <2>4. Kept(c, at[p], lost') = Kept(c, at[p], lost)
      BY <2>3 DEF Kept, Behind
    <2> QED BY <1>6, <1>8, <2>1, <2>4
  <1>11. DriftPlaces(top, at, pos)' /\ DriftOrder(top, at, pos)' /\ DriftFollows(top, at, pos)'
    BY <1>5, <1>7, QuietPlaces DEF Drift
  <1>12. DriftPointers(top, pos, ptr)'
    <2>1. ASSUME NEW c \in Mezz, NEW f \in Nat, LastBegun(c, f, pos, ptr)
          PROVE  LastBegun(c, f, pos, ptr)'
      BY <1>5, <2>1 DEF LastBegun, Quiet
    <2>2. \A c \in Mezz : (\A f \in Nat : ~Begun(c, f)) => (\A f \in Nat : ~Begun(c, f)')
      BY <1>5 DEF Quiet
    <2> QED BY <1>1, <2>1, <2>2 DEF Drift, DriftPointers
  <1>13. DriftOpen(top, at, pos)'
    <2> SUFFICES ASSUME NEW p \in Len(built) .. top - 1
                 PROVE  \E c \in Mezz : ~(c \in Joined(at, pos, p)' /\ Ended(c, at[p], sent'[c], lost'))
      BY <1>1 DEF DriftOpen
    <2>1. p \in Nat /\ at[p] \in Nat
      BY LivePlace
    <2>2. PICK c \in Mezz : ~(c \in Joined(at, pos, p) /\ Ended(c, at[p], sent[c], lost))
      BY DEF Drift, DriftOpen
    <2>3. c \in Joined(at, pos, p) => (Ended(c, at[p], sent'[c], lost') <=> Ended(c, at[p], sent[c], lost))
      BY <1>5, <2>1 DEF Joined
    <2> QED BY <1>8, <2>1, <2>2, <2>3
  <1>14. DriftBase(top, at)'
    BY <1>1, <1>3, <1>4, <1>6, SkipBase
  <1> QED BY <1>1, <1>7, <1>9, <1>10, <1>11, <1>12, <1>13, <1>14 DEF Drift

--------------------------------------------------------------------------------
(* A word arrives. *)

LEMMA Delivery ==
    ASSUME AllTypes, AllTypes', PastInv, NEW m \in Mezz, Deliver(m)
    PROVE  \E x \in Events : \E r \in 0..2 :
             /\ sent[m] = 3 * x + r /\ sent'[m] = sent[m] + 1
             /\ \A c \in Mezz : c # m => sent'[c] = sent[c]
             /\ UNCHANGED <<lost, repeated>>
             /\ Assemble(WordOf(m, x, r)) /\ WordOf(m, x, r) \notin lost
             /\ previousData[m] # WordOf(m, x, r) /\ Elsewhere(m, x)
             /\ r > 0 /\ MissesOnly' => Begun(m, x)
  <1>1. /\ Assemble(NthWord(m, sent[m])) /\ sent' = [sent EXCEPT ![m] = @ + 1]
        /\ UNCHANGED <<lost, repeated>> /\ sent[m] < 3 * NEvents
    BY DEF Deliver
  <1>2. /\ sent[m] \in Nat /\ sent[m] \in 0 .. 3 * NEvents
        /\ sent[m] \in sent[m] .. 3 * NEvents - 1 /\ sent[m] \in 0 .. 3 * NEvents - 1
    BY <1>1, Sizes DEF AllTypes
  <1>3. PICK x \in Events : \E r \in 0..2 :
           /\ sent[m] = 3 * x + r
           /\ r = 0 => NthWord(m, sent[m]) = Word(m, "header", x)
           /\ r = 1 => NthWord(m, sent[m]) = Word(m, "hit", x)
           /\ r = 2 => NthWord(m, sent[m]) = Word(m, "trailer", x)
    BY <1>1, <1>2, TheWord
  <1>4. PICK r \in 0..2 :
           /\ sent[m] = 3 * x + r
           /\ r = 0 => NthWord(m, sent[m]) = Word(m, "header", x)
           /\ r = 1 => NthWord(m, sent[m]) = Word(m, "hit", x)
           /\ r = 2 => NthWord(m, sent[m]) = Word(m, "trailer", x)
    BY <1>3
  <1>5. x \in Nat
    BY DEF Events
  <1>6. NthWord(m, sent[m]) = WordOf(m, x, r)
    <2>1. r = 0 \/ r = 1 \/ r = 2
      OBVIOUS
    <2> QED BY <1>4, <1>5, <2>1, WordKinds
  <1>7. sent'[m] = sent[m] + 1 /\ \A c \in Mezz : c # m => sent'[c] = sent[c]
    BY <1>1 DEF AllTypes
  <1>8. WordOf(m, x, r) \notin lost
    <2>1. ~(sent[m] < sent[m])
      BY <1>2
    <2> QED BY <1>2, <1>6, <2>1 DEF PastInv
  <1>9. previousData[m] # WordOf(m, x, r)
    <2>1. NthWord(m, sent[m]) \notin FirstWords(m, sent[m]) /\ NthWord(m, sent[m]) # NoWord
      BY <1>2, NextIsNew, NthWordFacts
    <2> QED BY <1>6, <2>1 DEF PastInv
  <1>10. Elsewhere(m, x)
    <2>1. /\ 3 * x <= sent[m] /\ sent[m] < 3 * x + 3 /\ sent[m] < sent'[m] /\ sent'[m] <= 3 * x + 3
      BY <1>2, <1>4, <1>5, <1>7
    <2> QED BY <1>1, <1>5, <1>7, <2>1, StepElsewhere
  <1>11. ASSUME r > 0, MissesOnly' PROVE Begun(m, x)
    <2>1. NthWord(m, sent[m]) \in Received(m)'
      <3>1. sent[m] \in 0 .. sent'[m] - 1
        BY <1>2, <1>7
      <3> QED BY <1>1, <1>6, <1>8, <3>1 DEF Received
    <2>2. NthWord(m, sent[m]).event = x
      BY <1>5, <1>6, WordKinds
    <2>3. Word(m, "header", x) \notin lost
      BY <1>1, <1>11, <2>1, <2>2 DEF MissesOnly, MissesAreWhole
    <2>4. sent[m] > 3 * x
      BY <1>4, <1>5, <1>11
    <2> QED BY <2>3, <2>4 DEF Begun
  <1> QED BY <1>1, <1>4, <1>6, <1>7, <1>8, <1>9, <1>10, <1>11

\* A card in the middle of a fragment writes the slot of that fragment.
AtWork(top, at, pos, ptr, m, x, i) ==
    /\ i = pos[m][x] /\ i \in Nat /\ i \in Len(built) .. top - 1
    /\ i \in Len(built) .. Len(built) + NSlots - 1
    /\ at[i] = x /\ ptr[m] = i /\ evtWRBuf[m] = i % NSlots /\ i % NSlots \in Slots
    /\ slots[i % NSlots].bufEmpty = FALSE /\ slots[i % NSlots].bufEVID = Evid(x)
    /\ Content(slots[i % NSlots], x, Joined(at, pos, i), sent, lost)
    /\ m \in Joined(at, pos, i) /\ ~Ended(m, x, sent[m], lost) /\ LastBegun(m, x, pos, ptr)

LEMMA OwnPlace ==
    ASSUME AllTypes, NEW top, NEW at, NEW pos, NEW ptr, Drift(top, at, pos, ptr),
           NEW m \in Mezz, NEW x \in Nat, NEW r \in 1..2, sent[m] = 3 * x + r, Begun(m, x)
    PROVE  AtWork(top, at, pos, ptr, m, x, pos[m][x])
  <1> DEFINE i == pos[m][x]
  <1>1. sent[m] \in Nat /\ ~Ended(m, x, sent[m], lost)
    BY DEF Ended
  <1>2. PICK f \in Nat : LastBegun(m, f, pos, ptr)
    BY DEF Drift, DriftPointers
  <1>3. f = x
    <2>1. ~(x > f)
      BY <1>2 DEF LastBegun
    <2>2. 3 * x + r > 3 * f
      BY <1>2 DEF LastBegun, Begun
    <2> QED BY <2>1, <2>2
  <1>4. ptr[m] = i
    BY <1>1, <1>2, <1>3 DEF LastBegun
  <1> HIDE DEF i
  <1>5. i \in 0 .. top - 1 /\ at[i] = x
    BY DEF Drift, DriftPlaces, i
  <1>6. Len(built) <= i /\ Len(built) \in Nat /\ top \in Nat
    BY <1>4, AllSizes, Ghosts DEF Drift, DriftPointers
  <1>7. i \in Len(built) .. top - 1
    BY <1>5, <1>6
  <1>8. i \in Nat /\ i \in Len(built) .. Len(built) + NSlots - 1 /\ i < top
    BY <1>7, LivePlace
  <1>9. i % NSlots \in Slots
    BY <1>8, PlaceInRing
  <1>10. evtWRBuf[m] = i % NSlots
    BY <1>4 DEF Drift, DriftPointers
  <1>11. /\ slots[i % NSlots].bufEmpty = FALSE /\ slots[i % NSlots].bufEVID = Evid(x)
         /\ Content(slots[i % NSlots], x, Joined(at, pos, i), sent, lost)
    BY <1>5, <1>8 DEF Drift, DriftRing
  <1>12. m \in Joined(at, pos, i) /\ i = pos[m][x]
    BY <1>5 DEF Joined, i
  <1>13. AtWork(top, at, pos, ptr, m, x, i)
    BY <1>1, <1>2, <1>3, <1>4, <1>5, <1>7, <1>8, <1>9, <1>10, <1>11, <1>12 DEF AtWork
  <1> QED BY <1>13 DEF i

\* A hit or a trailer begins no fragment; a trailer moves the pointer on.
Onward(ptr, m, i, r) == [ptr EXCEPT ![m] = IF r = 2 THEN i + 1 ELSE i]

\* Word r of event x arrives from m, in its fragment.
Arrives(m, x, r) ==
    /\ m \in Mezz /\ x \in Nat /\ r \in 1..2 /\ sent[m] = 3 * x + r /\ Begun(m, x)
    /\ sent'[m] = sent[m] + 1 /\ (\A c \in Mezz : c # m => sent'[c] = sent[c])
    /\ lost' = lost /\ WordOf(m, x, r) \notin lost /\ Elsewhere(m, x)

LEMMA ArrivalQuiet ==
    ASSUME AllTypes, AllTypes', NEW top, NEW at, NEW pos, NEW ptr, Drift(top, at, pos, ptr),
           NEW m, NEW x, NEW r, Arrives(m, x, r),
           NEW i, AtWork(top, at, pos, ptr, m, x, i),
           NEW nx, nx = Onward(ptr, m, i, r)
    PROVE  /\ Quiet /\ DriftTypes(top, at, pos, nx)
           /\ nx[m] = (IF r = 2 THEN i + 1 ELSE i) /\ \A c \in Mezz : c # m => nx[c] = ptr[c]
           /\ \A c \in Mezz, f \in Nat : LastBegun(c, f, pos, ptr) => LastBegun(c, f, pos, nx)'
           /\ LastBegun(m, x, pos, ptr) /\ (Ended(m, x, sent'[m], lost') <=> r = 2)
  <1>0. /\ m \in Mezz /\ x \in Nat /\ r \in 1..2 /\ sent[m] = 3 * x + r /\ Begun(m, x)
        /\ sent'[m] = sent[m] + 1 /\ (\A c \in Mezz : c # m => sent'[c] = sent[c])
        /\ lost' = lost /\ WordOf(m, x, r) \notin lost /\ Elsewhere(m, x)
    BY DEF Arrives
  <1> USE <1>0
  <1>1. \A c \in Mezz : sent[c] \in Nat /\ sent'[c] \in Nat /\ sent[c] <= sent'[c]
    <2>1. \A c \in Mezz : sent[c] \in Nat /\ sent'[c] \in Nat
      BY Sizes DEF AllTypes
    <2> QED BY <2>1
  <1>2. sent[m] > 3 * x /\ sent'[m] > 3 * x
    BY <1>1
  <1>3. /\ i \in Nat /\ ptr[m] = i /\ ~Ended(m, x, sent[m], lost) /\ LastBegun(m, x, pos, ptr)
        /\ pos[m][x] = i
    BY DEF AtWork
  <1>4. Begun(m, x)'
    BY <1>2 DEF Begun
  <1>5. Quiet
    <2>1. ASSUME NEW c \in Mezz, NEW f \in Nat
          PROVE  /\ Begun(c, f)' <=> Begun(c, f)
                 /\ sent'[c] > 3 * f /\ ~(sent[c] > 3 * f) => Word(c, "header", f) \in lost'
      <3>1. CASE c = m /\ f = x
        BY <1>2, <1>4, <3>1
      <3>2. CASE ~(c = m /\ f = x)
        BY <3>2 DEF Elsewhere
      <3> QED BY <3>1, <3>2
    <2> QED BY <1>1, <2>1 DEF Quiet
  <1>6. /\ ptr \in [Mezz -> Nat] /\ nx \in [Mezz -> Nat]
        /\ nx[m] = (IF r = 2 THEN i + 1 ELSE i) /\ \A c \in Mezz : c # m => nx[c] = ptr[c]
    <2>1. ptr \in [Mezz -> Nat]
      BY DEF Drift, DriftTypes
    <2>2. (IF r = 2 THEN i + 1 ELSE i) \in Nat
      BY <1>3
    <2> QED BY <2>1, <2>2 DEF Onward
  <1>7. DriftTypes(top, at, pos, nx)
    BY <1>6 DEF Drift, DriftTypes
  <1>8. Ended(m, x, sent'[m], lost') <=> r = 2
    <2>1. /\ m \in Mezz /\ x \in Nat /\ r \in 0..2 /\ sent[m] = 3 * x + r /\ sent'[m] = sent[m] + 1
          /\ WordOf(m, x, r) \notin lost
      OBVIOUS
    <2>2. Ended(m, x, sent'[m], lost) <=> r = 2
      BY ONLY <2>1, LeftGrows
    <2> QED BY <2>2
  <1>9. ASSUME NEW c \in Mezz, NEW f \in Nat, LastBegun(c, f, pos, ptr)
        PROVE  LastBegun(c, f, pos, nx)'
    <2>1. Begun(c, f)' /\ \A y \in Nat : y > f => ~Begun(c, y)'
      BY <1>5, <1>9 DEF LastBegun, Quiet
    <2>2. CASE c # m
      <3>1. nx[c] = ptr[c] /\ (Ended(c, f, sent'[c], lost') <=> Ended(c, f, sent[c], lost))
        BY <1>6, <2>2 DEF Elsewhere
      <3> QED BY <1>9, <2>1, <3>1 DEF LastBegun
    <2>3. CASE c = m
      <3>1. f = x
        <4>1. ~(f > x) /\ ~(x > f)
          BY <1>3, <1>9, <2>3 DEF LastBegun
        <4> QED BY <4>1
      <3>2. nx[m] = IF Ended(m, x, sent'[m], lost') THEN pos[m][x] + 1 ELSE pos[m][x]
        BY <1>3, <1>6, <1>8
      <3> QED BY <2>1, <2>3, <3>1, <3>2 DEF LastBegun
    <2> QED BY <2>2, <2>3
  <1> QED BY <1>3, <1>5, <1>6, <1>7, <1>8, <1>9

LEMMA BaseStays ==
    ASSUME AllTypes, AllTypes', lost' = lost, \A c \in Mezz : sent[c] <= sent'[c],
           Len(built) <= Len(built'), NEW top, NEW at, DriftBase(top, at)
    PROVE  DriftBase(top, at)'
  <1> SUFFICES ASSUME \E w \in lost : w.kind = "header"
               PROVE  \E w \in lost : /\ w.kind = "header"
                                      /\ \A c \in Mezz : sent'[c] >= 3 * (w.event - NSlots)
                                      /\ \A p \in Len(built') .. top - 1 : at[p] >= w.event - NSlots
    BY DEF DriftBase
  <1>1. PICK w \in lost : /\ w.kind = "header"
                          /\ \A c \in Mezz : sent[c] >= 3 * (w.event - NSlots)
                          /\ \A p \in Len(built) .. top - 1 : at[p] >= w.event - NSlots
    BY DEF DriftBase
  <1>2. /\ w.event \in Nat /\ \A c \in Mezz : sent[c] \in Nat /\ sent'[c] \in Nat
        /\ Len(built) \in Nat /\ Len(built') \in Nat /\ NSlots \in Nat
    <2>1. w.event \in Nat
      BY DEF AllTypes, Words, Events
    <2>2. Len(built) \in Nat /\ Len(built') \in Nat
      BY DEF AllTypes, RingTypes
    <2> QED BY <2>1, <2>2, Sizes DEF AllTypes
  <1>3. 3 * (w.event - NSlots) \in Int
    BY <1>2
  <1>4. \A c \in Mezz : sent'[c] >= 3 * (w.event - NSlots)
    BY <1>1, <1>2, <1>3
  <1>5. \A p \in Len(built') .. top - 1 : p \in Len(built) .. top - 1
    BY <1>2
  <1> QED BY <1>1, <1>4, <1>5

\* What the word adds to its slot, and that the other slots hold what they held.
LEMMA ArrivalStays ==
    ASSUME AllTypes, AllTypes', NEW top, NEW at, NEW pos, NEW ptr, Drift(top, at, pos, ptr),
           NEW m, NEW x, NEW r, Arrives(m, x, r), NEW i, AtWork(top, at, pos, ptr, m, x, i)
    PROVE  /\ \A new : Extends(new, slots[i % NSlots], m, x, r)
                         => Content(new, x, Joined(at, pos, i)', sent', lost')
           /\ \A p \in Nat : Joined(at, pos, p)' = Joined(at, pos, p)
           /\ \A p \in Nat : p # i =>
                /\ \A slot : Content(slot, at[p], Joined(at, pos, p), sent, lost)
                               => Content(slot, at[p], Joined(at, pos, p)', sent', lost')
                /\ \A c \in Joined(at, pos, p) :
                     Ended(c, at[p], sent'[c], lost') <=> Ended(c, at[p], sent[c], lost)
  <1>0. /\ m \in Mezz /\ x \in Nat /\ r \in 1..2 /\ sent[m] = 3 * x + r /\ Begun(m, x)
        /\ sent'[m] = sent[m] + 1 /\ (\A c \in Mezz : c # m => sent'[c] = sent[c])
        /\ lost' = lost /\ WordOf(m, x, r) \notin lost /\ Elsewhere(m, x)
    BY DEF Arrives
  <1> PICK nx : nx = Onward(ptr, m, i, r)
    OBVIOUS
  <1>1. Quiet
    BY ArrivalQuiet
  <1>2. \A p \in Nat : at[p] \in Nat
    BY Ghosts DEF Drift
  <1>3. /\ i \in Nat /\ at[i] = x /\ pos[m][x] = i
        /\ Content(slots[i % NSlots], x, Joined(at, pos, i), sent, lost) /\ m \in Joined(at, pos, i)
    BY DEF AtWork
  <1>4. \A p \in Nat : Joined(at, pos, p)' = Joined(at, pos, p) /\ Joined(at, pos, p) \in SUBSET Mezz
    <2>1. \A p \in Nat : Joined(at, pos, p)' = Joined(at, pos, p)
      BY <1>1, <1>2, QuietJoined
    <2> QED BY <2>1 DEF Joined
  <1>5. ASSUME NEW new, Extends(new, slots[i % NSlots], m, x, r)
        PROVE  Content(new, x, Joined(at, pos, i)', sent', lost')
    <2>1. Joined(at, pos, i) \cup {m} = Joined(at, pos, i)'
      BY <1>3, <1>4
    <2>2. r \in 0..2
      BY <1>0
    <2>3. Content(new, x, Joined(at, pos, i) \cup {m}, sent', lost')
      BY <1>0, <1>3, <1>4, <1>5, <2>2, ContentGrows
    <2> QED BY <2>1, <2>3
  <1>6. ASSUME NEW p \in Nat, p # i
        PROVE  /\ \A slot : Content(slot, at[p], Joined(at, pos, p), sent, lost)
                              => Content(slot, at[p], Joined(at, pos, p)', sent', lost')
               /\ \A c \in Joined(at, pos, p) :
                    Ended(c, at[p], sent'[c], lost') <=> Ended(c, at[p], sent[c], lost)
    <2>1. at[p] # x \/ m \notin Joined(at, pos, p)
      BY <1>3, <1>6 DEF Joined
    <2>2. at[p] \in Nat
      BY <1>2
    <2>3. ASSUME NEW slot, Content(slot, at[p], Joined(at, pos, p), sent, lost)
          PROVE  Content(slot, at[p], Joined(at, pos, p), sent', lost')
      BY <1>0, <1>4, <2>1, <2>2, <2>3, ContentStays
    <2>4. \A c \in Joined(at, pos, p) :
            Ended(c, at[p], sent'[c], lost') <=> Ended(c, at[p], sent[c], lost)
      BY <1>0, <1>4, <2>1, <2>2 DEF Elsewhere
    <2> QED BY <1>4, <2>3, <2>4
  <1> QED BY <1>4, <1>5, <1>6

\* new, the slot of place i with that word, takes its place, and the pointers are those of nx.
Stores(new, i, nx, m, x, r) ==
    /\ Extends(new, slots[i % NSlots], m, x, r) /\ slots' = [slots EXCEPT ![i % NSlots] = new]
    /\ evtWRBuf' = [evtWRBuf EXCEPT ![m] = nx[m] % NSlots] /\ UNCHANGED <<built, evtRDBuf>>

\* A hit, or a trailer that does not complete the event, is put into its slot.
LEMMA StoreDrift ==
    ASSUME AllTypes, AllTypes', NEW top, NEW at, NEW pos, NEW ptr, Drift(top, at, pos, ptr),
           NEW m, NEW x, NEW r, Arrives(m, x, r), NEW i, AtWork(top, at, pos, ptr, m, x, i),
           NEW nx, nx = Onward(ptr, m, i, r), NEW new, Stores(new, i, nx, m, x, r),
           new.gotTrailer # Mezz
    PROVE  Drift(top, at, pos, nx)'
  <1>0. /\ m \in Mezz /\ x \in Nat /\ r \in 1..2 /\ sent[m] = 3 * x + r /\ Begun(m, x)
        /\ sent'[m] = sent[m] + 1 /\ (\A c \in Mezz : c # m => sent'[c] = sent[c])
        /\ lost' = lost /\ WordOf(m, x, r) \notin lost /\ Elsewhere(m, x)
    BY DEF Arrives
  <1>1. /\ Quiet /\ DriftTypes(top, at, pos, nx)
        /\ nx[m] = (IF r = 2 THEN i + 1 ELSE i) /\ \A c \in Mezz : c # m => nx[c] = ptr[c]
        /\ \A c \in Mezz, f \in Nat : LastBegun(c, f, pos, ptr) => LastBegun(c, f, pos, nx)'
        /\ LastBegun(m, x, pos, ptr) /\ (Ended(m, x, sent'[m], lost') <=> r = 2)
    BY ArrivalQuiet
  <1> USE <1>0 DEF Stores
  <1>2. \A c \in Mezz : sent[c] \in Nat /\ sent'[c] \in Nat /\ sent[c] <= sent'[c]
    BY <1>1, Sizes DEF AllTypes, Quiet
  <1>3. /\ top \in Nat /\ (\A p \in Nat : at[p] \in Nat) /\ Len(built) \in Nat /\ NSlots \in Nat
        /\ DriftTypes(top, at, pos, ptr)
    BY Ghosts, AllSizes, Sizes DEF Drift
  <1>4. /\ i \in Nat /\ i \in Len(built) .. top - 1 /\ i \in Len(built) .. Len(built) + NSlots - 1
        /\ at[i] = x /\ ptr[m] = i /\ i % NSlots \in Slots /\ pos[m][x] = i
        /\ Content(slots[i % NSlots], x, Joined(at, pos, i), sent, lost) /\ m \in Joined(at, pos, i)
    BY DEF AtWork
  <1>5. i < top /\ Len(built) <= i
    BY <1>3, <1>4
  <1>6. \A p \in Nat : Joined(at, pos, p)' = Joined(at, pos, p) /\ Joined(at, pos, p) \in SUBSET Mezz
    <2>1. \A p \in Nat : Joined(at, pos, p)' = Joined(at, pos, p)
      BY <1>1, <1>3, QuietJoined
    <2> QED BY <2>1 DEF Joined
  <1>7. Content(new, x, Joined(at, pos, i)', sent', lost')
    <2>1. Joined(at, pos, i) \cup {m} = Joined(at, pos, i)'
      BY <1>4, <1>6
    <2>2. r \in 0..2
      OBVIOUS
    <2>3. Content(new, x, Joined(at, pos, i) \cup {m}, sent', lost')
      BY <1>4, <1>6, <2>2, ContentGrows
    <2> QED BY <2>1, <2>3
  <1>8. DriftRing(top, at, pos)'
    <2> SUFFICES ASSUME NEW p \in Len(built) .. Len(built) + NSlots - 1
                 PROVE  /\ Content(slots'[p % NSlots], at[p], Joined(at, pos, p)', sent', lost')
                        /\ IF p < top THEN slots'[p % NSlots].bufEmpty = FALSE
                                           /\ slots'[p % NSlots].bufEVID = Evid(at[p])
                                      ELSE slots'[p % NSlots].bufEmpty = TRUE
      BY DEF DriftRing
    <2>1. p \in Nat /\ at[p] \in Nat
      BY <1>3
    <2>2. CASE p = i
      <3>1. slots'[i % NSlots] = new
        BY <1>4 DEF AllTypes, RingTypes
      <3>2. new.bufEmpty = FALSE /\ new.bufEVID = Evid(x)
        BY DEF Extends
      <3> QED BY <1>4, <1>5, <1>7, <2>2, <3>1, <3>2
    <2>3. CASE p # i
      <3>1. p % NSlots \in Slots /\ p % NSlots # i % NSlots
        <4>1. Len(built) <= p /\ p < Len(built) + NSlots /\ Len(built) <= i /\ i < Len(built) + NSlots
          BY <1>3, <1>4
        <4>2. p % NSlots # i % NSlots
          BY <1>3, <1>4, <2>1, <2>3, <4>1, WindowApart
        <4> QED BY <2>1, <4>2, PlaceInRing
      <3>2. slots'[p % NSlots] = slots[p % NSlots]
        BY <3>1 DEF AllTypes, RingTypes
      <3>3. /\ Content(slots[p % NSlots], at[p], Joined(at, pos, p), sent, lost)
            /\ IF p < top THEN slots[p % NSlots].bufEmpty = FALSE
                               /\ slots[p % NSlots].bufEVID = Evid(at[p])
                          ELSE slots[p % NSlots].bufEmpty = TRUE
        BY DEF Drift, DriftRing
      <3>4. at[p] # x \/ m \notin Joined(at, pos, p)
        BY <1>4, <2>3 DEF Joined
      <3>5. Content(slots[p % NSlots], at[p], Joined(at, pos, p), sent', lost')
        BY <1>6, <2>1, <3>3, <3>4, ContentStays
      <3>6. Joined(at, pos, p)' = Joined(at, pos, p)
        BY <1>6, <2>1
      <3> QED BY <3>2, <3>3, <3>5, <3>6
    <2> QED BY <2>2, <2>3
  <1>9. DriftBuilt(at, pos)'
    <2> SUFFICES ASSUME NEW p \in 0 .. Len(built) - 1, NEW c \in Mezz
                 PROVE  /\ sent'[c] >= 3 * at[p] + 3
                        /\ Joined(at, pos, p)' = Joined(at, pos, p)
      BY DEF Drift, DriftBuilt
    <2>1. p \in Nat
      BY <1>3
    <2>2. at[p] \in Nat /\ sent[c] >= 3 * at[p] + 3
      BY <1>3, <2>1 DEF Drift, DriftBuilt
    <2> QED BY <1>2, <1>6, <2>1, <2>2
  <1>10. DriftPlaces(top, at, pos)' /\ DriftOrder(top, at, pos)' /\ DriftFollows(top, at, pos)'
    BY <1>1, <1>3, QuietPlaces DEF Drift
  <1>11. DriftPointers(top, pos, nx)'
    <2> SUFFICES ASSUME NEW c \in Mezz
                 PROVE  /\ evtWRBuf'[c] = nx[c] % NSlots
                        /\ Len(built) <= nx[c] /\ nx[c] <= top
                        /\ (\A f \in Nat : ~Begun(c, f)') \/ \E f \in Nat : LastBegun(c, f, pos, nx)'
      BY DEF DriftPointers
    <2>1. /\ evtWRBuf[c] = ptr[c] % NSlots /\ Len(built) <= ptr[c] /\ ptr[c] <= top
          /\ (\A f \in Nat : ~Begun(c, f)) \/ \E f \in Nat : LastBegun(c, f, pos, ptr)
      BY DEF Drift, DriftPointers
    <2>2. (\A f \in Nat : ~Begun(c, f)') \/ \E f \in Nat : LastBegun(c, f, pos, nx)'
      BY <1>1, <2>1 DEF Quiet
    <2>3. CASE c = m
      <3>1. evtWRBuf'[c] = nx[c] % NSlots
        BY <2>3 DEF AllTypes, RingTypes
      <3>2. Len(built) <= nx[m] /\ nx[m] <= top
        BY <1>1, <1>3, <1>4, <1>5
      <3> QED BY <2>2, <2>3, <3>1, <3>2
    <2>4. CASE c # m
      <3>1. evtWRBuf'[c] = evtWRBuf[c] /\ nx[c] = ptr[c]
        BY <1>1, <2>4 DEF AllTypes, RingTypes
      <3> QED BY <2>1, <2>2, <3>1
    <2> QED BY <2>3, <2>4
  <1>12. DriftOpen(top, at, pos)'
    <2> SUFFICES ASSUME NEW p \in Len(built) .. top - 1
                 PROVE  \E c \in Mezz : ~(c \in Joined(at, pos, p)' /\ Ended(c, at[p], sent'[c], lost'))
      BY DEF DriftOpen
    <2>1. p \in Nat /\ at[p] \in Nat
      BY LivePlace
    <2>2. CASE p = i
      <3>1. new.gotTrailer = {c \in Joined(at, pos, i)' : Ended(c, x, sent'[c], lost')}
        BY <1>7 DEF Content
      <3>2. Joined(at, pos, i)' \subseteq Mezz
        BY <1>4, <1>6
      <3> QED BY <1>4, <2>2, <3>1, <3>2
    <2>3. CASE p # i
      <3>1. PICK c \in Mezz : ~(c \in Joined(at, pos, p) /\ Ended(c, at[p], sent[c], lost))
        BY DEF Drift, DriftOpen
      <3>2. c \in Joined(at, pos, p) =>
              (Ended(c, at[p], sent'[c], lost') <=> Ended(c, at[p], sent[c], lost))
        <4>1. c \in Joined(at, pos, p) /\ c = m => at[p] # x
          BY <1>4, <2>3 DEF Joined
        <4> QED BY <2>1, <4>1 DEF Elsewhere
      <3> QED BY <1>6, <2>1, <3>1, <3>2
    <2> QED BY <2>2, <2>3
  <1>13. DriftBase(top, at)'
    <2>1. lost' = lost /\ Len(built) <= Len(built') /\ DriftBase(top, at)
      BY <1>3 DEF Drift
    <2>2. \A c \in Mezz : sent[c] <= sent'[c]
      BY <1>2
    <2> QED BY <2>1, <2>2, BaseStays
  <1>14. Len(built) <= top /\ top <= Len(built) + NSlots /\ evtRDBuf = Len(built) % NSlots
    BY DEF Drift
  <1> QED BY <1>1, <1>8, <1>9, <1>10, <1>11, <1>12, <1>13, <1>14 DEF Drift, DriftTypes

LEMMA HitDrift ==
    ASSUME AllTypes, AllTypes', NEW top, NEW at, NEW pos, NEW ptr, Drift(top, at, pos, ptr),
           NEW m \in Mezz, NEW x \in Events, sent[m] = 3 * x + 1, Begun(m, x),
           sent'[m] = sent[m] + 1, \A c \in Mezz : c # m => sent'[c] = sent[c], lost' = lost,
           WordOf(m, x, 1) \notin lost, Elsewhere(m, x), PlaceHit(WordOf(m, x, 1))
    PROVE  \E nx : Drift(top, at, pos, nx)'
  <1> DEFINE w == WordOf(m, x, 1)
             i == pos[m][x]
             s == i % NSlots
             new == Stored(slots[s], w)
  <1>1. x \in Nat /\ 1 \in 1..2 /\ 1 \in 0..2
    BY DEF Events
  <1>2. w \in Words /\ w.mezz = m
    BY <1>1, WordOfFacts
  <1>3. AtWork(top, at, pos, ptr, m, x, i)
    BY <1>1, OwnPlace
  <1>4. i \in Nat /\ ptr[m] = i /\ evtWRBuf[m] = s /\ s \in Slots /\ slots[s].bufEmpty = FALSE
        /\ slots[s].bufEVID = Evid(x)
    BY <1>3 DEF AtWork
  <1>5. slots[s] \in SlotRecord
    BY <1>4 DEF AllTypes, RingTypes
  <1> HIDE DEF i, s, w
  <1>6. slots' = [slots EXCEPT ![s] = new] /\ UNCHANGED <<evtWRBuf, evtRDBuf, built>>
    <2>1. PlaceHit(w)
      BY DEF w
    <2> QED BY <1>2, <1>4, <2>1 DEF PlaceHit
  <1>7. /\ new \in SlotRecord /\ new.bufEmpty = FALSE /\ new.bufEVID = Evid(x)
        /\ new.gotTrailer = slots[s].gotTrailer
        /\ new.eventBuf = [slots[s].eventBuf EXCEPT ![m] = Append(@, w)]
    <2> DEFINE slot == slots[s]
    <2>1. slot \in SlotRecord /\ m \in Mezz /\ w \in Words /\ w.mezz = m
      BY <1>2, <1>5
    <2> HIDE DEF slot
    <2>2. /\ Stored(slot, w) \in SlotRecord
          /\ Stored(slot, w).bufEmpty = slot.bufEmpty /\ Stored(slot, w).bufEVID = slot.bufEVID
          /\ Stored(slot, w).gotTrailer = slot.gotTrailer
          /\ Stored(slot, w).eventBuf = [slot.eventBuf EXCEPT ![m] = Append(@, w)]
      BY ONLY <2>1, StoredFields
    <2> QED BY <1>4, <2>2 DEF slot
  <1> HIDE DEF new
  <1>8. Extends(new, slots[s], m, x, 1)
    BY <1>7 DEF Extends, w
  <1>9. new.gotTrailer # Mezz
    <2>1. /\ slots[s].gotTrailer = {c \in Joined(at, pos, i) : Ended(c, x, sent[c], lost)}
          /\ ~Ended(m, x, sent[m], lost)
      BY <1>3 DEF AtWork, Content, s
    <2> QED BY <1>7, <2>1
  <1> PICK nx : nx = Onward(ptr, m, i, 1)
    OBVIOUS
  <1>10. nx[m] = i /\ evtWRBuf' = [evtWRBuf EXCEPT ![m] = nx[m] % NSlots]
    <2>1. nx[m] = i
      <3>1. ptr \in [Mezz -> Nat]
        BY DEF Drift, DriftTypes
      <3> QED BY <3>1 DEF Onward
    <2>2. evtWRBuf' = [evtWRBuf EXCEPT ![m] = s]
      BY <1>4, <1>6 DEF AllTypes, RingTypes
    <2> QED BY <2>1, <2>2 DEF s
  <1>11. Drift(top, at, pos, nx)'
    <2> DEFINE r == 1
    <2>1. nx = Onward(ptr, m, i, r) /\ r \in 1..2
      BY <1>1
    <2>2. Arrives(m, x, r)
      BY <1>1 DEF Arrives
    <2>3. Stores(new, i, nx, m, x, r)
      BY <1>6, <1>8, <1>10 DEF Stores, s
    <2>4. AllTypes /\ AllTypes' /\ Drift(top, at, pos, ptr) /\ AtWork(top, at, pos, ptr, m, x, i)
          /\ new.gotTrailer # Mezz
      BY <1>3, <1>9
    <2> HIDE DEF r
    <2> QED BY ONLY <2>1, <2>2, <2>3, <2>4, StoreDrift
  <1> QED BY <1>11

LEMMA TrailerFills ==
    ASSUME AllTypes, NEW m \in Mezz, NEW x \in Events, NEW s \in Slots, evtWRBuf[m] = s,
           slots[s].bufEmpty = FALSE, slots[s].bufEVID = Evid(x)
    PROVE  /\ TrailerSlot(WordOf(m, x, 2)) \in SlotRecord
           /\ Extends(TrailerSlot(WordOf(m, x, 2)), slots[s], m, x, 2)
  <1> DEFINE w == WordOf(m, x, 2)
             slot == slots[s]
             noted == Noted(slot, m)
             new == Stored(noted, w)
  <1>1. x \in Nat /\ 2 \in 0..2
    BY DEF Events
  <1>2. w \in Words /\ w.mezz = m /\ w.event = x
    BY <1>1, WordOfFacts
  <1> HIDE DEF w
  <1>3. TrailerSlot(w) = new
    BY <1>2 DEF TrailerSlot
  <1>4. slot \in SlotRecord /\ slot.bufEmpty = FALSE /\ slot.bufEVID = Evid(x)
    BY DEF AllTypes, RingTypes
  <1> HIDE DEF slot
  <1>5. noted \in SlotRecord /\ noted.bufEmpty = FALSE /\ noted.bufEVID = Evid(x)
        /\ noted.gotTrailer = slot.gotTrailer \cup {m} /\ noted.eventBuf = slot.eventBuf
    BY <1>4, NotedFields
  <1> HIDE DEF noted
  <1>6. new \in SlotRecord /\ new.bufEmpty = FALSE /\ new.bufEVID = Evid(x)
        /\ new.gotTrailer = slot.gotTrailer \cup {m}
        /\ new.eventBuf = [slot.eventBuf EXCEPT ![m] = Append(@, w)]
    BY <1>2, <1>5, StoredFields
  <1> HIDE DEF new
  <1>7. Extends(new, slot, m, x, 2)
    BY <1>6 DEF Extends, w
  <1> QED BY <1>3, <1>6, <1>7 DEF slot, w

\* The trailer completes its event: the slots up to its place are emitted.
Emits(new, i, nx, m, x) ==
    /\ Extends(new, slots[i % NSlots], m, x, 2) /\ new \in SlotRecord /\ Complete(new)
    /\ Emit(i % NSlots, new, Evid(x))
    /\ evtWRBuf' = [evtWRBuf EXCEPT ![m] = nx[m] % NSlots]

\* Nothing that is emitted is complete only in part, as the events before it are older.
LEMMA OlderEnded ==
    ASSUME AllTypes, AllTypes', NEW top, NEW at, NEW pos, NEW ptr, Drift(top, at, pos, ptr),
           NEW m, NEW x, Arrives(m, x, 2), NEW i, AtWork(top, at, pos, ptr, m, x, i),
           NEW nx, NEW new, Emits(new, i, nx, m, x)
    PROVE  /\ \A c \in Mezz : /\ c \in Joined(at, pos, i) /\ Begun(c, x)
                              /\ Ended(c, x, sent'[c], lost) /\ sent'[c] >= 3 * x + 3
                              /\ sent[c] >= 3 * x + 2
           /\ \A j \in 0 .. i - 1 : at[j] < x /\ \A c \in Mezz : sent[c] >= 3 * at[j] + 3
  <1>0. /\ m \in Mezz /\ x \in Nat /\ sent[m] = 3 * x + 2 /\ lost' = lost
        /\ sent'[m] = sent[m] + 1 /\ (\A c \in Mezz : c # m => sent'[c] = sent[c])
    BY DEF Arrives
  <1>1. i \in Nat /\ at[i] = x /\ i < top /\ top \in Nat /\ \A p \in Nat : at[p] \in Nat
    <2>1. i \in Nat /\ at[i] = x /\ i \in Len(built) .. top - 1
      BY DEF AtWork
    <2>2. i < top
      BY <2>1, LivePlace
    <2> QED BY <2>1, <2>2, Ghosts DEF Drift
  <1>2. Content(new, x, Joined(at, pos, i)', sent', lost') /\ Joined(at, pos, i)' = Joined(at, pos, i)
    BY <1>1, ArrivalStays DEF Emits
  <1>3. \A c \in Mezz : sent[c] \in Nat /\ sent'[c] \in Nat
    BY Sizes DEF AllTypes
  <1>4. ASSUME NEW c \in Mezz
        PROVE  /\ c \in Joined(at, pos, i) /\ Begun(c, x)
               /\ Ended(c, x, sent'[c], lost) /\ sent'[c] >= 3 * x + 3 /\ sent[c] >= 3 * x + 2
    <2>1. c \in Joined(at, pos, i) /\ Ended(c, x, sent'[c], lost)
      BY <1>0, <1>2 DEF Content, Emits, Complete
    <2>2. Begun(c, x) /\ sent'[c] >= 3 * x + 3
      BY <1>1, <2>1 DEF Joined, Ended
    <2>3. sent[c] >= 3 * x + 2
      BY <1>0, <1>3, <2>2
    <2> QED BY <2>1, <2>2, <2>3
  <1>5. Together(at, pos, i)
    BY <1>4 DEF Together
  <1>6. ASSUME NEW j \in 0 .. i - 1
        PROVE  at[j] < x /\ \A c \in Mezz : sent[c] >= 3 * at[j] + 3
    <2>1. i \in 0 .. top - 1 /\ j \in Nat
      BY <1>1
    <2>2. at[j] < x
      BY <1>1, <1>5, <2>1 DEF Drift, DriftOrder
    <2>3. at[j] \in Nat
      BY <1>1, <2>1
    <2>4. 3 * at[j] + 3 <= 3 * x
      BY <1>0, <2>2, <2>3
    <2>5. \A c \in Mezz : sent[c] >= 3 * at[j] + 3
      BY <1>0, <1>3, <1>4, <2>3, <2>4
    <2> QED BY <2>2, <2>5
  <1> QED BY <1>4, <1>6

\* What leaves the ring then, and where the places are in it.
Emitted(i, new, x) ==
    /\ built' \in Seq(BuiltEvent) /\ Len(built') = i + 1 /\ evtRDBuf' = (i + 1) % NSlots
    /\ \A p \in 0 .. Len(built) - 1 : built'[p + 1] = built[p + 1]
    /\ \A p \in Len(built) .. i - 1 : /\ built'[p + 1].words = slots[p % NSlots].eventBuf
                                      /\ built'[p + 1].evid = slots[p % NSlots].bufEVID
    /\ built'[i + 1].words = new.eventBuf /\ built'[i + 1].evid = Evid(x)
    /\ ((i % NSlots) - evtRDBuf) % NSlots = i - Len(built)
    /\ \A p \in Nat : Len(built) <= p /\ p < Len(built) + NSlots =>
         ((p % NSlots) - evtRDBuf) % NSlots = p - Len(built)

LEMMA EmitPlace ==
    ASSUME AllTypes, NEW top, NEW at, NEW pos, NEW ptr, Drift(top, at, pos, ptr),
           NEW m, NEW x \in Events, NEW i, AtWork(top, at, pos, ptr, m, x, i),
           NEW nx, NEW new, Emits(new, i, nx, m, x)
    PROVE  Emitted(i, new, x)
  <1> DEFINE B == Len(built)
             older == ((i % NSlots) - evtRDBuf) % NSlots
  <1>1. /\ i \in Nat /\ B \in Nat /\ B <= i /\ i < B + NSlots /\ i % NSlots \in Slots
        /\ evtRDBuf = B % NSlots /\ x \in Nat
    <2>1. i \in Nat /\ i \in Len(built) .. Len(built) + NSlots - 1 /\ i % NSlots \in Slots
      BY DEF AtWork
    <2>2. B \in Nat /\ evtRDBuf = B % NSlots
      BY AllSizes DEF Drift
    <2>3. Len(built) <= i /\ i < Len(built) + NSlots
      BY <2>1, <2>2, Sizes
    <2> QED BY <2>1, <2>2, <2>3 DEF Events
  <1> HIDE DEF B
  <1>2. ASSUME NEW p \in Nat, B <= p, p < B + NSlots
        PROVE  (evtRDBuf + (p - B)) % NSlots = p % NSlots /\ ((p % NSlots) - evtRDBuf) % NSlots = p - B
    <2>1. B \in Int /\ p \in Int /\ p - B \in Int /\ p - B < NSlots /\ B + (p - B) = p /\ B <= p
      BY <1>1, <1>2, Sizes
    <2>2. ((B % NSlots) + (p - B)) % NSlots = (B + (p - B)) % NSlots
      BY ONLY <2>1, Sizes, ModAdd
    <2>3. ((p % NSlots) - (B % NSlots)) % NSlots = p - B
      BY ONLY <2>1, Sizes, ModDistance
    <2> QED BY <1>1, <2>1, <2>2, <2>3
  <1>3. older = i - B
    BY <1>1, <1>2
  <1>4. Evid(x) \in 0 .. EvidMod - 1 /\ RingTypes
    BY <1>1, EvidRange DEF AllTypes
  <1>5. /\ built' \in Seq(BuiltEvent) /\ Len(built') = B + older + 1
        /\ \A n \in 1..B : built'[n] = built[n]
        /\ \A n \in B + 1 .. B + older :
             /\ built'[n].words = slots[(evtRDBuf + n - B - 1) % NSlots].eventBuf
             /\ built'[n].evid = slots[(evtRDBuf + n - B - 1) % NSlots].bufEVID
        /\ built'[B + older + 1].words = new.eventBuf /\ built'[B + older + 1].evid = Evid(x)
    BY <1>1, <1>4, EmitBuilds DEF Emits, B
  <1> HIDE DEF older
  <1>6. B + older = i
    BY <1>1, <1>3
  <1>7. \A p \in 0 .. B - 1 : built'[p + 1] = built[p + 1]
    BY <1>1, <1>5
  <1>8. ASSUME NEW p \in B .. i - 1
        PROVE  /\ built'[p + 1].words = slots[p % NSlots].eventBuf
               /\ built'[p + 1].evid = slots[p % NSlots].bufEVID
    <2>1. p \in Nat /\ B <= p /\ p < B + NSlots /\ p + 1 \in B + 1 .. B + older
      BY <1>1, <1>6, Sizes
    <2>2. evtRDBuf + (p + 1) - B - 1 = evtRDBuf + (p - B)
      BY <1>1, <2>1, Sizes, Division
    <2>3. (evtRDBuf + (p - B)) % NSlots = p % NSlots
      BY <1>2, <2>1
    <2>4. /\ built'[p + 1].words = slots[(evtRDBuf + (p + 1) - B - 1) % NSlots].eventBuf
          /\ built'[p + 1].evid = slots[(evtRDBuf + (p + 1) - B - 1) % NSlots].bufEVID
      BY <1>5, <2>1
    <2> QED BY ONLY <2>2, <2>3, <2>4
  <1>9. evtRDBuf' = (i + 1) % NSlots
    BY <1>1, NextPlace DEF Emits, Emit
  <1> QED BY <1>2, <1>3, <1>5, <1>6, <1>7, <1>8, <1>9 DEF B, older, Emitted

LEMMA EmitBuilt ==
    ASSUME AllTypes, AllTypes', NEW top, NEW at, NEW pos, NEW ptr, Drift(top, at, pos, ptr),
           NEW m, NEW x \in Events, Arrives(m, x, 2), NEW i, AtWork(top, at, pos, ptr, m, x, i),
           NEW nx, NEW new, Emits(new, i, nx, m, x)
    PROVE  DriftBuilt(at, pos)'
  <1>1. /\ Len(built') = i + 1
        /\ \A p \in 0 .. Len(built) - 1 : built'[p + 1] = built[p + 1]
        /\ \A p \in Len(built) .. i - 1 : /\ built'[p + 1].words = slots[p % NSlots].eventBuf
                                          /\ built'[p + 1].evid = slots[p % NSlots].bufEVID
        /\ built'[i + 1].words = new.eventBuf /\ built'[i + 1].evid = Evid(x)
    <2>1. /\ AllTypes /\ Drift(top, at, pos, ptr) /\ x \in Events
          /\ AtWork(top, at, pos, ptr, m, x, i) /\ Emits(new, i, nx, m, x)
      OBVIOUS
    <2>2. Emitted(i, new, x)
      BY ONLY <2>1, EmitPlace
    <2> QED BY <2>2 DEF Emitted
  <1>2. /\ \A c \in Mezz : /\ c \in Joined(at, pos, i) /\ Begun(c, x)
                           /\ Ended(c, x, sent'[c], lost) /\ sent'[c] >= 3 * x + 3
                           /\ sent[c] >= 3 * x + 2
        /\ \A j \in 0 .. i - 1 : at[j] < x /\ \A c \in Mezz : sent[c] >= 3 * at[j] + 3
    BY OlderEnded
  <1>3. /\ \A new1 : Extends(new1, slots[i % NSlots], m, x, 2)
                       => Content(new1, x, Joined(at, pos, i)', sent', lost')
        /\ \A p \in Nat : Joined(at, pos, p)' = Joined(at, pos, p)
    BY ArrivalStays
  <1>4. /\ i \in Nat /\ at[i] = x /\ i \in Len(built) .. top - 1 /\ Len(built) \in Nat /\ i < top
        /\ top \in Nat /\ Len(built) <= i
    <2>1. i \in Nat /\ at[i] = x /\ i \in Len(built) .. top - 1
      BY DEF AtWork
    <2> QED BY <2>1, LivePlace
  <1>5. \A c \in Mezz : sent[c] \in Nat /\ sent'[c] \in Nat /\ sent[c] <= sent'[c]
    <2>1. sent'[m] = sent[m] + 1 /\ (\A c \in Mezz : c # m => sent'[c] = sent[c])
      BY DEF Arrives
    <2>2. \A c \in Mezz : sent[c] \in Nat /\ sent'[c] \in Nat
      BY Sizes DEF AllTypes
    <2> QED BY <2>1, <2>2
  <1>6. lost' = lost /\ x \in Nat
    BY DEF Arrives
  <1> SUFFICES ASSUME NEW p \in 0 .. i
               PROVE  /\ built'[p + 1].evid = Evid(at[p])
                      /\ \A c \in Mezz :
                           /\ sent'[c] >= 3 * at[p] + 3
                           /\ built'[p + 1].words[c] =
                                IF c \in Joined(at, pos, p) THEN Kept(c, at[p], lost) ELSE <<>>
    <2> SUFFICES ASSUME NEW p \in 0 .. Len(built') - 1
                 PROVE  /\ built'[p + 1].evid = Evid(at[p])
                        /\ \A c \in Mezz :
                             /\ sent'[c] >= 3 * at[p] + 3
                             /\ built'[p + 1].words[c] =
                                  IF c \in Joined(at, pos, p)' THEN Kept(c, at[p], lost') ELSE <<>>
      BY DEF DriftBuilt
    <2>1. p \in 0 .. i /\ p \in Nat
      BY <1>1, <1>4
    <2>2. Joined(at, pos, p)' = Joined(at, pos, p)
      BY <1>3, <2>1
    <2> QED BY <1>6, <2>1, <2>2
  <1>7. p \in Nat /\ at[p] \in Nat
    BY <1>4, Ghosts DEF Drift
  <1>8. CASE p < Len(built)
    <2>1. p \in 0 .. Len(built) - 1
      BY <1>4, <1>8
    <2>2. /\ built[p + 1].evid = Evid(at[p])
          /\ \A c \in Mezz :
               /\ sent[c] >= 3 * at[p] + 3
               /\ built[p + 1].words[c] = IF c \in Joined(at, pos, p) THEN Kept(c, at[p], lost) ELSE <<>>
      BY <2>1 DEF Drift, DriftBuilt
    <2>3. ASSUME NEW c \in Mezz PROVE sent'[c] >= 3 * at[p] + 3
      <3>1. sent[c] >= 3 * at[p] + 3 /\ sent[c] \in Nat /\ sent'[c] \in Nat /\ sent[c] <= sent'[c]
        BY <1>5, <2>2
      <3> QED BY ONLY <1>7, <3>1
    <2> QED BY <1>1, <2>1, <2>2, <2>3
  <1>9. CASE Len(built) <= p /\ p < i
    <2>1. p \in 0 .. i - 1 /\ p \in Len(built) .. i - 1 /\ p \in Len(built) .. top - 1 /\ p < top
      BY <1>4, <1>7, <1>9
    <2>2. p \in Len(built) .. Len(built) + NSlots - 1
      BY <2>1, LivePlace
    <2>3. /\ Content(slots[p % NSlots], at[p], Joined(at, pos, p), sent, lost)
          /\ slots[p % NSlots].bufEVID = Evid(at[p])
      BY <2>1, <2>2 DEF Drift, DriftRing
    <2>4. \A c \in Mezz : sent[c] >= 3 * at[p] + 3 /\ sent'[c] >= 3 * at[p] + 3
      <3>1. \A c \in Mezz : sent[c] >= 3 * at[p] + 3
        BY <1>2, <2>1
      <3> QED BY <1>5, <1>7, <3>1
    <2>5. \A c \in Mezz : Left(c, at[p], sent[c], lost) = Kept(c, at[p], lost)
      BY <1>5, <1>7, <2>4 DEF Left
    <2> QED BY <1>1, <2>1, <2>3, <2>4, <2>5 DEF Content
  <1>10. CASE p = i
    <2>1. Content(new, x, Joined(at, pos, i), sent', lost)
      BY <1>3, <1>4, <1>6 DEF Emits
    <2>2. \A c \in Mezz : Left(c, x, sent'[c], lost) = Kept(c, x, lost)
      BY <1>2, <1>5, <1>6 DEF Left
    <2> QED BY <1>1, <1>2, <1>4, <1>10, <2>1, <2>2 DEF Content
  <1> QED BY <1>4, <1>7, <1>8, <1>9, <1>10

LEMMA EmitRing ==
    ASSUME AllTypes, AllTypes', NEW top, NEW at, NEW pos, NEW ptr, Drift(top, at, pos, ptr),
           NEW m, NEW x, Arrives(m, x, 2), NEW i, AtWork(top, at, pos, ptr, m, x, i),
           NEW nx, NEW new, Emits(new, i, nx, m, x), Emitted(i, new, x)
    PROVE  DriftRing(top, at, pos)'
  <1> DEFINE B == Len(built)
             Cleared(t) == [EmptySlot EXCEPT !.bufEVID = slots[t].bufEVID]
  <1>1. /\ i \in Nat /\ B \in Nat /\ top \in Nat /\ NSlots \in Nat /\ B <= i /\ i < top
        /\ top <= B + NSlots /\ \A p \in Nat : at[p] \in Nat
    <2>1. i \in Nat /\ i \in Len(built) .. top - 1
      BY DEF AtWork
    <2>2. B \in Nat /\ B <= i /\ i < top
      BY <2>1, LivePlace
    <2> QED BY <2>1, <2>2, Ghosts, Sizes DEF Drift
  <1>2. /\ Len(built') = i + 1
        /\ ((i % NSlots) - evtRDBuf) % NSlots = i - B
        /\ \A p \in Nat : B <= p /\ p < B + NSlots => ((p % NSlots) - evtRDBuf) % NSlots = p - B
    BY DEF Emitted
  <1>3. \A t \in Slots : slots'[t] = IF (t - evtRDBuf) % NSlots <= i - B THEN Cleared(t) ELSE slots[t]
    BY <1>2 DEF Emits, Emit
  <1>4. /\ \A p \in Nat : Joined(at, pos, p)' = Joined(at, pos, p)
        /\ \A p \in Nat : p # i =>
             \A slot : Content(slot, at[p], Joined(at, pos, p), sent, lost)
                         => Content(slot, at[p], Joined(at, pos, p)', sent', lost')
    BY ArrivalStays
  <1>5. \A t : /\ Cleared(t).bufEmpty = TRUE /\ Cleared(t).gotTrailer = {}
               /\ Cleared(t).eventBuf = NoWords
    BY DEF EmptySlot
  <1> HIDE DEF B, Cleared
  <1> SUFFICES ASSUME NEW p \in Nat, i + 1 <= p, p < i + 1 + NSlots
               PROVE  /\ Content(slots'[p % NSlots], at[p], Joined(at, pos, p)', sent', lost')
                      /\ IF p < top THEN slots'[p % NSlots].bufEmpty = FALSE
                                         /\ slots'[p % NSlots].bufEVID = Evid(at[p])
                                    ELSE slots'[p % NSlots].bufEmpty = TRUE
    <2>1. \A p \in Len(built') .. Len(built') + NSlots - 1 : p \in Nat /\ i + 1 <= p /\ p < i + 1 + NSlots
      BY <1>1, <1>2
    <2> QED BY <2>1 DEF DriftRing
  <1>6. p % NSlots \in Slots
    BY PlaceInRing
  <1>7. CASE p < B + NSlots
    <2>1. B <= p /\ p # i /\ ~(p - B <= i - B) /\ p \in Len(built) .. Len(built) + NSlots - 1
      BY <1>1, <1>7 DEF B
    <2>2. ((p % NSlots) - evtRDBuf) % NSlots = p - B
      BY <1>2, <1>7, <2>1
    <2>3. slots'[p % NSlots] = slots[p % NSlots]
      BY <1>3, <1>6, <2>1, <2>2
    <2>4. /\ Content(slots[p % NSlots], at[p], Joined(at, pos, p), sent, lost)
          /\ IF p < top THEN slots[p % NSlots].bufEmpty = FALSE
                             /\ slots[p % NSlots].bufEVID = Evid(at[p])
                        ELSE slots[p % NSlots].bufEmpty = TRUE
      BY <2>1 DEF Drift, DriftRing
    <2>5. Content(slots[p % NSlots], at[p], Joined(at, pos, p)', sent', lost')
      BY <1>4, <2>1, <2>4
    <2> QED BY <2>3, <2>4, <2>5
  <1>8. CASE p >= B + NSlots
    <2> DEFINE g == p - NSlots
    <2>1. g \in Nat /\ g \in Int /\ B <= g /\ g <= i /\ g < B + NSlots /\ g + NSlots = p /\ g - B <= i - B
      BY <1>1, <1>8
    <2> HIDE DEF g
    <2>2. g % NSlots = p % NSlots
      BY <2>1, Sizes, ModPeriod
    <2>3. ((p % NSlots) - evtRDBuf) % NSlots = g - B
      BY <1>2, <2>1, <2>2
    <2>4. slots'[p % NSlots] = Cleared(p % NSlots)
      BY <1>3, <1>6, <2>1, <2>3
    <2>5. ~(p < top)
      BY <1>1, <1>8
    <2>6. Joined(at, pos, p)' = {}
      <3>1. \A c \in Mezz : \A y \in Nat : Begun(c, y) => pos[c][y] # p
        <4>1. \A c \in Mezz : \A y \in Nat : Begun(c, y) => pos[c][y] \in 0 .. top - 1
          BY DEF Drift, DriftPlaces
        <4>2. p \notin 0 .. top - 1
          BY <1>1, <2>5
        <4> QED BY <4>1, <4>2
      <3>2. Joined(at, pos, p) = {}
        BY <1>1, <3>1 DEF Joined
      <3> QED BY <1>4, <3>2
    <2>7. Content(Cleared(p % NSlots), at[p], {}, sent', lost')
      BY <1>5 DEF Content, NoWords
    <2> QED BY <1>5, <2>4, <2>5, <2>6, <2>7
  <1>9. p < B + NSlots \/ p >= B + NSlots
    BY <1>1
  <1> QED BY <1>7, <1>8, <1>9

LEMMA EmitPointers ==
    ASSUME AllTypes, AllTypes', NEW top, NEW at, NEW pos, NEW ptr, Drift(top, at, pos, ptr),
           NEW m, NEW x, Arrives(m, x, 2), NEW i, AtWork(top, at, pos, ptr, m, x, i),
           NEW nx, nx = Onward(ptr, m, i, 2), NEW new, Emits(new, i, nx, m, x), Len(built') = i + 1
    PROVE  DriftPointers(top, pos, nx)'
  <1>1. /\ Quiet /\ DriftTypes(top, at, pos, nx)
        /\ nx[m] = (IF 2 = 2 THEN i + 1 ELSE i) /\ \A c \in Mezz : c # m => nx[c] = ptr[c]
        /\ \A c \in Mezz, f \in Nat : LastBegun(c, f, pos, ptr) => LastBegun(c, f, pos, nx)'
    BY ArrivalQuiet
  <1>2. /\ i \in Nat /\ i < top /\ top \in Nat /\ at[i] = x /\ x \in Nat /\ m \in Mezz /\ lost' = lost
        /\ \A p \in Nat : at[p] \in Nat
    <2>1. i \in Nat /\ i \in Len(built) .. top - 1 /\ at[i] = x
      BY DEF AtWork
    <2>2. i < top
      BY <2>1, LivePlace
    <2> QED BY <2>1, <2>2, Ghosts DEF Drift, Arrives
  <1>3. /\ \A c \in Mezz : /\ c \in Joined(at, pos, i) /\ Begun(c, x)
                           /\ Ended(c, x, sent'[c], lost)
        /\ \A j \in 0 .. i - 1 : at[j] < x
    BY OlderEnded
  <1> SUFFICES ASSUME NEW c \in Mezz
               PROVE  /\ evtWRBuf'[c] = nx[c] % NSlots
                      /\ i + 1 <= nx[c] /\ nx[c] <= top
                      /\ (\A f \in Nat : ~Begun(c, f)') \/ \E f \in Nat : LastBegun(c, f, pos, nx)'
    BY DEF DriftPointers
  <1>4. PICK f \in Nat : LastBegun(c, f, pos, ptr)
    BY <1>2, <1>3 DEF Drift, DriftPointers
  <1>5. LastBegun(c, f, pos, nx)'
    BY <1>1, <1>4
  <1>6. CASE c = m
    <2>1. evtWRBuf'[c] = nx[c] % NSlots
      BY <1>6 DEF AllTypes, RingTypes, Emits
    <2> QED BY <1>1, <1>2, <1>5, <1>6, <2>1
  <1>7. CASE c # m
    <2>1. evtWRBuf'[c] = evtWRBuf[c] /\ nx[c] = ptr[c]
      BY <1>1, <1>7 DEF AllTypes, RingTypes, Emits
    <2>2. evtWRBuf[c] = ptr[c] % NSlots /\ ptr[c] <= top
      BY DEF Drift, DriftPointers
    <2>3. ~(x > f)
      BY <1>2, <1>3, <1>4 DEF LastBegun
    <2> DEFINE j == pos[c][f]
    <2>4. j \in 0 .. top - 1 /\ at[j] = f
      BY <1>4 DEF Drift, DriftPlaces, LastBegun
    <2>5. nx[c] = IF Ended(c, f, sent'[c], lost) THEN j + 1 ELSE j
      BY <1>2, <1>5 DEF LastBegun
    <2> HIDE DEF j
    <2>6. j \in Nat /\ j >= i
      <3>1. ~(j \in 0 .. i - 1)
        BY <1>3, <2>3, <2>4
      <3> QED BY <1>2, <2>4, <3>1
    <2>7. CASE j = i
      <3>1. f = x
        BY <1>2, <2>4, <2>7
      <3>2. nx[c] = j + 1
        BY <1>3, <2>5, <3>1
      <3> QED BY <1>2, <1>5, <2>1, <2>2, <2>7, <3>2
    <2>8. CASE j > i
      <3>1. nx[c] >= j
        BY <2>5, <2>6
      <3>2. i + 1 <= nx[c]
        <4>1. nx[c] \in Nat
          BY <2>5, <2>6
        <4> QED BY <1>2, <2>6, <2>8, <3>1, <4>1
      <3> QED BY <1>5, <2>1, <2>2, <3>2
    <2> QED BY <1>2, <2>6, <2>7, <2>8
  <1> QED BY <1>6, <1>7

LEMMA EmitDrift ==
    ASSUME AllTypes, AllTypes', NEW top, NEW at, NEW pos, NEW ptr, Drift(top, at, pos, ptr),
           NEW m, NEW x \in Events, Arrives(m, x, 2), NEW i, AtWork(top, at, pos, ptr, m, x, i),
           NEW nx, nx = Onward(ptr, m, i, 2), NEW new, Emits(new, i, nx, m, x)
    PROVE  Drift(top, at, pos, nx)'
  <1>1. /\ Quiet /\ DriftTypes(top, at, pos, nx)
    BY ArrivalQuiet
  <1>2. Emitted(i, new, x)
    BY EmitPlace
  <1>3. /\ i \in Nat /\ Len(built) \in Nat /\ top \in Nat /\ NSlots \in Nat /\ Len(built) <= i /\ i < top
        /\ top <= Len(built) + NSlots /\ \A p \in Nat : at[p] \in Nat
    <2>1. i \in Nat /\ i \in Len(built) .. top - 1
      BY DEF AtWork
    <2>2. Len(built) \in Nat /\ Len(built) <= i /\ i < top
      BY <2>1, LivePlace
    <2> QED BY <2>1, <2>2, Ghosts, Sizes DEF Drift
  <1>4. Len(built') = i + 1 /\ evtRDBuf' = (i + 1) % NSlots
    BY <1>2 DEF Emitted
  <1>5. DriftRing(top, at, pos)' /\ DriftBuilt(at, pos)'
    BY <1>2, EmitRing, EmitBuilt
  <1>6. DriftPointers(top, pos, nx)'
    BY <1>4, EmitPointers
  <1>7. DriftPlaces(top, at, pos)' /\ DriftOrder(top, at, pos)' /\ DriftFollows(top, at, pos)'
    BY <1>1, <1>3, QuietPlaces DEF Drift
  <1>8. DriftOpen(top, at, pos)'
    <2> SUFFICES ASSUME NEW p \in i + 1 .. top - 1
                 PROVE  \E c \in Mezz : ~(c \in Joined(at, pos, p)' /\ Ended(c, at[p], sent'[c], lost'))
      BY <1>4 DEF DriftOpen
    <2>1. p \in Nat /\ p # i /\ p \in Len(built) .. top - 1
      BY <1>3
    <2>2. /\ Joined(at, pos, p)' = Joined(at, pos, p)
          /\ \A c \in Joined(at, pos, p) :
               Ended(c, at[p], sent'[c], lost') <=> Ended(c, at[p], sent[c], lost)
      BY <2>1, ArrivalStays
    <2>3. PICK c \in Mezz : ~(c \in Joined(at, pos, p) /\ Ended(c, at[p], sent[c], lost))
      BY <2>1 DEF Drift, DriftOpen
    <2> QED BY <2>2, <2>3
  <1>9. DriftBase(top, at)'
    <2>1. lost' = lost /\ Len(built) <= Len(built') /\ DriftBase(top, at)
      BY <1>3, <1>4 DEF Drift, Arrives
    <2>2. \A c \in Mezz : sent[c] <= sent'[c]
      BY <1>1 DEF Quiet
    <2> QED BY <2>1, <2>2, BaseStays
  <1>10. Len(built') <= top /\ top <= Len(built') + NSlots /\ evtRDBuf' = Len(built') % NSlots
    BY <1>3, <1>4
  <1> QED BY <1>1, <1>5, <1>6, <1>7, <1>8, <1>9, <1>10 DEF Drift

LEMMA TrailerDrift ==
    ASSUME AllTypes, AllTypes', NEW top, NEW at, NEW pos, NEW ptr, Drift(top, at, pos, ptr),
           NEW m \in Mezz, NEW x \in Events, Arrives(m, x, 2),
           previousData[m] # WordOf(m, x, 2), PlaceTrailer(WordOf(m, x, 2))
    PROVE  \E nx : Drift(top, at, pos, nx)'
  <1> DEFINE w == WordOf(m, x, 2)
             i == pos[m][x]
             s == i % NSlots
             new == TrailerSlot(w)
  <1>1. x \in Nat /\ 2 \in 1..2 /\ 2 \in 0..2 /\ sent[m] = 3 * x + 2 /\ Begun(m, x)
    BY DEF Events, Arrives
  <1>2. w \in Words /\ w.mezz = m /\ w.event = x
    BY <1>1, WordOfFacts
  <1>3. AtWork(top, at, pos, ptr, m, x, i)
    BY <1>1, OwnPlace
  <1>4. i \in Nat /\ ptr[m] = i /\ evtWRBuf[m] = s /\ s \in Slots /\ slots[s].bufEmpty = FALSE
        /\ slots[s].bufEVID = Evid(x)
    BY <1>3 DEF AtWork
  <1>5. new \in SlotRecord /\ Extends(new, slots[s], m, x, 2)
    BY <1>4, TrailerFills
  <1> HIDE DEF i, s, w
  <1>6. /\ IF Complete(new) THEN Emit(s, new, Evid(x))
           ELSE slots' = [slots EXCEPT ![s] = new] /\ UNCHANGED <<evtRDBuf, built>>
        /\ evtWRBuf' = [evtWRBuf EXCEPT ![m] = NextSlot(s)]
    <2>1. PlaceTrailer(w) /\ previousData[m] # w
      BY DEF w
    <2> QED BY <1>2, <1>4, <2>1 DEF PlaceTrailer
  <1> HIDE DEF new
  <1> PICK nx : nx = Onward(ptr, m, i, 2)
    OBVIOUS
  <1>7. evtWRBuf' = [evtWRBuf EXCEPT ![m] = nx[m] % NSlots]
    <2>1. nx[m] = i + 1
      <3>1. ptr \in [Mezz -> Nat]
        BY DEF Drift, DriftTypes
      <3> QED BY <3>1 DEF Onward
    <2>2. NextSlot(s) = (i + 1) % NSlots
      BY <1>4, NextPlace DEF s
    <2> QED BY <1>6, <2>1, <2>2
  <1>8. CASE Complete(new)
    <2>1. Emits(new, i, nx, m, x)
      BY <1>5, <1>6, <1>7, <1>8 DEF Emits, s
    <2>2. Drift(top, at, pos, nx)'
      BY <1>3, <2>1, EmitDrift
    <2> QED BY <2>2
  <1>9. CASE ~Complete(new)
    <2> DEFINE r == 2
    <2>1. nx = Onward(ptr, m, i, r) /\ Arrives(m, x, r)
      BY <1>1
    <2>2. Stores(new, i, nx, m, x, r)
      BY <1>5, <1>6, <1>7, <1>9 DEF Stores, s
    <2>3. AllTypes /\ AllTypes' /\ Drift(top, at, pos, ptr) /\ AtWork(top, at, pos, ptr, m, x, i)
          /\ new.gotTrailer # Mezz
      BY <1>3, <1>9 DEF Complete
    <2> HIDE DEF r
    <2>4. Drift(top, at, pos, nx)'
      BY ONLY <2>1, <2>2, <2>3, StoreDrift
    <2> QED BY <2>4
  <1> QED BY <1>8, <1>9

--------------------------------------------------------------------------------
(* A header arrives: the slot it finds. *)

\* Of the places from ptr[m] on, r is the first that is empty or holds event x.
Lands(top, at, ptr, m, x, r) ==
    /\ r \in Nat /\ Len(built) <= r /\ r < Len(built) + NSlots /\ r <= top
    /\ r < top => at[r] = x
    /\ \A q \in ptr[m] .. top - 1 : at[q] = x => r <= q

\* Where the search is after k steps from place p, when the ring begins with place b.
Around(b, p, k) == IF p + k < b + NSlots THEN p + k ELSE p + k - NSlots

LEMMA AroundRing ==
    ASSUME NEW b \in Nat, NEW p \in Nat, b <= p, p <= b + NSlots, NEW k \in Slots
    PROVE  /\ Around(b, p, k) \in Nat /\ b <= Around(b, p, k) /\ Around(b, p, k) < b + NSlots
           /\ ((p % NSlots) + k) % NSlots = Around(b, p, k) % NSlots
  <1>1. NSlots \in Nat /\ k \in Nat /\ k < NSlots
    BY Sizes DEF Slots
  <1>2. Around(b, p, k) \in Nat /\ b <= Around(b, p, k) /\ Around(b, p, k) < b + NSlots
    BY <1>1 DEF Around
  <1>3. p \in Int /\ k \in Int
    BY <1>1
  <1>4. ((p % NSlots) + k) % NSlots = (p + k) % NSlots
    BY ONLY <1>3, Sizes, ModAdd
  <1>5. (p + k) % NSlots = Around(b, p, k) % NSlots
    <2>1. CASE p + k < b + NSlots
      BY <2>1 DEF Around
    <2>2. CASE ~(p + k < b + NSlots)
      <3> DEFINE g == p + k - NSlots
      <3>1. g \in Int /\ g + NSlots = p + k /\ Around(b, p, k) = g
        BY <1>1, <2>2 DEF Around
      <3> HIDE DEF g
      <3>2. g % NSlots = (g + NSlots) % NSlots
        BY <3>1, Sizes, ModPeriod
      <3> QED BY <3>1, <3>2
    <2> QED BY <2>1, <2>2
  <1> QED BY <1>2, <1>4, <1>5

LEMMA AroundFirst ==
    ASSUME NEW b \in Nat, NEW p \in Nat, b <= p, NEW k \in Slots, NEW q \in Nat, p <= q, q < b + NSlots
    PROVE  /\ q - p \in Slots /\ Around(b, p, q - p) = q
           /\ k <= q - p => Around(b, p, k) <= q
  <1>1. NSlots \in Nat /\ k \in Nat /\ k < NSlots
    BY Sizes DEF Slots
  <1>2. q - p \in Nat /\ q - p < NSlots /\ p + (q - p) = q
    BY <1>1
  <1>3. q - p \in Slots
    BY <1>1, <1>2 DEF Slots
  <1>4. Around(b, p, q - p) = q
    BY <1>2 DEF Around
  <1>5. k <= q - p => Around(b, p, k) <= q
    BY <1>1 DEF Around
  <1> QED BY <1>3, <1>4, <1>5

LEMMA Offers ==
    ASSUME AllTypes, KeptInv, MissesOnly, NEW top, NEW at, NEW pos, NEW ptr, Drift(top, at, pos, ptr),
           NEW m \in Mezz, NEW x \in Nat, sent[m] = 3 * x, NEW k \in Slots
    PROVE  LET p == Around(Len(built), ptr[m], k)
           IN  /\ p \in Nat /\ Len(built) <= p /\ p < Len(built) + NSlots
               /\ (evtWRBuf[m] + k) % NSlots = p % NSlots
               /\ k \in Places(m, Evid(x)) <=> (p < top => at[p] = x)
  <1> DEFINE b == Len(built)
             p == Around(b, ptr[m], k)
             s == (evtWRBuf[m] + k) % NSlots
  <1>1. /\ b \in Nat /\ ptr[m] \in Nat /\ b <= ptr[m] /\ ptr[m] <= top /\ top <= b + NSlots
        /\ top \in Nat /\ evtWRBuf[m] = ptr[m] % NSlots
    BY AllSizes, Ghosts DEF Drift, DriftPointers
  <1>2. NSlots \in Nat /\ ptr[m] <= b + NSlots
    <2>1. NSlots \in Nat
      BY Sizes
    <2> QED BY <1>1, <2>1
  <1> HIDE DEF b
  <1>3. p \in Nat /\ b <= p /\ p < b + NSlots /\ s = p % NSlots
    <2>1. /\ Around(b, ptr[m], k) \in Nat /\ b <= Around(b, ptr[m], k) /\ Around(b, ptr[m], k) < b + NSlots
          /\ ((ptr[m] % NSlots) + k) % NSlots = Around(b, ptr[m], k) % NSlots
      <3>1. b \in Nat /\ ptr[m] \in Nat /\ b <= ptr[m] /\ ptr[m] <= b + NSlots /\ k \in Slots
        BY <1>1, <1>2
      <3> QED BY ONLY <3>1, AroundRing
    <2>2. s = ((ptr[m] % NSlots) + k) % NSlots
      BY <1>1
    <2> QED BY ONLY <2>1, <2>2
  <1> USE DEF b
  <1> HIDE DEF p, s
  <1>4. p \in Len(built) .. Len(built) + NSlots - 1
    BY <1>1, <1>2, <1>3
  <1>5. IF p < top THEN slots[s].bufEmpty = FALSE /\ slots[s].bufEVID = Evid(at[p])
                   ELSE slots[s].bufEmpty = TRUE
    BY <1>3, <1>4 DEF Drift, DriftRing
  <1>6. k \in Places(m, Evid(x)) <=> (slots[s].bufEmpty \/ slots[s].bufEVID = Evid(x))
    BY DEF Places, s
  <1>7. CASE p < top
    <2>1. p \in Len(built) .. top - 1
      BY <1>1, <1>3, <1>7
    <2>2. Evid(at[p]) = Evid(x) => at[p] = x
      BY <2>1, NoAlias
    <2>3. k \in Places(m, Evid(x)) <=> at[p] = x
      BY <1>5, <1>6, <1>7, <2>2, Zenon
    <2> QED BY <1>3, <1>7, <2>3 DEF p, s
  <1>8. CASE ~(p < top)
    <2>1. k \in Places(m, Evid(x))
      BY <1>5, <1>6, <1>8
    <2> QED BY <1>3, <1>8, <2>1 DEF p, s
  <1> QED BY <1>7, <1>8

LEMMA HeaderPlace ==
    ASSUME AllTypes, KeptInv, MissesOnly, NEW top, NEW at, NEW pos, NEW ptr, Drift(top, at, pos, ptr),
           NEW m \in Mezz, NEW x \in Nat, sent[m] = 3 * x,
           NEW k \in Places(m, Evid(x)), \A q \in Places(m, Evid(x)) : k <= q
    PROVE  \E r : Lands(top, at, ptr, m, x, r) /\ (evtWRBuf[m] + k) % NSlots = r % NSlots
  <1> DEFINE b == Len(built)
             p == Around(b, ptr[m], k)
  <1>1. /\ b \in Nat /\ ptr[m] \in Nat /\ b <= ptr[m] /\ ptr[m] <= top /\ top <= b + NSlots
        /\ top \in Nat
    BY AllSizes, Ghosts DEF Drift, DriftPointers
  <1>2. NSlots \in Nat /\ k \in Slots /\ k \in Nat /\ k < NSlots
    <2>1. k \in Slots
      BY DEF Places
    <2> QED BY <2>1, Sizes DEF Slots
  <1>3. /\ p \in Nat /\ b <= p /\ p < b + NSlots /\ (evtWRBuf[m] + k) % NSlots = p % NSlots
        /\ p < top => at[p] = x
    BY <1>2, Offers
  <1>4. \A q \in Slots : (Around(b, ptr[m], q) < top => at[Around(b, ptr[m], q)] = x) => k <= q
    BY Offers
  <1> HIDE DEF b
  <1>5. p <= top
    <2> SUFFICES ASSUME p > top PROVE FALSE
      BY <1>1, <1>3
    <2>1. ptr[m] <= top /\ top < b + NSlots
      BY <1>1, <1>2, <1>3
    <2>2. top - ptr[m] \in Slots /\ Around(b, ptr[m], top - ptr[m]) = top
      BY <1>1, <1>2, <2>1, AroundFirst
    <2>3. ~(top < top)
      BY <1>1
    <2>4. k <= top - ptr[m]
      BY <1>4, <2>2, <2>3
    <2>5. p <= top
      BY <1>1, <1>2, <2>1, <2>4, AroundFirst
    <2> QED BY <1>1, <1>3, <2>5
  <1>6. ASSUME NEW r \in ptr[m] .. top - 1, at[r] = x PROVE p <= r
    <2>1. r \in Nat /\ ptr[m] <= r /\ r < b + NSlots
      BY <1>1, <1>2
    <2>2. r - ptr[m] \in Slots /\ Around(b, ptr[m], r - ptr[m]) = r
      BY <1>1, <1>2, <2>1, AroundFirst
    <2>3. k <= r - ptr[m]
      BY <1>4, <1>6, <2>2
    <2> QED BY <1>1, <1>2, <2>1, <2>3, AroundFirst
  <1> USE DEF b
  <1> HIDE DEF p
  <1>7. Lands(top, at, ptr, m, x, p)
    BY <1>3, <1>5, <1>6 DEF Lands
  <1> QED BY <1>3, <1>7

\* The header of event x arrives from m.
Heads(m, x) ==
    /\ m \in Mezz /\ x \in Nat /\ sent[m] = 3 * x
    /\ sent'[m] = sent[m] + 1 /\ (\A c \in Mezz : c # m => sent'[c] = sent[c])
    /\ lost' = lost /\ Word(m, "header", x) \notin lost /\ Elsewhere(m, x)

\* Place r, the last one if it is new, is that of event x, and m writes it.
Lifted(top, at, pos, ptr, nt, na, np, nx, m, x, r) ==
    /\ DriftTypes(nt, na, np, nx)
    /\ nt = IF r = top THEN top + 1 ELSE top
    /\ na[r] = x /\ \A p \in Nat : p # r => na[p] = at[p]
    /\ np[m][x] = r /\ \A c \in Mezz, y \in Nat : ~(c = m /\ y = x) => np[c][y] = pos[c][y]
    /\ nx[m] = r /\ \A c \in Mezz : c # m => nx[c] = ptr[c]

LEMMA Lift ==
    ASSUME NEW top, NEW at, NEW pos, NEW ptr, DriftTypes(top, at, pos, ptr),
           NEW m \in Mezz, NEW x \in Nat, NEW r \in Nat
    PROVE  \E nt, na, np, nx : Lifted(top, at, pos, ptr, nt, na, np, nx, m, x, r)
  <1> DEFINE nt == IF r = top THEN top + 1 ELSE top
             na == [p \in Nat |-> IF p = r THEN x ELSE at[p]]
             Row(c) == [y \in Nat |-> IF c = m /\ y = x THEN r ELSE pos[c][y]]
             np == [c \in Mezz |-> Row(c)]
             nx == [c \in Mezz |-> IF c = m THEN r ELSE ptr[c]]
  <1>1. /\ top \in Nat /\ \A p \in Nat : at[p] \in Nat
        /\ \A c \in Mezz : ptr[c] \in Nat /\ \A y \in Nat : pos[c][y] \in Nat
    BY Ghosts
  <1>2. nt \in Nat /\ na \in [Nat -> Nat] /\ nx \in [Mezz -> Nat]
    BY <1>1
  <1>3. \A c \in Mezz : Row(c) \in [Nat -> Nat]
    BY <1>1
  <1>4. /\ Row(m)[x] = r
        /\ \A c \in Mezz, y \in Nat : ~(c = m /\ y = x) => Row(c)[y] = pos[c][y]
    OBVIOUS
  <1>5. /\ na[r] = x /\ \A p \in Nat : p # r => na[p] = at[p]
        /\ nx[m] = r /\ \A c \in Mezz : c # m => nx[c] = ptr[c]
    OBVIOUS
  <1> HIDE DEF Row, na, nx
  <1>6. np \in [Mezz -> [Nat -> Nat]] /\ \A c \in Mezz : np[c] = Row(c)
    BY <1>3
  <1>7. /\ np[m][x] = r
        /\ \A c \in Mezz, y \in Nat : ~(c = m /\ y = x) => np[c][y] = pos[c][y]
    BY <1>4, <1>6
  <1> HIDE DEF np
  <1>8. DriftTypes(nt, na, np, nx)
    BY <1>2, <1>6, Zenon DEF DriftTypes
  <1>9. Lifted(top, at, pos, ptr, nt, na, np, nx, m, x, r)
    BY <1>5, <1>7, <1>8 DEF Lifted
  <1> HIDE DEF nt
  <1> QED BY <1>9

\* A header begins the fragment of its card, at place r, and no other.
LEMMA HeadJoined ==
    ASSUME AllTypes, AllTypes', NEW top, NEW at, NEW pos, NEW ptr, Drift(top, at, pos, ptr),
           NEW m, NEW x, Heads(m, x), NEW r, Lands(top, at, ptr, m, x, r),
           NEW nt, NEW na, NEW np, NEW nx, Lifted(top, at, pos, ptr, nt, na, np, nx, m, x, r)
    PROVE  /\ ~Begun(m, x) /\ Begun(m, x)'
           /\ \A p \in Nat : p < top => na[p] = at[p]
           /\ \A p \in Nat : p # r => Joined(na, np, p)' = Joined(at, pos, p) /\ na[p] = at[p]
           /\ Joined(na, np, r)' = Joined(na, pos, r) \cup {m} /\ m \notin Joined(na, pos, r)
           /\ r < top => Joined(na, pos, r) = Joined(at, pos, r)
           /\ Joined(na, pos, top) = {} /\ Joined(at, pos, top) = {}
  <1>1. /\ m \in Mezz /\ x \in Nat /\ sent[m] = 3 * x /\ sent'[m] = sent[m] + 1
        /\ lost' = lost /\ Word(m, "header", x) \notin lost /\ Elsewhere(m, x)
    BY DEF Heads
  <1>2. r \in Nat /\ (r < top => at[r] = x)
    BY DEF Lands
  <1>3. /\ top \in Nat /\ \A p \in Nat : at[p] \in Nat /\ na[p] \in Nat
    BY Ghosts DEF Drift, Lifted
  <1>4. /\ na[r] = x /\ \A p \in Nat : p # r => na[p] = at[p]
        /\ np[m][x] = r /\ \A c \in Mezz, y \in Nat : ~(c = m /\ y = x) => np[c][y] = pos[c][y]
    BY DEF Lifted
  <1>5. ~Begun(m, x) /\ Begun(m, x)'
    <2>1. ~(sent[m] > 3 * x) /\ sent'[m] > 3 * x
      BY <1>1
    <2> QED BY <1>1, <2>1 DEF Begun
  <1>6. \A c \in Mezz, f \in Nat : ~(c = m /\ f = x) => (Begun(c, f)' <=> Begun(c, f))
    BY <1>1 DEF Elsewhere
  <1>7. ASSUME NEW p \in Nat, p # r PROVE Joined(na, np, p)' = Joined(at, pos, p)
    <2>1. ASSUME NEW c \in Mezz
          PROVE  Begun(c, at[p])' /\ np[c][at[p]] = p <=> Begun(c, at[p]) /\ pos[c][at[p]] = p
      <3>1. CASE c = m /\ at[p] = x
        BY <1>4, <1>5, <1>7, <3>1
      <3>2. CASE ~(c = m /\ at[p] = x)
        BY <1>3, <1>4, <1>6, <3>2
      <3> QED BY <3>1, <3>2
    <2>2. na[p] = at[p]
      BY <1>4, <1>7
    <2> QED BY <2>1, <2>2 DEF Joined
  <1>8. Joined(na, np, r)' = Joined(na, pos, r) \cup {m} /\ m \notin Joined(na, pos, r)
    <2>1. ASSUME NEW c \in Mezz
          PROVE  Begun(c, x)' /\ np[c][x] = r <=> (Begun(c, x) /\ pos[c][x] = r) \/ c = m
      <3>1. CASE c = m
        BY <1>4, <1>5, <3>1
      <3>2. CASE c # m
        BY <1>1, <1>4, <1>6, <3>2
      <3> QED BY <3>1, <3>2
    <2> QED BY <1>1, <1>4, <1>5, <2>1 DEF Joined
  <1>9. ASSUME NEW a, \A p \in Nat : a[p] \in Nat PROVE Joined(a, pos, top) = {}
    <2>1. \A c \in Mezz : \A y \in Nat : Begun(c, y) => pos[c][y] \in 0 .. top - 1
      BY DEF Drift, DriftPlaces
    <2>2. top \notin 0 .. top - 1
      BY <1>3
    <2>3. a[top] \in Nat
      BY <1>3, <1>9
    <2> QED BY <2>1, <2>2, <2>3 DEF Joined
  <1>10. r < top => Joined(na, pos, r) = Joined(at, pos, r)
    BY <1>2, <1>4 DEF Joined
  <1>11. \A p \in Nat : p < top => na[p] = at[p]
    BY <1>2, <1>4
  <1> QED BY <1>3, <1>4, <1>5, <1>7, <1>8, <1>9, <1>10, <1>11

\* Which places are together after a header: those that were, but none but r of its event.
LEMMA HeadTogether ==
    ASSUME AllTypes, AllTypes', NEW top, NEW at, NEW pos, NEW ptr, Drift(top, at, pos, ptr),
           NEW m, NEW x, Heads(m, x), NEW r, Lands(top, at, ptr, m, x, r),
           NEW nt, NEW na, NEW np, NEW nx, Lifted(top, at, pos, ptr, nt, na, np, nx, m, x, r)
    PROVE  /\ \A p \in Nat : p < top /\ Together(na, np, p)' => Together(at, pos, p)
           /\ \A p \in Nat : p < top /\ (at[p] # x \/ p = r) /\ Together(at, pos, p) => Together(na, np, p)'
           /\ r = top => (Together(na, np, r)' <=> \A c \in Mezz : c # m => ~(sent[c] > 3 * x))
  <1>1. /\ m \in Mezz /\ x \in Nat /\ sent[m] = 3 * x /\ sent'[m] = sent[m] + 1
        /\ (\A c \in Mezz : c # m => sent'[c] = sent[c]) /\ Elsewhere(m, x)
    BY DEF Heads
  <1>2. r \in Nat /\ (r < top => at[r] = x)
    BY DEF Lands
  <1>3. top \in Nat /\ (\A p \in Nat : at[p] \in Nat) /\ na[r] = x
    BY Ghosts DEF Drift, Lifted
  <1>4. /\ ~Begun(m, x)
        /\ \A p \in Nat : p < top => na[p] = at[p]
        /\ \A p \in Nat : p # r => Joined(na, np, p)' = Joined(at, pos, p) /\ na[p] = at[p]
        /\ Joined(na, np, r)' = Joined(na, pos, r) \cup {m} /\ m \notin Joined(na, pos, r)
        /\ r < top => Joined(na, pos, r) = Joined(at, pos, r)
        /\ Joined(na, pos, top) = {}
    BY HeadJoined
  <1>5. \A c \in Mezz, f \in Nat : ~(c = m /\ f = x) => (sent'[c] > 3 * f <=> sent[c] > 3 * f)
    BY <1>1 DEF Elsewhere
  <1>6. ~(sent[m] > 3 * x) /\ sent'[m] > 3 * x
    BY <1>1
  <1>7. ASSUME NEW p \in Nat, p # r, p < top
        PROVE  /\ Together(na, np, p)' => Together(at, pos, p)
               /\ at[p] # x /\ Together(at, pos, p) => Together(na, np, p)'
    <2>1. /\ Joined(na, np, p)' = Joined(at, pos, p) /\ na[p] = at[p] /\ at[p] \in Nat
      BY <1>3, <1>4, <1>7
    <2>2. ASSUME Together(na, np, p)' PROVE Together(at, pos, p)
      <3> SUFFICES ASSUME NEW c \in Mezz, sent[c] > 3 * at[p] PROVE c \in Joined(at, pos, p)
        BY DEF Together
      <3>1. sent'[c] > 3 * at[p]
        <4>1. CASE c = m /\ at[p] = x
          BY <1>6, <4>1
        <4>2. CASE ~(c = m /\ at[p] = x)
          BY <1>5, <2>1, <4>2
        <4> QED BY <4>1, <4>2
      <3> QED BY <2>1, <2>2, <3>1 DEF Together
    <2>3. ASSUME at[p] # x, Together(at, pos, p) PROVE Together(na, np, p)'
      <3>1. \A c \in Mezz : sent'[c] > 3 * at[p] => sent[c] > 3 * at[p]
        BY <1>5, <2>1, <2>3
      <3> QED BY <2>1, <2>3, <3>1 DEF Together
    <2> QED BY <2>2, <2>3
  <1>8. ASSUME r < top
        PROVE  Together(na, np, r)' <=> Together(at, pos, r)
    <2>1. /\ Joined(na, np, r)' = Joined(at, pos, r) \cup {m} /\ na[r] = at[r] /\ at[r] = x
      BY <1>2, <1>3, <1>4, <1>8
    <2>2. \A c \in Mezz : c # m => (sent'[c] > 3 * x <=> sent[c] > 3 * x)
      BY <1>1, <1>5
    <2>3. ASSUME NEW c \in Mezz
          PROVE  (sent'[c] > 3 * x => c \in Joined(at, pos, r) \cup {m})
                   <=> (sent[c] > 3 * x => c \in Joined(at, pos, r))
      <3>1. CASE c = m
        BY <1>6, <3>1
      <3>2. CASE c # m
        BY <2>2, <3>2
      <3> QED BY <3>1, <3>2
    <2> QED BY <2>1, <2>3 DEF Together
  <1>9. ASSUME r = top
        PROVE  Together(na, np, r)' <=> \A c \in Mezz : c # m => ~(sent[c] > 3 * x)
    <2>1. Joined(na, np, r)' = {m} /\ na[r] = x
      BY <1>3, <1>4, <1>9
    <2>2. \A c \in Mezz : c # m => (sent'[c] > 3 * x <=> sent[c] > 3 * x)
      BY <1>1, <1>5
    <2> QED BY <2>1, <2>2 DEF Together
  <1>10. ASSUME NEW p \in Nat, p < top
         PROVE  /\ Together(na, np, p)' => Together(at, pos, p)
                /\ (at[p] # x \/ p = r) /\ Together(at, pos, p) => Together(na, np, p)'
    <2>1. CASE p = r
      BY <1>8, <1>10, <2>1
    <2>2. CASE p # r
      BY <1>7, <1>10, <2>2
    <2> QED BY <2>1, <2>2
  <1> QED BY <1>9, <1>10

LEMMA HeadRing ==
    ASSUME AllTypes, AllTypes', NEW top, NEW at, NEW pos, NEW ptr, Drift(top, at, pos, ptr),
           NEW m, NEW x, Heads(m, x), NEW r, Lands(top, at, ptr, m, x, r),
           NEW nt, NEW na, NEW np, NEW nx, Lifted(top, at, pos, ptr, nt, na, np, nx, m, x, r),
           NEW new, Extends(new, slots[r % NSlots], m, x, 0),
           slots' = [slots EXCEPT ![r % NSlots] = new], built' = built
    PROVE  DriftRing(nt, na, np)' /\ DriftBuilt(na, np)'
  <1>1. /\ m \in Mezz /\ x \in Nat /\ sent[m] = 3 * x /\ sent'[m] = sent[m] + 1
        /\ lost' = lost /\ Word(m, "header", x) \notin lost /\ Elsewhere(m, x)
        /\ \A c \in Mezz : c # m => sent'[c] = sent[c]
    BY DEF Heads
  <1>2. /\ r \in Nat /\ Len(built) <= r /\ r < Len(built) + NSlots /\ r <= top
        /\ r < top => at[r] = x
    BY DEF Lands
  <1>3. /\ top \in Nat /\ (\A p \in Nat : at[p] \in Nat) /\ Len(built) \in Nat /\ NSlots \in Nat
        /\ na[r] = x /\ nt = IF r = top THEN top + 1 ELSE top
    BY Ghosts, AllSizes, Sizes DEF Drift, Lifted
  <1>4. /\ ~Begun(m, x)
        /\ \A p \in Nat : p # r => Joined(na, np, p)' = Joined(at, pos, p) /\ na[p] = at[p]
        /\ Joined(na, np, r)' = Joined(na, pos, r) \cup {m}
        /\ r < top => Joined(na, pos, r) = Joined(at, pos, r)
        /\ Joined(na, pos, top) = {} /\ Joined(at, pos, top) = {}
    BY HeadJoined
  <1>5. r \in Len(built) .. Len(built) + NSlots - 1 /\ r % NSlots \in Slots
    BY <1>2, <1>3, PlaceInRing
  <1>6. Content(slots[r % NSlots], x, Joined(na, pos, r), sent, lost)
    <2>1. Content(slots[r % NSlots], at[r], Joined(at, pos, r), sent, lost)
      BY <1>5 DEF Drift, DriftRing
    <2>2. CASE r < top
      BY <1>2, <1>4, <2>1, <2>2
    <2>3. CASE r = top
      BY <1>4, <2>1, <2>3 DEF Content
    <2> QED BY <1>2, <1>3, <2>2, <2>3
  <1>7. Content(new, x, Joined(na, np, r)', sent', lost')
    <2>1. WordOf(m, x, 0) \notin lost /\ sent[m] = 3 * x + 0 /\ 0 \in 0..2
      BY <1>1, WordKinds
    <2>2. Joined(na, pos, r) \in SUBSET Mezz
      BY DEF Joined
    <2>3. Content(new, x, Joined(na, pos, r) \cup {m}, sent', lost')
      BY <1>1, <1>6, <2>1, <2>2, ContentGrows
    <2> QED BY <1>4, <2>3
  <1>8. DriftRing(nt, na, np)'
    <2> SUFFICES ASSUME NEW p \in Len(built) .. Len(built) + NSlots - 1
                 PROVE  /\ Content(slots'[p % NSlots], na[p], Joined(na, np, p)', sent', lost')
                        /\ IF p < nt THEN slots'[p % NSlots].bufEmpty = FALSE
                                          /\ slots'[p % NSlots].bufEVID = Evid(na[p])
                                     ELSE slots'[p % NSlots].bufEmpty = TRUE
      BY DEF DriftRing
    <2>1. p \in Nat /\ at[p] \in Nat /\ Len(built) <= p /\ p < Len(built) + NSlots
      BY <1>3
    <2>2. CASE p = r
      <3>1. slots'[r % NSlots] = new
        BY <1>5 DEF AllTypes, RingTypes
      <3>2. new.bufEmpty = FALSE /\ new.bufEVID = Evid(x)
        BY DEF Extends
      <3>3. p < nt
        BY <1>2, <1>3, <2>2
      <3> QED BY <1>3, <1>7, <2>2, <3>1, <3>2, <3>3
    <2>3. CASE p # r
      <3>1. p % NSlots \in Slots /\ p % NSlots # r % NSlots
        BY <1>2, <1>3, <2>1, <2>3, WindowApart, PlaceInRing
      <3>2. slots'[p % NSlots] = slots[p % NSlots]
        BY <3>1 DEF AllTypes, RingTypes
      <3>3. /\ Content(slots[p % NSlots], at[p], Joined(at, pos, p), sent, lost)
            /\ IF p < top THEN slots[p % NSlots].bufEmpty = FALSE
                               /\ slots[p % NSlots].bufEVID = Evid(at[p])
                          ELSE slots[p % NSlots].bufEmpty = TRUE
        BY DEF Drift, DriftRing
      <3>4. at[p] # x \/ m \notin Joined(at, pos, p)
        BY <1>4 DEF Joined
      <3>5. Joined(at, pos, p) \in SUBSET Mezz
        BY DEF Joined
      <3>6. Content(slots[p % NSlots], at[p], Joined(at, pos, p), sent', lost')
        BY <1>1, <2>1, <3>3, <3>4, <3>5, ContentStays
      <3>7. p < nt <=> p < top
        BY <1>2, <1>3, <2>1, <2>3
      <3>8. Joined(na, np, p)' = Joined(at, pos, p) /\ na[p] = at[p]
        BY <1>4, <2>1, <2>3
      <3> QED BY <3>2, <3>3, <3>6, <3>7, <3>8
    <2> QED BY <2>2, <2>3
  <1>9. DriftBuilt(na, np)'
    <2>1. ASSUME NEW p \in 0 .. Len(built) - 1
          PROVE  /\ built[p + 1].evid = Evid(na[p])
                 /\ \A c \in Mezz :
                      /\ sent'[c] >= 3 * na[p] + 3
                      /\ built[p + 1].words[c] = IF c \in Joined(na, np, p)'
                                                THEN Kept(c, na[p], lost') ELSE <<>>
      <3>1. p \in Nat /\ p # r /\ at[p] \in Nat
        BY <1>2, <1>3
      <3>2. na[p] = at[p] /\ Joined(na, np, p)' = Joined(at, pos, p) /\ lost' = lost
        BY <1>1, <1>4, <3>1
      <3>3. /\ built[p + 1].evid = Evid(at[p])
            /\ \A c \in Mezz :
                 /\ sent[c] >= 3 * at[p] + 3
                 /\ built[p + 1].words[c] = IF c \in Joined(at, pos, p)
                                           THEN Kept(c, at[p], lost) ELSE <<>>
        BY DEF Drift, DriftBuilt
      <3>4. ASSUME NEW c \in Mezz PROVE sent'[c] >= 3 * at[p] + 3
        <4>1. sent[c] \in Nat /\ sent'[c] \in Nat
          BY Sizes DEF AllTypes
        <4>2. sent'[c] >= sent[c]
          BY <1>1, <4>1
        <4> QED BY ONLY <3>1, <3>3, <4>1, <4>2
      <3> QED BY ONLY <3>2, <3>3, <3>4
    <2>2. 0 .. Len(built') - 1 = 0 .. Len(built) - 1
      OBVIOUS
    <2> QED BY <2>1, <2>2 DEF DriftBuilt
  <1> QED BY <1>8, <1>9

LEMMA HeadPlaces ==
    ASSUME AllTypes, AllTypes', NEW top, NEW at, NEW pos, NEW ptr, Drift(top, at, pos, ptr),
           NEW m, NEW x, Heads(m, x), NEW r, Lands(top, at, ptr, m, x, r),
           NEW nt, NEW na, NEW np, NEW nx, Lifted(top, at, pos, ptr, nt, na, np, nx, m, x, r),
           evtWRBuf' = [evtWRBuf EXCEPT ![m] = r % NSlots], built' = built
    PROVE  /\ DriftPlaces(nt, na, np)' /\ DriftPointers(nt, np, nx)'
           /\ DriftOpen(nt, na, np)' /\ DriftBase(nt, na)'
  <1>1. /\ m \in Mezz /\ x \in Nat /\ sent[m] = 3 * x /\ sent'[m] = sent[m] + 1
        /\ lost' = lost /\ Elsewhere(m, x)
        /\ \A c \in Mezz : c # m => sent'[c] = sent[c]
    BY DEF Heads
  <1>2. /\ r \in Nat /\ Len(built) <= r /\ r < Len(built) + NSlots /\ r <= top
        /\ r < top => at[r] = x
    BY DEF Lands
  <1>3. /\ top \in Nat /\ nt \in Nat /\ (\A p \in Nat : at[p] \in Nat /\ na[p] \in Nat)
        /\ Len(built) \in Nat /\ NSlots \in Nat
    BY Ghosts, AllSizes, Sizes DEF Drift, Lifted
  <1>4. /\ na[r] = x /\ nt = IF r = top THEN top + 1 ELSE top
        /\ np[m][x] = r /\ \A c \in Mezz, y \in Nat : ~(c = m /\ y = x) => np[c][y] = pos[c][y]
        /\ nx[m] = r /\ \A c \in Mezz : c # m => nx[c] = ptr[c]
    BY DEF Lifted
  <1>5. /\ ~Begun(m, x) /\ Begun(m, x)'
        /\ \A p \in Nat : p < top => na[p] = at[p]
        /\ \A p \in Nat : p # r => Joined(na, np, p)' = Joined(at, pos, p) /\ na[p] = at[p]
        /\ Joined(na, np, r)' = Joined(na, pos, r) \cup {m}
    BY HeadJoined
  <1>6. \A c \in Mezz, f \in Nat : ~(c = m /\ f = x) =>
          /\ Begun(c, f)' <=> Begun(c, f)
          /\ Ended(c, f, sent'[c], lost') <=> Ended(c, f, sent[c], lost)
    BY <1>1 DEF Elsewhere
  <1>7. r < nt /\ top <= nt /\ \A p \in Nat : p # r /\ p < nt => p < top
    BY <1>2, <1>3, <1>4
  <1>8. DriftPlaces(nt, na, np)'
    <2>1. ASSUME NEW c \in Mezz, NEW y \in Nat, Begun(c, y)'
          PROVE  np[c][y] \in 0 .. nt - 1 /\ na[np[c][y]] = y
      <3>1. CASE c = m /\ y = x
        BY <1>2, <1>3, <1>4, <1>7, <3>1
      <3>2. CASE ~(c = m /\ y = x)
        <4>1. Begun(c, y) /\ np[c][y] = pos[c][y]
          BY <1>4, <1>6, <2>1, <3>2
        <4>2. pos[c][y] \in 0 .. top - 1 /\ at[pos[c][y]] = y
          BY <4>1 DEF Drift, DriftPlaces
        <4> DEFINE p == pos[c][y]
        <4>3. p \in 0 .. top - 1 /\ at[p] = y
          BY <4>2
        <4> HIDE DEF p
        <4>4. p \in Nat /\ p < top /\ p \in 0 .. nt - 1
          BY <1>3, <1>7, <4>3
        <4>5. p \in 0 .. nt - 1 /\ na[p] = y
          BY <1>5, <4>3, <4>4
        <4> QED BY <4>1, <4>5 DEF p
      <3> QED BY <3>1, <3>2
    <2>2. ASSUME NEW p \in 0 .. nt - 1 PROVE Joined(na, np, p)' # {}
      <3>1. CASE p = r
        BY <1>5, <3>1
      <3>2. CASE p # r
        <4>1. p \in Nat /\ p \in 0 .. top - 1
          BY <1>3, <1>7, <3>2
        <4> QED BY <1>5, <3>2, <4>1 DEF Drift, DriftPlaces
      <3> QED BY <3>1, <3>2
    <2> QED BY <2>1, <2>2 DEF DriftPlaces
  <1>9. DriftPointers(nt, np, nx)'
    <2> SUFFICES ASSUME NEW c \in Mezz
                 PROVE  /\ evtWRBuf'[c] = nx[c] % NSlots
                        /\ Len(built) <= nx[c] /\ nx[c] <= nt
                        /\ (\A f \in Nat : ~Begun(c, f)') \/ \E f \in Nat : LastBegun(c, f, np, nx)'
      BY DEF DriftPointers
    <2>1. CASE c = m
      <3>1. evtWRBuf'[c] = nx[c] % NSlots
        BY <1>4, <2>1 DEF AllTypes, RingTypes
      <3>2. \A y \in Nat : y > x => ~Begun(m, y)'
        <4>1. \A y \in Nat : y > x => ~(sent'[m] > 3 * y)
          BY <1>1
        <4> QED BY <4>1 DEF Begun
      <3>3. ~Ended(m, x, sent'[m], lost')
        BY <1>1 DEF Ended
      <3>4. LastBegun(m, x, np, nx)'
        BY <1>4, <1>5, <3>2, <3>3 DEF LastBegun
      <3>5. Len(built) <= nx[c] /\ nx[c] <= nt
        BY <1>2, <1>3, <1>4, <1>7, <2>1
      <3> QED BY <1>1, <2>1, <3>1, <3>4, <3>5
    <2>2. CASE c # m
      <3>1. evtWRBuf'[c] = evtWRBuf[c] /\ nx[c] = ptr[c]
        BY <1>4, <2>2 DEF AllTypes, RingTypes
      <3>2. /\ evtWRBuf[c] = ptr[c] % NSlots /\ Len(built) <= ptr[c] /\ ptr[c] <= top
            /\ (\A f \in Nat : ~Begun(c, f)) \/ \E f \in Nat : LastBegun(c, f, pos, ptr)
        BY DEF Drift, DriftPointers
      <3>3. ptr[c] \in Nat /\ ptr[c] <= nt
        <4>1. ptr[c] \in Nat
          BY Ghosts DEF Drift
        <4> QED BY ONLY <1>3, <1>7, <3>2, <4>1
      <3>4. ASSUME NEW f \in Nat, LastBegun(c, f, pos, ptr) PROVE LastBegun(c, f, np, nx)'
        <4>1. np[c][f] = pos[c][f]
          BY <1>4, <2>2
        <4> QED BY <1>6, <2>2, <3>1, <3>4, <4>1 DEF LastBegun
      <3>5. (\A f \in Nat : ~Begun(c, f)') \/ \E f \in Nat : LastBegun(c, f, np, nx)'
        BY <1>6, <2>2, <3>2, <3>4
      <3> QED BY <3>1, <3>2, <3>3, <3>5
    <2> QED BY <2>1, <2>2
  <1>10. DriftOpen(nt, na, np)'
    <2> SUFFICES ASSUME NEW p \in Len(built) .. nt - 1
                 PROVE  \E c \in Mezz : ~(c \in Joined(na, np, p)' /\ Ended(c, na[p], sent'[c], lost'))
      BY DEF DriftOpen
    <2>1. CASE p = r
      <3>1. ~Ended(m, x, sent'[m], lost')
        BY <1>1 DEF Ended
      <3> QED BY <1>1, <1>4, <2>1, <3>1
    <2>2. CASE p # r
      <3>1. p \in Nat /\ p \in Len(built) .. top - 1
        BY <1>3, <1>7, <2>2
      <3>2. PICK c \in Mezz : ~(c \in Joined(at, pos, p) /\ Ended(c, at[p], sent[c], lost))
        BY <3>1 DEF Drift, DriftOpen
      <3>3. c \in Joined(at, pos, p) =>
              (Ended(c, at[p], sent'[c], lost') <=> Ended(c, at[p], sent[c], lost))
        <4>1. c \in Joined(at, pos, p) => ~(c = m /\ at[p] = x)
          BY <1>5 DEF Joined
        <4> QED BY <1>3, <1>6, <3>1, <4>1
      <3>4. Joined(na, np, p)' = Joined(at, pos, p) /\ na[p] = at[p]
        BY <1>5, <2>2, <3>1
      <3> QED BY <3>2, <3>3, <3>4
    <2> QED BY <2>1, <2>2
  <1>11. DriftBase(nt, na)'
    <2> SUFFICES ASSUME \E w \in lost : w.kind = "header"
                 PROVE  \E w \in lost : /\ w.kind = "header"
                                        /\ \A c \in Mezz : sent'[c] >= 3 * (w.event - NSlots)
                                        /\ \A p \in Len(built) .. nt - 1 : na[p] >= w.event - NSlots
      BY <1>1 DEF DriftBase
    <2>1. PICK w \in lost : /\ w.kind = "header"
                            /\ \A c \in Mezz : sent[c] >= 3 * (w.event - NSlots)
                            /\ \A p \in Len(built) .. top - 1 : at[p] >= w.event - NSlots
      BY DEF Drift, DriftBase
    <2>2. w.event \in Nat /\ w.event - NSlots \in Int
      <3>1. w.event \in Nat
        BY DEF AllTypes, Words, Events
      <3> QED BY <1>3, <3>1
    <2>3. ASSUME NEW c \in Mezz PROVE sent'[c] >= 3 * (w.event - NSlots)
      <3>1. sent[c] \in Nat /\ sent'[c] \in Nat /\ sent'[c] >= sent[c]
        <4>1. sent[c] \in Nat /\ sent'[c] \in Nat
          BY Sizes DEF AllTypes
        <4> QED BY <1>1, <4>1
      <3>2. sent[c] >= 3 * (w.event - NSlots)
        BY <2>1
      <3> QED BY ONLY <2>2, <3>1, <3>2
    <2>4. ASSUME NEW p \in Len(built) .. nt - 1 PROVE na[p] >= w.event - NSlots
      <3>1. CASE p = r
        <4>1. 3 * x >= 3 * (w.event - NSlots)
          BY <1>1, <2>1
        <4>2. x >= w.event - NSlots
          BY ONLY <1>1, <2>2, <4>1
        <4> QED BY <1>4, <3>1, <4>2
      <3>2. CASE p # r
        <4>1. p \in Nat /\ p \in Len(built) .. top - 1
          BY <1>3, <1>7, <3>2
        <4> QED BY <1>5, <2>1, <3>2, <4>1
      <3> QED BY <3>1, <3>2
    <2> QED BY <2>1, <2>3, <2>4
  <1> QED BY <1>8, <1>9, <1>10, <1>11

LEMMA HeadOrder ==
    ASSUME AllTypes, AllTypes', NEW top, NEW at, NEW pos, NEW ptr, Drift(top, at, pos, ptr),
           NEW m, NEW x, Heads(m, x), NEW r, Lands(top, at, ptr, m, x, r),
           NEW nt, NEW na, NEW np, NEW nx, Lifted(top, at, pos, ptr, nt, na, np, nx, m, x, r)
    PROVE  DriftOrder(nt, na, np)'
  <1>1. m \in Mezz /\ x \in Nat /\ sent[m] = 3 * x
    BY DEF Heads
  <1>2. r \in Nat /\ r <= top /\ top \in Nat /\ nt \in Nat /\ (\A p \in Nat : at[p] \in Nat)
    BY Ghosts DEF Drift, Lifted, Lands
  <1>3. na[r] = x /\ nt = IF r = top THEN top + 1 ELSE top
    BY DEF Lifted
  <1>4. \A p \in Nat : p < top => na[p] = at[p]
    BY HeadJoined
  <1>5. /\ \A p \in Nat : p < top /\ Together(na, np, p)' => Together(at, pos, p)
        /\ r = top => (Together(na, np, r)' <=> \A c \in Mezz : c # m => ~(sent[c] > 3 * x))
    BY HeadTogether
  <1> SUFFICES ASSUME NEW i \in 0 .. nt - 1, NEW j \in 0 .. i - 1, Together(na, np, i)'
               PROVE  na[j] < na[i]
    BY DEF DriftOrder
  <1>6. i \in Nat /\ j \in Nat /\ j < i /\ i < nt /\ j < top /\ na[j] = at[j] /\ at[j] \in Nat
    <2>1. i \in Nat /\ j \in Nat /\ j < i /\ i < nt
      BY <1>2
    <2>2. j < top
      BY <1>2, <1>3, <2>1
    <2> QED BY <1>2, <1>4, <2>1, <2>2
  <1>7. CASE i < top
    <2>1. i \in 0 .. top - 1 /\ na[i] = at[i] /\ Together(at, pos, i)
      BY <1>2, <1>4, <1>5, <1>6, <1>7
    <2>2. at[j] < at[i]
      BY <2>1 DEF Drift, DriftOrder
    <2> QED BY <1>6, <2>1, <2>2
  <1>8. CASE ~(i < top)
    <2>1. i = r /\ r = top /\ j \in 0 .. top - 1
      BY <1>2, <1>3, <1>6, <1>8
    <2>2. PICK c \in Mezz : Begun(c, at[j])
      BY <2>1 DEF Drift, DriftPlaces, Joined
    <2>3. sent[c] \in Nat /\ sent[c] > 3 * at[j]
      BY <2>2, AllSizes DEF Begun
    <2>4. ~(at[j] >= x)
      <3> SUFFICES ASSUME at[j] >= x PROVE FALSE
        OBVIOUS
      <3>1. sent[c] > 3 * x
        BY <1>1, <1>6, <2>3
      <3>2. c = m
        BY <1>5, <2>1, <3>1
      <3> QED BY <1>1, <3>1, <3>2
    <2> QED BY <1>1, <1>3, <1>6, <2>1, <2>4
  <1> QED BY <1>7, <1>8

\* A card that was with an event that is together comes to the next one where it is, if it is.
LEMMA NextFound ==
    ASSUME AllTypes, NEW top, NEW at, NEW pos, NEW ptr, Drift(top, at, pos, ptr),
           NEW m, NEW x, Heads(m, x), NEW r, Lands(top, at, ptr, m, x, r),
           NEW p \in 0 .. top - 1, at[p] + 1 = x, Together(at, pos, p),
           NEW q \in p + 1 .. top - 1, at[q] = x, Together(at, pos, q)
    PROVE  q = r
  <1>1. m \in Mezz /\ x \in Nat /\ sent[m] = 3 * x
    BY DEF Heads
  <1>2. /\ r \in Nat /\ (r < top => at[r] = x) /\ \A s \in ptr[m] .. top - 1 : at[s] = x => r <= s
    BY DEF Lands
  <1>3. top \in Nat /\ ptr[m] \in Nat /\ p \in Nat /\ q \in Nat /\ q < top /\ p + 1 <= q /\ at[p] \in Nat
    BY <1>1, Ghosts DEF Drift
  <1>4. Begun(m, at[p]) /\ pos[m][at[p]] = p
    <2>1. sent[m] > 3 * at[p]
      BY <1>1, <1>3
    <2> QED BY <1>1, <2>1 DEF Together, Joined
  <1>5. PICK f \in Nat : LastBegun(m, f, pos, ptr)
    BY <1>1, <1>3, <1>4 DEF Drift, DriftPointers
  <1>6. f = at[p]
    <2>1. ~(at[p] > f)
      BY <1>3, <1>4, <1>5 DEF LastBegun
    <2>2. 3 * x > 3 * f
      BY <1>1, <1>5 DEF LastBegun, Begun
    <2> QED BY <1>1, <1>3, <2>1, <2>2
  <1>7. ptr[m] <= p + 1
    <2>1. ptr[m] = p \/ ptr[m] = p + 1
      BY <1>4, <1>5, <1>6 DEF LastBegun
    <2> QED BY <1>3, <2>1
  <1>8. r <= q
    <2>1. q \in ptr[m] .. top - 1
      BY <1>3, <1>7
    <2> QED BY <1>2, <2>1
  <1>9. ~(r < q)
    <2> SUFFICES ASSUME r < q PROVE FALSE
      OBVIOUS
    <2>1. r \in 0 .. q - 1 /\ q \in 0 .. top - 1 /\ at[r] = x
      BY <1>2, <1>3
    <2>2. at[r] < at[q]
      BY <2>1 DEF Drift, DriftOrder
    <2> QED BY <1>1, <2>1, <2>2
  <1> QED BY <1>2, <1>3, <1>8, <1>9

LEMMA HeadFollows ==
    ASSUME AllTypes, AllTypes', NEW top, NEW at, NEW pos, NEW ptr, Drift(top, at, pos, ptr),
           NEW m, NEW x, Heads(m, x), NEW r, Lands(top, at, ptr, m, x, r),
           NEW nt, NEW na, NEW np, NEW nx, Lifted(top, at, pos, ptr, nt, na, np, nx, m, x, r)
    PROVE  DriftFollows(nt, na, np)'
  <1>1. /\ m \in Mezz /\ x \in Nat /\ sent[m] = 3 * x /\ sent'[m] = sent[m] + 1 /\ lost' = lost
        /\ \A c \in Mezz : c # m => sent'[c] = sent[c]
    BY DEF Heads
  <1>2. r \in Nat /\ r <= top /\ (r < top => at[r] = x)
    BY DEF Lands
  <1>3. top \in Nat /\ nt \in Nat /\ (\A p \in Nat : at[p] \in Nat)
    BY Ghosts DEF Drift, Lifted
  <1>4. na[r] = x /\ nt = IF r = top THEN top + 1 ELSE top
    BY DEF Lifted
  <1>5. \A p \in Nat : p < top => na[p] = at[p]
    BY HeadJoined
  <1>6. /\ \A p \in Nat : p < top /\ Together(na, np, p)' => Together(at, pos, p)
        /\ \A p \in Nat : p < top /\ (at[p] # x \/ p = r) /\ Together(at, pos, p) => Together(na, np, p)'
        /\ r = top => (Together(na, np, r)' <=> \A c \in Mezz : c # m => ~(sent[c] > 3 * x))
    BY HeadTogether
  <1>7. \A c \in Mezz : sent[c] \in Nat /\ sent'[c] \in Nat
    BY Sizes DEF AllTypes
  <1> SUFFICES ASSUME NEW p \in 0 .. nt - 1, Together(na, np, p)', \A w \in lost : w.event # na[p] + 1
               PROVE  \/ \A c \in Mezz : sent'[c] <= 3 * (na[p] + 1)
                      \/ \E q \in p + 1 .. nt - 1 : na[q] = na[p] + 1 /\ Together(na, np, q)'
    BY <1>1 DEF DriftFollows
  <1>8. CASE p < top
    <2>1. p \in Nat /\ p \in 0 .. top - 1 /\ na[p] = at[p] /\ at[p] \in Nat
      BY <1>3, <1>5, <1>8
    <2>2. Together(at, pos, p)
      BY <1>6, <1>8, <2>1
    <2> DEFINE y == at[p] + 1
    <2>3. \/ \A c \in Mezz : sent[c] <= 3 * y
          \/ \E q \in p + 1 .. top - 1 : at[q] = y /\ Together(at, pos, q)
      BY <2>1, <2>2 DEF Drift, DriftFollows
    <2>4. y \in Nat /\ y = na[p] + 1
      BY <2>1
    <2> HIDE DEF y
    <2>5. ASSUME \A c \in Mezz : sent[c] <= 3 * y, y # x
          PROVE  \A c \in Mezz : sent'[c] <= 3 * y
      <3>1. 3 * x + 1 <= 3 * y
        <4>1. 3 * x <= 3 * y
          BY <1>1, <2>5
        <4> QED BY <1>1, <2>4, <2>5, <4>1
      <3> QED BY <1>1, <2>5, <3>1
    <2>6. ASSUME \A c \in Mezz : sent[c] <= 3 * y, y = x
          PROVE  \E q \in p + 1 .. nt - 1 : na[q] = y /\ Together(na, np, q)'
      <3>1. r = top
        <4> SUFFICES ASSUME r < top PROVE FALSE
          BY <1>2, <1>3
        <4>1. r \in 0 .. top - 1 /\ at[r] = x
          BY <1>2, <1>3
        <4>2. PICK c \in Mezz : Begun(c, x)
          BY <4>1 DEF Drift, DriftPlaces, Joined
        <4>3. sent[c] \in Nat /\ sent[c] > 3 * x /\ sent[c] <= 3 * x
          BY <1>7, <2>6, <4>2 DEF Begun
        <4> QED BY <1>1, <4>3
      <3>2. \A c \in Mezz : ~(sent[c] > 3 * x)
        BY <1>1, <1>7, <2>6
      <3>3. Together(na, np, r)'
        BY <1>6, <3>1, <3>2
      <3>4. r \in p + 1 .. nt - 1
        BY <1>3, <1>4, <1>8, <2>1, <3>1
      <3> QED BY <1>4, <2>6, <3>3, <3>4
    <2>7. ASSUME NEW q \in p + 1 .. top - 1, at[q] = y, Together(at, pos, q)
          PROVE  \E s \in p + 1 .. nt - 1 : na[s] = y /\ Together(na, np, s)'
      <3>1. q \in Nat /\ q < top /\ q \in p + 1 .. nt - 1
        BY <1>2, <1>3, <1>4, <2>1
      <3>2. na[q] = y
        BY <1>5, <2>7, <3>1
      <3>3. y = x => q = r
        <4> SUFFICES ASSUME y = x PROVE q = r
          OBVIOUS
        <4>1. at[p] + 1 = x /\ at[q] = x
          BY <2>7 DEF y
        <4> QED BY <2>1, <2>2, <2>7, <4>1, NextFound
      <3>4. Together(na, np, q)'
        BY <1>6, <2>7, <3>1, <3>3
      <3> QED BY <3>1, <3>2, <3>4
    <2> QED BY <2>3, <2>4, <2>5, <2>6, <2>7
  <1>9. CASE ~(p < top)
    <2>1. p = r /\ r = top /\ na[p] = x
      BY <1>2, <1>3, <1>4, <1>9
    <2>2. \A c \in Mezz : c # m => ~(sent[c] > 3 * x)
      BY <1>6, <2>1
    <2>3. ASSUME NEW c \in Mezz PROVE sent'[c] <= 3 * (x + 1)
      <3>1. CASE c = m
        BY <1>1, <3>1
      <3>2. CASE c # m
        <4>1. sent'[c] = sent[c] /\ ~(sent[c] > 3 * x) /\ sent[c] \in Nat
          BY <1>1, <1>7, <2>2, <3>2
        <4> QED BY <1>1, <4>1
      <3> QED BY <3>1, <3>2
    <2> QED BY <2>1, <2>3
  <1> QED BY <1>8, <1>9

LEMMA HeaderDrift ==
    ASSUME AllTypes, AllTypes', KeptInv, MissesOnly, NEW top, NEW at, NEW pos, NEW ptr,
           Drift(top, at, pos, ptr), NEW m \in Mezz, NEW x \in Events, Heads(m, x),
           PlaceHeader(WordOf(m, x, 0))
    PROVE  \E nt, na, np, nx : Drift(nt, na, np, nx)'
  <1> DEFINE w == WordOf(m, x, 0)
             P == Places(m, Evid(x))
             k == CHOOSE p \in P : \A q \in P : p <= q
             s == (evtWRBuf[m] + k) % NSlots
             opened == IF slots[s].bufEmpty THEN Opened(slots[s], Evid(x)) ELSE slots[s]
             noted == [opened EXCEPT !.gotHeader = @ \cup {m}]
             new == Stored(noted, w)
  <1>1. x \in Nat /\ 0 \in 0..2 /\ sent[m] = 3 * x
    BY DEF Events, Heads
  <1>2. w \in Words /\ w.mezz = m /\ w.event = x
    BY <1>1, WordOfFacts
  <1> HIDE DEF w
  <1>3. /\ P # {} /\ evtWRBuf' = [evtWRBuf EXCEPT ![m] = s] /\ slots' = [slots EXCEPT ![s] = new]
        /\ UNCHANGED <<evtRDBuf, built>>
    <2> DEFINE P1 == Places(w.mezz, Evid(w.event))
               k1 == CHOOSE p \in P1 : \A q \in P1 : p <= q
               s1 == (evtWRBuf[w.mezz] + k1) % NSlots
               opened1 == IF slots[s1].bufEmpty THEN Opened(slots[s1], Evid(w.event)) ELSE slots[s1]
               noted1 == [opened1 EXCEPT !.gotHeader = @ \cup {w.mezz}]
               new1 == Stored(noted1, w)
    <2>1. /\ P1 # {} /\ evtWRBuf' = [evtWRBuf EXCEPT ![w.mezz] = s1]
          /\ slots' = [slots EXCEPT ![s1] = new1]
          /\ previousData' = [previousData EXCEPT ![w.mezz] = w]
          /\ UNCHANGED <<evtRDBuf, built, DAQState>>
      <3>1. PlaceHeader(w)
        BY DEF w
      <3> QED BY <3>1 DEF PlaceHeader
    <2>2. P1 = P /\ s1 = s /\ new1 = new
      BY <1>2
    <2> HIDE DEF P1, s1, new1, P, s, new
    <2> QED BY <1>2, <2>1, <2>2
  <1>4. k \in P /\ \A q \in P : k <= q
    <2>1. P \in SUBSET Nat
      BY Sizes DEF Places, Slots
    <2> HIDE DEF P
    <2>2. \E p \in P : \A q \in P : p <= q
      BY <1>3, <2>1, LeastNumber
    <2> QED BY <2>2, Zenon
  <1> HIDE DEF k
  <1>5. PICK r : Lands(top, at, ptr, m, x, r) /\ s = r % NSlots
    BY <1>1, <1>4, HeaderPlace
  <1> HIDE DEF s, P
  <1>6. /\ r \in Nat /\ Len(built) <= r /\ r < Len(built) + NSlots /\ r <= top
        /\ r < top => at[r] = x
    BY <1>5 DEF Lands
  <1>7. s \in Slots /\ slots[s] \in SlotRecord
    BY <1>5, <1>6, PlaceInRing DEF AllTypes, RingTypes
  <1>8. slots[s].bufEmpty = FALSE => slots[s].bufEVID = Evid(x)
    <2>1. r \in Len(built) .. Len(built) + NSlots - 1 /\ top \in Nat
      BY <1>6, AllSizes, Sizes, Ghosts DEF Drift
    <2>2. IF r < top THEN slots[s].bufEmpty = FALSE /\ slots[s].bufEVID = Evid(at[r])
                     ELSE slots[s].bufEmpty = TRUE
      BY <1>5, <2>1 DEF Drift, DriftRing
    <2> QED BY <1>6, <2>2
  <1>9. opened \in SlotRecord /\ opened.bufEmpty = FALSE /\ opened.bufEVID = Evid(x)
        /\ opened.gotTrailer = slots[s].gotTrailer /\ opened.eventBuf = slots[s].eventBuf
    <2>1. CASE slots[s].bufEmpty
      BY <2>1, <1>1, <1>7, EvidRange, OpenedFields
    <2>2. CASE ~slots[s].bufEmpty
      <3>1. slots[s].bufEmpty = FALSE
        BY <2>2, <1>7 DEF SlotRecord
      <3> QED BY <3>1, <1>7, <1>8
    <2> QED BY <2>1, <2>2
  <1> HIDE DEF opened
  <1>10. noted \in SlotRecord /\ noted.bufEmpty = FALSE /\ noted.bufEVID = Evid(x)
         /\ noted.gotTrailer = slots[s].gotTrailer /\ noted.eventBuf = slots[s].eventBuf
    BY <1>9, HeaderFields
  <1> HIDE DEF noted
  <1>11. new \in SlotRecord /\ new.bufEmpty = FALSE /\ new.bufEVID = Evid(x)
         /\ new.gotTrailer = slots[s].gotTrailer
         /\ new.eventBuf = [slots[s].eventBuf EXCEPT ![m] = Append(@, w)]
    <2>1. noted \in SlotRecord /\ w \in Words /\ w.mezz = m
      BY <1>2, <1>10
    <2>2. /\ new \in SlotRecord /\ new.bufEmpty = noted.bufEmpty /\ new.bufEVID = noted.bufEVID
          /\ new.gotTrailer = noted.gotTrailer
          /\ new.eventBuf = [noted.eventBuf EXCEPT ![m] = Append(@, w)]
      BY ONLY <2>1, m \in Mezz, StoredFields
    <2> QED BY <1>10, <2>2
  <1> HIDE DEF new
  <1>12. Extends(new, slots[r % NSlots], m, x, 0)
    BY <1>5, <1>11 DEF Extends, w
  <1>13. PICK nt, na, np, nx : Lifted(top, at, pos, ptr, nt, na, np, nx, m, x, r)
    BY <1>1, <1>6, Lift DEF Drift
  <1>14. slots' = [slots EXCEPT ![r % NSlots] = new] /\ evtWRBuf' = [evtWRBuf EXCEPT ![m] = r % NSlots]
         /\ built' = built /\ evtRDBuf' = evtRDBuf
    BY <1>3, <1>5
  <1>15. DriftRing(nt, na, np)' /\ DriftBuilt(na, np)'
    BY <1>5, <1>12, <1>13, <1>14, HeadRing
  <1>16. /\ DriftPlaces(nt, na, np)' /\ DriftPointers(nt, np, nx)'
         /\ DriftOpen(nt, na, np)' /\ DriftBase(nt, na)'
    BY <1>5, <1>13, <1>14, HeadPlaces
  <1>17. DriftOrder(nt, na, np)'
    BY <1>5, <1>13, HeadOrder
  <1>18. DriftFollows(nt, na, np)'
    BY <1>5, <1>13, HeadFollows
  <1>19. /\ DriftTypes(nt, na, np, nx) /\ Len(built') <= nt /\ nt <= Len(built') + NSlots
         /\ evtRDBuf' = Len(built') % NSlots
    <2>1. /\ Len(built) \in Nat /\ top \in Nat /\ NSlots \in Nat /\ Len(built) <= top
          /\ top <= Len(built) + NSlots /\ evtRDBuf = Len(built) % NSlots
      BY AllSizes, Sizes, Ghosts DEF Drift
    <2>2. DriftTypes(nt, na, np, nx) /\ nt = IF r = top THEN top + 1 ELSE top
      BY <1>13 DEF Lifted
    <2> QED BY <1>6, <1>14, <2>1, <2>2
  <1>20. Drift(nt, na, np, nx)'
    BY <1>15, <1>16, <1>17, <1>18, <1>19 DEF Drift
  <1> QED BY <1>20

--------------------------------------------------------------------------------
(* Every step, and the theorem. *)

LEMMA DriftRests ==
    ASSUME UNCHANGED vars, NEW top, NEW at, NEW pos, NEW ptr, Drift(top, at, pos, ptr)
    PROVE  Drift(top, at, pos, ptr)'
  <1>1. /\ sent' = sent /\ slots' = slots /\ evtWRBuf' = evtWRBuf /\ evtRDBuf' = evtRDBuf
        /\ built' = built /\ lost' = lost
    BY DEF vars
  <1>2. \A m, x : Begun(m, x)' = Begun(m, x)
    BY <1>1 DEF Begun
  <1>3. \A p : Joined(at, pos, p)' = Joined(at, pos, p) /\ Together(at, pos, p)' = Together(at, pos, p)
    BY <1>1 DEF Joined, Together, Begun
  <1>4. DriftRing(top, at, pos)' /\ DriftBuilt(at, pos)'
    BY <1>1, <1>3 DEF Drift, DriftRing, DriftBuilt
  <1>5. DriftPlaces(top, at, pos)'
    BY <1>1, <1>2, <1>3 DEF Drift, DriftPlaces
  <1>6. DriftPointers(top, pos, ptr)'
    BY <1>1 DEF Drift, DriftPointers, LastBegun, Begun
  <1>7. DriftOrder(top, at, pos)' /\ DriftFollows(top, at, pos)'
    BY <1>1, <1>3 DEF Drift, DriftOrder, DriftFollows
  <1>8. DriftOpen(top, at, pos)' /\ DriftBase(top, at)'
    BY <1>1, <1>3 DEF Drift, DriftOpen, DriftBase
  <1> QED BY <1>1, <1>4, <1>5, <1>6, <1>7, <1>8 DEF Drift, DriftTypes

LEMMA DriftDeliver ==
    ASSUME AllTypes, AllTypes', PastInv, KeptInv, MissesOnly, MissesOnly', NEW m \in Mezz, Deliver(m),
           NEW top, NEW at, NEW pos, NEW ptr, Drift(top, at, pos, ptr)
    PROVE  \E nt, na, np, nx : Drift(nt, na, np, nx)'
  <1>1. PICK x \in Events : \E r \in 0..2 :
             /\ sent[m] = 3 * x + r /\ sent'[m] = sent[m] + 1
             /\ \A c \in Mezz : c # m => sent'[c] = sent[c]
             /\ UNCHANGED <<lost, repeated>>
             /\ Assemble(WordOf(m, x, r)) /\ WordOf(m, x, r) \notin lost
             /\ previousData[m] # WordOf(m, x, r) /\ Elsewhere(m, x)
             /\ r > 0 /\ MissesOnly' => Begun(m, x)
    BY Delivery
  <1>2. PICK r \in 0..2 :
             /\ sent[m] = 3 * x + r /\ sent'[m] = sent[m] + 1
             /\ \A c \in Mezz : c # m => sent'[c] = sent[c]
             /\ UNCHANGED <<lost, repeated>>
             /\ Assemble(WordOf(m, x, r)) /\ WordOf(m, x, r) \notin lost
             /\ previousData[m] # WordOf(m, x, r) /\ Elsewhere(m, x)
             /\ r > 0 /\ MissesOnly' => Begun(m, x)
    BY <1>1
  <1>3. /\ x \in Nat
        /\ r = 0 => WordOf(m, x, r) = Word(m, "header", x) /\ WordOf(m, x, r).kind = "header"
        /\ r = 1 => WordOf(m, x, r).kind = "hit"
        /\ r = 2 => WordOf(m, x, r).kind = "trailer"
    BY WordOfFacts DEF Events
  <1>4. CASE r = 0
    <2>1. Heads(m, x)
      BY <1>2, <1>3, <1>4 DEF Heads
    <2>2. PlaceHeader(WordOf(m, x, 0)) \/ TooManyEvents(WordOf(m, x, 0))
      BY <1>2, <1>3, <1>4, Zenon DEF Assemble
    <2>3. ~TooManyEvents(WordOf(m, x, 0))
      BY DEF TooManyEvents, MissesOnly
    <2>4. PlaceHeader(WordOf(m, x, 0))
      BY <2>2, <2>3
    <2> QED BY <2>1, <2>4, HeaderDrift
  <1>5. CASE r = 1
    <2>1. PlaceHit(WordOf(m, x, 1))
      BY <1>2, <1>3, <1>5 DEF Assemble
    <2>2. /\ sent[m] = 3 * x + 1 /\ Begun(m, x) /\ sent'[m] = sent[m] + 1
          /\ \A c \in Mezz : c # m => sent'[c] = sent[c]
          /\ lost' = lost /\ WordOf(m, x, 1) \notin lost /\ Elsewhere(m, x)
      BY <1>2, <1>5
    <2>3. \E nx : Drift(top, at, pos, nx)'
      BY <2>1, <2>2, HitDrift
    <2> QED BY <2>3
  <1>6. CASE r = 2
    <2>1. PlaceTrailer(WordOf(m, x, 2))
      BY <1>2, <1>3, <1>6 DEF Assemble
    <2>2. Arrives(m, x, 2) /\ previousData[m] # WordOf(m, x, 2)
      BY <1>2, <1>3, <1>6 DEF Arrives
    <2>3. \E nx : Drift(top, at, pos, nx)'
      BY <2>1, <2>2, TrailerDrift
    <2> QED BY <2>3
  <1> QED BY <1>4, <1>5, <1>6

LEMMA DriftNext ==
    ASSUME AllTypes, AllTypes', PastInv, KeptInv, DriftInv, [Next]_vars
    PROVE  DriftInv'
  <1> SUFFICES ASSUME MissesOnly' PROVE \E nt, na, np, nx : Drift(nt, na, np, nx)'
    BY DEF DriftInv
  <1>1. MissesOnly
    BY MissesBefore
  <1>2. PICK top, at, pos, ptr : Drift(top, at, pos, ptr)
    BY <1>1 DEF DriftInv
  <1>3. CASE UNCHANGED vars
    <2>1. Drift(top, at, pos, ptr)'
      BY <1>2, <1>3, DriftRests
    <2> QED BY <2>1
  <1>4. ASSUME NEW m \in Mezz, Deliver(m)
        PROVE  \E nt, na, np, nx : Drift(nt, na, np, nx)'
    BY <1>1, <1>2, <1>4, DriftDeliver
  <1>5. ASSUME NEW m \in Mezz, LoseWord(m) \/ LoseFragment(m)
        PROVE  \E nt, na, np, nx : Drift(nt, na, np, nx)'
    <2>1. PICK n \in {1, 3} : Skip(m, n) /\ (n = 3 => sent[m] % 3 = 0)
      BY <1>5 DEF LoseWord, LoseFragment
    <2>2. Drift(top, at, pos, ptr)'
      BY <1>1, <1>2, <2>1, SkipDrift
    <2> QED BY <2>2
  <1>6. ASSUME NEW m \in Mezz, RepeatTrailer(m) PROVE FALSE
    BY <1>6 DEF RepeatTrailer, MissesOnly
  <1> QED BY <1>3, <1>4, <1>5, <1>6 DEF Next

LEMMA DriftInit == ASSUME AllTypes, Init PROVE DriftInv
  <1> DEFINE at == [p \in Nat |-> 0]
             pos == [m \in Mezz |-> [x \in Nat |-> 0]]
             ptr == [m \in Mezz |-> 0]
  <1>1. /\ NSlots \in Nat \ {0} /\ Len(built) = 0 /\ evtRDBuf = 0 /\ lost = {} /\ built = <<>>
        /\ \A m \in Mezz : sent[m] = 0 /\ evtWRBuf[m] = 0
        /\ \A s \in Slots : slots[s] = EmptySlot
    BY Sizes DEF Init
  <1>2. 0 % NSlots = 0
    BY <1>1
  <1>3. DriftTypes(0, at, pos, ptr)
    BY DEF DriftTypes
  <1>4. \A m \in Mezz : \A x \in Nat : ~Begun(m, x)
    BY <1>1 DEF Begun
  <1>5. \A p \in Nat : at[p] = 0 /\ Joined(at, pos, p) = {}
    BY <1>4 DEF Joined
  <1>6. DriftRing(0, at, pos)
    <2> SUFFICES ASSUME NEW p \in Len(built) .. Len(built) + NSlots - 1
                 PROVE  /\ Content(slots[p % NSlots], at[p], Joined(at, pos, p), sent, lost)
                        /\ IF p < 0 THEN /\ slots[p % NSlots].bufEmpty = FALSE
                                         /\ slots[p % NSlots].bufEVID = Evid(at[p])
                                    ELSE slots[p % NSlots].bufEmpty = TRUE
      BY DEF DriftRing
    <2>1. p \in Nat /\ ~(p < 0)
      BY <1>1
    <2>2. slots[p % NSlots] = EmptySlot
      BY <1>1, <2>1, PlaceInRing
    <2>3. Content(EmptySlot, at[p], {}, sent, lost)
      BY DEF Content, EmptySlot, NoWords
    <2>4. EmptySlot.bufEmpty = TRUE
      BY DEF EmptySlot
    <2> HIDE DEF at, pos, ptr
    <2>5. Joined(at, pos, p) = {}
      BY <1>5, <2>1
    <2> QED BY <2>1, <2>2, <2>3, <2>4, <2>5
  <1>7. DriftPointers(0, pos, ptr)
    BY <1>1, <1>2, <1>4 DEF DriftPointers
  <1> HIDE DEF at, pos, ptr
  <1>8. DriftBuilt(at, pos) /\ DriftPlaces(0, at, pos)
    BY <1>1, <1>4 DEF DriftBuilt, DriftPlaces
  <1>9. DriftOrder(0, at, pos) /\ DriftFollows(0, at, pos) /\ DriftOpen(0, at, pos)
    BY <1>1 DEF DriftOrder, DriftFollows, DriftOpen
  <1>10. DriftBase(0, at)
    BY <1>1 DEF DriftBase
  <1>11. Drift(0, at, pos, ptr)
    BY <1>1, <1>2, <1>3, <1>6, <1>7, <1>8, <1>9, <1>10 DEF Drift
  <1> QED BY <1>11 DEF DriftInv

\* An event built whole was at a place of its own, which every card had joined.
LEMMA BuiltTogether ==
    ASSUME AllTypes, NEW top, NEW at, NEW pos, NEW ptr, Drift(top, at, pos, ptr),
           NEW k \in 1..Len(built), NEW e \in Nat, WholeEvent(built[k], e)
    PROVE  /\ k - 1 \in 0 .. top - 1 /\ at[k - 1] = e /\ Together(at, pos, k - 1)
           /\ \E m \in Mezz : m \in Joined(at, pos, k - 1)
  <1> DEFINE p == k - 1
  <1>1. Len(built) \in Nat /\ top \in Nat /\ Len(built) <= top /\ \A q \in Nat : at[q] \in Nat
    BY AllSizes, Ghosts DEF Drift
  <1>2. p \in Nat /\ p \in 0 .. Len(built) - 1 /\ p \in 0 .. top - 1 /\ p + 1 = k
    BY <1>1
  <1> HIDE DEF p
  <1>3. ASSUME NEW m \in Mezz
        PROVE  m \in Joined(at, pos, p) /\ at[p] = e
    <2>1. /\ sent[m] >= 3 * at[p] + 3
          /\ built[k].words[m] = IF m \in Joined(at, pos, p) THEN Kept(m, at[p], lost) ELSE <<>>
      BY <1>2 DEF Drift, DriftBuilt
    <2>2. built[k].words[m] = Fragment(m, e) /\ Fragment(m, e) # <<>>
          /\ Fragment(m, e)[1] = Word(m, "header", e)
      BY DEF WholeEvent, Fragment
    <2>3. m \in Joined(at, pos, p)
      BY <2>1, <2>2
    <2>4. at[p] \in Nat /\ sent[m] \in Nat /\ Begun(m, at[p])
      BY <1>1, <1>2, <2>3, AllSizes DEF Joined
    <2>5. sent[m] > 3 * at[p] /\ Word(m, "header", at[p]) \notin lost
      BY <2>4 DEF Begun
    <2>6. Left(m, at[p], sent[m], lost)[1] = Word(m, "header", at[p])
      BY <2>4, <2>5, LeftHeader
    <2>7. Left(m, at[p], sent[m], lost) = Kept(m, at[p], lost)
      BY <2>1, <2>4 DEF Left
    <2>8. Word(m, "header", at[p]) = Word(m, "header", e)
      BY <2>1, <2>2, <2>3, <2>6, <2>7
    <2> QED BY <2>3, <2>8, WordsDiffer
  <1>4. PICK m \in Mezz : m \in Joined(at, pos, p)
    BY <1>2 DEF Drift, DriftPlaces, Joined
  <1>5. Together(at, pos, p)
    BY <1>3 DEF Together
  <1>6. p \in 0 .. top - 1 /\ at[p] = e /\ Together(at, pos, p) /\ \E c \in Mezz : c \in Joined(at, pos, p)
    BY <1>2, <1>3, <1>4, <1>5
  <1> QED BY <1>6 DEF p

\* What has come together and is complete has been built whole.
LEMMA TogetherBuilt ==
    ASSUME AllTypes, NEW top, NEW at, NEW pos, NEW ptr, Drift(top, at, pos, ptr),
           NEW r \in 0 .. top - 1, NEW e \in Nat, at[r] = e, Together(at, pos, r),
           \A w \in lost : w.event # e, \A m \in Mezz : sent[m] >= 3 * e + 3
    PROVE  IsBuilt(e)
  <1>1. Len(built) \in Nat /\ top \in Nat
    BY AllSizes, Ghosts DEF Drift
  <1>2. \A m \in Mezz : \A k : Word(m, k, e) \notin lost
    BY DEF Word
  <1>3. \A m \in Mezz : m \in Joined(at, pos, r) /\ Ended(m, at[r], sent[m], lost)
    <2> TAKE m \in Mezz
    <2>1. sent[m] \in Nat /\ sent[m] > 3 * e /\ sent[m] >= 3 * e + 3
      BY AllSizes
    <2> QED BY <1>2, <2>1 DEF Together, Ended
  <1>4. r \in 0 .. Len(built) - 1
    <2>1. ~(r \in Len(built) .. top - 1)
      BY <1>3 DEF Drift, DriftOpen
    <2> QED BY <1>1, <2>1
  <1>5. built[r + 1].evid = Evid(e)
    BY <1>4 DEF Drift, DriftBuilt
  <1>6. ASSUME NEW m \in Mezz PROVE built[r + 1].words[m] = Fragment(m, e)
    <2>1. built[r + 1].words[m] = Kept(m, e, lost)
      BY <1>3, <1>4 DEF Drift, DriftBuilt
    <2>2. Kept(m, e, lost) = Append(Append(Append(<<>>, Word(m, "header", e)), Word(m, "hit", e)),
                                    Word(m, "trailer", e))
      BY <1>2 DEF Kept, Behind
    <2> DEFINE S == {Word(m, "header", e), Word(m, "hit", e), Word(m, "trailer", e)}
    <2>3. Append(Append(Append(<<>>, Word(m, "header", e)), Word(m, "hit", e)), Word(m, "trailer", e))
            = <<Word(m, "header", e), Word(m, "hit", e), Word(m, "trailer", e)>>
      <3>1. Word(m, "header", e) \in S /\ Word(m, "hit", e) \in S /\ Word(m, "trailer", e) \in S
        OBVIOUS
      <3> HIDE DEF S
      <3>2. /\ Append(<<>>, Word(m, "header", e)) = <<Word(m, "header", e)>>
            /\ Append(<<Word(m, "header", e)>>, Word(m, "hit", e))
                 = <<Word(m, "header", e), Word(m, "hit", e)>>
            /\ Append(<<Word(m, "header", e), Word(m, "hit", e)>>, Word(m, "trailer", e))
                 = <<Word(m, "header", e), Word(m, "hit", e), Word(m, "trailer", e)>>
        BY <3>1, AppendShort
      <3> QED BY <3>2
    <2> QED BY <2>1, <2>2, <2>3 DEF Fragment
  <1>7. WholeEvent(built[r + 1], e) /\ r + 1 \in 1..Len(built)
    BY <1>1, <1>4, <1>5, <1>6 DEF WholeEvent
  <1> QED BY <1>7 DEF IsBuilt

LEMMA DriftHeals == ASSUME AllTypes, DriftInv PROVE HealsAfterMiss
  <1> SUFFICES ASSUME MissesOnly, NEW e \in Events \ {0}, IsBuilt(e - 1), \A w \in lost : w.event # e,
                      \A m \in Mezz : Done(m) > e
               PROVE  IsBuilt(e)
    BY DEF HealsAfterMiss, MissesOnly
  <1>1. e \in Nat /\ e - 1 \in Nat /\ e - 1 + 1 = e
    BY DEF Events
  <1>2. \A m \in Mezz : sent[m] \in Nat /\ sent[m] >= 3 * e + 3
    <2> TAKE m \in Mezz
    <2>1. sent[m] \in Nat /\ sent[m] \div 3 > e
      BY AllSizes DEF Done
    <2> QED BY <1>1, <2>1
  <1>3. PICK top, at, pos, ptr : Drift(top, at, pos, ptr)
    BY DEF DriftInv
  <1>4. PICK k \in 1..Len(built) : WholeEvent(built[k], e - 1)
    BY DEF IsBuilt
  <1> DEFINE p == k - 1
  <1>5. /\ p \in 0 .. top - 1 /\ at[p] = e - 1 /\ Together(at, pos, p)
        /\ \E m \in Mezz : m \in Joined(at, pos, p)
    BY <1>1, <1>3, <1>4, BuiltTogether
  <1> HIDE DEF p
  <1>6. at[p] + 1 = e
    BY <1>1, <1>5
  <1>7. \/ \A m \in Mezz : sent[m] <= 3 * e
        \/ \E r \in p + 1 .. top - 1 : at[r] = e /\ Together(at, pos, r)
    BY <1>3, <1>5, <1>6 DEF Drift, DriftFollows
  <1>8. PICK m \in Mezz : sent[m] \in Nat /\ sent[m] >= 3 * e + 3
    BY <1>2, <1>5
  <1>9. ~(sent[m] <= 3 * e)
    BY <1>1, <1>8
  <1>10. PICK r \in p + 1 .. top - 1 : at[r] = e /\ Together(at, pos, r)
    BY <1>7, <1>9
  <1>11. r \in 0 .. top - 1
    BY <1>5, <1>10
  <1> QED BY <1>1, <1>2, <1>3, <1>10, <1>11, TogetherBuilt

\* When cards miss triggers, whatever their number and that of the slots, an event of which
\* nothing is lost is built whole if the one before it was.
THEOREM MissesHeal == Spec => []HealsAfterMiss
  <1>1. Init /\ AllTypes => KeptInv /\ DriftInv
    BY KeptInit, DriftInit
  <1>2. AllTypes /\ AllTypes' /\ PastInv /\ KeptInv /\ DriftInv /\ [Next]_vars => KeptInv' /\ DriftInv'
    BY KeptNext, DriftNext
  <1>3. AllTypes /\ DriftInv => HealsAfterMiss
    BY DriftHeals
  <1> QED BY <1>1, <1>2, <1>3, WordsInductive, PTL DEF Spec
================================================================================
