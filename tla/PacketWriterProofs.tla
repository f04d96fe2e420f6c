--------------------------- MODULE PacketWriterProofs ---------------------------
(***************************************************************************)
(* dataBuf never overflows, for every size of dataBuf, every event size    *)
(* and every file limit.  The room test of EmitEvent looks at dataBuf as   *)
(* it was before the event; what makes it enough is that a kept event fits *)
(* into an empty dataBuf (KeptFits), so that a flush always makes room.    *)
(*                                                                         *)
(* The file has no hole: FileInOrder is inductive once the types of file,  *)
(* dataBuf and evtNumber are known.                                        *)
(***************************************************************************)
EXTENDS PacketWriter, TotalsProofs, TLAPS

\* The part of the state that the room test depends on.
BufferInv ==
    /\ nDataWords \in Nat
    /\ nPackedEvt \in Nat
    /\ evtNumber \in Nat
    /\ PacketFits

\* What is kept of an event fits into an empty dataBuf, with the header.
LEMMA KeptFits ==
    ASSUME NEW n \in Nat
    PROVE  Kept(n) \in Nat /\ HeaderWords + Kept(n) + 1 <= MAXEVTRECORD
  BY RecordAssumption DEF Kept, HeaderWords, RecordAssumption

\* Packing one more event keeps dataBuf within its bounds, flushed first or not.
LEMMA EmitEventFits ==
    ASSUME BufferInv, NEW n \in Sizes, EmitEvent(n)
    PROVE  BufferInv'
<1> DEFINE k == Kept(n)
<1>1. k \in Nat /\ HeaderWords + k + 1 <= MAXEVTRECORD
  BY KeptFits, SizesAssumption DEF SizesAssumption
<1>2. evtNumber' \in Nat
  BY DEF EmitEvent, BufferInv
<1> HIDE DEF k
<1>3. CASE UNCHANGED buf
  BY <1>2, <1>3 DEF BufferInv, PacketFits, buf
<1>4. CASE nPackedEvt' = nPackedEvt + 1 /\ nDataWords' = nDataWords + k + 1 /\ ~Full(k)
  BY <1>1, <1>2, <1>4, RecordAssumption
     DEF BufferInv, PacketFits, Full, HeaderWords, RecordAssumption
<1>5. CASE nPackedEvt' = 1 /\ nDataWords' = k + 1
  BY <1>1, <1>2, <1>5, RecordAssumption DEF BufferInv, PacketFits, HeaderWords, RecordAssumption
<1> QED
  BY <1>3, <1>4, <1>5 DEF EmitEvent, k

\* dataBuf never overflows: DataAssembling never packs a word at or beyond
\* dataBuf[MAXEVTRECORD], in any run and over any number of runs.
THEOREM DataBufNeverOverflows == Spec => []PacketFits
<1>1. Init => BufferInv
  BY RecordAssumption DEF Init, BufferInv, PacketFits, HeaderWords, RecordAssumption
<1>2. BufferInv /\ [Next]_vars => BufferInv'
  <2> SUFFICES ASSUME BufferInv, [Next]_vars
               PROVE  BufferInv'
    OBVIOUS
  <2>1. CASE Start
    BY <2>1, RecordAssumption DEF Start, BufferInv, PacketFits, HeaderWords, RecordAssumption
  <2>2. CASE EndOfCollecting
    BY <2>2 DEF EndOfCollecting, BufferInv, PacketFits, buf
  <2>3. ASSUME NEW n \in Sizes, EmitEvent(n)
        PROVE  BufferInv'
    BY <2>3, EmitEventFits
  <2>4. CASE UNCHANGED vars
    BY <2>4 DEF BufferInv, PacketFits, vars, buf
  <2> QED
    BY <2>1, <2>2, <2>3, <2>4 DEF Next
<1>3. BufferInv => PacketFits
  BY DEF BufferInv
<1> QED
  BY <1>1, <1>2, <1>3, PTL DEF Spec

--------------------------------------------------------------------------------
(* The file. *)

\* FileInOrder and the types it needs.
FileInv ==
    /\ file \in Seq(Packet)
    /\ dataBuf \in Seq(EventRecord)
    /\ evtNumber \in Nat
    /\ nDataWords \in Nat
    /\ nPackedEvt \in Nat
    /\ saveRunCondition \in Nat
    /\ FileInOrder

\* One more event in number keeps a sequence of events consecutive.
LEMMA AppendConsecutive ==
    ASSUME NEW q \in Seq(EventRecord), NEW first \in Nat, NEW e \in EventRecord,
           Consecutive(q, first), e.evt = first + Len(q)
    PROVE  /\ Append(q, e) \in Seq(EventRecord)
           /\ Len(Append(q, e)) = Len(q) + 1
           /\ Consecutive(Append(q, e), first)
<1>1. Append(q, e) \in Seq(EventRecord) /\ Len(Append(q, e)) = Len(q) + 1
  OBVIOUS
<1>2. Len(q) \in Nat
  OBVIOUS
<1>3. ASSUME NEW k \in 1..Len(Append(q, e))
      PROVE  Append(q, e)[k].evt = first + k - 1
  <2>1. CASE k = Len(q) + 1
    <3>1. Append(q, e)[k] = e
      BY <2>1
    <3> QED
      BY <2>1, <3>1, <1>2
  <2>2. CASE k \in 1..Len(q)
    <3>1. Append(q, e)[k] = q[k]
      BY <2>2
    <3> QED
      BY <2>2, <3>1 DEF Consecutive
  <2> QED
    BY <1>1, <1>2, <2>1, <2>2
<1> QED
  BY <1>1, <1>3 DEF Consecutive

\* The event that is packed next is in number.
LEMMA NewEvent ==
    ASSUME FileInv, NEW n \in Nat
    PROVE  [evt |-> evtNumber, nwords |-> Kept(n)] \in EventRecord
  BY KeptFits DEF FileInv, EventRecord

\* The number of the next event is a number, after any packet of the file.
LEMMA NextEventType ==
    ASSUME NEW q \in Seq(Packet), NEW i \in 1..Len(q)
    PROVE  q[i].evtNumber \in Nat
<1>1. q[i] \in Packet
  OBVIOUS
<1> QED
  BY <1>1 DEF Packet

\* With room in dataBuf the file keeps its packets, and dataBuf goes on from them.
LEMMA PackInOrder ==
    ASSUME FileInv, NEW n \in Nat, evtNumber' = evtNumber + 1, CSMDataFile = "open",
           dataBuf' = Append(dataBuf, [evt |-> evtNumber, nwords |-> Kept(n)]),
           nPackedEvt' = nPackedEvt + 1, nDataWords' = nDataWords + Kept(n) + 1,
           UNCHANGED out
    PROVE  FileInv'
<1> DEFINE e == [evt |-> evtNumber, nwords |-> Kept(n)]
           first == NextEvent(Len(file))
<1>1. e \in EventRecord /\ e.evt = evtNumber
  BY NewEvent
<1>2. first \in Nat
  <2>1. CASE file = <<>>
    BY <2>1 DEF NextEvent
  <2>2. CASE file # <<>>
    <3>1. file \in Seq(Packet) /\ Len(file) \in 1..Len(file)
      BY <2>2 DEF FileInv
    <3>2. file[Len(file)].evtNumber \in Nat
      BY <3>1, NextEventType
    <3> QED
      BY <3>2 DEF NextEvent
  <2> QED
    BY <2>1, <2>2
<1>3. Consecutive(dataBuf, first) /\ evtNumber = first + Len(dataBuf)
  BY DEF FileInv, FileInOrder
<1>4. dataBuf' \in Seq(EventRecord) /\ Len(dataBuf') = Len(dataBuf) + 1 /\ Consecutive(dataBuf', first)
  <2>1. dataBuf' = Append(dataBuf, e)
    OBVIOUS
  <2>2. dataBuf \in Seq(EventRecord)
    BY DEF FileInv
  <2> HIDE DEF e, first
  <2>3. e.evt = first + Len(dataBuf)
    BY <1>1, <1>3
  <2>4. Consecutive(Append(dataBuf, e), first)
    BY <1>1, <1>2, <1>3, <2>2, <2>3, AppendConsecutive
  <2> QED
    BY <1>1, <1>2, <1>3, <2>1, <2>2, <2>3, <2>4, AppendConsecutive
<1>5. file' = file /\ CSMDataFile' = CSMDataFile /\ saveRunCondition' = saveRunCondition
  BY DEF out
<1>6. nDataWords' \in Nat /\ nPackedEvt' \in Nat /\ evtNumber' \in Nat
  <2>1. Kept(n) \in Nat
    BY KeptFits
  <2> QED
    BY <2>1 DEF FileInv
<1>7. evtNumber' = first + Len(dataBuf')
  <2>1. evtNumber \in Nat /\ Len(dataBuf) \in Nat
    BY DEF FileInv
  <2> HIDE DEF first
  <2> QED
    BY <2>1, <1>2, <1>3, <1>4
<1>8. FileInOrder'
  BY <1>4, <1>5, <1>7 DEF FileInv, FileInOrder, NextEvent, Consecutive
<1> QED
  BY <1>4, <1>5, <1>6, <1>8 DEF FileInv

\* When nothing is written and the file is closed, or stays so, what it holds stays good.
LEMMA ClosedInOrder ==
    ASSUME FileInv, CSMDataFile' = "NULL", file' = file
    PROVE  FileInOrder'
  BY DEF FileInv, FileInOrder, NextEvent, Consecutive

\* Appending to the file, where it is read: the old packets stay, the new one is last.
LEMMA AppendPacket ==
    ASSUME NEW q \in Seq(Packet), NEW p \in Packet
    PROVE  /\ Append(q, p) \in Seq(Packet)
           /\ Len(Append(q, p)) = Len(q) + 1
           /\ Append(q, p)[Len(q) + 1] = p
           /\ \A i \in 1..Len(q) : Append(q, p)[i] = q[i]
  OBVIOUS

\* dataBuf goes to the file as its next packet, and the new event starts dataBuf again.
LEMMA WriteInOrder ==
    ASSUME FileInv, NEW n \in Nat, evtNumber' = evtNumber + 1, CSMDataFile = "open",
           file' = Append(file, ThePacket),
           dataBuf' = <<[evt |-> evtNumber, nwords |-> Kept(n)]>>
    PROVE  file' \in Seq(Packet) /\ FileInOrder'
<1> DEFINE p == ThePacket
<1>0. PICK last \in Nat : last = Len(file)
  BY DEF FileInv
<1>1. p \in Packet /\ p.evtNumber = evtNumber /\ p.events = dataBuf
  <2>1. saveRunCondition + 1 \in Nat
    BY DEF FileInv
  <2>2. Condition(saveRunCondition + 1) \in 0..5
    BY <2>1 DEF Condition
  <2> QED
    BY <2>2 DEF ThePacket, Packet, FileInv
<1>2. file \in Seq(Packet) /\ evtNumber \in Nat
  BY DEF FileInv
<1>3. Consecutive(dataBuf, NextEvent(last)) /\ evtNumber = NextEvent(last) + Len(dataBuf)
  BY <1>0 DEF FileInv, FileInOrder
<1> HIDE DEF p
<1>4. /\ file' \in Seq(Packet) /\ Len(file') = last + 1 /\ file'[last + 1] = p
      /\ \A i \in 1..last : file'[i] = file[i]
  BY <1>0, <1>1, <1>2, AppendPacket DEF p
<1>5. \A i \in 0..last : NextEvent(i)' = NextEvent(i)
  BY <1>2, <1>4 DEF NextEvent
<1>6. NextEvent(last + 1)' = evtNumber
  BY <1>1, <1>2, <1>4 DEF NextEvent
<1>7. ASSUME NEW i \in 1..Len(file')
      PROVE  /\ Consecutive(file'[i].events, NextEvent(i - 1)')
             /\ NextEvent(i)' = NextEvent(i - 1)' + Len(file'[i].events)
  <2>1. CASE i = last + 1
    <3>1. i - 1 = last /\ NextEvent(i - 1)' = NextEvent(last)
      BY <2>1, <1>2, <1>5
    <3>2. file'[i].events = dataBuf
      BY <2>1, <1>1, <1>4
    <3>3. NextEvent(i)' = evtNumber
      BY <2>1, <1>6
    <3> QED
      BY <3>1, <3>2, <3>3, <1>3
  <2>2. CASE i \in 1..last
    <3>1. i - 1 \in 0..last /\ i \in 0..last
      BY <2>2, <1>2
    <3>2. NextEvent(i - 1)' = NextEvent(i - 1) /\ NextEvent(i)' = NextEvent(i)
      BY <3>1, <1>5
    <3>3. file'[i] = file[i]
      BY <2>2, <1>4
    <3>4. /\ Consecutive(file[i].events, NextEvent(i - 1))
          /\ NextEvent(i) = NextEvent(i - 1) + Len(file[i].events)
      BY <2>2, <1>0 DEF FileInv, FileInOrder
    <3> QED
      BY <3>2, <3>3, <3>4
  <2> QED
    BY <1>2, <1>4, <2>1, <2>2
<1>8. Len(dataBuf') = 1 /\ dataBuf'[1].evt = evtNumber
  OBVIOUS
<1>9. /\ \A k \in 1..Len(dataBuf') : dataBuf'[k].evt = evtNumber + k - 1
      /\ evtNumber' = NextEvent(last + 1)' + Len(dataBuf')
  BY <1>2, <1>6, <1>8
<1>10. Consecutive(dataBuf, NextEvent(Len(file)))' /\ (evtNumber = NextEvent(Len(file)) + Len(dataBuf))'
  BY <1>4, <1>6, <1>9 DEF Consecutive
<1>11. (\A i \in 1..Len(file) : /\ Consecutive(file[i].events, NextEvent(i - 1))
                                /\ NextEvent(i) = NextEvent(i - 1) + Len(file[i].events))'
  BY <1>7 DEF Consecutive
<1> QED
  BY <1>4, <1>10, <1>11 DEF FileInOrder

\* Every way in which an event is emitted keeps the file in order.
LEMMA EmitEventInOrder ==
    ASSUME FileInv, NEW n \in Sizes, EmitEvent(n)
    PROVE  FileInv'
<1> DEFINE e == [evt |-> evtNumber, nwords |-> Kept(n)]
<1>1. n \in Nat /\ Kept(n) \in Nat
  <2>1. n \in Nat
    BY SizesAssumption DEF SizesAssumption
  <2> QED
    BY <2>1, KeptFits
<1>2. evtNumber' = evtNumber + 1
  BY DEF EmitEvent
<1>3. CASE CSMDataFile = "NULL" /\ UNCHANGED <<buf, out>>
  <2>1. UNCHANGED <<file, dataBuf, nDataWords, nPackedEvt, saveRunCondition, CSMDataFile>>
    BY <1>3 DEF buf, out
  <2>2. FileInOrder'
    BY <1>3, <2>1, ClosedInOrder
  <2> QED
    BY <1>2, <2>1, <2>2 DEF FileInv
<1>4. CASE /\ CSMDataFile = "open"
           /\ dataBuf' = Append(dataBuf, e)
           /\ nPackedEvt' = nPackedEvt + 1
           /\ nDataWords' = nDataWords + Kept(n) + 1
           /\ UNCHANGED out
  BY <1>1, <1>2, <1>4, PackInOrder
<1>5. CASE /\ CSMDataFile = "open" /\ Flush
           /\ dataBuf' = <<e>>
           /\ nPackedEvt' = 1
           /\ nDataWords' = Kept(n) + 1
  <2>1. /\ saveRunCondition' \in Nat /\ evtNumber' \in Nat
        /\ nPackedEvt' \in Nat /\ nDataWords' \in Nat
    BY <1>1, <1>2, <1>5 DEF FileInv, Flush
  <2>2. dataBuf' \in Seq(EventRecord)
    <3>1. e \in EventRecord
      BY <1>1, NewEvent
    <3> HIDE DEF e
    <3> QED
      BY <1>5, <3>1
  <2>3. file' \in Seq(Packet) /\ FileInOrder'
    <3>1. CASE CSMDataFile' = "NULL" /\ file' = file
      BY <3>1, ClosedInOrder DEF FileInv
    <3>2. CASE file' = Append(file, ThePacket)
      BY <3>2, <1>1, <1>2, <1>5, WriteInOrder
    <3> QED
      BY <3>1, <3>2, <1>5 DEF Flush
  <2> QED
    BY <2>1, <2>2, <2>3 DEF FileInv
<1> QED
  BY <1>3, <1>4, <1>5 DEF EmitEvent

LEMMA FileInductive == Spec => []FileInv
<1>1. Init => FileInv
  BY DEF Init, FileInv, FileInOrder
<1>2. FileInv /\ [Next]_vars => FileInv'
  <2> SUFFICES ASSUME FileInv, [Next]_vars
               PROVE  FileInv'
    OBVIOUS
  <2>1. CASE Start
    <3>1. file' = <<>> /\ dataBuf' = <<>> /\ evtNumber' = 0
      BY <2>1 DEF Start
    <3>2. FileInOrder'
      BY <3>1 DEF FileInOrder, NextEvent, Consecutive
    <3> QED
      BY <2>1, <3>2 DEF Start, FileInv
  <2>2. CASE EndOfCollecting
    <3>1. CSMDataFile' = "NULL" /\ file' = file
      BY <2>2 DEF EndOfCollecting
    <3>2. FileInOrder'
      BY <3>1, ClosedInOrder
    <3> QED
      BY <2>2, <3>2 DEF EndOfCollecting, FileInv, buf
  <2>3. ASSUME NEW n \in Sizes, EmitEvent(n)
        PROVE  FileInv'
    BY <2>3, EmitEventInOrder
  <2>4. CASE UNCHANGED vars
    BY <2>4 DEF FileInv, FileInOrder, NextEvent, Consecutive, vars, buf, out
  <2> QED
    BY <2>1, <2>2, <2>3, <2>4 DEF Next
<1> QED
  BY <1>1, <1>2, PTL DEF Spec

\* The file holds the events of the run in order and without a hole, for every size of
\* dataBuf, every sequence of event sizes, huge ones included, and every file limit.
THEOREM FileHasNoHole == Spec => []FileInOrder
<1>1. FileInv => FileInOrder
  BY DEF FileInv
<1> QED
  BY <1>1, FileInductive, PTL

\* TypeOK: the types of everything the writer keeps, for every record and event size.
THEOREM TypeCorrect == Spec => []TypeOK
<1> DEFINE Flags == /\ collecting \in BOOLEAN /\ CSMDataFile \in {"open", "NULL"}
                    /\ limitReached \in BOOLEAN
           Size == fileSize \in Nat
<1>1. Init => Flags
  BY Zenon DEF Init
<1>2. Init => Size
  BY DEF Init
<1>3. FileInv /\ Flags /\ Size /\ [Next]_vars => (Flags /\ Size)'
  <2> SUFFICES ASSUME FileInv, Flags, Size, [Next]_vars
               PROVE  (Flags /\ Size)'
    OBVIOUS
  <2>1. CASE Start
    <3>1. Flags'
      BY <2>1, Zenon DEF Start
    <3>2. Size'
      BY <2>1 DEF Start
    <3> QED
      BY <3>1, <3>2
  <2>2. CASE EndOfCollecting
    BY <2>2, Zenon DEF EndOfCollecting
  <2>3. ASSUME NEW n \in Sizes, EmitEvent(n)
        PROVE  (Flags /\ Size)'
    <3>1. CASE UNCHANGED out
      BY <2>3, <3>1, Zenon DEF EmitEvent, out
    <3>2. CASE Flush
      <4>1. Flags'
        BY <2>3, <3>2, Zenon DEF EmitEvent, Flush
      <4>2. Size'
        BY <3>2 DEF Flush, FileInv, HeaderWords
      <4> QED
        BY <4>1, <4>2
    <3> QED
      BY <2>3, <3>1, <3>2 DEF EmitEvent
  <2>4. CASE UNCHANGED vars
    BY <2>4, Zenon DEF vars, out
  <2> QED
    BY <2>1, <2>2, <2>3, <2>4 DEF Next
<1>4. FileInv /\ Flags /\ Size => TypeOK
  BY Zenon DEF FileInv, TypeOK
<1> QED
  BY <1>1, <1>2, <1>3, <1>4, FileInductive, PTL DEF Spec

--------------------------------------------------------------------------------
(* The headers. *)

\* Packing one more event adds its words and the one with EVID and word count.
LEMMA WordsAppend ==
    ASSUME NEW q \in Seq(EventRecord), NEW e \in EventRecord
    PROVE  WordsOf(Append(q, e)) = WordsOf(q) + (e.nwords + 1)
<1> DEFINE w(r) == [k \in 1..Len(r) |-> r[k].nwords + 1]
<1>1. \A k \in 1..Len(q) : q[k].nwords + 1 \in Int
  <2>1. \A k \in 1..Len(q) : q[k] \in EventRecord
    OBVIOUS
  <2> QED
    BY <2>1 DEF EventRecord
<1>2. w(q) \in Seq(Int)
  BY <1>1
<1>3. e.nwords + 1 \in Int
  BY DEF EventRecord
<1>4. w(Append(q, e)) = Append(w(q), e.nwords + 1)
  OBVIOUS
<1>5. WordsOf(q) = Total(w(q)) /\ WordsOf(Append(q, e)) = Total(w(Append(q, e)))
  BY DEF WordsOf
<1> HIDE DEF w
<1> QED
  BY <1>2, <1>3, <1>4, <1>5, TotalAppend

LEMMA WordsEmpty == WordsOf(<<>>) = 0
<1>1. WordsOf(<<>>) = Total(<<>>)
  BY DEF WordsOf
<1> QED
  BY <1>1, TotalEmpty

\* HeaderAgrees, and why it stays true: while the file is open the counters that go into
\* the next header agree with dataBuf, and the conditions written with the packets.
HeaderInv ==
    /\ HeaderAgrees
    /\ CSMDataFile = "open" =>
         /\ nDataWords = WordsOf(dataBuf)
         /\ nPackedEvt = Len(dataBuf)
         /\ saveRunCondition = Len(file)

\* The packet that is written next has a true header.
LEMMA WriteAgrees ==
    ASSUME FileInv, HeaderInv, CSMDataFile = "open", file' = Append(file, ThePacket)
    PROVE  HeaderAgrees'
<1> DEFINE p == ThePacket
<1>0. PICK last \in Nat : last = Len(file)
  BY DEF FileInv
<1>1. /\ p.nDataWords = WordsOf(dataBuf) /\ p.nPackedEvt = Len(dataBuf)
      /\ p.condition = Condition(last + 1) /\ p.events = dataBuf
  BY <1>0 DEF ThePacket, HeaderInv
<1>2. p.condition = IF last + 1 <= 5 THEN last + 1 ELSE 0
  BY <1>1 DEF Condition
<1>3. file' = Append(file, p) /\ file \in Seq(Packet)
  BY DEF FileInv
<1> HIDE DEF p
<1>4. Len(file') = last + 1 /\ file'[last + 1] = p /\ \A i \in 1..last : file'[i] = file[i]
  BY <1>0, <1>3
<1>5. ASSUME NEW i \in 1..Len(file')
      PROVE  /\ file'[i].nDataWords = WordsOf(file'[i].events)
             /\ file'[i].nPackedEvt = Len(file'[i].events)
             /\ file'[i].condition = IF i <= 5 THEN i ELSE 0
  <2>1. CASE i = last + 1
    BY <2>1, <1>1, <1>2, <1>4
  <2>2. CASE i \in 1..last
    BY <2>2, <1>0, <1>4 DEF HeaderInv, HeaderAgrees
  <2> QED
    BY <1>0, <1>4, <2>1, <2>2
<1> QED
  BY <1>5 DEF HeaderAgrees, WordsOf

LEMMA EmitEventAgrees ==
    ASSUME FileInv, HeaderInv, NEW n \in Sizes, EmitEvent(n)
    PROVE  HeaderInv'
<1> DEFINE e == [evt |-> evtNumber, nwords |-> Kept(n)]
<1>1. e \in EventRecord /\ e.nwords = Kept(n) /\ Kept(n) \in Nat
  <2>1. n \in Nat
    BY SizesAssumption DEF SizesAssumption
  <2> QED
    BY <2>1, KeptFits, NewEvent
<1>2. dataBuf \in Seq(EventRecord) /\ file \in Seq(Packet)
  BY DEF FileInv
<1>3. CASE UNCHANGED <<buf, out>>
  BY <1>3 DEF buf, out, HeaderInv, HeaderAgrees, WordsOf
<1>4. CASE /\ CSMDataFile = "open"
           /\ dataBuf' = Append(dataBuf, e)
           /\ nPackedEvt' = nPackedEvt + 1
           /\ nDataWords' = nDataWords + Kept(n) + 1
           /\ UNCHANGED out
  <2> HIDE DEF e
  <2>1. WordsOf(dataBuf') = WordsOf(dataBuf) + (e.nwords + 1) /\ Len(dataBuf') = Len(dataBuf) + 1
    BY <1>1, <1>2, <1>4, WordsAppend
  <2>2. nDataWords = WordsOf(dataBuf) /\ nPackedEvt = Len(dataBuf) /\ nDataWords \in Nat
    BY <1>4 DEF HeaderInv, FileInv
  <2>3. nDataWords' = WordsOf(dataBuf') /\ nPackedEvt' = Len(dataBuf')
    BY <1>1, <1>4, <2>1, <2>2
  <2>4. (nDataWords = WordsOf(dataBuf))'
    BY <2>3 DEF WordsOf
  <2>5. UNCHANGED <<file, saveRunCondition, CSMDataFile>>
    BY <1>4 DEF out
  <2> QED
    BY <1>4, <2>3, <2>4, <2>5 DEF HeaderInv, HeaderAgrees, WordsOf
<1>5. CASE /\ CSMDataFile = "open" /\ Flush
           /\ dataBuf' = <<e>>
           /\ nPackedEvt' = 1
           /\ nDataWords' = Kept(n) + 1
  <2>1. CASE CSMDataFile' = "NULL" /\ file' = file
    BY <2>1 DEF HeaderInv, HeaderAgrees, WordsOf
  <2>2. CASE file' = Append(file, ThePacket)
    <3>1. HeaderAgrees'
      BY <1>5, <2>2, WriteAgrees
    <3>2. WordsOf(dataBuf') = Kept(n) + 1 /\ Len(dataBuf') = 1
      <4>1. <<e>> = Append(<<>>, e) /\ <<>> \in Seq(EventRecord)
        OBVIOUS
      <4> HIDE DEF e
      <4>2. WordsOf(Append(<<>>, e)) = WordsOf(<<>>) + (e.nwords + 1)
        BY <1>1, <4>1, WordsAppend
      <4> QED
        BY <1>1, <1>5, <4>1, <4>2, WordsEmpty
    <3>3. (nDataWords = WordsOf(dataBuf))' /\ (nPackedEvt = Len(dataBuf))'
      BY <1>5, <3>2 DEF WordsOf
    <3>4. saveRunCondition' = saveRunCondition + 1 /\ Len(file') = Len(file) + 1
      BY <1>2, <1>5, <2>2 DEF Flush
    <3>5. saveRunCondition = Len(file)
      BY <1>5 DEF HeaderInv
    <3> QED
      BY <3>1, <3>3, <3>4, <3>5 DEF HeaderInv
  <2> QED
    BY <1>5, <2>1, <2>2 DEF Flush
<1> QED
  BY <1>3, <1>4, <1>5 DEF EmitEvent

\* HeaderAgrees: for every record size and any number of packets, the word count, the
\* event count and the number of the conditions in a header are those of its packet.
THEOREM HeadersAreTrue == Spec => []HeaderAgrees
<1>1. Init => HeaderInv
  BY WordsEmpty DEF Init, HeaderInv, HeaderAgrees
<1>2. FileInv /\ HeaderInv /\ [Next]_vars => HeaderInv'
  <2> SUFFICES ASSUME FileInv, HeaderInv, [Next]_vars
               PROVE  HeaderInv'
    OBVIOUS
  <2>1. CASE Start
    <3>1. file' = <<>> /\ dataBuf' = <<>>
      BY <2>1 DEF Start
    <3>2. WordsOf(dataBuf)' = 0
      BY <3>1, WordsEmpty DEF WordsOf
    <3> QED
      BY <2>1, <3>1, <3>2 DEF Start, HeaderInv, HeaderAgrees
  <2>2. CASE EndOfCollecting
    BY <2>2 DEF EndOfCollecting, HeaderInv, HeaderAgrees, WordsOf
  <2>3. CASE UNCHANGED vars
    BY <2>3 DEF vars, buf, out, HeaderInv, HeaderAgrees, WordsOf
  <2> QED
    BY <2>1, <2>2, <2>3, EmitEventAgrees DEF Next
<1>3. HeaderInv => HeaderAgrees
  BY DEF HeaderInv
<1> QED
  BY <1>1, <1>2, <1>3, FileInductive, PTL DEF Spec
================================================================================
