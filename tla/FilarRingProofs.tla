---------------------------- MODULE FilarRingProofs ----------------------------
(* Proofs about FilarRing, for every number of channels, every ring size, both *)
(* behaviours of the entry count and any number of blocks and of runs.         *)
EXTENDS FilarRing, SequenceTheorems, TLAPS

(***************************************************************************)
(* The inductive invariant.  Read the ring of a channel from bufnr on: the *)
(* buffer in hand, then the acknowledged ones, oldest first, then the      *)
(* requested ones, NBuf in all.                                            *)
(***************************************************************************)

\* The buffer i places after buffer b.
Slot(b, i) == IF b + i < NBuf THEN b + i ELSE b + i - NBuf

\* r lists the buffers of the ring from the k-th after b to the last one.
Requested(r, b, k) ==
    /\ Len(r) + k = NBuf
    /\ \A j \in 1..Len(r) : r[j] = Slot(b, k + j - 1)

\* a lists the blocks after block t, and each is where m should have it, the
\* first one k places after b.
Filled(a, m, b, k, t) ==
    \A i \in 1..Len(a) : a[i] = t + i /\ m[Slot(b, k + i - 1)] = a[i]

Off(c) == IF InHand(c) THEN 1 ELSE 0

RingOrder(c) ==
    /\ Requested(req[c], bufnr[c], Off(c) + Len(ack[c]))
    /\ Filled(ack[c], mem[c], bufnr[c], Off(c), Len(assembled[c]) + Off(c))
    /\ received[c] = Len(assembled[c]) + Off(c) + Len(ack[c])
    /\ InHand(c) => datasize = Len(assembled[c]) + 1 /\ mem[c][bufnr[c]] = datasize

\* The count never exceeds what waits, nor what the entry count can show; a channel
\* chosen for assembly has been counted, and any other one is back below the top.
CountInv(c) ==
    /\ numberFilledFIFOs[c] <= Off(c) + Len(ack[c])
    /\ numberFilledFIFOs[c] < FifoMod
    /\ c \notin gotData => numberFilledFIFOs[c] < FifoMod - 1
    /\ c \in gotData => numberFilledFIFOs[c] >= 1
    /\ InHand(c) => c \in gotData

\* The card has been set up for a run since the program started.
Started(c) == pc # "stopped" \/ req[c] # <<>> \/ ack[c] # <<>>

RunInv == \A c \in Chan : Started(c) => RingOrder(c) /\ CountInv(c)

IInv ==
    /\ TypeOK
    /\ RunInv
    /\ AssembledInOrder
    /\ pc = "poll" => gotData = {}
    /\ pc = "ack" => gotData # {}
    /\ pc = "assemble" => cur \in Chan

--------------------------------------------------------------------------------
(* Facts about the ring and the entry count, free of the state. *)

\* The count rebuilt from the status register is never above the number of
\* acknowledge words that wait, if it was not before: the step of the argument
\* that depends on the 4-bit field (CSMMiniDAQ_dualCSM.cpp:1508-1509).
LEMMA RecountBound ==
    ASSUME NEW k \in Nat, NEW n \in Nat, n <= k, n < FifoMod - 1
    PROVE  /\ Recount(n, FifoStat(k)) \in Nat
           /\ Recount(n, FifoStat(k)) <= k
           /\ Recount(n, FifoStat(k)) < FifoMod
  <1>1. FifoMod \in Nat /\ FifoMod > 1
    BY FifoAssumption DEF FifoAssumption
  <1>2. FifoStat(k) \in Nat /\ FifoStat(k) <= k /\ FifoStat(k) < FifoMod
    <2>1. CASE k < FifoMod
      BY <1>1, <2>1 DEF FifoStat
    <2>2. CASE k >= FifoMod
      <3>1. k % FifoMod \in 0 .. FifoMod - 1
        BY <1>1
      <3> QED BY <1>1, <2>2, <3>1 DEF FifoStat
    <2> QED BY <1>1, <2>1, <2>2
  <1> QED BY <1>1, <1>2 DEF Recount

\* Places of the ring less than NBuf apart are different buffers.
LEMMA SlotFacts ==
    ASSUME NEW b \in Buffers
    PROVE  /\ \A i \in 0..(NBuf - 1) : Slot(b, i) \in Buffers
           /\ \A i, j \in 0..(NBuf - 1) : i # j => Slot(b, i) # Slot(b, j)
           /\ Slot(b, 0) = b
           /\ NextBuffer(b) \in Buffers
           /\ \A i \in 1..(NBuf - 1) : Slot(NextBuffer(b), i - 1) = Slot(b, i)
           /\ Slot(NextBuffer(b), NBuf - 1) = b
  BY NBufAssumption DEF NBufAssumption, Buffers, Slot, NextBuffer

\* Taking the head of the request FIFO shortens the requested part of the ring.
LEMMA TakeRequest ==
    ASSUME NEW r \in Seq(Buffers), NEW b \in Buffers, NEW k \in Nat,
           Requested(r, b, k), r # <<>>
    PROVE  /\ Head(r) = Slot(b, k) /\ Head(r) \in Buffers
           /\ Tail(r) \in Seq(Buffers)
           /\ Requested(Tail(r), b, k + 1)
           /\ k < NBuf
  <1>1. /\ Len(r) \in Nat /\ Len(r) > 0 /\ Head(r) = r[1] /\ r[1] \in Buffers
        /\ Tail(r) \in Seq(Buffers) /\ Len(Tail(r)) = Len(r) - 1
        /\ \A j \in 1..Len(Tail(r)) : Tail(r)[j] = r[j + 1]
    OBVIOUS
  <1>2. Head(r) = Slot(b, k)
    BY <1>1 DEF Requested
  <1>3. Requested(Tail(r), b, k + 1)
    BY <1>1, NBufAssumption DEF Requested, NBufAssumption
  <1> QED BY <1>1, <1>2, <1>3, NBufAssumption DEF Requested, NBufAssumption

\* Requesting the buffer at bufnr again lengthens it, and the ring moves on.
LEMMA GiveBack ==
    ASSUME NEW r \in Seq(Buffers), NEW b \in Buffers, NEW k \in Nat,
           Requested(r, b, k + 1)
    PROVE  /\ Append(r, b) \in Seq(Buffers)
           /\ Requested(Append(r, b), NextBuffer(b), k)
  <1>1. /\ Len(r) \in Nat /\ Append(r, b) \in Seq(Buffers) /\ Len(Append(r, b)) = Len(r) + 1
        /\ \A j \in 1..Len(r) : Append(r, b)[j] = r[j]
        /\ Append(r, b)[Len(r) + 1] = b
    OBVIOUS
  <1>2. Len(r) + (k + 1) = NBuf
    BY DEF Requested
  <1>3. ASSUME NEW j \in 1..Len(Append(r, b))
        PROVE  Append(r, b)[j] = Slot(NextBuffer(b), k + j - 1)
    <2>1. CASE j \in 1..Len(r)
      <3>1. r[j] = Slot(b, k + 1 + j - 1) /\ k + 1 + j - 1 = k + j
        BY <2>1, <1>1 DEF Requested
      <3>2. k + j \in 1..(NBuf - 1)
        BY <1>1, <1>2, <2>1, NBufAssumption DEF NBufAssumption
      <3>3. Slot(NextBuffer(b), k + j - 1) = Slot(b, k + j)
        BY <3>2, SlotFacts
      <3> QED BY <1>1, <2>1, <3>1, <3>3
    <2>2. CASE j = Len(r) + 1
      <3>1. k + j - 1 = NBuf - 1
        BY <1>1, <1>2, <2>2, NBufAssumption DEF NBufAssumption
      <3> QED BY <1>1, <2>2, <3>1, SlotFacts
    <2> QED BY <1>1, <2>1, <2>2
  <1>4. Len(Append(r, b)) + k = NBuf
    BY <1>1, <1>2
  <1> QED BY <1>1, <1>3, <1>4 DEF Requested

\* m2 is m with x stored in buffer h.
Stored(m, m2, h, x) == m2[h] = x /\ \A s \in Buffers : s # h => m2[s] = m[s]

\* A new block goes where no waiting block is.
LEMMA FillNext ==
    ASSUME NEW a \in Seq(Nat), NEW m, NEW b \in Buffers,
           NEW k \in Nat, NEW t \in Nat, Filled(a, m, b, k, t),
           NEW h, h = Slot(b, k + Len(a)), k + Len(a) < NBuf,
           NEW x, x = t + Len(a) + 1,
           NEW m2, Stored(m, m2, h, x)
    PROVE  /\ Filled(Append(a, x), m2, b, k, t)
           /\ k > 0 => m2[b] = m[b]
  <1> DEFINE n == Len(a)
             a2 == Append(a, x)
  <1>1. /\ n \in Nat /\ x \in Nat /\ a2 \in Seq(Nat) /\ Len(a2) = n + 1
        /\ \A i \in 1..n : a2[i] = a[i]
        /\ a2[n + 1] = x
    OBVIOUS
  <1>2. k + n \in 0..(NBuf - 1)
    BY <1>1, NBufAssumption DEF NBufAssumption
  <1>3. h \in Buffers
    BY <1>2, SlotFacts
  <1>5. \A i \in 0..(k + n - 1) : Slot(b, i) # h /\ Slot(b, i) \in Buffers
    <2>1. \A i \in 0..(k + n - 1) : i \in 0..(NBuf - 1) /\ i # k + n
      BY <1>1, <1>2, NBufAssumption DEF NBufAssumption
    <2> QED BY <1>2, <2>1, SlotFacts
  <1>6. ASSUME NEW i \in 1..(n + 1)
        PROVE  a2[i] = t + i /\ m2[Slot(b, k + i - 1)] = a2[i]
    <2>1. CASE i \in 1..n
      <3>1. k + i - 1 \in 0..(k + n - 1)
        BY <1>1, <2>1
      <3>2. m2[Slot(b, k + i - 1)] = m[Slot(b, k + i - 1)]
        BY <1>5, <3>1 DEF Stored
      <3> QED BY <1>1, <2>1, <3>2 DEF Filled
    <2>2. CASE i = n + 1
      <3>1. k + i - 1 = k + n /\ t + i = x
        BY <1>1, <2>2
      <3> QED BY <1>1, <2>2, <3>1 DEF Stored
    <2> QED BY <1>1, <2>1, <2>2
  <1>7. Filled(a2, m2, b, k, t)
    BY <1>1, <1>6 DEF Filled
  <1>8. k > 0 => m2[b] = m[b]
    <2>1. k > 0 => 0 \in 0..(k + n - 1)
      BY <1>1
    <2> QED BY <1>5, <2>1, SlotFacts DEF Stored
  <1> QED BY <1>7, <1>8

\* Popping the acknowledge FIFO yields the block in buffer b, and leaves the rest
\* one place further.
LEMMA PopAck ==
    ASSUME NEW a \in Seq(Nat), NEW m, NEW b \in Buffers, NEW t \in Nat,
           Filled(a, m, b, 0, t), a # <<>>
    PROVE  /\ Head(a) = t + 1 /\ m[b] = Head(a)
           /\ Tail(a) \in Seq(Nat) /\ Len(Tail(a)) = Len(a) - 1
           /\ Filled(Tail(a), m, b, 1, t + 1)
  <1>1. /\ Len(a) \in Nat /\ Len(a) > 0 /\ Head(a) = a[1]
        /\ Tail(a) \in Seq(Nat) /\ Len(Tail(a)) = Len(a) - 1
        /\ \A i \in 1..Len(Tail(a)) : Tail(a)[i] = a[i + 1]
    OBVIOUS
  <1>2. a[1] = t + 1 /\ m[Slot(b, 0)] = a[1]
    BY <1>1 DEF Filled
  <1>3. ASSUME NEW i \in 1..Len(Tail(a))
        PROVE  Tail(a)[i] = (t + 1) + i /\ m[Slot(b, 1 + i - 1)] = Tail(a)[i]
    <2>1. i + 1 \in 1..Len(a) /\ 0 + (i + 1) - 1 = 1 + i - 1 /\ t + (i + 1) = (t + 1) + i
      BY <1>1
    <2>2. a[i + 1] = t + (i + 1) /\ m[Slot(b, 0 + (i + 1) - 1)] = a[i + 1]
      BY <2>1 DEF Filled
    <2> QED BY <1>1, <2>1, <2>2
  <1> QED BY <1>1, <1>2, <1>3, SlotFacts DEF Filled

\* When bufnr moves on, the waiting blocks are one place nearer.
LEMMA AdvanceFilled ==
    ASSUME NEW a \in Seq(Nat), NEW m, NEW b \in Buffers, NEW t \in Nat,
           Filled(a, m, b, 1, t), 1 + Len(a) <= NBuf
    PROVE  Filled(a, m, NextBuffer(b), 0, t)
  <1>1. ASSUME NEW i \in 1..Len(a)
        PROVE  a[i] = t + i /\ m[Slot(NextBuffer(b), 0 + i - 1)] = a[i]
    <2>1. i \in 1..(NBuf - 1) /\ 1 + i - 1 = i /\ 0 + i - 1 = i - 1
      BY NBufAssumption DEF NBufAssumption
    <2>2. a[i] = t + i /\ m[Slot(b, i)] = a[i]
      BY <2>1 DEF Filled
    <2> QED BY <2>1, <2>2, SlotFacts
  <1> QED BY <1>1 DEF Filled

--------------------------------------------------------------------------------
(* Every step preserves the inductive invariant. *)

\* The card and the loop start with every ring set aside.
LEMMA InitIInv == Init => IInv
  <1> SUFFICES ASSUME Init PROVE IInv
    OBVIOUS
  <1> USE NBufAssumption DEF NBufAssumption, Init, Buffers, NoBlock
  <1>1. TypeOK
    BY DEF TypeOK
  <1>2. AssembledInOrder
    BY DEF AssembledInOrder
  <1> QED BY <1>1, <1>2 DEF IInv, RunInv, Started

\* InitToStartRun restores the ring from whatever the last run left behind.
LEMMA StartRunIInv == IInv /\ StartRun => IInv'
  <1> SUFFICES ASSUME IInv, StartRun PROVE IInv'
    OBVIOUS
  <1> USE NBufAssumption DEF NBufAssumption
  <1>1. TypeOK'
    BY DEF IInv, TypeOK, StartRun, ResetCard, NewCollectors, Buffers, NoBlock
  <1>2. ASSUME NEW c \in Chan PROVE (RingOrder(c) /\ CountInv(c))'
    <2>1. (Off(c) = 0)' /\ ~InHand(c)'
      BY DEF StartRun, ResetCard, NewCollectors, InHand, Off
    <2>2. /\ req'[c] = [i \in 1..NBuf |-> i - 1] /\ ack'[c] = <<>> /\ received'[c] = 0
          /\ assembled'[c] = <<>> /\ bufnr'[c] = 0 /\ numberFilledFIFOs'[c] = 0
          /\ gotData' = {}
      BY DEF StartRun, ResetCard, NewCollectors
    <2>3. Requested(req'[c], bufnr'[c], 0)
      BY <2>2 DEF Requested, Slot
    <2>4. Filled(ack'[c], mem'[c], bufnr'[c], 0, 0)
      BY <2>2 DEF Filled
    <2>5. RingOrder(c)'
      BY <2>1, <2>2, <2>3, <2>4 DEF RingOrder
    <2>6. CountInv(c)'
      BY <2>1, <2>2, FifoAssumption DEF CountInv, FifoAssumption
    <2> QED BY <2>5, <2>6
  <1>3. AssembledInOrder'
    BY DEF AssembledInOrder, StartRun, ResetCard, NewCollectors
  <1> QED BY <1>1, <1>2, <1>3 DEF IInv, RunInv, StartRun, ResetCard, NewCollectors

\* What the type invariant says of one channel.
LEMMA ChanType ==
    ASSUME TypeOK, NEW c \in Chan
    PROVE  /\ req[c] \in Seq(Buffers) /\ ack[c] \in Seq(Nat)
           /\ mem[c] \in [Buffers -> Nat] /\ received[c] \in Nat
           /\ bufnr[c] \in Buffers /\ numberFilledFIFOs[c] \in Nat
           /\ assembled[c] \in Seq(Nat) /\ Off(c) \in {0, 1}
           /\ Len(ack[c]) \in Nat /\ Len(assembled[c]) \in Nat
  BY DEF TypeOK, Off

\* A block enters at the boundary between the filled and the requested buffers.
LEMMA LinkFillIInv ==
    ASSUME IInv, NEW d \in Chan, LinkFill(d)
    PROVE  IInv'
  <1>1. TypeOK'
    <2>1. Head(req[d]) \in Buffers /\ Tail(req[d]) \in Seq(Buffers)
      BY ChanType DEF IInv, LinkFill
    <2>2. Append(ack[d], received[d] + 1) \in Seq(Nat) /\ received[d] + 1 \in Nat
      BY ChanType DEF IInv
    <2> QED BY <2>1, <2>2 DEF IInv, TypeOK, LinkFill, daq
  <1>2. ASSUME NEW c \in Chan, Started(c)'
        PROVE  (RingOrder(c) /\ CountInv(c))'
    <2>0. RingOrder(c) /\ CountInv(c)
      <3>1. Started(c)
        BY <1>2 DEF IInv, TypeOK, Started, LinkFill, daq
      <3> QED BY <3>1 DEF IInv, RunInv
    <2>1. /\ InHand(c)' = InHand(c) /\ Off(c)' = Off(c) /\ assembled' = assembled
          /\ bufnr' = bufnr /\ gotData' = gotData /\ datasize' = datasize
          /\ numberFilledFIFOs' = numberFilledFIFOs
      BY DEF LinkFill, daq, InHand, Off
    <2>t. /\ req[c] \in Seq(Buffers) /\ ack[c] \in Seq(Nat)
          /\ mem[c] \in [Buffers -> Nat] /\ received[c] \in Nat
          /\ bufnr[c] \in Buffers /\ numberFilledFIFOs[c] \in Nat
          /\ Len(ack[c]) \in Nat /\ Len(assembled[c]) \in Nat
          /\ Off(c) \in Nat
      <3>1. TypeOK
        BY DEF IInv
      <3> QED BY <3>1, ChanType
    <2>2. CASE c # d
      <3>1. /\ req'[c] = req[c] /\ ack'[c] = ack[c] /\ mem'[c] = mem[c]
            /\ received'[c] = received[c]
        BY <2>2 DEF IInv, TypeOK, LinkFill
      <3> QED BY <2>0, <2>1, <3>1 DEF RingOrder, CountInv
    <2>3. CASE c = d
      <3> DEFINE n == Len(ack[c])
                 k == Off(c) + n
                 t == Len(assembled[c]) + Off(c)
                 h == Head(req[c])
                 x == received[c] + 1
      <3>1. /\ req'[c] = Tail(req[c]) /\ ack'[c] = Append(ack[c], x)
            /\ mem'[c] = [mem[c] EXCEPT ![h] = x] /\ received'[c] = x /\ req[c] # <<>>
        BY <2>3 DEF IInv, TypeOK, LinkFill
      <3>2. t \in Nat /\ n \in Nat /\ k \in Nat
        BY <2>t
      <3>3. /\ Requested(req[c], bufnr[c], k)
            /\ Filled(ack[c], mem[c], bufnr[c], Off(c), t)
            /\ received[c] = t + n
            /\ Off(c) > 0 => datasize = Len(assembled[c]) + 1 /\ mem[c][bufnr[c]] = datasize
        <4>1. Off(c) > 0 => InHand(c)
          BY DEF Off
        <4>2. received[c] = t + n
          BY <2>0, <2>t DEF RingOrder
        <4> QED BY <2>0, <4>1, <4>2 DEF RingOrder
      <3>4. k = Off(c) + Len(ack[c]) /\ Off(c) + (n + 1) = k + 1 /\ x = t + n + 1
            /\ Len(Append(ack[c], x)) = n + 1
        BY <2>t, <3>3
      <3>5. Off(c)' + Len(ack'[c]) = k + 1 /\ Len(assembled'[c]) + Off(c)' = t
        BY <2>1, <2>t, <3>1, <3>4
      <3> HIDE DEF k, t, x
      <3>6. h = Slot(bufnr[c], k) /\ Requested(Tail(req[c]), bufnr[c], k + 1) /\ k < NBuf
        BY <2>t, <3>1, <3>2, <3>3, TakeRequest
      <3>7. /\ Filled(Append(ack[c], x), mem'[c], bufnr[c], Off(c), t)
            /\ Off(c) > 0 => mem'[c][bufnr[c]] = mem[c][bufnr[c]]
        <4>1. Filled(ack[c], mem[c], bufnr[c], Off(c), t)
          BY <3>3
        <4>2. h = Slot(bufnr[c], Off(c) + Len(ack[c])) /\ Off(c) + Len(ack[c]) < NBuf
          BY <3>4, <3>6
        <4>3. x = t + Len(ack[c]) + 1
          BY <3>4
        <4>4. Stored(mem[c], mem'[c], h, x)
          BY <2>t, <3>1, <3>2, <3>3, TakeRequest DEF Stored
        <4> DEFINE a == ack[c]
                   m == mem[c]
                   m2 == mem'[c]
                   b == bufnr[c]
                   o == Off(c)
        <4>5. /\ a \in Seq(Nat) /\ b \in Buffers /\ o \in Nat /\ t \in Nat
              /\ Filled(a, m, b, o, t) /\ h = Slot(b, o + Len(a)) /\ o + Len(a) < NBuf
              /\ x = t + Len(a) + 1 /\ Stored(m, m2, h, x)
          BY <2>t, <3>2, <4>1, <4>2, <4>3, <4>4
        <4> HIDE DEF a, m, m2, b, o, h
        <4>6. Filled(Append(a, x), m2, b, o, t) /\ (o > 0 => m2[b] = m[b])
          BY <4>5, FillNext
        <4> QED BY <4>6 DEF a, m, m2, b, o
      <3>8. RingOrder(c)'
        <4>1. Requested(req'[c], bufnr'[c], Off(c)' + Len(ack'[c]))
          BY <2>1, <3>1, <3>5, <3>6
        <4>2. Filled(ack'[c], mem'[c], bufnr'[c], Off(c)', Len(assembled'[c]) + Off(c)')
          BY <2>1, <3>1, <3>5, <3>7
        <4>3. received'[c] = Len(assembled'[c]) + Off(c)' + Len(ack'[c])
          BY <3>1, <3>2, <3>4, <3>5
        <4>4. InHand(c)' => datasize' = Len(assembled'[c]) + 1 /\ mem'[c][bufnr'[c]] = datasize'
          <5>1. InHand(c) => Off(c) > 0
            BY DEF Off
          <5> QED BY <2>1, <3>1, <3>3, <3>7, <5>1
        <4> QED BY <4>1, <4>2, <4>3, <4>4 DEF RingOrder
      <3>9. CountInv(c)'
        BY <2>0, <2>1, <2>t, <3>1, <3>4 DEF CountInv
      <3> QED BY <3>8, <3>9
    <2> QED BY <2>2, <2>3
  <1>3. AssembledInOrder'
    BY DEF IInv, AssembledInOrder, LinkFill, daq
  <1> QED BY <1>1, <1>2, <1>3 DEF IInv, RunInv, LinkFill, daq

\* The recount keeps the count at or below what waits in every channel.
LEMMA PollIInv == IInv /\ Poll => IInv'
  <1> SUFFICES ASSUME IInv, Poll PROVE IInv'
    OBVIOUS
  <1>1. ASSUME NEW c \in Chan
        PROVE  /\ numberFilledFIFOs'[c] \in Nat
               /\ numberFilledFIFOs'[c] <= Len(ack[c])
               /\ numberFilledFIFOs'[c] < FifoMod
    <2>1. /\ Off(c) = 0 /\ numberFilledFIFOs[c] <= Len(ack[c])
          /\ numberFilledFIFOs[c] < FifoMod - 1
      BY ChanType DEF IInv, RunInv, Started, CountInv, Poll, WithData, Off, InHand
    <2> QED BY <2>1, RecountBound, ChanType DEF IInv, Poll, WithData
  <1>2. TypeOK'
    BY <1>1 DEF IInv, TypeOK, Poll, WithData, card
  <1>3. ASSUME NEW c \in Chan
        PROVE  (RingOrder(c) /\ CountInv(c))'
    <2>1. (Off(c) = 0)' /\ Off(c) = 0 /\ ~InHand(c) /\ ~InHand(c)'
      BY DEF Poll, WithData, InHand, Off
    <2>2. RingOrder(c)'
      BY <2>1 DEF IInv, RunInv, Started, RingOrder, Poll, WithData, card
    <2>3. CountInv(c)'
      <3>1. c \in gotData' <=> numberFilledFIFOs'[c] > 0
        BY DEF Poll, WithData
      <3>2. FifoMod \in Nat /\ FifoMod > 1
        BY FifoAssumption DEF FifoAssumption
      <3> QED BY <1>1, <2>1, <3>1, <3>2, ChanType DEF CountInv, Poll, WithData, card, IInv
    <2> QED BY <2>2, <2>3
  <1>4. /\ AssembledInOrder' /\ pc' # "assemble"
        /\ pc' = "poll" => gotData' = {}
        /\ pc' = "ack" => gotData' # {}
    BY DEF IInv, AssembledInOrder, Poll, WithData
  <1> QED BY <1>2, <1>3, <1>4 DEF IInv, RunInv, Started

\* The acknowledge FIFO is not empty, and its head is the block in buffer bufnr.
LEMMA ReadAckIInv ==
    ASSUME IInv, NEW d \in Chan, ReadAck(d)
    PROVE  IInv'
  <1>1. /\ pc = "ack" /\ pc' = "assemble" /\ cur' = d /\ d \in gotData
        /\ \A c \in Chan : Off(c) = 0
        /\ \A c \in Chan : c # d => ~InHand(c)' /\ Off(c)' = 0
        /\ InHand(d)' /\ Off(d)' = 1
        /\ req' = req /\ mem' = mem /\ received' = received /\ bufnr' = bufnr
        /\ gotData' = gotData /\ assembled' = assembled
        /\ numberFilledFIFOs' = numberFilledFIFOs
    BY DEF ReadAck, InHand, Off
  <1>2. \A c \in Chan : RingOrder(c) /\ CountInv(c)
    BY <1>1 DEF IInv, RunInv, Started
  <1>3. ack[d] # <<>>
    <2>1. numberFilledFIFOs[d] >= 1 /\ numberFilledFIFOs[d] <= 0 + Len(ack[d])
      BY <1>1, <1>2 DEF CountInv
    <2>2. numberFilledFIFOs[d] \in Nat /\ Len(ack[d]) \in Nat /\ Len(<<>>) = 0
      BY ChanType DEF IInv
    <2> QED BY <2>1, <2>2
  <1>4. datasize' = Head(ack[d]) /\ ack' = [ack EXCEPT ![d] = Tail(@)]
    BY <1>3 DEF ReadAck
  <1>5. TypeOK'
    <2>1. Head(ack[d]) \in Nat /\ Tail(ack[d]) \in Seq(Nat)
      BY <1>3, ChanType DEF IInv
    <2>2. d \in 1..4
      BY ChanAssumption DEF ChanAssumption
    <2> QED BY <1>1, <1>4, <2>1, <2>2 DEF IInv, TypeOK, ReadAck
  <1>6. ASSUME NEW c \in Chan, c # d PROVE (RingOrder(c) /\ CountInv(c))'
    <2>1. ack'[c] = ack[c]
      BY <1>4, <1>6 DEF IInv, TypeOK
    <2> QED BY <1>1, <1>2, <1>6, <2>1 DEF RingOrder, CountInv
  <1>7. (RingOrder(d) /\ CountInv(d))'
    <2> DEFINE n == Len(ack[d])
               t == Len(assembled[d])
    <2>1. /\ ack[d] \in Seq(Nat) /\ bufnr[d] \in Buffers /\ n \in Nat /\ t \in Nat
          /\ received[d] \in Nat /\ numberFilledFIFOs[d] \in Nat
      BY ChanType DEF IInv
    <2>2. ack'[d] = Tail(ack[d])
      BY <1>4 DEF IInv, TypeOK
    <2>3. /\ Requested(req[d], bufnr[d], 0 + n) /\ received[d] = t + 0 + n
          /\ Filled(ack[d], mem[d], bufnr[d], 0, t + 0)
          /\ numberFilledFIFOs[d] <= 0 + n /\ numberFilledFIFOs[d] >= 1
          /\ numberFilledFIFOs[d] < FifoMod
      BY <1>1, <1>2 DEF RingOrder, CountInv
    <2>4. Filled(ack[d], mem[d], bufnr[d], 0, t)
      <3>1. t + 0 = t
        BY <2>1
      <3> QED BY <2>3, <3>1
    <2> HIDE DEF t
    <2>5. /\ Head(ack[d]) = t + 1 /\ mem[d][bufnr[d]] = Head(ack[d])
          /\ Len(Tail(ack[d])) = n - 1
          /\ Filled(Tail(ack[d]), mem[d], bufnr[d], 1, t + 1)
      BY <1>3, <2>1, <2>4, PopAck
    <2>6. 1 + (n - 1) = 0 + n /\ t + 1 + (n - 1) = t + 0 + n
      <3>1. n \in Nat /\ t \in Nat
        BY <2>1
      <3> HIDE DEF n
      <3> QED BY <3>1
    <2>7. RingOrder(d)'
      <3>1. Requested(req'[d], bufnr'[d], Off(d)' + Len(ack'[d]))
        BY <1>1, <2>2, <2>3, <2>5, <2>6
      <3>2. Filled(ack'[d], mem'[d], bufnr'[d], Off(d)', Len(assembled'[d]) + Off(d)')
        BY <1>1, <2>2, <2>5 DEF t
      <3>3. received'[d] = Len(assembled'[d]) + Off(d)' + Len(ack'[d])
        BY <1>1, <2>1, <2>2, <2>3, <2>5, <2>6 DEF t
      <3>4. datasize' = Len(assembled'[d]) + 1 /\ mem'[d][bufnr'[d]] = datasize'
        BY <1>1, <1>4, <2>5 DEF t
      <3> QED BY <3>1, <3>2, <3>3, <3>4 DEF RingOrder
    <2>8. CountInv(d)'
      BY <1>1, <2>1, <2>2, <2>3, <2>5, <2>6 DEF CountInv
    <2> QED BY <2>7, <2>8
  <1>8. AssembledInOrder'
    BY <1>1 DEF IInv, AssembledInOrder
  <1> QED BY <1>1, <1>5, <1>6, <1>7, <1>8 DEF IInv, RunInv, Started

\* The block in hand is the next in number; its buffer goes to the end of the ring.
LEMMA FinishAssemblingIInv ==
    ASSUME IInv, NEW d \in Chan, FinishAssembling(d)
    PROVE  IInv'
  <1>1. /\ pc = "assemble" /\ cur = d /\ pc' \in {"poll", "ack"} /\ InHand(d) /\ Off(d) = 1
        /\ \A c \in Chan : ~InHand(c)' /\ Off(c)' = 0
        /\ \A c \in Chan : c # d => ~InHand(c) /\ Off(c) = 0
        /\ ack' = ack /\ mem' = mem /\ received' = received
        /\ gotData' = gotData \ {d}
        /\ pc' = "poll" => gotData' = {}
        /\ pc' = "ack" => gotData' # {}
    BY DEF FinishAssembling, Release, InHand, Off
  <1>2. \A c \in Chan : RingOrder(c) /\ CountInv(c)
    BY <1>1 DEF IInv, RunInv, Started
  <1> DEFINE n == Len(ack[d])
             t == Len(assembled[d])
             b == bufnr[d]
  <1>3. /\ ack[d] \in Seq(Nat) /\ req[d] \in Seq(Buffers) /\ b \in Buffers /\ n \in Nat
        /\ t \in Nat /\ received[d] \in Nat /\ numberFilledFIFOs[d] \in Nat
        /\ assembled[d] \in Seq(Nat) /\ mem[d][b] \in Nat
    BY ChanType DEF IInv
  <1>4. /\ req'[d] = Append(req[d], b) /\ bufnr'[d] = NextBuffer(b)
        /\ numberFilledFIFOs'[d] = numberFilledFIFOs[d] - 1
        /\ assembled'[d] = Append(assembled[d], mem[d][b])
    BY DEF IInv, TypeOK, FinishAssembling, Release
  <1>5. /\ Requested(req[d], b, 1 + n) /\ received[d] = t + 1 + n
        /\ Filled(ack[d], mem[d], b, 1, t + 1)
        /\ datasize = t + 1 /\ mem[d][b] = datasize
        /\ numberFilledFIFOs[d] <= 1 + n /\ numberFilledFIFOs[d] >= 1
        /\ numberFilledFIFOs[d] < FifoMod
    BY <1>1, <1>2 DEF RingOrder, CountInv
  <1>6. /\ Append(req[d], b) \in Seq(Buffers)
        /\ Requested(Append(req[d], b), NextBuffer(b), n)
    <2>1. 1 + n = n + 1
      BY <1>3
    <2>2. /\ req[d] \in Seq(Buffers) /\ b \in Buffers /\ n \in Nat
          /\ Requested(req[d], b, n + 1)
      BY <1>3, <1>5, <2>1
    <2> HIDE DEF n, b
    <2> QED BY <2>2, GiveBack
  <1>7. 1 + n <= NBuf
    <2> DEFINE l == Len(req[d])
    <2>1. l \in Nat /\ n \in Nat
      BY <1>3
    <2> HIDE DEF n
    <2>2. l + (1 + n) = NBuf
      BY <1>5 DEF Requested
    <2> HIDE DEF l
    <2> QED BY <2>1, <2>2
  <1>8. Filled(ack[d], mem[d], NextBuffer(b), 0, t + 1)
    <2> DEFINE u == t + 1
    <2>1. u \in Nat /\ Filled(ack[d], mem[d], b, 1, u) /\ 1 + Len(ack[d]) <= NBuf
      BY <1>3, <1>5, <1>7
    <2> HIDE DEF u, b
    <2>2. Filled(ack[d], mem[d], NextBuffer(b), 0, u)
      BY <1>3, <2>1, AdvanceFilled
    <2> QED BY <2>2 DEF u
  <1>9. Len(assembled'[d]) = t + 1 /\ assembled'[d] \in Seq(Nat)
        /\ (\A i \in 1..t : assembled'[d][i] = assembled[d][i]) /\ assembled'[d][t + 1] = t + 1
    BY <1>3, <1>4, <1>5
  <1>10. TypeOK'
    <2>1. NextBuffer(b) \in Buffers /\ numberFilledFIFOs[d] - 1 \in Nat
      BY <1>3, <1>5, SlotFacts
    <2>2. Append(assembled[d], mem[d][b]) \in Seq(Nat)
      BY <1>3
    <2> QED BY <1>1, <1>3, <1>6, <2>1, <2>2 DEF IInv, TypeOK, FinishAssembling, Release
  <1>11. ASSUME NEW c \in Chan, c # d PROVE (RingOrder(c) /\ CountInv(c))'
    <2>1. /\ req'[c] = req[c] /\ bufnr'[c] = bufnr[c] /\ assembled'[c] = assembled[c]
          /\ numberFilledFIFOs'[c] = numberFilledFIFOs[c]
      BY <1>11 DEF IInv, TypeOK, FinishAssembling, Release
    <2> QED BY <1>1, <1>2, <1>11, <2>1 DEF RingOrder, CountInv
  <1>12. (RingOrder(d) /\ CountInv(d))'
    <2>1. 0 + n = n /\ (t + 1) + 0 = t + 1 /\ t + 1 + 0 + n = t + 1 + n
      BY <1>3
    <2>2. Requested(req'[d], bufnr'[d], Off(d)' + Len(ack'[d]))
      BY <1>1, <1>4, <1>6, <2>1
    <2>3. Filled(ack'[d], mem'[d], bufnr'[d], Off(d)', Len(assembled'[d]) + Off(d)')
      BY <1>1, <1>4, <1>8, <1>9, <2>1
    <2>4. received'[d] = Len(assembled'[d]) + Off(d)' + Len(ack'[d])
      BY <1>1, <1>5, <1>9, <2>1
    <2>5. RingOrder(d)'
      BY <1>1, <2>2, <2>3, <2>4 DEF RingOrder
    <2>6. CountInv(d)'
      BY <1>1, <1>3, <1>4, <1>5, FifoAssumption DEF CountInv, FifoAssumption
    <2> QED BY <2>5, <2>6
  <1>13. AssembledInOrder'
    <2>1. ASSUME NEW c \in Chan, NEW i \in 1..Len(assembled'[c]) PROVE assembled'[c][i] = i
      <3>1. CASE c # d
        <4>1. assembled'[c] = assembled[c]
          BY <3>1 DEF IInv, TypeOK, FinishAssembling, Release
        <4> QED BY <4>1 DEF IInv, AssembledInOrder
      <3>2. CASE c = d
        <4>1. i \in 1..t \/ i = t + 1
          BY <1>3, <1>9, <3>2
        <4> QED BY <1>9, <3>2, <4>1 DEF IInv, AssembledInOrder
      <3> QED BY <3>1, <3>2
    <2> QED BY <2>1 DEF AssembledInOrder
  <1> QED BY <1>1, <1>10, <1>11, <1>12, <1>13 DEF IInv, RunInv, Started

\* Signals, the end of the run and stuttering leave the ring alone.
LEMMA OtherIInv ==
    ASSUME IInv, StopSignal \/ EndOfCollecting \/ UNCHANGED vars
    PROVE  IInv'
  <1>1. /\ req' = req /\ ack' = ack /\ mem' = mem /\ received' = received
        /\ gotData' = gotData /\ cur' = cur /\ datasize' = datasize /\ bufnr' = bufnr
        /\ numberFilledFIFOs' = numberFilledFIFOs /\ assembled' = assembled
        /\ DAQState' \in {"Running", "Idle"}
        /\ pc' = pc \/ (pc = "poll" /\ pc' = "stopped")
    BY DEF StopSignal, EndOfCollecting, vars, card, daq, IInv, TypeOK
  <1>2. TypeOK'
    BY <1>1 DEF IInv, TypeOK
  <1>3. AssembledInOrder'
    BY <1>1 DEF IInv, AssembledInOrder
  <1>4. RunInv'
    <2>1. ASSUME NEW c \in Chan, Started(c)' PROVE (RingOrder(c) /\ CountInv(c))'
      <3>1. RingOrder(c) /\ CountInv(c)
        BY <1>1, <2>1 DEF IInv, RunInv, Started
      <3>2. InHand(c)' = InHand(c) /\ Off(c)' = Off(c)
        BY <1>1 DEF Off, InHand
      <3> QED BY <1>1, <3>1, <3>2 DEF RingOrder, CountInv
    <2> QED BY <2>1 DEF RunInv
  <1> QED BY <1>1, <1>2, <1>3, <1>4 DEF IInv

\* The ring invariant holds in every reachable state of the card and the loop.
THEOREM RingInvariant == Spec => []IInv
  <1>1. IInv /\ [Next]_vars => IInv'
    <2> SUFFICES ASSUME IInv, [Next]_vars PROVE IInv'
      OBVIOUS
    <2>1. CASE StartRun
      BY <2>1, StartRunIInv
    <2>2. CASE Poll
      BY <2>2, PollIInv
    <2>3. CASE StopSignal \/ EndOfCollecting \/ UNCHANGED vars
      BY <2>3, OtherIInv
    <2>4. ASSUME NEW c \in Chan, LinkFill(c) PROVE IInv'
      BY <2>4, LinkFillIInv
    <2>5. ASSUME NEW c \in Chan, ReadAck(c) PROVE IInv'
      BY <2>5, ReadAckIInv
    <2>6. ASSUME NEW c \in Chan, FinishAssembling(c) PROVE IInv'
      BY <2>6, FinishAssemblingIInv
    <2> QED BY <2>1, <2>2, <2>3, <2>4, <2>5, <2>6 DEF Next, Assembling
  <1> QED BY InitIInv, <1>1, PTL DEF Spec

--------------------------------------------------------------------------------
(* The safety properties. *)

\* The state of the card and of DAQ_process is always well formed; in particular
\* the unsigned count numberFilledFIFOs is never decremented below 0.
THEOREM TypeCorrect == Spec => []TypeOK
  <1>1. IInv => TypeOK
    BY DEF IInv
  <1> QED BY RingInvariant, <1>1, PTL

\* DataAssembling never reads an empty acknowledge FIFO, however the 4-bit entry
\* count behaves: the count made from it is never above what really waits.
THEOREM AckSafe == Spec => []AckNeverReadEmpty
  <1>1. IInv => AckNeverReadEmpty
    <2> SUFFICES ASSUME IInv PROVE AckNeverReadEmpty
      OBVIOUS
    <2>1. ASSUME pc # "stopped", NEW c \in Chan
          PROVE numberFilledFIFOs[c] <= Len(ack[c]) + (IF InHand(c) THEN 1 ELSE 0)
      <3>1. numberFilledFIFOs[c] <= Off(c) + Len(ack[c])
        BY <2>1 DEF IInv, RunInv, Started, CountInv
      <3>2. Off(c) \in {0, 1} /\ Len(ack[c]) \in Nat
        BY ChanType DEF IInv
      <3>3. Off(c) + Len(ack[c]) = Len(ack[c]) + Off(c)
        BY <3>2
      <3> QED BY <3>1, <3>3 DEF Off
    <2>2. ASSUME pc = "ack", NEW c \in gotData PROVE ack[c] # <<>>
      <3>1. c \in Chan /\ ~InHand(c)
        BY <2>2 DEF IInv, TypeOK, InHand
      <3>2. numberFilledFIFOs[c] >= 1 /\ numberFilledFIFOs[c] <= Len(ack[c]) + 0
        BY <2>1, <2>2, <3>1 DEF IInv, RunInv, Started, CountInv
      <3>3. numberFilledFIFOs[c] \in Nat /\ Len(ack[c]) \in Nat /\ Len(<<>>) = 0
        BY <3>1, ChanType DEF IInv
      <3> QED BY <3>2, <3>3
    <2> QED BY <2>1, <2>2 DEF AckNeverReadEmpty
  <1> QED BY RingInvariant, <1>1, PTL

\* The branch that widens the entry count is dead code, for any width of the field
\* and any number of channels.
THEOREM NeverWidened == Spec => []CountNeverWidened
  <1>1. IInv => CountNeverWidened
    BY DEF IInv, RunInv, Started, CountInv, CountNeverWidened
  <1> QED BY RingInvariant, <1>1, PTL

\* The length word and the buffer that DataAssembling combines are of one block.
THEOREM LengthsMatch == Spec => []LengthMatchesBuffer
  <1>1. IInv => LengthMatchesBuffer
    BY DEF IInv, RunInv, Started, RingOrder, LengthMatchesBuffer, InHand
  <1> QED BY RingInvariant, <1>1, PTL

\* Every run hands its blocks to the event builder in order and exactly once.
THEOREM InOrder == Spec => []AssembledInOrder
  <1>1. IInv => AssembledInOrder
    BY DEF IInv
  <1> QED BY RingInvariant, <1>1, PTL

\* No buffer is lost or requested twice, and none is given to the card while
\* DataAssembling reads it.
THEOREM Conserved == Spec => []BuffersConserved
  <1>1. IInv => BuffersConserved
    <2> SUFFICES ASSUME IInv, pc # "stopped", NEW c \in Chan
                 PROVE  /\ Len(req[c]) + Len(ack[c]) + (IF InHand(c) THEN 1 ELSE 0) = NBuf
                        /\ \A i, j \in 1..Len(req[c]) : i # j => req[c][i] # req[c][j]
                        /\ InHand(c) => \A i \in 1..Len(req[c]) : req[c][i] # bufnr[c]
      BY DEF BuffersConserved
    <2> DEFINE l == Len(req[c])
               n == Len(ack[c])
               o == Off(c)
               b == bufnr[c]
    <2>1. l \in Nat /\ n \in Nat /\ o \in Nat /\ b \in Buffers
      BY ChanType DEF IInv
    <2>2. Requested(req[c], b, o + n)
      BY DEF IInv, RunInv, Started, RingOrder
    <2>3. l + (o + n) = NBuf /\ \A j \in 1..l : req[c][j] = Slot(b, (o + n) + j - 1)
      BY <2>2 DEF Requested
    <2>4. (IF InHand(c) THEN 1 ELSE 0) = o /\ (InHand(c) => o > 0)
      BY DEF Off
    <2> HIDE DEF l, n, o, b
    <2>5. l + n + o = NBuf
      BY <2>1, <2>3
    <2>6. \A j \in 1..l : (o + n) + j - 1 \in 0..(NBuf - 1)
      BY <2>1, <2>3, NBufAssumption DEF NBufAssumption
    <2>7. ASSUME NEW i \in 1..l, NEW j \in 1..l, i # j PROVE req[c][i] # req[c][j]
      <3>1. (o + n) + i - 1 # (o + n) + j - 1
        BY <2>1, <2>7
      <3> QED BY <2>1, <2>3, <2>6, <3>1, SlotFacts
    <2>8. ASSUME InHand(c), NEW i \in 1..l PROVE req[c][i] # b
      <3>1. (o + n) + i - 1 # 0 /\ 0 \in 0..(NBuf - 1)
        BY <2>1, <2>4, <2>8, NBufAssumption DEF NBufAssumption
      <3> QED BY <2>1, <2>3, <2>6, <3>1, SlotFacts
    <2> QED BY <2>4, <2>5, <2>7, <2>8 DEF l, n, b
  <1> QED BY RingInvariant, <1>1, PTL

--------------------------------------------------------------------------------
(* The card and the loop implement the abstract stream of blocks. *)

\* A block put in front of a sequence is its head, and what is appended stays behind.
LEMMA InFront ==
    ASSUME NEW x \in Nat, NEW s \in Seq(Nat)
    PROVE  /\ <<x>> \o s # <<>> /\ Head(<<x>> \o s) = x /\ Tail(<<x>> \o s) = s
           /\ Len(<<x>> \o s) = 1 + Len(s)
           /\ \A y \in Nat : Append(<<x>> \o s, y) = <<x>> \o Append(s, y)
           /\ s # <<>> => <<Head(s)>> \o Tail(s) = s
  <1>1. <<x>> \in Seq(Nat) /\ Len(<<x>>) = 1 /\ <<x>>[1] = x
    OBVIOUS
  <1>2. /\ <<x>> \o s \in Seq(Nat) /\ Len(<<x>> \o s) = 1 + Len(s)
        /\ (<<x>> \o s)[1] = x
        /\ \A i \in 1..Len(s) : (<<x>> \o s)[i + 1] = s[i]
    BY <1>1
  <1>3. <<x>> \o s # <<>> /\ Head(<<x>> \o s) = x
    BY <1>2
  <1>4. Tail(<<x>> \o s) = s
    <2>1. Tail(<<x>> \o s) \in Seq(Nat) /\ Len(Tail(<<x>> \o s)) = Len(s)
      BY <1>2
    <2>2. \A i \in 1..Len(s) : Tail(<<x>> \o s)[i] = s[i]
      BY <1>2
    <2> QED BY <2>1, <2>2, SeqEqual
  <1>5. ASSUME NEW y \in Nat PROVE Append(<<x>> \o s, y) = <<x>> \o Append(s, y)
    BY <1>1, AppendIsConcat, ConcatAssociative, <1>2, ConcatProperties
  <1>6. s # <<>> => <<Head(s)>> \o Tail(s) = s
    <2> SUFFICES ASSUME s # <<>> PROVE <<Head(s)>> \o Tail(s) = s
      OBVIOUS
    <2>1. /\ Head(s) \in Nat /\ Tail(s) \in Seq(Nat) /\ Len(Tail(s)) = Len(s) - 1
          /\ <<Head(s)>> \in Seq(Nat) /\ Len(<<Head(s)>>) = 1 /\ Head(s) = s[1]
          /\ \A i \in 1..Len(Tail(s)) : Tail(s)[i] = s[i + 1]
      OBVIOUS
    <2>2. <<Head(s)>> \o Tail(s) \in Seq(Nat) /\ Len(<<Head(s)>> \o Tail(s)) = Len(s)
      BY <2>1
    <2>3. \A i \in 1..Len(s) : (<<Head(s)>> \o Tail(s))[i] = s[i]
      BY <2>1
    <2> QED BY <2>2, <2>3, SeqEqual
  <1> QED BY <1>2, <1>3, <1>4, <1>5, <1>6

\* The abstract state, named.
waitingBar == [c \in Chan |-> Waiting(c)]
takenBar == [c \in Chan |-> Len(assembled[c])]

\* What waits on a channel that was set up: the numbers follow the taken ones.
LEMMA WaitingFacts ==
    ASSUME IInv, NEW c \in Chan, Started(c)
    PROVE  /\ Waiting(c) \in Seq(Nat) /\ Len(Waiting(c)) = Off(c) + Len(ack[c])
           /\ InHand(c) => /\ Waiting(c) = <<datasize>> \o ack[c]
                           /\ datasize = Len(assembled[c]) + 1 /\ datasize \in Nat
           /\ ~InHand(c) => Waiting(c) = ack[c]
  <1>1. ack[c] \in Seq(Nat) /\ datasize \in Nat /\ Len(ack[c]) \in Nat
    BY ChanType DEF IInv, TypeOK
  <1>2. InHand(c) => datasize = Len(assembled[c]) + 1
    BY DEF IInv, RunInv, RingOrder
  <1>3. CASE InHand(c)
    <2>1. <<datasize>> \o ack[c] \in Seq(Nat) /\ Len(<<datasize>> \o ack[c]) = 1 + Len(ack[c])
      BY <1>1, InFront
    <2> QED BY <1>1, <1>2, <1>3, <2>1 DEF Waiting, Off
  <1>4. CASE ~InHand(c)
    <2>1. 0 + Len(ack[c]) = Len(ack[c])
      BY <1>1
    <2> QED BY <1>1, <1>4, <2>1 DEF Waiting, Off
  <1> QED BY <1>3, <1>4

\* A delivered block joins the end of what waits, which is not full.
LEMMA LinkFillReceives ==
    ASSUME IInv, NEW d \in Chan, LinkFill(d)
    PROVE  Stream!Receive(d)
  <1>1. Started(d) /\ req[d] # <<>>
    BY DEF Started, LinkFill
  <1>2. /\ \A c \in Chan : InHand(c)' = InHand(c)
        /\ assembled' = assembled /\ datasize' = datasize
        /\ received' = [received EXCEPT ![d] = @ + 1]
        /\ ack' = [ack EXCEPT ![d] = Append(@, received[d] + 1)]
    BY DEF LinkFill, daq, InHand
  <1>3. Len(Waiting(d)) < NBuf
    <2> DEFINE k == Off(d) + Len(ack[d])
    <2>1. k \in Nat /\ req[d] \in Seq(Buffers) /\ bufnr[d] \in Buffers
      BY ChanType, SMTT(30) DEF IInv
    <2>2. Requested(req[d], bufnr[d], k)
      BY <1>1 DEF IInv, RunInv, RingOrder
    <2> HIDE DEF k
    <2>3. k < NBuf
      BY <1>1, <2>1, <2>2, TakeRequest
    <2> QED BY <1>1, <2>3, WaitingFacts DEF k
  <1>4. waitingBar' = [waitingBar EXCEPT ![d] = Append(@, received[d] + 1)]
    <2>1. \A c \in Chan : c # d => Waiting(c)' = Waiting(c)
      BY <1>2 DEF IInv, TypeOK, Waiting
    <2>2. Waiting(d)' = Append(Waiting(d), received[d] + 1)
      <3>1. received[d] + 1 \in Nat /\ ack[d] \in Seq(Nat) /\ datasize \in Nat
        BY ChanType DEF IInv, TypeOK
      <3>2. ack'[d] = Append(ack[d], received[d] + 1)
        BY <1>2 DEF IInv, TypeOK
      <3> QED BY <1>2, <3>1, <3>2, InFront, SMTT(30) DEF Waiting
    <2> QED BY <2>1, <2>2 DEF waitingBar
  <1>5. takenBar' = takenBar
    BY <1>2 DEF takenBar
  <1>6. Len(waitingBar[d]) < NBuf
    BY <1>3 DEF waitingBar
  <1> QED BY <1>2, <1>4, <1>5, <1>6 DEF Stream!Receive, waitingBar, takenBar

\* Popping the acknowledge FIFO changes nothing: the block in hand still waits.
LEMMA ReadAckStutters ==
    ASSUME IInv, NEW d \in Chan, ReadAck(d)
    PROVE  UNCHANGED <<waitingBar, received, takenBar>>
  <1>1. /\ pc = "ack" /\ pc' = "assemble" /\ cur' = d /\ d \in gotData
        /\ \A c \in Chan : ~InHand(c) /\ Off(c) = 0
        /\ \A c \in Chan : c # d => ~InHand(c)'
        /\ InHand(d)' /\ assembled' = assembled /\ received' = received
    BY DEF ReadAck, InHand, Off
  <1>2. ack[d] # <<>>
    <2>1. numberFilledFIFOs[d] >= 1 /\ numberFilledFIFOs[d] <= 0 + Len(ack[d])
      BY <1>1 DEF IInv, RunInv, Started, CountInv
    <2>2. numberFilledFIFOs[d] \in Nat /\ Len(ack[d]) \in Nat /\ Len(<<>>) = 0
      BY ChanType DEF IInv
    <2> QED BY <2>1, <2>2
  <1>3. datasize' = Head(ack[d]) /\ ack' = [ack EXCEPT ![d] = Tail(@)]
    BY <1>2 DEF ReadAck
  <1>4. \A c \in Chan : c # d => Waiting(c)' = Waiting(c)
    BY <1>1, <1>3 DEF IInv, TypeOK, Waiting
  <1>5. Waiting(d)' = Waiting(d)
    <2>1. ack[d] \in Seq(Nat) /\ ack'[d] = Tail(ack[d])
      BY <1>3, ChanType DEF IInv, TypeOK
    <2>2. <<Head(ack[d])>> \o Tail(ack[d]) = ack[d]
      BY <1>2, <2>1, InFront
    <2> QED BY <1>1, <1>3, <2>1, <2>2 DEF Waiting
  <1> QED BY <1>1, <1>4, <1>5 DEF waitingBar, takenBar

\* The end of DataAssembling takes the oldest block, the next in number.
LEMMA FinishTakes ==
    ASSUME IInv, NEW d \in Chan, FinishAssembling(d)
    PROVE  Stream!Take(d)
  <1>1. /\ pc = "assemble" /\ cur = d /\ InHand(d) /\ Started(d)
        /\ \A c \in Chan : ~InHand(c)'
        /\ \A c \in Chan : c # d => ~InHand(c)
        /\ ack' = ack /\ received' = received
        /\ assembled' = [assembled EXCEPT ![d] = Append(@, mem[d][bufnr[d]])]
    BY DEF FinishAssembling, Release, InHand, Started
  <1>2. /\ Waiting(d) = <<datasize>> \o ack[d] /\ datasize = Len(assembled[d]) + 1
        /\ datasize \in Nat
    BY <1>1, WaitingFacts
  <1>3. ack[d] \in Seq(Nat) /\ assembled[d] \in Seq(Nat) /\ assembled \in [Chan -> Seq(Nat)]
    BY DEF IInv, TypeOK
  <1>4. Waiting(d) # <<>> /\ Head(Waiting(d)) = datasize /\ Tail(Waiting(d)) = ack[d]
    <2>1. /\ <<datasize>> \o ack[d] # <<>> /\ Head(<<datasize>> \o ack[d]) = datasize
          /\ Tail(<<datasize>> \o ack[d]) = ack[d]
      BY <1>2, <1>3, InFront
    <2> QED BY <1>2, <2>1, Zenon
  <1>5. \A c \in Chan : c # d => Waiting(c)' = Waiting(c)
    BY <1>1 DEF Waiting
  <1>6. Waiting(d)' = Tail(Waiting(d))
    BY <1>1, <1>4 DEF Waiting
  <1>7. waitingBar' = [waitingBar EXCEPT ![d] = Tail(@)]
    BY <1>5, <1>6 DEF waitingBar
  <1>8. Len(assembled'[d]) = Len(assembled[d]) + 1
    BY <1>1, <1>3
  <1>9. takenBar' = [takenBar EXCEPT ![d] = @ + 1]
    <2>1. \A c \in Chan : c # d => assembled'[c] = assembled[c]
      BY <1>1, <1>3
    <2> QED BY <1>8, <2>1 DEF takenBar
  <1>10. waitingBar[d] # <<>> /\ Head(waitingBar[d]) = takenBar[d] + 1
    BY <1>2, <1>4 DEF waitingBar, takenBar
  <1> QED BY <1>1, <1>7, <1>9, <1>10 DEF Stream!Take, waitingBar, takenBar

\* Starting a run empties the stream.
LEMMA StartRunRestarts == StartRun => Stream!Restart
  <1> SUFFICES ASSUME StartRun PROVE Stream!Restart
    OBVIOUS
  <1>1. \A c \in Chan : Waiting(c)' = <<>> /\ Len(assembled'[c]) = 0
    BY DEF StartRun, ResetCard, NewCollectors, Waiting, InHand
  <1>2. received' = [c \in Chan |-> 0]
    BY DEF StartRun, ResetCard, NewCollectors
  <1> QED BY <1>1, <1>2 DEF Stream!Restart

\* The card, the ring of buffers and the polling loop behave as lossless, ordered
\* and bounded streams of blocks: the refinement, for every ring size.
THEOREM ImplementsStream == Spec => StreamSpec
  <1>1. Init => Stream!Init
    <2> SUFFICES ASSUME Init PROVE Stream!Init
      OBVIOUS
    <2>1. \A c \in Chan : Waiting(c) = <<>> /\ Len(assembled[c]) = 0
      BY DEF Init, Waiting, InHand
    <2> QED BY <2>1 DEF Init, Stream!Init
  <1>2. IInv /\ [Next]_vars => [Stream!Next]_(Stream!vars)
    <2> SUFFICES ASSUME IInv, [Next]_vars PROVE Stream!Next \/ UNCHANGED Stream!vars
      OBVIOUS
    <2>1. CASE StartRun
      BY <2>1, StartRunRestarts DEF Stream!Next
    <2>2. CASE Poll \/ StopSignal \/ EndOfCollecting \/ UNCHANGED vars
      <3>1. /\ ack' = ack /\ datasize' = datasize /\ assembled' = assembled
            /\ received' = received /\ \A c \in Chan : InHand(c)' = InHand(c)
        BY <2>2 DEF Poll, WithData, StopSignal, EndOfCollecting, vars, card, daq, InHand
      <3>2. \A c \in Chan : Waiting(c)' = Waiting(c)
        BY <3>1 DEF Waiting
      <3> QED BY <3>1, <3>2 DEF Stream!vars
    <2>3. ASSUME NEW c \in Chan, LinkFill(c) PROVE Stream!Next
      BY <2>3, LinkFillReceives DEF Stream!Next
    <2>4. ASSUME NEW c \in Chan, ReadAck(c) PROVE UNCHANGED Stream!vars
      BY <2>4, ReadAckStutters DEF Stream!vars, waitingBar, takenBar
    <2>5. ASSUME NEW c \in Chan, FinishAssembling(c) PROVE Stream!Next
      BY <2>5, FinishTakes DEF Stream!Next
    <2> QED BY <2>1, <2>2, <2>3, <2>4, <2>5 DEF Next, Assembling
  <1> QED BY RingInvariant, <1>1, <1>2, PTL DEF Spec, StreamSpec, Stream!Spec

================================================================================
