------------------------------- MODULE FilarRing -------------------------------
(***************************************************************************)
(* The FILAR card and the DAQ loop that empties it (filar_side).           *)
(*                                                                         *)
(* The card holds, per channel, a request FIFO of buffer addresses and an  *)
(* acknowledge FIFO of block lengths.  A block that arrives is stored in   *)
(* the buffer at the head of the request FIFO and its length is appended   *)
(* to the acknowledge FIFO.  An acknowledge word does NOT say which buffer *)
(* was filled: DataAssembling takes buffer bufnr on trust, by counting.    *)
(* Nor does the loop ask the FIFO whether it is empty: it relies on        *)
(* numberFilledFIFOs, rebuilt from a 4-bit field of the status register.   *)
(*                                                                         *)
(* A block is identified by its number in the run; the same number in the  *)
(* acknowledge FIFO stands for the length word of that block.              *)
(***************************************************************************)
EXTENDS Integers, Sequences

CONSTANTS
    Chan,       \* the channels that are read: {1}, or {1, 2} with enable_CSM2
    NBuf,       \* nbRequestedBuf, 30 in the code
    FifoMod,    \* 2^4: what the 4-bit entry count of the status register can tell apart
    Wraps,      \* TRUE: the entry count wraps at FifoMod; FALSE: it sticks at FifoMod - 1
    MaxBlocks   \* bound on the blocks the link delivers in a run

ASSUME ChanAssumption == Chan \subseteq 1..4
ASSUME NBufAssumption == NBuf \in Nat \ {0}
ASSUME FifoAssumption == FifoMod \in Nat \ {0, 1} /\ Wraps \in BOOLEAN
ASSUME MaxBlocksAssumption == MaxBlocks \in Nat

VARIABLES
    \* the card and the memory it writes
    req,        \* req[c]: buffers in the request FIFO
    ack,        \* ack[c]: blocks in the acknowledge FIFO
    mem,        \* mem[c][b]: the block of this run in buffer b, NoBlock if none
    received,   \* received[c]: number of blocks delivered in this run
    \* the DAQ process
    DAQState,   \* "Running" or "Idle", set to Idle by a signal handler
    pc,         \* where DAQ_process is
    gotData,    \* channels of this round still to be assembled (gotData1, gotData2)
    cur,        \* the channel whose block is being assembled
    datasize,   \* the acknowledge word read for it
    bufnr,      \* bufnr[c]: the buffer the next acknowledge word is matched with
    numberFilledFIFOs,  \* numberFilledFIFOs[c]: entries believed to wait
    assembled   \* assembled[c]: the blocks handed to the event builder in this run

card == <<req, ack, mem, received>>
daq == <<pc, gotData, cur, datasize, bufnr, numberFilledFIFOs, assembled>>
vars == <<card, DAQState, daq>>

Buffers == 0 .. NBuf - 1
NoBlock == 0

TypeOK ==
    /\ req \in [Chan -> Seq(Buffers)]
    /\ ack \in [Chan -> Seq(Nat)]
    /\ mem \in [Chan -> [Buffers -> Nat]]
    /\ received \in [Chan -> Nat]
    /\ DAQState \in {"Running", "Idle"}
    /\ pc \in {"stopped", "poll", "ack", "assemble"}
    /\ gotData \subseteq Chan
    /\ cur \in 1..4
    /\ datasize \in Nat
    /\ bufnr \in [Chan -> Buffers]
    /\ numberFilledFIFOs \in [Chan -> Nat]
    /\ assembled \in [Chan -> Seq(Nat)]

Init ==
    /\ req = [c \in Chan |-> <<>>]
    /\ ack = [c \in Chan |-> <<>>]
    /\ mem = [c \in Chan |-> [b \in Buffers |-> NoBlock]]
    /\ received = [c \in Chan |-> 0]
    /\ DAQState = "Idle"
    /\ pc = "stopped"
    /\ gotData = {}
    /\ cur = 1
    /\ datasize = NoBlock
    /\ bufnr = [c \in Chan |-> 0]
    /\ numberFilledFIFOs = [c \in Chan |-> 0]
    /\ assembled = [c \in Chan |-> <<>>]

--------------------------------------------------------------------------------
(* The card. *)

\* The entry count a status read returns when k acknowledge words wait.
FifoStat(k) ==
    IF k < FifoMod THEN k
    ELSE IF Wraps THEN k % FifoMod ELSE FifoMod - 1

\* The link delivers a block of c into the buffer at the head of the request FIFO.
LinkFill(c) ==
    /\ req[c] # <<>>
    /\ received[c] < MaxBlocks
    /\ received' = [received EXCEPT ![c] = @ + 1]
    /\ mem' = [mem EXCEPT ![c][Head(req[c])] = received[c] + 1]
    /\ req' = [req EXCEPT ![c] = Tail(@)]
    /\ ack' = [ack EXCEPT ![c] = Append(@, received[c] + 1)]
    /\ UNCHANGED <<DAQState, daq>>

--------------------------------------------------------------------------------
(* The DAQ process. *)

\* (variant: the acknowledge FIFO is not emptied)
RequestBuffersOnly ==
    /\ req' = [c \in Chan |-> [i \in 1..NBuf |-> i - 1]]
    /\ UNCHANGED ack
    /\ mem' = [c \in Chan |-> [b \in Buffers |-> NoBlock]]
    /\ received' = [c \in Chan |-> 0]

\* daqEvInit: the card is reset and every buffer is requested again, in order.
ResetCard ==
    /\ req' = [c \in Chan |-> [i \in 1..NBuf |-> i - 1]]
    /\ ack' = [c \in Chan |-> <<>>]
    /\ mem' = [c \in Chan |-> [b \in Buffers |-> NoBlock]]
    /\ received' = [c \in Chan |-> 0]

\* (variant: the ring goes on where the last run left it)
CollectorsGoOn ==
    /\ UNCHANGED bufnr
    /\ numberFilledFIFOs' = [c \in Chan |-> 0]
    /\ assembled' = [c \in Chan |-> <<>>]
    /\ DAQState' = "Running"

\* The constructor of CollectCSMData, for every channel.
NewCollectors ==
    /\ bufnr' = [c \in Chan |-> 0]
    /\ numberFilledFIFOs' = [c \in Chan |-> 0]
    /\ assembled' = [c \in Chan |-> <<>>]
    /\ DAQState' = "Running"

\* InitToStartRun, and the entry of DAQ_process.
StartRun ==
    /\ pc = "stopped"
    /\ ResetCard
    /\ NewCollectors
    /\ pc' = "poll"
    /\ gotData' = {}
    /\ UNCHANGED <<cur, datasize>>

\* The new value of numberFilledFIFOs when it was n and the status field reads f.
Recount(n, f) ==
    IF f >= n THEN f
    ELSE IF n >= FifoMod - 1 THEN FifoMod + f ELSE n

\* (variants: a channel is served only when two blocks wait, or always)
WithTwoBlocks(counts) == {c \in Chan : counts[c] > 1}
WithAny(counts) == {c \in Chan : counts[c] >= 0}

\* The channels to serve when the entries are counted so.
WithData(counts) == {c \in Chan : counts[c] > 0}

\* One status read of the polling loop, which spins until some channel has data.
Poll ==
    /\ pc = "poll"
    /\ DAQState = "Running"
    /\ numberFilledFIFOs' =
         [c \in Chan |-> Recount(numberFilledFIFOs[c], FifoStat(Len(ack[c])))]
    /\ gotData' = WithData(numberFilledFIFOs')
    /\ pc' = IF gotData' = {} THEN "poll" ELSE "ack"
    /\ UNCHANGED <<card, DAQState, cur, datasize, bufnr, assembled>>

\* The head of DataAssembling: pop the acknowledge FIFO of the lowest channel
\* that got data.  Reading an empty FIFO returns no block's length.
ReadAck(c) ==
    /\ pc = "ack"
    /\ c \in gotData /\ \A d \in gotData : c <= d
    /\ cur' = c
    /\ datasize' = IF ack[c] = <<>> THEN NoBlock ELSE Head(ack[c])
    /\ ack' = IF ack[c] = <<>> THEN ack ELSE [ack EXCEPT ![c] = Tail(@)]
    /\ pc' = "assemble"
    /\ UNCHANGED <<req, mem, received, DAQState, gotData, bufnr, numberFilledFIFOs, assembled>>

\* (variants: the ring index wraps one buffer too late, or too early)
NextBufferLate(b) == IF b = NBuf THEN 0 ELSE b + 1
NextBufferEarly(b) == IF b + 2 = NBuf THEN 0 ELSE b + 1

NextBuffer(b) == IF b + 1 = NBuf THEN 0 ELSE b + 1

\* (variants: the count is not decremented, or the index moves on first)
ReleaseUncounted(c) ==
    /\ req' = [req EXCEPT ![c] = Append(@, bufnr[c])]
    /\ bufnr' = [bufnr EXCEPT ![c] = NextBuffer(@)]
    /\ UNCHANGED numberFilledFIFOs
ReleaseNext(c) ==
    /\ req' = [req EXCEPT ![c] = Append(@, NextBuffer(bufnr[c]))]
    /\ bufnr' = [bufnr EXCEPT ![c] = NextBuffer(@)]
    /\ numberFilledFIFOs' = [numberFilledFIFOs EXCEPT ![c] = @ - 1]

\* The tail of DataAssembling: the buffer is requested again, and the ring index and
\* the count move on.
Release(c) ==
    /\ req' = [req EXCEPT ![c] = Append(@, bufnr[c])]
    /\ bufnr' = [bufnr EXCEPT ![c] = NextBuffer(@)]
    /\ numberFilledFIFOs' = [numberFilledFIFOs EXCEPT ![c] = @ - 1]

\* The words of the buffer are decoded (by EventBuilder), which may ask for the end of
\* the run, and the buffer is released.
FinishAssembling(c) ==
    /\ pc = "assemble"
    /\ cur = c
    /\ assembled' = [assembled EXCEPT ![c] = Append(@, mem[c][bufnr[c]])]
    /\ DAQState' \in {DAQState, "Idle"}
    /\ Release(c)
    /\ gotData' = gotData \ {c}
    /\ pc' = IF gotData' = {} THEN "poll" ELSE "ack"
    /\ UNCHANGED <<ack, mem, received, cur, datasize>>

\* SIGUSR2 from the parent, at any moment of a run.
StopSignal ==
    /\ pc # "stopped"
    /\ DAQState' = "Idle"
    /\ UNCHANGED <<card, daq>>

\* (variant: the run ends only when nothing waits any more)
EndWhenDrained ==
    /\ pc = "poll"
    /\ DAQState = "Idle"
    /\ \A c \in Chan : numberFilledFIFOs[c] = 0
    /\ pc' = "stopped"
    /\ UNCHANGED <<card, DAQState, gotData, cur, datasize, bufnr, numberFilledFIFOs, assembled>>

\* The loop sees Idle, closes the files and returns to the command loop.
EndOfCollecting ==
    /\ pc = "poll"
    /\ DAQState = "Idle"
    /\ pc' = "stopped"
    /\ UNCHANGED <<card, DAQState, gotData, cur, datasize, bufnr, numberFilledFIFOs, assembled>>

Assembling(c) == ReadAck(c) \/ FinishAssembling(c)

Next ==
    \/ StartRun \/ Poll \/ StopSignal \/ EndOfCollecting
    \/ \E c \in Chan : LinkFill(c) \/ Assembling(c)

Spec == Init /\ [][Next]_vars

\* The DAQ process is a loop on a processor of its own: it always goes on.  Nothing
\* is assumed of the link, of the operator who starts runs, nor of the signals.
FairSpec ==
    /\ Spec
    /\ WF_vars(Poll)
    /\ WF_vars(EndOfCollecting)
    /\ \A c \in Chan : WF_vars(Assembling(c))

--------------------------------------------------------------------------------
(* Properties. *)

InHand(c) == pc = "assemble" /\ cur = c

\* DataAssembling pops the acknowledge FIFO without asking whether it is empty
\* (class_CSM.cpp:188): a channel chosen by the count must really have a block.
\* The count is made from a 4-bit field, so it may be low, never high.
AckNeverReadEmpty ==
    /\ pc = "ack" => \A c \in gotData : ack[c] # <<>>
    /\ \A c \in Chan :
         pc # "stopped" => numberFilledFIFOs[c] <= Len(ack[c]) + (IF InHand(c) THEN 1 ELSE 0)

\* Every channel with a count above zero is served before the status is read again, so
\* that the count has fallen below 15 by then: the branch of DAQ_process that adds 16
\* to the field (CSMMiniDAQ_dualCSM.cpp:1509) is never taken.
CountNeverWidened ==
    pc = "poll" => \A c \in Chan : numberFilledFIFOs[c] < FifoMod - 1

\* The length read from the acknowledge FIFO belongs to the block in buffer bufnr,
\* although nothing in the acknowledge word says so: the ring never slips, and
\* the card never overwrites a buffer while DataAssembling reads it.
LengthMatchesBuffer ==
    \A c \in Chan : InHand(c) => mem[c][bufnr[c]] = datasize

\* Blocks reach the event builder exactly once and in the order of arrival.
AssembledInOrder ==
    \A c \in Chan : \A i \in 1..Len(assembled[c]) : assembled[c][i] = i

\* Every buffer is in one place: free in the request FIFO, filled and waiting, or
\* in the hands of DataAssembling.  None is lost and none is requested twice.
BuffersConserved ==
    pc # "stopped" =>
      \A c \in Chan :
        /\ Len(req[c]) + Len(ack[c]) + (IF InHand(c) THEN 1 ELSE 0) = NBuf
        /\ \A i, j \in 1..Len(req[c]) : i # j => req[c][i] # req[c][j]
        /\ InHand(c) => \A i \in 1..Len(req[c]) : req[c][i] # bufnr[c]

\* A delivered block is assembled unless the run is being stopped, even when the
\* link delivers nothing more.  It needs the entry count not to wrap: see the README.
DeliveredIsAssembled ==
    \A c \in Chan : \A k \in 1..MaxBlocks :
      (pc # "stopped" /\ received[c] >= k) ~> (Len(assembled[c]) >= k \/ DAQState = "Idle")

\* A stop request ends the run: DAQ_process leaves both of its loops.
StopEndsRun == (DAQState = "Idle") ~> (pc = "stopped")

\* The card and the loop implement the abstract stream of blocks, where the block
\* in hand still counts as waiting.
Waiting(c) ==
    IF InHand(c) THEN <<datasize>> \o ack[c] ELSE ack[c]

Stream == INSTANCE BlockStream
            WITH Room <- NBuf,
                 waiting <- [c \in Chan |-> Waiting(c)],
                 taken <- [c \in Chan |-> Len(assembled[c])]

\* Every step of the card and of the loop is a step of the abstract stream.
StreamSpec == Stream!Spec
================================================================================
