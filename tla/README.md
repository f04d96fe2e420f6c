# sMDT MiniDAQ: TLA+ models and proofs

The MiniDAQ reads out muon drift tube chambers. Front-end cards (mezzanines) send their
data to a CSM, the CSM sends it over an optical link to a FILAR card in the DAQ machine,
and `CSMMiniDAQ` (`src/filar_side`) builds events from it, writes them to a file and
serves them to an online display. A host program (`src/labwindows`) configures the
electronics and controls the runs over a socket. These modules model the part of the
system that works while data is taken: the FILAR ring, the cycle synchronisation, the event
builder, the packet writer, the counters and the run control between the host and the two
processes of `CSMMiniDAQ`; and the two programs (`src/offline_merge`) that clean the data
files of two CSMs and merge them.

Run a model with `tlc -config <cfg> <MC module>.tla`, a proof with `tlapm <module>.tla`.

## 1. Inventory

| Component | State | Operations | Model |
|---|---|---|---|
| FILAR card and DAQ loop (`CSMMiniDAQ_dualCSM.cpp`: `daqEvInit`, `DAQ_process`; `class_CSM.cpp`: head and tail of `DataAssembling`) | request and acknowledge FIFO and memory ring per channel; `bufnr`, `numberFilledFIFOs`, `DAQState` | set up a run, poll the status register, pop an acknowledge word, release a buffer, end | `FilarRing` |
| Cycle synchronisation (`CollectCSMData::DataAssembling`, lines 212-322) | `channel`, over blocks | look for the expected spacer, search for one, count | `CycleSync` |
| Event builder (`DataAssembling`, lines 323-1420) | ring of 64 event buffers (`bufEmpty`, `bufEVID`, `gotHeader`, `gotTrailer`, `eventBuf`), `evtWRBuf` per card, `evtRDBuf`, `previousData`, `evtNumber` | one step per TDC word: header, hit, trailer; emit, force out, give up | `EventBuilder` |
| Packet writer (same function, lines 1010-1133 and 1134-1336) | `dataBuf`, `nDataWords`, `nPackedEvt`, `fileSize`, `saveRunCondition`, `CSMDataFile` | pack, flush, size limit, close | `PacketWriter` |
| Run control, DAQ machine (`main`, `ChildSigUSR1Handler`, `ChildSigUSR2Handler`) | two pipes, signals, `DAQState` twice, the shared `buffer`, `requestForStop` | forward, wait, answer; read a frame, run it; the handlers | `RunControl` |
| Run control, host (`DAQControl.c`, `TCPServer.c`) | `runState`, `requestStopByClient`, `pauseRunAsRequested`, `C_ISSUEDCMD`, `C_HAVEDATA`, `C_STATUS` | start, stop, init, pause, poll, retry, time out, give up | `RunControl` |
| Counters (`class_CSM.cpp`: `DataAssembling`, `EndOfCollecting`; `ChildSigUSR1Handler`; `CollectDAQInfor` of the host) | `singleCounter`, `analysisCounter`, the host's sums: 64-bit sums in two words, saturating counters | count, report, clear, end the run, add up | `Counters` |
| TDC and channel numbers of 18 cards (`class_CSM.cpp`: `DataAssembling`, `DataInterpretation`) | none | encode, list | `WireNumber` |
| Offline merge (`offline_merge`) | position in the file, `previous_EVID`; two files | copy events without metadata; join by EVID | `DeleteMeta`, `OfflineMerge` |
| Single event capture (`csm_utils.c`) | position in a cycle, one event | capture, build | no |
| Socket framing (`sockhelp.c`) | a partly read record | read, write | no |
| Online display (`online_display/macros/DAQ.cpp`) | a partly read packet | split into events | no |
| Setup of the electronics (`labwindows`: JTAG, TTCvi, panels) | register images | shift, write, verify | no |
| Reconstruction and calibration (`online_display/src`, `mdt_analysis_python`) | histograms, fits | numerical | no |

**How they interact.** The host and the parent process share a socket, on which commands
and answers carry no identity. The parent passes commands to the child through `pipe1`
and signals, and reads answers from `pipe2`. While a run is on the child is in
`DAQ_process`: it reads the FILAR card, calls `DataAssembling` of one collector per CSM,
and hears nothing but signals. The collector pops the acknowledge FIFO, decodes the
buffer, packs events, writes packets to the file and to the socket of the display, and
may end the run by setting `DAQState`.

**What is hard.**

* Nothing says which buffer an acknowledge word is about: the loop counts.
* The number of waiting blocks has 4 bits for up to 30 blocks.
* Nothing says which card a word is from: the collector counts from spacer to spacer, over
  blocks of which some may be lost.
* Nothing says which trigger a hit belongs to: the builder follows write pointers per card.
* Words are lost on the links, and trailers count whatever their EVID.
* Room in `dataBuf` is tested for the next event, the header written for the previous ones.
* Handlers interrupt reads, and share a buffer with the loop they interrupt. They read a
  collector that is not there before the first run.
* The parent waits for the child without a timeout, the host for the parent with one.
* Both ends may end or pause a run, and each may hear of it late.
* Counters are added up and cleared in a signal handler, at any point of an increment.
* The programs that read a data file know the metadata in it only by what it looks like.

`PROJECT.json` lists each of these under `hazards`, at its line, with the properties that
would catch it.

**What makes each part correct.** Card and loop: every block is decoded once, in order,
with its own length, from a buffer the card no longer writes. Cycle synchronisation:
after any loss, words are soon taken for the right cards again. Event builder: events come
out whole, once, in order, and damage stays where it happened. Packet writer: no
overflow, no hole in the file, true headers. Run control: an answer goes to its command,
a stop stops, everyone is answered. Counters: the sums are what was counted, on both
machines. Offline merge: the cleaned file has the events and nothing else, the merged one
each event once with the words of both.

## 2. Modules

| Module | What it is |
|---|---|
| `BlockStream` | abstract: a lossless FIFO of blocks per channel, restarted at every run |
| `FilarRing` | the card and the DAQ loop; implements `BlockStream` |
| `FilarRingProofs` | its inductive invariant, safety theorems and refinement |
| `CycleSync` | which card a word is from, over lost and damaged blocks |
| `CycleSyncProofs` | its inductive invariant and safety theorems |
| `EventBuilder` | `DataAssembling` on a stream of words, healthy or damaged |
| `EventBuilderProofs` | a healthy detector: types, whole events in order, buffers apart, when it gives up; damaged links: losses of hits and trailers are contained, no word is dropped, missed triggers heal |
| `PacketWriter` | `dataBuf`, the file, and what a reader relies on |
| `PacketWriterProofs` | types, no overflow, no hole, true headers |
| `RunControl` | host, parent, child, pipes and signals |
| `RunControlProofs` | types; parent and child keep step until the child dies or loses its way; it does neither, and the host and the child agree, while no answer is late |
| `Counters` | the sums of a run in the child and on the host, with reports at any point |
| `CountersProofs` | the sums are exact, or at worst too high, and the host follows, for every word length |
| `WireNumber` | TDC and channel numbers of 18 cards |
| `Totals`, `TotalsProofs` | the sum of a sequence of numbers, what appending and taking away do to it, and remainders |
| `DeleteMeta` | the cleaning of a data file |
| `OfflineMerge` | composes `PacketWriter`, `DeleteMeta` and the merge of two files |
| `OfflineMergeProofs` | the data file is that of `PacketWriter`, it is cleaned exactly and to its end, two cleaned files become their union |
| `MC*` | the instances TLC checks |

Some operators are marked *(variant: ...)*. They are not part of the specifications: each
is what a plausible mistake in the code would make of the operator that follows it, and
serves to confirm that a property notices.

### FilarRing

`req[c]`, `ack[c]` are the FIFOs of channel c, `mem[c][b]` says which block buffer b holds.
A block is its number in the run, and the same number in `ack` stands for its length.
`StartRun` is `InitToStartRun` with `daqEvInit` (reset, all 30 buffers requested in order)
and the constructors of the collectors. `Poll` is one pass of the inner loop of
`DAQ_process`: read the status register, recount, choose the channels with data. `ReadAck`
is the head of `DataAssembling`, where the acknowledge FIFO is popped unasked;
`FinishAssembling` is its tail: the buffer is requested again, the ring index and the count
move on. Between the two the link may deliver more. `LinkFill` is the card. `StopSignal`
is SIGUSR2; the event builder's own stop is the choice in `FinishAssembling`.

The card is not part of the program; it is modelled from how the code uses it: 30 requests
are written before a run, so its FIFOs are at least that deep. `FifoStat` is the 4-bit field
of the status register. What it shows when 16 or more blocks wait is a parameter: it wraps,
or it sticks at 15. `Recount` is what `DAQ_process` makes of it. (The user guide in
`src/manuals` says that each FIFO is 15 deep and that further requests may be lost. If that
were so of the card in use, the ring would slip at the 16th block of every run; see
the hazard at `csm_utils.c`:73.)

`Stream` is the refinement mapping: the block in hand still counts as waiting, so that
`FinishAssembling` is `Take`, `LinkFill` is `Receive`, `StartRun` is `Restart` and the rest
stutters.

### CycleSync

A CSM sends a spacer word, a word of each of 18 cards, a spacer, and so on. `channel` counts
from the last spacer. `Arrive` is what `DataAssembling` does before its loop: bring the count
back into the cycle, look for a spacer where the count says, search for one if there is none.
`NextWord` is one turn of the loop; what is done with the word is `EventBuilder`'s subject.
`given` is the history of a block: the place each word was taken for.

The block is any piece of the stream, from any place on (blocks before it may have been
lost), with a word damaged and with words missing. The look at the head of a block always
covers 19 words; those behind the end of a shorter block are what an earlier one left there,
a nondeterministic choice. In the mode without status bits a damaged spacer may still
satisfy the search but not the loop, and the model has both tests.

### EventBuilder

One step per TDC word, as in the loop over the words of a block. A word is the card, its
kind and the trigger it was taken for; the code sees the trigger only as an EVID in headers
and trailers, and so does the model. `PlaceHeader`, `PlaceHit`, `PlaceTrailer` are the
branches of the loop with all they change, `Emit` and `ForcedOut` what a complete event
does to the ring, `TooManyEvents` the stop of the run. One hit stands for any number. A
slot keeps the words of each card apart, since no property tells how they interleave.

The EVID match is modelled as `reqEVIDMatch` TRUE, the value runs are started with
(`CSMMiniDAQ_dualCSM.cpp`:193).

`Faults` says what the links may do: lose headers, hits, trailers or whole fragments,
repeat a trailer.

### PacketWriter

An event is its number and the word count packed for it, a packet the header fields a
reader uses and the events behind it. `EmitEvent` stands for both copies of the packing
code (forced and ready events): drop a huge event but for its first word, flush if the next
event does not fit, pack. `Flush` closes the file instead of writing when the limit is
reached. `EndOfCollecting` closes the file, and leaves `dataBuf` as it is.

### RunControl

`todo` is the rest of the host's current procedure, `phase` where it is with the first
command of it: SendTCPCommand tries twice. `Answered`, `TimeOut` and `GiveUp` are the three
ways `SendToClients` and `WaitForTCPClientReply` return. `HostRead` is `ReadTCPData` with
`HandleVariesData`. `ParentTake` handles one command, `ParentReply` passes the answer of
the child on. `HandleUSR1`, `HandleUSR2` are the handlers, which may run wherever the child
is; `AfterSignal` lets them interrupt a blocked read of `pipe1`, after which the loop reads
the rest of a frame with whatever `buffer[0]` holds. `Misread` and `Discard` are what
becomes of such a frame when the stale length is at least its own.
`Counters` is the answer to SIGUSR1 with the requests for a stop or a pause in it.

A frame is one item in a pipe; the messages are far shorter than a pipe's buffer, and each
is written by one call. Two-word commands are sent between runs only (`Shorts`):
"REQALLDAQINFOR" stands for all that ask for what a run has collected, which `StopDAQ` does
(`hadRun`), and "PROBE" for CMDPROBE, which any time between runs may be sent.

The model follows the child up to two events.

* `Crash`. `collector` says that `p_CollectCSMData_1` is not NULL. No reader of it asks:
  neither `ChildSigUSR1Handler` nor the commands for what a run has collected. Before the first run
  the child dies of them, and since the parent holds both ends of `pipe2` open, its
  read of the answer never returns.
* `LoseTheWay`. With the length of a two-word command in `buffer[0]`, an interrupted read goes
  on with two words of the next frame. If that one carries run conditions, the rest of it stays
  in the pipe, and its words are read as lengths, each with as many words behind it, and
  checked and answered one by one. Most of the answers have status 2, but two words that
  are 1 in a row are a correct CMDPROBE: what follows depends on the values the operator has set,
  and the pairing of answers with commands is shifted from then on. The model answers the
  first piece, which cannot be correct (2 plus the length of the frame is no command), and leaves it
  there: in the state "lost" the child does nothing.

Both need a late answer (`ChildStaysInStep` in section 5), and what the properties claim is
limited to a child that is alive only where late answers are admitted.

### Counters

`singleCounter` counts an interval, `analysisCounter` the run, `hostCounter` is the host's
sum. One wide counter (two words) and one narrow one (an error counter, which stays at the
largest word) stand for all of their kind. `Count` and `Store` are the load and the store
of an increment: the Makefile of `filar_side` asks for no optimisation, so `++` is not one
instruction. `Report` is `ChildSigUSR1Handler`, which may come between any two steps.
`EndOfCollecting` and the steps behind it are the sums at the end of a run, in the order of
the code: they compare with the counter as it is by then, not as it was loaded. `Hear` is
`CollectDAQInfor`, `Drop` a report that is taken for the answer to something else (`RunControl` says how),
`RequestAll` the request of all counters when the run has been stopped.

`spoilt` is the history of what can make the sums wrong, and names the four places: a report
inside an increment, inside `EndOfCollecting`, or after it (an interval that was added but
not cleared), and an interval of more than 2^32 counts. The increment of a `...HIGH` word
is one step here; the extremes and the last values among the counters are left out.

### WireNumber

A word has 4 bits for the TDC. `Encoded` is what `DataAssembling` writes for a card and a
channel, `Decoded` what `DataInterpretation` lists.

### DeleteMeta and OfflineMerge

A file is a sequence of words as `PacketWriter` writes them: 11 words of metadata, then
events, each a header and its edges. `DeleteMeta` does not count words: it looks for the
EVID expected next. A word is therefore modelled by what it looks like. The length of a packet reads
as the header of an event; the run number as an edge, a header or something else
(`RunNumbers`), and the words behind it may be anything (`Meta`). Once the program takes one of these for
the next word the model stops following it (`LoseTheWay`), and the properties say when that may happen.
One action is one turn of the main loop of `DeleteMeta.cpp`, with its look-ahead; the reads
that fail near the end of the file are in `StopAtEnd`.

`OfflineMerge` is the way of a run: `Record` writes it with the actions of
`PacketWriter`, `StartCleaning` damages it (one error word, or one missed trigger) and opens
it, `MergeWords` is one turn of the loop of `OfflineMerge.cpp` (`MergeHeaders`, `CopyFirst`,
`CopySecond`, else `Mismatch`), `CopyTail` its last part. A file whose cleaning stopped may still be merged.
Events are shorter than 240 words and have no headers and trailers of the cards: `DeleteMeta`
takes longer ones for metadata and those words for errors.

## 3. Runs

| Run | Instance | Question |
|---|---|---|
| `MCFilarRing_wrap` | 1 channel, 30 buffers, count modulo 16, wraps, 61 blocks | Does the ring ever slip, is an empty FIFO ever read, does a stop end the run? |
| `MCFilarRing_two` | 2 channels, 3 buffers, count sticks at 1, 4 blocks | Is it a lossless stream per channel, and is a delivered block assembled? |
| `MCCycleSync` | 3 cards, blocks of up to 8 words | When are words taken for the right cards, after any loss? |
| `MCEventBuilder_clean` | 2 cards, 3 slots, EVID modulo 4, 7 triggers | Does a healthy detector give whole events in order, for every interleaving? |
| `MCEventBuilder_damaged` | 2 cards, 4 slots, EVID modulo 9, 6 triggers, any 2 words or triggers lost or trailers repeated | Is the damage contained, does it heal after a missed trigger, is any word dropped or recorded twice? |
| `MCEventBuilder_trailers` | 4 triggers, 1 repeated trailer | Has a complete event all its trailers? No: finding 1 |
| `MCPacketWriter_packs` | 20 words, events of 1, 8, 9 words, 125 words of file, 10 events | Does `dataBuf` overflow, has the file a hole, are its headers and run conditions true? |
| `MCPacketWriter_ends` | the same, 4 events | Is the run in the file when it has ended? No: finding 2 |
| `MCRunControl_signals` | two timeouts | Has each command its own answer, always? While answers are in time: are stops effective, do procedures end, are requests of the child followed? |
| `MCRunControl_giveup` | two timeouts | Is a run that is reported stopped really stopped? No: finding 3 |
| `MCCounters` | words of 3 values, 5 counts in steps of 1 and 2, 2 reports under way | Are the sums exact over every carry, where can a report spoil them, and is a count ever lost? |
| `MCOfflineMerge` | `dataBuf` of 16 words, 6 events of 0, 1 or 2 words, EVID modulo 4, one error word or missed trigger | Is the cleaned file exact, when does cleaning stop, is the merged file the union? |

### Bounds

* The ring: one channel has the sizes of the code, and 61 blocks go round the ring twice. Two
  channels have 3 buffers with a count modulo 2, which keeps what matters: the count cannot
  tell all fillings apart. The proofs are for all sizes.
* Cycle synchronisation: a cycle of four words, and blocks of up to two cycles, so that blocks are
  shorter and longer than the look-ahead and have up to two spacers. One damaged word
  and one gap per block. The proofs are for any number of cards and any damage.
* The event builder: three slots are a ring in which a slot is before, at or behind another.
  7 triggers go round it more than twice and round the EVIDs more than once. With damage
  the ring has four slots, and 6 triggers go round it once and a half: in a ring of three a card
  that has missed a trigger is never far enough ahead for a later event to come out in two
  pieces while there is room for both, which is the interesting case of `HealsAfterMiss`. There the
  EVIDs are more than twice the slots (64 and 4096 in the code): with fewer, an event that a missed
  header left behind in the ring may be taken for a new one of the same EVID, which
  `MissesAreRecent` excludes. Two cards are a fast one and a slow one. The proofs are for all
  sizes.
* The packet writer: 20 words for 4096 and events that are small, just fit, or are huge. Ten
  events are more than five packets, so that all run conditions are written, and reach the
  size limit. The proofs are for all sizes.
* Run control: `MaxTimeouts` counts the 10 s timeouts and the 4 s give-ups together.
  Everything else is bounded by the protocol: one command at a time. The invariants that
  speak of answers in time are about states without a timeout so far, of which the search is complete.
  Two are enough for what late answers can do: a start that times out and is then given up
  makes the host believe in a run that is not on, from which both `Crash` and, with a
  two-word command late before it, `LoseTheWay` are reached. With three the run passes too; it
  is kept at two for its length.
* The counters: with words of three values the sums carry, a narrow counter reaches the
  largest word and passes it, and an interval can be longer than a word. The proofs are for
  all word lengths and steps, with no bound on counts and reports but the constants.
* The offline merge: packets of 14 to 16 words have one to three events, six events make
  two to four packets, and EVIDs wrap. The length 16 reads as event 1 without words, as 0x1000 does
  in the code. A card's longest event and `HighCount` keep the order they have in the code. The
  other CSM's file is empty, shorter, as long, or longer.

### Fairness

* `FilarRing`: the DAQ process has a loop of its own and goes on (WF on `Poll`,
  `EndOfCollecting` and `Assembling`). Nothing is assumed of the link, of who starts runs or
  of signals.
* `EventBuilder`: a card that has words is read out (WF on `Deliver` for each card), since a
  CSM cycle carries a word of every card.
* `RunControl`: the programs run and signals are delivered (WF). The main loop of the host
  polls and looks at `requestStopByClient` between the procedures the operator starts,
  however many those are (SF, as its turn comes again and again). A pause that was asked for
  ends after 5 s of answered polls, which the model, having no clock, states as SF on the
  answer that ends it.

### Deadlock

Deadlock is checked for the ring, the cycle synchronisation, the packet writer and the run
control. There `Standstill` lets a system go on as it is whose child is dead or lost, since the
parent's wait for it is what the code does; it is the reason why the properties speak
of a child that is alive, and hides nothing of the states in which it is. The runs of `EventBuilder` end when the triggers are used up or the builder gives up,
`Counters` follows a single run to its end, and the programs of `OfflineMerge` end; it is
not checked there.

## 4. What the runs show

*The ring never slips.* With one acknowledge word per request, counting is enough, for both
behaviours of the entry count, because a recount is never too high. It may be too low. The
branch of `DAQ_process` that adds 16 to a field that has wrapped asks for a count of at least
15, but every round serves each counted channel, so that the count is below 15 at
the next status read: the branch is never taken (`CountNeverWidened`). The count then stays
at most 15 whatever waits, which costs nothing but for one case: when exactly 16 blocks wait
and the count is 0, a wrapping field reads 0 and they stay until the next block comes. This
is why `DeliveredIsAssembled` is checked with a count that sticks, and the wrapping case only
for safety.

*The cards are found again.* After any loss, the words from an intact spacer to the next damage
are taken for the right cards, and a block that starts with a whole cycle is right from its
first word on. For a damaged first cycle, or a block shorter than a cycle, nothing can be
promised before the first spacer. `DataAssembling_triggerless` has an older search that reads
the expected word again and again; with it (`NoSearch`) the second promise fails.

*A healthy detector is built correctly* however the cards are interleaved, until a card is
a whole ring ahead; only then does the builder give up.

*A lost trailer or hit damages one event.* Its words come out in a forced event of the right
number. *A missed trigger* may leave the write pointers of the cards apart for good. While a card
is ahead of the others by then, its later headers open slots that the others, writing
behind, do not find before their own are taken, and event after event comes out in
pieces; that one missed trigger costs at most the next event is not true. What is
true, for any number of misses, is that it ends: once an event has come out whole, the next one
does unless a trigger of it is missed (`HealsAfterMiss`). *A lost header* has no such
guarantee: the rest of its fragment goes where the write pointer is, and its trailer may
close another event. What still holds for all faults is that no word is dropped or doubled
by the pointers (`WordsConserved`).

*A signal may interrupt a read* and make the loop read the rest of a frame behind an old
length. Only a stop can be misread, it is answered with status 2, and the repetition by
`StopDAQ` is enough, as long as answers are in time. Then the length in `buffer[0]` is
never too short for what is read behind it, and the parent and the child keep step.

*Late answers may end that.* When a start was given up, which counts as done, the host
believes in a run that is not on. It may pause, resume and stop it, and the stop interrupts the
read of an idle child behind the length of an earlier two-word command: the child loses its way in
the frame. Or, before the first run, the host asks for counters there are none of, and the
child dies. `AnswersItsCommand` and `SignalsAreAnswered` hold up to these events, however many
answers are late, and not beyond; no document promises more.

*The sums of a run are right* over every carry, on both machines, unless a report comes at
one of the places in `spoilt`. In the middle of an increment it counts an interval twice; after
the end of a run it counts the last interval twice, since `EndOfCollecting` does not clear it; in
the middle of `EndOfCollecting` it may lose a carry. But for the last case, and an interval longer
than a word, sums are never too low. What the host misses of the reports it gets at the end.

*A file is cleaned exactly* although `DeleteMeta` tells events from metadata by their looks,
with two exceptions, both of the word 0x1000, which is event 1 without words and the length of a
packet that fills `dataBuf`: where the one is taken for the other, events are lost or
metadata is kept (`Ambiguous`). An error word costs the rest of its event; in the last event it
keeps the program from ending, since the search for the next header does not look
at the end of the file. At a missed trigger cleaning stops, as it should. *Two clean files are
merged exactly*, whichever is the longer.

### Findings

1. `EndsWithAllTrailers` (`class_CSM.cpp`:720). `CSMMiniDAQ_note.txt`:38 says an event ends
   with the trailers of its own EVID; the code notes any trailer. A repeated trailer
   completes the next event too early.
2. `RunIsRecorded` (`class_CSM.cpp`:1438). `CSMMiniDAQ_note.txt`:42 says events are written
   at the end of a block as well; the code writes only when `dataBuf` is full, and
   `CloseAllFiles` does not: the last events of a run are lost.
3. `StopsWhatItReports` (`DAQControl.c`:2426). A command that was given up counts as done,
   and answers name no command: a late answer to the start is taken for that of the stop,
   which is then reported as successful while the run begins.

A further stale flag has no property: when the operator resumes by hand a pause the child
asked for, `pauseRunAsRequested` stays set, and a later pause of the operator in the same
run is lifted by the next answer.

## 5. Proofs

All theorems are checked by TLAPS down to the leaves, for all values of the constants that
meet the assumptions of the modules.

**FilarRingProofs** assumes `ChanAssumption` (channels are among the card's four),
`NBufAssumption` (at least one buffer) and `FifoAssumption` (the entry count can tell at least
two values apart; 16 in the code). Nothing bounds the blocks or the runs.

None of the safety properties is inductive: that the length belongs to the buffer depends on
what the acknowledge FIFO holds, and that on where the request FIFO points. `IInv` therefore
describes the whole ring of a channel. Read from `bufnr` on, it consists of the buffer
in hand, if there is one, then the acknowledged buffers, oldest first, each with its
block in memory, then the requested ones, `NBuf` in all (`RingOrder`). Next to it `CountInv`
says that the count is never higher than what waits, and back below its top once a
channel has been served. The lemma `RecountBound` is the
arithmetic of the 4-bit field: recounting never overshoots. One lemma per action shows that
it keeps `IInv` (`RingInvariant`); then

* `TypeCorrect`, `AckSafe`, `NeverWidened`, `LengthsMatch`, `InOrder`, `Conserved` are
  `[]TypeOK`, `[]AckNeverReadEmpty`, `[]CountNeverWidened`, `[]LengthMatchesBuffer`, `[]AssembledInOrder`, `[]BuffersConserved`;
* `ImplementsStream` is the refinement: each action is a step of `BlockStream` or a
  stutter. `IInv` is what makes `FinishAssembling` a `Take` of the right block.

**CycleSyncProofs** assumes `CardsAssumption` (a card at least) and `MaxBlockAssumption`. That words
are given the right place is not inductive; `IInv` adds that the count follows the place
while the place is certain (`CountIsPlace`), and that it stays within a block's length of a
cycle (`CountBound`). `OneSpacer` is the arithmetic of the first cycle and `HeadOfBlock` the heart:
expectation and search give the same count there. `TypeCorrect`, `SpacerRestores` and
`SearchRestores` are `[]TypeOK`, `[]RightAfterSpacer` and `[]RightFromFirstWord`.

**PacketWriterProofs** assumes `RecordAssumption` (more than 12 words), `SizesAssumption` and
`PacketBoundAssumption`.

* `DataBufNeverOverflows`: the room test of an event is enough because what is kept of
  any event fits into an empty `dataBuf` (`KeptFits`).
* `TypeCorrect`, `FileHasNoHole`: `FileInOrder` with the types of what it mentions is inductive.
* `HeadersAreTrue`: next to the headers written, the one in the making has to be right:
  `nDataWords` is the sum over the events in `dataBuf`, a sum that an event more or an empty
  `dataBuf` changes as `TotalAppend` and `TotalEmpty` say.

**TotalsProofs** assumes nothing. A sum over a sequence is a recursive function, and what
it is of a longer sequence needs an induction. The induction theorems of the library cannot
be used, so it is done by hand, once: of the positions at which a claim fails there is a
least one (`LeastNumber`), and the position in front of it satisfies it. `PartialSumsExist` and
`PartialSumsUnique` justify the recursion, `TotalAppend` and `TotalTail` follow. The remainders of
sums, which places in a ring and EVIDs both need, are at its end (`ModAdd`).

**RunControlProofs** holds for any number of timeouts.

* `TypeCorrect`: the type invariant needs that a procedure of the host that has sent
  something has a command in hand.
* `ParentGetsItsAnswer`: that the next message answers the command waited for is not
  inductive. `InStep` says it earlier: of the frame in `pipe1` and of a SIGUSR1 that is
  pending, before the child has dealt with them. Hence a read that a signal cut short, or a
  misread stop, never shifts the answers by one. The theorem ends where the child dies or has
  read a long frame behind the length of a two-word command (`Alive`), for it is not true
  of the code from there on.
* `ChildStaysInStep`: while no answer is late, neither of these happens. `CollectorInv` says
  why there is a collector whenever one is asked for: the host asks only while it believes in
  a run, or after one, and believes in it only because a start was answered, which
  is not done before the collector is there. That no frame is read behind too short a
  length is part of `InHand`, below.
* `OnlyStops`, `IdleHostHasNoRun`: `[]OnlyStopsAreMisread` and `[]IdleMeansStopped` relate the host to
  the child, with the socket, the parent and two pipes between them. While no answer is
  late the command in hand is in one place (`Flow`), so that what the child has done can be told by
  what the host has still to do (`InHand`): the length of a short command is left in
  `buffer[0]` only where no run is on (`ShortInv`), and `DAQ_process` runs behind an idle host only
  while the answer to a start is on its way back or the first stop on its way
  there (`RunInv`). The second half of a stop procedure never finds it running, for the child
  answers a stop, misread or not, when it has left `DAQ_process`.
* `StopsInTime`: what the finding about `StopsWhatItReports` refutes holds while no answer is late.

**CountersProofs** assumes `WordAssumption` (more than one value), `StepAssumption` and
`BoundAssumption`. `PlusWord` is the arithmetic of a carry and `AddedAdds` says what adding an
interval does to a 64-bit sum. `SumInv` describes the registers inside `EndOfCollecting`, where
the properties promise nothing: what is not yet stored is in `reg`.

* `SumsAreExact`, `CountsAreNotLost`: `[]SumsExact`, `[]NothingLost`.
* `HostIsInformed`: once the host has all counters its sum is that of the child, which
  nothing but a later report changes.
* `HostKeepsUp`: `[]HostFollows`; a report sent is a term more in the sum of those under
  way (`TotalAppend`), a report received one less (`TotalTail`).

**EventBuilderProofs** has four parts. The first assumes a healthy detector (`Faults = {}`), a card, and
`RingAssumption` (fewer slots than EVIDs). Its invariant is a window: of the `NSlots` events from
the first one not yet emitted on, slot `e % NSlots` holds what has arrived of event e, and
nothing else (`Window`); the write pointer of a card is at the slot of the event it sends
(`Pointers`); no card is more than a ring ahead (`Spread`). `ModAdd`, `ModApart`, `ModDistance` and
`ModCovers` are the arithmetic of places in the ring. A lemma for each branch of the loop shows
what it does to the slot and that the others are left alone; `TrailerCompletes` is the step that
emits an event, `FullRing` the reason to give up.

* `TypeCorrect`, `WholeEventsInOrder`, `BuffersApart`, `GivesUpWhenFull` are
  `[]TypeOK`, `[]BuildsInOrder`, `[]SlotsNotShared`, `[]StopsOnlyWhenFull`.
* `ListedAsWritten` is about `WireNumber`, for every card and channel. It has no run: there is no
  state.

The other three make no assumption on the faults or the cards. `LossesStayContained` is
`[]DamageContained`, a property of the behaviours up to the first lost header or repeated trailer.
Three things differ from the healthy window. A slot holds what was not lost. A card whose
trailer was lost still writes the slot behind, until its next header moves it on (`Writes`).
And an event that is complete takes all events before it out of the ring with it, so that the window moves
by several at once (`KeptEmit`); that those before it have got all they will ever get is
`KeptOlder`.

`TypesStayCorrect` and `NoWordIsDropped` (`[]TypeOK`, `[]WordsConserved`) go beyond that: headers are
lost, trailers repeated, the pointers of the cards drift apart, slots are forced out. There is
no window any more. Instead the event buffers are counted in the order of their emission, those
of the ring behind those emitted (`Buffers`): then emitting events moves no buffer, it only
makes a later one the oldest of the ring, and every step of the loop comes down to one word appended
to one buffer, or none if it repeats the last one (`Move`, `MoveWords`). That the word is nowhere
else is `PastInv`: what has arrived was sent before.

`MissesHeal` (`[]HealsAfterMiss`) is about cards that miss triggers, any number of them. Write
pointers, slots and events then have no fixed relation, but there is an order behind
the ring: the slots are numbered as they are opened (a place), those emitted first, and every
fragment a card has begun is at one place. The invariant `DriftInv` says that there are such
numbers: `top` places were opened, place p for event `at[p]`, card m put event x at `pos[m][x]`
and writes at `ptr[m]`. They are bound by a quantifier and chosen anew at each step, so that the
model needs no history for them. `DriftRing`, `DriftBuilt` and `DriftPointers`
tie them to the slots, to `built` and to the write pointers. What the theorem needs is
`DriftFollows`: behind a place where all cards came together is one for the next event where they
do, if nothing of that is lost. It holds because a header goes to the first slot with its EVID:
`DriftOrder` says that a place out of order is one in pieces; `NoAlias`, from `DriftBase` and
`MissesAreRecent`, that no other event of the ring has the same EVID; and `NextFound` that a
card coming from an event that is together therefore finds the next one where the others are.
`SkipDrift`, `HitDrift`, `TrailerDrift` and `HeaderDrift` are the
steps.

**OfflineMergeProofs** assumes what `OfflineMerge` does: `SizesFit` (events are shorter than 240
words, packets longer than `HighCount`), `FieldsAssumption` (more than one EVID, more than 12
words in `dataBuf`) and `OtherFilesAssumption`. Nothing bounds the files.

* `RecordsAsWriter`: the recording is a behaviour of `PacketWriter`, and the programs after it
  leave the data file alone. What is proved of `PacketWriter` therefore holds of the file that is
  cleaned; its types, the order of its events (`FileHasNoHole`) and the room in a packet
  (`DataBufNeverOverflows`) are used here.
* `MergesExactly` (`[]MergeExact`). While the loop runs there is a place of the merge
  (`MergePlace`): k events are merged but for some words r of the first file and o of the other, which
  come next, and the rest of both files starts with event k + 1. The program keeps no k; it is
  bound by a quantifier. From it follows what the words in hand may be (`WordsInHand`), so
  that two headers are always of the same event (`NeverMismatch`); `TurnMerges` is a turn of the
  loop and `TailCompletes` its end. The lemmas about `FlattenSeq` that it needs (`FlatAppend`,
  `UpToFrom`, `FromStep`) are proved as those about sums are.

* `CleansExactly`, `FinishesIfUndamaged` (`[]CleanExact`, `[]FinishesUnlessDamaged`). The program
  keeps a position in the words and the last EVID, and no trace of packets, so the proof
  begins with the file: there is a layout H of it, `H[k]` being the place of event k, and behind an
  event is either the next one or the 11 words of metadata of a packet (`Layout`, `NextThere`).
  `LayoutGrows` adds an event to it, `PacketLaidOut` a packet, and `FileLaidOut` is the
  whole file. The invariant `CleanInv` says where in the layout the program is (`CleanPlace`): behind k
  events of which all words are written (`Between`), or j words into event k (`Within`);
  or it has ended with all words written; or everything in front of a missed trigger is written
  (`Behind`), and then anything may happen. `TurnCleans` is a turn of the loop from place to
  place: `EdgeStep` within an event, `ErrorStep` at an error word, `EndStep` at the end of the file,
  and `NextStep` from one event to the next, the step in which the program must tell
  events from metadata. There the sizes of events and packets count (`LengthWord`), and
  the two readings of 0x1000 that `Ambiguous` excludes: `EmptyOneTold` says when event 1 without
  words is known for one, `LengthTold` when the length of a packet is.

**Only model-checked.** Liveness (`DeliveredIsAssembled` and the other properties under fairness),
which the provers do not cover here. Every invariant and action property of the passing runs is
proved.

## 6. Not modelled

* Contents: time and width spectra, histograms, texts, the lines of the run conditions, the
  extremes and last values among the counters, `SaveErrorSummaryFile`.
* The trigger times and status bits in the spacers, junk data and the stop it causes.
* Triggerless data taking, single event commands, CMDQUIT, SIGTERM and lost connections.
* What a child does that has lost its way in `pipe1`, in the middle of a frame.
* Several DAQ clients, automatic runs, the second CSM's request for a stop.
* The interrupted write to the display socket, and the display: its state is ROOT objects,
  and nothing in it answers to the DAQ.
* `csm_utils.c`: `captureEvent` and `buildEvent` are a second, offline event builder for
  tests started by hand; the DAQ does not use it.
* `sockhelp.c`: it reads and writes whole records, which is what `RunControl` takes the socket for.
* `DeleteMeta`'s listing of the EVIDs at its end; words of card headers and trailers.
* Setup of the electronics: most lines of `labwindows` are panels, VME registers and bit strings
  for JTAG, twice over (`CSMMiniDAQ006.5` is an older copy of the whole host program). They
  are straight sequences of register accesses whose meaning is in the hardware; there is no state of
  the program that a property could relate.
* Reconstruction, calibration and the Python analysis: numerics on single files.

These last two are by far the larger part of the repository's lines, which is why only a small
share of them is mapped.

## 7. What could follow

1. `RunControl`: the single event commands with their answers in parts,
   the second CSM, SIGTERM and reconnection.
2. `captureEvent` and `buildEvent` of `csm_utils.c` against `EventBuilder`.
3. A composition of `FilarRing`, `CycleSync`, `EventBuilder` and `PacketWriter`: a run from the
   link to the file, of which `OfflineMerge` has the second half.
