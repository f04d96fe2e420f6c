------------------------------- MODULE RunControl -------------------------------
(***************************************************************************)
(* Run control: the MiniDAQ host (labwindows, DAQControl.c and TCPServer.c)*)
(* and the two processes of CSMMiniDAQ on the DAQ machine                  *)
(* (filar_side/CSMMiniDAQ_dualCSM.cpp).                                    *)
(*                                                                         *)
(*   host --socket-- parent --pipe1, pipe2, SIGUSR1, SIGUSR2-- child       *)
(*                                                                         *)
(* The parent handles one command of the host at a time and waits for the  *)
(* answer of the child without a timeout.  While a run is on, the child is *)
(* in DAQ_process and does not read pipe1: it hears signals only.  SIGUSR1 *)
(* asks for the counters, SIGUSR2 ends the run.  The handlers are installed*)
(* without SA_RESTART, so a signal interrupts a blocked read of pipe1, and *)
(* the command loop goes on with what buffer[0] held before.               *)
(*                                                                         *)
(* The host, for its part, does give up: it waits 10 s for an answer, and  *)
(* an answer that comes later is taken for that of the next command.       *)
(*                                                                         *)
(* A frame in pipe1 is the command it carries.  Two-word commands are sent *)
(* between runs: "REQALLDAQINFOR" stands for those that ask for what the   *)
(* run has collected (CMDREQALLDAQINFOR, CMDREQEDGES, CMDREQPAIR, ...),    *)
(* "PROBE" for CMDPROBE, which asks for nothing.  The others carry the run *)
(* conditions and the file name and are all of one length.                 *)
(*                                                                         *)
(* The model follows the child up to two events that only late answers can *)
(* bring about.  It dies of a request of counters before it has a collector*)
(* of data, and it loses its way in pipe1 when it reads a frame with run   *)
(* conditions behind the length of a two-word one: what it does then       *)
(* depends on the values of the run conditions.                            *)
(***************************************************************************)
EXTENDS Integers, Sequences, SequencesExt

CONSTANT MaxTimeouts    \* bound: how often the host may run out of patience

ASSUME TimeoutAssumption == MaxTimeouts \in Nat

VARIABLES
    \* the host
    runState,       \* "Idle", "Running" or "Paused"
    requestStopByClient,  \* an answer asked for the end of the run
    pauseRunAsRequested,  \* an answer asked for a pause
    hadRun,         \* StopDAQ has been called: there is something to ask the child for
    todo,           \* the commands the current procedure still has to get through
    phase,          \* of Head(todo): "ready", "first" try sent, to "retry", "second" sent
    pollFailed,     \* the last request of the counters, or short command, failed
    node,           \* C_ISSUEDCMD, C_HAVEDATA and C_STATUS of the client
    timeouts,
    \* the socket
    toParent, toHost,
    \* the parent
    pState,         \* its DAQState
    pCmd,           \* the command it waits for the child to answer, or "none"
    \* the pipes and the pending signals
    pipe1, pipe2, usr1, usr2,
    \* the child
    DAQState,       \* "Running" or "Idle"
    cPc,            \* "read1": the length of a frame, "read2": the rest of one after an
                    \* interrupted read1, "start": a run was acknowledged, "daq": the
                    \* child is in DAQ_process, "dead", or "lost" in the middle of a frame
    buffer0,        \* what buffer[0] is the length of: "none", "short", "long" or "info"
    leftover,       \* a checksum word of a misread frame is left in pipe1
    requestForStop, \* the event builder has stopped the run
    requestForPause,\* the child has asked for a pause, and not for its end
    collector       \* p_CollectCSMData_1 is not NULL

host == <<runState, requestStopByClient, pauseRunAsRequested, hadRun, todo, phase,
          pollFailed, node, timeouts>>
parent == <<pState, pCmd>>
wants == <<requestForStop, requestForPause>>
child == <<DAQState, cPc, buffer0, leftover, wants, collector>>
sock == <<toParent, toHost>>
ipc == <<pipe1, pipe2, usr1, usr2>>
vars == <<host, sock, parent, ipc, child>>

Local == {"PAUSERUN", "RESUMERUN", "REREQDAQINFOR"}     \* the parent answers itself
Shorts == {"PROBE", "REQALLDAQINFOR"}                   \* sent by SendShortTCPCommand
Forwarded == {"INITDAQ", "STARTRUN", "STOPRUN", "REQDAQINFOR"} \cup Shorts
Commands == Local \cup Forwarded

\* An answer: the command it is for, its status word, and what it asks the host for.
Answer(c, status, ask) == [cmd |-> c, status |-> status, ask |-> ask]
Answers == [cmd : Commands, status : 0..2, ask : {"none", "stop", "pause", "resume"}]

TypeOK ==
    /\ runState \in {"Idle", "Running", "Paused"} /\ requestStopByClient \in BOOLEAN
    /\ pauseRunAsRequested \in BOOLEAN /\ hadRun \in BOOLEAN
    /\ todo \in Seq(Commands) /\ phase \in {"ready", "first", "retry", "second"}
    /\ pollFailed \in BOOLEAN
    /\ node \in [issued : BOOLEAN, haveData : BOOLEAN, status : 0..2]
    /\ timeouts \in 0..MaxTimeouts
    /\ toParent \in Seq(Commands) /\ toHost \in Seq(Answers)
    /\ pState \in {"Idle", "Running", "Paused"} /\ pCmd \in Forwarded \cup {"none"}
    /\ pipe1 \in Seq(Forwarded) /\ pipe2 \in Seq(Answers)
    /\ usr1 \in BOOLEAN /\ usr2 \in BOOLEAN
    /\ DAQState \in {"Idle", "Running"}
    /\ cPc \in {"read1", "read2", "start", "daq", "dead", "lost"}
    /\ buffer0 \in {"none", "short", "long", "info"} /\ collector \in BOOLEAN
    /\ leftover \in BOOLEAN /\ requestForStop \in BOOLEAN /\ requestForPause \in BOOLEAN

Init ==
    /\ runState = "Idle" /\ requestStopByClient = FALSE /\ pauseRunAsRequested = FALSE
    /\ hadRun = FALSE
    /\ todo = <<>> /\ phase = "ready" /\ pollFailed = FALSE
    /\ node = [issued |-> FALSE, haveData |-> FALSE, status |-> 0]
    /\ timeouts = 0
    /\ toParent = <<>> /\ toHost = <<>>
    /\ pState = "Idle" /\ pCmd = "none"
    /\ pipe1 = <<>> /\ pipe2 = <<>> /\ usr1 = FALSE /\ usr2 = FALSE
    /\ DAQState = "Idle" /\ cPc = "read1" /\ buffer0 = "none"
    /\ leftover = FALSE /\ requestForStop = FALSE /\ requestForPause = FALSE
    /\ collector = FALSE

--------------------------------------------------------------------------------
(* The host. *)

\* A procedure of the host starts: the commands it will send, one after the other.
Begin(commands) ==
    /\ todo = <<>>
    /\ todo' = commands
    /\ UNCHANGED <<pauseRunAsRequested, phase, pollFailed, node, timeouts>>
    /\ UNCHANGED <<sock, parent, ipc, child>>

StartDAQ ==
    /\ runState = "Idle"
    /\ requestStopByClient' = FALSE
    /\ Begin(<<"STARTRUN">>)
    /\ UNCHANGED <<runState, hadRun>>

\* StopDAQ resumes a paused run first, and repeats a stop that failed.
StopSequence ==
    (IF runState = "Paused" THEN <<"RESUMERUN">> ELSE <<>>) \o <<"STOPRUN", "STOPRUN">>

\* For the host the run has ended before the stop is sent.
BeginStop(commands) ==
    /\ runState' = IF runState = "Paused" THEN "Paused" ELSE "Idle"
    /\ hadRun' = (hadRun \/ runState # "Idle")
    /\ Begin(commands)
    /\ UNCHANGED requestStopByClient

StopDAQ == runState # "Idle" /\ BeginStop(StopSequence)

InitDAQ ==
    BeginStop(IF runState = "Idle" THEN <<"INITDAQ">> ELSE StopSequence \o <<"INITDAQ">>)

PauseOrResumeDAQ ==
    /\ runState # "Idle"
    /\ Begin(IF runState = "Running" THEN <<"PAUSERUN">> ELSE <<"RESUMERUN">>)
    /\ UNCHANGED <<runState, requestStopByClient, hadRun>>

\* The main loop asks for the counters five times a second; when that failed it may
\* ask for the saved ones (three times, here any number).
Poll ==
    /\ runState # "Idle" /\ ~requestStopByClient
    /\ \/ Begin(<<"REQDAQINFOR">>)
       \/ pollFailed /\ Begin(<<"REREQDAQINFOR">>)
    /\ UNCHANGED <<runState, requestStopByClient, hadRun>>

\* SendShortTCPCommand refuses while a run is on.  Its retries are further ones.  Only
\* StopDAQ asks for what the run has collected.
ShortCommand ==
    /\ runState = "Idle"
    /\ \/ Begin(<<"PROBE">>)
       \/ hadRun /\ Begin(<<"REQALLDAQINFOR">>)
    /\ UNCHANGED <<runState, requestStopByClient, hadRun>>

\* A command whose answer never came blocks the next one.
Blocked == node.issued /\ ~node.haveData

\* SendToClients writes Head(todo) to the socket.
Issue ==
    /\ toParent' = Append(toParent, Head(todo))
    /\ node' = [issued |-> TRUE, haveData |-> FALSE, status |-> 0]

Send ==
    /\ todo # <<>> /\ phase \in {"ready", "retry"} /\ ~Blocked
    /\ Issue
    /\ phase' = IF phase = "ready" THEN "first" ELSE "second"
    /\ UNCHANGED <<runState, requestStopByClient, pauseRunAsRequested, hadRun, todo>>
    /\ UNCHANGED <<pollFailed, timeouts, toHost, parent, ipc, child>>

\* The commands that are sent by SendToClients directly, without a second try.
Once == {"REQDAQINFOR", "REREQDAQINFOR"} \cup Shorts

\* The commands after Head(todo).  A stop that got through is not repeated.
Remaining(ok) ==
    IF ok /\ Head(todo) = "STOPRUN" /\ Len(todo) > 1 /\ todo[2] = "STOPRUN"
    THEN Tail(Tail(todo)) ELSE Tail(todo)

\* The end of SendTCPCommand for Head(todo) and what its caller does with the result.
Finish(ok) ==
    LET c == Head(todo)
    IN  /\ todo' = Remaining(ok)
        /\ phase' = "ready"
        /\ runState' = CASE c = "STARTRUN" -> IF ok THEN "Running" ELSE "Idle"
                         [] c = "STOPRUN" -> "Idle"
                         [] c = "PAUSERUN" -> "Paused"
                         [] c = "RESUMERUN" ->
                              IF Tail(todo) = <<>> THEN "Running" ELSE "Idle"
                         [] OTHER -> runState
        /\ pauseRunAsRequested' = (pauseRunAsRequested /\ ~(c = "STARTRUN" /\ ok))
        /\ pollFailed' = (c \in Once /\ ~ok)

\* The try that was sent has failed: SendTCPCommand tries a second time.
Failed ==
    IF phase = "first" /\ Head(todo) \notin Once
    THEN phase' = "retry" /\ UNCHANGED <<runState, pauseRunAsRequested, todo, pollFailed>>
    ELSE Finish(FALSE)

\* WaitForTCPClientReply returns with an answer.
Answered ==
    /\ phase \in {"first", "second"} /\ node.haveData
    /\ IF node.status = 0 THEN Finish(TRUE) ELSE Failed
    /\ UNCHANGED <<requestStopByClient, hadRun, node, timeouts, sock, parent, ipc, child>>

\* It returns after 10 s without one.
TimeOut ==
    /\ phase \in {"first", "second"} /\ ~node.haveData
    /\ timeouts < MaxTimeouts
    /\ timeouts' = timeouts + 1
    /\ Failed
    /\ UNCHANGED <<requestStopByClient, hadRun, node, sock, parent, ipc, child>>

\* SendToClients, blocked by an unanswered command, clears it after 4 s and returns -1
\* without sending anything; SendTCPCommand makes 0 of it (DAQControl.c:2426).
GiveUp ==
    /\ todo # <<>> /\ phase \in {"ready", "retry"} /\ Blocked
    /\ timeouts < MaxTimeouts
    /\ timeouts' = timeouts + 1
    /\ node' = [node EXCEPT !.issued = FALSE]
    /\ Finish(TRUE)
    /\ UNCHANGED <<requestStopByClient, hadRun, sock, parent, ipc, child>>

\* Repeated failures: one of the tries is sent without waiting for its answer, or, when
\* SendToClients is blocked, not at all.
SendUnawaited ==
    /\ todo # <<>> /\ phase = "ready"
    /\ pollFailed /\ Head(todo) \in {"REREQDAQINFOR"} \cup Shorts
    /\ IF Blocked THEN UNCHANGED <<toParent, node>> ELSE Issue
    /\ Finish(TRUE)
    /\ UNCHANGED <<requestStopByClient, hadRun, timeouts, toHost, parent, ipc, child>>

\* (variant: only the child ends a pause it has asked for)
NeverOver(ask) == FALSE

\* A pause that was asked for is over when it has lasted 5 s.
PauseOver(ask) ==
    /\ ask = "none" /\ runState = "Paused" /\ pauseRunAsRequested
    /\ runState' = "Running" /\ pauseRunAsRequested' = FALSE
    /\ UNCHANGED requestStopByClient

\* HandleVariesData: what the counters ask for is done, if the run is in a state for it.
\* A pause is not told to the parent.
Heard(ask) ==
    \/ /\ ask = "pause" /\ runState = "Running"
       /\ runState' = "Paused" /\ pauseRunAsRequested' = TRUE
       /\ UNCHANGED requestStopByClient
    \/ /\ ask = "resume"
       /\ runState' = IF runState = "Paused" THEN "Running" ELSE runState
       /\ pauseRunAsRequested' = FALSE
       /\ UNCHANGED requestStopByClient
    \/ /\ ask = "stop" /\ runState # "Idle"
       /\ requestStopByClient' = TRUE
       /\ UNCHANGED <<runState, pauseRunAsRequested>>
    \/ /\ \/ ask = "none" \/ (ask = "stop" /\ runState = "Idle")
          \/ ask = "pause" /\ runState # "Running"
       /\ UNCHANGED <<runState, requestStopByClient, pauseRunAsRequested>>
    \/ PauseOver(ask)

\* ReadTCPData: the first answer after a command was sent is taken for its answer,
\* the others are dropped.
HostRead ==
    /\ toHost # <<>>
    /\ toHost' = Tail(toHost)
    /\ IF node.haveData
       THEN UNCHANGED <<node, runState, requestStopByClient, pauseRunAsRequested>>
       ELSE /\ node' = [node EXCEPT !.haveData = TRUE, !.status = Head(toHost).status]
            /\ IF Head(toHost).cmd = "REQDAQINFOR" /\ Head(toHost).status = 0
               THEN Heard(Head(toHost).ask)
               ELSE UNCHANGED <<runState, requestStopByClient, pauseRunAsRequested>>
    /\ UNCHANGED <<hadRun, todo, phase, pollFailed, timeouts, toParent, parent, ipc, child>>

--------------------------------------------------------------------------------
(* The parent. *)

\* It answers c itself.  CMDREREQDAQINFOR is to send savedData again, but the buffer it
\* is copied to is overwritten with the status answer.
AnswerLocally(c) ==
    /\ pState' = CASE c = "PAUSERUN" -> "Paused" [] c = "RESUMERUN" -> "Running"
                   [] OTHER -> pState
    /\ toHost' = Append(toHost, Answer(c, 0, "none"))
    /\ UNCHANGED <<pCmd, ipc>>

\* (variant: the counters of a paused run are asked for through pipe1)
BySignalIfRunning(c) == c = "REQDAQINFOR" /\ pState = "Running"

\* The counters of a run are asked for by SIGUSR1, everything else through pipe1.
BySignal(c) == c = "REQDAQINFOR" /\ pState # "Idle"

\* It passes c on, a stop by SIGUSR2 as well, and waits.
Forward(c) ==
    LET state == CASE c = "STARTRUN" -> "Running"
                   [] c \in {"INITDAQ", "STOPRUN"} -> "Idle"
                   [] OTHER -> pState
    IN  /\ pCmd' = c
        /\ pState' = state
        /\ usr1' = (usr1 \/ BySignal(c))
        /\ usr2' = (usr2 \/ (c = "STOPRUN" /\ pState # "Idle"))
        /\ pipe1' = IF BySignal(c) THEN pipe1 ELSE Append(pipe1, c)
        /\ UNCHANGED <<toHost, pipe2>>

\* (variants: CMDPAUSERUN is passed on like any other, or a stop is answered at once)
HandleByChild(c) == Forward(c)
StopAtOnce(c) ==
    IF c = "STOPRUN"
    THEN /\ usr2' = (usr2 \/ pState # "Idle")
         /\ pState' = "Idle"
         /\ toHost' = Append(toHost, Answer(c, 0, "none"))
         /\ UNCHANGED <<pCmd, pipe1, pipe2, usr1>>
    ELSE IF c \in Local THEN AnswerLocally(c) ELSE Forward(c)

Handle(c) == IF c \in Local THEN AnswerLocally(c) ELSE Forward(c)

ParentTake ==
    /\ pCmd = "none" /\ toParent # <<>>
    /\ toParent' = Tail(toParent)
    /\ Handle(Head(toParent))
    /\ UNCHANGED <<host, child>>

ParentReply ==
    /\ pCmd # "none" /\ pipe2 # <<>>
    /\ toHost' = Append(toHost, Head(pipe2))
    /\ pipe2' = Tail(pipe2)
    /\ pCmd' = "none"
    /\ UNCHANGED <<host, toParent, pState, pipe1, usr1, usr2, child>>

--------------------------------------------------------------------------------
(* The child. *)

Alive == cPc \notin {"dead", "lost"}

\* A handler has returned and buffer[0] is b: a read of the length that waited at the
\* empty pipe1 may have been interrupted, and with b # "none" the loop then reads the
\* rest of a frame.
AfterSignal(b) ==
    \/ UNCHANGED cPc
    \/ cPc = "read1" /\ ~leftover /\ b # "none" /\ cPc' = "read2"

\* (variant: the request for a stop is not passed on)
CountersOnly ==
    /\ collector
    /\ pipe2' = Append(pipe2, Answer("REQDAQINFOR", 0, "none"))
    /\ UNCHANGED requestForPause

\* ChildSigUSR1Handler sends the counters of the collector, and what the child wants: a
\* stop, or a pause when numberFilledFIFOs is at least 8, and its end when it is less
\* than 2.
Counters ==
    /\ collector
    /\ \E ask \in IF requestForStop THEN {"stop"}
                  ELSE {"none", IF requestForPause THEN "resume" ELSE "pause"} :
         /\ pipe2' = Append(pipe2, Answer("REQDAQINFOR", 0, ask))
         /\ requestForPause' = CASE ask = "pause" -> TRUE [] ask = "resume" -> FALSE
                                 [] OTHER -> requestForPause

\* (variant: buffer[0] keeps the length of the counters)
LengthOfCounters == "info"

\* What it leaves in buffer[0]: it uses the buffer of the command loop.
LengthAfterCounters == IF DAQState = "Idle" THEN "none" ELSE "info"

HandleUSR1 ==
    /\ Alive /\ usr1
    /\ usr1' = FALSE
    /\ Counters
    /\ buffer0' = LengthAfterCounters
    /\ AfterSignal(buffer0')
    /\ UNCHANGED <<host, sock, parent, pipe1, usr2, DAQState, leftover, requestForStop>>
    /\ UNCHANGED collector

\* (variant: the stop is acknowledged by the handler as well)
HandleUSR2Answers ==
    /\ Alive /\ usr2
    /\ usr2' = FALSE
    /\ DAQState' = "Idle"
    /\ pipe2' = Append(pipe2, Answer("STOPRUN", 0, "none"))
    /\ AfterSignal(buffer0)
    /\ UNCHANGED <<host, sock, parent, pipe1, usr1, buffer0, leftover, wants, collector>>

\* ChildSigUSR2Handler.
HandleUSR2 ==
    /\ Alive /\ usr2
    /\ usr2' = FALSE
    /\ DAQState' = "Idle"
    /\ AfterSignal(buffer0)
    /\ UNCHANGED <<host, sock, parent, pipe1, pipe2, usr1, buffer0, leftover, wants>>
    /\ UNCHANGED collector

\* The word left over is a checksum, too large for a length: it is discarded.
Discard ==
    /\ cPc = "read1" /\ leftover
    /\ leftover' = FALSE
    /\ buffer0' = "none"
    /\ UNCHANGED <<host, sock, parent, ipc, DAQState, cPc, wants, collector>>

Length(c) == IF c = "REQDAQINFOR" \/ c \in Shorts THEN "short" ELSE "long"

\* A whole frame can be read; a signal sent before it has been handled by then.
FrameToRead == cPc = "read1" /\ ~leftover /\ pipe1 # <<>> /\ ~usr2

\* The commands that read the collector without asking whether there is one.
FromCollector == {"REQDAQINFOR", "REQALLDAQINFOR"}

\* A whole frame is read and its command is done.  A new run is set up, with a collector
\* of its own, before it is acknowledged, and DAQ_process is entered afterwards, if that
\* went well.
DoCommand ==
    /\ FrameToRead
    /\ Head(pipe1) \in FromCollector => collector
    /\ pipe1' = Tail(pipe1)
    /\ LET c == Head(pipe1)
       IN  \E status \in IF c \in {"INITDAQ", "STARTRUN"} THEN {0, 1} ELSE {0} :
             /\ IF c = "REQDAQINFOR" THEN Counters
                ELSE /\ pipe2' = Append(pipe2, Answer(c, status, "none"))
                     /\ requestForPause' = (requestForPause /\ c # "STARTRUN")
             /\ buffer0' = IF c = "REQDAQINFOR" THEN "none" ELSE Length(c)
             /\ requestForStop' = (requestForStop /\ c # "STARTRUN")
             /\ collector' = (collector \/ c = "STARTRUN")
             /\ IF c = "STARTRUN" /\ status = 0
                THEN DAQState' = "Running" /\ cPc' = "start"
                ELSE DAQState' = "Idle" /\ cPc' = "read1"
    /\ UNCHANGED <<host, sock, parent, usr1, usr2, leftover>>

\* There is no collector before the first run: the child dies of a request that reads
\* it, in the handler or in the command loop.  The parent holds both ends of pipe2 and
\* hears nothing of it.
Crash ==
    /\ Alive /\ ~collector
    /\ \/ usr1 /\ usr1' = FALSE /\ UNCHANGED pipe1
       \/ /\ FrameToRead /\ Head(pipe1) \in FromCollector
          /\ pipe1' = Tail(pipe1) /\ UNCHANGED usr1
    /\ cPc' = "dead"
    /\ UNCHANGED <<host, sock, parent, pipe2, usr2, DAQState, buffer0, leftover, wants>>
    /\ UNCHANGED collector

\* A frame is read behind the stale length: its checksum does not fit, which is answered
\* with status 2.
ReadBehind ==
    /\ cPc = "read2" /\ pipe1 # <<>>
    /\ pipe1' = Tail(pipe1)
    /\ pipe2' = Append(pipe2, Answer(Head(pipe1), 2, "none"))
    /\ DAQState' = "Idle"
    /\ UNCHANGED <<host, sock, parent, usr1, usr2, buffer0, wants, collector>>

\* The stale length is that of a two-word command, the frame is longer.
TooShort == buffer0 = "short" /\ Length(Head(pipe1)) = "long"

\* The whole frame is read, or all of it but its last word, if it is as long as the
\* stale length.
Misread ==
    /\ ReadBehind /\ ~TooShort
    /\ leftover' = (buffer0 = Length(Head(pipe1)))
    /\ cPc' = "read1"

\* Two words of the frame are read.  The loop goes on in its middle: a number among the
\* run conditions is taken for a length, each such piece is answered, mostly with status
\* 2, though two words that happen to be 1 are a CMDPROBE.  The model does not follow.
LoseTheWay ==
    /\ ReadBehind /\ TooShort
    /\ cPc' = "lost"
    /\ UNCHANGED leftover

\* (variant: DAQ_process sets the state itself)
EnterDAQRunning ==
    /\ cPc = "start"
    /\ cPc' = "daq"
    /\ DAQState' = "Running"
    /\ UNCHANGED <<host, sock, parent, ipc, buffer0, leftover, wants, collector>>

EnterDAQ ==
    /\ cPc = "start"
    /\ cPc' = "daq"
    /\ UNCHANGED <<host, sock, parent, ipc, DAQState, buffer0, leftover, wants, collector>>

\* The event builder ends the run: too many open events, or junk.
SelfStop ==
    /\ cPc = "daq" /\ DAQState = "Running"
    /\ DAQState' = "Idle"
    /\ requestForStop' = TRUE
    /\ UNCHANGED <<host, sock, parent, ipc, cPc, buffer0, leftover, requestForPause>>
    /\ UNCHANGED collector

EndOfRun ==
    /\ cPc = "daq" /\ DAQState = "Idle"
    /\ cPc' = "read1"
    /\ UNCHANGED <<host, sock, parent, ipc, DAQState, buffer0, leftover, wants, collector>>

\* With a child that answers no more the others come to a standstill, which is no
\* deadlock of theirs: the parent waits in its read for good, and the host has run out
\* of timeouts.
Standstill == ~Alive /\ UNCHANGED vars

HostStep == Send \/ SendUnawaited \/ Answered \/ HostRead
ParentStep == ParentTake \/ ParentReply
ChildStep == Discard \/ DoCommand \/ Crash \/ Misread \/ LoseTheWay \/ EnterDAQ \/ EndOfRun

Next ==
    \/ StartDAQ \/ StopDAQ \/ InitDAQ \/ PauseOrResumeDAQ \/ Poll \/ ShortCommand
    \/ HostStep \/ TimeOut \/ GiveUp
    \/ ParentStep
    \/ HandleUSR1 \/ HandleUSR2 \/ ChildStep \/ SelfStop \/ Standstill

Spec == Init /\ [][Next]_vars

\* The three programs run and the kernel delivers signals.  The main loop of the host
\* polls, and stops the run when asked to, between the procedures the operator starts.
\* While the counters are read again and again, 5 s pass.
FairSpec ==
    /\ Spec
    /\ WF_vars(Send) /\ WF_vars(Answered) /\ WF_vars(HostRead) /\ WF_vars(ParentStep)
    /\ WF_vars(HandleUSR1) /\ WF_vars(HandleUSR2) /\ WF_vars(ChildStep)
    /\ SF_vars(Poll) /\ SF_vars(StopDAQ /\ requestStopByClient)
    /\ SF_vars(HostRead /\ runState = "Paused" /\ runState' = "Running")

--------------------------------------------------------------------------------
(* Properties. *)

\* The parent matches answers to commands by order alone: whatever the signals interrupt,
\* the next message in pipe2 answers the command it waits for, there is at most
\* one, and nothing is left in the pipes when it waits for the host.  So it is until the
\* child reads a frame with run conditions behind the length of a two-word one, or dies.
AnswersItsCommand ==
    Alive =>
      /\ pCmd = "none" => pipe1 = <<>> /\ pipe2 = <<>> /\ ~usr1
      /\ pCmd # "none" =>
           /\ Len(pipe1) + Len(pipe2) + (IF usr1 THEN 1 ELSE 0) = 1
           /\ pipe2 # <<>> => Head(pipe2).cmd = pCmd

\* No answer has been late so far.
InTime == timeouts = 0

\* The stale length is harmless while answers are in time: only a stop is ever misread,
\* and never behind the length of a short command, which would leave a file name to be
\* read as commands.
OnlyStopsAreMisread ==
    (InTime /\ cPc = "read2") => buffer0 # "short" /\ pCmd = "STOPRUN"

Stopping == todo # <<>> /\ Head(todo) = "STOPRUN"

\* When the host believes the run has ended, DAQ_process has ended, if no answer was
\* late.  SendTCPCommand repeats a stop that was misread, which must be enough.
IdleMeansStopped ==
    (InTime /\ runState = "Idle" /\ todo = <<>>) => cPc \notin {"start", "daq"}

\* "Unable to stop DAQ for run %u, DAQ at Linux side may be stucked." (DAQControl.c:1462)
\* is printed unless SendTCPCommand has returned 0: the host takes a run for stopped
\* only when DAQ_process has ended.
StopsWhatItReports ==
    [][(Stopping /\ (GiveUp \/ (Answered /\ node.status = 0))) => cPc \notin {"start", "daq"}]_vars

\* While answers are in time, every procedure of the host comes to its end: nobody waits
\* for an answer that is waiting for him.
ProceduresEnd == []InTime => ((todo # <<>>) ~> (todo = <<>>))

\* When the event builder has ended the run, the host hears of it and ends it too.
SelfStopIsNoticed ==
    []InTime => ((requestForStop /\ runState # "Idle") ~> (runState = "Idle"))

\* A pause the child has asked for does not last, even if it never asks for its end or
\* the operator acts meanwhile: the run goes on or is ended.
PauseIsLifted ==
    (runState = "Paused" /\ pauseRunAsRequested) ~> (runState # "Paused")

\* A stop is answered even to a parent that the host has given up, and even when the
\* child has left DAQ_process by itself; so is a request of the counters, if there has
\* been a run to count for.  Both as long as the child knows where a frame begins.
SignalsAreAnswered ==
    (pCmd = "STOPRUN" \/ (pCmd = "REQDAQINFOR" /\ collector))
      ~> (pCmd = "none" \/ cPc = "lost")
================================================================================
