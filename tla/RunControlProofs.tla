---------------------------- MODULE RunControlProofs ----------------------------
(***************************************************************************)
(* The parent and the child keep step: the next message in pipe2 answers   *)
(* the command the parent waits for, wherever signals interrupt the child  *)
(* and however often the host gives up, until a late answer has made the   *)
(* child die or lose its way in pipe1.  While no answer is late it does    *)
(* neither, and what the host believes of the run is true.                 *)
(*                                                                         *)
(* AnswersItsCommand alone is not inductive: that an answer will be for the*)
(* command waited for must be known of the frame in pipe1 and of a pending *)
(* SIGUSR1 too, before the child has dealt with them.                      *)
(***************************************************************************)
EXTENDS RunControl, SequenceTheorems, TLAPS

\* The types, and a procedure of the host that has sent something has a command in hand.
TypeInv ==
    /\ TypeOK
    /\ phase # "ready" => todo # <<>>

\* A procedure starts: its commands are commands.
LEMMA BeginType ==
    ASSUME TypeInv, NEW s \in Seq(Commands), s # <<>>, Begin(s),
           runState' \in {"Idle", "Running", "Paused"}, requestStopByClient' \in BOOLEAN,
           hadRun' \in BOOLEAN
    PROVE  TypeInv'
  BY DEF TypeInv, TypeOK, Begin, sock, parent, ipc, child, wants

\* The end of a command leaves commands, and a state of the run.
LEMMA FinishType ==
    ASSUME TypeInv, NEW ok \in BOOLEAN, Finish(ok), todo # <<>>
    PROVE  /\ todo' \in Seq(Commands) /\ phase' = "ready"
           /\ runState' \in {"Idle", "Running", "Paused"}
           /\ pauseRunAsRequested' \in BOOLEAN /\ pollFailed' \in BOOLEAN
<1>1. todo \in Seq(Commands) /\ Head(todo) \in Commands /\ Tail(todo) \in Seq(Commands)
  BY DEF TypeInv, TypeOK
<1>2. Remaining(ok) \in Seq(Commands)
  <2>1. CASE Len(todo) > 1
    <3>1. Tail(todo) # <<>>
      <4>1. Len(Tail(todo)) = Len(todo) - 1 /\ Len(todo) \in Nat
        BY <1>1
      <4>2. Len(Tail(todo)) > 0
        BY <2>1, <4>1
      <4>3. Len(<<>>) = 0 /\ ~(0 > 0)
        OBVIOUS
      <4> QED
        BY <4>2, <4>3
    <3>2. Tail(Tail(todo)) \in Seq(Commands)
      BY <1>1, <3>1
    <3> QED
      BY <1>1, <3>2 DEF Remaining
  <2>2. CASE ~(Len(todo) > 1)
    BY <1>1, <2>2 DEF Remaining
  <2> QED
    BY <2>1, <2>2
<1>3. runState' \in {"Idle", "Running", "Paused"}
  <2>1. runState \in {"Idle", "Running", "Paused"}
    BY DEF TypeInv, TypeOK
  <2> QED
    BY <2>1 DEF Finish
<1> QED
  BY <1>2, <1>3 DEF Finish, TypeInv, TypeOK

\* A failed try is followed by another one or ends the command.
LEMMA FailedType ==
    ASSUME TypeInv, Failed, todo # <<>>
    PROVE  /\ todo' \in Seq(Commands) /\ phase' \in {"ready", "retry"}
           /\ phase' = "retry" => todo' # <<>>
           /\ runState' \in {"Idle", "Running", "Paused"}
           /\ pauseRunAsRequested' \in BOOLEAN /\ pollFailed' \in BOOLEAN
<1>1. CASE Finish(FALSE)
  BY <1>1, FinishType
<1>2. CASE phase' = "retry" /\ UNCHANGED <<runState, pauseRunAsRequested, todo, pollFailed>>
  BY <1>2 DEF TypeInv, TypeOK
<1> QED
  BY <1>1, <1>2 DEF Failed

LEMMA HostType ==
    ASSUME TypeInv,
           StartDAQ \/ StopDAQ \/ InitDAQ \/ PauseOrResumeDAQ \/ Poll \/ ShortCommand
    PROVE  TypeInv'
<1>0. /\ runState \in {"Idle", "Running", "Paused"} /\ requestStopByClient \in BOOLEAN
      /\ \A s \in Seq(Commands) : s # <<>> =>
           (s \o <<"STOPRUN", "STOPRUN">>) \in Seq(Commands)
  BY DEF TypeInv, TypeOK, Commands, Forwarded, Shorts
<1>ran. hadRun' \in BOOLEAN
  <2>1. hadRun' = hadRun \/ hadRun' = (hadRun \/ runState # "Idle")
    BY DEF StartDAQ, StopDAQ, InitDAQ, BeginStop, PauseOrResumeDAQ, Poll, ShortCommand
  <2>2. hadRun \in BOOLEAN
    BY DEF TypeInv, TypeOK
  <2> QED
    BY <2>1, <2>2
<1>1. <<"STARTRUN">> \in Seq(Commands) /\ <<"INITDAQ">> \in Seq(Commands)
  BY DEF Commands, Forwarded, Shorts
<1>2. <<"PAUSERUN">> \in Seq(Commands) /\ <<"RESUMERUN">> \in Seq(Commands)
  BY DEF Commands, Local
<1>3. <<"REQDAQINFOR">> \in Seq(Commands) /\ <<"REREQDAQINFOR">> \in Seq(Commands)
  BY DEF Commands, Local, Forwarded, Shorts
<1>4. <<"PROBE">> \in Seq(Commands) /\ <<"REQALLDAQINFOR">> \in Seq(Commands)
  BY DEF Commands, Forwarded, Shorts
<1>5. StopSequence \in Seq(Commands) /\ StopSequence # <<>>
  <2>1. <<"STOPRUN", "STOPRUN">> \in Seq(Commands)
    BY DEF Commands, Forwarded, Shorts
  <2>2. <<"RESUMERUN">> \o <<"STOPRUN", "STOPRUN">> \in Seq(Commands)
    BY <1>2, <2>1
  <2>3. <<"RESUMERUN">> \o <<"STOPRUN", "STOPRUN">> # <<>> /\ <<"STOPRUN", "STOPRUN">> # <<>>
    BY <1>2, <2>1
  <2>4. CASE runState = "Paused"
    BY <2>2, <2>3, <2>4 DEF StopSequence
  <2>5. CASE runState # "Paused"
    <3>1. <<>> \o <<"STOPRUN", "STOPRUN">> = <<"STOPRUN", "STOPRUN">>
      BY <2>1
    <3> QED
      BY <2>1, <2>3, <2>5, <3>1 DEF StopSequence
  <2> QED
    BY <2>4, <2>5
<1>6. StopSequence \o <<"INITDAQ">> \in Seq(Commands) /\ StopSequence \o <<"INITDAQ">> # <<>>
  BY <1>1, <1>5
<1>7. CASE StartDAQ
  BY <1>ran, <1>0, <1>1, <1>7, BeginType DEF StartDAQ
<1>8. CASE StopDAQ
  <2>1. runState' \in {"Idle", "Running", "Paused"} /\ Begin(StopSequence)
        /\ requestStopByClient' = requestStopByClient
    BY <1>0, <1>8 DEF StopDAQ, BeginStop
  <2> QED
    BY <1>ran, <1>0, <1>5, <2>1, BeginType
<1>9. CASE InitDAQ
  <2>1. /\ runState' \in {"Idle", "Running", "Paused"}
        /\ Begin(<<"INITDAQ">>) \/ Begin(StopSequence \o <<"INITDAQ">>)
        /\ requestStopByClient' = requestStopByClient
    BY <1>0, <1>9 DEF InitDAQ, BeginStop
  <2>2. CASE Begin(<<"INITDAQ">>)
    BY <1>ran, <1>0, <1>1, <2>1, <2>2, BeginType
  <2>3. CASE Begin(StopSequence \o <<"INITDAQ">>)
    BY <1>ran, <1>0, <1>6, <2>1, <2>3, BeginType
  <2> QED
    BY <2>1, <2>2, <2>3
<1>10. CASE PauseOrResumeDAQ
  <2>1. /\ runState' = runState /\ requestStopByClient' = requestStopByClient
        /\ Begin(<<"PAUSERUN">>) \/ Begin(<<"RESUMERUN">>)
    BY <1>10 DEF PauseOrResumeDAQ
  <2> QED
    BY <1>ran, <1>0, <1>2, <2>1, BeginType
<1>11. CASE Poll
  <2>1. /\ runState' = runState /\ requestStopByClient' = requestStopByClient
        /\ Begin(<<"REQDAQINFOR">>) \/ Begin(<<"REREQDAQINFOR">>)
    BY <1>11 DEF Poll
  <2> QED
    BY <1>ran, <1>0, <1>3, <2>1, BeginType
<1>12. CASE ShortCommand
  BY <1>ran, <1>0, <1>4, <1>12, BeginType DEF ShortCommand
<1> QED
  BY <1>7, <1>8, <1>9, <1>10, <1>11, <1>12

\* The host sends a command, or takes one for sent.
LEMMA SendType ==
    ASSUME TypeInv, Send \/ SendUnawaited
    PROVE  TypeInv'
<1>1. todo # <<>> /\ todo \in Seq(Commands) /\ Head(todo) \in Commands
  <2>1. todo # <<>>
    BY DEF Send, SendUnawaited
  <2> QED
    BY <2>1 DEF TypeInv, TypeOK
<1>2. ASSUME Issue
      PROVE  /\ toParent' \in Seq(Commands)
             /\ node' \in [issued : BOOLEAN, haveData : BOOLEAN, status : 0..2]
  BY <1>1, <1>2 DEF TypeInv, TypeOK, Issue
<1>3. CASE Send
  BY <1>1, <1>2, <1>3 DEF TypeInv, TypeOK, Send, parent, ipc, child, wants
<1>4. CASE SendUnawaited
  <2>1. Finish(TRUE) /\ UNCHANGED <<requestStopByClient, hadRun, timeouts, toHost, parent, ipc, child>>
    BY <1>4 DEF SendUnawaited
  <2>2. /\ toParent' \in Seq(Commands)
        /\ node' \in [issued : BOOLEAN, haveData : BOOLEAN, status : 0..2]
    BY <1>2, <1>4 DEF SendUnawaited, TypeInv, TypeOK
  <2>3. /\ todo' \in Seq(Commands) /\ phase' = "ready"
        /\ runState' \in {"Idle", "Running", "Paused"}
        /\ pauseRunAsRequested' \in BOOLEAN /\ pollFailed' \in BOOLEAN
    BY <1>1, <2>1, FinishType
  <2> QED
    BY <2>1, <2>2, <2>3 DEF TypeInv, TypeOK, parent, ipc, child, wants
<1> QED
  BY <1>3, <1>4

\* The host has an answer, or waits no longer.
LEMMA WaitType ==
    ASSUME TypeInv, Answered \/ TimeOut \/ GiveUp
    PROVE  TypeInv'
<1>1. todo # <<>>
  BY DEF TypeInv, Answered, TimeOut, GiveUp
<1>2. /\ todo' \in Seq(Commands) /\ phase' \in {"ready", "retry"}
      /\ phase' # "ready" => todo' # <<>>
      /\ runState' \in {"Idle", "Running", "Paused"}
      /\ pauseRunAsRequested' \in BOOLEAN /\ pollFailed' \in BOOLEAN
  <2>1. CASE Failed
    BY <1>1, <2>1, FailedType
  <2>2. CASE Finish(TRUE)
    BY <1>1, <2>2, FinishType
  <2> QED
    BY <2>1, <2>2 DEF Answered, TimeOut, GiveUp
<1>3. /\ timeouts' \in 0..MaxTimeouts
      /\ node' \in [issued : BOOLEAN, haveData : BOOLEAN, status : 0..2]
  <2>1. timeouts \in 0..MaxTimeouts /\ MaxTimeouts \in Nat
    BY TimeoutAssumption DEF TypeInv, TypeOK, TimeoutAssumption
  <2>2. timeouts' = timeouts \/ (timeouts < MaxTimeouts /\ timeouts' = timeouts + 1)
    BY DEF Answered, TimeOut, GiveUp
  <2>3. timeouts' \in 0..MaxTimeouts
    BY <2>1, <2>2
  <2>4. node' = node \/ node' = [node EXCEPT !.issued = FALSE]
    BY DEF Answered, TimeOut, GiveUp
  <2>5. node' \in [issued : BOOLEAN, haveData : BOOLEAN, status : 0..2]
    BY <2>4 DEF TypeInv, TypeOK
  <2> QED
    BY <2>3, <2>5
<1>4. UNCHANGED <<requestStopByClient, hadRun, sock, parent, ipc, child>>
  BY DEF Answered, TimeOut, GiveUp
<1> QED
  BY <1>2, <1>3, <1>4 DEF TypeInv, TypeOK, sock, parent, ipc, child, wants

\* The host reads an answer.
LEMMA HostReadType ==
    ASSUME TypeInv, HostRead
    PROVE  TypeInv'
<1>1. Head(toHost) \in Answers /\ toHost' \in Seq(Answers)
  BY DEF TypeInv, TypeOK, HostRead
<1>2. /\ runState' \in {"Idle", "Running", "Paused"} /\ requestStopByClient' \in BOOLEAN
      /\ pauseRunAsRequested' \in BOOLEAN
  BY DEF TypeInv, TypeOK, HostRead, Heard, PauseOver
<1>3. node' \in [issued : BOOLEAN, haveData : BOOLEAN, status : 0..2]
  BY <1>1 DEF TypeInv, TypeOK, HostRead, Answers
<1>4. UNCHANGED <<hadRun, todo, phase, pollFailed, timeouts, toParent, parent, ipc, child>>
  BY DEF HostRead
<1> QED
  BY <1>1, <1>2, <1>3, <1>4 DEF TypeInv, TypeOK, parent, ipc, child, wants

\* What the parent does with a command.
LEMMA ParentType ==
    ASSUME TypeInv, ParentStep
    PROVE  TypeInv'
<1>1. CASE ParentTake
  <2>1. PICK c \in Commands : c = Head(toParent)
    BY <1>1 DEF TypeInv, TypeOK, ParentTake
  <2>2. toParent' \in Seq(Commands) /\ UNCHANGED <<host, child>>
    BY <1>1 DEF TypeInv, TypeOK, ParentTake
  <2>3. CASE c \in Local /\ AnswerLocally(c)
    <3>1. Answer(c, 0, "none") \in Answers
      BY DEF Answer, Answers
    <3>2. toHost' \in Seq(Answers) /\ pState' \in {"Idle", "Running", "Paused"}
      BY <2>3, <3>1 DEF TypeInv, TypeOK, AnswerLocally
    <3> QED
      BY <2>2, <2>3, <3>2 DEF TypeInv, TypeOK, AnswerLocally, ipc, host, child, wants
  <2>4. CASE c \notin Local /\ Forward(c)
    <3>1. c \in Forwarded
      BY <2>4 DEF Commands
    <3>2. pState' \in {"Idle", "Running", "Paused"}
      BY <2>4 DEF Forward, TypeInv, TypeOK
    <3>3. usr1' \in BOOLEAN /\ usr2' \in BOOLEAN
      BY <2>4 DEF Forward, TypeInv, TypeOK
    <3>4. pipe1' \in Seq(Forwarded)
      BY <2>4, <3>1 DEF Forward, TypeInv, TypeOK
    <3>5. pCmd' \in Forwarded \cup {"none"} /\ UNCHANGED <<toHost, pipe2>>
      BY <2>4, <3>1 DEF Forward
    <3> QED
      BY <2>2, <3>2, <3>3, <3>4, <3>5 DEF TypeInv, TypeOK, host, child, wants
  <2> QED
    BY <1>1, <2>1, <2>3, <2>4 DEF ParentTake, Handle
<1>2. CASE ParentReply
  <2>1. pipe2' \in Seq(Answers) /\ toHost' \in Seq(Answers)
    BY <1>2 DEF TypeInv, TypeOK, ParentReply
  <2> QED
    BY <1>2, <2>1 DEF TypeInv, TypeOK, ParentReply, host, child, wants
<1> QED
  BY <1>1, <1>2 DEF ParentStep

\* The counters are an answer to a request of them.
LEMMA CountersType ==
    ASSUME TypeInv, Counters
    PROVE  pipe2' \in Seq(Answers) /\ requestForPause' \in BOOLEAN
<1>1. PICK ask \in {"none", "stop", "pause", "resume"} :
        /\ pipe2' = Append(pipe2, Answer("REQDAQINFOR", 0, ask))
        /\ requestForPause' = CASE ask = "pause" -> TRUE [] ask = "resume" -> FALSE
                                [] OTHER -> requestForPause
  BY DEF Counters
<1>2. Answer("REQDAQINFOR", 0, ask) \in Answers
  BY DEF Answer, Answers, Commands, Forwarded, Shorts
<1>3. requestForPause' \in BOOLEAN
  BY <1>1 DEF TypeInv, TypeOK
<1>4. pipe2 \in Seq(Answers)
  BY DEF TypeInv, TypeOK
<1>5. \A a \in Answers : Append(pipe2, a) \in Seq(Answers)
  BY <1>4
<1>6. pipe2' = Append(pipe2, Answer("REQDAQINFOR", 0, ask))
  BY <1>1
<1> QED
  BY <1>2, <1>3, <1>5, <1>6

\* The child: its handlers, its commands, and DAQ_process.
LEMMA ChildType ==
    ASSUME TypeInv, HandleUSR1 \/ HandleUSR2 \/ ChildStep \/ SelfStop
    PROVE  TypeInv'
<1>1. CASE HandleUSR1
  <2>1. pipe2' \in Seq(Answers) /\ requestForPause' \in BOOLEAN
    BY <1>1, CountersType DEF HandleUSR1
  <2>2. buffer0' \in {"none", "info"} /\ cPc' \in {"read1", "read2", "start", "daq", "dead", "lost"}
    BY <1>1 DEF HandleUSR1, LengthAfterCounters, AfterSignal, TypeInv, TypeOK
  <2>3. /\ usr1' = FALSE
        /\ UNCHANGED <<host, sock, parent, pipe1, usr2, DAQState, leftover, requestForStop>>
        /\ UNCHANGED collector
    BY <1>1 DEF HandleUSR1
  <2>4. usr1' \in BOOLEAN /\ buffer0' \in {"none", "short", "long", "info"}
    BY <2>2, <2>3
  <2> QED
    BY <2>1, <2>2, <2>3, <2>4 DEF TypeInv, TypeOK, host, sock, parent
<1>2. CASE HandleUSR2
  <2>1. cPc' \in {"read1", "read2", "start", "daq", "dead", "lost"}
    BY <1>2 DEF HandleUSR2, AfterSignal, TypeInv, TypeOK
  <2>2. usr2' \in BOOLEAN /\ DAQState' \in {"Idle", "Running"}
    BY <1>2 DEF HandleUSR2
  <2>3. /\ UNCHANGED <<host, sock, parent, pipe1, pipe2, usr1, buffer0, leftover, wants>>
        /\ UNCHANGED collector
    BY <1>2 DEF HandleUSR2
  <2> QED
    BY <2>1, <2>2, <2>3 DEF TypeInv, TypeOK, host, sock, parent, wants
<1>3. CASE Discard
  <2>1. leftover' = FALSE /\ buffer0' = "none"
    BY <1>3 DEF Discard
  <2>2. UNCHANGED <<host, sock, parent, ipc, DAQState, cPc, wants, collector>>
    BY <1>3 DEF Discard
  <2>3. buffer0' \in {"none", "short", "long", "info"} /\ leftover' \in BOOLEAN
    BY <2>1
  <2> QED
    BY <2>2, <2>3 DEF TypeInv, TypeOK, host, sock, parent, ipc, wants
<1>4. CASE DoCommand
  <2>1. PICK c \in Forwarded : c = Head(pipe1)
    BY <1>4 DEF DoCommand, FrameToRead, TypeInv, TypeOK
  <2>2. /\ pipe1' \in Seq(Forwarded) /\ collector' \in BOOLEAN
        /\ UNCHANGED <<host, sock, parent, usr1, usr2, leftover>>
    BY <1>4 DEF DoCommand, FrameToRead, TypeInv, TypeOK
  <2>3. pipe2' \in Seq(Answers) /\ requestForPause' \in BOOLEAN
    <3>1. CASE Counters
      BY <3>1, CountersType
    <3>2. CASE c # "REQDAQINFOR"
      <4>1. PICK status \in {0, 1} :
              /\ pipe2' = Append(pipe2, Answer(c, status, "none"))
              /\ requestForPause' = (requestForPause /\ c # "STARTRUN")
        BY <1>4, <2>1, <3>2 DEF DoCommand
      <4>2. Answer(c, status, "none") \in Answers
        BY DEF Answer, Answers, Commands
      <4>3. requestForPause' \in BOOLEAN
        BY <4>1
      <4> QED
        BY <4>1, <4>2, <4>3 DEF TypeInv, TypeOK
    <3> QED
      BY <1>4, <2>1, <3>1, <3>2 DEF DoCommand
  <2>4. buffer0' \in {"none", "short", "long"}
    BY <1>4 DEF DoCommand, Length
  <2>5. requestForStop' \in BOOLEAN
    BY <1>4 DEF DoCommand
  <2>6. DAQState' \in {"Idle", "Running"} /\ cPc' \in {"read1", "start"}
    BY <1>4 DEF DoCommand
  <2> QED
    BY <2>2, <2>3, <2>4, <2>5, <2>6 DEF TypeInv, TypeOK, host, sock, parent
<1>5. CASE ReadBehind /\ leftover' \in BOOLEAN /\ cPc' \in {"read1", "lost"}
  <2>1. Head(pipe1) \in Forwarded /\ pipe1' \in Seq(Forwarded)
    BY <1>5 DEF ReadBehind, TypeInv, TypeOK
  <2>2. Answer(Head(pipe1), 2, "none") \in Answers
    BY <2>1 DEF Answer, Answers, Commands
  <2>3. pipe2' \in Seq(Answers)
    BY <1>5, <2>2 DEF ReadBehind, TypeInv, TypeOK
  <2> QED
    BY <1>5, <2>1, <2>3 DEF ReadBehind, TypeInv, TypeOK, host, sock, parent, wants
<1>6. CASE EnterDAQ
  BY <1>6 DEF EnterDAQ, TypeInv, TypeOK, host, sock, parent, ipc, wants
<1>7. CASE EndOfRun
  BY <1>7 DEF EndOfRun, TypeInv, TypeOK, host, sock, parent, ipc, wants
<1>8. CASE SelfStop
  BY <1>8 DEF SelfStop, TypeInv, TypeOK, host, sock, parent, ipc
<1>9. CASE Crash
  <2>1. /\ cPc' = "dead" /\ UNCHANGED <<host, sock, parent, pipe2, usr2, DAQState, buffer0>>
        /\ UNCHANGED <<leftover, wants, collector>>
    BY <1>9 DEF Crash
  <2>2. CASE usr1' = FALSE /\ UNCHANGED pipe1
    <3>1. usr1' \in BOOLEAN
      BY <2>2
    <3> QED
      BY <2>1, <2>2, <3>1 DEF TypeInv, TypeOK, host, sock, parent, wants
  <2>3. CASE pipe1 # <<>> /\ pipe1' = Tail(pipe1) /\ UNCHANGED usr1
    <3>1. pipe1' \in Seq(Forwarded)
      BY <2>3 DEF TypeInv, TypeOK
    <3> QED
      BY <2>1, <2>3, <3>1 DEF TypeInv, TypeOK, host, sock, parent, wants
  <2> QED
    BY <1>9, <2>2, <2>3 DEF Crash, FrameToRead
<1>10. Misread \/ LoseTheWay => ReadBehind /\ leftover' \in BOOLEAN /\ cPc' \in {"read1", "lost"}
  BY DEF Misread, LoseTheWay, TypeInv, TypeOK
<1> QED
  BY <1>1, <1>2, <1>3, <1>4, <1>5, <1>6, <1>7, <1>8, <1>9, <1>10 DEF ChildStep

LEMMA TypeInductive == Spec => []TypeInv
<1>1. Init => TypeInv
  <2> SUFFICES ASSUME Init
               PROVE  TypeInv
    OBVIOUS
  <2>1. timeouts \in 0..MaxTimeouts
    BY TimeoutAssumption DEF Init, TimeoutAssumption
  <2>2. node \in [issued : BOOLEAN, haveData : BOOLEAN, status : 0..2]
    BY DEF Init
  <2>3. /\ todo \in Seq(Commands) /\ toParent \in Seq(Commands)
        /\ toHost \in Seq(Answers) /\ pipe1 \in Seq(Forwarded) /\ pipe2 \in Seq(Answers)
    BY DEF Init
  <2>4. /\ runState \in {"Idle", "Running", "Paused"} /\ requestStopByClient \in BOOLEAN
        /\ pauseRunAsRequested \in BOOLEAN /\ pollFailed \in BOOLEAN /\ hadRun \in BOOLEAN
        /\ phase \in {"ready", "first", "retry", "second"} /\ ~(phase # "ready")
    BY DEF Init
  <2>5. /\ pState \in {"Idle", "Running", "Paused"} /\ pCmd \in Forwarded \cup {"none"}
        /\ usr1 \in BOOLEAN /\ usr2 \in BOOLEAN
    BY DEF Init
  <2>6. /\ DAQState \in {"Idle", "Running"} /\ cPc \in {"read1", "read2", "start", "daq", "dead", "lost"}
        /\ buffer0 \in {"none", "short", "long", "info"}
        /\ leftover \in BOOLEAN /\ requestForStop \in BOOLEAN /\ requestForPause \in BOOLEAN
        /\ collector \in BOOLEAN
    BY DEF Init
  <2> QED
    BY <2>1, <2>2, <2>3, <2>4, <2>5, <2>6 DEF TypeInv, TypeOK
<1>2. TypeInv /\ [Next]_vars => TypeInv'
  <2> SUFFICES ASSUME TypeInv, [Next]_vars
               PROVE  TypeInv'
    OBVIOUS
  <2>1. CASE StartDAQ \/ StopDAQ \/ InitDAQ \/ PauseOrResumeDAQ \/ Poll \/ ShortCommand
    BY <2>1, HostType
  <2>2. CASE HostStep
    BY <2>2, SendType, WaitType, HostReadType DEF HostStep
  <2>3. CASE TimeOut \/ GiveUp
    BY <2>3, WaitType
  <2>4. CASE ParentStep
    BY <2>4, ParentType
  <2>5. CASE HandleUSR1 \/ HandleUSR2 \/ ChildStep \/ SelfStop
    BY <2>5, ChildType
  <2>6. CASE Standstill \/ UNCHANGED vars
    BY <2>6 DEF Standstill, TypeInv, TypeOK, vars, host, sock, parent, ipc, child, wants
  <2> QED
    BY <2>1, <2>2, <2>3, <2>4, <2>5, <2>6 DEF Next
<1> QED
  BY <1>1, <1>2, PTL DEF Spec

\* The three programs keep their types, however often the host gives up.
THEOREM TypeCorrect == Spec => []TypeOK
<1>1. TypeInv => TypeOK
  BY DEF TypeInv
<1> QED
  BY <1>1, TypeInductive, PTL

--------------------------------------------------------------------------------
(* The parent and the child. *)

\* Where the command is that the parent waits for: still in pipe1, or a signal that is
\* not handled yet, or answered.
InPipe == pipe1 = <<pCmd>> /\ pipe2 = <<>> /\ ~usr1
Signalled == pipe1 = <<>> /\ pipe2 = <<>> /\ usr1 /\ pCmd = "REQDAQINFOR"
Replied == pipe1 = <<>> /\ ~usr1 /\ \E a \in Answers : pipe2 = <<a>> /\ a.cmd = pCmd

InStep ==
    /\ pCmd = "none" => pipe1 = <<>> /\ pipe2 = <<>> /\ ~usr1
    /\ pCmd # "none" => InPipe \/ Signalled \/ Replied

\* Nothing is claimed of a child that died or lost its way.
StepInv == Alive => InStep

\* InStep says more than what is to be shown.
LEMMA InStepAnswers ==
    ASSUME StepInv
    PROVE  AnswersItsCommand
<1> SUFFICES ASSUME InStep
             PROVE  AnswersItsCommand
  BY DEF StepInv, AnswersItsCommand
<1>1. CASE pCmd = "none"
  BY <1>1 DEF InStep, AnswersItsCommand
<1>2. CASE pCmd # "none" /\ InPipe
  <2>1. Len(pipe1) = 1 /\ Len(pipe2) = 0
    BY <1>2 DEF InPipe
  <2> QED
    BY <1>2, <2>1 DEF InPipe, AnswersItsCommand
<1>3. CASE pCmd # "none" /\ Signalled
  <2>1. Len(pipe1) = 0 /\ Len(pipe2) = 0
    BY <1>3 DEF Signalled
  <2> QED
    BY <1>3, <2>1 DEF Signalled, AnswersItsCommand
<1>4. CASE pCmd # "none" /\ Replied
  <2>1. PICK a \in Answers : pipe2 = <<a>> /\ a.cmd = pCmd
    BY <1>4 DEF Replied
  <2>2. Len(pipe1) = 0 /\ Len(pipe2) = 1 /\ Head(pipe2) = a
    BY <1>4, <2>1 DEF Replied
  <2> QED
    BY <1>4, <2>1, <2>2 DEF Replied, AnswersItsCommand
<1> QED
  BY <1>1, <1>2, <1>3, <1>4 DEF InStep

\* The parent takes a command, with nothing in the pipes, or the answer of the child.
LEMMA ParentInStep ==
    ASSUME TypeInv, InStep, ParentStep
    PROVE  InStep'
<1>1. CASE ParentTake
  <2>1. PICK c \in Commands : c = Head(toParent)
    BY <1>1 DEF TypeInv, TypeOK, ParentTake
  <2>2. pipe1 = <<>> /\ pipe2 = <<>> /\ ~usr1 /\ pCmd = "none"
    BY <1>1 DEF ParentTake, InStep
  <2>3. CASE AnswerLocally(c)
    BY <2>2, <2>3 DEF AnswerLocally, ipc, InStep
  <2>4. CASE c \notin Local /\ Forward(c)
    <3>1. pCmd' = c /\ pipe2' = <<>>
      BY <2>2, <2>4 DEF Forward
    <3>2. CASE BySignal(c)
      <4>1. usr1' /\ pipe1' = <<>>
        BY <2>2, <2>4, <3>2 DEF Forward
      <4> QED
        BY <3>1, <3>2, <4>1 DEF BySignal, InStep, Signalled
    <3>3. CASE ~BySignal(c)
      <4>1. pipe1' = Append(<<>>, c) /\ ~usr1'
        BY <2>2, <2>4, <3>3 DEF Forward
      <4>2. Append(<<>>, c) = <<c>>
        OBVIOUS
      <4>3. c # "none"
        BY DEF Commands, Local, Forwarded, Shorts
      <4> QED
        BY <3>1, <4>1, <4>2, <4>3 DEF InStep, InPipe
    <3> QED
      BY <3>2, <3>3
  <2> QED
    BY <1>1, <2>1, <2>3, <2>4 DEF ParentTake, Handle
<1>2. CASE ParentReply
  <2>1. Replied
    BY <1>2 DEF ParentReply, InStep, InPipe, Signalled
  <2>2. PICK a \in Answers : pipe2 = <<a>>
    BY <2>1 DEF Replied
  <2>3. Tail(pipe2) = <<>>
    BY <2>2
  <2> QED
    BY <1>2, <2>1, <2>3 DEF ParentReply, Replied, InStep
<1> QED
  BY <1>1, <1>2 DEF ParentStep

\* An answer in an empty pipe2 for the command in pipe1 or for the signal.
LEMMA AnswerInStep ==
    ASSUME pipe2 = <<>>, NEW a \in Answers, a.cmd = pCmd, pCmd # "none",
           pipe2' = Append(pipe2, a), pipe1' = <<>>, ~usr1', pCmd' = pCmd
    PROVE  InStep'
<1>1. pipe2' = <<a>>
  OBVIOUS
<1> QED
  BY <1>1 DEF InStep, Replied

\* The counters answer a request of the counters.
LEMMA CountersInStep ==
    ASSUME Counters, pipe2 = <<>>, pCmd = "REQDAQINFOR", pCmd' = pCmd, pipe1' = <<>>, ~usr1'
    PROVE  InStep'
<1>1. PICK ask \in {"none", "stop", "pause", "resume"} :
        pipe2' = Append(pipe2, Answer("REQDAQINFOR", 0, ask))
  BY DEF Counters
<1>2. /\ Answer("REQDAQINFOR", 0, ask) \in Answers
      /\ Answer("REQDAQINFOR", 0, ask).cmd = "REQDAQINFOR"
  BY DEF Answer, Answers, Commands, Forwarded, Shorts
<1> QED
  BY <1>1, <1>2, AnswerInStep

\* What a child does that is alive afterwards.
ChildGoesOn ==
    \/ HandleUSR1 \/ HandleUSR2
    \/ Discard \/ DoCommand \/ Misread \/ EnterDAQ \/ EndOfRun
    \/ SelfStop

\* The child answers what it reads from pipe1, or the signal, and nothing else.
LEMMA ChildInStep ==
    ASSUME TypeInv, InStep, ChildGoesOn
    PROVE  InStep'
<1>1. CASE HandleUSR1
  <2>1. Signalled
    BY <1>1 DEF HandleUSR1, InStep, InPipe, Replied
  <2>2. Counters /\ ~usr1' /\ UNCHANGED <<pCmd, pipe1>>
    BY <1>1 DEF HandleUSR1, parent
  <2> QED
    BY <2>1, <2>2, CountersInStep DEF Signalled
<1>2. CASE DoCommand \/ Misread
  <2>1. pipe1 # <<>> /\ pipe1' = Tail(pipe1) /\ UNCHANGED <<pCmd, usr1>>
    BY <1>2 DEF DoCommand, FrameToRead, Misread, ReadBehind, parent
  <2>2. InPipe /\ pCmd # "none"
    BY <2>1 DEF InStep, Signalled, Replied
  <2>3. pipe1 = <<pCmd>> /\ pipe2 = <<>> /\ ~usr1 /\ pCmd \in Forwarded
    BY <2>2 DEF InPipe, TypeInv, TypeOK
  <2>4. Head(pipe1) = pCmd /\ pipe1' = <<>>
    BY <2>1, <2>3
  <2>5. CASE pCmd = "REQDAQINFOR" /\ Counters
    BY <2>1, <2>3, <2>4, <2>5, CountersInStep
  <2>6. ASSUME NEW status \in 0..2, pipe2' = Append(pipe2, Answer(pCmd, status, "none"))
        PROVE  InStep'
    <3>1. /\ Answer(pCmd, status, "none") \in Answers
          /\ Answer(pCmd, status, "none").cmd = pCmd
      BY <2>3 DEF Answer, Answers, Commands
    <3> QED
      BY <2>1, <2>2, <2>3, <2>4, <2>6, <3>1, AnswerInStep
  <2>7. CASE DoCommand
    <3>1. (pCmd = "REQDAQINFOR" /\ Counters) \/
          \E status \in {0, 1} : pipe2' = Append(pipe2, Answer(pCmd, status, "none"))
      BY <2>4, <2>7 DEF DoCommand
    <3> QED
      BY <2>5, <2>6, <3>1
  <2>8. CASE Misread
    <3>1. pipe2' = Append(pipe2, Answer(pCmd, 2, "none"))
      BY <2>4, <2>8 DEF Misread, ReadBehind
    <3> QED
      BY <2>6, <3>1
  <2> QED
    BY <1>2, <2>7, <2>8
<1>3. CASE HandleUSR2 \/ Discard \/ EnterDAQ \/ EndOfRun \/ SelfStop
  <2>1. UNCHANGED <<pCmd, pipe1, pipe2, usr1>>
    BY <1>3 DEF HandleUSR2, Discard, EnterDAQ, EndOfRun, SelfStop, parent, ipc
  <2> QED
    BY <2>1 DEF InStep, InPipe, Signalled, Replied
<1> QED
  BY <1>1, <1>2, <1>3 DEF ChildGoesOn

\* A child that is dead or lost stays so, and with Crash and LoseTheWay becomes so.
LEMMA GoneForGood ==
    ASSUME [Next]_vars
    PROVE  /\ Alive' => Alive
           /\ Crash \/ LoseTheWay => ~Alive'
           /\ ParentStep => UNCHANGED cPc
<1>1. Crash \/ LoseTheWay => ~Alive'
  BY DEF Crash, LoseTheWay, Alive
<1>2. UNCHANGED child => UNCHANGED cPc
  BY DEF child
<1>3. UNCHANGED cPc => (Alive' => Alive)
  BY DEF Alive
<1>4. StartDAQ \/ StopDAQ \/ InitDAQ \/ PauseOrResumeDAQ \/ Poll \/ ShortCommand => UNCHANGED child
  BY DEF StartDAQ, StopDAQ, InitDAQ, PauseOrResumeDAQ, Poll, ShortCommand, BeginStop, Begin
<1>5. HostStep \/ TimeOut \/ GiveUp => UNCHANGED child
  BY DEF HostStep, Send, SendUnawaited, Answered, HostRead, TimeOut, GiveUp
<1>6. ParentStep => UNCHANGED child
  BY DEF ParentStep, ParentTake, ParentReply
<1>7. HandleUSR1 \/ HandleUSR2 \/ Crash => Alive
  BY DEF HandleUSR1, HandleUSR2, Crash
<1>8. Discard \/ DoCommand \/ Misread \/ LoseTheWay \/ EnterDAQ \/ EndOfRun \/ SelfStop => Alive
  BY DEF Discard, DoCommand, FrameToRead, Misread, LoseTheWay, ReadBehind, EnterDAQ, EndOfRun,
         SelfStop, Alive
<1>9. Standstill \/ UNCHANGED vars => UNCHANGED child
  BY DEF Standstill, vars
<1> QED
  BY <1>1, <1>2, <1>3, <1>4, <1>5, <1>6, <1>7, <1>8, <1>9 DEF Next, ChildStep

LEMMA StepInductive == Spec => []StepInv
<1>1. Init => StepInv
  BY DEF Init, InStep, StepInv
<1>2. TypeInv /\ StepInv /\ [Next]_vars => StepInv'
  <2> SUFFICES ASSUME TypeInv, StepInv, [Next]_vars, Alive'
               PROVE  InStep'
    BY DEF StepInv
  <2>0. InStep /\ ~Crash /\ ~LoseTheWay
    BY GoneForGood DEF StepInv
  <2>1. CASE ParentStep
    BY <2>0, <2>1, ParentInStep
  <2>2. CASE HandleUSR1 \/ HandleUSR2 \/ ChildStep \/ SelfStop
    BY <2>0, <2>2, ChildInStep DEF ChildStep, ChildGoesOn
  <2>3. ASSUME UNCHANGED <<pCmd, pipe1, pipe2, usr1>>
        PROVE  InStep'
    BY <2>0, <2>3 DEF InStep, InPipe, Signalled, Replied
  <2>4. CASE StartDAQ \/ StopDAQ \/ InitDAQ \/ PauseOrResumeDAQ \/ Poll \/ ShortCommand
    <3>1. UNCHANGED <<parent, ipc>>
      BY <2>4 DEF StartDAQ, StopDAQ, InitDAQ, PauseOrResumeDAQ, Poll, ShortCommand, BeginStop,
                  Begin
    <3> QED
      BY <2>3, <3>1 DEF parent, ipc
  <2>5. CASE HostStep \/ TimeOut \/ GiveUp
    <3>1. UNCHANGED <<parent, ipc>>
      BY <2>5 DEF HostStep, Send, SendUnawaited, Answered, HostRead, TimeOut, GiveUp
    <3> QED
      BY <2>3, <3>1 DEF parent, ipc
  <2>6. CASE Standstill \/ UNCHANGED vars
    BY <2>3, <2>6 DEF Standstill, vars, parent, ipc
  <2> QED
    BY <2>1, <2>2, <2>4, <2>5, <2>6 DEF Next
<1> QED
  BY <1>1, <1>2, TypeInductive, PTL DEF Spec

\* The parent never gets the answer to another command than the one it waits for, until
\* the child has died or has read a frame with run conditions behind the length of a
\* two-word one: for every interleaving of the signals with the reads of the pipe, every
\* other misread frame, and any number of commands repeated or given up by the host.
THEOREM ParentGetsItsAnswer == Spec => []AnswersItsCommand
<1>1. StepInv => AnswersItsCommand
  BY InStepAnswers
<1> QED
  BY <1>1, StepInductive, PTL

--------------------------------------------------------------------------------
(***************************************************************************)
(* The host, as long as no answer is late.  The command it waits for is in *)
(* one place only, so that what the host believes, what it has still to do *)
(* and what the child has done can be told together: InHand.  It says more *)
(* than the two properties: that a length of a short command is only left  *)
(* where no run is on, and that DAQ_process runs on behind an idle host    *)
(* only while a start is on its way back or a stop on its way there.       *)
(***************************************************************************)

\* What todo can hold: single commands, and a stop, maybe with a resume before and an
\* initialisation behind it.
Singles == {<<c>> : c \in Commands \ {"STOPRUN"}}
Stops == {<<"STOPRUN", "STOPRUN">>, <<"STOPRUN", "STOPRUN", "INITDAQ">>}
LastStops == {<<"STOPRUN">>, <<"STOPRUN", "INITDAQ">>}
ResumedStops == {<<"RESUMERUN">> \o s : s \in Stops}
Procedures == {<<>>} \cup Singles \cup Stops \cup LastStops \cup ResumedStops

InHandIs(c) == todo # <<>> /\ Head(todo) = c
Sent == phase \in {"first", "second"}

\* The command in hand is with the host, on its way to the parent, with the parent and
\* the child, or its answer is on its way back.
Flow ==
    \/ toParent = <<>> /\ pCmd = "none" /\ toHost = <<>> /\ (Sent => node.haveData)
    \/ /\ Sent /\ ~node.haveData
       /\ \/ toParent = <<Head(todo)>> /\ pCmd = "none" /\ toHost = <<>>
          \/ toParent = <<>> /\ pCmd = Head(todo) /\ toHost = <<>>
          \/ /\ toParent = <<>> /\ pCmd = "none"
             /\ \E a \in Answers : toHost = <<a>> /\ a.cmd = Head(todo)

\* The command in hand has been answered with that status, wherever the answer is.
Told(status) ==
    \/ \E a \in Answers : (pipe2 = <<a>> \/ toHost = <<a>>) /\ a.status = status
    \/ Sent /\ node.haveData /\ node.status = status

Untold == \A status \in 0..2 : ~Told(status)

HostInv ==
    /\ Flow /\ ~pollFailed /\ todo \in Procedures
    /\ \A c \in {"STARTRUN", "STOPRUN", "INITDAQ", "PROBE", "REQALLDAQINFOR"} : InHandIs(c) => runState = "Idle"
    /\ \A c \in Once : InHandIs(c) => ~Told(1) /\ ~Told(2)

\* A stop is read behind a stale length only while the parent waits for its answer.
ReadInv ==
    /\ DAQState = "Running" => cPc \in {"start", "daq"}
    /\ usr2 \/ cPc = "read2" => pCmd = "STOPRUN" /\ pipe1 = <<"STOPRUN">>
    /\ ~(usr2 /\ cPc = "read2")

ShortInv ==
    buffer0 = "short" =>
      /\ runState = "Idle"
      /\ \/ todo = <<>> \/ InHandIs("PROBE") \/ InHandIs("REQALLDAQINFOR") \/ InHandIs("INITDAQ")
         \/ InHandIs("STARTRUN") /\ phase \in {"ready", "first"} /\ Untold

RunInv ==
    cPc \in {"start", "daq"} =>
      \/ runState # "Idle"
      \/ InHandIs("STARTRUN") /\ Told(0)
      \/ todo \in Stops /\ phase \in {"ready", "first"} /\ Untold

InHand == HostInv /\ ReadInv /\ ShortInv /\ RunInv

LEMMA StopsAreCommands == Stops \subseteq Seq(Commands)
  <1>1. /\ <<"STOPRUN", "STOPRUN">> \in Seq(Commands)
        /\ <<"STOPRUN", "STOPRUN", "INITDAQ">> \in Seq(Commands)
    BY DEF Commands, Forwarded, Shorts
  <1> QED BY <1>1 DEF Stops

LEMMA Shapes ==
    ASSUME NEW t \in Procedures
    PROVE  /\ t # <<>> => \/ t \in Singles /\ Head(t) # "STOPRUN" /\ Tail(t) = <<>>
                          \/ t \in ResumedStops /\ Head(t) = "RESUMERUN" /\ Tail(t) \in Stops
                          \/ t \in Stops \cup LastStops
           /\ t \in Stops => /\ t # <<>> /\ Head(t) = "STOPRUN" /\ Len(t) > 1 /\ t[2] = "STOPRUN"
                             /\ Tail(t) \in LastStops /\ Tail(Tail(t)) \in {<<>>, <<"INITDAQ">>}
           /\ t \in LastStops => /\ t # <<>> /\ Head(t) = "STOPRUN"
                                 /\ ~(Len(t) > 1 /\ t[2] = "STOPRUN")
                                 /\ Tail(t) \in {<<>>, <<"INITDAQ">>}
  <1>1. ASSUME t \in Singles, t # <<>> PROVE Head(t) # "STOPRUN" /\ Tail(t) = <<>>
    <2>1. PICK c \in Commands \ {"STOPRUN"} : t = <<c>>
      BY <1>1 DEF Singles
    <2> QED BY <2>1
  <1>2. ASSUME t \in Stops
        PROVE  /\ t # <<>> /\ Head(t) = "STOPRUN" /\ Len(t) > 1 /\ t[2] = "STOPRUN"
               /\ Tail(t) \in LastStops /\ Tail(Tail(t)) \in {<<>>, <<"INITDAQ">>}
    <2>1. CASE t = <<"STOPRUN", "STOPRUN">>
      <3>1. Tail(t) = <<"STOPRUN">> /\ Tail(<<"STOPRUN">>) = <<>>
        BY <2>1
      <3> QED BY <2>1, <3>1 DEF LastStops
    <2>2. CASE t = <<"STOPRUN", "STOPRUN", "INITDAQ">>
      <3>1. Tail(t) = <<"STOPRUN", "INITDAQ">>
        BY <2>2
      <3>2. Tail(<<"STOPRUN", "INITDAQ">>) = <<"INITDAQ">>
        OBVIOUS
      <3> QED BY <2>2, <3>1, <3>2 DEF LastStops
    <2> QED BY <1>2, <2>1, <2>2 DEF Stops
  <1>3. ASSUME t \in LastStops
        PROVE  /\ t # <<>> /\ Head(t) = "STOPRUN" /\ ~(Len(t) > 1 /\ t[2] = "STOPRUN")
               /\ Tail(t) \in {<<>>, <<"INITDAQ">>}
    <2>1. CASE t = <<"STOPRUN">>
      BY <2>1
    <2>2. CASE t = <<"STOPRUN", "INITDAQ">>
      <3>1. Tail(t) = <<"INITDAQ">>
        BY <2>2
      <3> QED BY <2>2, <3>1
    <2> QED BY <1>3, <2>1, <2>2 DEF LastStops
  <1>4. ASSUME t \in ResumedStops PROVE Head(t) = "RESUMERUN" /\ Tail(t) \in Stops
    <2>1. PICK s \in Stops : t = <<"RESUMERUN">> \o s
      BY <1>4 DEF ResumedStops
    <2>2. s \in Seq(Commands)
      BY StopsAreCommands
    <2>3. Head(t) = "RESUMERUN" /\ Tail(t) = s
      BY <2>1, <2>2
    <2> QED BY <2>3
  <1> QED BY <1>1, <1>2, <1>3, <1>4 DEF Procedures

LEMMA InHandInit == Init => InHand
  <1> SUFFICES ASSUME Init PROVE InHand
    OBVIOUS
  <1>1. HostInv
    BY DEF Init, HostInv, Flow, Sent, InHandIs, Procedures
  <1>2. ReadInv /\ ShortInv /\ RunInv
    BY DEF Init, ReadInv, ShortInv, RunInv
  <1> QED BY <1>1, <1>2 DEF InHand

\* With no command in hand nothing is on its way.
LEMMA Quiet ==
    ASSUME TypeInv, InStep, Flow, Sent => node.haveData
    PROVE  /\ toParent = <<>> /\ pCmd = "none" /\ toHost = <<>>
           /\ pipe1 = <<>> /\ pipe2 = <<>> /\ ~usr1
           /\ ~Sent => Untold
  <1>1. toParent = <<>> /\ pCmd = "none" /\ toHost = <<>>
    BY DEF Flow
  <1>2. pipe1 = <<>> /\ pipe2 = <<>> /\ ~usr1
    BY <1>1 DEF InStep
  <1>3. \A a \in Answers : <<a>> # <<>>
    OBVIOUS
  <1> QED BY <1>1, <1>2, <1>3 DEF Untold, Told

\* A procedure starts.
LEMMA BeginInHand ==
    ASSUME TypeInv, InStep, InHand, NEW s \in Procedures, s # <<>>, Begin(s),
           \A c \in {"STARTRUN", "STOPRUN", "INITDAQ", "PROBE", "REQALLDAQINFOR"} : Head(s) = c => runState' = "Idle",
           runState = "Idle" => runState' = "Idle" /\ Head(s) \in {"STARTRUN", "INITDAQ", "PROBE", "REQALLDAQINFOR"},
           runState # "Idle" => runState' # "Idle" \/ s \in Stops
    PROVE  InHand'
  <1>1. /\ todo = <<>> /\ todo' = s /\ phase = "ready"
        /\ UNCHANGED <<pauseRunAsRequested, phase, pollFailed, node, sock, parent, ipc, child>>
    BY DEF Begin, TypeInv
  <1>2. /\ toParent = <<>> /\ pCmd = "none" /\ toHost = <<>>
        /\ pipe1 = <<>> /\ pipe2 = <<>> /\ ~usr1 /\ Untold /\ ~Sent
    BY <1>1, Quiet DEF InHand, HostInv, Sent
  <1>3. Untold' /\ Flow' /\ ~Sent'
    BY <1>1, <1>2 DEF Untold, Told, Flow, Sent, sock, parent, ipc
  <1>4. HostInv'
    BY <1>1, <1>3 DEF InHand, HostInv, InHandIs, Untold
  <1>5. ReadInv'
    BY <1>1 DEF InHand, ReadInv, parent, ipc, child
  <1>6. ShortInv'
    BY <1>1, <1>3 DEF InHand, ShortInv, InHandIs, child
  <1>7. RunInv'
    <2>1. <<>> \notin Stops
      BY Shapes DEF Procedures
    <2> QED BY <1>1, <1>3, <2>1 DEF InHand, RunInv, InHandIs, child
  <1> QED BY <1>4, <1>5, <1>6, <1>7 DEF InHand

LEMMA OperatorInHand ==
    ASSUME TypeInv, InStep, InHand,
           StartDAQ \/ StopDAQ \/ InitDAQ \/ PauseOrResumeDAQ \/ Poll \/ ShortCommand
    PROVE  InHand'
  <1>1. ASSUME NEW c \in Commands \ {"STOPRUN"}
        PROVE  <<c>> \in Procedures /\ <<c>> # <<>> /\ Head(<<c>>) = c
    BY DEF Procedures, Singles
  <1>2. /\ {"STARTRUN", "INITDAQ", "PROBE", "REQALLDAQINFOR", "PAUSERUN", "RESUMERUN", "REQDAQINFOR", "REREQDAQINFOR"}
             \subseteq Commands \ {"STOPRUN"}
    BY DEF Commands, Local, Forwarded, Shorts
  <1>3. ASSUME NEW c \in {"STARTRUN", "INITDAQ", "PROBE", "REQALLDAQINFOR"}, Begin(<<c>>), runState = "Idle",
               runState' = "Idle"
        PROVE  InHand'
    BY <1>1, <1>2, <1>3, BeginInHand
  <1>4. ASSUME NEW c \in {"PAUSERUN", "RESUMERUN", "REQDAQINFOR", "REREQDAQINFOR"}, Begin(<<c>>),
               runState # "Idle", runState' = runState
        PROVE  InHand'
    BY <1>1, <1>2, <1>4, BeginInHand
  <1>5. ASSUME NEW s \in Stops, Begin(s), runState \notin {"Idle", "Paused"}, runState' = "Idle"
        PROVE  InHand'
    <2>1. s \in Procedures /\ s # <<>> /\ Head(s) = "STOPRUN"
      BY Shapes DEF Procedures
    <2> QED BY <1>5, <2>1, BeginInHand
  <1>6. ASSUME NEW s \in ResumedStops, Begin(s), runState = "Paused", runState' = "Paused"
        PROVE  InHand'
    <2>1. s \in Procedures
      BY DEF Procedures
    <2>2. s # <<>> /\ Head(s) = "RESUMERUN"
      <3>1. PICK t \in Stops : s = <<"RESUMERUN">> \o t
        BY DEF ResumedStops
      <3>2. t \in Seq(Commands)
        BY StopsAreCommands
      <3> QED BY <3>1, <3>2
    <2> QED BY <1>6, <2>1, <2>2, BeginInHand
  <1>7. /\ runState = "Paused" => /\ StopSequence \in ResumedStops
                                  /\ StopSequence \o <<"INITDAQ">> \in ResumedStops
        /\ runState # "Paused" => /\ StopSequence \in Stops
                                  /\ StopSequence \o <<"INITDAQ">> \in Stops
    <2> DEFINE two == <<"STOPRUN", "STOPRUN">>
               three == <<"STOPRUN", "STOPRUN", "INITDAQ">>
               resume == <<"RESUMERUN">>
               init == <<"INITDAQ">>
    <2>1. /\ two \in Seq(Commands) /\ three \in Seq(Commands) /\ resume \in Seq(Commands)
          /\ init \in Seq(Commands)
      BY DEF Commands, Local, Forwarded, Shorts
    <2>2. two \o init = three /\ <<>> \o two = two
      <3>1. /\ Len(two \o init) = 3 /\ (two \o init)[1] = "STOPRUN" /\ (two \o init)[2] = "STOPRUN"
            /\ (two \o init)[3] = "INITDAQ" /\ two \o init \in Seq(Commands)
        BY <2>1
      <3>2. \A i \in 1..3 : (two \o init)[i] = three[i]
        BY <3>1
      <3>3. Len(three) = 3
        OBVIOUS
      <3> HIDE DEF two, init, three
      <3>4. two \o init = three
        BY <2>1, <3>1, <3>2, <3>3
      <3> QED BY <2>1, <3>4
    <2>3. two \in Stops /\ three \in Stops
      BY DEF Stops
    <2> HIDE DEF two, three, init
    <2> HIDE DEF resume
    <2>4. (resume \o two) \o init = resume \o three
      <3>1. (resume \o two) \o init = resume \o (two \o init)
        BY ONLY <2>1, ConcatAssociative
      <3> QED BY <2>2, <3>1
    <2>5. resume \o two \in ResumedStops /\ resume \o three \in ResumedStops
      BY <2>3 DEF ResumedStops, resume
    <2>6. StopSequence = IF runState = "Paused" THEN resume \o two ELSE two
      BY <2>2 DEF StopSequence, two, resume
    <2> QED BY <2>2, <2>3, <2>4, <2>5, <2>6 DEF init
  <1>8. runState \in {"Idle", "Running", "Paused"}
    BY DEF TypeInv, TypeOK
  <1>9. CASE StartDAQ \/ ShortCommand
    BY <1>3, <1>9 DEF StartDAQ, ShortCommand
  <1>10. CASE StopDAQ
    BY <1>5, <1>6, <1>7, <1>8, <1>10 DEF StopDAQ, BeginStop
  <1>11. CASE InitDAQ
    BY <1>3, <1>5, <1>6, <1>7, <1>8, <1>11 DEF InitDAQ, BeginStop
  <1>12. CASE PauseOrResumeDAQ
    BY <1>4, <1>12 DEF PauseOrResumeDAQ
  <1>13. CASE Poll
    BY <1>4, <1>13 DEF Poll
  <1> QED BY <1>9, <1>10, <1>11, <1>12, <1>13

\* The host sends the command in hand.
LEMMA SendInHand ==
    ASSUME TypeInv, InStep, InHand, Send
    PROVE  InHand'
  <1>1. /\ todo # <<>> /\ ~Sent /\ phase' \in {"first", "second"}
        /\ phase = "ready" => phase' = "first"
        /\ toParent' = Append(toParent, Head(todo))
        /\ node' = [issued |-> TRUE, haveData |-> FALSE, status |-> 0]
        /\ UNCHANGED <<runState, todo, pollFailed, toHost, parent, ipc, child>>
    BY DEF Send, Issue, Sent
  <1>2. /\ toParent = <<>> /\ pCmd = "none" /\ toHost = <<>>
        /\ pipe1 = <<>> /\ pipe2 = <<>> /\ ~usr1 /\ Untold
    BY <1>1, Quiet DEF InHand, HostInv
  <1>3. toParent' = <<Head(todo)>>
    BY <1>1, <1>2
  <1>4. Sent' /\ ~node'.haveData /\ Flow' /\ Untold'
    <2>1. \A a \in Answers : <<a>> # <<>>
      OBVIOUS
    <2> QED BY <1>1, <1>2, <1>3, <2>1 DEF Sent, Flow, Untold, Told, parent, ipc
  <1>5. HostInv'
    BY <1>1, <1>4 DEF InHand, HostInv, InHandIs, Untold
  <1>6. ReadInv'
    BY <1>1 DEF InHand, ReadInv, parent, ipc, child
  <1>7. ShortInv'
    BY <1>1, <1>4 DEF InHand, ShortInv, InHandIs, Sent, child
  <1>8. RunInv'
    <2>1. InHandIs("STARTRUN") /\ Told(0) => FALSE
      BY <1>2 DEF Untold
    <2> QED BY <1>1, <1>4, <2>1 DEF InHand, RunInv, InHandIs, Sent, child
  <1> QED BY <1>5, <1>6, <1>7, <1>8 DEF InHand

\* It has the answer.
LEMMA AnsweredInHand ==
    ASSUME TypeInv, InStep, InHand, Answered
    PROVE  InHand'
  <1>1. /\ Sent /\ node.haveData /\ todo # <<>> /\ todo \in Procedures
        /\ UNCHANGED <<node, sock, parent, ipc, child>>
    BY DEF Answered, Sent, TypeInv, InHand, HostInv
  <1>2. /\ toParent = <<>> /\ pCmd = "none" /\ toHost = <<>>
        /\ pipe1 = <<>> /\ pipe2 = <<>> /\ ~usr1
    BY <1>1, Quiet DEF InHand, HostInv
  <1>3. ReadInv'
    BY <1>1 DEF InHand, ReadInv, parent, ipc, child
  <1>4. node.status \in 0..2 /\ Told(node.status)
    BY <1>1 DEF TypeInv, TypeOK, Told
  <1>5. ~Untold
    BY <1>4 DEF Untold
  <1>6. ~(usr2 \/ cPc = "read2")
    BY <1>2 DEF InHand, ReadInv
  <1>7. ASSUME ~Sent'
        PROVE  Flow' /\ Untold'
    <2>1. \A a \in Answers : <<a>> # <<>>
      OBVIOUS
    <2> QED BY <1>1, <1>2, <1>7, <2>1 DEF Flow, Untold, Told, sock, parent, ipc
  <1>8. CASE phase' = "retry" /\ UNCHANGED <<runState, pauseRunAsRequested, todo, pollFailed>>
             /\ phase = "first" /\ node.status # 0
    <2>1. Flow' /\ Untold' /\ ~Sent'
      BY <1>7, <1>8 DEF Sent
    <2>2. HostInv'
      BY <1>8, <2>1 DEF InHand, HostInv, InHandIs, Untold
    <2>3. ShortInv'
      BY <1>1, <1>5, <1>8 DEF InHand, ShortInv, InHandIs, child
    <2>4. RunInv'
      <3>1. ~Told(0)
        BY <1>1, <1>2, <1>8 DEF Told
      <3> QED BY <1>1, <1>5, <1>8, <3>1 DEF InHand, RunInv, InHandIs, child
    <2> QED BY <1>3, <2>2, <2>3, <2>4 DEF InHand
  <1>9. ASSUME NEW ok \in BOOLEAN, Finish(ok), ok <=> node.status = 0
        PROVE  InHand'
    <2> DEFINE c == Head(todo)
    <2>1. /\ todo' = Remaining(ok) /\ phase' = "ready" /\ ~Sent'
          /\ pollFailed' = (c \in Once /\ ~ok)
      BY <1>9 DEF Finish, Sent
    <2>2. Flow' /\ Untold'
      BY <1>7, <2>1
    <2>3. ~pollFailed'
      <3>1. ASSUME c \in Once, node.status # 0 PROVE FALSE
        <4>1. ~Told(1) /\ ~Told(2)
          BY <1>1, <3>1 DEF InHand, HostInv, InHandIs
        <4>2. node.status = 1 \/ node.status = 2
          BY <1>4, <3>1
        <4> QED BY <1>4, <4>1, <4>2
      <3> QED BY <1>9, <2>1, <3>1
    <2>4. buffer0 = "short" => runState = "Idle" /\ c \in {"PROBE", "REQALLDAQINFOR", "INITDAQ"}
      BY <1>1, <1>5 DEF InHand, ShortInv, InHandIs
    <2>5. cPc \in {"start", "daq"} => runState # "Idle" \/ (c = "STARTRUN" /\ ok)
      <3>1. Told(0) => node.status = 0
        <4>1. \A a \in Answers : <<a>> # <<>>
          OBVIOUS
        <4> QED BY <1>1, <1>2, <4>1 DEF Told
      <3> QED BY <1>1, <1>5, <1>9, <3>1 DEF InHand, RunInv, InHandIs
    <2>6. \A x \in {"STARTRUN", "STOPRUN", "INITDAQ", "PROBE", "REQALLDAQINFOR"} : c = x => runState = "Idle"
      BY <1>1 DEF InHand, HostInv, InHandIs
    <2>7. ASSUME todo' = <<>>, c # "STARTRUN" => runState' # "Idle" \/ runState' = runState,
                 c = "STARTRUN" /\ ok => runState' # "Idle",
                 c \in {"PROBE", "REQALLDAQINFOR", "INITDAQ"} => runState' = runState
          PROVE  HostInv' /\ ShortInv' /\ RunInv'
      <3>1. HostInv'
        BY <2>2, <2>3, <2>7 DEF HostInv, InHandIs, Procedures
      <3>2. ShortInv'
        BY <1>1, <2>4, <2>7 DEF ShortInv, child
      <3>3. RunInv'
        BY <1>1, <2>5, <2>6, <2>7 DEF RunInv, child
      <3> QED BY <3>1, <3>2, <3>3
    <2>8. CASE todo \in Singles /\ c # "STOPRUN" /\ Tail(todo) = <<>>
      <3>1. todo' = <<>>
        BY <2>1, <2>8 DEF Remaining
      <3>2. runState' = CASE c = "STARTRUN" -> IF ok THEN "Running" ELSE "Idle"
                         [] c = "STOPRUN" -> "Idle"
                         [] c = "PAUSERUN" -> "Paused"
                         [] c = "RESUMERUN" -> "Running"
                         [] OTHER -> runState
        BY <1>9, <2>8 DEF Finish
      <3> HIDE DEF c
      <3>3. /\ c # "STARTRUN" => runState' # "Idle" \/ runState' = runState
            /\ c = "STARTRUN" /\ ok => runState' # "Idle"
            /\ c \in {"PROBE", "REQALLDAQINFOR", "INITDAQ"} => runState' = runState
        BY <2>8, <3>2
      <3> QED BY <1>3, <2>7, <3>1, <3>3 DEF InHand
    <2>9. CASE todo \in ResumedStops /\ c = "RESUMERUN" /\ Tail(todo) \in Stops
      <3>1. todo' = Tail(todo) /\ todo' # <<>> /\ Head(todo') = "STOPRUN" /\ todo' \in Procedures
        BY <2>1, <2>9, Shapes DEF Remaining, Procedures
      <3>2. runState' = "Idle"
        BY <1>9, <2>9, <3>1 DEF Finish
      <3>3. HostInv'
        BY <2>2, <2>3, <3>1, <3>2 DEF HostInv, InHandIs, Untold
      <3>4. ShortInv'
        BY <1>1, <2>4, <2>9 DEF ShortInv, child
      <3>5. RunInv'
        BY <2>1, <2>2, <2>9, <3>1 DEF RunInv
      <3> QED BY <1>3, <3>3, <3>4, <3>5 DEF InHand
    <2>10. CASE todo \in Stops \cup LastStops
      <3>1. c = "STOPRUN" /\ todo' \in LastStops \cup {<<>>, <<"INITDAQ">>}
        BY <2>1, <2>10, Shapes DEF Remaining, Procedures
      <3>2. runState' = "Idle" /\ runState = "Idle"
        BY <1>9, <2>6, <3>1 DEF Finish
      <3>3. todo' \in Procedures /\ (todo' # <<>> => Head(todo') \notin Once)
        <4>1. <<"INITDAQ">> \in Singles /\ Head(<<"INITDAQ">>) = "INITDAQ"
          BY DEF Singles, Commands, Forwarded, Shorts
        <4>2. \A t \in LastStops : t \in Procedures /\ Head(t) = "STOPRUN"
          BY Shapes DEF Procedures
        <4> QED BY <3>1, <4>1, <4>2 DEF Procedures, Once, Shorts
      <3>4. HostInv'
        BY <2>2, <2>3, <3>2, <3>3 DEF HostInv, InHandIs
      <3>5. ShortInv'
        BY <1>1, <2>4, <3>1 DEF ShortInv, child
      <3>6. RunInv'
        BY <1>1, <2>5, <3>1, <3>2 DEF RunInv, child
      <3> QED BY <1>3, <3>4, <3>5, <3>6 DEF InHand
    <2> QED BY <1>1, <2>8, <2>9, <2>10, Shapes
  <1>10. CASE node.status = 0
    BY <1>9, <1>10 DEF Answered
  <1>11. CASE node.status # 0
    BY <1>8, <1>9, <1>11 DEF Answered, Failed
  <1> QED BY <1>10, <1>11

\* It reads the answer, which may ask for a pause, its end or a stop.
LEMMA HostReadInHand ==
    ASSUME TypeInv, InStep, InHand, HostRead
    PROVE  InHand'
  <1>1. /\ toHost # <<>> /\ toHost' = Tail(toHost)
        /\ UNCHANGED <<hadRun, todo, phase, pollFailed, timeouts, toParent, parent, ipc, child>>
    BY DEF HostRead
  <1>2. /\ Sent /\ ~node.haveData /\ toParent = <<>> /\ pCmd = "none"
        /\ \E a \in Answers : toHost = <<a>> /\ a.cmd = Head(todo)
    BY <1>1 DEF InHand, HostInv, Flow
  <1>3. PICK a \in Answers : toHost = <<a>> /\ a.cmd = Head(todo)
    BY <1>2
  <1>4. Head(toHost) = a /\ toHost' = <<>> /\ pipe1 = <<>> /\ pipe2 = <<>> /\ ~usr1
    BY <1>1, <1>2, <1>3 DEF InStep
  <1>5. node' = [node EXCEPT !.haveData = TRUE, !.status = a.status]
    BY <1>2, <1>4 DEF HostRead
  <1>6. node'.haveData /\ node'.status = a.status /\ Sent' /\ Flow'
    <2>1. node \in [issued : BOOLEAN, haveData : BOOLEAN, status : 0..2]
      BY DEF TypeInv, TypeOK
    <2>2. node'.haveData /\ node'.status = a.status
      BY <1>5, <2>1
    <2> QED BY <1>1, <1>2, <1>4, <2>2 DEF Flow, Sent, parent
  <1>7. \A s \in 0..2 : Told(s)' <=> Told(s)
    <2>1. \A b \in Answers : <<b>> # <<>> /\ (<<b>> = <<a>> => b = a)
      OBVIOUS
    <2>2. \A s \in 0..2 : Told(s) <=> a.status = s
      BY <1>2, <1>3, <1>4, <2>1 DEF Told
    <2>3. \A s \in 0..2 : Told(s)' <=> a.status = s
      BY <1>1, <1>4, <1>6, <2>1 DEF Told, ipc
    <2> QED BY <2>2, <2>3
  <1>8. Untold' <=> Untold
    BY <1>7 DEF Untold
  <1>9. /\ runState' = "Idle" <=> runState = "Idle"
    BY <1>1 DEF HostRead, Heard, PauseOver
  <1>10. HostInv'
    <2>1. \A c \in Once : InHandIs(c)' => ~Told(1)' /\ ~Told(2)'
      BY <1>1, <1>7 DEF InHand, HostInv, InHandIs
    <2> QED BY <1>1, <1>6, <1>9, <2>1 DEF InHand, HostInv, InHandIs
  <1>11. ReadInv'
    BY <1>1 DEF InHand, ReadInv, parent, ipc, child
  <1>12. ShortInv'
    BY <1>1, <1>8, <1>9 DEF InHand, ShortInv, InHandIs, child
  <1>13. RunInv'
    <2>1. Told(0)' <=> Told(0)
      BY <1>7
    <2> QED BY <1>1, <1>8, <1>9, <2>1 DEF InHand, RunInv, InHandIs, child
  <1> QED BY <1>10, <1>11, <1>12, <1>13 DEF InHand

\* The host is left alone, and so is what is told: the parent takes the command in hand
\* and answers it itself or passes it on, or passes the answer of the child on.
LEMMA ParentInHand ==
    ASSUME TypeInv, InStep, InHand, ParentStep
    PROVE  InHand'
  <1> USE DEF host, child, wants
  <1>1. UNCHANGED <<host, child>>
    BY DEF ParentStep, ParentTake, ParentReply
  <1>2. \A a, b \in Answers : <<a>> # <<>> /\ (<<b>> = <<a>> => b = a)
    OBVIOUS
  <1>3. Sent' <=> Sent
    BY <1>1 DEF Sent
  <1>4. CASE ParentTake
    <2>1. /\ pCmd = "none" /\ toParent # <<>> /\ toParent' = Tail(toParent)
          /\ toHost = <<>> /\ Sent /\ ~node.haveData /\ toParent = <<Head(todo)>>
          /\ pipe1 = <<>> /\ pipe2 = <<>> /\ ~usr1
      BY <1>2, <1>4 DEF ParentTake, InHand, HostInv, Flow, InStep
    <2> DEFINE c == Head(todo)
    <2>2. Head(toParent) = c /\ toParent' = <<>> /\ Handle(c) /\ c \in Commands /\ todo # <<>>
      BY <1>4, <2>1 DEF ParentTake, TypeInv, TypeOK, Sent
    <2>3. Untold /\ ~usr2 /\ cPc # "read2"
      BY <1>2, <2>1 DEF Untold, Told, InHand, ReadInv
    <2>4. CASE c \in Local /\ AnswerLocally(c)
      <3>1. /\ toHost' = Append(toHost, Answer(c, 0, "none"))
            /\ UNCHANGED <<pCmd, pipe1, pipe2, usr1, usr2>>
        BY <2>4 DEF AnswerLocally, ipc
      <3>2. Answer(c, 0, "none") \in Answers /\ Answer(c, 0, "none").cmd = c
            /\ Answer(c, 0, "none").status = 0
        BY <2>2 DEF Answer, Answers
      <3>3. toHost' = <<Answer(c, 0, "none")>>
        BY <2>1, <3>1
      <3>4. Flow'
        BY <1>1, <1>3, <2>1, <2>2, <3>1, <3>2, <3>3 DEF Flow
      <3>5. ~Told(1)' /\ ~Told(2)'
        BY <1>1, <1>2, <1>3, <2>1, <3>1, <3>2, <3>3 DEF Told
      <3>6. HostInv'
        BY <1>1, <3>4, <3>5 DEF InHand, HostInv, InHandIs
      <3>7. c \notin {"STARTRUN", "STOPRUN", "INITDAQ", "PROBE", "REQALLDAQINFOR"}
        BY <2>4 DEF Local
      <3>8. todo \notin Stops
        BY <3>7, Shapes DEF InHand, HostInv
      <3>9. ReadInv' /\ ShortInv' /\ RunInv'
        BY <1>1, <2>2, <2>3, <3>1, <3>7, <3>8
           DEF InHand, ReadInv, ShortInv, RunInv, InHandIs
      <3> QED BY <3>6, <3>9 DEF InHand
    <2>5. CASE c \notin Local /\ Forward(c)
      <3>1. /\ pCmd' = c /\ UNCHANGED <<toHost, pipe2>>
            /\ usr2' = (usr2 \/ (c = "STOPRUN" /\ pState # "Idle"))
            /\ pipe1' = IF BySignal(c) THEN pipe1 ELSE Append(pipe1, c)
        BY <2>5 DEF Forward
      <3>2. Flow' /\ Untold'
        BY <1>1, <1>2, <1>3, <2>1, <2>2, <3>1 DEF Flow, Untold, Told
      <3>3. HostInv'
        BY <1>1, <3>2 DEF InHand, HostInv, InHandIs, Untold
      <3>4. ReadInv'
        <4>1. usr2' => c = "STOPRUN"
          BY <2>3, <3>1
        <4>2. c = "STOPRUN" => pipe1' = <<"STOPRUN">>
          <5>1. c = "STOPRUN" => ~BySignal(c)
            BY DEF BySignal
          <5> QED BY <2>1, <3>1, <5>1
        <4> QED BY <1>1, <2>3, <3>1, <4>1, <4>2 DEF InHand, ReadInv
      <3>5. ShortInv'
        BY <1>1, <3>2 DEF InHand, ShortInv, InHandIs
      <3>6. RunInv'
        <4>1. ~Told(0)
          BY <2>3 DEF Untold
        <4> QED BY <1>1, <3>2, <4>1 DEF InHand, RunInv, InHandIs
      <3> QED BY <3>3, <3>4, <3>5, <3>6 DEF InHand
    <2> QED BY <2>2, <2>4, <2>5 DEF Handle
  <1>5. CASE ParentReply
    <2>1. /\ pCmd # "none" /\ pipe2 # <<>> /\ pCmd' = "none"
          /\ toHost' = Append(toHost, Head(pipe2)) /\ pipe2' = Tail(pipe2)
          /\ UNCHANGED <<toParent, pipe1, usr1, usr2>>
      BY <1>5 DEF ParentReply
    <2>2. Replied /\ toParent = <<>> /\ pCmd = Head(todo) /\ toHost = <<>> /\ Sent /\ ~node.haveData
      BY <2>1 DEF InStep, InPipe, Signalled, InHand, HostInv, Flow
    <2>3. PICK a \in Answers : pipe2 = <<a>> /\ a.cmd = pCmd
      BY <2>2 DEF Replied
    <2>4. toHost' = <<a>> /\ pipe2' = <<>>
      BY <2>1, <2>2, <2>3
    <2>5. \A s \in 0..2 : Told(s)' <=> Told(s)
      <3>1. \A s \in 0..2 : Told(s) <=> a.status = s
        BY <1>2, <2>2, <2>3 DEF Told
      <3>2. \A s \in 0..2 : Told(s)' <=> a.status = s
        BY <1>1, <1>2, <2>2, <2>4 DEF Told
      <3> QED BY <3>1, <3>2
    <2>6. Flow'
      BY <1>1, <1>3, <2>1, <2>2, <2>3, <2>4 DEF Flow
    <2>7. HostInv'
      BY <1>1, <2>5, <2>6 DEF InHand, HostInv, InHandIs
    <2>8. ReadInv'
      <3>1. pipe1 # <<"STOPRUN">>
        BY <2>2 DEF Replied
      <3> QED BY <1>1, <2>1, <3>1 DEF InHand, ReadInv
    <2>9. Untold' <=> Untold
      BY <2>5 DEF Untold
    <2>10. ShortInv'
      BY <1>1, <2>9 DEF InHand, ShortInv, InHandIs
    <2>11. RunInv'
      BY <1>1, <2>5, <2>9 DEF InHand, RunInv, InHandIs
    <2> QED BY <2>7, <2>8, <2>10, <2>11 DEF InHand
  <1> QED BY <1>4, <1>5 DEF ParentStep

\* The handlers interrupt the child, but a read of pipe1 only while a stop is in it.
LEMMA HandlersInHand ==
    ASSUME TypeInv, InStep, InHand, HandleUSR1 \/ HandleUSR2
    PROVE  InHand'
  <1> USE DEF host, sock, parent, wants
  <1>1. CASE HandleUSR1
    <2>1. /\ usr1 /\ ~usr1' /\ Counters
          /\ UNCHANGED <<host, sock, parent, pipe1, usr2, DAQState, leftover, requestForStop>>
          /\ buffer0' = LengthAfterCounters /\ AfterSignal(buffer0')
      BY <1>1 DEF HandleUSR1
    <2>2. pCmd = "REQDAQINFOR" /\ pipe2 = <<>> /\ pipe1 = <<>>
      BY <2>1 DEF InStep, InPipe, Signalled, Replied
    <2>3. toParent = <<>> /\ toHost = <<>> /\ Sent /\ ~node.haveData /\ Head(todo) = "REQDAQINFOR"
          /\ todo # <<>>
      BY <2>2 DEF InHand, HostInv, Flow, TypeInv, Sent
    <2>4. PICK a \in Answers : pipe2' = <<a>> /\ a.status = 0
      <3>1. PICK ask \in {"none", "stop", "pause", "resume"} :
              pipe2' = Append(pipe2, Answer("REQDAQINFOR", 0, ask))
        BY <2>1 DEF Counters
      <3>2. /\ Answer("REQDAQINFOR", 0, ask) \in Answers
            /\ Answer("REQDAQINFOR", 0, ask).status = 0
        BY DEF Answer, Answers, Commands, Forwarded, Shorts
      <3>3. pipe2' = <<Answer("REQDAQINFOR", 0, ask)>>
        BY <2>2, <3>1
      <3> QED BY <3>2, <3>3
    <2>5. ~Told(1)' /\ ~Told(2)'
      <3>1. \A b \in Answers : <<b>> # <<>> /\ (<<b>> = <<a>> => b = a)
        OBVIOUS
      <3> QED BY <2>1, <2>3, <2>4, <3>1 DEF Told
    <2>6. Flow'
      BY <2>1, <2>2, <2>3 DEF Flow, Sent
    <2>7. HostInv'
      BY <2>1, <2>5, <2>6 DEF InHand, HostInv, InHandIs
    <2>8. cPc' = cPc
      BY <2>1 DEF AfterSignal, LengthAfterCounters, InHand, ReadInv, TypeInv, TypeOK
    <2>9. ReadInv'
      BY <2>1, <2>8 DEF InHand, ReadInv
    <2>10. ShortInv'
      BY <2>1 DEF ShortInv, LengthAfterCounters
    <2>11. RunInv'
      <3>1. todo \notin Stops /\ ~InHandIs("STARTRUN")
        BY <2>3, Shapes DEF InHand, HostInv, InHandIs
      <3> QED BY <2>1, <2>8, <3>1 DEF InHand, RunInv
    <2> QED BY <2>7, <2>9, <2>10, <2>11 DEF InHand
  <1>2. CASE HandleUSR2
    <2>1. /\ usr2 /\ ~usr2' /\ DAQState' = "Idle" /\ AfterSignal(buffer0)
          /\ UNCHANGED <<host, sock, parent, pipe1, pipe2, usr1, buffer0, leftover, wants>>
      BY <1>2 DEF HandleUSR2
    <2>2. (Untold' <=> Untold) /\ \A s \in 0..2 : Told(s)' <=> Told(s)
      BY <2>1 DEF Untold, Told, Sent
    <2>3. HostInv'
      BY <2>1, <2>2 DEF InHand, HostInv, InHandIs, Flow, Sent
    <2>4. ReadInv'
      BY <2>1 DEF InHand, ReadInv
    <2>5. ShortInv'
      BY <2>1, <2>2 DEF InHand, ShortInv, InHandIs
    <2>6. RunInv'
      BY <2>1, <2>2 DEF InHand, RunInv, InHandIs, AfterSignal
    <2> QED BY <2>3, <2>4, <2>5, <2>6 DEF InHand
  <1> QED BY <1>1, <1>2

\* The child does a command, or misreads a stop.
LEMMA CommandInHand ==
    ASSUME TypeInv, InStep, InHand, DoCommand \/ Misread
    PROVE  InHand'
  <1> USE DEF host, sock, parent, wants
  <1>1. /\ pipe1 # <<>> /\ pipe1' = Tail(pipe1)
        /\ UNCHANGED <<host, sock, parent, usr1, usr2>>
    BY DEF DoCommand, FrameToRead, Misread, ReadBehind
  <1>2. pipe1 = <<pCmd>> /\ pipe2 = <<>> /\ pCmd \in Forwarded /\ pCmd # "none"
    <2>1. InPipe /\ pCmd # "none"
      BY <1>1 DEF InStep, Signalled, Replied
    <2> QED BY <2>1 DEF InPipe, TypeInv, TypeOK
  <1>3. Head(pipe1) = pCmd /\ pipe1' = <<>>
    BY <1>1, <1>2
  <1>4. toParent = <<>> /\ toHost = <<>> /\ Sent /\ ~node.haveData /\ InHandIs(pCmd) /\ todo # <<>>
    BY <1>2 DEF InHand, HostInv, Flow, TypeInv, Sent, InHandIs
  <1>5. \A a, b \in Answers : <<a>> # <<>> /\ (<<b>> = <<a>> => b = a)
    OBVIOUS
  <1>6. Untold
    BY <1>2, <1>4, <1>5 DEF Untold, Told
  <1>7. Flow'
    BY <1>1, <1>4 DEF Flow, Sent, InHandIs
  <1>8. ASSUME NEW a \in Answers, pipe2' = <<a>>
        PROVE  \A s \in 0..2 : Told(s)' <=> a.status = s
    BY <1>1, <1>4, <1>5, <1>8 DEF Told
  <1>9. \A c \in Commands, s \in 0..2, ask \in {"none", "stop", "pause", "resume"} :
          Answer(c, s, ask) \in Answers /\ Answer(c, s, ask).status = s
                                       /\ <<Answer(c, s, ask)>> = Append(<<>>, Answer(c, s, ask))
    BY DEF Answer, Answers
  <1>10. pCmd \in Commands
    BY <1>2 DEF Commands
  <1>11. CASE DoCommand
    <2>1. /\ cPc = "read1" /\ ~usr2
          /\ buffer0' = IF pCmd = "REQDAQINFOR" THEN "none" ELSE Length(pCmd)
      BY <1>3, <1>11 DEF DoCommand, FrameToRead
    <2>2. PICK status \in {0, 1} :
            /\ pCmd \notin {"INITDAQ", "STARTRUN"} => status = 0
            /\ pCmd = "REQDAQINFOR" => Counters
            /\ pCmd # "REQDAQINFOR" => pipe2' = Append(pipe2, Answer(pCmd, status, "none"))
            /\ \/ pCmd = "STARTRUN" /\ status = 0 /\ DAQState' = "Running" /\ cPc' = "start"
               \/ DAQState' = "Idle" /\ cPc' = "read1"
      BY <1>3, <1>11 DEF DoCommand
    <2>3. PICK a \in Answers : pipe2' = <<a>> /\ a.status = status
      <3>1. CASE pCmd = "REQDAQINFOR"
        <4>1. PICK ask \in {"none", "stop", "pause", "resume"} :
                pipe2' = Append(pipe2, Answer("REQDAQINFOR", 0, ask))
          BY <2>2, <3>1 DEF Counters
        <4> QED BY <1>2, <1>9, <1>10, <2>2, <3>1, <4>1
      <3>2. CASE pCmd # "REQDAQINFOR"
        <4>1. pipe2' = <<Answer(pCmd, status, "none")>>
          BY <1>2, <1>9, <1>10, <2>2, <3>2
        <4> QED BY <1>9, <1>10, <4>1
      <3> QED BY <3>1, <3>2
    <2>4. \A s \in 0..2 : Told(s)' <=> status = s
      BY <1>8, <2>3
    <2>5. HostInv'
      <3>1. ASSUME NEW c \in Once, InHandIs(c)
            PROVE  status = 0
        BY <1>4, <2>2, <3>1 DEF InHandIs, Once, Shorts
      <3> QED BY <1>1, <1>7, <2>4, <3>1 DEF InHand, HostInv, InHandIs
    <2>6. ReadInv'
      BY <1>1, <2>1, <2>2 DEF ReadInv
    <2>7. ShortInv'
      <3>1. buffer0' = "short" => pCmd \in Shorts
        BY <2>1 DEF Length, Shorts
      <3> QED BY <1>1, <1>4, <3>1 DEF InHand, HostInv, ShortInv, InHandIs, Shorts
    <2>8. RunInv'
      BY <1>1, <1>4, <2>2, <2>4 DEF RunInv, InHandIs
    <2> QED BY <2>5, <2>6, <2>7, <2>8 DEF InHand
  <1>12. CASE Misread
    <2>1. /\ cPc = "read2" /\ pipe2' = Append(pipe2, Answer(pCmd, 2, "none"))
          /\ DAQState' = "Idle" /\ cPc' = "read1" /\ buffer0' = buffer0
      BY <1>3, <1>12 DEF Misread, ReadBehind
    <2>2. pCmd = "STOPRUN" /\ ~usr2
      BY <2>1 DEF InHand, ReadInv
    <2>3. InHandIs("STOPRUN") /\ Head(todo) = "STOPRUN" /\ ~InHandIs("STARTRUN")
          /\ ~InHandIs("PROBE") /\ ~InHandIs("REQALLDAQINFOR") /\ ~InHandIs("INITDAQ")
      BY <1>4, <2>2 DEF InHandIs
    <2>4. HostInv'
      <3>1. \A c \in Once : ~InHandIs(c)
        BY <2>3 DEF InHandIs, Once, Shorts
      <3> QED BY <1>1, <1>7, <3>1 DEF InHand, HostInv, InHandIs
    <2>5. ReadInv'
      BY <1>1, <2>1, <2>2 DEF ReadInv
    <2>6. ShortInv'
      BY <1>1, <1>4, <2>1, <2>3 DEF InHand, ShortInv
    <2>7. RunInv'
      BY <2>1 DEF RunInv
    <2> QED BY <2>4, <2>5, <2>6, <2>7 DEF InHand
  <1> QED BY <1>11, <1>12

\* The rest of the child leaves the pipes alone.
LEMMA RestInHand ==
    ASSUME TypeInv, InStep, InHand, Discard \/ EnterDAQ \/ EndOfRun \/ SelfStop
    PROVE  InHand'
  <1> USE DEF host, sock, parent, ipc, wants
  <1>1. /\ UNCHANGED <<host, sock, parent, ipc>>
        /\ buffer0' \in {buffer0, "none"}
        /\ cPc' = cPc \/ (cPc \in {"start", "daq"} /\ cPc' = "daq")
                     \/ (DAQState = "Idle" /\ cPc' = "read1")
        /\ DAQState' \in {DAQState, "Idle"}
    BY DEF Discard, EnterDAQ, EndOfRun, SelfStop
  <1>2. (Untold' <=> Untold) /\ \A s \in 0..2 : Told(s)' <=> Told(s)
    BY <1>1 DEF Untold, Told, Sent
  <1>3. HostInv'
    BY <1>1, <1>2 DEF InHand, HostInv, InHandIs, Flow, Sent
  <1>4. ReadInv'
    BY <1>1 DEF InHand, ReadInv, EndOfRun
  <1>5. ShortInv'
    BY <1>1, <1>2 DEF InHand, ShortInv, InHandIs
  <1>6. RunInv'
    BY <1>1, <1>2 DEF InHand, RunInv, InHandIs
  <1> QED BY <1>3, <1>4, <1>5, <1>6 DEF InHand

(***************************************************************************)
(* The collector of data.  The host asks for counters only while it        *)
(* believes a run is on, and for what the run has collected only when one  *)
(* has been stopped; it believes in a run because a start was answered, and*)
(* a start is not answered before there is a collector.                    *)
(***************************************************************************)

\* There is an answer to the command in hand, wherever it is.
Known == pipe2 # <<>> \/ toHost # <<>> \/ (Sent /\ node.haveData)

OfARun == {"REQDAQINFOR", "REREQDAQINFOR", "PAUSERUN", "RESUMERUN"}

CollectorInv ==
    /\ runState # "Idle" \/ hadRun => collector
    /\ InHandIs("STARTRUN") /\ Known => collector
    /\ \A c \in OfARun : InHandIs(c) => runState # "Idle"
    /\ InHandIs("REQALLDAQINFOR") => hadRun

\* A child that is alive stays so: it is not asked for what it does not have, and reads
\* nothing behind the length of a two-word command.
LEMMA StaysAlive ==
    ASSUME TypeInv, InStep, InHand, CollectorInv, [Next]_vars, Alive
    PROVE  Alive' /\ ~Crash /\ ~LoseTheWay
  <1>1. pCmd # "none" => InHandIs(pCmd)
    BY DEF InHand, HostInv, Flow, TypeInv, Sent, InHandIs
  <1>2. pCmd \in FromCollector => collector
    BY <1>1 DEF FromCollector, CollectorInv, OfARun, InHandIs
  <1>3. pipe1 # <<>> => pipe1 = <<pCmd>> /\ Head(pipe1) = pCmd
    BY DEF InStep, InPipe, Signalled, Replied
  <1>4. usr1 => pCmd = "REQDAQINFOR"
    BY DEF InStep, InPipe, Signalled, Replied
  <1>5. ~Crash
    BY <1>2, <1>3, <1>4 DEF Crash, FrameToRead, FromCollector
  <1>6. ~LoseTheWay
    <2> SUFFICES ASSUME cPc = "read2", buffer0 = "short" PROVE FALSE
      BY DEF LoseTheWay, ReadBehind, TooShort
    <2>1. pCmd = "STOPRUN" /\ InHandIs("STOPRUN")
      BY <1>1 DEF InHand, ReadInv
    <2> QED BY <2>1 DEF InHand, ShortInv, InHandIs
  <1>7. ASSUME UNCHANGED child PROVE Alive'
    BY <1>7 DEF child, Alive
  <1>8. CASE StartDAQ \/ StopDAQ \/ InitDAQ \/ PauseOrResumeDAQ \/ Poll \/ ShortCommand
    BY <1>5, <1>6, <1>7, <1>8 DEF StartDAQ, StopDAQ, InitDAQ, PauseOrResumeDAQ, Poll,
                                  ShortCommand, BeginStop, Begin
  <1>9. CASE HostStep \/ TimeOut \/ GiveUp
    BY <1>5, <1>6, <1>7, <1>9 DEF HostStep, Send, SendUnawaited, Answered, HostRead, TimeOut,
                                  GiveUp
  <1>10. CASE ParentStep
    BY <1>5, <1>6, <1>7, <1>10 DEF ParentStep, ParentTake, ParentReply
  <1>11. CASE HandleUSR1 \/ HandleUSR2
    BY <1>5, <1>6, <1>11 DEF HandleUSR1, HandleUSR2, AfterSignal, Alive
  <1>12. CASE Discard \/ DoCommand \/ Misread \/ EnterDAQ \/ EndOfRun \/ SelfStop
    <2>1. cPc' \in {"read1", "start", "daq"}
      BY <1>12 DEF Discard, DoCommand, Misread, EnterDAQ, EndOfRun, SelfStop
    <2> QED BY <1>5, <1>6, <2>1 DEF Alive
  <1>13. CASE Standstill \/ UNCHANGED vars
    BY <1>5, <1>6, <1>7, <1>13 DEF Standstill, vars
  <1> QED BY <1>5, <1>6, <1>8, <1>9, <1>10, <1>11, <1>12, <1>13 DEF Next, ChildStep

\* The host starts a procedure: with a stop there has been a run.
LEMMA OperatorCollector ==
    ASSUME TypeInv, InStep, InHand, CollectorInv,
           StartDAQ \/ StopDAQ \/ InitDAQ \/ PauseOrResumeDAQ \/ Poll \/ ShortCommand
    PROVE  CollectorInv'
  <1>1. /\ todo = <<>> /\ phase = "ready"
        /\ UNCHANGED <<phase, node, sock, parent, ipc, child>>
    BY DEF StartDAQ, StopDAQ, InitDAQ, PauseOrResumeDAQ, Poll, ShortCommand, BeginStop, Begin,
           TypeInv
  <1>2. ~Known'
    BY <1>1, Quiet DEF InHand, HostInv, Known, Sent, sock, parent, ipc
  <1>3. UNCHANGED collector
    BY <1>1 DEF child
  <1>4. ASSUME NEW c \in Commands, todo' = <<c>>, UNCHANGED <<runState, hadRun>>,
               c \in OfARun => runState # "Idle", c = "REQALLDAQINFOR" => hadRun
        PROVE  CollectorInv'
    <2>1. Head(todo') = c
      BY <1>4
    <2> QED BY <1>2, <1>3, <1>4, <2>1 DEF CollectorInv, InHandIs
  <1>5. CASE StartDAQ
    <2>1. todo' = <<"STARTRUN">> /\ UNCHANGED <<runState, hadRun>> /\ "STARTRUN" \in Commands
      BY <1>5 DEF StartDAQ, Begin, Commands, Forwarded
    <2> QED BY <1>4, <2>1 DEF OfARun
  <1>6. CASE PauseOrResumeDAQ
    <2>1. /\ runState # "Idle" /\ todo' \in {<<"PAUSERUN">>, <<"RESUMERUN">>}
          /\ UNCHANGED <<runState, hadRun>>
      BY <1>6 DEF PauseOrResumeDAQ, Begin
    <2>2. "PAUSERUN" \in Commands /\ "RESUMERUN" \in Commands
      BY DEF Commands, Local
    <2> QED BY <1>4, <2>1, <2>2
  <1>7. CASE Poll
    <2>1. /\ runState # "Idle" /\ todo' \in {<<"REQDAQINFOR">>, <<"REREQDAQINFOR">>}
          /\ UNCHANGED <<runState, hadRun>>
      BY <1>7 DEF Poll, Begin
    <2>2. "REQDAQINFOR" \in Commands /\ "REREQDAQINFOR" \in Commands
      BY DEF Commands, Forwarded, Local
    <2> QED BY <1>4, <2>1, <2>2
  <1>8. CASE ShortCommand
    <2>1. /\ todo' = <<"PROBE">> \/ (hadRun /\ todo' = <<"REQALLDAQINFOR">>)
          /\ UNCHANGED <<runState, hadRun>>
      BY <1>8 DEF ShortCommand, Begin
    <2>2. "PROBE" \in Commands /\ "REQALLDAQINFOR" \in Commands
      BY DEF Commands, Forwarded, Shorts
    <2> QED BY <1>4, <2>1, <2>2 DEF OfARun
  <1>9. CASE InitDAQ /\ runState = "Idle"
    <2>1. todo' = <<"INITDAQ">> /\ UNCHANGED <<runState, hadRun>> /\ "INITDAQ" \in Commands
      <3>1. hadRun \in BOOLEAN
        BY DEF TypeInv, TypeOK
      <3> QED BY <1>9, <3>1 DEF InitDAQ, BeginStop, Begin, Commands, Forwarded
    <2> QED BY <1>4, <2>1 DEF OfARun
  <1>10. CASE (StopDAQ \/ InitDAQ) /\ runState # "Idle"
    <2>1. /\ hadRun' /\ runState' = (IF runState = "Paused" THEN "Paused" ELSE "Idle")
          /\ todo' = StopSequence \/ todo' = StopSequence \o <<"INITDAQ">>
      BY <1>10 DEF StopDAQ, InitDAQ, BeginStop, Begin
    <2>2. collector'
      BY <1>3, <1>10 DEF CollectorInv
    <2>3. /\ Head(todo') = (IF runState = "Paused" THEN "RESUMERUN" ELSE "STOPRUN")
      <3>1. /\ Head(<<"RESUMERUN">> \o <<"STOPRUN", "STOPRUN">>) = "RESUMERUN"
            /\ Head((<<"RESUMERUN">> \o <<"STOPRUN", "STOPRUN">>) \o <<"INITDAQ">>) = "RESUMERUN"
            /\ Head(<<>> \o <<"STOPRUN", "STOPRUN">>) = "STOPRUN"
            /\ Head((<<>> \o <<"STOPRUN", "STOPRUN">>) \o <<"INITDAQ">>) = "STOPRUN"
        OBVIOUS
      <3> QED BY <2>1, <3>1 DEF StopSequence
    <2> QED BY <2>1, <2>2, <2>3 DEF CollectorInv, InHandIs, OfARun
  <1> QED BY <1>5, <1>6, <1>7, <1>8, <1>9, <1>10 DEF StopDAQ

\* The host sends a command, or learns what has become of it.
LEMMA HostCollector ==
    ASSUME TypeInv, InStep, InHand, CollectorInv, Send \/ Answered \/ HostRead
    PROVE  CollectorInv'
  <1>1. UNCHANGED <<hadRun, collector>>
    BY DEF Send, Answered, HostRead, child
  <1>2. CASE Send
    <2>1. /\ ~node'.haveData /\ UNCHANGED <<runState, todo, toHost, pipe2>> /\ ~Sent
      BY <1>2 DEF Send, Issue, Sent, ipc
    <2>2. ~Known'
      BY <2>1, Quiet DEF InHand, HostInv, Known
    <2> QED BY <1>1, <2>1, <2>2 DEF CollectorInv, InHandIs
  <1>3. CASE HostRead
    <2>1. toHost # <<>> /\ UNCHANGED todo
      BY <1>3 DEF HostRead
    <2>2. runState' = "Idle" <=> runState = "Idle"
      BY <1>3 DEF HostRead, Heard, PauseOver
    <2>3. Known
      BY <2>1 DEF Known
    <2> QED BY <1>1, <2>1, <2>2, <2>3 DEF CollectorInv, InHandIs
  <1>4. CASE Answered
    <2>1. /\ Sent /\ node.haveData /\ todo # <<>> /\ todo \in Procedures
          /\ UNCHANGED <<node, toHost, pipe2>>
      BY <1>4 DEF Answered, Sent, TypeInv, InHand, HostInv, sock, ipc
    <2>2. toHost = <<>> /\ pipe2 = <<>>
      BY <2>1, Quiet DEF InHand, HostInv
    <2>3. ~Sent' => ~Known'
      BY <2>1, <2>2 DEF Known
    <2>4. CASE phase' = "retry" /\ UNCHANGED <<runState, todo>>
      BY <1>1, <2>3, <2>4 DEF CollectorInv, InHandIs, Sent
    <2>5. ASSUME NEW ok \in BOOLEAN, Finish(ok)
          PROVE  CollectorInv'
      <3> DEFINE c == Head(todo)
      <3>1. todo' = Remaining(ok) /\ ~Known'
        BY <2>3, <2>5 DEF Finish, Sent
      <3>2. c = "STARTRUN" \/ c \in OfARun \/ runState # "Idle" => collector
        BY <2>1 DEF CollectorInv, InHandIs, Known
      <3>3. runState' # "Idle" => collector
        <4>1. /\ c = "STOPRUN" => runState' = "Idle"
              /\ c \notin {"STARTRUN", "STOPRUN", "PAUSERUN", "RESUMERUN"} => runState' = runState
          BY <2>5 DEF Finish
        <4> HIDE DEF c
        <4> QED BY <3>2, <4>1 DEF OfARun
      <3>4. todo' # <<>> => Head(todo') \in {"STOPRUN", "INITDAQ"}
        <4>1. /\ \A t \in Stops \cup LastStops : t # <<>> /\ Head(t) = "STOPRUN"
              /\ Head(<<"INITDAQ">>) = "INITDAQ"
          BY Shapes DEF Procedures
        <4>2. CASE todo \in Singles /\ c # "STOPRUN" /\ Tail(todo) = <<>>
          BY <3>1, <4>2 DEF Remaining
        <4>3. CASE todo \in ResumedStops /\ c = "RESUMERUN" /\ Tail(todo) \in Stops
          BY <3>1, <4>1, <4>3 DEF Remaining
        <4>4. CASE todo \in Stops \cup LastStops
          <5>1. todo' \in LastStops \cup {<<>>, <<"INITDAQ">>}
            BY <3>1, <4>4, Shapes DEF Remaining, Procedures
          <5> QED BY <4>1, <5>1
        <4> QED BY <2>1, <4>2, <4>3, <4>4, Shapes
      <3>5. hadRun => collector
        BY DEF CollectorInv
      <3> HIDE DEF c
      <3> QED BY <1>1, <3>1, <3>3, <3>4, <3>5 DEF CollectorInv, InHandIs, OfARun
    <2> QED BY <1>4, <2>4, <2>5 DEF Answered, Failed
  <1> QED BY <1>2, <1>3, <1>4

\* The parent passes commands and answers on.
LEMMA ParentCollector ==
    ASSUME TypeInv, InStep, InHand, CollectorInv, ParentStep
    PROVE  CollectorInv'
  <1>1. UNCHANGED <<runState, hadRun, todo, phase, node, collector>>
    BY DEF ParentStep, ParentTake, ParentReply, host, child
  <1>2. InHandIs("STARTRUN") /\ Known' => Known
    <2>1. CASE ParentReply
      BY <2>1 DEF ParentReply, Known
    <2>2. CASE ParentTake
      <3>1. \A a \in Answers : <<a>> # <<>>
        OBVIOUS
      <3>2. toParent # <<>> /\ Handle(Head(toParent)) /\ toParent = <<Head(todo)>>
        BY <2>2, <3>1 DEF ParentTake, InHand, HostInv, Flow
      <3>3. Head(toParent) = Head(todo)
        BY <3>2
      <3>4. InHandIs("STARTRUN") => UNCHANGED <<toHost, pipe2>>
        BY <3>2, <3>3 DEF InHandIs, Handle, Local, Forward
      <3> QED BY <1>1, <3>4 DEF Known, Sent
    <2> QED BY <2>1, <2>2 DEF ParentStep
  <1> QED BY <1>1, <1>2 DEF CollectorInv, InHandIs

\* A start is answered when the child has its collector.
LEMMA ChildCollector ==
    ASSUME TypeInv, InStep, InHand, CollectorInv, ChildGoesOn
    PROVE  CollectorInv'
  <1>1. UNCHANGED <<runState, hadRun, todo, phase, node, toHost>>
    BY DEF ChildGoesOn, HandleUSR1, HandleUSR2, Discard, DoCommand, Misread, ReadBehind, EnterDAQ,
           EndOfRun, SelfStop, host, sock
  <1>2. collector => collector'
    BY DEF ChildGoesOn, HandleUSR1, HandleUSR2, Discard, DoCommand, Misread, ReadBehind, EnterDAQ,
           EndOfRun, SelfStop
  <1>3. InHandIs("STARTRUN") /\ Known' => collector'
    <2>1. UNCHANGED pipe2 => (Known' <=> Known)
      BY <1>1 DEF Known, Sent
    <2>2. CASE HandleUSR1
      BY <1>2, <2>2 DEF HandleUSR1, Counters
    <2>3. CASE DoCommand
      <3>1. InPipe /\ pCmd # "none"
        BY <2>3 DEF DoCommand, FrameToRead, InStep, Signalled, Replied
      <3>2. Head(pipe1) = pCmd /\ pCmd = Head(todo)
        BY <3>1 DEF InPipe, InHand, HostInv, Flow
      <3>3. Head(pipe1) = "STARTRUN" => collector'
        BY <2>3 DEF DoCommand
      <3> QED BY <3>2, <3>3 DEF InHandIs
    <2>4. CASE Misread
      <3>1. pCmd = "STOPRUN"
        BY <2>4 DEF Misread, ReadBehind, InHand, ReadInv
      <3>2. Head(todo) = "STOPRUN"
        BY <3>1 DEF InHand, HostInv, Flow
      <3> QED BY <3>2 DEF InHandIs
    <2>5. CASE HandleUSR2 \/ Discard \/ EnterDAQ \/ EndOfRun \/ SelfStop
      <3>1. UNCHANGED pipe2
        BY <2>5 DEF HandleUSR2, Discard, EnterDAQ, EndOfRun, SelfStop, ipc
      <3> QED BY <1>2, <2>1, <3>1 DEF CollectorInv
    <2> QED BY <2>2, <2>3, <2>4, <2>5 DEF ChildGoesOn
  <1> QED BY <1>1, <1>2, <1>3 DEF CollectorInv, InHandIs

\* What holds until the first answer is late.
Followed == Alive /\ InHand /\ CollectorInv

LEMMA InTimeInductive == Spec => [](TypeInv /\ StepInv /\ (InTime => Followed))
  <1>1. TypeInv /\ StepInv /\ (InTime => Followed) /\ [Next]_vars => (InTime => Followed)'
    <2> SUFFICES ASSUME TypeInv, StepInv, InTime => Followed, [Next]_vars, InTime'
                 PROVE  Followed'
      OBVIOUS
    <2>1. ~TimeOut /\ ~GiveUp /\ timeouts' = timeouts
      <3>1. timeouts \in Nat
        BY TimeoutAssumption DEF TypeInv, TypeOK, TimeoutAssumption
      <3>2. ~TimeOut /\ ~GiveUp
        <4>1. TimeOut \/ GiveUp => timeouts' = timeouts + 1
          BY DEF TimeOut, GiveUp
        <4>2. timeouts' = 0
          BY DEF InTime
        <4> QED BY <3>1, <4>1, <4>2
      <3>3. UNCHANGED host => timeouts' = timeouts
        BY DEF host
      <3> QED
        BY <3>2, <3>3 DEF Next, vars, StartDAQ, StopDAQ, InitDAQ, PauseOrResumeDAQ, Poll,
                    ShortCommand, BeginStop, Begin, HostStep, Send, SendUnawaited, Answered,
                    HostRead, ParentStep, ParentTake, ParentReply, HandleUSR1, HandleUSR2,
                    ChildStep, Discard, DoCommand, Crash, Misread, LoseTheWay, ReadBehind,
                    EnterDAQ, EndOfRun, SelfStop, Standstill
    <2>2. Alive /\ InHand /\ CollectorInv /\ InStep
      BY <2>1 DEF InTime, Followed, StepInv
    <2>3. Alive' /\ ~Crash /\ ~LoseTheWay
      BY <2>2, StaysAlive
    <2>4. ~SendUnawaited
      BY <2>2 DEF InHand, HostInv, SendUnawaited
    <2>5. CASE Standstill \/ UNCHANGED vars
      <3>1. UNCHANGED <<host, sock, parent, ipc, child>>
        BY <2>5 DEF Standstill, vars
      <3>2. InHand'
        BY <2>2, <3>1 DEF host, sock, parent, ipc, child, wants, InHand, HostInv, ReadInv,
                          ShortInv, RunInv, InHandIs, Flow, Sent, Told, Untold
      <3>3. CollectorInv'
        BY <2>2, <3>1 DEF host, sock, ipc, child, CollectorInv, InHandIs, Known, Sent
      <3> QED BY <2>3, <3>2, <3>3 DEF Followed
    <2>6. CASE StartDAQ \/ StopDAQ \/ InitDAQ \/ PauseOrResumeDAQ \/ Poll \/ ShortCommand
      BY <2>2, <2>3, <2>6, OperatorInHand, OperatorCollector DEF Followed
    <2>7. CASE Send \/ Answered \/ HostRead
      BY <2>2, <2>3, <2>7, SendInHand, AnsweredInHand, HostReadInHand, HostCollector DEF Followed
    <2>8. CASE ParentStep
      BY <2>2, <2>3, <2>8, ParentInHand, ParentCollector DEF Followed
    <2>9. CASE ChildGoesOn
      BY <2>2, <2>3, <2>9, HandlersInHand, CommandInHand, RestInHand, ChildCollector
         DEF Followed, ChildGoesOn
    <2> QED
      BY <2>1, <2>3, <2>4, <2>5, <2>6, <2>7, <2>8, <2>9 DEF Next, HostStep, ChildStep, ChildGoesOn
  <1>2. Init => (InTime => Followed)
    <2>1. Init => Alive /\ CollectorInv
      BY DEF Init, Alive, CollectorInv, InHandIs
    <2> QED BY <2>1, InHandInit DEF Followed
  <1> QED BY <1>1, <1>2, TypeInductive, StepInductive, PTL DEF Spec

\* While answers are in time, the child never dies of a request of counters it has no
\* collector for, though nothing in it asks whether there is one, and never loses its way
\* in pipe1, though signals interrupt its reads: until then the model follows the child
\* everywhere.
THEOREM ChildStaysInStep == Spec => [](InTime => Alive)
  <1>1. TypeInv /\ StepInv /\ (InTime => Followed) => (InTime => Alive)
    BY DEF Followed
  <1> QED BY <1>1, InTimeInductive, PTL

\* OnlyStopsAreMisread: a command of the host is read behind a stale length only when it
\* is a stop, and that length is never the one of a short command, wherever the signals
\* interrupt the child and whatever the operator starts.
THEOREM OnlyStops == Spec => []OnlyStopsAreMisread
  <1>1. TypeInv /\ StepInv /\ (InTime => Followed) => OnlyStopsAreMisread
    <2> SUFFICES ASSUME TypeInv, InHand, cPc = "read2" PROVE buffer0 # "short" /\ pCmd = "STOPRUN"
      BY DEF OnlyStopsAreMisread, Followed
    <2>1. pCmd = "STOPRUN"
      BY DEF InHand, ReadInv
    <2>2. todo # <<>> /\ Head(todo) = "STOPRUN"
      BY <2>1 DEF InHand, HostInv, Flow, TypeInv, Sent
    <2> QED BY <2>1, <2>2 DEF InHand, ShortInv, InHandIs
  <1> QED BY <1>1, InTimeInductive, PTL

\* IdleMeansStopped: while no answer is late, a host without a run and without a procedure
\* under way has no DAQ_process running behind it, whether the run was ended by the
\* operator, by the event builder or both at once.
THEOREM IdleHostHasNoRun == Spec => []IdleMeansStopped
  <1>1. TypeInv /\ StepInv /\ (InTime => Followed) => IdleMeansStopped
    <2>1. <<>> \notin Stops
      BY Shapes DEF Procedures
    <2> QED BY <2>1 DEF Followed, InHand, RunInv, InHandIs, IdleMeansStopped
  <1> QED BY <1>1, InTimeInductive, PTL

\* What StopsWhatItReports claims does hold while no answer is late: a stop reported to
\* the operator has ended DAQ_process.
THEOREM StopsInTime ==
    Spec => [][(InTime /\ Stopping /\ Answered /\ node.status = 0) => cPc \notin {"start", "daq"}]_vars
  <1>1. TypeInv /\ StepInv /\ (InTime => Followed) /\ [Next]_vars =>
          [(InTime /\ Stopping /\ Answered /\ node.status = 0) => cPc \notin {"start", "daq"}]_vars
    <2> SUFFICES ASSUME InHand, Stopping, Answered, node.status = 0
                 PROVE  cPc \notin {"start", "daq"}
      BY DEF Followed
    <2>1. Told(0) /\ Head(todo) = "STOPRUN" /\ todo # <<>>
      BY DEF Told, Answered, Sent, Stopping
    <2>2. runState = "Idle" /\ ~InHandIs("STARTRUN") /\ ~Untold
      BY <2>1 DEF InHand, HostInv, InHandIs, Untold
    <2> QED BY <2>2 DEF InHand, RunInv
  <1> QED BY <1>1, InTimeInductive, PTL DEF Spec
================================================================================
