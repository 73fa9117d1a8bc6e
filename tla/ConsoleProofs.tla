----------------------------- MODULE ConsoleProofs -----------------------------
(***************************************************************************)
(* Proofs about Console, for every number of pieces of code and every      *)
(* number of tries: who is alive while the kernel's thread prints, what    *)
(* becomes of a request to disable the console, where a piece of code is   *)
(* and what the display shows of it.                                       *)
(***************************************************************************)
EXTENDS Console, SequenceTheorems, TLAPS

-----------------------------------------------------------------------------
(* The two threads.                                                         *)

\* The kernel is started by main, and main returns when it has stopped.  The
\* console is there between its construction and main's return.
ControlInv ==
    /\ main \in {"construct", "start"} \/ ~loads => kernel = "off"
    /\ main \in {"returning", "exited"} => kernel \in {"off", "stopped"}
    /\ current # None <=> kernel \in {"chunk", "printed"} \cup Outputs
    /\ console \in {"none", "base", "live", "dying", "gone"}
    /\ main = "construct" <=> console \in {"none", "base"}
    /\ console \in {"dying", "gone"} => main \in {"returning", "exited"}
    /\ Writing => kind = "fltk"
    /\ torn => kind = "fltk"

\* The chunks in the buffer, and the piece of code on its way there.
BufferInv ==
    /\ buf \in Seq(Nat \ {None})
    /\ input \in Nat /\ adding \in Nat /\ written \in Nat /\ current \in Nat
    /\ main \in {"adding", "echoChosen"} => adding # None

\* Most of the user's steps and the main thread's concern neither the kernel nor
\* the console's life.
Quiet ==
    /\ UNCHANGED <<static, console, kernelVars>>
    /\ \/ main' = main
       \/ /\ main \notin {"construct", "start", "returning", "exited"}
          /\ main' \notin {"construct", "start", "returning", "exited"}

LEMMA QuietSteps ==
    /\ FltkGetsReady \/ StubGetsReady \/ ConnectText \/ ConnectDisable => Quiet /\ UNCHANGED torn
    /\ User \/ Dispatch \/ UpdateDebugLog \/ Accept \/ Refuse \/ Poll => Quiet /\ UNCHANGED torn
    /\ Echo => Quiet
<1>1. FltkGetsReady \/ StubGetsReady \/ ConnectText \/ ConnectDisable => Quiet /\ UNCHANGED torn
    BY DEF FltkGetsReady, StubGetsReady, ConnectText, ConnectDisable, Goes, Quiet, gui, shown
<1>2. Write \/ DropFiles => Quiet /\ UNCHANGED torn
    BY DEF Write, DropFiles, NewInput, Quiet, gui, shown
<1>3. ClickRun \/ OpenFile \/ LoadAddlJconf \/ ChooseAndRunFile => Quiet /\ UNCHANGED torn
    BY DEF ClickRun, OpenFile, LoadAddlJconf, ChooseAndRunFile, FileChosen, Goes, Quiet, gui, shown
<1>4. SaveQt \/ SaveFltk \/ CloseQt \/ CloseFltk => Quiet /\ UNCHANGED torn
    BY DEF SaveQt, SaveFltk, CloseQt, CloseFltk, Goes, Quiet, gui, shown
<1>5. Dispatch \/ UpdateDebugLog => Quiet /\ UNCHANGED torn
    BY DEF Dispatch, ShowText, DisableGUI, ConsoleReady, UpdateDebugLog, Quiet, gui, logs
<1>6. Accept \/ Refuse \/ Poll => Quiet /\ UNCHANGED torn
    BY DEF Accept, Refuse, Poll, Goes, Quiet, gui, shown
<1>7. Echo => Quiet
    BY DEF Echo, Echoing, Quiet, gui
<1> QED
    BY <1>1, <1>2, <1>3, <1>4, <1>5, <1>6, <1>7 DEF User

LEMMA ControlInit == Init => ControlInv /\ BufferInv
<1> SUFFICES ASSUME Init PROVE ControlInv /\ BufferInv
    OBVIOUS
<1>1. /\ main = "construct" /\ console = "none" /\ kernel = "off" /\ current = None
      /\ torn = FALSE /\ input = None /\ adding = None /\ written = 0
    BY DEF Init
<1>2. buf \in Seq(Nat \ {None})
    <2>1. MaxCode \in Nat
        BY ConsoleAssumption
    <2>2. <<>> \in Seq(Nat \ {None}) /\ <<File>> \in Seq(Nat \ {None})
        BY <2>1 DEF None, File
    <2> QED
        BY <2>2 DEF Init
<1> QED
    BY <1>1, <1>2 DEF ControlInv, BufferInv, Writing, Outputs, None

LEMMA QuietKeeps ==
    ASSUME ControlInv, Quiet, torn' => torn \/ kind = "fltk"
    PROVE  ControlInv'
<1>1. /\ kind' = kind /\ loads' = loads /\ console' = console /\ kernel' = kernel
      /\ current' = current
    BY DEF Quiet, static, kernelVars
<1>2. /\ main' \in {"construct", "start"} => main' = main
      /\ main' \in {"returning", "exited"} => main' = main
      /\ main \in {"construct", "returning", "exited"} => main' = main
    BY DEF Quiet
<1> QED
    BY <1>1, <1>2 DEF ControlInv, Writing

LEMMA ControlStep == ControlInv /\ BufferInv /\ [Next]_vars => ControlInv'
<1> SUFFICES ASSUME ControlInv, BufferInv, [Next]_vars PROVE ControlInv'
    OBVIOUS
<1>1. CASE ConstructBase
    BY <1>1 DEF ConstructBase, ControlInv, Writing, static, shown, kernelVars
<1>2. CASE ConstructQt \/ ConstructFltk \/ ConstructStub
    BY <1>2 DEF ConstructQt, ConstructFltk, ConstructStub, Constructed, Goes, ControlInv, Writing,
                static, shown, kernelVars
<1>3. CASE StartKernel
    BY <1>3 DEF StartKernel, Goes, ControlInv, Writing, Outputs, static, gui, shown
<1>4. CASE ReportFailure
    BY <1>4 DEF ReportFailure, Goes, ControlInv, Writing, static, gui, shown, kernelVars
<1>5. CASE FltkGetsReady \/ StubGetsReady \/ ConnectText \/ ConnectDisable
    BY <1>5, QuietSteps, QuietKeeps
<1>6. CASE User \/ Dispatch \/ UpdateDebugLog \/ Accept \/ Refuse \/ Poll
    BY <1>6, QuietSteps, QuietKeeps
<1>7. CASE Echo
    <2>1. torn' => torn \/ kind = "fltk"
        BY <1>7 DEF Echo, ControlInv
    <2> QED
        BY <1>7, <2>1, QuietSteps, QuietKeeps
<1>8. CASE StopKernel \/ WaitForKernelStop \/ NoRunBuffer
    BY <1>8 DEF NoRunBuffer, StopKernel, Over, WaitForKernelStop, Goes, ControlInv, Writing, static, gui, shown, kernelVars
<1>9. CASE DestroyQt \/ DestroyFltk \/ DestroyStub \/ DestroyBase
    BY <1>9 DEF DestroyQt, DestroyFltk, DestroyStub, Destroyed, DestroyBase, Goes, ControlInv, Writing,
                static, shown, kernelVars
<1>10. CASE InitScene \/ DisableNotice \/ DisableSignal
    BY <1>10 DEF InitScene, DisableNotice, DisableSignal, KernelGoes, ControlInv, Writing, Outputs,
                 static, gui, shown
<1>11. CASE DisableFltk \/ DisableStub \/ InitSceneFails
    BY <1>11 DEF DisableFltk, DisableStub, DisableNothing, InitSceneFails, KernelGoes, ControlInv,
                 Writing, Outputs, static, gui, shown
<1>12. CASE RunChunk
    <2>1. Head(buf) # None
        BY <1>12, HeadTailProperties DEF RunChunk, BufferInv
    <2> QED
        BY <1>12, <2>1 DEF RunChunk, KernelGoes, ControlInv, Writing, Outputs, static, gui, shown
<1>13. CASE ChunkPrints \/ ChunkFails
    <2>1. ASSUME NEW what \in Outputs, Output(what)
          PROVE  kernel = "chunk" /\ (kernel' = "printed" \/ (kernel' = what /\ kind = "fltk"))
        BY <2>1 DEF Output
    <2>2. UNCHANGED <<static, main, gui, torn, current>>
        BY <1>13 DEF ChunkPrints, ChunkFails
    <2>3. kernel = "chunk" /\ (kernel' = "printed" \/ (kernel' \in Outputs /\ kind = "fltk"))
        BY <1>13, <2>1 DEF ChunkPrints, ChunkFails, Outputs
    <2> QED
        BY <2>2, <2>3 DEF ControlInv, Writing, Outputs, static, gui
<1>14. CASE ChunkSilent \/ ChunkEnds \/ KernelStops
    <2>1. /\ UNCHANGED <<static, main, gui, torn>>
          /\ \/ kernel = "chunk" /\ kernel' = "printed" /\ current' = current
             \/ kernel = "printed" /\ kernel' = "frame" /\ current' = None
             \/ kernel = "frame" /\ kernel' = "stopped" /\ current' = current
        BY <1>14 DEF ChunkSilent, ChunkEnds, KernelStops, KernelGoes, shown
    <2> QED
        BY <2>1 DEF ControlInv, Writing, Outputs, static, gui
<1>15. CASE Written
    BY <1>15 DEF Written, ControlInv, Writing, Outputs, static, gui
<1>16. CASE UNCHANGED vars
    BY <1>16 DEF vars, ControlInv, Writing, static, gui, shown, kernelVars
<1> QED
    BY <1>1, <1>2, <1>3, <1>4, <1>5, <1>6, <1>7, <1>8, <1>9, <1>10, <1>11, <1>12, <1>13, <1>14,
       <1>15, <1>16 DEF Next, Construct, Start, Destroy

LEMMA BufferStep == BufferInv /\ [Next]_vars => BufferInv'
<1> SUFFICES ASSUME BufferInv, [Next]_vars PROVE BufferInv'
    OBVIOUS
<1>1. CASE UNCHANGED <<code, buf, current>> /\ main' \notin {"adding", "echoChosen"}
    BY <1>1 DEF BufferInv, code
<1>2. CASE UNCHANGED <<code, buf, current>> /\ main' = main
    BY <1>2 DEF BufferInv, code
<1>3. CASE Construct \/ Start
    BY <1>1, <1>2, <1>3 DEF Construct, ConstructBase, ConstructQt, ConstructFltk, ConstructStub,
           Constructed, Start, StartKernel, ReportFailure, FltkGetsReady, StubGetsReady,
           ConnectText, ConnectDisable, Goes, kernelVars
<1>4. CASE Write \/ DropFiles
    BY <1>4 DEF Write, DropFiles, NewInput, BufferInv, kernelVars
<1>5. CASE ClickRun
    BY <1>5 DEF ClickRun, Goes, BufferInv, None, kernelVars
<1>6. CASE OpenFile \/ LoadAddlJconf \/ ChooseAndRunFile
    BY <1>6 DEF OpenFile, LoadAddlJconf, ChooseAndRunFile, FileChosen, Goes, BufferInv, None, kernelVars
<1>7. CASE SaveQt \/ SaveFltk
    BY <1>7 DEF SaveQt, SaveFltk, Goes, BufferInv, kernelVars
<1>8. CASE CloseQt \/ CloseFltk \/ Dispatch \/ UpdateDebugLog \/ Poll
    BY <1>1, <1>2, <1>8 DEF CloseQt, CloseFltk, Dispatch, ShowText, DisableGUI, ConsoleReady,
           UpdateDebugLog, Poll, Goes, kernelVars
<1>9. CASE Accept
    <2>1. adding \in Nat \ {None} /\ main' \notin {"adding", "echoChosen"} /\ UNCHANGED <<code, current>>
        BY <1>9 DEF Accept, Goes, BufferInv, kernelVars
    <2>2. buf' \in Seq(Nat \ {None})
        BY <1>9, <2>1, AppendProperties DEF Accept, BufferInv
    <2> QED
        BY <2>1, <2>2 DEF BufferInv, code
<1>10. CASE Refuse \/ NoRunBuffer \/ StopKernel \/ WaitForKernelStop
    BY <1>1, <1>10 DEF Refuse, NoRunBuffer, StopKernel, Over, WaitForKernelStop, Goes, kernelVars
<1>11. CASE Echo
    <2>1. main' = "adding" => main = "echoChosen"
        BY <1>11 DEF Echo
    <2> QED
        BY <1>11, <2>1 DEF Echo, BufferInv, None, kernelVars
<1>12. CASE Destroy
    BY <1>1, <1>2, <1>12 DEF Destroy, DestroyQt, DestroyFltk, DestroyStub, Destroyed, DestroyBase, Goes,
           kernelVars
<1>13. CASE InitScene \/ DisableNotice \/ DisableSignal \/ DisableFltk \/ DisableStub \/ InitSceneFails
    BY <1>1, <1>2, <1>13 DEF InitScene, DisableNotice, DisableSignal, DisableFltk, DisableStub,
           DisableNothing, InitSceneFails
<1>14. CASE RunChunk
    BY <1>14, HeadTailProperties DEF RunChunk, BufferInv, code
<1>15. CASE ChunkPrints \/ ChunkFails \/ ChunkSilent \/ Written \/ KernelStops
    BY <1>2, <1>15 DEF ChunkPrints, ChunkFails, ChunkSilent, Written, KernelStops
<1>16. CASE ChunkEnds
    BY <1>16 DEF ChunkEnds, BufferInv, code, None
<1>17. CASE UNCHANGED vars
    BY <1>2, <1>17 DEF vars, kernelVars
<1> QED
    BY <1>3, <1>4, <1>5, <1>6, <1>7, <1>8, <1>9, <1>10, <1>11, <1>12, <1>13, <1>14, <1>15, <1>16,
       <1>17 DEF Next, User

LEMMA ControlInvariant == Spec => [](ControlInv /\ BufferInv)
BY ControlInit, ControlStep, BufferStep, PTL DEF Spec

\* The program ends only when its kernel thread has: main waits for it, and a
\* failing initScene is the kernel thread's own end.
THEOREM JoinedCorrect == Spec => []JoinedBeforeExit
<1>1. ControlInv => JoinedBeforeExit
    BY DEF ControlInv, JoinedBeforeExit
<1> QED
    BY <1>1, ControlInvariant, PTL

\* The kernel thread never prints to a console under construction or destruction,
\* which getConsole() hands out already, or still.
THEOREM PrintsCorrect == Spec => []PrintsToLiveConsole
<1>1. ControlInv => PrintsToLiveConsole
    BY DEF ControlInv, PrintsToLiveConsole, Writing, Outputs
<1> QED
    BY <1>1, ControlInvariant, PTL

\* With Qt's console, and the stub's, one thread at a time changes the display.
THEOREM DisplayCorrect == Spec => []TornOnlyInFltk
<1>1. ControlInv => TornOnlyInFltk
    BY DEF ControlInv, TornOnlyInFltk
<1> QED
    BY <1>1, ControlInvariant, PTL

-----------------------------------------------------------------------------
(* The request to disable the console.                                      *)

LineNames == {"disable", "ready", "notice", "print", "error"}
EventType == LineNames \X Nat

\* Where main is before it has connected the slots.
BeforeSlots == {"construct", "start", "connectText", "connectDisable"}

\* The request is made once, in initScene, and reaches Qt's queue if its slots
\* are connected by then.
RequestInv ==
    /\ queue \in Seq(EventType)
    /\ main \in {"construct", "start"} => disabling = "no"
    /\ kernel \in {"initScene", "disabling"} => disabling = "no"
    /\ kernel = "disabling" => kind = "qt"
    /\ kernel \in {"initScene", "disabling"} /\ kind = "qt" =>
           main \in {"connectText", "connectDisable"} \/ "disable" \in connected
    /\ main \in BeforeSlots => "disable" \notin connected
    /\ Disable \in Range(queue) => kind = "qt" /\ disabling = "heard"

DisableInv == RequestInv /\ DisableIsKept

LEMMA EventTypes ==
    /\ \A line \in LineNames, k \in Nat : Event(line, k) \in EventType
    /\ \A line \in LineNames, k \in Nat : line # "disable" => Event(line, k) # Disable
    /\ Ready \in EventType /\ Notice \in EventType /\ Disable \in EventType
    /\ Ready # Disable /\ Notice # Disable
<1>1. \A line \in LineNames, k \in Nat : Event(line, k) \in EventType
    BY DEF Event, EventType
<1>2. \A line \in LineNames, k \in Nat : line # "disable" => Event(line, k) # Disable
    <2>1. \A line \in LineNames, k \in Nat : Event(line, k)[1] = line
        BY DEF Event
    <2>2. Disable[1] = "disable"
        BY DEF Event, Disable
    <2> QED
        BY <2>1, <2>2
<1>3. None \in Nat /\ "ready" \in LineNames /\ "notice" \in LineNames /\ "disable" \in LineNames
    BY DEF None, LineNames
<1>4. Ready = Event("ready", None) /\ Notice = Event("notice", None) /\ Disable = Event("disable", None)
    BY DEF Ready, Notice, Disable
<1> QED
    BY <1>1, <1>2, <1>3, <1>4

LEMMA QueueGrows ==
    ASSUME NEW S, NEW q \in Seq(S), NEW e \in S
    PROVE  /\ Append(q, e) \in Seq(S)
           /\ Range(Append(q, e)) = Range(q) \cup {e}
<1>1. /\ Append(q, e) \in Seq(S)
      /\ Len(Append(q, e)) = Len(q) + 1
      /\ \A i \in 1..Len(q) : Append(q, e)[i] = q[i]
      /\ Append(q, e)[Len(q) + 1] = e
    BY AppendProperties
<1>2. Range(Append(q, e)) = Range(q) \cup {e}
    BY <1>1 DEF Range
<1> QED
    BY <1>1, <1>2

\* A signal adds its event, or nothing.
LEMMA QueuedKeeps ==
    ASSUME NEW S, NEW q \in Seq(S), NEW signal, NEW e \in S
    PROVE  /\ q \o Queued(signal, e) \in Seq(S)
           /\ Range(q \o Queued(signal, e)) =
                  IF signal \in connected THEN Range(q) \cup {e} ELSE Range(q)
<1>1. CASE signal \in connected
    <2>1. q \o <<e>> = Append(q, e)
        BY AppendIsConcat
    <2>2. Append(q, e) \in Seq(S)
        BY QueueGrows
    <2>3. Range(Append(q, e)) = Range(q) \cup {e}
        BY QueueGrows
    <2>4. q \o Queued(signal, e) = Append(q, e)
        BY <1>1, <2>1 DEF Queued
    <2> QED
        BY <1>1, <2>2, <2>3, <2>4, Zenon
<1>2. CASE signal \notin connected
    BY <1>2, ConcatEmptySeq DEF Queued
<1> QED
    BY <1>1, <1>2

LEMMA QueueShrinks ==
    ASSUME NEW S, NEW q \in Seq(S), q # <<>>
    PROVE  /\ Tail(q) \in Seq(S)
           /\ Range(q) = Range(Tail(q)) \cup {Head(q)}
<1>1. /\ Tail(q) \in Seq(S)
      /\ Len(Tail(q)) = Len(q) - 1
      /\ \A i \in 1..Len(Tail(q)) : Tail(q)[i] = q[i + 1]
    BY HeadTailProperties
<1>2. Head(q) = q[1] /\ Len(q) \in Nat /\ Len(q) > 0
    OBVIOUS
<1>3. DOMAIN q = 1..Len(q) /\ DOMAIN Tail(q) = 1..(Len(q) - 1)
    BY <1>1
<1>4. \A i \in 1..Len(q) : i = 1 \/ (i - 1 \in 1..(Len(q) - 1) /\ Tail(q)[i - 1] = q[i])
    BY <1>1, <1>2
<1>5. \A i \in 1..(Len(q) - 1) : i + 1 \in 1..Len(q) /\ Tail(q)[i] = q[i + 1]
    BY <1>1, <1>2
<1>6. 1 \in 1..Len(q)
    BY <1>2
<1>7. Range(q) \subseteq Range(Tail(q)) \cup {Head(q)}
    BY <1>2, <1>3, <1>4 DEF Range
<1>8. Range(Tail(q)) \cup {Head(q)} \subseteq Range(q)
    BY <1>2, <1>3, <1>5, <1>6 DEF Range
<1> QED
    BY <1>1, <1>7, <1>8

LEMMA RequestInit == Init => DisableInv
<1> SUFFICES ASSUME Init PROVE DisableInv
    OBVIOUS
<1>1. /\ main = "construct" /\ kernel = "off" /\ disabling = "no" /\ enabled = TRUE
      /\ queue = <<>> /\ connected = {}
    BY DEF Init
<1>2. <<>> \in Seq(EventType) /\ Range(<<>>) = {}
    BY EmptySeq DEF Range
<1> QED
    BY <1>1, <1>2 DEF DisableInv, RequestInv, DisableIsKept, BeforeSlots

\* A line the kernel's thread prints is not a request.
LEMMA OutputKeeps ==
    ASSUME BufferInv, RequestInv, NEW what \in {"print", "error"}, Output(what)
    PROVE  /\ queue' \in Seq(EventType)
           /\ Disable \in Range(queue') <=> Disable \in Range(queue)
<1> DEFINE line == Event(what, current)
<1>1. what \in LineNames /\ what # "disable" /\ current \in Nat
    BY DEF BufferInv, LineNames
<1>2. line \in EventType /\ line # Disable
    BY <1>1, EventTypes
<1>3. queue' = queue \/ queue' = queue \o Queued("text", line)
    BY DEF Output
<1> HIDE DEF line
<1>4. queue \in Seq(EventType)
    BY DEF RequestInv
<1>5. /\ queue \o Queued("text", line) \in Seq(EventType)
      /\ Range(queue \o Queued("text", line)) =
             IF "text" \in connected THEN Range(queue) \cup {line} ELSE Range(queue)
    BY <1>2, <1>4, QueuedKeeps
<1> QED
    BY <1>2, <1>3, <1>4, <1>5

LEMMA RequestStep == ControlInv /\ BufferInv /\ DisableInv /\ [Next]_vars => DisableInv'
<1> SUFFICES ASSUME ControlInv, BufferInv, DisableInv, [Next]_vars PROVE DisableInv'
    OBVIOUS
<1>a. queue \in Seq(EventType)
    BY DEF DisableInv, RequestInv
<1>b. Ready \in EventType /\ Notice \in EventType /\ Disable \in EventType
      /\ Ready # Disable /\ Notice # Disable
    BY EventTypes
<1>1. ASSUME UNCHANGED <<kind, kernel, disabling, enabled, queue>>, connected \subseteq connected',
             main' = main \/ main' \notin {"construct", "start"},
             main' = main \/ main \notin {"connectText", "connectDisable"}
                 \/ main' \in {"connectText", "connectDisable"},
             main' \in BeforeSlots => main \in BeforeSlots,
             "disable" \in connected' => "disable" \in connected
      PROVE  DisableInv'
    BY <1>1 DEF DisableInv, RequestInv, DisableIsKept, BeforeSlots
<1>2. CASE ConstructBase \/ ConstructQt \/ ConstructFltk \/ ConstructStub
    <2>1. /\ UNCHANGED <<kind, kernel, disabling, enabled, queue, connected>>
          /\ main \in {"construct", "start"} /\ kernel = "off"
        BY <1>2 DEF ConstructBase, ConstructQt, ConstructFltk, ConstructStub, Constructed, Goes,
                    static, shown, kernelVars, ControlInv
    <2> QED
        BY <2>1 DEF DisableInv, RequestInv, DisableIsKept, BeforeSlots
<1>3. CASE StartKernel
    <2>1. /\ UNCHANGED <<kind, enabled, queue, connected, disabling>>
          /\ main = "start" /\ kernel' = "initScene"
          /\ main' = IF kind = "qt" THEN "connectText" ELSE "ready"
        BY <1>3 DEF StartKernel, Goes, static, gui, shown
    <2> QED
        BY <2>1 DEF DisableInv, RequestInv, DisableIsKept, BeforeSlots
<1>4. CASE ReportFailure
    <2>1. /\ UNCHANGED <<kind, kernel, enabled, queue, connected>>
          /\ kernel = "off" /\ main = "start" /\ disabling = "no"
          /\ main' \notin {"construct", "start"} /\ disabling' \in {"no", "early"}
        BY <1>4 DEF ReportFailure, Goes, static, gui, shown, kernelVars, ControlInv, DisableInv,
                    RequestInv
    <2> QED
        BY <2>1 DEF DisableInv, RequestInv, DisableIsKept, BeforeSlots
<1>5. CASE FltkGetsReady \/ StubGetsReady \/ ConnectText
    BY <1>5, <1>1 DEF FltkGetsReady, StubGetsReady, ConnectText, Goes, static, gui,
           shown, kernelVars, BeforeSlots
<1>6. CASE ConnectDisable
    <2>1. /\ UNCHANGED <<kind, kernel, disabling, enabled>>
          /\ queue' = Append(queue, Ready)
          /\ connected' = connected \cup {"disable"} /\ main' = "exec"
        BY <1>6 DEF ConnectDisable, Goes, static, kernelVars
    <2>2. queue' \in Seq(EventType) /\ (Disable \in Range(queue') <=> Disable \in Range(queue))
        <3>1. Append(queue, Ready) \in Seq(EventType)
            BY <1>a, <1>b, QueueGrows
        <3>2. Range(Append(queue, Ready)) = Range(queue) \cup {Ready}
            BY <1>a, <1>b, QueueGrows
        <3> QED
            BY <2>1, <1>b, <3>1, <3>2
    <2> QED
        BY <2>1, <2>2 DEF DisableInv, RequestInv, DisableIsKept, BeforeSlots
<1>7. CASE Write \/ DropFiles \/ ClickRun \/ OpenFile \/ LoadAddlJconf \/ ChooseAndRunFile
    BY <1>7, <1>1 DEF Write, DropFiles, NewInput, ClickRun, OpenFile, LoadAddlJconf,
           ChooseAndRunFile, FileChosen, Goes, static, gui, shown, kernelVars, BeforeSlots
<1>8. CASE SaveQt \/ SaveFltk \/ CloseQt \/ CloseFltk \/ Poll
    BY <1>8, <1>1 DEF SaveQt, SaveFltk, CloseQt, CloseFltk, Poll, Goes, static, gui,
           shown, kernelVars, BeforeSlots
<1>9. CASE Accept \/ Refuse \/ NoRunBuffer \/ StopKernel \/ WaitForKernelStop \/ UpdateDebugLog
    BY <1>9, <1>1 DEF Accept, Refuse, NoRunBuffer, StopKernel, Over, WaitForKernelStop, UpdateDebugLog, Goes, static,
           gui, shown, kernelVars, BeforeSlots
<1>10. CASE Echo
    BY <1>10, <1>1 DEF Echo, Echoing, static, gui, kernelVars, BeforeSlots
<1>11. CASE Destroy
    BY <1>11, <1>1 DEF Destroy, DestroyQt, DestroyFltk, DestroyStub, Destroyed, DestroyBase, Goes,
           static, shown, kernelVars, BeforeSlots
<1>12. CASE ShowText \/ ConsoleReady
    <2>1. ASSUME NEW event, Delivers(event), event # Disable
          PROVE  queue' \in Seq(EventType) /\ (Disable \in Range(queue') <=> Disable \in Range(queue))
        BY <2>1, <1>a, QueueShrinks DEF Delivers
    <2>2. queue' \in Seq(EventType) /\ (Disable \in Range(queue') <=> Disable \in Range(queue))
        BY <1>12, <1>b, <2>1 DEF ShowText, ConsoleReady
    <2>3. UNCHANGED <<kind, kernel, disabling, enabled, connected, main>>
        BY <1>12 DEF ShowText, ConsoleReady, static, gui, kernelVars
    <2> QED
        BY <2>2, <2>3 DEF DisableInv, RequestInv, DisableIsKept, BeforeSlots
<1>13. CASE DisableGUI
    <2>1. /\ Tail(queue) \in Seq(EventType) /\ Range(Tail(queue)) \subseteq Range(queue)
          /\ Disable \in Range(queue)
        BY <1>13, <1>a, QueueShrinks DEF DisableGUI, Delivers
    <2>2. /\ UNCHANGED <<kind, kernel, disabling, connected, main>>
          /\ queue' = Tail(queue) /\ enabled' = FALSE
        BY <1>13 DEF DisableGUI, Delivers, static, kernelVars
    <2> QED
        BY <2>1, <2>2 DEF DisableInv, RequestInv, DisableIsKept, BeforeSlots
<1>14. CASE InitScene \/ DisableFltk \/ DisableStub \/ InitSceneFails
    <2>1. /\ UNCHANGED <<kind, enabled, connected, queue>>
          /\ kernel = "initScene" /\ kernel' \in {"frame", "stopped"}
          /\ main' \in {main, "exited"}
          /\ disabling' = disabling \/ (disabling' = "heard" /\ kind \in {"fltk", "stub"} /\ main' = main)
        BY <1>14 DEF InitScene, DisableFltk, DisableStub, DisableNothing, InitSceneFails, KernelGoes,
               static, gui, shown
    <2>2. main \notin {"construct", "start"}
        BY <2>1 DEF ControlInv
    <2> QED
        BY <2>1, <2>2 DEF DisableInv, RequestInv, DisableIsKept, BeforeSlots
<1>15. CASE DisableNotice
    <2>1. /\ UNCHANGED <<kind, main, disabling, enabled, connected>>
          /\ kind = "qt" /\ kernel = "initScene" /\ kernel' = "disabling"
          /\ queue' = queue \o Queued("text", Notice)
        BY <1>15 DEF DisableNotice, KernelGoes, static, gui
    <2>2. queue' \in Seq(EventType) /\ (Disable \in Range(queue') <=> Disable \in Range(queue))
        BY <2>1, <1>a, <1>b, QueuedKeeps
    <2> QED
        BY <2>1, <2>2 DEF DisableInv, RequestInv, DisableIsKept, BeforeSlots
<1>16. CASE DisableSignal
    <2>1. /\ UNCHANGED <<kind, main, enabled, connected>>
          /\ kernel = "disabling" /\ kernel' = "frame" /\ kind = "qt"
          /\ main \in {"connectText", "connectDisable"} => disabling' = "early"
          /\ main \notin {"connectText", "connectDisable"} =>
                 disabling' = "heard" /\ "disable" \in connected
          /\ queue' = queue \o Queued("disable", Disable)
          /\ main \notin {"construct", "start"}
        BY <1>16 DEF DisableSignal, KernelGoes, static, gui, DisableInv, RequestInv, ControlInv
    <2>2. /\ queue' \in Seq(EventType)
          /\ Range(queue') = IF "disable" \in connected THEN Range(queue) \cup {Disable} ELSE Range(queue)
        BY <2>1, <1>a, <1>b, QueuedKeeps
    <2> QED
        BY <2>1, <2>2 DEF DisableInv, RequestInv, DisableIsKept, BeforeSlots
<1>17. CASE RunChunk \/ ChunkSilent \/ Written \/ ChunkEnds \/ KernelStops
    <2>1. /\ UNCHANGED <<kind, main, disabling, enabled, connected, queue>>
          /\ kernel' \notin {"initScene", "disabling"}
        BY <1>17 DEF RunChunk, ChunkSilent, Written, ChunkEnds, KernelStops, KernelGoes, static, gui,
                     shown
    <2> QED
        BY <2>1 DEF DisableInv, RequestInv, DisableIsKept, BeforeSlots
<1>18. CASE ChunkPrints \/ ChunkFails
    <2>1. PICK what \in {"print", "error"} : Output(what)
        BY <1>18 DEF ChunkPrints, ChunkFails
    <2>2. queue' \in Seq(EventType) /\ (Disable \in Range(queue') <=> Disable \in Range(queue))
        BY <2>1, OutputKeeps DEF DisableInv
    <2>3. /\ UNCHANGED <<kind, main, disabling, enabled, connected>>
          /\ kernel' \notin {"initScene", "disabling"}
        BY <1>18, <2>1 DEF ChunkPrints, ChunkFails, Output, static, gui
    <2> QED
        BY <2>2, <2>3 DEF DisableInv, RequestInv, DisableIsKept, BeforeSlots
<1>19. CASE UNCHANGED vars
    BY <1>19, <1>1 DEF vars, static, gui, shown, kernelVars, BeforeSlots
<1> QED
    BY <1>2, <1>3, <1>4, <1>5, <1>6, <1>7, <1>8, <1>9, <1>10, <1>11, <1>12, <1>13, <1>14, <1>15,
       <1>16, <1>17, <1>18, <1>19 DEF Next, Construct, Start, User, Dispatch

\* A request to disable Qt's console that comes after its slots are connected is
\* carried out or on its way; every other one leaves the input enabled.
THEOREM DisableCorrect == Spec => []DisableIsKept
<1>1. Spec => []DisableInv
    BY RequestInit, RequestStep, ControlInvariant, PTL DEF Spec
<1>2. DisableInv => DisableIsKept
    BY DEF DisableInv
<1> QED
    BY <1>1, <1>2, PTL

\* The main thread and the kernel thread keep apart, in all three consoles.
THEOREM ThreadsCorrect == Spec => []ThreadsKeepApart
<1>1. PrintsToLiveConsole /\ TornOnlyInFltk /\ JoinedBeforeExit => ThreadsKeepApart
  BY DEF ThreadsKeepApart
<1> QED  BY <1>1, PrintsCorrect, DisplayCorrect, JoinedCorrect, PTL

-----------------------------------------------------------------------------
(* The type invariant.                                                      *)

\* Where the threads and the console are.
PlaceTypes ==
    /\ kind \in {"qt", "fltk", "stub"}
    /\ main \in {"construct", "start", "ready", "connectText", "connectDisable", "exec", "adding",
                 "echoCode", "echoFailed", "echoSaved", "echoNotSaved", "echoChosen",
                 "closed", "expired", "wait", "returning", "exited"}
    /\ console \in {"none", "base", "live", "dying", "gone"}
    /\ connected \subseteq {"text", "disable"}
    /\ {local, loads, terminal, ready, enabled, torn, stopAsked} \subseteq BOOLEAN
    /\ kernel \in {"off", "initScene", "disabling", "frame", "chunk", "printed", "stopped"}
                  \cup Outputs
    /\ disabling \in {"no", "early", "heard"}

\* Where the code is.
CodeTypes ==
    /\ input \in Code \cup {None} /\ adding \in Code \cup {None}
    /\ written \in 0..MaxCode /\ tries \in 0..MaxTries
    /\ current \in Code \cup {None, File}
    /\ buf \in Seq(Code \cup {File})
    /\ main = "exited" \/ (adding # None <=> main \in {"adding", "echoCode", "echoFailed", "echoChosen"})
    /\ current # None <=> kernel \in {"chunk", "printed"} \/ Writing

\* What is shown.
TextTypes ==
    /\ queue \in Seq(Lines \cup {Disable, Ready})
    /\ display \in Seq(Lines)
    /\ debugLog \subseteq stdout /\ stdout \subseteq printed /\ printed \subseteq Code \cup {File}

LEMMA TypeParts == TypeOK <=> PlaceTypes /\ CodeTypes /\ TextTypes
BY DEF TypeOK, PlaceTypes, CodeTypes, TextTypes

LEMMA CodeNumbers ==
    /\ None \notin Code \cup {File}
    /\ \A k \in 0..MaxCode : k < MaxCode => k + 1 \in Code /\ k + 1 \in 0..MaxCode
    /\ \A k \in 0..MaxTries : k < MaxTries => k + 1 \in 0..MaxTries
BY ConsoleAssumption DEF None, Code, File

LEMMA LineTypes ==
    /\ \A what \in {"code", "failed"} \cup Outputs, k \in Code \cup {File} : Event(what, k) \in Lines
    /\ {Notice, Saved, NotSaved, Chosen} \subseteq Lines
BY DEF Event, Lines

LEMMA OneIsSeq ==
    ASSUME NEW S, NEW e \in S
    PROVE  <<e>> \in Seq(S) /\ <<>> \in Seq(S)
OBVIOUS

LEMMA TypeInit == Init => TypeOK
<1> SUFFICES ASSUME Init PROVE TypeOK
    OBVIOUS
<1>1. PlaceTypes
    BY DEF Init, PlaceTypes
<1>2. CodeTypes
    <2>1. 0 \in 0..MaxCode /\ 0 \in 0..MaxTries
        BY ConsoleAssumption
    <2>2. buf \in Seq(Code \cup {File})
        BY OneIsSeq DEF Init
    <2> QED
        BY <2>1, <2>2 DEF Init, CodeTypes, Writing, Outputs, None
<1>3. TextTypes
    BY DEF Init, TextTypes
<1> QED
    BY <1>1, <1>2, <1>3, TypeParts

LEMMA PlaceStep == PlaceTypes /\ [Next]_vars => PlaceTypes'
<1> SUFFICES ASSUME PlaceTypes, [Next]_vars PROVE PlaceTypes'
    OBVIOUS
<1>1. CASE Construct
    BY <1>1 DEF Construct, ConstructBase, ConstructQt, ConstructFltk, ConstructStub, Constructed,
           Goes, PlaceTypes, static, shown, kernelVars
<1>2. CASE Start
    BY <1>2 DEF Start, StartKernel, ReportFailure, FltkGetsReady, StubGetsReady, ConsoleIsReady,
           ConnectText, ConnectDisable, Goes, PlaceTypes, static, gui, shown, kernelVars
<1>3. CASE User
    BY <1>3 DEF User, Write, DropFiles, NewInput, ClickRun, OpenFile, LoadAddlJconf, ChooseAndRunFile,
           FileChosen, SaveQt, SaveFltk, CloseQt, CloseFltk, Goes, PlaceTypes, static, gui, shown,
           kernelVars
<1>4. CASE Dispatch \/ UpdateDebugLog
    BY <1>4 DEF Dispatch, ShowText, DisableGUI, ConsoleReady, ConsoleIsReady, UpdateDebugLog,
           PlaceTypes, static, gui, kernelVars
<1>5. CASE Accept \/ Refuse \/ NoRunBuffer \/ Echo
    <2>1. torn' \in BOOLEAN
        BY <1>5 DEF Accept, Refuse, NoRunBuffer, Echo, PlaceTypes, shown, Writing
    <2> QED
        BY <1>5, <2>1 DEF Accept, Refuse, NoRunBuffer, Echo, Goes, PlaceTypes, static, gui, kernelVars
<1>6. CASE Poll \/ StopKernel \/ WaitForKernelStop \/ Destroy
    BY <1>6 DEF Poll, StopKernel, Over, WaitForKernelStop, Destroy, DestroyQt, DestroyFltk, DestroyStub,
           Destroyed, DestroyBase, Goes, PlaceTypes, static, gui, shown, kernelVars
<1>7. CASE InitScene \/ DisableNotice \/ DisableSignal \/ DisableFltk \/ DisableStub \/ InitSceneFails
    BY <1>7 DEF InitScene, DisableNotice, DisableSignal, DisableFltk, DisableStub, DisableNothing,
           InitSceneFails, KernelGoes, PlaceTypes, static, gui, shown
<1>8. CASE RunChunk \/ ChunkSilent \/ ChunkEnds \/ KernelStops
    BY <1>8 DEF RunChunk, ChunkSilent, ChunkEnds, KernelStops, KernelGoes, PlaceTypes, static, gui,
           shown
<1>9. CASE ChunkPrints \/ ChunkFails
    BY <1>9 DEF ChunkPrints, ChunkFails, Output, Outputs, PlaceTypes, static, gui
<1>10. CASE Written
    <2>1. torn' \in BOOLEAN
        BY <1>10 DEF Written, PlaceTypes, Echoing
    <2> QED
        BY <1>10, <2>1 DEF Written, PlaceTypes, static, gui
<1>11. CASE UNCHANGED vars
    BY <1>11 DEF vars, PlaceTypes, static, gui, shown, kernelVars
<1> QED
    BY <1>1, <1>2, <1>3, <1>4, <1>5, <1>6, <1>7, <1>8, <1>9, <1>10, <1>11 DEF Next

LEMMA CodeStep == CodeTypes /\ [Next]_vars => CodeTypes'
<1> SUFFICES ASSUME CodeTypes, [Next]_vars PROVE CodeTypes'
    OBVIOUS
<1> USE CodeNumbers
<1> DEFINE Carrying == {"adding", "echoCode", "echoFailed", "echoChosen"}
<1>1. ASSUME UNCHANGED <<input, adding, written, tries, current, buf>>,
             main' = main \/ main' = "exited" \/ {main, main'} \cap (Carrying \cup {"exited"}) = {},
             kernel' = kernel \/ {kernel, kernel'} \cap ({"chunk", "printed"} \cup Outputs) = {}
      PROVE  CodeTypes'
    BY <1>1 DEF CodeTypes, Writing
<1>2. CASE Construct \/ Start
    BY <1>1, <1>2 DEF Construct, ConstructBase, ConstructQt, ConstructFltk, ConstructStub, Constructed,
           Start, StartKernel, ReportFailure, FltkGetsReady, StubGetsReady, ConnectText,
           ConnectDisable, Goes, code, kernelVars, Outputs
<1>3. CASE Write \/ DropFiles
    BY <1>3 DEF Write, DropFiles, NewInput, CodeTypes, Writing, kernelVars
<1>4. CASE ClickRun
    BY <1>4 DEF ClickRun, Goes, CodeTypes, Writing, kernelVars
<1>5. CASE OpenFile \/ LoadAddlJconf \/ ChooseAndRunFile
    BY <1>5 DEF OpenFile, LoadAddlJconf, ChooseAndRunFile, FileChosen, Goes, CodeTypes, Writing,
           kernelVars
<1>6. CASE SaveQt \/ SaveFltk
    BY <1>6 DEF SaveQt, SaveFltk, Goes, CodeTypes, Writing, kernelVars
<1>7. CASE CloseQt \/ CloseFltk \/ Poll \/ StopKernel \/ WaitForKernelStop
    BY <1>1, <1>7 DEF CloseQt, CloseFltk, Poll, StopKernel, Over, WaitForKernelStop, Goes, code, kernelVars
<1>8. CASE Dispatch \/ UpdateDebugLog
    BY <1>1, <1>8 DEF Dispatch, ShowText, DisableGUI, ConsoleReady, UpdateDebugLog, code, kernelVars
<1>9. CASE Accept \/ Refuse \/ NoRunBuffer
    <2>1. adding \in Code
        BY <1>9 DEF Accept, Refuse, NoRunBuffer, Goes, CodeTypes
    <2>2. buf' \in Seq(Code \cup {File})
        BY <1>9, <2>1, AppendProperties DEF Accept, Refuse, NoRunBuffer, CodeTypes
    <2>3. /\ UNCHANGED <<input, adding, written, tries, kernel, current>>
          /\ main = "adding" /\ main' \in {"echoCode", "echoFailed", "exited"}
        BY <1>9 DEF Accept, Refuse, NoRunBuffer, Goes, code, kernelVars
    <2> QED
        BY <2>2, <2>3 DEF CodeTypes, Writing
<1>10. CASE Echo
    <2>1. /\ UNCHANGED <<written, tries, kernel, current, buf>>
          /\ input' \in {input, None}
          /\ main = "echoChosen" => main' = "adding" /\ adding' = adding
          /\ main # "echoChosen" => main' = "exec" /\ adding' = None
        BY <1>10 DEF Echo, kernelVars
    <2>2. main # "exited"
        BY <1>10 DEF Echo, Echoing
    <2> QED
        BY <2>1, <2>2 DEF CodeTypes, Writing
<1>11. CASE Destroy
    BY <1>1, <1>11 DEF Destroy, DestroyQt, DestroyFltk, DestroyStub, Destroyed, DestroyBase, Goes, code,
           kernelVars
<1>12. CASE InitScene \/ DisableNotice \/ DisableSignal \/ DisableFltk \/ DisableStub \/ InitSceneFails
    BY <1>1, <1>12 DEF InitScene, DisableNotice, DisableSignal, DisableFltk, DisableStub,
           DisableNothing, InitSceneFails, KernelGoes, code, Outputs
<1>13. CASE RunChunk
    <2>1. Head(buf) \in Code \cup {File} /\ Tail(buf) \in Seq(Code \cup {File})
        BY <1>13, HeadTailProperties DEF RunChunk, CodeTypes
    <2>2. /\ UNCHANGED <<input, adding, written, tries, main>>
          /\ current' = Head(buf) /\ buf' = Tail(buf) /\ kernel' = "chunk"
        BY <1>13 DEF RunChunk, KernelGoes, code
    <2> QED
        BY <2>1, <2>2 DEF CodeTypes, Writing
<1>14. CASE ChunkPrints \/ ChunkFails \/ Written \/ ChunkSilent
    <2>1. /\ UNCHANGED <<input, adding, written, tries, main, current, buf>>
          /\ {kernel, kernel'} \subseteq {"chunk", "printed"} \cup Outputs
        BY <1>14 DEF ChunkPrints, ChunkFails, Output, Written, Writing, ChunkSilent, KernelGoes, code,
                     Outputs
    <2> QED
        BY <2>1 DEF CodeTypes, Writing
<1>15. CASE ChunkEnds
    <2>1. /\ UNCHANGED <<input, adding, written, tries, main, buf>>
          /\ current' = None /\ kernel' = "frame"
        BY <1>15 DEF ChunkEnds, KernelGoes, code
    <2> QED
        BY <2>1 DEF CodeTypes, Writing, Outputs
<1>16. CASE KernelStops
    BY <1>1, <1>16 DEF KernelStops, KernelGoes, code, Outputs
<1>17. CASE UNCHANGED vars
    BY <1>1, <1>17 DEF vars, code, kernelVars
<1> QED
    BY <1>2, <1>3, <1>4, <1>5, <1>6, <1>7, <1>8, <1>9, <1>10, <1>11, <1>12, <1>13, <1>14, <1>15,
       <1>16, <1>17 DEF Next, User

LEMMA TextStep == CodeTypes /\ TextTypes /\ [Next]_vars => TextTypes'
<1> SUFFICES ASSUME CodeTypes, TextTypes, [Next]_vars PROVE TextTypes'
    OBVIOUS
<1> DEFINE Events == Lines \cup {Disable, Ready}
<1>1. ASSUME UNCHANGED logs, queue' \in Seq(Events), display' \in Seq(Lines)
      PROVE  TextTypes'
    BY <1>1 DEF TextTypes, logs
<1>2. queue \in Seq(Events) /\ display \in Seq(Lines)
    BY DEF TextTypes
<1>3. \A signal, event : event \in Events => queue \o Queued(signal, event) \in Seq(Events)
    <2>1. \A signal, event : event \in Events => Queued(signal, event) \in Seq(Events)
        <3> HIDE DEF Events
        <3> QED  BY OneIsSeq DEF Queued
    <2> QED
        BY <1>2, <2>1, ConcatProperties
<1>4. \A line \in Lines : Append(display, line) \in Seq(Lines)
    BY <1>2, AppendProperties
<1>5. Notice \in Events /\ Ready \in Events /\ Disable \in Events
    BY LineTypes
<1>6. queue # <<>> => Head(queue) \in Events /\ Tail(queue) \in Seq(Events)
    BY <1>2, HeadTailProperties
<1>7. Append(queue, Ready) \in Seq(Events)
    BY <1>2, <1>5, AppendProperties
<1> HIDE DEF Events
<1>8. CASE UNCHANGED shown
    BY <1>1, <1>2, <1>8 DEF shown
<1>9. CASE ConnectDisable
    BY <1>1, <1>2, <1>7, <1>9 DEF ConnectDisable
<1>10. CASE ShowText
    <2>1. PICK event \in Range(queue) \ {Ready, Disable} :
              Delivers(event) /\ display' = Append(display, event)
        BY <1>10 DEF ShowText
    <2>2. event \in Lines /\ queue' \in Seq(Events)
        BY <2>1, <1>6 DEF Delivers, Events
    <2> QED
        BY <1>1, <1>4, <1>10, <2>1, <2>2 DEF ShowText
<1>11. CASE DisableGUI \/ ConsoleReady
    BY <1>1, <1>2, <1>6, <1>11 DEF DisableGUI, ConsoleReady, Delivers
<1>12. CASE UpdateDebugLog
    BY <1>12 DEF UpdateDebugLog, TextTypes
<1>13. CASE Echo
    <2>1. Echoed \in Lines
        BY <1>13, LineTypes, CodeNumbers DEF Echo, Echoing, Echoed, CodeTypes
    <2> QED
        BY <1>1, <1>2, <1>4, <1>13, <2>1 DEF Echo
<1>14. CASE DisableNotice \/ DisableSignal
    BY <1>1, <1>2, <1>3, <1>5, <1>14 DEF DisableNotice, DisableSignal
<1>15. CASE ChunkPrints \/ ChunkFails
    <2>1. PICK what \in Outputs : Output(what)
        BY <1>15 DEF ChunkPrints, ChunkFails, Outputs
    <2> DEFINE line == Event(what, current)
    <2>2. current \in Code \cup {File}
        BY <2>1 DEF Output, CodeTypes
    <2>3. line \in Lines /\ line \in Events
        BY <2>2, LineTypes DEF Events
    <2>4. /\ queue' = queue \/ queue' = queue \o Queued("text", line)
          /\ display' = display \/ display' = Append(display, line)
          /\ stdout' \in {stdout, stdout \cup {current}}
          /\ printed' = printed \cup {current}
        BY <2>1 DEF Output, StubDisplays
    <2>5. debugLog' = debugLog
        BY <1>15 DEF ChunkPrints, ChunkFails
    <2> HIDE DEF line
    <2>6. queue' \in Seq(Events) /\ display' \in Seq(Lines)
        BY <1>2, <1>3, <1>4, <2>3, <2>4
    <2>7. debugLog' \subseteq stdout' /\ stdout' \subseteq printed' /\ printed' \subseteq Code \cup {File}
        BY <2>2, <2>4, <2>5 DEF TextTypes
    <2> QED
        BY <2>6, <2>7 DEF TextTypes, Events
<1>16. CASE Written
    <2>1. Event(kernel, current) \in Lines
        BY <1>16, LineTypes DEF Written, Writing, CodeTypes
    <2> QED
        BY <1>1, <1>2, <1>4, <1>16, <2>1 DEF Written
<1>17. CASE Construct \/ StartKernel \/ ReportFailure \/ FltkGetsReady \/ StubGetsReady \/ ConnectText
    BY <1>8, <1>17 DEF Construct, ConstructBase, ConstructQt, ConstructFltk, ConstructStub, Constructed,
           StartKernel, ReportFailure, FltkGetsReady, StubGetsReady, ConnectText
<1>18. CASE User
    BY <1>8, <1>18 DEF User, Write, DropFiles, NewInput, ClickRun, OpenFile, LoadAddlJconf,
           ChooseAndRunFile, FileChosen, SaveQt, SaveFltk, CloseQt, CloseFltk
<1>19. CASE Accept \/ Refuse \/ NoRunBuffer \/ Poll \/ StopKernel \/ WaitForKernelStop \/ Destroy
    BY <1>8, <1>19 DEF Accept, Refuse, NoRunBuffer, Poll, StopKernel, Over, WaitForKernelStop, Destroy, DestroyQt,
           DestroyFltk, DestroyStub, Destroyed, DestroyBase
<1>20. CASE InitScene \/ DisableFltk \/ DisableStub \/ InitSceneFails
    BY <1>8, <1>20 DEF InitScene, DisableFltk, DisableStub, DisableNothing, InitSceneFails
<1>21. CASE RunChunk \/ ChunkSilent \/ ChunkEnds \/ KernelStops
    BY <1>8, <1>21 DEF RunChunk, ChunkSilent, ChunkEnds, KernelStops
<1>22. CASE UNCHANGED vars
    BY <1>8, <1>22 DEF vars
<1> QED
    BY <1>9, <1>10, <1>11, <1>12, <1>13, <1>14, <1>15, <1>16, <1>17, <1>18, <1>19, <1>20, <1>21,
       <1>22 DEF Next, Start, Dispatch

\* The consoles' variables keep their types, a piece of code is on its way from
\* the input exactly while addString works on it, and the kernel thread has a
\* chunk exactly while it runs one.
THEOREM ConsoleTypeCorrect == Spec => []TypeOK
BY TypeInit, PlaceStep, CodeStep, TextStep, TypeParts, PTL DEF Spec
-----------------------------------------------------------------------------
(* What runs, and what it shows.                                            *)

HasOutput(lines, k) == \E i \in DOMAIN lines : IsOutput(lines[i]) /\ lines[i][2] = k

OneOutput(lines) ==
    \A i, j \in DOMAIN lines :
        IsOutput(lines[i]) /\ IsOutput(lines[j]) /\ lines[i][2] = lines[j][2] => i = j

\* The code addString has not handed to the run buffer yet.
Unsent(k) ==
    \/ k = input /\ ~(main = "echoCode" /\ adding = k)
    \/ k = adding /\ main \in {"adding", "echoChosen", "echoFailed"}
    \/ k > written

\* A piece of code is unsent, in the buffer, run, or has been, and these exclude
\* each other.
PlacesApart ==
    /\ input <= written /\ adding <= written
    /\ IsInjective(buf)
    /\ \A k \in Range(buf) : k # current /\ k \notin printed
    /\ kernel = "chunk" => current \notin printed
    /\ main # "exited" =>
           \A k \in Code : Unsent(k) => k \notin Range(buf) /\ k # current /\ k \notin printed

\* Its line is in the event queue or on the display, or about to be there.
OutputApart ==
    /\ OneOutput(queue) /\ OneOutput(display)
    /\ \A k \in Code \cup {File} : HasOutput(queue, k) \/ HasOutput(display, k) => k \in printed
    /\ \A k \in Code \cup {File} : ~(HasOutput(queue, k) /\ HasOutput(display, k))
    /\ Writing => current \in printed /\ ~HasOutput(queue, current) /\ ~HasOutput(display, current)

CodeShown(k) == Event("code", k) \in Range(display)

\* With Qt, whatever the kernel thread may still show is shown as code already,
\* but for the code that addString is about to show.
EchoIsDue ==
    kind = "qt" /\ main # "exited" =>
        \A k \in Code :
            k \in Range(buf) \/ k = current \/ HasOutput(queue, k) =>
                CodeShown(k) \/ (main = "echoCode" /\ adding = k)

\* Qt's console is ready only after the signal for text has its slot.
SlotBeforeReady ==
    kind = "qt" /\ (ready \/ Ready \in Range(queue) \/ main = "connectDisable") => "text" \in connected
LEMMA EventParts ==
    /\ \A what, k : Event(what, k)[1] = what /\ Event(what, k)[2] = k
    /\ \A what, k : IsOutput(Event(what, k)) <=> what \in Outputs
    /\ \A line \in {Ready, Disable, Notice, Saved, NotSaved, Chosen} : ~IsOutput(line)
<1>1. \A what, k : Event(what, k)[1] = what /\ Event(what, k)[2] = k
    BY DEF Event
<1>2. \A what, k : IsOutput(Event(what, k)) <=> what \in Outputs
    BY <1>1 DEF IsOutput
<1>3. {"ready", "disable", "notice", "saved", "unsaved", "chosen"} \cap Outputs = {}
    BY DEF Outputs
<1> QED
    BY <1>1, <1>2, <1>3 DEF Ready, Disable, Notice, Saved, NotSaved, Chosen

LEMMA OutputAppended ==
    ASSUME NEW S, NEW q \in Seq(S), NEW e \in S
    PROVE  /\ \A k : HasOutput(Append(q, e), k) <=> HasOutput(q, k) \/ (IsOutput(e) /\ e[2] = k)
           /\ OneOutput(q) /\ (IsOutput(e) => ~HasOutput(q, e[2])) => OneOutput(Append(q, e))
<1> DEFINE r == Append(q, e)
<1> DEFINE n == Len(q)
<1>1. /\ n \in Nat
      /\ DOMAIN q = 1..n /\ DOMAIN r = 1..(n + 1)
      /\ \A i \in 1..n : r[i] = q[i]
      /\ r[n + 1] = e
    BY AppendProperties
<1>2. \A i \in 1..(n + 1) : i \in 1..n \/ i = n + 1
    BY <1>1
<1>3. n + 1 \in 1..(n + 1) /\ 1..n \subseteq 1..(n + 1)
    BY <1>1
<1> HIDE DEF r, n
<1>4. \A k : HasOutput(r, k) <=> HasOutput(q, k) \/ (IsOutput(e) /\ e[2] = k)
    BY <1>1, <1>2, <1>3 DEF HasOutput
<1>5. ASSUME OneOutput(q), IsOutput(e) => ~HasOutput(q, e[2])
      PROVE  OneOutput(r)
    <2>1. ASSUME NEW i \in 1..(n + 1), NEW j \in 1..(n + 1),
                 IsOutput(r[i]), IsOutput(r[j]), r[i][2] = r[j][2]
          PROVE  i = j
        <3>1. CASE i \in 1..n /\ j \in 1..n
            BY <1>1, <1>5, <2>1, <3>1 DEF OneOutput
        <3>2. CASE i \in 1..n /\ j = n + 1
            BY <1>1, <1>5, <2>1, <3>2 DEF HasOutput
        <3>3. CASE i = n + 1 /\ j \in 1..n
            BY <1>1, <1>5, <2>1, <3>3 DEF HasOutput
        <3> QED
            BY <1>2, <2>1, <3>1, <3>2, <3>3
    <2> QED
        BY <1>1, <2>1 DEF OneOutput
<1> QED
    BY <1>4, <1>5 DEF r

LEMMA OutputTaken ==
    ASSUME NEW S, NEW q \in Seq(S), q # <<>>
    PROVE  /\ \A k : HasOutput(q, k) <=>
                         HasOutput(Tail(q), k) \/ (IsOutput(Head(q)) /\ Head(q)[2] = k)
           /\ OneOutput(q) => OneOutput(Tail(q))
           /\ OneOutput(q) /\ IsOutput(Head(q)) => ~HasOutput(Tail(q), Head(q)[2])
<1> DEFINE t == Tail(q)
<1> DEFINE n == Len(q)
<1>1. /\ n \in Nat /\ n > 0
      /\ DOMAIN q = 1..n /\ DOMAIN t = 1..(n - 1)
      /\ \A i \in 1..(n - 1) : t[i] = q[i + 1]
      /\ Head(q) = q[1]
    BY HeadTailProperties
<1>2. \A i \in 1..n : i = 1 \/ (i - 1 \in 1..(n - 1) /\ t[i - 1] = q[i])
    BY <1>1
<1>3. \A i \in 1..(n - 1) : i + 1 \in 1..n /\ i + 1 # 1 /\ t[i] = q[i + 1]
    BY <1>1
<1>4. \A i, j \in 1..(n - 1) : i + 1 = j + 1 => i = j
    OBVIOUS
<1>5. 1 \in 1..n
    BY <1>1
<1> HIDE DEF t, n
<1>6. \A k : HasOutput(q, k) <=> HasOutput(t, k) \/ (IsOutput(Head(q)) /\ Head(q)[2] = k)
    <2> SUFFICES ASSUME NEW k
                 PROVE  HasOutput(q, k) <=> HasOutput(t, k) \/ (IsOutput(Head(q)) /\ Head(q)[2] = k)
        OBVIOUS
    <2>1. ASSUME HasOutput(q, k)
          PROVE  HasOutput(t, k) \/ (IsOutput(Head(q)) /\ Head(q)[2] = k)
        <3>1. PICK i \in 1..n : IsOutput(q[i]) /\ q[i][2] = k
            BY <1>1, <2>1 DEF HasOutput
        <3>2. CASE i = 1
            BY <1>1, <3>1, <3>2
        <3>3. CASE i - 1 \in 1..(n - 1) /\ t[i - 1] = q[i]
            BY <1>1, <3>1, <3>3 DEF HasOutput
        <3> QED
            BY <1>2, <3>2, <3>3
    <2>2. HasOutput(t, k) => HasOutput(q, k)
        BY <1>1, <1>3 DEF HasOutput
    <2>3. IsOutput(Head(q)) /\ Head(q)[2] = k => HasOutput(q, k)
        BY <1>1, <1>5 DEF HasOutput
    <2> QED
        BY <2>1, <2>2, <2>3
<1>7. OneOutput(q) => OneOutput(t)
    BY <1>1, <1>3, <1>4 DEF OneOutput
<1>8. OneOutput(q) /\ IsOutput(Head(q)) => ~HasOutput(t, Head(q)[2])
    BY <1>1, <1>3, <1>5 DEF OneOutput, HasOutput
<1> QED
    BY <1>6, <1>7, <1>8 DEF t

LEMMA TakenFromBuffer ==
    ASSUME NEW S, NEW q \in Seq(S), q # <<>>, IsInjective(q)
    PROVE  IsInjective(Tail(q)) /\ Head(q) \notin Range(Tail(q)) /\ Head(q) \in Range(q)
<1> DEFINE t == Tail(q)
<1> DEFINE n == Len(q)
<1>1. /\ n \in Nat /\ n > 0
      /\ DOMAIN q = 1..n /\ DOMAIN t = 1..(n - 1)
      /\ \A i \in 1..(n - 1) : t[i] = q[i + 1]
      /\ Head(q) = q[1]
    BY HeadTailProperties
<1>2. \A i \in 1..(n - 1) : i + 1 \in 1..n /\ i + 1 # 1 /\ t[i] = q[i + 1]
    BY <1>1
<1>3. \A i, j \in 1..(n - 1) : i + 1 = j + 1 => i = j
    OBVIOUS
<1>4. 1 \in 1..n
    BY <1>1
<1> HIDE DEF t, n
<1>5. IsInjective(t)
    <2>1. ASSUME NEW i \in 1..(n - 1), NEW j \in 1..(n - 1), t[i] = t[j]
          PROVE  i = j
        <3>1. q[i + 1] = q[j + 1] /\ i + 1 \in 1..n /\ j + 1 \in 1..n
            BY <1>2, <2>1
        <3>2. i + 1 = j + 1
            BY <1>1, <3>1, Zenon DEF IsInjective
        <3> QED
            BY <1>3, <3>2
    <2> QED
        BY <1>1, <2>1 DEF IsInjective
<1>6. Head(q) \notin Range(t) /\ Head(q) \in Range(q)
    BY <1>1, <1>2, <1>4 DEF IsInjective, Range
<1> QED
    BY <1>5, <1>6 DEF t

LEMMA AddedToBuffer ==
    ASSUME NEW S, NEW q \in Seq(S), NEW e \in S, IsInjective(q), e \notin Range(q)
    PROVE  IsInjective(Append(q, e))
<1> DEFINE r == Append(q, e)
<1> DEFINE n == Len(q)
<1>1. /\ n \in Nat
      /\ DOMAIN q = 1..n /\ DOMAIN r = 1..(n + 1)
      /\ \A i \in 1..n : r[i] = q[i]
      /\ r[n + 1] = e
    BY AppendProperties
<1>2. \A i \in 1..(n + 1) : i \in 1..n \/ i = n + 1
    BY <1>1
<1> HIDE DEF r, n
<1>3. IsInjective(r)
    BY <1>1, <1>2 DEF IsInjective, Range
<1> QED
    BY <1>3 DEF r
LEMMA PlacesInit == Init => PlacesApart
<1> SUFFICES ASSUME Init PROVE PlacesApart
    OBVIOUS
<1>1. IsInjective(buf) /\ None \notin Range(buf)
    <2>1. /\ IsInjective(<<>>) /\ IsInjective(<<File>>)
          /\ Range(<<>>) = {} /\ Range(<<File>>) = {File}
        BY DEF IsInjective, Range
    <2> QED
        BY <2>1, CodeNumbers DEF Init
<1>2. /\ input = 0 /\ adding = 0 /\ written = 0 /\ printed = {} /\ current = None /\ kernel = "off"
      /\ main = "construct"
    BY DEF Init, None
<1>3. \A k \in Code : k \notin Range(buf) /\ k # current
    <2>1. \A k \in Code : k # File /\ k # None
        BY ConsoleAssumption DEF Code, File, None
    <2>2. Range(<<>>) = {} /\ Range(<<File>>) = {File}
        BY DEF Range
    <2> QED
        BY <1>2, <2>1, <2>2 DEF Init
<1> QED
    BY <1>1, <1>2, <1>3 DEF PlacesApart

LEMMA PlacesStep == CodeTypes /\ PlacesApart /\ [Next]_vars => PlacesApart'
<1> SUFFICES ASSUME CodeTypes, PlacesApart, [Next]_vars PROVE PlacesApart'
    OBVIOUS
<1> DEFINE Carrying == {"adding", "echoChosen", "echoFailed"}
<1>a. /\ input \in Nat /\ adding \in Nat /\ written \in Nat
      /\ None = 0 /\ \A k \in Code : k \in Nat /\ k # None
      /\ input <= written /\ adding <= written
    BY ConsoleAssumption DEF CodeTypes, Code, None, PlacesApart
<1>b. Range(buf) \subseteq Code \cup {File} /\ None \notin Code \cup {File}
    BY CodeNumbers DEF CodeTypes, Range
<1>1. ASSUME UNCHANGED <<buf, printed, current>>, kernel' = "chunk" => kernel = "chunk",
             input' <= written', adding' <= written',
             main' # "exited" => main # "exited" /\ \A k \in Code : Unsent(k)' => Unsent(k)
      PROVE  PlacesApart'
    BY <1>1 DEF PlacesApart
<1>2. ASSUME UNCHANGED <<input, adding, written, buf, printed, current>>,
             kernel' = "chunk" => kernel = "chunk",
             \/ main' = main
             \/ main' = "exited"
             \/ main' \notin Carrying /\ main \notin {"echoCode", "exited"}
      PROVE  PlacesApart'
    <2>1. main' # "exited" => main # "exited" /\ \A k \in Code : Unsent(k)' => Unsent(k)
        BY <1>2 DEF Unsent
    <2> QED
        BY <1>1, <1>2, <1>a, <2>1
<1>3. CASE Construct \/ Start
    BY <1>2, <1>3 DEF Construct, ConstructBase, ConstructQt, ConstructFltk, ConstructStub, Constructed,
           Start, StartKernel, ReportFailure, FltkGetsReady, StubGetsReady, ConnectText,
           ConnectDisable, Goes, code, shown, logs, kernelVars
<1>4. CASE Write \/ DropFiles
    <2>1. /\ UNCHANGED <<main, adding, buf, printed, current, kernel>>
          /\ main = "exec" /\ written' = written + 1 /\ input' = written + 1
        BY <1>4 DEF Write, DropFiles, NewInput, shown, logs, kernelVars
    <2>2. \A k \in Code : Unsent(k)' => Unsent(k)
        BY <1>a, <2>1 DEF Unsent
    <2> QED
        BY <1>1, <1>a, <2>1, <2>2
<1>5. CASE ClickRun
    <2>1. /\ UNCHANGED <<written, buf, printed, current, kernel>>
          /\ main = "exec" /\ main' = "adding" /\ adding' = input /\ input' \in {None, input}
        BY <1>5 DEF ClickRun, Goes, shown, logs, kernelVars
    <2>2. \A k \in Code : Unsent(k)' => Unsent(k)
        BY <1>a, <2>1 DEF Unsent
    <2> QED
        BY <1>1, <1>a, <2>1, <2>2
<1>6. CASE OpenFile \/ LoadAddlJconf \/ ChooseAndRunFile
    <2>1. /\ UNCHANGED <<input, buf, printed, current, kernel>>
          /\ main = "exec" /\ main' \in {"adding", "echoChosen"}
          /\ adding' = written + 1 /\ written' = written + 1
        BY <1>6 DEF OpenFile, LoadAddlJconf, ChooseAndRunFile, FileChosen, Goes, shown, logs, kernelVars
    <2>2. \A k \in Code : Unsent(k)' => Unsent(k)
        BY <1>a, <2>1 DEF Unsent
    <2> QED
        BY <1>1, <1>a, <2>1, <2>2
<1>7. CASE SaveQt \/ SaveFltk
    BY <1>2, <1>7 DEF SaveQt, SaveFltk, Goes, shown, logs, kernelVars
<1>8. CASE CloseQt \/ CloseFltk \/ Poll \/ StopKernel \/ WaitForKernelStop
    BY <1>2, <1>8 DEF CloseQt, CloseFltk, Poll, StopKernel, Over, WaitForKernelStop, Goes, code, shown, logs,
           kernelVars
<1>9. CASE Dispatch \/ UpdateDebugLog
    BY <1>2, <1>9 DEF Dispatch, ShowText, DisableGUI, ConsoleReady, UpdateDebugLog, code, logs, kernelVars
<1>10. CASE Accept
    <2>1. /\ UNCHANGED <<input, adding, written, printed, current, kernel>>
          /\ main = "adding" /\ main' = "echoCode" /\ buf' \in {buf, Append(buf, adding)}
        BY <1>10 DEF Accept, Goes, code, shown, logs, kernelVars
    <2>2. adding \in Code /\ Unsent(adding)
        BY <2>1 DEF CodeTypes, Unsent
    <2>3. adding \notin Range(buf) /\ adding # current /\ adding \notin printed
        BY <2>1, <2>2 DEF PlacesApart
    <2>4. \A k \in Code : Unsent(k)' => Unsent(k) /\ k # adding
        BY <1>a, <2>1 DEF Unsent
    <2>5. CASE buf' = buf
        BY <1>1, <1>a, <2>1, <2>4, <2>5
    <2>6. CASE buf' = Append(buf, adding)
        <3>1. buf \in Seq(Code \cup {File}) /\ adding \in Code \cup {File}
            BY <2>2 DEF CodeTypes
        <3>2. Range(Append(buf, adding)) = Range(buf) \cup {adding}
            BY <3>1, QueueGrows
        <3>3. IsInjective(Append(buf, adding))
            BY <2>3, <3>1, AddedToBuffer DEF PlacesApart
        <3>4. IsInjective(buf') /\ Range(buf') = Range(buf) \cup {adding}
            BY <2>6, <3>2, <3>3
        <3> QED
            BY <1>a, <2>1, <2>3, <2>4, <3>4 DEF PlacesApart
    <2> QED
        BY <2>1, <2>5, <2>6
<1>11. CASE Refuse \/ NoRunBuffer
    <2>1. /\ UNCHANGED <<input, adding, written, buf, printed, current, kernel>>
          /\ main = "adding" /\ main' \in {"echoFailed", "exited"}
        BY <1>11 DEF Refuse, NoRunBuffer, Goes, code, shown, logs, kernelVars
    <2>2. \A k \in Code : Unsent(k)' => Unsent(k)
        BY <2>1 DEF Unsent
    <2> QED
        BY <1>1, <1>a, <2>1, <2>2
<1>12. CASE Echo
    <2>1. /\ UNCHANGED <<written, buf, printed, current, kernel>>
          /\ main = "echoChosen" => main' = "adding" /\ adding' = adding /\ input' = input
          /\ main # "echoChosen" => main' = "exec" /\ adding' = None
          /\ main = "echoCode" => input' = IF adding = input THEN None ELSE input
          /\ main # "echoCode" => input' = input
          /\ main # "exited"
        BY <1>12 DEF Echo, Echoing, logs, kernelVars
    <2>2. \A k \in Code : Unsent(k)' => Unsent(k)
        BY <1>a, <2>1 DEF Unsent
    <2>3. input' <= written' /\ adding' <= written'
        BY <1>a, <2>1
    <2> QED
        BY <1>1, <2>1, <2>2, <2>3
<1>13. CASE Destroy
    BY <1>2, <1>13 DEF Destroy, DestroyQt, DestroyFltk, DestroyStub, Destroyed, DestroyBase, Goes, code,
           shown, logs, kernelVars
<1>14. CASE InitScene \/ DisableNotice \/ DisableSignal \/ DisableFltk \/ DisableStub \/ InitSceneFails
    BY <1>2, <1>14 DEF InitScene, DisableNotice, DisableSignal, DisableFltk, DisableStub,
           DisableNothing, InitSceneFails, KernelGoes, code, shown, logs
<1>15. CASE RunChunk
    <2>1. /\ UNCHANGED <<input, adding, written, printed, main>>
          /\ buf # <<>> /\ current' = Head(buf) /\ buf' = Tail(buf)
        BY <1>15 DEF RunChunk, code, shown, logs
    <2>2. buf \in Seq(Code \cup {File}) /\ IsInjective(buf)
        BY DEF CodeTypes, PlacesApart
    <2>3. /\ IsInjective(Tail(buf)) /\ Head(buf) \notin Range(Tail(buf))
          /\ Head(buf) \in Range(buf)
        BY <2>1, <2>2, TakenFromBuffer
    <2>4. Range(buf) = Range(Tail(buf)) \cup {Head(buf)}
        BY <2>1, <2>2, QueueShrinks
    <2>5. \A k \in Code : Unsent(k)' => Unsent(k)
        BY <2>1 DEF Unsent
    <2> QED
        BY <1>a, <2>1, <2>3, <2>4, <2>5 DEF PlacesApart
<1>16. CASE ChunkPrints \/ ChunkFails
    <2>1. /\ UNCHANGED <<input, adding, written, current, buf, main>>
          /\ kernel = "chunk" /\ kernel' # "chunk" /\ printed' = printed \cup {current}
        BY <1>16 DEF ChunkPrints, ChunkFails, Output, code
    <2>2. \A k \in Code : Unsent(k)' => Unsent(k)
        BY <2>1 DEF Unsent
    <2> QED
        BY <1>a, <2>1, <2>2 DEF PlacesApart
<1>17. CASE ChunkSilent \/ Written \/ KernelStops
    BY <1>2, <1>17 DEF ChunkSilent, Written, KernelStops, KernelGoes, code, shown, logs
<1>18. CASE ChunkEnds
    <2>1. /\ UNCHANGED <<input, adding, written, printed, buf, main>>
          /\ current' = None /\ kernel' = "frame"
        BY <1>18 DEF ChunkEnds, KernelGoes, code, shown, logs
    <2>2. \A k \in Code : Unsent(k)' => Unsent(k)
        BY <2>1 DEF Unsent
    <2> QED
        BY <1>a, <1>b, <2>1, <2>2 DEF PlacesApart
<1>19. CASE UNCHANGED vars
    BY <1>2, <1>19 DEF vars, code, shown, logs, kernelVars
<1> QED
    BY <1>3, <1>4, <1>5, <1>6, <1>7, <1>8, <1>9, <1>10, <1>11, <1>12, <1>13, <1>14, <1>15, <1>16,
       <1>17, <1>18, <1>19 DEF Next, User
LEMMA OutputInit == Init => OutputApart
<1> SUFFICES ASSUME Init PROVE OutputApart
    OBVIOUS
<1>1. queue = <<>> /\ display = <<>> /\ kernel = "off"
    BY DEF Init
<1>2. DOMAIN <<>> = {}
    OBVIOUS
<1> QED
    BY <1>1, <1>2 DEF OutputApart, OneOutput, HasOutput, Writing, Outputs

LEMMA OutputStep ==
    CodeTypes /\ TextTypes /\ PlacesApart /\ OutputApart /\ [Next]_vars => OutputApart'
<1> SUFFICES ASSUME CodeTypes, TextTypes, PlacesApart, OutputApart, [Next]_vars PROVE OutputApart'
    OBVIOUS
<1> DEFINE Events == Lines \cup {Disable, Ready}
<1>a. queue \in Seq(Events) /\ display \in Seq(Lines)
    BY DEF TextTypes
<1>b. /\ {Ready, Disable, Notice} \subseteq Events /\ {Notice, Saved, NotSaved, Chosen} \subseteq Lines
      /\ Lines \subseteq Events
    BY LineTypes
<1> HIDE DEF Events
<1>1. ASSUME UNCHANGED printed,
             OneOutput(queue'), \A k : HasOutput(queue', k) <=> HasOutput(queue, k),
             OneOutput(display'), \A k : HasOutput(display', k) <=> HasOutput(display, k),
             Writing' => Writing /\ current' = current
      PROVE  OutputApart'
    BY <1>1 DEF OutputApart
<1>2. OneOutput(queue) /\ OneOutput(display)
    BY DEF OutputApart
<1>3. CASE UNCHANGED <<queue, display, printed, kernel, current>>
    BY <1>1, <1>2, <1>3 DEF Writing
<1>4. \A event \in Events : ~IsOutput(event) =>
          /\ OneOutput(Append(queue, event))
          /\ \A k : HasOutput(Append(queue, event), k) <=> HasOutput(queue, k)
    BY <1>a, <1>2, OutputAppended
<1>5. \A line \in Lines : ~IsOutput(line) =>
          /\ OneOutput(Append(display, line))
          /\ \A k : HasOutput(Append(display, line), k) <=> HasOutput(display, k)
    BY <1>a, <1>2, OutputAppended
<1>6. CASE Construct
    BY <1>3, <1>6 DEF Construct, ConstructBase, ConstructQt, ConstructFltk, ConstructStub, Constructed,
           shown, logs, kernelVars
<1>7. CASE StartKernel
    <2>1. UNCHANGED <<queue, display, printed, current>> /\ kernel' \notin Outputs
        BY <1>7 DEF StartKernel, shown, logs, Outputs
    <2> QED
        BY <1>1, <1>2, <2>1 DEF Writing
<1>8. CASE ReportFailure \/ FltkGetsReady \/ StubGetsReady \/ ConnectText
    BY <1>3, <1>8 DEF ReportFailure, FltkGetsReady, StubGetsReady, ConnectText, shown, logs, kernelVars
<1>9. CASE ConnectDisable
    <2>1. /\ UNCHANGED <<display, printed, kernel, current>>
          /\ queue' = Append(queue, Ready)
        BY <1>9 DEF ConnectDisable, logs, kernelVars
    <2>2. Ready \in Events /\ ~IsOutput(Ready)
        BY <1>b, EventParts
    <2> QED
        BY <1>1, <1>2, <1>4, <2>1, <2>2 DEF Writing
<1>10. CASE User
    BY <1>3, <1>10 DEF User, Write, DropFiles, NewInput, ClickRun, OpenFile, LoadAddlJconf,
           ChooseAndRunFile, FileChosen, SaveQt, SaveFltk, CloseQt, CloseFltk, shown, logs, kernelVars
<1>11. CASE UpdateDebugLog \/ Accept \/ Refuse \/ NoRunBuffer \/ Poll \/ StopKernel \/ WaitForKernelStop \/ Destroy
    BY <1>3, <1>11 DEF UpdateDebugLog, Accept, Refuse, NoRunBuffer, Poll, StopKernel, Over, WaitForKernelStop, Destroy,
           DestroyQt, DestroyFltk, DestroyStub, Destroyed, DestroyBase, shown, logs, kernelVars
<1>12. CASE ShowText
    <2>1. PICK event \in Range(queue) \ {Ready, Disable} :
              Delivers(event) /\ display' = Append(display, event)
        BY <1>12 DEF ShowText
    <2>2. /\ queue # <<>> /\ Head(queue) = event /\ queue' = Tail(queue)
          /\ event \in Lines
        BY <1>a, <2>1 DEF Delivers, Range, Events
    <2>3. UNCHANGED <<printed, kernel, current>>
        BY <1>12 DEF ShowText, logs, kernelVars
    <2>4. /\ \A k : HasOutput(queue, k) <=> HasOutput(queue', k) \/ (IsOutput(event) /\ event[2] = k)
          /\ OneOutput(queue')
          /\ IsOutput(event) => ~HasOutput(queue', event[2])
        BY <1>a, <1>2, <2>2, OutputTaken
    <2>5. IsOutput(event) => event[2] \in Code \cup {File}
        <3>1. event \in ({"code", "failed"} \cup Outputs) \X (Code \cup {File})
                  \/ event \in {Notice, Saved, NotSaved, Chosen}
            BY <2>2 DEF Lines
        <3> QED
            BY <3>1, EventParts
    <2>6. IsOutput(event) => ~HasOutput(display, event[2])
        BY <2>4, <2>5 DEF OutputApart
    <2>7. /\ \A k : HasOutput(display', k) <=> HasOutput(display, k) \/ (IsOutput(event) /\ event[2] = k)
          /\ OneOutput(display')
        <3>1. \A k : HasOutput(Append(display, event), k) <=>
                         HasOutput(display, k) \/ (IsOutput(event) /\ event[2] = k)
            BY <1>a, <2>2, OutputAppended
        <3>2. OneOutput(Append(display, event))
            BY <1>a, <1>2, <2>2, <2>6, OutputAppended
        <3> QED
            BY <2>1, <3>1, <3>2
    <2>8. \A k \in Code \cup {File} : HasOutput(queue', k) \/ HasOutput(display', k) => k \in printed'
        BY <2>3, <2>4, <2>7 DEF OutputApart
    <2>9. \A k \in Code \cup {File} : ~(HasOutput(queue', k) /\ HasOutput(display', k))
        BY <2>4, <2>7 DEF OutputApart
    <2>10. Writing' => /\ current' \in printed'
                       /\ ~HasOutput(queue', current') /\ ~HasOutput(display', current')
        BY <2>3, <2>4, <2>7 DEF OutputApart, Writing
    <2> QED
        BY <2>4, <2>7, <2>8, <2>9, <2>10 DEF OutputApart
<1>13. CASE DisableGUI \/ ConsoleReady
    <2>1. PICK event \in {Disable, Ready} : Delivers(event)
        BY <1>13 DEF DisableGUI, ConsoleReady
    <2>2. queue # <<>> /\ Head(queue) = event /\ queue' = Tail(queue)
        BY <2>1 DEF Delivers
    <2>3. ~IsOutput(event)
        BY EventParts
    <2>4. OneOutput(queue') /\ \A k : HasOutput(queue', k) <=> HasOutput(queue, k)
        BY <1>a, <1>2, <2>2, <2>3, OutputTaken
    <2>5. UNCHANGED <<display, printed, kernel, current>>
        BY <1>13 DEF DisableGUI, ConsoleReady, logs, kernelVars
    <2> QED
        BY <1>1, <1>2, <2>4, <2>5 DEF Writing
<1>14. CASE Echo
    <2>1. /\ UNCHANGED <<queue, printed, kernel, current>>
          /\ display' = Append(display, Echoed)
        BY <1>14 DEF Echo, logs, kernelVars
    <2>2. Echoed \in Lines
        BY <1>14, LineTypes, CodeNumbers DEF Echo, Echoing, Echoed, CodeTypes
    <2>3. ~IsOutput(Echoed)
        <3>1. "code" \notin Outputs /\ "failed" \notin Outputs
            BY DEF Outputs
        <3> QED
            BY <3>1, EventParts DEF Echoed
    <2> QED
        BY <1>1, <1>2, <1>5, <2>1, <2>2, <2>3 DEF Writing
<1>15. CASE InitScene \/ DisableFltk \/ DisableStub \/ InitSceneFails
    <2>1. UNCHANGED <<queue, display, printed, current>> /\ kernel' \notin Outputs
        BY <1>15 DEF InitScene, DisableFltk, DisableStub, DisableNothing, InitSceneFails, KernelGoes,
                     shown, logs, Outputs
    <2> QED
        BY <1>1, <1>2, <2>1 DEF Writing
<1>16. CASE DisableNotice \/ DisableSignal
    <2>1. /\ UNCHANGED <<display, printed, current>> /\ kernel' \notin Outputs
          /\ \E event \in {Notice, Disable} :
                 queue' = queue \o <<event>> \/ queue' = queue \o <<>>
        BY <1>16 DEF DisableNotice, DisableSignal, KernelGoes, Queued, logs, Outputs
    <2>2. PICK event \in {Notice, Disable} : queue' = Append(queue, event) \/ queue' = queue
        BY <1>a, <1>b, <2>1, AppendIsConcat, ConcatEmptySeq
    <2>3. ~IsOutput(event) /\ event \in Events
        BY <1>b, EventParts
    <2>4. OneOutput(queue') /\ \A k : HasOutput(queue', k) <=> HasOutput(queue, k)
        BY <1>2, <1>4, <2>2, <2>3
    <2> QED
        BY <1>1, <1>2, <2>1, <2>4 DEF Writing
<1>17. CASE RunChunk \/ ChunkSilent \/ ChunkEnds \/ KernelStops
    <2>1. UNCHANGED <<queue, display, printed>> /\ kernel' \notin Outputs
        BY <1>17 DEF RunChunk, ChunkSilent, ChunkEnds, KernelStops, KernelGoes, shown, logs, Outputs
    <2> QED
        BY <1>1, <1>2, <2>1 DEF Writing
<1>18. CASE ChunkPrints \/ ChunkFails
    <2>1. PICK what \in Outputs : Output(what)
        BY <1>18 DEF ChunkPrints, ChunkFails, Outputs
    <2> DEFINE line == Event(what, current)
    <2>2. /\ kernel = "chunk" /\ current' = current
          /\ kernel' = IF ready /\ kind = "fltk" THEN what ELSE "printed"
          /\ queue' = IF ready /\ kind = "qt" THEN queue \o Queued("text", line) ELSE queue
          /\ display' = IF ready /\ kind = "stub" THEN Append(display, line) ELSE display
          /\ printed' = printed \cup {current}
        BY <1>18, <2>1 DEF ChunkPrints, ChunkFails, Output, StubDisplays
    <2>3. /\ line \in Lines /\ line \in Events /\ line[2] = current
          /\ current \in Code \cup {File} /\ current \notin printed
        BY <1>b, <2>2, LineTypes, EventParts DEF CodeTypes, PlacesApart
    <2> HIDE DEF line
    <2>4. ~HasOutput(queue, current) /\ ~HasOutput(display, current)
        BY <2>3 DEF OutputApart
    <2>5. CASE queue' = queue /\ display' = display
        BY <2>2, <2>4, <2>5 DEF OutputApart
    <2>6. CASE kind = "qt" /\ queue' = Append(queue, line) /\ display' = display
        <3>1. /\ \A k : HasOutput(Append(queue, line), k) =>
                            HasOutput(queue, k) \/ current = k
              /\ OneOutput(Append(queue, line))
            BY <1>a, <1>2, <2>3, <2>4, OutputAppended
        <3>2. ~Writing'
            BY <2>2, <2>6 DEF Writing, Outputs
        <3> QED
            BY <2>2, <2>4, <2>6, <3>1, <3>2 DEF OutputApart
    <2>7. CASE kind = "stub" /\ queue' = queue /\ display' = Append(display, line)
        <3>1. /\ \A k : HasOutput(Append(display, line), k) =>
                            HasOutput(display, k) \/ current = k
              /\ OneOutput(Append(display, line))
            BY <1>a, <1>2, <2>3, <2>4, OutputAppended
        <3>2. ~Writing'
            BY <2>2, <2>7 DEF Writing, Outputs
        <3> QED
            BY <2>2, <2>4, <2>7, <3>1, <3>2 DEF OutputApart
    <2>8. queue \o Queued("text", line) \in {queue, Append(queue, line)}
        BY <1>a, <2>3, AppendIsConcat, ConcatEmptySeq DEF Queued
    <2> QED
        BY <2>2, <2>5, <2>6, <2>7, <2>8
<1>19. CASE Written
    <2>1. /\ UNCHANGED <<queue, printed, current>>
          /\ Writing /\ kernel' = "printed" /\ display' = Append(display, Event(kernel, current))
        BY <1>19 DEF Written, logs
    <2> DEFINE line == Event(kernel, current)
    <2>2. /\ line \in Lines /\ line[2] = current /\ current \in Code \cup {File}
        BY <2>1, LineTypes, EventParts DEF CodeTypes, Writing
    <2> HIDE DEF line
    <2>3. ~HasOutput(queue, current) /\ ~HasOutput(display, current)
        BY <2>1 DEF OutputApart
    <2>4. /\ \A k : HasOutput(Append(display, line), k) => HasOutput(display, k) \/ current = k
          /\ OneOutput(Append(display, line))
        BY <1>a, <1>2, <2>2, <2>3, OutputAppended
    <2>5. display' = Append(display, line)
        BY <2>1 DEF line
    <2>6. ~Writing'
        BY <2>1 DEF Writing, Outputs
    <2>7. current \in printed
        BY <2>1 DEF OutputApart
    <2> QED
        BY <2>1, <2>2, <2>3, <2>4, <2>5, <2>6, <2>7 DEF OutputApart
<1>20. CASE UNCHANGED vars
    BY <1>3, <1>20 DEF vars, shown, logs, kernelVars
<1> QED
    BY <1>6, <1>7, <1>8, <1>9, <1>10, <1>11, <1>12, <1>13, <1>14, <1>15, <1>16, <1>17, <1>18, <1>19,
       <1>20 DEF Next, Start, Dispatch
\* A piece of code runs at most once.
THEOREM RunsOnceCorrect == Spec => []RunsOnce
<1>1. PlacesApart /\ OutputApart => RunsOnce
    BY DEF PlacesApart, OutputApart, OneOutput, RunsOnce
<1>2. Spec => [](PlacesApart /\ OutputApart)
    <2>1. Spec => []CodeTypes
        BY TypeInit, TypeParts, CodeStep, PTL DEF Spec
    <2>2. Spec => []TextTypes
        BY <2>1, TypeInit, TypeParts, TextStep, PTL DEF Spec
    <2> QED
        BY <2>1, <2>2, PlacesInit, PlacesStep, OutputInit, OutputStep, PTL DEF Spec
<1> QED
    BY <1>1, <1>2, PTL

LEMMA KeptStep == CodeTypes /\ TextTypes /\ CodeKept /\ [Next]_vars => CodeKept'
<1> SUFFICES ASSUME CodeTypes, TextTypes, CodeKept, [Next]_vars PROVE CodeKept'
    OBVIOUS
<1> DEFINE Shown(k) == {Event("code", k), Event("failed", k)} \cap Range(display) # {}
<1>a. display \in Seq(Lines)
    BY DEF TextTypes
<1>b. written \in Nat /\ None = 0
    BY ConsoleAssumption DEF CodeTypes, None
<1>1. ASSUME written' = written, Range(display) \subseteq Range(display'),
             \A k \in 1..written : k \in {input, adding} => k \in {input', adding'} \/ Shown(k)'
      PROVE  CodeKept'
    BY <1>1 DEF CodeKept
<1>2. CASE UNCHANGED <<input, adding, written>> /\ Range(display) \subseteq Range(display')
    BY <1>1, <1>2
<1>3. \A line \in Lines : Range(Append(display, line)) = Range(display) \cup {line}
    BY <1>a, QueueGrows
<1>4. CASE UNCHANGED <<code, display>>
    BY <1>2, <1>4 DEF code
<1>5. CASE Construct \/ Start
    BY <1>4, <1>5 DEF Construct, ConstructBase, ConstructQt, ConstructFltk, ConstructStub, Constructed,
           Start, StartKernel, ReportFailure, FltkGetsReady, StubGetsReady, ConnectText,
           ConnectDisable, shown
<1>6. CASE Write \/ DropFiles
    <2>1. /\ input = None /\ written' = written + 1 /\ input' = written'
          /\ UNCHANGED <<adding, display>>
        BY <1>6 DEF Write, DropFiles, NewInput, shown
    <2>2. \A k \in 1..written' : k \in 1..written \/ k = input'
        BY <1>b, <2>1
    <2>3. \A k \in 1..written : k # input
        BY <1>b, <2>1
    <2> QED
        BY <2>1, <2>2, <2>3 DEF CodeKept
<1>7. CASE ClickRun
    <2>1. /\ adding = None /\ adding' = input /\ UNCHANGED <<written, display>>
        BY <1>7 DEF ClickRun, Goes, CodeTypes, shown
    <2>2. \A k \in 1..written : k # adding
        BY <1>b, <2>1
    <2> QED
        BY <1>1, <2>1, <2>2
<1>8. CASE OpenFile \/ LoadAddlJconf \/ ChooseAndRunFile
    <2>1. /\ adding = None /\ written' = written + 1 /\ adding' = written'
          /\ UNCHANGED <<input, display>>
        BY <1>8 DEF OpenFile, LoadAddlJconf, ChooseAndRunFile, FileChosen, Goes, CodeTypes, shown
    <2>2. \A k \in 1..written' : k \in 1..written \/ k = adding'
        BY <1>b, <2>1
    <2>3. \A k \in 1..written : k # adding
        BY <1>b, <2>1
    <2> QED
        BY <2>1, <2>2, <2>3 DEF CodeKept
<1>9. CASE SaveQt \/ SaveFltk
    BY <1>2, <1>9 DEF SaveQt, SaveFltk, shown
<1>10. CASE CloseQt \/ CloseFltk \/ Poll \/ StopKernel \/ WaitForKernelStop \/ UpdateDebugLog
    BY <1>4, <1>10 DEF CloseQt, CloseFltk, Poll, StopKernel, Over, WaitForKernelStop, UpdateDebugLog, shown
<1>11. CASE ShowText
    <2>1. PICK event \in Range(queue) \ {Ready, Disable} : display' = Append(display, event)
        BY <1>11 DEF ShowText
    <2>2. event \in Lines
        BY <2>1 DEF TextTypes, Range
    <2> QED
        BY <1>2, <1>3, <1>11, <2>1, <2>2 DEF ShowText, code
<1>12. CASE DisableGUI \/ ConsoleReady \/ Accept \/ Refuse \/ NoRunBuffer
    BY <1>4, <1>12 DEF DisableGUI, ConsoleReady, Accept, Refuse, NoRunBuffer, shown
<1>13. CASE Echo
    <2>1. Echoed \in Lines
        BY <1>13, LineTypes, CodeNumbers DEF Echo, Echoing, Echoed, CodeTypes
    <2>2. /\ Range(display') = Range(display) \cup {Echoed} /\ written' = written
          /\ input' = IF main = "echoCode" /\ adding = input THEN None ELSE input
          /\ adding' = IF main = "echoChosen" THEN adding ELSE None
          /\ main \in {"echoCode", "echoFailed", "echoSaved", "echoNotSaved", "echoChosen"}
        BY <1>3, <1>13, <2>1 DEF Echo, Echoing
    <2>3. CASE main \in {"echoCode", "echoFailed"}
        <3>1. \A k \in 1..written : k = adding => Shown(k)'
            BY <2>2, <2>3 DEF Echoed
        <3>2. \A k \in 1..written : k = adding \/ k = input => k = input' \/ k = adding
            BY <2>2
        <3> QED
            BY <1>1, <2>2, <3>1, <3>2
    <2>4. CASE main \in {"echoSaved", "echoNotSaved"}
        <3>1. adding = None /\ input' = input
            BY <2>2, <2>4 DEF CodeTypes
        <3>2. \A k \in 1..written : k # adding
            BY <1>b, <3>1
        <3> QED
            BY <1>1, <2>2, <3>1, <3>2
    <2>5. CASE main = "echoChosen"
        BY <1>2, <2>2, <2>5
    <2> QED
        BY <2>2, <2>3, <2>4, <2>5
<1>14. CASE Destroy
    BY <1>4, <1>14 DEF Destroy, DestroyQt, DestroyFltk, DestroyStub, Destroyed, DestroyBase, shown
<1>15. CASE InitScene \/ DisableNotice \/ DisableSignal \/ DisableFltk \/ DisableStub \/ InitSceneFails
    BY <1>4, <1>15 DEF InitScene, DisableNotice, DisableSignal, DisableFltk, DisableStub,
           DisableNothing, InitSceneFails, shown
<1>16. CASE RunChunk \/ ChunkSilent \/ ChunkEnds \/ KernelStops
    BY <1>4, <1>16 DEF RunChunk, ChunkSilent, ChunkEnds, KernelStops, shown
<1>17. CASE ChunkPrints \/ ChunkFails
    <2>1. PICK what \in Outputs : Output(what)
        BY <1>17 DEF ChunkPrints, ChunkFails, Outputs
    <2>2. Event(what, current) \in Lines
        BY <2>1, LineTypes DEF Output, CodeTypes
    <2>3. display' = display \/ display' = Append(display, Event(what, current))
        BY <2>1 DEF Output, StubDisplays
    <2>4. Range(display) \subseteq Range(display')
        BY <1>3, <2>2, <2>3
    <2> QED
        BY <1>2, <1>17, <2>4 DEF ChunkPrints, ChunkFails, code
<1>18. CASE Written
    <2>1. Event(kernel, current) \in Lines
        BY <1>18, LineTypes DEF Written, Writing, CodeTypes
    <2> QED
        BY <1>2, <1>3, <1>18, <2>1 DEF Written, code
<1>19. CASE UNCHANGED vars
    BY <1>4, <1>19 DEF vars, shown
<1> QED
    BY <1>5, <1>6, <1>7, <1>8, <1>9, <1>10, <1>11, <1>12, <1>13, <1>14, <1>15, <1>16, <1>17, <1>18,
       <1>19 DEF Next, User, Dispatch

\* A piece of code is never lost and runs at most once: it is in the input, on
\* its way to the run buffer, or shown, and no second try makes it run again.
THEOREM CodeCorrect == Spec => []CodeRunsOnce
<1>1. Init => CodeKept
    BY DEF Init, CodeKept
<1>2. Spec => []CodeKept
    <2>1. TypeOK => CodeTypes /\ TextTypes
        BY TypeParts
    <2> QED
        BY <1>1, <2>1, ConsoleTypeCorrect, KeptStep, PTL DEF Spec
<1>3. RunsOnce /\ CodeKept => CodeRunsOnce
    BY DEF CodeRunsOnce
<1> QED
    BY <1>2, <1>3, RunsOnceCorrect, PTL
-----------------------------------------------------------------------------
(* The display can be relied on.                                            *)

\* Every piece of output comes after the code it belongs to.
CodeFirst(lines) ==
    \A j \in DOMAIN lines :
        IsOutput(lines[j]) /\ lines[j][2] # File =>
            \E i \in 1..(j - 1) : lines[i] = Event("code", lines[j][2])

LEMMA CodeFirstKept ==
    ASSUME NEW d \in Seq(Lines), NEW line \in Lines, CodeFirst(d),
           IsOutput(line) /\ line[2] # File => Event("code", line[2]) \in Range(d)
    PROVE  CodeFirst(Append(d, line))
<1> DEFINE r == Append(d, line)
<1> DEFINE n == Len(d)
<1>1. /\ n \in Nat
      /\ DOMAIN d = 1..n /\ DOMAIN r = 1..(n + 1)
      /\ \A i \in 1..n : r[i] = d[i]
      /\ r[n + 1] = line
    BY AppendProperties
<1>2. \A j \in 1..(n + 1) : j \in 1..n \/ j = n + 1
    BY <1>1
<1>3. \A j \in 1..n : \A i \in 1..(j - 1) : i \in 1..n
    BY <1>1
<1>4. (n + 1) - 1 = n
    BY <1>1
<1> HIDE DEF r, n
<1>5. ASSUME NEW j \in 1..(n + 1), IsOutput(r[j]) /\ r[j][2] # File
      PROVE  \E i \in 1..(j - 1) : r[i] = Event("code", r[j][2])
    <2>1. CASE j \in 1..n
        <3>1. r[j] = d[j] /\ IsOutput(d[j]) /\ d[j][2] # File
            BY <1>1, <1>5, <2>1
        <3>2. PICK i \in 1..(j - 1) : d[i] = Event("code", d[j][2])
            BY <1>1, <2>1, <3>1 DEF CodeFirst
        <3>3. r[i] = d[i]
            BY <1>1, <1>3, <2>1
        <3> QED
            BY <3>1, <3>2, <3>3
    <2>2. CASE j = n + 1
        <3>1. PICK i \in 1..n : d[i] = Event("code", line[2])
            BY <1>1, <1>5, <2>2 DEF Range
        <3>2. r[i] = Event("code", r[j][2])
            BY <1>1, <2>2, <3>1
        <3>3. i \in 1..(j - 1)
            BY <1>4, <2>2
        <3> QED
            BY <3>2, <3>3
    <2> QED
        BY <1>2, <2>1, <2>2
<1> QED
    BY <1>1, <1>5 DEF CodeFirst, r

LEMMA HasOutputInRange ==
    ASSUME NEW S, NEW q \in Seq(S), NEW event \in Range(q), IsOutput(event)
    PROVE  HasOutput(q, event[2])
BY DEF HasOutput, Range

DisplayInv == EchoIsDue /\ EchoBeforeOutput /\ SlotBeforeReady /\ PrintKept

LEMMA DisplayInit == Init => DisplayInv
<1> SUFFICES ASSUME Init PROVE DisplayInv
    OBVIOUS
<1>1. /\ kind \in {"qt", "fltk", "stub"} /\ main = "construct" /\ queue = <<>> /\ display = <<>>
      /\ ready = FALSE /\ current = None /\ printed = {}
    BY DEF Init
<1>2. Range(<<>>) = {} /\ DOMAIN <<>> = {}
    BY DEF Range
<1>3. \A k \in Code : k \notin Range(buf) /\ k # None
    <2>1. \A k \in Code : k # File /\ k # None
        BY ConsoleAssumption DEF Code, File, None
    <2>2. Range(<<File>>) = {File}
        BY DEF Range
    <2> QED
        BY <1>2, <2>1, <2>2 DEF Init
<1> QED
    BY <1>1, <1>2, <1>3 DEF DisplayInv, EchoIsDue, EchoBeforeOutput, SlotBeforeReady, PrintKept, HasOutput

LEMMA DisplayStep ==
    ControlInv /\ PlaceTypes /\ CodeTypes /\ TextTypes /\ DisplayInv /\ [Next]_vars => DisplayInv'
<1> SUFFICES ASSUME ControlInv, PlaceTypes, CodeTypes, TextTypes, DisplayInv, [Next]_vars PROVE DisplayInv'
    OBVIOUS
<1> DEFINE Events == Lines \cup {Disable, Ready}
<1> DEFINE InQueueOrShown(k) == {Event("print", k), Event("error", k)} \cap (Range(queue) \cup Range(display)) # {}
<1>a. queue \in Seq(Events) /\ display \in Seq(Lines) /\ buf \in Seq(Code \cup {File})
    BY DEF TextTypes, CodeTypes
<1>b. /\ {Ready, Disable, Notice} \subseteq Events /\ {Notice, Saved, NotSaved, Chosen} \subseteq Lines
      /\ Lines \subseteq Events
    BY LineTypes
<1>c. \A line \in Lines : Range(Append(display, line)) = Range(display) \cup {line}
    BY <1>a, QueueGrows
<1> HIDE DEF Events
<1>d. \A event \in Events : Range(Append(queue, event)) = Range(queue) \cup {event}
    BY <1>a, QueueGrows
<1>e. \A event \in Events : \A k :
          HasOutput(Append(queue, event), k) <=> HasOutput(queue, k) \/ (IsOutput(event) /\ event[2] = k)
    BY <1>a, OutputAppended
<1>f. queue # <<>> =>
          /\ Range(queue) = Range(Tail(queue)) \cup {Head(queue)}
          /\ \A k : HasOutput(Tail(queue), k) => HasOutput(queue, k)
    BY <1>a, QueueShrinks, OutputTaken
<1>g. \A signal : \A event \in Events : queue \o Queued(signal, event) =
          IF signal \in connected THEN Append(queue, event) ELSE queue
    BY <1>a, AppendIsConcat, ConcatEmptySeq DEF Queued
<1>h. EchoIsDue /\ EchoBeforeOutput /\ SlotBeforeReady /\ PrintKept
    BY DEF DisplayInv
<1>1. ASSUME kind' = kind, main' # "exited" => main # "exited",
             kind = "qt" => Range(display) \subseteq Range(display'),
             kind = "qt" => \A k \in Code :
                 k \in Range(buf') \/ k = current' \/ HasOutput(queue', k) =>
                     k \in Range(buf) \/ k = current \/ HasOutput(queue, k),
             main = "echoCode" /\ main' # "exited" => main' = main /\ adding' = adding
      PROVE  EchoIsDue'
    BY <1>1, <1>h DEF EchoIsDue, CodeShown
<1>2. ASSUME kind' = kind, CodeFirst(display) /\ kind = "qt" => CodeFirst(display')
      PROVE  EchoBeforeOutput'
    BY <1>2, <1>h DEF EchoBeforeOutput, CodeFirst
<1>3. ASSUME kind' = kind, connected \subseteq connected',
             kind = "qt" /\ ready' => ready \/ Ready \in Range(queue),
             Ready \in Range(queue') => Ready \in Range(queue) \/ main = "connectDisable",
             main' = "connectDisable" => main = "connectDisable" \/ "text" \in connected'
      PROVE  SlotBeforeReady'
    BY <1>3, <1>h DEF SlotBeforeReady
<1>4. ASSUME printed' = printed, stdout' = stdout,
             \A k : InQueueOrShown(k) => InQueueOrShown(k)',
             \A k : Writing /\ current = k => InQueueOrShown(k)' \/ (Writing /\ current = k)'
      PROVE  PrintKept'
    BY <1>4, <1>h DEF PrintKept
<1>5. ASSUME UNCHANGED <<kind, display, queue, stdout, printed, buf, current>>,
             connected \subseteq connected', kind = "qt" /\ ready' => ready,
             main' = "connectDisable" => main = "connectDisable" \/ "text" \in connected',
             \/ main' \in {main, "exited"}
             \/ main \notin {"echoCode", "exited"} /\ main' \notin {"echoCode", "exited"},
             main = "echoCode" => adding' = adding,
             Writing => kernel' = kernel
      PROVE  DisplayInv'
    <2>1. EchoIsDue'
        BY <1>1, <1>5
    <2>2. EchoBeforeOutput'
        BY <1>2, <1>5
    <2>3. SlotBeforeReady'
        BY <1>3, <1>5
    <2>4. PrintKept'
        BY <1>4, <1>5 DEF Writing
    <2> QED
        BY <2>1, <2>2, <2>3, <2>4 DEF DisplayInv
<1>6. CASE Construct
    BY <1>5, <1>6 DEF Construct, ConstructBase, ConstructQt, ConstructFltk, ConstructStub, Constructed,
           Goes, static, shown, logs, kernelVars
<1>7. CASE StartKernel \/ ReportFailure
    BY <1>5, <1>7 DEF StartKernel, ReportFailure, Goes, ControlInv, Writing, Outputs, static, gui,
           shown, logs, kernelVars
<1>8. CASE FltkGetsReady \/ StubGetsReady \/ ConnectText
    BY <1>5, <1>8 DEF FltkGetsReady, StubGetsReady, ConnectText, Goes, static, shown, logs, kernelVars
<1>9. CASE ConnectDisable
    <2>1. /\ UNCHANGED <<kind, ready, display, stdout, printed, buf, current, kernel>>
          /\ connected \subseteq connected' /\ main = "connectDisable" /\ main' = "exec"
          /\ queue' = Append(queue, Ready)
        BY <1>9 DEF ConnectDisable, Goes, static, logs, kernelVars
    <2>2. /\ Range(queue') = Range(queue) \cup {Ready}
          /\ \A k : HasOutput(queue', k) <=> HasOutput(queue, k)
        BY <1>b, <1>d, <1>e, <2>1, EventParts
    <2>3. EchoIsDue'
        BY <1>1, <2>1, <2>2
    <2>4. EchoBeforeOutput'
        BY <1>2, <2>1
    <2>5. SlotBeforeReady'
        BY <1>3, <2>1
    <2>6. PrintKept'
        BY <1>4, <2>1, <2>2 DEF Writing
    <2> QED
        BY <2>3, <2>4, <2>5, <2>6 DEF DisplayInv
<1>10. CASE User
    BY <1>5, <1>10 DEF User, Write, DropFiles, NewInput, ClickRun, OpenFile, LoadAddlJconf,
           ChooseAndRunFile, FileChosen, SaveQt, SaveFltk, CloseQt, CloseFltk, Goes, static, gui,
           shown, logs, kernelVars
<1>11. CASE UpdateDebugLog \/ Refuse \/ NoRunBuffer \/ Poll \/ StopKernel \/ WaitForKernelStop
    BY <1>5, <1>11 DEF UpdateDebugLog, Refuse, NoRunBuffer, Poll, StopKernel, Over, WaitForKernelStop, Goes, static, gui,
           shown, logs, kernelVars
<1>12. CASE Destroy
    BY <1>5, <1>12 DEF Destroy, DestroyQt, DestroyFltk, DestroyStub, Destroyed, DestroyBase, Goes,
           static, shown, logs, kernelVars
<1>13. CASE ShowText
    <2>1. PICK event \in Range(queue) \ {Ready, Disable} :
              Delivers(event) /\ display' = Append(display, event)
        BY <1>13 DEF ShowText
    <2>2. /\ queue # <<>> /\ Head(queue) = event /\ queue' = Tail(queue) /\ main = "exec"
          /\ event \in Lines
        BY <1>a, <2>1 DEF Delivers, Range, Events
    <2>3. UNCHANGED <<kind, ready, connected, main, stdout, printed, buf, kernel, current>>
        BY <1>13 DEF ShowText, static, gui, logs, kernelVars
    <2>4. /\ Range(queue) = Range(queue') \cup {event}
          /\ Range(display') = Range(display) \cup {event}
          /\ \A k : HasOutput(queue', k) => HasOutput(queue, k)
        BY <1>c, <1>f, <2>1, <2>2
    <2>5. EchoIsDue'
        BY <1>1, <2>2, <2>3, <2>4
    <2>6. EchoBeforeOutput'
        <3>1. IsOutput(event) /\ event[2] # File => event[2] \in Code
            <4>1. event \in ({"code", "failed"} \cup Outputs) \X (Code \cup {File})
                      \/ event \in {Notice, Saved, NotSaved, Chosen}
                BY <2>2 DEF Lines
            <4> QED
                BY <4>1, EventParts
        <3>2. IsOutput(event) => HasOutput(queue, event[2])
            BY <1>a, <2>1, HasOutputInRange
        <3>3. kind = "qt" /\ IsOutput(event) /\ event[2] # File => Event("code", event[2]) \in Range(display)
            BY <1>h, <2>2, <3>1, <3>2 DEF EchoIsDue, CodeShown
        <3>4. kind = "qt" /\ CodeFirst(display) => CodeFirst(Append(display, event))
            BY <1>a, <2>2, <3>3, CodeFirstKept
        <3> QED
            BY <1>2, <2>1, <2>3, <3>4
    <2>7. SlotBeforeReady'
        BY <1>3, <2>2, <2>3, <2>4
    <2>8. PrintKept'
        BY <1>4, <2>3, <2>4 DEF Writing
    <2> QED
        BY <2>5, <2>6, <2>7, <2>8 DEF DisplayInv
<1>14. CASE DisableGUI \/ ConsoleReady
    <2>1. PICK event \in {Disable, Ready} : Delivers(event) /\ (ready' = ready \/ event = Ready)
        BY <1>14 DEF DisableGUI, ConsoleReady
    <2>2. queue # <<>> /\ Head(queue) = event /\ queue' = Tail(queue) /\ main = "exec"
        BY <2>1 DEF Delivers
    <2>3. UNCHANGED <<kind, connected, main, display, stdout, printed, buf, kernel, current>>
        BY <1>14 DEF DisableGUI, ConsoleReady, static, logs, kernelVars
    <2>4. /\ Range(queue) = Range(queue') \cup {event}
          /\ \A k : HasOutput(queue', k) => HasOutput(queue, k)
        BY <1>f, <2>2
    <2>5. EchoIsDue'
        BY <1>1, <2>2, <2>3, <2>4
    <2>6. EchoBeforeOutput'
        BY <1>2, <2>3
    <2>7. SlotBeforeReady'
        BY <1>3, <2>1, <2>2, <2>3, <2>4
    <2>8. PrintKept'
        <3>1. \A k : event \notin {Event("print", k), Event("error", k)}
            BY EventParts DEF Outputs
        <3> QED
            BY <1>4, <2>3, <2>4, <3>1 DEF Writing
    <2> QED
        BY <2>5, <2>6, <2>7, <2>8 DEF DisplayInv
<1>15. CASE Accept
    <2>1. /\ UNCHANGED <<kind, ready, connected, adding, queue, display, stdout, printed, kernel, current>>
          /\ main = "adding" /\ main' = "echoCode" /\ buf' \in {buf, Append(buf, adding)}
          /\ adding \in Code
        BY <1>15 DEF Accept, Goes, CodeTypes, static, gui, code, shown, logs, kernelVars
    <2>2. Range(Append(buf, adding)) = Range(buf) \cup {adding}
        BY <1>a, <2>1, QueueGrows
    <2>3. Range(buf') \subseteq Range(buf) \cup {adding}
        BY <2>1, <2>2
    <2>4. EchoIsDue'
        BY <1>h, <2>1, <2>3 DEF EchoIsDue, CodeShown
    <2>5. EchoBeforeOutput'
        BY <1>2, <2>1
    <2>6. SlotBeforeReady'
        BY <1>3, <2>1
    <2>7. PrintKept'
        BY <1>4, <2>1 DEF Writing
    <2> QED
        BY <2>4, <2>5, <2>6, <2>7 DEF DisplayInv
<1>16. CASE Echo
    <2>1. /\ UNCHANGED <<kind, ready, connected, queue, stdout, printed, buf, kernel, current>>
          /\ display' = Append(display, Echoed)
          /\ main' \in {"adding", "exec"}
          /\ main \in {"echoCode", "echoFailed", "echoSaved", "echoNotSaved", "echoChosen"}
        BY <1>16 DEF Echo, Echoing, static, gui, logs, kernelVars
    <2>2. Echoed \in Lines
        BY <1>16, LineTypes, CodeNumbers DEF Echo, Echoing, Echoed, CodeTypes
    <2>3. ~IsOutput(Echoed)
        <3>1. "code" \notin Outputs /\ "failed" \notin Outputs
            BY DEF Outputs
        <3> QED
            BY <3>1, EventParts DEF Echoed
    <2>4. Range(display') = Range(display) \cup {Echoed}
        BY <1>c, <2>1, <2>2
    <2>5. main = "echoCode" => Echoed = Event("code", adding)
        BY DEF Echoed
    <2>6. EchoIsDue'
        BY <1>h, <2>1, <2>4, <2>5 DEF EchoIsDue, CodeShown
    <2>7. EchoBeforeOutput'
        BY <1>2, <1>a, <2>1, <2>2, <2>3, CodeFirstKept
    <2>8. SlotBeforeReady'
        BY <1>3, <2>1
    <2>9. PrintKept'
        BY <1>4, <2>1, <2>4 DEF Writing
    <2> QED
        BY <2>6, <2>7, <2>8, <2>9 DEF DisplayInv
<1>17. CASE InitScene \/ DisableFltk \/ DisableStub \/ InitSceneFails
    BY <1>5, <1>17 DEF InitScene, DisableFltk, DisableStub, DisableNothing, InitSceneFails, KernelGoes,
           Writing, Outputs, static, gui, code, shown, logs
<1>18. CASE DisableNotice \/ DisableSignal
    <2>1. /\ UNCHANGED <<kind, ready, connected, main, adding, display, stdout, printed, buf, current>>
          /\ ~Writing
          /\ \E event \in {Notice, Disable}, signal \in {"text", "disable"} :
                 queue' = queue \o Queued(signal, event)
        BY <1>18 DEF DisableNotice, DisableSignal, KernelGoes, Writing, Outputs, static, gui, code, logs
    <2>2. PICK event \in {Notice, Disable} : queue' = Append(queue, event) \/ queue' = queue
        BY <1>b, <1>g, <2>1
    <2>3. ~IsOutput(event) /\ event \in Events /\ event # Ready
        <3>1. Notice[1] # Ready[1] /\ Disable[1] # Ready[1]
            BY EventParts DEF Notice, Ready, Disable
        <3> QED
            BY <1>b, <3>1, EventParts
    <2>4. /\ Range(queue) \subseteq Range(queue')
          /\ Ready \in Range(queue') => Ready \in Range(queue)
          /\ \A k : HasOutput(queue', k) <=> HasOutput(queue, k)
        BY <1>d, <1>e, <2>2, <2>3
    <2>5. EchoIsDue'
        BY <1>1, <2>1, <2>4
    <2>6. EchoBeforeOutput'
        BY <1>2, <2>1
    <2>7. SlotBeforeReady'
        BY <1>3, <2>1, <2>4
    <2>8. PrintKept'
        BY <1>4, <2>1, <2>4
    <2> QED
        BY <2>5, <2>6, <2>7, <2>8 DEF DisplayInv
<1>19. CASE RunChunk
    <2>1. /\ UNCHANGED <<kind, ready, connected, main, adding, queue, display, stdout, printed>>
          /\ ~Writing /\ buf # <<>> /\ current' = Head(buf) /\ buf' = Tail(buf)
        BY <1>19 DEF RunChunk, KernelGoes, Writing, Outputs, static, gui, code, shown, logs
    <2>2. Range(buf) = Range(Tail(buf)) \cup {Head(buf)}
        BY <1>a, <2>1, QueueShrinks
    <2>3. EchoIsDue'
        BY <1>1, <2>1, <2>2
    <2>4. EchoBeforeOutput'
        BY <1>2, <2>1
    <2>5. SlotBeforeReady'
        BY <1>3, <2>1
    <2>6. PrintKept'
        BY <1>4, <2>1
    <2> QED
        BY <2>3, <2>4, <2>5, <2>6 DEF DisplayInv
<1>20. CASE ChunkPrints \/ ChunkFails
    <2>1. PICK what \in Outputs : Output(what)
        BY <1>20 DEF ChunkPrints, ChunkFails, Outputs
    <2> DEFINE line == Event(what, current)
    <2>2. /\ UNCHANGED <<kind, ready, connected, main, adding, buf, current>>
          /\ kernel = "chunk"
          /\ kernel' = IF ready /\ kind = "fltk" THEN what ELSE "printed"
          /\ queue' = IF ready /\ kind = "qt" THEN queue \o Queued("text", line) ELSE queue
          /\ display' = IF ready /\ kind = "stub" THEN Append(display, line) ELSE display
          /\ stdout' = IF ready THEN stdout ELSE stdout \cup {current}
          /\ printed' = printed \cup {current}
        BY <1>20, <2>1 DEF ChunkPrints, ChunkFails, Output, StubDisplays, static, gui, code
    <2>3. /\ line \in Lines /\ line \in Events /\ line[2] = current
          /\ line \in {Event("print", current), Event("error", current)} /\ line # Ready
        <3>1. current \in Code \cup {File}
            BY <2>2 DEF CodeTypes
        <3>2. line[1] = what /\ Ready[1] = "ready" /\ "ready" \notin Outputs
            BY EventParts DEF Ready, Outputs
        <3> QED
            BY <1>b, <3>1, <3>2, LineTypes, EventParts DEF Outputs
    <2> HIDE DEF line
    <2>4. /\ queue \o Queued("text", line) =
                 IF "text" \in connected THEN Append(queue, line) ELSE queue
          /\ Range(Append(queue, line)) = Range(queue) \cup {line}
          /\ Range(Append(display, line)) = Range(display) \cup {line}
          /\ \A k : HasOutput(Append(queue, line), k) => HasOutput(queue, k) \/ k = current
        BY <1>c, <1>d, <1>e, <1>g, <2>3
    <2>5. /\ Range(queue) \subseteq Range(queue') /\ Range(display) \subseteq Range(display')
          /\ Ready \in Range(queue') => Ready \in Range(queue)
          /\ \A k : HasOutput(queue', k) => HasOutput(queue, k) \/ k = current
        <3>1. queue' \in {queue, Append(queue, line)} /\ display' \in {display, Append(display, line)}
            BY <2>2, <2>4
        <3>2. Range(queue') \in {Range(queue), Range(queue) \cup {line}}
            BY <2>4, <3>1
        <3>3. Range(display') \in {Range(display), Range(display) \cup {line}}
            BY <2>4, <3>1
        <3>4. \A k : HasOutput(queue', k) => HasOutput(queue, k) \/ k = current
            BY <2>4, <3>1
        <3> QED
            BY <2>3, <3>2, <3>3, <3>4
    <2>6. EchoIsDue'
        BY <1>1, <2>2, <2>5
    <2>7. EchoBeforeOutput'
        BY <1>2, <2>2
    <2>8. SlotBeforeReady'
        BY <1>3, <2>2, <2>5
    <2>9. PrintKept'
        <3>1. current \in stdout' \/ line \in Range(queue') \cup Range(display')
                  \/ (Writing' /\ current' = current)
            <4>1. CASE ~ready
                BY <2>2, <4>1
            <4>2. CASE ready /\ kind = "qt"
                <5>1. "text" \in connected
                    BY <1>h, <4>2 DEF SlotBeforeReady
                <5> QED
                    BY <2>2, <2>4, <4>2, <5>1
            <4>3. CASE ready /\ kind = "stub"
                BY <2>2, <2>4, <4>3
            <4>4. CASE ready /\ kind = "fltk"
                BY <2>1, <2>2, <4>4 DEF Writing
            <4>5. kind \in {"qt", "fltk", "stub"}
                BY DEF PlaceTypes
            <4> QED
                BY <4>1, <4>2, <4>3, <4>4, <4>5
        <3>2. ASSUME NEW k \in printed
              PROVE  k \in stdout' \/ InQueueOrShown(k)'
            <4>1. ~Writing
                BY <2>2 DEF Writing, Outputs
            <4>2. k \in stdout \/ InQueueOrShown(k)
                BY <1>h, <4>1 DEF PrintKept
            <4> QED
                BY <2>2, <2>5, <4>2
        <3> QED
            BY <2>2, <2>3, <3>1, <3>2 DEF PrintKept
    <2> QED
        BY <2>6, <2>7, <2>8, <2>9 DEF DisplayInv
<1>21. CASE Written
    <2>1. /\ UNCHANGED <<kind, ready, connected, main, adding, queue, stdout, printed, buf, current>>
          /\ Writing /\ display' = Append(display, Event(kernel, current)) /\ kind = "fltk"
        BY <1>21 DEF Written, static, gui, code, logs, ControlInv
    <2>2. /\ Event(kernel, current) \in Lines
          /\ Event(kernel, current) \in {Event("print", current), Event("error", current)}
        BY <2>1, LineTypes DEF CodeTypes, Writing, Outputs
    <2>3. Range(display') = Range(display) \cup {Event(kernel, current)}
        BY <1>c, <2>1, <2>2
    <2>4. EchoIsDue' /\ EchoBeforeOutput' /\ SlotBeforeReady'
        BY <2>1 DEF EchoIsDue, EchoBeforeOutput, SlotBeforeReady
    <2>5. PrintKept'
        BY <1>4, <2>1, <2>2, <2>3
    <2> QED
        BY <2>4, <2>5 DEF DisplayInv
<1>22. CASE ChunkEnds
    <2>1. /\ UNCHANGED <<kind, ready, connected, main, adding, queue, display, stdout, printed, buf>>
          /\ ~Writing /\ current' = None
        BY <1>22 DEF ChunkEnds, KernelGoes, Writing, Outputs, static, gui, code, shown, logs
    <2>2. EchoIsDue'
        BY <1>1, <2>1, CodeNumbers
    <2>3. EchoBeforeOutput'
        BY <1>2, <2>1
    <2>4. SlotBeforeReady'
        BY <1>3, <2>1
    <2>5. PrintKept'
        BY <1>4, <2>1
    <2> QED
        BY <2>2, <2>3, <2>4, <2>5 DEF DisplayInv
<1>23. CASE ChunkSilent \/ KernelStops
    BY <1>5, <1>23 DEF ChunkSilent, KernelStops, KernelGoes, Writing, Outputs, static, gui, code,
           shown, logs
<1>24. CASE UNCHANGED vars
    BY <1>5, <1>24 DEF vars, static, gui, code, shown, logs, kernelVars
<1> QED
    BY <1>6, <1>7, <1>8, <1>9, <1>10, <1>11, <1>12, <1>13, <1>14, <1>15, <1>16, <1>17, <1>18, <1>19,
       <1>20, <1>21, <1>22, <1>23, <1>24 DEF Next, Start, Dispatch

\* With Qt no output is shown before the code it comes from, and in no console is
\* output lost, whenever Lua's print is redirected.
THEOREM DisplayIsComplete == Spec => []DisplayComplete
<1>1. TypeOK => PlaceTypes /\ CodeTypes /\ TextTypes
    BY TypeParts
<1>2. Spec => []DisplayInv
    BY <1>1, ConsoleTypeCorrect, ControlInvariant, DisplayInit, DisplayStep, PTL DEF Spec
<1>3. DisplayInv => DisplayComplete
    BY DEF DisplayInv, DisplayComplete
<1> QED
    BY <1>2, <1>3, PTL
=============================================================================
