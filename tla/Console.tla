------------------------------- MODULE Console --------------------------------
(***************************************************************************)
(* The consoles (LuaConsole.cpp, QTConsole.cpp, QTCodeInput.cpp,           *)
(* FLTKConsole.cpp, and the StubConsole that has no window), started by    *)
(* QTNavMain.cpp and FLTKNavMain.cpp: the main thread constructs the       *)
(* console, starts the kernel thread, runs the event loop, and when the    *)
(* window is closed stops the kernel, waits for it and destroys the        *)
(* console.  The kernel thread runs the chunks, prints, and may ask for    *)
(* the console to be disabled.                                             *)
(*                                                                         *)
(* With Qt, a signal emitted on the kernel thread is queued for the event  *)
(* loop if its slot is connected, and lost otherwise.  With FLTK the       *)
(* kernel thread changes the display itself; the stub's is a log.          *)
(***************************************************************************)
EXTENDS Naturals, Sequences, SequencesExt

CONSTANTS
    MaxCode,    \* bound: pieces of code the user writes or chooses
    MaxTries    \* bound: times the user presses Run, chooses a file or saves

ASSUME ConsoleAssumption == {MaxCode, MaxTries} \subseteq Nat

VARIABLES
    kind,       \* "qt", "fltk" or "stub"
    local,      \* is this the primary node?
    loads,      \* can osgnav-testbed be loaded?
    terminal,   \* FALSE: built to show standard output in the debug log
    main,       \* where the main thread is
    console,    \* "none", "base" (s_console is set), "live", "dying", "gone"
    connected,  \* the signals that have a slot: "text" and "disable"
    ready,      \* consoleReady ran: Lua's print goes to the display
    enabled,    \* the input widgets are enabled
    input,      \* the piece of code in the input widget
    adding,     \* the piece of code addString is called with
    written,    \* pieces of code written or chosen
    tries,      \* uses of the run button, the file dialogs and save
    queue,      \* events queued for the main thread
    display,    \* the display, oldest line first
    torn,       \* two threads changed the display at the same time
    stdout,     \* the code whose output went to standard output
    debugLog,   \* what of it the debug log shows
    kernel,     \* where the kernel thread is
    stopAsked,  \* Kernel::stop() was called
    current,    \* the code the kernel thread runs
    buf,        \* the run buffer
    disabling,  \* history: disableAction was called "early", before the slots
                \* were connected, or "heard"; else "no"
    printed     \* history: the code that has printed

static == <<kind, local, loads, terminal>>
gui == <<connected, ready, enabled, console>>
code == <<input, adding, written, tries>>
logs == <<stdout, debugLog, printed>>
shown == <<queue, display, torn, logs>>
kernelVars == <<kernel, stopAsked, current>>
vars == <<static, main, gui, code, shown, kernelVars, buf, disabling>>

Code == 1..MaxCode
None == 0
File == MaxCode + 1     \* a Lua file from the command line, added without an echo

Event(line, k) == <<line, k>>
Disable == Event("disable", None)
Ready == Event("ready", None)
Notice == Event("notice", None)     \* "-- Disabling interaction console GUI ..."
Saved == Event("saved", None)       \* "-- code up to here saved to file ..."
NotSaved == Event("unsaved", None)  \* "-- Saving to chosen file failed"
Chosen == Event("chosen", None)     \* "-- Run file chosen in GUI"

Outputs == {"print", "error"}

\* The kernel thread adds a line to the display itself.
Writing == kernel \in Outputs

Init ==
    /\ kind \in {"qt", "fltk", "stub"}
    /\ local \in BOOLEAN
    /\ loads \in IF kind = "fltk" THEN {TRUE} ELSE BOOLEAN
    /\ terminal \in IF kind = "fltk" THEN {TRUE} ELSE BOOLEAN
    /\ main = "construct" /\ console = "none"
    /\ connected = {} /\ ready = FALSE /\ enabled = TRUE
    /\ input = None /\ adding = None /\ written = 0 /\ tries = 0
    /\ queue = <<>> /\ display = <<>> /\ torn = FALSE
    /\ stdout = {} /\ debugLog = {} /\ printed = {}
    /\ kernel = "off" /\ stopAsked = FALSE /\ current = None
    /\ buf \in IF local /\ loads THEN {<<>>, <<File>>} ELSE {<<>>}
    /\ disabling = "no"

-----------------------------------------------------------------------------
(* The main thread.                                                         *)

Goes(from, to) == main = from /\ main' = to

\* LuaConsole's constructor: from now on getConsole() is this console.
ConstructBase ==
    /\ main = "construct" /\ console = "none"
    /\ console' = "base"
    /\ UNCHANGED <<static, main, connected, ready, enabled, code, shown, kernelVars, buf, disabling>>

Constructed ==
    /\ console = "base"
    /\ Goes("construct", "start")
    /\ console' = "live"
    /\ UNCHANGED <<static, connected, ready, enabled, code, shown, kernelVars, buf, disabling>>

\* The constructor of QTConsole and its widgets.
ConstructQt == kind = "qt" /\ Constructed

\* FLTKConsole's view: two text buffers, shown at once.
ConstructFltk == kind = "fltk" /\ Constructed

\* StubConsole's constructor logs.
ConstructStub == kind = "stub" /\ Constructed

\* getRunBufFromLuaGlobal, then the kernel; FLTK's and the stub's loop redirect
\* Lua's print at once.
StartKernel ==
    /\ loads
    /\ Goes("start", IF kind = "qt" THEN "connectText" ELSE "ready")
    /\ kernel' = "initScene"
    /\ UNCHANGED <<static, gui, code, shown, stopAsked, current, buf, disabling>>

\* captureStdOut, captureStdErr, in Qt's main: standard output goes to the log, if
\* the console supports it.
LoggingActive == kind = "qt" /\ ~terminal

\* The main of QTNavMain.cpp without the testbed: it ends, or, built without a
\* terminal, shows two messages and calls disableAction and threadLoop first; what
\* is emitted before threadLoop connects the slots is lost.
ReportFailure ==
    /\ ~loads
    /\ Goes("start", IF terminal THEN "returning"
                     ELSE IF kind = "qt" THEN "connectText" ELSE "ready")
    /\ disabling' = IF terminal THEN disabling ELSE "early"
    /\ UNCHANGED <<static, gui, code, shown, kernelVars, buf>>

\* _consoleIsReady: Lua's print goes to the console.
ConsoleIsReady == ready' = TRUE

\* FLTK's loop begins.
FltkGetsReady ==
    /\ kind = "fltk" /\ Goes("ready", "exec")
    /\ ConsoleIsReady
    /\ UNCHANGED <<static, connected, enabled, console, code, shown, kernelVars, buf, disabling>>

\* The stub's is over at once.
StubGetsReady ==
    /\ kind = "stub" /\ Goes("ready", "wait")
    /\ ConsoleIsReady
    /\ UNCHANGED <<static, connected, enabled, console, code, shown, kernelVars, buf, disabling>>

\* Mutant of ConnectText: the signal is not connected.
MutConnectText ==
    /\ Goes("connectText", "connectDisable")
    /\ UNCHANGED <<static, gui, code, shown, kernelVars, buf, disabling>>

ConnectText ==
    /\ Goes("connectText", "connectDisable")
    /\ connected' = connected \cup {"text"}
    /\ UNCHANGED <<static, ready, enabled, console, code, shown, kernelVars, buf, disabling>>

\* Mutant of ConnectDisable: the signal is not connected.
MutConnectDisable ==
    /\ Goes("connectDisable", "exec")
    /\ queue' = Append(queue, Ready)
    /\ UNCHANGED <<static, gui, code, display, torn, logs, kernelVars, buf, disabling>>

\* ... and a single-shot timer for consoleReady, then the event loop.
ConnectDisable ==
    /\ Goes("connectDisable", "exec")
    /\ connected' = connected \cup {"disable"}
    /\ queue' = Append(queue, Ready)
    /\ UNCHANGED <<static, ready, enabled, console, code, display, torn, logs, kernelVars, buf, disabling>>

\* The event loop delivers one queued event.
Delivers(event) == main = "exec" /\ queue # <<>> /\ Head(queue) = event /\ queue' = Tail(queue)

\* addTextToDisplay
ShowText ==
    /\ \E event \in Range(queue) \ {Ready, Disable} :
           Delivers(event) /\ display' = Append(display, event)
    /\ UNCHANGED <<static, main, gui, code, torn, logs, kernelVars, buf, disabling>>

\* disableGUIAction: the input, the run button and the open dialog.
DisableGUI ==
    /\ Delivers(Disable)
    /\ enabled' = FALSE
    /\ UNCHANGED <<static, main, connected, ready, console, code, display, torn, logs, kernelVars,
                  buf, disabling>>

\* consoleReady
ConsoleReady ==
    /\ Delivers(Ready)
    /\ ConsoleIsReady
    /\ UNCHANGED <<static, main, connected, enabled, console, code, display, torn, logs, kernelVars,
                  buf, disabling>>

Dispatch == ShowText \/ DisableGUI \/ ConsoleReady

\* updateDebugLog, four times a second.
UpdateDebugLog ==
    /\ main = "exec" /\ LoggingActive
    /\ debugLog # stdout
    /\ debugLog' = stdout
    /\ UNCHANGED <<static, main, gui, code, queue, display, torn, stdout, printed, kernelVars, buf,
                  disabling>>

\* There is a new piece of code in the input.
NewInput ==
    /\ main = "exec" /\ enabled
    /\ input = None /\ written < MaxCode
    /\ written' = written + 1
    /\ input' = written'
    /\ UNCHANGED <<static, main, gui, adding, tries, shown, kernelVars, buf, disabling>>

\* The user writes something.
Write == NewInput

\* The files that can be dropped on Qt's input; others are ignored.
Accepted == {"jconf", "lua"}

\* A loader for the accepted file is put in the input.  More of them are part of
\* the same piece of code.
DropFiles ==
    /\ kind = "qt"
    /\ \E file \in {"jconf", "lua", "other"} : file \in Accepted /\ NewInput

\* The run button: Qt clears the input before addString, FLTK after it.
ClickRun ==
    /\ Goes("exec", "adding") /\ enabled
    /\ input # None /\ tries < MaxTries
    /\ tries' = tries + 1
    /\ adding' = input
    /\ input' = IF kind = "qt" THEN None ELSE input
    /\ UNCHANGED <<static, gui, written, shown, kernelVars, buf, disabling>>

\* A file chosen in a dialog.
FileChosen ==
    /\ written < MaxCode /\ tries < MaxTries
    /\ tries' = tries + 1
    /\ written' = written + 1
    /\ adding' = written'
    /\ UNCHANGED <<static, gui, input, shown, kernelVars, buf, disabling>>

OpenFile == kind = "qt" /\ enabled /\ Goes("exec", "adding") /\ FileChosen

\* Disabling the console does not disable this dialog.
LoadAddlJconf == kind = "qt" /\ Goes("exec", "adding") /\ FileChosen

\* FLTK's dialog first shows that a file was chosen.
ChooseAndRunFile == kind = "fltk" /\ Goes("exec", "echoChosen") /\ FileChosen

\* The run buffer takes the code.  What a secondary accepts before its buffer
\* is initialised is overwritten by the first synchronisation.
Accept ==
    /\ loads
    /\ Goes("adding", "echoCode")
    /\ local \/ kernel = "initScene"
    /\ buf' = IF local THEN Append(buf, adding) ELSE buf
    /\ UNCHANGED <<static, gui, code, shown, kernelVars, disabling>>

\* It is full, its lock is taken, or it belongs to a secondary.
Refuse ==
    /\ loads
    /\ Goes("adding", "echoFailed")
    /\ kernel # "initScene"
    /\ UNCHANGED <<static, gui, code, shown, kernelVars, buf, disabling>>

\* Without the testbed the console has no run buffer: a std::runtime_error, which
\* nothing catches.
NoRunBuffer ==
    /\ ~loads
    /\ Goes("adding", "exited")
    /\ UNCHANGED <<static, gui, code, shown, kernelVars, buf, disabling>>

\* Qt's console saves its input and takes it for saved.
SaveQt ==
    /\ kind = "qt" /\ Goes("exec", "echoSaved")
    /\ tries < MaxTries
    /\ tries' = tries + 1
    /\ UNCHANGED <<static, gui, input, adding, written, shown, kernelVars, buf, disabling>>

\* FLTK's saves its display, and knows when that fails.
SaveFltk ==
    /\ kind = "fltk" /\ \E where \in {"echoSaved", "echoNotSaved"} : Goes("exec", where)
    /\ tries < MaxTries
    /\ tries' = tries + 1
    /\ UNCHANGED <<static, gui, input, adding, written, shown, kernelVars, buf, disabling>>

Echoing == main \in {"echoCode", "echoFailed", "echoSaved", "echoNotSaved", "echoChosen"}

Echoed ==
    CASE main = "echoCode" -> Event("code", adding)
      [] main = "echoFailed" -> Event("failed", adding)
      [] main = "echoSaved" -> Saved
      [] main = "echoNotSaved" -> NotSaved
      [] OTHER -> Chosen

\* Mutant of Echo: a failure is not shown.
MutEcho ==
    /\ Echoing
    /\ main' = IF main = "echoChosen" THEN "adding" ELSE "exec"
    /\ display' = IF main = "echoFailed" THEN display ELSE Append(display, Echoed)
    /\ input' = IF main = "echoCode" /\ adding = input THEN None ELSE input
    /\ adding' = IF main = "echoChosen" THEN adding ELSE None
    /\ torn' = (torn \/ Writing)
    /\ UNCHANGED <<static, gui, written, tries, queue, logs, kernelVars, buf, disabling>>

\* addString shows the code, or reports that it could not be added, and FLTK's
\* input is cleared if it could; a save and a choice are shown as well.
Echo ==
    /\ Echoing
    /\ main' = IF main = "echoChosen" THEN "adding" ELSE "exec"
    /\ display' = Append(display, Echoed)
    /\ input' = IF main = "echoCode" /\ adding = input THEN None ELSE input
    /\ adding' = IF main = "echoChosen" THEN adding ELSE None
    /\ torn' = (torn \/ Writing)
    /\ UNCHANGED <<static, gui, written, tries, queue, logs, kernelVars, buf, disabling>>

\* The user closes the window, or chooses exit.
CloseQt ==
    /\ kind = "qt" /\ Goes("exec", "closed")
    /\ UNCHANGED <<static, gui, code, shown, kernelVars, buf, disabling>>

\* _doThreadWork: there is no window any more.
CloseFltk ==
    /\ kind = "fltk" /\ Goes("exec", "closed")
    /\ UNCHANGED <<static, gui, code, shown, kernelVars, buf, disabling>>

\* Mutant of Poll: the timer is never started.
MutPoll == FALSE /\ UNCHANGED vars

\* checkRunningState, ten times a second, and FLTK's loop: no kernel, no window.
Poll ==
    /\ kernel \in {"off", "stopped"}
    /\ Goes("exec", "expired")
    /\ UNCHANGED <<static, gui, code, shown, kernelVars, buf, disabling>>

\* The event loop has been ended by the user, or by the poll.
Over == {"closed", "expired"}

\* The event loop has returned.
StopKernel ==
    /\ \E from \in Over : Goes(from, "wait")
    /\ stopAsked' = TRUE
    /\ UNCHANGED <<static, gui, code, shown, kernel, current, buf, disabling>>

\* Mutant of WaitForKernelStop: main returns without waiting.
MutWaitForKernelStop ==
    /\ Goes("wait", "returning")
    /\ UNCHANGED <<static, gui, code, shown, kernelVars, buf, disabling>>

WaitForKernelStop ==
    /\ kernel \in {"off", "stopped"}
    /\ Goes("wait", "returning")
    /\ UNCHANGED <<static, gui, code, shown, kernelVars, buf, disabling>>

\* main's local shared_ptr was the only one: the console's own part goes first.
Destroyed ==
    /\ main = "returning" /\ console = "live"
    /\ console' = "dying"
    /\ UNCHANGED <<static, main, connected, ready, enabled, code, shown, kernelVars, buf, disabling>>

DestroyQt == kind = "qt" /\ Destroyed
DestroyFltk == kind = "fltk" /\ Destroyed

\* The stub waits for the kernel once more.
DestroyStub == kind = "stub" /\ kernel \in {"off", "stopped"} /\ Destroyed

\* LuaConsole's destructor takes s_console and the print function back.
DestroyBase ==
    /\ console = "dying"
    /\ Goes("returning", "exited")
    /\ console' = "gone"
    /\ ready' = FALSE
    /\ UNCHANGED <<static, connected, enabled, code, shown, kernelVars, buf, disabling>>

-----------------------------------------------------------------------------
(* The kernel thread.                                                       *)

KernelGoes(from, to) == kernel = from /\ kernel' = to

\* What the kernel thread's signals leave in the queue.
Queued(signal, event) == IF signal \in connected THEN <<event>> ELSE <<>>

\* initScene initialises the run buffer; on the primary that is all.
InitScene ==
    /\ local
    /\ KernelGoes("initScene", "frame")
    /\ UNCHANGED <<static, main, gui, code, shown, stopAsked, current, buf, disabling>>

\* On a secondary init() then calls disableAction.  Qt's emits two signals.
DisableNotice ==
    /\ ~local /\ kind = "qt"
    /\ KernelGoes("initScene", "disabling")
    /\ queue' = queue \o Queued("text", Notice)
    /\ UNCHANGED <<static, main, gui, code, display, torn, logs, stopAsked, current, buf, disabling>>

DisableSignal ==
    /\ KernelGoes("disabling", "frame")
    /\ disabling' = IF main \in {"connectText", "connectDisable"} THEN "early" ELSE "heard"
    /\ queue' = queue \o Queued("disable", Disable)
    /\ UNCHANGED <<static, main, gui, code, display, torn, logs, stopAsked, current, buf>>

\* FLTK's only says that it is not implemented, the stub's that it is a stub.
DisableNothing ==
    /\ ~local
    /\ KernelGoes("initScene", "frame")
    /\ disabling' = "heard"
    /\ UNCHANGED <<static, main, gui, code, shown, stopAsked, current, buf>>

DisableFltk == kind = "fltk" /\ DisableNothing
DisableStub == kind = "stub" /\ DisableNothing

\* A failing initScene exits the process.
InitSceneFails ==
    /\ KernelGoes("initScene", "stopped")
    /\ main' = "exited"
    /\ UNCHANGED <<static, gui, code, shown, stopAsked, current, buf, disabling>>

\* Mutant of RunChunk: front() without pop_front().
MutRunChunk ==
    /\ buf # <<>>
    /\ KernelGoes("frame", "chunk")
    /\ current' = Head(buf)
    /\ UNCHANGED <<static, main, gui, code, shown, stopAsked, buf, disabling>>

RunChunk ==
    /\ buf # <<>>
    /\ KernelGoes("frame", "chunk")
    /\ current' = Head(buf)
    /\ buf' = Tail(buf)
    /\ UNCHANGED <<static, main, gui, code, shown, stopAsked, disabling>>

\* Mutant of Output: Qt's console writes to the display as FLTK's does.
MutOutput(what) ==
    /\ kernel = "chunk"
    /\ kernel' = IF ready THEN what ELSE "printed"
    /\ stdout' = IF ready THEN stdout ELSE stdout \cup {current}
    /\ printed' = printed \cup {current}
    /\ UNCHANGED <<queue, display>>

\* The stub's display is Juggler's log, which is thread-safe.
StubDisplays(line) ==
    display' = IF ready /\ kind = "stub" THEN Append(display, line) ELSE display

\* doPrint: consolePrintFunction, or standard output until then.
Output(what) ==
    LET line == Event(what, current) IN
    /\ kernel = "chunk"
    /\ kernel' = IF ready /\ kind = "fltk" THEN what ELSE "printed"
    /\ queue' = IF ready /\ kind = "qt" THEN queue \o Queued("text", line) ELSE queue
    /\ StubDisplays(line)
    /\ stdout' = IF ready THEN stdout ELSE stdout \cup {current}
    /\ printed' = printed \cup {current}

\* print() in a script.
ChunkPrints ==
    /\ Output("print")
    /\ UNCHANGED <<static, main, gui, code, torn, debugLog, stopAsked, current, buf, disabling>>

\* _handleLuaReturnCode shows the error of a chunk that fails.
ChunkFails ==
    /\ Output("error")
    /\ UNCHANGED <<static, main, gui, code, torn, debugLog, stopAsked, current, buf, disabling>>

\* runString: a chunk that prints nothing.
ChunkSilent ==
    /\ KernelGoes("chunk", "printed")
    /\ UNCHANGED <<static, main, gui, code, shown, stopAsked, current, buf, disabling>>

\* The end of appendToDisplay on the kernel thread.
Written ==
    /\ Writing /\ kernel' = "printed"
    /\ display' = Append(display, Event(kernel, current))
    /\ torn' = (torn \/ Echoing)
    /\ UNCHANGED <<static, main, gui, code, queue, logs, stopAsked, current, buf, disabling>>

\* Mutant of ChunkEnds: stop() ends the kernel's loop at once, within the chunk.
MutChunkEnds ==
    /\ \E where \in {"frame", "stopped"} :
           /\ KernelGoes("printed", where)
           /\ current' = IF where = "stopped" THEN current ELSE None
           /\ stopAsked' = (stopAsked \/ where = "stopped")
    /\ UNCHANGED <<static, main, gui, code, shown, buf, disabling>>

\* The chunk is over, perhaps with vrjKernel.stop().
ChunkEnds ==
    /\ KernelGoes("printed", "frame")
    /\ current' = None
    /\ stopAsked' \in {stopAsked, TRUE}
    /\ UNCHANGED <<static, main, gui, code, shown, buf, disabling>>

KernelStops ==
    /\ stopAsked
    /\ KernelGoes("frame", "stopped")
    /\ UNCHANGED <<static, main, gui, code, shown, stopAsked, current, buf, disabling>>

-----------------------------------------------------------------------------
Construct == ConstructBase \/ ConstructQt \/ ConstructFltk \/ ConstructStub
Start ==
    \/ StartKernel \/ ReportFailure
    \/ FltkGetsReady \/ StubGetsReady \/ ConnectText \/ ConnectDisable
User ==
    \/ Write \/ DropFiles \/ ClickRun
    \/ OpenFile \/ LoadAddlJconf \/ ChooseAndRunFile
    \/ SaveQt \/ SaveFltk
    \/ CloseQt \/ CloseFltk
Destroy == DestroyQt \/ DestroyFltk \/ DestroyStub \/ DestroyBase

Next ==
    \/ Construct \/ Start \/ User
    \/ Dispatch \/ UpdateDebugLog
    \/ Accept \/ Refuse \/ NoRunBuffer \/ Echo
    \/ Poll \/ StopKernel \/ WaitForKernelStop \/ Destroy
    \/ InitScene \/ DisableNotice \/ DisableSignal \/ DisableFltk \/ DisableStub
    \/ InitSceneFails
    \/ RunChunk \/ ChunkPrints \/ ChunkFails \/ ChunkSilent \/ Written \/ ChunkEnds
    \/ KernelStops

Spec == Init /\ [][Next]_vars

\* Both threads run: the event loop serves its queue and its timers, the kernel
\* thread gets on with the frame.  What the user does is not fair.
Fairness ==
    /\ WF_vars(Construct)
    /\ WF_vars(Start)
    /\ WF_vars(Accept \/ Refuse \/ NoRunBuffer)
    /\ WF_vars(Echo)
    /\ WF_vars(Dispatch)
    /\ WF_vars(UpdateDebugLog)
    /\ WF_vars(Poll)
    /\ WF_vars(StopKernel)
    /\ WF_vars(WaitForKernelStop)
    /\ WF_vars(Destroy)
    /\ WF_vars(InitScene \/ DisableNotice \/ DisableSignal \/ DisableFltk \/ DisableStub)
    /\ WF_vars(RunChunk)
    /\ WF_vars(ChunkPrints \/ ChunkFails \/ ChunkSilent \/ Written \/ ChunkEnds)
    /\ WF_vars(KernelStops)

FairSpec == Spec /\ Fairness

-----------------------------------------------------------------------------
Lines == ({"code", "failed"} \cup Outputs) \X (Code \cup {File}) \cup {Notice, Saved, NotSaved, Chosen}

\* The type invariant.
TypeOK ==
    /\ kind \in {"qt", "fltk", "stub"}
    /\ main \in {"construct", "start", "ready", "connectText", "connectDisable", "exec", "adding",
                 "echoCode", "echoFailed", "echoSaved", "echoNotSaved", "echoChosen",
                 "closed", "expired", "wait", "returning", "exited"}
    /\ console \in {"none", "base", "live", "dying", "gone"}
    /\ debugLog \subseteq stdout /\ stdout \subseteq printed /\ printed \subseteq Code \cup {File}
    /\ connected \subseteq {"text", "disable"}
    /\ {local, loads, terminal, ready, enabled, torn, stopAsked} \subseteq BOOLEAN
    /\ {input, adding} \subseteq Code \cup {None}
    /\ written \in 0..MaxCode /\ tries \in 0..MaxTries
    /\ queue \in Seq(Lines \cup {Disable, Ready})
    /\ display \in Seq(Lines)
    /\ kernel \in {"off", "initScene", "disabling", "frame", "chunk", "printed", "stopped"}
                  \cup Outputs
    /\ current \in Code \cup {None, File}
    /\ buf \in Seq(Code \cup {File})
    /\ disabling \in {"no", "early", "heard"}
    /\ main = "exited" \/ (adding # None <=> main \in {"adding", "echoCode", "echoFailed", "echoChosen"})
    /\ current # None <=> kernel \in {"chunk", "printed"} \/ Writing

IsOutput(line) == line[1] \in Outputs

\* Qt's display never shows what a piece of code printed, or its error, before the code itself,
\* although the kernel thread may have run it before addString shows it: print
\* goes through the event queue (QTConsole.cpp:242).
EchoBeforeOutput ==
    kind = "qt" =>
        \A j \in DOMAIN display :
            IsOutput(display[j]) /\ display[j][2] # File =>
                \E i \in 1..(j - 1) : display[i] = Event("code", display[j][2])

\* A piece of code runs at most once, however often the user tries to run it:
\* FLTK's console keeps what was refused in its input, and only that.
RunsOnce ==
    /\ IsInjective(buf)
    /\ current \notin Range(buf)
    /\ \A i, j \in DOMAIN display :
           IsOutput(display[i]) /\ IsOutput(display[j]) /\ display[i][2] = display[j][2] => i = j

\* What the user wrote is not lost: it is in the input, or on its way to the run
\* buffer, or shown, as run or as refused.
CodeKept ==
    \A k \in 1..written :
        k \in {input, adding} \/ {Event("code", k), Event("failed", k)} \cap Range(display) # {}

\* Only FLTK's console lets two threads change the display at the same time:
\* print on the kernel thread while the main thread shows the user's code
\* (FLTKConsole.cpp:129).
TornOnlyInFltk == torn => kind = "fltk"

\* What a script prints is not lost, whenever the console becomes ready: it is
\* shown, or on its way to the event loop, or went to standard output.
PrintKept ==
    \A k \in printed :
        \/ k \in stdout
        \/ {Event("print", k), Event("error", k)} \cap (Range(queue) \cup Range(display)) # {}
        \/ Writing /\ current = k

\* The kernel thread never prints to a console that is not all there: getConsole()
\* already is the console while it is constructed, and still is while it is
\* destroyed (LuaConsole.cpp:70 and 78).
PrintsToLiveConsole == Writing \/ (ready /\ current # None) => console = "live"

\* The program ends only when its kernel thread has.
JoinedBeforeExit == main \in {"returning", "exited"} => kernel \in {"off", "stopped"}

\* "Disabling interaction console GUI on this node": the request is carried out
\* or on its way in Qt's console if it comes after the slots are connected; one
\* that comes earlier is lost, as every request is in FLTK's.
DisableIsKept ==
    IF kind = "qt" /\ disabling = "heard"
    THEN ~enabled \/ Disable \in Range(queue)
    ELSE enabled

\* Closing the window, or stopping the kernel from a script, ends the program,
\* although the event loop only notices by polling that the kernel is gone.
ShutsDown == (main \in Over \/ stopAsked) ~> main = "exited"

\* "Application will not function properly - exit when finished viewing log"
\* (QTNavMain.cpp:91): without the testbed the window stays until the user closes
\* it.  The code does not do so: checkRunningState closes the window of a program
\* whose kernel does not run, and this program never starts it (QTConsole.cpp:187).
LogStaysOpen == ~loads => main # "expired"

\* The display can be relied on: no output without the code it comes from above
\* it, and no output missing, wherever Lua's print was redirected by then.
DisplayComplete == EchoBeforeOutput /\ PrintKept

\* Each piece of code is somewhere, and runs once at most, however often the run
\* buffer refuses it and the user tries again.
CodeRunsOnce == RunsOnce /\ CodeKept

\* The kernel thread prints only to a console that is all there, beside the main
\* thread only with FLTK, and is over before the program is.
ThreadsKeepApart == PrintsToLiveConsole /\ TornOnlyInFltk /\ JoinedBeforeExit
=============================================================================
