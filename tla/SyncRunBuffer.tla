---------------------------- MODULE SyncRunBuffer -----------------------------
(***************************************************************************)
(* SynchronizedRunBuffer (vrjugglua/SynchronizedRunBuffer.cpp) from the    *)
(* script that creates it on: what becomes of the chunks added before  *)
(* the buffer is initialised (the "early birds": files named on the        *)
(* command line, code typed before the scene is up) while the GUI thread   *)
(* keeps adding.                                                           *)
(*                                                                         *)
(* Two threads touch the object without a lock of its own: the GUI thread  *)
(* (LuaConsole::addString) and the kernel thread (init, runBuffer).  The   *)
(* inner LuaRunBuffer is seen through its contract, the bounded FIFO of    *)
(* ChunkQueue, plus the two ways a non-blocking add fails: full, or the    *)
(* lock taken by the other thread.  An unsynchronised push_back and clear  *)
(* of _earlyBirds are interleaved, never torn.                             *)
(***************************************************************************)
EXTENDS Naturals, Sequences, SequencesExt

CONSTANTS
    Capacity,           \* capacity of the inner LuaRunBuffer
    MaxEarly,           \* bound: chunks added before the kernel starts
    MaxGui              \* bound: chunks the GUI thread adds

ASSUME SyncRunBufferAssumption ==
    /\ Capacity \in Nat \ {0}
    /\ MaxEarly \in Nat
    /\ MaxGui \in Nat

VARIABLES
    local,      \* _runBuf.isLocal(): is this the primary node?
    patient,    \* does the user wait until init() is over?
    explicit,   \* does the delegate's initScene call init()?
    init,       \* _init
    early,      \* _earlyBirds
    buf,        \* the inner buffer
    kernel,     \* where the kernel thread is
    caller,     \* who called init: "initScene", or "runBuffer" by _checkInit
    next,       \* index of the next early bird to replay
    left,       \* chunks runBuffer may still run in this frame
    gui,        \* where the GUI thread is in addString
    guiCalls,   \* addString calls of the GUI thread so far
    disableSent,    \* console->disableAction() was called (see Console.tla)
    accepted,   \* history: chunks whose add returned true
    executed    \* history: chunks run on this node

setting == <<local, patient, explicit>>
kernelVars == <<kernel, caller, next, left>>
guiVars == <<gui, guiCalls>>
vars == <<setting, init, early, buf, kernelVars, guiVars, disableSent,
          accepted, executed>>

Early(k) == <<"early", k>>
Gui(k) == <<"gui", k>>
Chunk == {Early(k) : k \in 1..MaxEarly} \cup {Gui(k) : k \in 1..MaxGui}

KernelPoints ==
    {"setup", "initScene", "replay", "clear", "sync", "latePreFrame", "run", "dead"}

Full == Len(buf) >= Capacity

Init ==
    /\ local \in BOOLEAN
    /\ patient \in BOOLEAN
    /\ explicit \in BOOLEAN
    /\ init = FALSE
    /\ early = <<>>
    /\ buf = <<>>
    /\ kernel = "setup"
    /\ caller = "initScene"
    /\ next = 1
    /\ left = 0
    /\ gui = "idle"
    /\ guiCalls = 0
    /\ disableSent = FALSE
    /\ accepted = <<>>
    /\ executed = <<>>

-----------------------------------------------------------------------------
(* The script that creates the buffer, before the kernel starts.           *)

\* addFile(name, false).  It refuses on an initialised secondary, and, in the
\* inner buffer, when that is full.
AddFile ==
    /\ kernel = "setup" /\ Len(accepted) < MaxEarly
    /\ ~init \/ (local /\ ~Full)
    /\ early' = IF init THEN early ELSE Append(early, Early(Len(accepted) + 1))
    /\ buf' = IF init THEN Append(buf, Early(Len(accepted) + 1)) ELSE buf
    /\ accepted' = Append(accepted, Early(Len(accepted) + 1))
    /\ UNCHANGED <<setting, init, kernelVars, guiVars, disableSent, executed>>

\* Reading runbuf.local initialises the buffer there and then: the early birds
\* that fit go into it.
IsLocal ==
    /\ kernel = "setup"
    /\ ~init
    /\ init' = TRUE
    /\ early' = <<>>
    /\ buf' = SubSeq(early, 1, IF Len(early) <= Capacity THEN Len(early) ELSE Capacity)
    /\ disableSent' = ~local
    /\ UNCHANGED <<setting, kernelVars, guiVars, accepted, executed>>

\* Main starts the kernel, whose thread enters initScene, and the console.
StartKernel ==
    /\ kernel = "setup"
    /\ kernel' = "initScene"
    /\ UNCHANGED <<setting, init, early, buf, caller, next, left, guiVars,
                   disableSent, accepted, executed>>

-----------------------------------------------------------------------------
(* The GUI thread: SynchronizedRunBuffer::addString(str, false).            *)

\* The console runs: main has come to it, and no failing initScene has ended the
\* process, GUI thread included.
Alive == kernel \notin {"setup", "dead"}

StartupOver == init /\ kernel \notin {"setup", "initScene", "replay", "clear"}

\* addString reads _init and isLocal() and picks its branch.
GuiCall ==
    /\ Alive
    /\ gui = "idle"
    /\ guiCalls < MaxGui
    /\ patient => StartupOver
    /\ guiCalls' = guiCalls + 1
    /\ gui' = IF ~init THEN "early" ELSE IF local THEN "forward" ELSE "idle"
    /\ UNCHANGED <<setting, init, early, buf, kernelVars, disableSent,
                   accepted, executed>>

\* _earlyBirds.push_back(...); return true.
GuiEarly ==
    /\ Alive
    /\ gui = "early"
    /\ early' = Append(early, Gui(guiCalls))
    /\ accepted' = Append(accepted, Gui(guiCalls))
    /\ gui' = "idle"
    /\ UNCHANGED <<setting, init, buf, kernelVars, guiCalls, disableSent, executed>>

\* _runBuf->addString(str, false) succeeds.
GuiForward ==
    /\ Alive
    /\ gui = "forward"
    /\ ~Full
    /\ buf' = Append(buf, Gui(guiCalls))
    /\ accepted' = Append(accepted, Gui(guiCalls))
    /\ gui' = "idle"
    /\ UNCHANGED <<setting, init, early, kernelVars, guiCalls, disableSent, executed>>

\* ... or fails: the buffer is full, or the kernel thread holds its lock.
GuiRefused ==
    /\ Alive
    /\ gui = "forward"
    /\ Full \/ kernel \in {"replay", "sync", "run"}
    /\ gui' = "idle"
    /\ UNCHANGED <<setting, init, early, buf, kernelVars, guiCalls,
                   disableSent, accepted, executed>>

-----------------------------------------------------------------------------
(* The kernel thread.                                                       *)

\* The delegate of nav-app-skeleton.lua calls runbuf:init() in initScene; a
\* second initialisation throws, and a failing initScene ends the program.
InitSceneInits ==
    /\ kernel = "initScene"
    /\ explicit
    /\ IF init
       THEN kernel' = "dead" /\ UNCHANGED init
       ELSE kernel' = "replay" /\ init' = TRUE
    /\ UNCHANGED <<setting, early, buf, caller, next, left, guiVars,
                   disableSent, accepted, executed>>

\* The delegate of StateMachine.lua does not.
InitSceneSkips ==
    /\ kernel = "initScene"
    /\ ~explicit
    /\ kernel' = "sync"
    /\ UNCHANGED <<setting, init, early, buf, caller, next, left,
                   guiVars, disableSent, accepted, executed>>

\* Mutant of Replay: the last early bird is replayed first.
MutReplayBackwards ==
    /\ kernel = "replay"
    /\ next <= Len(early)
    /\ \/ ~Full /\ buf' = Append(buf, early[Len(early) + 1 - next])
       \/ (Full \/ gui = "forward") /\ UNCHANGED buf
    /\ next' = next + 1
    /\ UNCHANGED <<setting, init, early, kernel, caller, left, guiVars,
                   disableSent, accepted, executed>>

\* Mutant of Replay: `i <= size()` reads one past the last early bird, whose
\* slot still holds the first one.
MutReplayPastEnd ==
    /\ kernel = "replay"
    /\ next <= Len(early) + 1
    /\ early # <<>>
    /\ \/ ~Full /\ buf' = Append(buf, early[IF next <= Len(early) THEN next ELSE 1])
       \/ (Full \/ gui = "forward") /\ UNCHANGED buf
    /\ next' = next + 1
    /\ UNCHANGED <<setting, init, early, kernel, caller, left, guiVars,
                   disableSent, accepted, executed>>

\* One early bird is handed to the inner buffer; the result is ignored, so a
\* bird that meets a full buffer, or the GUI thread's lock, is dropped.
Replay ==
    /\ kernel = "replay"
    /\ next <= Len(early)
    /\ \/ ~Full /\ buf' = Append(buf, early[next])
       \/ (Full \/ gui = "forward") /\ UNCHANGED buf
    /\ next' = next + 1
    /\ UNCHANGED <<setting, init, early, kernel, caller, left, guiVars,
                   disableSent, accepted, executed>>

\* Mutant of ReplayEnds: init() stops one early bird short.
MutReplayEnds ==
    /\ kernel = "replay"
    /\ next >= Len(early)
    /\ kernel' = "clear"
    /\ UNCHANGED <<setting, init, early, buf, caller, next, left,
                   guiVars, disableSent, accepted, executed>>

ReplayEnds ==
    /\ kernel = "replay"
    /\ next > Len(early)
    /\ kernel' = "clear"
    /\ UNCHANGED <<setting, init, early, buf, caller, next, left,
                   guiVars, disableSent, accepted, executed>>

\* Where init returns to: initScene and the first frame, or runBuffer.
AfterInit == IF caller = "initScene" THEN "sync" ELSE "run"

\* Mutant of ClearEarly: the console of a secondary is not told.
MutClearEarly ==
    /\ kernel = "clear"
    /\ early' = <<>>
    /\ kernel' = AfterInit
    /\ left' = IF caller = "runBuffer" THEN Len(buf) ELSE left
    /\ UNCHANGED <<setting, init, buf, caller, next, guiVars, disableSent,
                   accepted, executed>>

\* Mutant of ClearEarly: the birds are not cleared.
MutClearEarlyKeeps ==
    /\ kernel = "clear"
    /\ disableSent' = ~local
    /\ kernel' = AfterInit
    /\ left' = IF caller = "runBuffer" THEN Len(buf) ELSE left
    /\ UNCHANGED <<setting, init, early, buf, caller, next, guiVars, accepted, executed>>

\* _earlyBirds.clear(), and the console of a secondary is told to stop.
ClearEarly ==
    /\ kernel = "clear"
    /\ early' = <<>>
    /\ disableSent' = ~local
    /\ kernel' = AfterInit
    /\ left' = IF caller = "runBuffer" THEN Len(buf) ELSE left
    /\ UNCHANGED <<setting, init, buf, caller, next, guiVars, accepted, executed>>

\* Mutant of Sync: readObject appends to what is there, it does not clear.
MutSync ==
    /\ kernel = "sync"
    /\ kernel' = "latePreFrame"
    /\ UNCHANGED <<setting, init, early, buf, caller, next, left,
                   guiVars, disableSent, accepted, executed>>

\* Application data synchronisation: a secondary's buffer is overwritten with
\* the primary's (which holds none of this node's chunks).
Sync ==
    /\ kernel = "sync"
    /\ kernel' = "latePreFrame"
    /\ buf' = IF init /\ ~local THEN <<>> ELSE buf
    /\ UNCHANGED <<setting, init, early, caller, next, left, guiVars,
                   disableSent, accepted, executed>>

\* runBuffer on an initialised buffer: how much there is to run.
RunBegins ==
    /\ kernel = "latePreFrame"
    /\ init
    /\ left' = Len(buf)
    /\ kernel' = "run"
    /\ UNCHANGED <<setting, init, early, buf, caller, next, guiVars,
                   disableSent, accepted, executed>>

\* runBuffer on an uninitialised one: _checkInit initialises it first.
RunInits ==
    /\ kernel = "latePreFrame"
    /\ ~init
    /\ init' = TRUE
    /\ caller' = "runBuffer"
    /\ kernel' = "replay"
    /\ UNCHANGED <<setting, early, buf, next, left, guiVars, disableSent,
                   accepted, executed>>

\* Mutant of RunOne: the last chunk of the frame is not run.
MutRunOne ==
    /\ kernel = "run"
    /\ left > 1
    /\ executed' = Append(executed, Head(buf))
    /\ buf' = Tail(buf)
    /\ left' = left - 1
    /\ UNCHANGED <<setting, init, early, kernel, caller, next, guiVars,
                   disableSent, accepted>>

RunOne ==
    /\ kernel = "run"
    /\ left > 0
    /\ executed' = Append(executed, Head(buf))
    /\ buf' = Tail(buf)
    /\ left' = left - 1
    /\ UNCHANGED <<setting, init, early, kernel, caller, next, guiVars,
                   disableSent, accepted>>

\* Everything is run, or the GUI thread holds the lock: the frame is over.
RunEnds ==
    /\ kernel = "run"
    /\ left = 0 \/ gui = "forward"
    /\ kernel' = "sync"
    /\ left' = 0
    /\ UNCHANGED <<setting, init, early, buf, caller, next, guiVars,
                   disableSent, accepted, executed>>

-----------------------------------------------------------------------------
GuiStep == GuiCall \/ GuiEarly \/ GuiForward \/ GuiRefused

KernelStep ==
    \/ StartKernel
    \/ InitSceneInits
    \/ InitSceneSkips
    \/ Replay
    \/ ReplayEnds
    \/ ClearEarly
    \/ Sync
    \/ RunBegins
    \/ RunInits
    \/ RunOne
    \/ RunEnds

ScriptStep == AddFile \/ IsLocal

Next == ScriptStep \/ GuiStep \/ KernelStep

\* Main comes to start the kernel; the kernel thread runs; a call the GUI thread began returns.
Fairness ==
    /\ WF_vars(KernelStep)
    /\ WF_vars(GuiEarly)
    /\ WF_vars(GuiForward \/ GuiRefused)

Spec == Init /\ [][Next]_vars
FairSpec == Spec /\ Fairness

-----------------------------------------------------------------------------
TypeOK ==
    /\ local \in BOOLEAN
    /\ patient \in BOOLEAN
    /\ explicit \in BOOLEAN
    /\ init \in BOOLEAN
    /\ early \in Seq(Chunk)
    /\ buf \in Seq(Chunk)
    /\ Len(buf) <= Capacity
    /\ kernel \in KernelPoints
    /\ caller \in {"initScene", "runBuffer"}
    /\ next \in 1..(MaxEarly + MaxGui + 1)
    /\ left \in 0..Capacity
    /\ gui \in {"idle", "early", "forward"}
    /\ guiCalls \in 0..MaxGui
    /\ disableSent \in BOOLEAN
    /\ accepted \in Seq(Chunk)
    /\ executed \in Seq(Chunk)

IsEarly(c) == c[1] = "early"

\* No chunk runs twice, however its journey through _earlyBirds, the replay and
\* the buffer interleaves with the GUI thread.
RunsOnce == IsInjective(executed \o buf)

\* The files of the command line run in the order they were given, whatever
\* the GUI thread slips in between and whatever is dropped.
EarlyInOrder ==
    LET ran == executed \o buf
    IN  \A j, k \in DOMAIN ran :
            j < k /\ IsEarly(ran[j]) /\ IsEarly(ran[k]) => ran[j][2] < ran[k][2]

\* A secondary that initialises in initScene never runs a chunk added on it:
\* its replayed early birds are overwritten by the first synchronisation.
SecondaryRunsNoneOfItsOwn ==
    ~local /\ explicit => executed = <<>>

\* The console of a secondary, and of no other node, is asked to take no more
\* input, whoever ran init() and whenever.
SecondaryConsoleTold == StartupOver => (disableSent <=> ~local)

\* The files of the command line fit into the buffer.
FilesFit == Early(Capacity + 1) \notin Range(accepted)

Undisturbed == local /\ patient /\ FilesFit

\* ... and eventually runs, unless initScene failed.
AcceptedRuns ==
    \A c \in Chunk :
        (Undisturbed /\ c \in Range(accepted))
            ~> (c \in Range(executed) \/ kernel = "dead")

\* "Run all the early birds" (SynchronizedRunBuffer.cpp:65): of the files of the
\* command line, exactly as many as the buffer holds are kept, the first ones, as
\* the result of the replayed calls is ignored.
FilesKept ==
    local /\ patient /\ StartupOver =>
        \A k \in 1..MaxEarly :
            Early(k) \in Range(accepted) =>
                (Early(k) \in Range(executed) \cup Range(buf) <=> k <= Capacity)

\* At most one piece of code is left behind among the early birds, where nothing
\* will ever run it: the one a hasty user was adding while init() ran.
OneLateBird ==
    StartupOver =>
        /\ Len(early) <= 1
        /\ \A c \in Range(early) : ~patient /\ ~IsEarly(c)

\* The early birds that survive are the first ones, as many as the buffer holds,
\* and they run in the order in which the files were given.
EarlyBirdsKept == FilesKept /\ EarlyInOrder

\* A secondary has no say of its own: nothing that was added on it runs there, and
\* its console is told so, by whichever call initialised the buffer.
SecondaryOverruled == SecondaryRunsNoneOfItsOwn /\ SecondaryConsoleTold
=============================================================================
