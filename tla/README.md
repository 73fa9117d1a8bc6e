# VR JuggLua: a verification development

VR JuggLua drives an immersive OpenSceneGraph application from Lua scripts. A
script is loaded at start-up; afterwards code typed into a console, or loaded
from files, is handed to the VR Juggler kernel thread, which runs it once per
frame, on one machine or on every node of a cluster. This directory holds TLA+
models of the parts of the program in which threads, nodes, frames, coroutines,
devices and start-up code interact, TLC runs that check them on small
instances, and TLAPS proofs for every instance.

Paths below are relative to `src/`; where no directory is given, to
`src/vrjugglua/`.

## 1. The system

| Component | State | Operations | Interacts with |
| --- | --- | --- | --- |
| Run buffer, `LuaRunBuffer.cpp` | `_buf` (circular, capacity 10), `_cond` (a mutex with a condition), `_maxRun` | `addString`, `addFile`, blocking or not; `runBuffer`; `writeObject`/`readObject` | producers on any thread; the kernel thread runs it; the cluster copies it |
| Synchronized run buffer, `SynchronizedRunBuffer.cpp` | `_init`, `_earlyBirds`, the shared `_runBuf` | `init`, `addString`, `addFile`, `runBuffer`, `isLocal` | GUI thread, kernel thread, console (`disableAction`) |
| Application proxy, `OsgAppProxy.cpp`, `VRJLua_C_Interface.cpp` | `_delegate`, `_delegationSuccessFlag`, `_lastPreFrameTime`, `_timeDelta` | the kernel's callbacks, `setAppDelegate`, `setActiveApplication`, `getTimeDelta` | called by the kernel, calls a Lua table |
| Frame actions, `lua/Actions.lua` | `Actions._frameActions`, a coroutine each | add, remove, update, `waitForRedraw`, `waitSeconds`, `addNodeAction` | the delegate's `latePreFrame`, the proxy's time delta |
| Consoles, `LuaConsole.cpp`, `qt-console/`, `fltk-console/` | display, input, `_running`, `s_console`, the print function, the debug log | `threadLoop`, `addString`, `addFile`, `appendToDisplay`, `disableAction`, save | GUI thread to run buffer; kernel thread prints, in Qt through queued signals |
| State machine, `lua/StateMachine.lua` | current state, its events | `initScene`, `preFrame`, transitions | proxy, run buffer, the cluster |
| Navigator, `lua/Navigator.lua` | the velocity of each ease | `getTranslation`, `getRotation`, eased velocity | called by a frame action; reads devices |
| Gadget interfaces, `Internal_*Interface.cpp` | the device proxy | `pressed`, `justPressed`, `centered`, ... | Gadgeteer, once per frame |
| Main programs, `src/QTNavMain.cpp`, `src/FLTKNavMain.cpp` | - | find and bind, run the testbed script, start the kernel, run the console, stop and join | all of the above |
| Interpreter, `src/lua.c` | the signal handler, the exit status | LUA_INIT, options, script, prompt | Lua, the bindings, SIGINT |
| Testbed script, `lua/osgnav-testbed.lua`, `lua/nav-app-skeleton.lua` | role, jconf list, `setUpActions` | command line, `initScene`, `latePreFrame` | kernel bindings, run buffer, actions |
| Kernel bindings, `binding_detail/BindKernelToLua.inl` | `_init`, `_isCluster`, `_isPrimary` | `start`, `enter`, `stop`, `init...`, `loadConfigFile` | vrj::Kernel (external) |
| LuaScript, `LuaScript.cpp`, `LuaGCBlock.h` | the Lua state, owned or borrowed | `runFile`, `runString`, `requireModule`, bindings | Lua, LuaPath |
| LuaPath, `LuaPath.cpp`, `FindVPRDLL.cpp` | the singleton: root, assets, Juggler's root; `package.path` | `instance`, `addLuaRequirePath`, model search path | the file system |
| OSG binding, `osgLuaBind.h`, `third-party/luabind/` | the overloads of a function; luabind's candidates during a call | registration, scoring and conversion of arguments, choice, error report | osgLua, osgIntrospection (external) |
| C interface, `VRJLua_C_Interface.cpp` | - | `luaopen_vrjugglua`, error handler, `set_exec_path` | interpreter |
| Reconfiguration, scene, text and model helpers | none | lists of pending changes, node building | jccl, OSG (external) |

What makes these correct:

- *Run buffer*: a bounded FIFO; nothing accepted is lost, doubled or reordered,
  a frame ends, a blocked producer gets on.
- *Synchronized run buffer*: what was added before the buffer existed runs
  once, in order, as far as it fits; a secondary runs nothing of its own and
  its console is told.
- *Cluster*: every node runs the same chunks in the same order.
- *Proxy*: a broken application is ended, a working one never; time is not lost.
- *Frame actions*: each live action runs once per frame, in a stable order; waits
  are exact; an action that was found and removed never runs again.
- *Console*: the display makes sense, no code is lost or run twice, and every
  way of ending ends both threads in order.
- *State machine*: one state is inside at a time, nodes stay together, the end
  is the end.
- *Navigator*: the velocity is a function of time and not of the frame rate.
- *Programs*: one installation, behind a testbed that came to its end the role
  and the configuration asked for, one thread in the Lua state, failures
  reported, Ctrl-C that has one effect.
- *OSG binding*: which overload is called depends on the set of overloads, and a
  function receives what its parameters declare.

The hard behaviours, each listed at its line under `hazards` in PROJECT.json:
unlocked reads of the buffer's size, try-locks that give up, one condition for
several sleepers; `_init` read by one thread while another sets it; a
synchronisation point per frame with chunks arriving after it; a flag that is
set and read a frame apart; a list replaced while it is iterated by code that
edits it; signals emitted before they are connected; a display written by two
threads; a table iterated while the object it came from moves on, in an order
each node chooses; a role, a singleton and a path that whoever comes first
decides; a kernel thread that shares the Lua state with main; a signal handler
that runs between any two steps; easing through zero.

## 2. The modules

| Module | Models | Checked by |
| --- | --- | --- |
| `ChunkQueue` | abstract: a bounded FIFO of chunks and the one being run | property `QueueSpec` of RunBuffer |
| `RunBuffer` | LuaRunBuffer's monitor, a step per lock operation, wait, signal, push and pop | `MCRunBuffer`, `RunBufferProofs` |
| `SyncRunBuffer` | SynchronizedRunBuffer from the script that creates it on | `MCSyncRunBuffer`, `SyncRunBufferProofs` |
| `ReplicatedLog` | abstract: one log, written and run by the primary, with a copy on every secondary | property `LogSpec` of ClusterRunBuffer |
| `ClusterRunBuffer` | one LuaRunBuffer per node, the copy and the barrier of each frame | `MCCluster`, `ClusterRunBufferProofs` |
| `FrameLoop` | OsgAppProxy's callbacks, watchdog and time delta, and its installation | `MCKernelThread`, `FrameProofs` |
| `FrameActions` | the coroutine list and its update | `MCKernelThread`, `FrameProofs` |
| `Console` | the Qt, FLTK and stub consoles and their mains against the kernel thread | `MCConsole`, `ConsoleProofs` |
| `StateMachine` | the state machine delegate on the nodes of a cluster | `MCCluster`, `StateMachineProofs` |
| `Gadgets`, `Navigator` | button and stick; the eased velocity and where it leads | `MCKernelThread`, `LibraryProofs` |
| `LuaPath`, `LuaScript`, `KernelState`, `Testbed`, `Interpreter` | parts of the programs, each with its state and actions | through `Programs` |
| `Programs` | the three programs from main() to its return, composed of the five above and the kernel's thread | `MCPrograms`, `ProgramsProofs` |
| `OsgBinding` | registration, scoring, choice, conversion and error report of a call | `MCKernelThread`, `LibraryProofs` |

How they fit: RunBuffer is proved and checked to implement ChunkQueue, and
ClusterRunBuffer to implement ReplicatedLog. SyncRunBuffer and ClusterRunBuffer
use the buffer at the level of ChunkQueue (a chunk is appended, or refused
because the buffer is full or its lock is taken; the oldest one is run), so that
their own interleavings can be explored.
Console sees the buffer as a queue that may refuse. FrameActions and Navigator
take over from FrameLoop the time delta of a frame and that a callback comes
once in it. Programs extends Testbed (on LuaScript, LuaPath and KernelState) and
Interpreter, whose actions its own ones are made of; Navigator extends Gadgets.

Every property that a run checks is the conjunction of a few named parts where
several statements answer one question; the parts are defined, with their
reasons, before it. `FrameProofs` and `LibraryProofs` each hold the theorems of
two components, and two MC modules check several components in one run, which is
why FrameActions, Navigator, OsgBinding and StateMachine have prefixed names
(`ActionsInit`, `BindingNext`, ...) where other modules have `Init`, `Next`.

`MCKernelThread` puts FrameLoop, FrameActions, Navigator and OsgBinding side by
side, `MCCluster` ClusterRunBuffer and StateMachine. The components of such a
module share no state. Its variable `part` chooses at the start which of them the
behaviour is of; that one takes every step it can take alone, the others stay in
one initial state. So the run explores the sum of their state spaces and not the
product, and each property is checked as if the component had a run of its own.

### RunBuffer

One program counter per thread for `addString` (`pc`), one for `runBuffer`
(`frame`). `TryAcquire`, `TryFails`, `CallBlocking` and `Acquire` are the Guard
at line 146; `SeesSpace`, `BailOut`, `Wait`, `Wake` the branches of lines
149-162; `Push` is `push_back` and the release at the return. `EmptyTest` and
`ReadSize` are lines 183 and 186, which hold no lock; `LoopBody`, `LoopExit`,
`LockForPop`, `GiveUpFrame`, `Signal`, `Pop` and `RunReturns` the loop.
`wait()` releases the mutex and sleeps in one step; a signal wakes any one
sleeper; `SpuriousWakeup` wakes one without a signal. The consumer may call
`addString` from the chunk it runs or between frames. A chunk is a pair
<<thread, number of the call>>; text, `addFile`'s `dofile` wrapping and the
result of a chunk do not matter to the properties. `accepted`, `executed` and
`limit` are history variables.

### SyncRunBuffer

In `Init` the buffer has just been created by the script. The script adds files
(`AddFile`), may ask `runbuf.local` (`IsLocal`, which initialises), and main
starts the kernel (`StartKernel`). `initScene` then calls `init()` if the
delegate is the skeleton's (`explicit`), and `_checkInit` of the first
`runBuffer` does if it is StateMachine.lua's. `init()` is one step per early
bird (`Replay`), then the clear and the console's notice (`ClearEarly`). The GUI
thread's `addString` is two steps, the test of `_init` (`GuiCall`) and the act
(`GuiEarly`, `GuiForward`, `GuiRefused`). `patient` tells a user who waits until
`init()` is over from one who may act before. `local`, `patient` and `explicit`
never change: a run covers all of them. `push_back` and `clear` of the
unprotected vector are interleaved but not torn.

### ClusterRunBuffer

`Synchronise` is `writeObject` on the primary and `readObject` on every
secondary; `Barrier` is the swap lock at the end of a frame. Between the two,
nodes run independently. The GUI thread of the primary holds the lock from
`GuiLocks` to `GuiAdds`; `Contended` is the failed try-lock of line 195. A lost
node is outside the program (the cluster library ends it). Seen as a
ReplicatedLog, `log` is what the primary has run and then has pending, `copy[s]`
the same of a secondary (`stream`), and `ran` the length of what each has run.

### FrameLoop

`Script` is what runs before the kernel does, `setActiveApplication` included
(`active`). `phase` is the callback the kernel is in; `calling` says that the
delegate's Lua function is running, during which scripts may install another
delegate or stop the kernel. `Returns`, `Raises` and `RaisesNoString` (an error
that is no string ends the process in the error handler) are the ends of
`_forwardCallToDelegate`. `outcomes` and `added` (the sum of the deltas handed to
scripts, less what the clock was set back by) are history.

### FrameActions

A coroutine that runs (`running`) adds, removes, waits or ends; outside an
update any script adds and removes. A wait is what is left of it: redraws or
seconds. A new coroutine is one that waits for its first resume. An error in
the body and a normal return both leave a dead coroutine that is not kept.
`due`, `runs`, `fresh`, `gone` (removed by `removeFrameAction`) and `missed` (a
removal that did not find its action) are history.

### Console

`kind` is chosen at the start. The main thread's steps are those of `main`, of
the console's construction (`s_console` is set before the derived class is
there: `console = "base"`), of `threadLoop`, of the user's run button, file
dialogs and save, and of the end. Qt's rule for signals across threads: nothing
if no slot is connected, an event for the main thread otherwise. FLTK's display
is written by whichever thread prints, in two steps (`ChunkPrints`, `Written`),
so that two writers can meet (`torn`). `terminal = FALSE` is the build in which
standard output goes to the debug log. Without the testbed (`loads = FALSE`) a
main returns, or, in that build, `ReportFailure` enters the event loop without
a kernel; the console then has no run buffer, and adding to it ends the program
(`NoRunBuffer`). `Poll` closes the window of a program whose kernel does not run
(`"expired"`), the user closes it otherwise (`"closed"`).

### StateMachine

`NextFrame` chooses the events that occur, the same ones on every node; each
node then goes through the events of its state's table in an order of its own
(`HandleEvent`). `table` is the table that `pairs()` goes on with after `state`
has changed. `Chain` resolves enter callbacks that move on by themselves.
`tied` (two events of a state occurred in one frame) and `stale` (a handler of
a state that was left has run) are history.

### Navigator and Gadgets

`NewFrame` is a device update and the next frame's length; `Navigate` is one
call of the action: goal, eased velocity, way. Velocities and times are integers
and the rates divide the maximum, so that the ramp is exact; one ease is
followed, as the two share nothing. `ramp` is history: where the current ramp
began, with which goal, and how long it has lasted.

### Programs

`Stages` is what each `main()` does in order. `FindUpwards` is LuaPath's search
of five levels from each starting place; a file system is a record of what each
directory holds. `Bind` applies the bindings and requires `vrjlua-init`;
`Testbed` consumes one argument a step; `Interpreter` one part of the command
line a step, with `Sigint` and the hook between any two of them. What a chunk
does is a choice among the library calls that matter (start, enter, stop, wait,
require, initialise). The kernel's thread calls into Lua (`KernelCalls`) while
it runs.

### OsgBinding

`Register` adds an overload; `Call` begins a call with any arguments, or with
what the last call returned; `ScoreOne` scores the next overload; `Invoke`,
`Fail` and `Return` end the call. `Match` and `From` are the converters' two
functions; `TypeToString` says as what, an osgLuaBind object, value or neither, an
error presents a parameter. These are `osgLuaBind.h`; the steps of the call are
those of the luabind in `third-party/` (`detail/call.hpp`, `function.cpp`,
`make_function.hpp`). Which casts osgIntrospection knows is a parameter.

## 3. What the runs check

| Run | Question | States | Bounds |
| --- | --- | --- | --- |
| `runbuffer` | `AcceptedInOrder`, `FrameBounded`, `NoLostWakeup`, `QueueSpec` (implements ChunkQueue), `Progress` (what is accepted is executed, addString returns) | 67k | three producers and the consumer, producers in both modes, capacity 2, one call each |
| `sync` | `RunsOnce`, `EarlyBirdsKept` (the first ones that fit, in order), `SecondaryOverruled`, `OneLateBird`, `AcceptedRuns` | 25k | capacity 2, three early birds, three GUI calls |
| `cluster` | `ClusterConsistent` (with `Lockstep`: nodes agree at every barrier unless a GUI adds), `LogSpec` (implements ReplicatedLog), `EveryoneRuns` | 35k of 51k | two secondaries, capacity 2, two GUI calls, two script calls |
| | `OneStateInside`, `OnlyTiesGoWrong`, `StopsTogether` | 16k | two nodes, four states, three events |
| `kernel_thread` | FrameLoop: `DeltasAddUp`, `WatchdogExact` | 417k of 1.2M | two delegates with any set of callbacks, two whole frames and a third begun, time 0..1 |
| | FrameActions: `ActionsTypeOK`, `ListExact`, `OnceInOrder`, `WaitsExactly` | 338k | three actions, three frames, waits and deltas to 1; or two actions, four frames, waits and deltas to 2 |
| | Navigator: `FrameRateIndependent`, `GlideBounded`, `StateConsistent` | 201k | maximum 4, four ticks to it, two to a stop, a second of two ticks, frames of 0 to 3 |
| | OsgBinding: `BindingTypeOK`, `OverloadsResolve`, `ReturnedIsAccepted` | 273k | up to three of eight overloads in any order, three classes, three value types |
| `console` | `TypeOK`, `DisplayComplete`, `CodeRunsOnce`, `ThreadsKeepApart`, `DisableIsKept`, `ShutsDown` | 251k | three kinds, two pieces of code, two tries |
| `programs` | `TypeOK`, `StartUpComplete`, `Configured`, `LuaStateSafe`, `FailureIsFinal`, `SigintHandled` | 2.0M | seven file systems, two arguments, one option, one line, two library uses, two Ctrl-C |
| `runbuffer_lua_add` | *violated*: a script's one-argument add returns | 8k | one producer, three calls |
| `cluster_max_run` | *violated*: only synchronised chunks run | - | one secondary, one GUI call |
| `frame_actions_remove` | *violated*: a removed action is not resumed again | - | two actions, two frames |
| `console_log` | *violated*: the window with the log stays open | - | one piece of code |
| `programs_roles` | *violated*: a node has one role | - | those of `programs` |
| `osg_exact_match` | *violated*: the overload with the fewest casts is called | - | two of eight overloads |

Every invariant and action property of these runs is also proved for all values
of the constants (section 5), and so are the type invariants of the modules whose
runs do not spend a property on them. The liveness properties and the six
violations are TLC's alone.

Why the bounds are enough for what they are used for. A capacity of two with
three chunks reaches full, empty and the wrap between them; with capacity one
front and back are the same element. Two sleepers are needed for a signal to
wake the wrong one, three producers for one to take the slot meant for another.
Three early birds are one more than fit. Two secondaries are the least that can
disagree. The watchdog judges a frame at the beginning of the next, so that the
third `preFrame` judges a second frame that follows a first one of either kind;
an action that is added in one frame, runs in the next and is judged in the
third. Three actions give one before and one after the actor in the list; a wait
of two with deltas of nought to two ends early, exactly or late. A piece of code
that is refused, tried again and overtaken by another takes two pieces and two
tries. Four states give a state that is passed through, one with two events and
a move to nil. Two arguments are the least that can contradict each other; the
file systems are an installation near the program, near the working directory,
near both, at the last level looked at and one beyond it, the flat layout, a
build tree, and no VPR. A velocity that takes four ticks to its maximum and two
to a stop, with frames of up to three, crosses zero inside frames, ends ramps
inside frames and outlasts a second of two. Three overloads are the least among
which two can tie below a third; the eight hold every form of a parameter, two
in a chain of base classes, one conversion each way, and another arity. The
capacity, the numbers of threads, nodes, delegates and calls, the tables of
states, the rates and the file systems are parameters of the proofs.

All counters are bounded in guards (`MaxAdds`, `MaxGui`, `MaxKernel`,
`MaxFrames`, `MaxTime`, `MaxDelta`, `MaxWait`, `MaxEarly`, `MaxCode`,
`MaxTries`, `MaxArgs`, `MaxOptions`, `MaxLines`, `MaxUses`, `MaxSigints`,
`MaxOverloads`, `FrameBound`, `MaxFrameTicks`; `FewFrames`, `SmallDelta`,
`ShortWait` and `TwoActions` of MCKernelThread); no state constraint is used.
Symmetry is used only in `kernel_thread`, which checks safety, on delegates and
actions, which the specifications do not tell apart. Deadlock checking is off
where the system ends (a process that exits, frames used up) or may stop as
`runbuffer_lua_add` shows, and on for the cluster, whose buffers go on for ever
and whose state machines stop only once all kernels have ended (`Over`).

### Fairness

- RunBuffer: the kernel thread runs frame after frame, and a thread that has
  entered `addString` goes on (weak fairness of its steps, which includes taking
  a mutex that is free). Calling `addString` is a choice and not fair. Spurious
  wake-ups stop eventually; that is a premise, not a bound, because a condition
  variable may give any number of them. The calls are finitely many, so nobody
  can keep the mutex busy for ever.
- SyncRunBuffer: main comes to start the kernel, whose thread runs; a call the
  GUI thread began returns.
- ClusterRunBuffer: every node gets on with its frame, the GUI thread lets go
  of the lock. A primary that meets the held lock in every frame would never
  run anything; the finitely many GUI calls rule this out.
- Console: the event loop serves its queue and its timers, the kernel thread
  gets on. The user is not fair.
- StateMachine: frames come, nodes finish them; a kernel that was told to stop
  stops, at the latest after infinitely many chances (strong fairness, because
  it may only do so between frames).

The other models have no liveness properties: what must happen there must happen
by the end of a frame or of a step of main and is stated as safety
(`WatchdogExact`, `OnceInOrder`, `WaitsExactly`, `FrameRateIndependent`), or the
programs wait for a user.

## 4. Where the code and its texts part

Six runs expect a violation of what a text of the repository says:

1. `runbuffer_lua_add`: `BindRunBufferToLua.inl:47-49` casts a two-parameter
   member function to a one-parameter one; the default `blocking = false` of the
   declaration (`SynchronizedRunBuffer.h:63`) is not applied. The value passed is
   indeterminate, so the model takes both. With `true`, a script on the kernel
   thread sleeps for ever.
2. `cluster_max_run`: `_maxRun` is written and sent but never limits `runBuffer`;
   a chunk added between synchronisation and `latePreFrame` runs on the primary
   and on no secondary in that frame.
3. `frame_actions_remove`: "Remove a frame action, stopping it from executing"
   (`lua/Actions.lua:71`). During an update `removeFrameAction` searches only the
   list under construction, in which neither the running action is nor one that
   is still to be resumed; these run on and are kept. `ListExact`, which holds,
   is about the removals that find their action.
4. `console_log`: "see View->Show debug log", "exit when finished viewing log"
   (`src/QTNavMain.cpp:90-91`). Without the testbed no kernel runs, and the first
   `checkRunningState` closes the window. `ShutsDown` only says that the program
   ends once its window is closed or the kernel told to stop.
5. `programs_roles`: "Can't be both a primary and secondary node!"
   (`lua/osgnav-testbed.lua:33`). `primary()` reads a global `isSecondary` that
   nobody sets, so that `--cluster-secondary --cluster-primary` makes a node both.
   `Configured`, which holds, says what the other command lines lead to.
6. `osg_exact_match`: luabind "will prefer matches with the least number of
   implicit casts" (`third-party/luabind/doc/docs.rst:304-306`; line 355 has an
   example). `osgLuaBind.h` scores an exact match 2 and a cast 1 or 0, and luabind
   calls the overload of the least score. `OverloadsResolve` says that it is this
   one, whatever the order of registration, and not that it is the best match.

Elsewhere the properties state exactly what the code does instead of what its
comments hope for, so that both directions are checked:

- `FilesKept`: `init()` ignores what the inner `addString` returns; of the early
  birds exactly the first ones that fit are run.
- `OneLateBird`: a GUI thread that read `_init` before it was set adds an early
  bird after the replay, and is told that it was accepted; there is at most one.
- `DisableIsKept`: a `disableAction` that comes before `threadLoop` has connected
  its slot is lost; a later one is carried out, but in FLTK's console.
- `OnlyTiesGoWrong`: `pairs()` goes on with the table of a state that was left;
  what follows takes two events of a state in one frame.
- `LuaStateSafe`: `vrjKernel.start()` returns while the kernel's thread runs
  callbacks on the same Lua state.
- `GlideBounded`: a frame longer than a second is clamped for the velocity and
  not for the way.
- `Configured`: FLTK's main does not look at the result of its testbed
  (`src/FLTKNavMain.cpp:44`), which fails there because nobody sets `arg`: the
  kernel is started without a role and without a configuration. The property is
  about testbeds that come to their end, as Qt's do before its kernel starts.

## 5. What is proved

Every safety property of section 3 is a theorem. A proof module extends the
module it is about, `FrameProofs` and `LibraryProofs` two of them; the constants
are arbitrary but for the named assumption of each module, which TLC evaluates in
every run. Where an invariant is not inductive as it stands, the strengthening
named below is; it was checked on the run's instance before it was proved. Every
step lemma has one step per action.

**RunBufferProofs** (`RunBufferAssumption`): `TypeCorrect`, `OrderCorrect`
(`AcceptedInOrder`), `PopCorrect`, `FrameCorrect` (`FrameBounded`),
`LockCorrect`, `WakeupCorrect` (`NoLostWakeup`), and `RefinesQueue`: the buffer
implements ChunkQueue. One inductive invariant in five layers, each relative to
those before it: `TypeInv` (with two facts types need: a thread inside
`addString` has made a call, and a consumer at `pop` has something to pop,
because only `Pop` takes elements away, which is why the emptiness tests need no
lock), `LockInv` (a thread at `push` holds the lock and sees space), `OrderInv`
(executed, current and buffered chunks are the accepted ones), `LoopInv` (chunks
run in this frame plus those left to run stay below `limit`), `WaitInv` (if a
thread sleeps, the buffer is not empty or a thread is about to fill it).
`RefinesQueue` maps `Push` to `Accept`, `Pop` to `Take`, `RunReturns` to
`Finish`, every other action to a stutter.

**SyncRunBufferProofs** (`SyncRunBufferAssumption`): `SyncTypeCorrect`,
`SyncOnceCorrect` (`RunsOnce`), `EarlyBirdsCorrect` (`EarlyBirdsKept`),
`SecondaryCorrect` (`SecondaryOverruled`), `LateCorrect` (`OneLateBird`).
`ToldInv`: after init() the console has been told exactly on a secondary.
`OwnInv`: an `explicit` secondary has no chunk of its own in the buffer when it
runs. `SizeInv`: where `next`, `left` and the lengths may be. `LateInv`: a chunk
left in `early` after the clear is the GUI thread's last one. `OnceInv`: the
stream (executed, then buffered) and `early` are injective, what the GUI thread
is adding is in neither (`Fresh`), and the early birds still to be replayed are
not in the stream (`Pending`). `OrderInv`: a file handed over comes before every
file still to be (`HandedOver`). `KeptInv`: until init() is over the buffer holds
as many of the files handed to it as fit and nothing else (`StartingUp`), so that
afterwards exactly the first ones are in the stream (`FirstOnes`), whatever is
run and added from then on.

**ClusterRunBufferProofs** (`ClusterAssumption`): `ClusterTypeCorrect`,
`LockstepCorrect` (`Lockstep`), `ClusterCorrect` (`ClusterConsistent`, which
Lockstep is a part of), `RefinesLog` (`LogSpec`). Running a
chunk leaves a node's stream as it is; secondaries have an empty buffer when they
synchronise (`Emptied`), so that they stay equal (`SameStreams`) and inside the
primary's stream (`Covered`); a new chunk is in no stream (`Fresh`). `LockInv`:
as long as no other thread adds, a secondary's stream is what the primary has
run and what it has yet to run of the chunks it sent in this frame
(`primaryStream`); the barrier makes the two equal. Refinement (`LogStep`):
`Synchronise` is a `Send`, because the secondaries are `Emptied`, the primary's
buffer is the part of the log it has not run (`PendingIsRest`) and the read
buffer takes it in full; `GuiAdds` and an accepted `KernelAdds` are an `Accept`
(the chunk is new by `Fresh`), `RunOne` an `Execute`, and every other step
stutters.

**FrameProofs** (`FrameLoopAssumption`, `FrameActionsAssumption`). FrameLoop:
`FrameTypeCorrect`, `DeltasCorrect` (`DeltasAddUp`), `ExactCorrect`
(`WatchdogExact`). The success flag is set exactly if the history has a sign of
life (`FlagTells`); the stored time stamp lags behind only while a `preFrame`
callback runs (`StampCurrent`). FrameActions: `ActionsTypeCorrect`
(`ActionsTypeOK`), `ListCorrect` (`ListExact`), `OrderCorrect` (`OnceInOrder`),
`WaitsCorrect` (`WaitsExactly`). The new list and the rest of the list taken
over hold every suspended coroutine but those a removal took off, each once
(`Lists`); the one that runs is the one at the place reached (`Runs`), and that
place tells which were resumed (`Once`). The order is kept because the list
grows at its end and an update moves its rest behind what is there already. What
is left of a wait counts from this frame for a coroutine that was resumed in it,
and from the frame before for one that is still to be (`WaitOf`).

**StateMachineProofs** (`StateMachineAssumption`): `TypesOK`, `OneStateIsInside`
(`OneStateInside`), `TiesCorrect` (`OnlyTiesGoWrong`). Without a tie a node that
has moved has no occurred event left (`MovedIsDone`), so every node goes from the
same state to the same one (`InStep`), whatever its order of events.

**ConsoleProofs** (`ConsoleAssumption`): `ConsoleTypeCorrect` (`TypeOK`),
`CodeCorrect` (`CodeRunsOnce`), `DisplayIsComplete` (`DisplayComplete`),
`ThreadsCorrect` (`ThreadsKeepApart`), `DisableCorrect` (`DisableIsKept`).
`ControlInv` relates where the two threads are to what of the console is there;
`BufferInv` says what the queues hold; `RequestInv` follows a request from the
emission to the event loop. A piece of code is unsent, buffered, running or has
run, one of these (`PlacesApart`), and its output is in the event queue or on the
display, once, or about to be written (`OutputApart`). With Qt, code that is
buffered or has its output under way is on the display already, but for the
piece whose line addString is about to add (`EchoIsDue`); the console is ready
only behind the connection of the text signal (`SlotBeforeReady`).

**ProgramsProofs** (the assumptions of the five parts): `ProgramsTypeCorrect`
(`TypeOK`), `StartUpCorrect` (`StartUpComplete`), `ConfiguredCorrect`
(`Configured`), `LuaStateCorrect` (`LuaStateSafe`), `FailuresCorrect`
(`FailureIsFinal`), `SigintCorrect` (`SigintHandled`). Every step is one of a
few moves of the interpreter (`InterpMove`); `StageOf` says which stage an
action belongs to; `ThreadInv` and `ClosedInv` say where main may be while the
kernel's thread is alive. `ConfInv`: nothing is configured before the arguments
are read, and the testbed's end decides between jconf files, the fallback and,
on a secondary, nothing. `RoleInv`: the roles the kernel was given are those
among the arguments read so far, and no stage behind the testbed's gives
another. `StartUpCorrect` holds for every tree of directories and every
placement of files in it: `Upwards` is shown to reach the directories of the
first levels and to find the nearest one that holds the file (`ReachableIs`,
`FoundUpwards`, by the least index, as natural numbers are well founded);
`LocationInv` says that LuaPath's singleton is what `Initialised` computes from
the starting places, `PathInv` that Lua's search path is one of two, and
`ModuleInv` that every module was loaded from the place `Source` names. The
steps that leave all this alone are told apart once (`Quiet`).

**LibraryProofs** (`NavigatorAssumption`: the rates divide the maximum;
`OsgBindingAssumption`). Navigator: `EasingCorrect` (`FrameRateIndependent`),
`GlideCorrect` (`GlideBounded`), `StateCorrect` (`StateConsistent`). Easing is a
move towards the goal by rate times time (`EasedIsToward`); two such moves add
up (`TowardAdds`) also through zero, and enough time arrives (`EnoughReaches`);
what has been glided is bounded by what velocity has been lost, as kinetic
energy is (`GlideInv`); `EdgeInv` follows the button's level from one update to
the next. OsgBinding: `BindingTypeCorrect` (`BindingTypeOK`), `OverloadsCorrect`
(`OverloadsResolve`), `ReturnedCorrect` (`ReturnedIsAccepted`). The candidates
are at any time the overloads of the least score among those looked at, each of
them once (`Ranking`); no score reaches infinity, because arity is limited
(`SumBounded`), so at the end the candidates are a function of the set of
overloads (`CandidatesAreLeast`). What a value that scores becomes in C++, and
becomes again in Lua, has the parameter's type (`Converted`). The assumption
keeps the names of classes and of value types apart, as two C++ types are, takes
luabind's arity of ten, and at most as many overloads as luabind keeps
candidates.

The proofs changed two definitions. `UserConfigFirst` was a CASE whose guards
could hold together, so that its value rested on the order in which TLC tries
them; it is three implications that exclude each other now. The assumptions of
FrameActions, LuaPath and OsgBinding state what the proofs showed to be needed.

Only model-checked: liveness (`Progress`, `AcceptedRuns`, `EveryoneRuns`,
`ShutsDown`, `StopsTogether`), which is out of the prover's reach, and the six
violations of section 4. No recursive operator is used; sums and walks are
recursive functions, and what they compute is proved by a minimal counterexample.

## 6. What is not modelled, and why

- Vendored libraries but for luabind's overload resolution, Mesa's
  `constants/gl.h`, assets, build files, examples.
- `Reconfiguration.cpp`: two loops that hand configuration elements to jccl,
  which decides what and when.
- Scene, text and model helpers in Lua: they build nodes from arguments.
- The position interface: a matrix times a unit factor.
- `addNodeAction`: its coroutine is resumed by OSG's update traversal, and after
  the first resume its callback raises an error (`lua/Actions.lua:43`); what the
  traversal does then is external.
- Code without a caller: `LuaScript::call`, `LuaConsole::runFileImmediately`,
  `createRunBuf` and `runBuffer`, `LuaPath::findFilePath` and `findAppRoot`.
- The Lua stack: a failing chunk leaves its message there.
- The proxy's scene root, head position and viewer configuration, which only
  call OSG; the consoles' layout, about box and highlighting; the interpreter's
  banner, prompts and the wording of messages.
- The content of chunks: any chunk may print, add, remove, stop, start or fail.
- The network, Qt's event loop, VR Juggler's kernel, osgLua, Lua and boost's
  containers are external and modelled from how the code uses them.
- Torn accesses: `_earlyBirds`, `_printFunc`, `_log` are used by two threads
  without a lock. Their accesses are interleaved and not torn. FLTK's display
  is the exception: there a torn write is a state of its own.

A secondary may run a chunk twice (the primary gives up a frame on a contended
lock, keeps the chunk and sends it again); no text of the repository promises
otherwise, so it is recorded as a hazard and not as a finding.

## 7. The plan

Done: all modules of section 2 and the proofs of section 5. Left: the
shutdown of a console while the kernel thread is blocked in a script's add,
which composes Console with RunBuffer.
