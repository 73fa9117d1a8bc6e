------------------------------- MODULE Programs --------------------------------
(***************************************************************************)
(* The programs of src/src: the navigation testbed with its Qt and its     *)
(* FLTK console (QTNavMain.cpp, FLTKNavMain.cpp) and the interpreter       *)
(* vrjlua (lua.c), from main() to its return, composed of LuaPath,         *)
(* LuaScript, Testbed, KernelState and Interpreter, with the kernel's      *)
(* thread beside them.  The consoles' loops are in module Console.         *)
(***************************************************************************)
EXTENDS Testbed, Interpreter

CONSTANT MaxUses    \* bound: library calls the chunks of a command line make

ASSUME ProgramsAssumption == MaxUses \in Nat

VARIABLES
    program,    \* "qt", "fltk" or "vrjlua"
    arg0,       \* how the program was called
    stage,      \* how far main() is
    exit,       \* "no", "ok", "failed", or "help" and "roles" from os.exit
    inLua,      \* the kernel's thread runs Lua, on the same state
    used        \* history: what the chunks used of the libraries

mainVars == <<program, arg0, stage, exit, inLua, used>>
vars == <<mainVars, kernelVars, pathVars, scriptVars, testbedVars, interpVars>>

\* What main() does, in order.
Stages ==
    [qt     |-> <<"setpath", "open", "bind", "require", "testbed", "runbuf",
                  "start", "loop", "stop", "wait", "close">>,
     fltk   |-> <<"setpath", "open", "bind", "require", "testbed", "runbuf",
                  "start", "loop", "stop", "wait", "close">>,
     vrjlua |-> <<"open", "setpath", "bind", "interpret", "close">>]

At(s) == /\ exit = "no" /\ ~killed
         /\ stage <= Len(Stages[program])
         /\ Stages[program][stage] = s
Goes == stage' = stage + 1

Init ==
    /\ KernelInit /\ PathInit /\ ScriptInit /\ TestbedInit
    /\ program \in {"qt", "fltk", "vrjlua"}
    /\ arg0 \in {"path", "bare"}
    /\ stage = 1
    /\ exit = "no"
    /\ inLua = FALSE
    /\ used = {}
    /\ InterpreterInit
    /\ todo \in IF program = "vrjlua" THEN CommandLines ELSE {<<>>}

-----------------------------------------------------------------------------
SetPath ==
    /\ At("setpath") /\ Goes
    /\ lp' = Instance(arg0)
    /\ UNCHANGED <<disk, packagePath, modelPath, program, arg0, exit, inLua, used,
                   kernelVars, scriptVars, testbedVars, interpVars>>

Open ==
    /\ At("open") /\ Goes
    /\ OpenState
    /\ UNCHANGED <<program, arg0, exit, inLua, used, kernelVars, testbedVars, interpVars>>

Bind ==
    /\ At("bind") /\ Goes
    /\ ApplyBindings
    /\ UNCHANGED <<program, arg0, exit, inLua, used, kernelVars, testbedVars, interpVars>>

BindFails ==
    /\ At("bind") /\ UNCHANGED stage
    /\ WrappersFail
    /\ exit' = "failed"
    /\ UNCHANGED <<program, arg0, inLua, used, kernelVars, testbedVars, interpVars>>

\* Qt's main ends if the testbed cannot be loaded; FLTK's goes on, and has no
\* table "arg".
RequireTestbed ==
    /\ At("require") /\ Goes
    /\ Require("osgnav-testbed")
    /\ IF CanRequire(packagePath, "osgnav-testbed")
       THEN TestbedBegins(program = "qt")
       ELSE /\ testbed' = "failed"
            /\ UNCHANGED <<args, sawPrimary, sawSecondary, jconfs, files, rest>>
    /\ UNCHANGED <<program, arg0, exit, inLua, used, kernelVars, interpVars>>

RunTestbed ==
    /\ At("testbed")
    /\ ParseArgument \/ TestbedEnds
    /\ UNCHANGED <<mainVars, interpVars>>

\* Mutant of LeaveTestbed: Qt's main ignores the result, as FLTK's does.
MutLeaveTestbed ==
    /\ At("testbed") /\ testbed \in {"done", "failed", "exited"}
    /\ IF testbed = "exited" THEN exit' = "roles" /\ UNCHANGED stage
       ELSE Goes /\ UNCHANGED exit
    /\ UNCHANGED <<program, arg0, inLua, used, kernelVars, pathVars, scriptVars,
                   testbedVars, interpVars>>

LeaveTestbed ==
    /\ At("testbed") /\ testbed \in {"done", "failed", "exited"}
    /\ CASE testbed = "exited" -> exit' = "roles" /\ UNCHANGED stage
         [] testbed = "failed" /\ program = "qt" -> exit' = "failed" /\ UNCHANGED stage
         [] OTHER -> Goes /\ UNCHANGED exit
    /\ UNCHANGED <<program, arg0, inLua, used, kernelVars, pathVars, scriptVars,
                   testbedVars, interpVars>>

\* getRunBufFromLuaGlobal throws without the global the testbed sets first.
GetRunBuf ==
    /\ At("runbuf")
    /\ IF Loaded("osgnav-testbed") THEN Goes /\ UNCHANGED exit
       ELSE exit' = "failed" /\ UNCHANGED stage
    /\ UNCHANGED <<program, arg0, inLua, used, kernelVars, pathVars, scriptVars,
                   testbedVars, interpVars>>

Start ==
    /\ At("start") /\ Goes
    /\ StartDirectly
    /\ UNCHANGED <<program, arg0, exit, inLua, used, pathVars, scriptVars, testbedVars,
                   interpVars>>

\* The console's loop ends with its window, or with the kernel.
LoopEnds ==
    /\ At("loop") /\ Goes
    /\ UNCHANGED <<program, arg0, exit, inLua, used, kernelVars, pathVars, scriptVars,
                   testbedVars, interpVars>>

StopKernel ==
    /\ At("stop") /\ Goes
    /\ Stop
    /\ UNCHANGED <<program, arg0, exit, inLua, used, pathVars, scriptVars, testbedVars,
                   interpVars>>

\* Mutant of Wait: main does not wait.
MutWait ==
    /\ At("wait") /\ Goes
    /\ UNCHANGED <<program, arg0, exit, inLua, used, kernelVars, pathVars, scriptVars,
                   testbedVars, interpVars>>

Wait ==
    /\ At("wait") /\ Goes
    /\ Joined
    /\ UNCHANGED <<program, arg0, exit, inLua, used, kernelVars, pathVars, scriptVars,
                   testbedVars, interpVars>>

\* The end of main: the state is closed.
Close ==
    /\ At("close") /\ Goes
    /\ CloseState
    /\ exit' = IF status THEN "failed" ELSE "ok"
    /\ UNCHANGED <<program, arg0, inLua, used, kernelVars, testbedVars, interpVars>>

-----------------------------------------------------------------------------
(* vrjlua: what its chunks do.                                              *)

Interpret ==
    /\ At("interpret")
    /\ \/ FailsToLoad
       \/ ReadsOn
       \/ CallBegins
       \/ ChunkReturns
       \/ ChunkRaises
       \/ Interrupted
       \/ CallEnds
       \/ ShowsResults
       \/ InputEnds
    /\ UNCHANGED <<mainVars, kernelVars, pathVars, scriptVars, testbedVars>>

Interpreted ==
    /\ At("interpret") /\ Goes
    /\ todo = <<>> /\ call = "none"
    /\ UNCHANGED <<program, arg0, exit, inLua, used, kernelVars, pathVars, scriptVars,
                   testbedVars, interpVars>>

InChunk == At("interpret") /\ call = "lua" /\ ~hook

Uses(what) ==
    /\ what \notin used /\ Cardinality(used) < MaxUses
    /\ used' = used \cup {what}
    /\ UNCHANGED <<program, arg0, stage, exit, inLua>>

\* Mutant of ChunkStarts: enter() does not wait, as start() does not.
MutChunkStarts(waiting) ==
    /\ InChunk /\ Uses(IF waiting THEN "enter" ELSE "start")
    /\ DoStart(waiting)
    /\ UNCHANGED <<pathVars, scriptVars, testbedVars, interpVars>>

\* vrjKernel.start(), or enter(), which then waits for the kernel.
ChunkStarts(waiting) ==
    /\ InChunk /\ Uses(IF waiting THEN "enter" ELSE "start")
    /\ DoStart(waiting)
    /\ call' = IF waiting THEN "blocked" ELSE call
    /\ UNCHANGED <<todo, handler, hook, status, lines, sigints, killed, failures, cut>>
    /\ UNCHANGED <<pathVars, scriptVars, testbedVars>>

\* vrjKernel.waitForKernelStop().
ChunkWaits ==
    /\ InChunk /\ UNCHANGED mainVars
    /\ ~Joined
    /\ call' = "blocked"
    /\ UNCHANGED <<todo, handler, hook, status, lines, sigints, killed, failures, cut>>
    /\ UNCHANGED <<kernelVars, pathVars, scriptVars, testbedVars>>

WaitIsOver ==
    /\ At("interpret") /\ call = "blocked" /\ Joined
    /\ call' = "lua"
    /\ UNCHANGED <<todo, handler, hook, status, lines, sigints, killed, failures, cut>>
    /\ UNCHANGED <<mainVars, kernelVars, pathVars, scriptVars, testbedVars>>

ChunkStops ==
    /\ InChunk /\ Uses("stop")
    /\ Stop
    /\ UNCHANGED <<pathVars, scriptVars, testbedVars, interpVars>>

\* A script sets the node's role itself.
ChunkInits ==
    /\ InChunk /\ Uses("init")
    /\ kernel = "idle"
    /\ \E role \in {Single, Primary, Secondary} : InitAs(role)
    /\ UNCHANGED <<juggler, kernel, configs, started>>
    /\ UNCHANGED <<pathVars, scriptVars, testbedVars, interpVars>>

\* A script adds the directory of its own modules to the search path.
ChunkAppends ==
    /\ InChunk /\ Uses("append")
    /\ \E slash \in BOOLEAN : AppendToLuaRequirePath(Place(ExeDir, "here"), slash)
    /\ UNCHANGED <<kernelVars, scriptVars, testbedVars, interpVars>>

Chunk ==
    \/ \E waiting \in BOOLEAN : ChunkStarts(waiting)
    \/ ChunkWaits
    \/ WaitIsOver
    \/ ChunkStops
    \/ ChunkInits
    \/ ChunkAppends

CtrlC ==
    /\ At("interpret")
    /\ Sigint
    /\ UNCHANGED <<mainVars, kernelVars, pathVars, scriptVars, testbedVars>>

-----------------------------------------------------------------------------
(* The kernel's thread.                                                     *)

KernelCalls ==
    /\ kernel \in {"running", "stopping"} /\ ~inLua /\ ~killed
    /\ inLua' = TRUE
    /\ UNCHANGED <<program, arg0, stage, exit, used, kernelVars, pathVars, scriptVars,
                   testbedVars, interpVars>>

\* A callback returns, perhaps having asked the kernel to stop.  If the hook was
\* set before its last instruction, it fired here and is gone.
KernelReturns ==
    /\ inLua /\ ~killed
    /\ inLua' = FALSE
    /\ hook' \in {hook, FALSE}
    /\ cut' = IF hook /\ ~hook' THEN cut + 1 ELSE cut
    /\ kernel' \in {kernel, "stopping"}
    /\ UNCHANGED <<juggler, roleVars, configs, started, program, arg0, stage, exit, used,
                   pathVars, scriptVars, testbedVars, todo, call, handler, status, lines,
                   sigints, killed, failures>>

KernelEnds ==
    /\ kernel = "stopping" /\ ~inLua /\ ~killed
    /\ kernel' = "stopped"
    /\ UNCHANGED <<mainVars, juggler, roleVars, configs, started, pathVars, scriptVars,
                   testbedVars, interpVars>>

Next ==
    \/ SetPath \/ Open \/ Bind \/ BindFails
    \/ RequireTestbed \/ RunTestbed \/ LeaveTestbed \/ GetRunBuf
    \/ Start \/ LoopEnds \/ StopKernel \/ Wait
    \/ Close
    \/ Interpret \/ Interpreted \/ Chunk \/ CtrlC
    \/ KernelCalls \/ KernelReturns \/ KernelEnds

Spec == Init /\ [][Next]_vars

-----------------------------------------------------------------------------
(* Properties.                                                              *)

\* The type invariant.
TypeOK ==
    /\ juggler \in {2, 3} /\ kernel \in {"idle", "running", "stopping", "stopped"}
    /\ {initialised, isCluster, isPrimary, started, inLua, hook, status, killed} \subseteq BOOLEAN
    /\ \A i \in DOMAIN roles : roles[i] \in {Single, Primary, Secondary}
    /\ \A i \in DOMAIN configs : configs[i] \in {"fallback", "jconf"} \X Nat
    /\ lua \in {"none", "open", "bound", "closed"}
    /\ stage \in 1..(Len(Stages[program]) + 1)
    /\ testbed \in {"off", "parsing", "done", "failed", "exited"}
    /\ call \in {"none", "lua", "blocked", "returned", "failed", "print", "partial"}
    /\ handler \in {"default", "laction"}
    /\ {lines, sigints, cut} \subseteq Nat

Bound == lua \in {"bound", "closed"} /\ exit # "failed"

\* Reachable(d): the directory and those at most five levels above it.
Reachable(d) ==
    LET near[i \in 0..MaxUp] ==
            IF i = 0 THEN {d} ELSE near[i - 1] \cup {Parent[e] : e \in near[i - 1] \ {NoDir}}
    IN  near[MaxUp]
NearCwd == Reachable(Cwd)
NearExe == Reachable(ExeDir)

\* A program called by its path finds an installation if and only if one is
\* within five levels of the working directory or of the program, and it is the
\* program's own when the working directory is near none: the order in which
\* LuaPath's singleton is first asked for decides this, as later arguments of
\* instance() are ignored.
InstallationFound ==
    Bound /\ arg0 = "path" =>
        LET holds == IF (NearCwd \cup NearExe) \cap disk["share"] # {}
                     THEN disk["share"] ELSE disk["flat"]
        IN  CASE NearCwd \cap holds # {} -> lp.root \in NearCwd \cap holds
              [] NearCwd \cap holds = {} /\ NearExe \cap holds # {} ->
                     lp.root \in NearExe \cap holds
              [] OTHER -> lp.root = NoDir

\* No mixture of two installations: what is loaded from lua files comes from the
\* root that LuaPath found, but for a file in the working directory, which Lua
\* searches first, the user's own vrjlua-config in the etc directory, and what
\* a script put on the path.
OneInstallation ==
    \A m \in modules :
        \/ m[2] = Place(lp.root, "lua")
        \/ m[2] = Place(Cwd, "here")
        \/ m = Module("vrjlua-config", Place(lp.root, "etc"))

\* The configuration module that is loaded is the user's copy wherever there is
\* one (vrjlua-config.lua:2 tells the user to copy it to etc and edit it there).
UserConfigFirst ==
    \A m \in modules :
        m[1] = "vrjlua-config" =>
            LET own  == Cwd \in disk["mine"] \cup disk["flat"]
                copy == lp.root \in disk["etc"]
            IN  /\ own => m[2] = Place(Cwd, "here")
                /\ ~own /\ copy => m[2] = Place(lp.root, "etc")
                /\ ~own /\ ~copy => m[2] = Place(lp.root, "lua")

\* An installed program has its start-up module, whichever way it was called,
\* as soon as a root with the share layout is found.  With the flat layout the
\* lua directory lacks its slash and only the working directory's modules load.
InitLoaded ==
    Bound => (Loaded("vrjlua-init") <=> lp.root \in disk["share"] \/ Cwd \in disk["flat"])

\* The assets of an installation are found wherever its modules are, be they
\* below the root or, for a build tree, where the hint says (LuaPath.cpp:163,180).
AssetsFound ==
    Bound /\ lp.root \in disk["share"] =>
        ({ShareOf[lp.root], disk["hint"]} \cap disk["font"] # {}
             => FindInModelSearchPath("font") # NoDir)

\* Scripts and callbacks run with the garbage collector on, although it is stopped
\* while the bindings are applied: by LuaGCBlock, or by vrjlua's pmain.
CollectorRuns ==
    inLua \/ call # "none" \/ testbed = "parsing" => collecting

RolesAskedFor ==
    (IF "primary" \in Range(args) THEN {Primary} ELSE {})
    \cup (IF "secondary" \in Range(args) THEN {Secondary} ELSE {})

\* Qt's kernel runs only behind a testbed that came to its end.  (FLTK's runs
\* behind one that fails for want of "arg", without role or configuration:
\* FLTKNavMain.cpp:44 drops the result.)
RunsAfterTestbed == program = "qt" /\ kernel # "idle" => testbed = "done"

\* Then the node has the role that the command line asked for, and a configuration
\* exactly if it is no secondary, which gets it from the primary
\* (osgnav-testbed.lua:112-130).  Left open is the node that was asked to be first
\* the one and then the other (OneRole).
RoleAndConfig ==
    testbed = "done" /\ RolesAskedFor # {Primary, Secondary} =>
        /\ juggler = 3 => Range(roles) = RolesAskedFor
        /\ configs = <<>> <=> RolesAskedFor = {Secondary}

\* The fallback configuration is loaded alone, and jconf files all, once and in
\* their order (vrjlua-config.lua:5: the fallback is for when no jconf is given).
FallbackAlone ==
    \/ configs = <<>>
    \/ configs = <<Config("fallback", 0)>> /\ "jconf" \notin Range(args)
    \/ configs = [n \in DOMAIN jconfs |-> Config("jconf", jconfs[n])]

\* Two threads are in the same Lua state only after vrjKernel.start(): main
\* runs a chunk while the kernel's thread runs a callback.  enter(), and the
\* consoles, keep main out of Lua while the kernel runs.
OneThreadInLua ==
    /\ At("interpret") /\ call \in {"lua", "print"}
    /\ inLua
    => started

\* The Lua state is closed under a living kernel, whose callbacks still use it,
\* only when a script called vrjKernel.start() and ended without waiting.
ClosedAfterKernel == lua = "closed" /\ ~Joined => started

\* The interpreter stops at the first part of its command line that fails, and
\* says so, but for lines at the prompt and for a script read from the standard
\* input, whose failure the exit status hides.
FailureIsFinal ==
    /\ failures \ {"dotty", "stdin"} # {} => todo = <<>> /\ status
    /\ exit = "ok" => failures \subseteq {"dotty", "stdin"}

\* A Ctrl-C interrupts at most one chunk or callback, or ends the program; two of
\* them may interrupt one chunk together, when the first came too late for its own.
SigintInterruptsOnce ==
    cut + (IF hook THEN 1 ELSE 0) + (IF killed THEN 1 ELSE 0) <= sigints

\* Between chunks, and while results are printed, Ctrl-C ends the program:
\* docall installs the handler for the chunk only (lua.c:103-105).
HandlerOnlyInCall == handler = "laction" => call \notin {"none", "print", "partial"}

\* A node that the command line made primary is not made secondary after that:
\* the testbed leaves with an error first (osgnav-testbed.lua:46-54).
PrimaryStaysPrimary ==
    program # "vrjlua" =>
        \A i, j \in DOMAIN roles : i < j => ~(roles[i] = Primary /\ roles[j] = Secondary)

\* What scripts rely on is there when they run: one installation with its start-up
\* module, the user's configuration and the assets, and a running collector.
StartUpComplete ==
    /\ InstallationFound /\ OneInstallation /\ UserConfigFirst
    /\ InitLoaded /\ AssetsFound /\ CollectorRuns

\* "Can't be both a primary and secondary node!" (osgnav-testbed.lua:33): a testbed
\* gives its node one role.  The code does not keep to it: primary() reads a global
\* isSecondary that nobody sets (osgnav-testbed.lua:42), so that a secondary is made
\* primary in silence.
OneRole == program # "vrjlua" => Cardinality(Range(roles)) <= 1

\* What a testbed that came to its end leaves is the one role and the configuration
\* that the command line asked for, or the fallback alone, and Qt's kernel runs with
\* nothing less.
Configured == RunsAfterTestbed /\ RoleAndConfig /\ FallbackAlone /\ PrimaryStaysPrimary

\* One thread at a time is in the Lua state, and it is not closed under the kernel
\* thread, unless a script called vrjKernel.start() (BindKernelToLua.inl:190).
LuaStateSafe == OneThreadInLua /\ ClosedAfterKernel

\* A Ctrl-C has one effect: it interrupts a chunk that runs, or ends the program,
\* and it ends the program in between chunks (lua.c:35, 103-105).
SigintHandled == SigintInterruptsOnce /\ HandlerOnlyInCall
=============================================================================
