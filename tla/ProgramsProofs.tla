---------------------------- MODULE ProgramsProofs -----------------------------
(***************************************************************************)
(* Proofs about Programs: the interpreter's way with errors and signals,   *)
(* who may use the Lua state when, the testbed's roles and configurations, *)
(* for every command line, every layout of the file system and every       *)
(* number of signals.                                                      *)
(***************************************************************************)
EXTENDS Programs, SequenceTheorems, WellFoundedInduction, TLAPS

-----------------------------------------------------------------------------
(* What the interpreter's part of the state goes through in one step.       *)

\* A chunk that waits for the kernel, or is done waiting.
CallMoves ==
    /\ call \in {"lua", "blocked"} /\ call' \in {"lua", "blocked"}
    /\ UNCHANGED <<todo, handler, hook, status, lines, sigints, killed, failures, cut>>

\* The hook may fire in a callback of the kernel's thread.
CallbackCut ==
    /\ hook' \in {hook, FALSE}
    /\ cut' = IF hook /\ ~hook' THEN cut + 1 ELSE cut
    /\ UNCHANGED <<todo, call, handler, status, lines, sigints, killed, failures>>

InterpMove ==
    \/ UNCHANGED interpVars
    \/ FailsToLoad \/ ReadsOn \/ CallBegins
    \/ ChunkReturns \/ ChunkRaises \/ Interrupted
    \/ CallEnds \/ ShowsResults \/ InputEnds
    \/ Sigint
    \/ CallMoves \/ CallbackCut

LEMMA InterpMoves == [Next]_vars => InterpMove
<1> SUFFICES ASSUME [Next]_vars PROVE InterpMove
    OBVIOUS
<1> USE DEF InterpMove
<1>1. CASE SetPath \/ Open \/ Bind \/ BindFails \/ RequireTestbed \/ RunTestbed
    BY <1>1 DEF SetPath, Open, Bind, BindFails, RequireTestbed, RunTestbed
<1>2. CASE LeaveTestbed \/ GetRunBuf \/ Start \/ LoopEnds \/ StopKernel \/ Wait
    BY <1>2 DEF LeaveTestbed, GetRunBuf, Start, LoopEnds, StopKernel, Wait
<1>3. CASE Close \/ Interpreted \/ KernelCalls \/ KernelEnds \/ UNCHANGED vars
    BY <1>3 DEF Close, Interpreted, KernelCalls, KernelEnds, vars
<1>4. CASE Interpret
    BY <1>4 DEF Interpret
<1>5. CASE CtrlC
    BY <1>5 DEF CtrlC
<1>6. CASE KernelReturns
    BY <1>6 DEF KernelReturns, CallbackCut
<1>7. CASE Chunk
    <2>1. ASSUME NEW waiting \in BOOLEAN, ChunkStarts(waiting) PROVE CallMoves
        BY <2>1 DEF ChunkStarts, InChunk, CallMoves
    <2>2. CASE ChunkWaits \/ WaitIsOver
        BY <2>2 DEF ChunkWaits, WaitIsOver, InChunk, CallMoves
    <2>3. CASE ChunkStops \/ ChunkInits \/ ChunkAppends
        BY <2>3 DEF ChunkStops, ChunkInits, ChunkAppends
    <2> QED
        BY <1>7, <2>1, <2>2, <2>3 DEF Chunk
<1> QED
    BY <1>1, <1>2, <1>3, <1>4, <1>5, <1>6, <1>7 DEF Next

-----------------------------------------------------------------------------
(* Signals.                                                                 *)

LEMMA HandlerStep == HandlerOnlyInCall /\ InterpMove => HandlerOnlyInCall'
<1> SUFFICES ASSUME HandlerOnlyInCall, InterpMove PROVE HandlerOnlyInCall'
    OBVIOUS
<1> USE DEF HandlerOnlyInCall
<1>1. CASE UNCHANGED interpVars \/ CallMoves \/ CallbackCut
    BY <1>1 DEF interpVars, CallMoves, CallbackCut
<1>2. CASE FailsToLoad
    BY <1>2 DEF FailsToLoad, Usage, ChunkFailsToLoad, ScriptFailsToLoad, LineFailsToLoad, Fails
<1>3. CASE CallBegins
    BY <1>3 DEF CallBegins, ChunkBegins, LibraryBegins, ScriptBegins, LineBegins, DoCall
<1>4. CASE ReadsOn \/ ChunkReturns \/ ChunkRaises \/ Interrupted
    BY <1>4 DEF ReadsOn, ChunkReturns, ChunkRaises, Interrupted
<1>5. CASE CallEnds \/ ShowsResults \/ InputEnds \/ Sigint
    BY <1>5 DEF CallEnds, ShowsResults, InputEnds, Sigint
<1> QED
    BY <1>1, <1>2, <1>3, <1>4, <1>5 DEF InterpMove

\* Ctrl-C meets laction only while docall runs a chunk: docall puts the default
\* action back on every way out (lua.c:103-105).
THEOREM HandlerCorrect == Spec => []HandlerOnlyInCall
<1>1. Init => HandlerOnlyInCall
    BY DEF Init, InterpreterInit, HandlerOnlyInCall
<1> QED
    BY <1>1, HandlerStep, InterpMoves, PTL DEF Spec

SignalTypes ==
    /\ hook \in BOOLEAN /\ killed \in BOOLEAN
    /\ sigints \in Nat /\ cut \in Nat

SignalInv == SignalTypes /\ SigintInterruptsOnce

LEMMA SignalStep == SignalInv /\ InterpMove => SignalInv'
<1> SUFFICES ASSUME SignalInv, InterpMove PROVE SignalInv'
    OBVIOUS
<1> USE DEF SignalInv, SignalTypes, SigintInterruptsOnce
<1>1. CASE UNCHANGED <<hook, killed, sigints, cut>>
    <2>1. hook' = hook /\ killed' = killed /\ sigints' = sigints /\ cut' = cut
        BY <1>1
    <2>2. SignalTypes'
        BY <2>1 DEF SignalInv, SignalTypes
    <2>3. SigintInterruptsOnce'
        BY <2>1 DEF SignalInv, SigintInterruptsOnce
    <2> QED
        BY <2>2, <2>3
<1>2. CASE UNCHANGED <<killed, sigints>> /\ hook' = FALSE /\ hook /\ cut' = cut + 1
    <2>1. hook /\ ~hook'
        BY <1>2
    <2>2. hook' \in BOOLEAN /\ killed' \in BOOLEAN
        BY <1>2
    <2>3. sigints' \in Nat /\ cut' \in Nat
        BY <1>2
    <2>4. SigintInterruptsOnce'
        BY <1>2, <2>1
    <2> QED
        BY <2>2, <2>3, <2>4
<1>3. CASE Sigint
    <2>1. CASE handler = "laction"
        BY <1>3, <2>1 DEF Sigint
    <2>2. CASE handler # "laction"
        BY <1>3, <2>2 DEF Sigint
    <2> QED
        BY <2>1, <2>2
<1>4. CASE ChunkRaises \/ CallbackCut
    <2>1. CASE hook /\ ~hook'
        BY <1>2, <1>4, <2>1 DEF ChunkRaises, CallbackCut
    <2>2. CASE ~(hook /\ ~hook')
        BY <1>1, <1>4, <2>2 DEF ChunkRaises, CallbackCut
    <2> QED
        BY <2>1, <2>2
<1>5. CASE Interrupted
    BY <1>2, <1>5 DEF Interrupted
<1>6. CASE UNCHANGED interpVars \/ CallMoves \/ CallBegins \/ ReadsOn
    BY <1>1, <1>6 DEF interpVars, CallMoves, CallBegins, ChunkBegins, LibraryBegins, ScriptBegins,
                      LineBegins, DoCall, ReadsOn
<1>7. CASE FailsToLoad
    BY <1>1, <1>7 DEF FailsToLoad, Usage, ChunkFailsToLoad, ScriptFailsToLoad, LineFailsToLoad, Fails
<1>8. CASE ChunkReturns \/ CallEnds \/ ShowsResults \/ InputEnds
    BY <1>1, <1>8 DEF ChunkReturns, CallEnds, ShowsResults, InputEnds
<1> QED
    BY <1>3, <1>4, <1>5, <1>6, <1>7, <1>8 DEF InterpMove

LEMMA SignalInit == Init => SignalInv
<1> SUFFICES ASSUME Init PROVE SignalInv
    OBVIOUS
<1>1. hook = FALSE /\ killed = FALSE /\ sigints = 0 /\ cut = 0
    BY DEF Init, InterpreterInit
<1>2. ~hook /\ ~killed
    BY <1>1
<1>3. SigintInterruptsOnce
    BY <1>1, <1>2 DEF SigintInterruptsOnce
<1> QED
    BY <1>1, <1>3 DEF SignalInv, SignalTypes

\* Each Ctrl-C interrupts one chunk or callback at most, or ends the program,
\* however many are pressed and whichever thread takes the hook.
THEOREM SignalsCorrect == Spec => []SigintInterruptsOnce
<1>1. SignalInv => SigintInterruptsOnce
    BY DEF SignalInv
<1> QED
    BY SignalInit, <1>1, SignalStep, InterpMoves, PTL DEF Spec

-----------------------------------------------------------------------------
(* Failures.                                                                *)

\* The parts of a command line.
Part == {"init", "usage", "e", "l", "script", "dotty", "stdin"}

\* A chunk belongs to a part that is still on the list.
Pending ==
    /\ todo \in Seq(Part)
    /\ call # "none" => todo # <<>>

Fatal == failures \ {"dotty", "stdin"}

FailureInv == Pending /\ (Fatal # {} => todo = <<>> /\ status)

LEMMA CommandLineParts == CommandLines \subseteq Seq(Part)
<1>1. ASSUME NEW init \in BOOLEAN, NEW valid \in BOOLEAN, NEW script \in BOOLEAN,
             NEW i \in BOOLEAN, NEW v \in BOOLEAN, NEW tty \in BOOLEAN,
             NEW options \in Seq(Part)
      PROVE  Parts(init, options, valid, script, i, v, tty) \in Seq(Part)
    <2>1. /\ <<>> \in Seq(Part) /\ <<"init">> \in Seq(Part) /\ <<"script">> \in Seq(Part)
          /\ <<"dotty">> \in Seq(Part) /\ <<"stdin">> \in Seq(Part) /\ <<"usage">> \in Seq(Part)
        BY DEF Part
    <2>2. \A a, b \in Seq(Part) : a \o b \in Seq(Part)
        BY ConcatProperties
    <2> QED
        BY <2>1, <2>2 DEF Parts
<1>2. \A options \in UNION {[1..n -> {"e", "l"}] : n \in 0..MaxOptions} : options \in Seq(Part)
    BY InterpreterAssumption DEF Part
<1> QED
    BY <1>1, <1>2 DEF CommandLines

LEMMA FailureInit == Init => FailureInv
<1> SUFFICES ASSUME Init PROVE FailureInv
    OBVIOUS
<1>1. call = "none" /\ failures = {}
    BY DEF Init, InterpreterInit
<1>2. todo \in Seq(Part)
    <2>1. <<>> \in Seq(Part)
        BY EmptySeq
    <2>2. todo \in CommandLines \/ todo = <<>>
        BY DEF Init
    <2> QED
        BY <2>1, <2>2, CommandLineParts
<1> QED
    BY <1>1, <1>2 DEF FailureInv, Pending, Fatal

\* What PartOver does to the list: it stops at a failure that counts.
LEMMA PartOverStep ==
    ASSUME FailureInv, todo # <<>>, NEW ok \in BOOLEAN, PartOver(ok)
    PROVE  /\ todo' \in Seq(Part)
           /\ Fatal' # {} => todo' = <<>> /\ status'
<1>1. Head(todo) \in Part /\ Tail(todo) \in Seq(Part) /\ <<>> \in Seq(Part) /\ Fatal = {}
    BY HeadTailProperties, EmptySeq DEF FailureInv, Pending
<1>2. CASE ok
    BY <1>1, <1>2 DEF PartOver, Fatal, FailureInv, Pending
<1>3. CASE ~ok
    <2>1. PartFails
        BY <1>3 DEF PartOver
    <2>2. CASE Head(todo) \in {"init", "usage", "e", "l", "script"}
        BY <1>1, <2>1, <2>2 DEF PartFails
    <2>3. CASE Head(todo) \in {"dotty", "stdin"}
        BY <1>1, <2>1, <2>3 DEF PartFails, Fatal, FailureInv, Pending
    <2> QED
        BY <1>1, <2>2, <2>3 DEF Part
<1> QED
    BY <1>2, <1>3

LEMMA FailureStep == FailureInv /\ InterpMove => FailureInv'
<1> SUFFICES ASSUME FailureInv, InterpMove PROVE FailureInv'
    OBVIOUS
<1>1. CASE UNCHANGED <<todo, status, failures>> /\ (call' = "none" \/ todo # <<>>)
    BY <1>1 DEF FailureInv, Pending, Fatal
<1>2. ASSUME NEW ok \in BOOLEAN, PartOver(ok), todo # <<>>,
             call' = "none" \/ (Head(todo) = "dotty" /\ ok)
      PROVE  FailureInv'
    <2>1. todo' \in Seq(Part) /\ (Fatal' # {} => todo' = <<>> /\ status')
        BY <1>2, PartOverStep
    <2>2. call' # "none" => todo' # <<>>
        BY <1>2 DEF PartOver
    <2> QED
        BY <2>1, <2>2 DEF FailureInv, Pending
<1>3. CASE UNCHANGED interpVars \/ CallMoves \/ CallbackCut \/ Sigint
    BY <1>3, <1>1 DEF interpVars, CallMoves, CallbackCut, Sigint, FailureInv, Pending
<1>4. CASE FailsToLoad
    BY <1>4, <1>2 DEF FailsToLoad, Usage, ChunkFailsToLoad, ScriptFailsToLoad, LineFailsToLoad,
                      Fails, Doing
<1>5. CASE CallBegins
    BY <1>5, <1>1 DEF CallBegins, ChunkBegins, LibraryBegins, ScriptBegins, LineBegins, DoCall, Doing
<1>6. CASE ReadsOn \/ ChunkReturns \/ ChunkRaises \/ Interrupted \/ ShowsResults
    BY <1>6, <1>1 DEF ReadsOn, ChunkReturns, ChunkRaises, Interrupted, ShowsResults, Doing,
                      FailureInv, Pending
<1>7. CASE CallEnds
    <2>1. todo # <<>>
        BY <1>7 DEF CallEnds, FailureInv, Pending
    <2>2. (call = "returned") \in BOOLEAN
        OBVIOUS
    <2> QED
        BY <1>7, <1>2, <2>1, <2>2 DEF CallEnds, Doing
<1>8. CASE InputEnds
    BY <1>8, EmptySeq DEF InputEnds, FailureInv, Pending, Fatal
<1> QED
    BY <1>3, <1>4, <1>5, <1>6, <1>7, <1>8 DEF InterpMove

\* Nothing fails once the exit status is decided, and only main decides it.
LEMMA ExitStep ==
    ASSUME [Next]_vars, exit' = "ok"
    PROVE  /\ failures' = failures
           /\ exit = "ok" \/ ~status
<1>1. CASE SetPath \/ Open \/ Bind \/ BindFails \/ RequireTestbed \/ RunTestbed
    BY <1>1 DEF SetPath, Open, Bind, BindFails, RequireTestbed, RunTestbed, interpVars, mainVars
<1>2. CASE LeaveTestbed \/ GetRunBuf \/ Start \/ LoopEnds \/ StopKernel \/ Wait
    BY <1>2 DEF LeaveTestbed, GetRunBuf, Start, LoopEnds, StopKernel, Wait, interpVars
<1>3. CASE Close
    BY <1>3 DEF Close, interpVars
<1>4. CASE Interpreted \/ KernelCalls \/ KernelReturns \/ KernelEnds \/ UNCHANGED vars
    BY <1>4 DEF Interpreted, KernelCalls, KernelReturns, KernelEnds, vars, mainVars, interpVars
<1>5. CASE Interpret \/ CtrlC
    BY <1>5 DEF Interpret, CtrlC, At, mainVars
<1>6. CASE Chunk
    BY <1>6 DEF Chunk, ChunkStarts, ChunkWaits, WaitIsOver, ChunkStops, ChunkInits, ChunkAppends,
                Uses, InChunk, interpVars, mainVars
<1> QED
    BY <1>1, <1>2, <1>3, <1>4, <1>5, <1>6 DEF Next

\* The interpreter ends at the first part that fails and reports it, but for the
\* prompt and a script from the standard input.
THEOREM FailuresCorrect == Spec => []FailureIsFinal
<1>1. Spec => []FailureInv
    BY FailureInit, FailureStep, InterpMoves, PTL DEF Spec
<1> DEFINE Said == exit = "ok" => Fatal = {}
<1>2. Init => Said
    BY DEF Init
<1>3. FailureInv /\ Said /\ [Next]_vars => Said'
    BY ExitStep DEF FailureInv, Fatal
<1>4. FailureInv /\ Said => FailureIsFinal
    BY DEF FailureInv, FailureIsFinal, Fatal
<1> HIDE DEF Said
<1> QED
    BY <1>1, <1>2, <1>3, <1>4, PTL DEF Spec

-----------------------------------------------------------------------------
(* Who uses the Lua state when.                                             *)

Windowed == {"qt", "fltk"}      \* the programs whose main loop is a console's

\* Where main is when it is at a stage.
LEMMA StageOf ==
    ASSUME program \in Windowed \cup {"vrjlua"}, stage \in Nat \ {0}
    PROVE  /\ At("open") \/ At("setpath") => stage < 3
           /\ At("open") => (program \in Windowed => stage = 2) /\ (program = "vrjlua" => stage = 1)
           /\ At("setpath") => (program \in Windowed => stage = 1) /\ (program = "vrjlua" => stage = 2)
           /\ At("bind") => stage = 3
           /\ At("require") \/ At("testbed") \/ At("runbuf")
                  => program \in Windowed /\ stage \in 4..6
           /\ (At("require") => stage = 4) /\ (At("testbed") => stage = 5)
           /\ At("start") => program \in Windowed /\ stage = 7
           /\ At("loop") \/ At("stop") => program \in Windowed /\ stage \in {8, 9}
           /\ At("wait") => program \in Windowed /\ stage = 10
           /\ At("interpret") => program = "vrjlua" /\ stage = 4
           /\ At("close") => \/ program \in Windowed /\ stage = 11
                             \/ program = "vrjlua" /\ stage = 5
<1>1. CASE program \in Windowed
    <2>1. Stages[program] = <<"setpath", "open", "bind", "require", "testbed", "runbuf",
                              "start", "loop", "stop", "wait", "close">>
        BY <1>1 DEF Stages, Windowed
    <2>2. \A s : At(s) => /\ stage \in 1..11
                          /\ s = <<"setpath", "open", "bind", "require", "testbed", "runbuf",
                                   "start", "loop", "stop", "wait", "close">>[stage]
        BY <2>1 DEF At
    <2>3. \A s : At(s) =>
              /\ (stage = 1 => s = "setpath") /\ (stage = 2 => s = "open")
              /\ (stage = 3 => s = "bind") /\ (stage = 4 => s = "require")
              /\ (stage = 5 => s = "testbed") /\ (stage = 6 => s = "runbuf")
              /\ (stage = 7 => s = "start") /\ (stage = 8 => s = "loop")
              /\ (stage = 9 => s = "stop") /\ (stage = 10 => s = "wait")
              /\ (stage = 11 => s = "close")
        BY <2>2
    <2>4. \A s : At(s) => stage \in 1..11
        BY <2>2
    <2>5. program # "vrjlua"
        BY <1>1 DEF Windowed
    <2>6. /\ At("setpath") => stage = 1
          /\ At("open") => stage = 2
          /\ At("bind") => stage = 3
          /\ At("require") => stage = 4
          /\ At("testbed") => stage = 5
          /\ At("runbuf") => stage = 6
        BY <2>3, <2>4
    <2>7. /\ At("start") => stage = 7
          /\ At("loop") => stage = 8
          /\ At("stop") => stage = 9
          /\ At("wait") => stage = 10
          /\ ~At("interpret")
          /\ At("close") => stage = 11
        BY <2>3, <2>4
    <2> QED
        BY <1>1, <2>5, <2>6, <2>7
<1>2. CASE program = "vrjlua"
    <2>1. Stages[program] = <<"open", "setpath", "bind", "interpret", "close">>
        BY <1>2 DEF Stages
    <2>2. \A s : At(s) => /\ stage \in 1..5
                          /\ s = <<"open", "setpath", "bind", "interpret", "close">>[stage]
        BY <2>1 DEF At
    <2>3. \A s : At(s) =>
              /\ (stage = 1 => s = "open") /\ (stage = 2 => s = "setpath")
              /\ (stage = 3 => s = "bind") /\ (stage = 4 => s = "interpret")
              /\ (stage = 5 => s = "close")
        BY <2>2
    <2>4. \A s : At(s) => stage \in 1..5
        BY <2>2
    <2>5. program \notin Windowed
        BY <1>2 DEF Windowed
    <2>6. /\ At("open") => stage = 1
          /\ At("setpath") => stage = 2
          /\ At("bind") => stage = 3
          /\ At("interpret") => stage = 4
          /\ At("close") => stage = 5
        BY <2>3, <2>4
    <2>7. /\ ~At("require") /\ ~At("testbed") /\ ~At("runbuf") /\ ~At("start")
          /\ ~At("loop") /\ ~At("stop") /\ ~At("wait")
        BY <2>3, <2>4
    <2> QED
        BY <1>2, <2>5, <2>6, <2>7
<1> QED
    BY <1>1, <1>2

\* The kernel's callbacks end with it, main starts it once and waits for it, and
\* a chunk that has started it without start() is in enter().
ThreadInv ==
    /\ program \in Windowed \cup {"vrjlua"}
    /\ stage \in Nat \ {0}
    /\ inLua => kernel \in {"running", "stopping"}
    /\ program \in Windowed => /\ stage <= 7 => kernel = "idle"
                               /\ stage >= 11 => Joined
    /\ program = "vrjlua" => /\ stage < 4 => kernel = "idle"
                             /\ ~started /\ ~Joined => call = "blocked" /\ stage = 4

\* The state is closed at the end of main, or when the bindings fail.
ClosedInv ==
    lua = "closed" => \/ stage = 3 /\ exit # "no"
                      \/ program = "vrjlua" /\ stage > 4
                      \/ program \in Windowed /\ stage > 11

LEMMA ThreadInit == Init => ThreadInv /\ ClosedInv
<1> SUFFICES ASSUME Init PROVE ThreadInv /\ ClosedInv
    OBVIOUS
<1>1. /\ program \in {"qt", "fltk", "vrjlua"} /\ stage = 1 /\ inLua = FALSE
      /\ kernel = "idle" /\ lua = "none"
    BY DEF Init, KernelInit, ScriptInit
<1> QED
    BY <1>1 DEF ThreadInv, ClosedInv, Windowed, Joined

\* Steps that leave the kernel alone: main's, and the chunks' that only use it.
LEMMA KernelKept ==
    /\ SetPath \/ Open \/ Bind \/ RequireTestbed \/ RunTestbed \/ GetRunBuf \/ LoopEnds
           \/ Interpreted \/ Close
       => /\ UNCHANGED <<program, inLua, kernel, started>>
          /\ call' = call \/ call = "none"
    /\ BindFails \/ LeaveTestbed \/ Interpret \/ ChunkInits \/ ChunkAppends \/ CtrlC
       => UNCHANGED <<program, inLua, kernel, started>>
<1>1. RunTestbed => UNCHANGED <<mainVars, interpVars, kernel, started>>
    BY DEF RunTestbed, ParseArgument, ArgPrimary, ArgSecondary, ArgHelp, ArgFile, TestbedEnds,
           Configure, LoadConfigFile, kernelVars, mainVars, interpVars
<1>2. SetPath \/ Open \/ Bind \/ RequireTestbed \/ GetRunBuf \/ LoopEnds \/ Interpreted \/ Close
      => UNCHANGED <<program, inLua, kernel, started, call>>
    BY DEF SetPath, Open, Bind, RequireTestbed, GetRunBuf, LoopEnds, Interpreted, Close,
           kernelVars, interpVars
<1>3. BindFails \/ LeaveTestbed \/ Interpret \/ ChunkInits \/ ChunkAppends \/ CtrlC
      => UNCHANGED <<program, inLua, kernel, started>>
    BY DEF BindFails, LeaveTestbed, Interpret, ChunkInits, ChunkAppends, CtrlC, Uses, kernelVars,
           mainVars
<1> QED
    BY <1>1, <1>2, <1>3 DEF mainVars, interpVars

LEMMA ThreadStep == ThreadInv /\ [Next]_vars => ThreadInv'
<1> SUFFICES ASSUME ThreadInv, [Next]_vars PROVE ThreadInv'
    OBVIOUS
<1> USE DEF ThreadInv, Joined
<1>1. CASE SetPath \/ Open \/ Bind
    <2>1. stage' = stage + 1 /\ stage <= 3 /\ UNCHANGED <<program, inLua, kernel, started>>
        BY <1>1, StageOf, KernelKept DEF SetPath, Open, Bind, Goes
    <2> QED
        BY <2>1
<1>2. CASE BindFails \/ RunTestbed
    <2>1. UNCHANGED <<program, stage, inLua, kernel, started, call>>
        BY <1>2, KernelKept DEF BindFails, RunTestbed, mainVars, interpVars
    <2> QED
        BY <2>1
<1>3. CASE RequireTestbed \/ LeaveTestbed \/ GetRunBuf
    <2>1. /\ stage' \in {stage, stage + 1} /\ stage < 7 /\ program \in Windowed
          /\ UNCHANGED <<program, inLua, kernel, started>>
        BY <1>3, StageOf, KernelKept DEF RequireTestbed, LeaveTestbed, GetRunBuf, Goes
    <2> QED
        BY <2>1 DEF Windowed
<1>4. CASE Start \/ StopKernel
    <2>1. /\ stage' = stage + 1 /\ stage \in {7, 8, 9} /\ program \in Windowed
          /\ UNCHANGED <<program, inLua>>
          /\ kernel' = "running" \/ kernel' = kernel \/ (kernel = "running" /\ kernel' = "stopping")
        BY <1>4, StageOf DEF Start, StopKernel, Goes, StartDirectly, Stop
    <2> QED
        BY <2>1 DEF Windowed
<1>5. CASE LoopEnds \/ Wait
    <2>1. /\ stage' = stage + 1 /\ stage \in {8, 9, 10} /\ program \in Windowed
          /\ UNCHANGED <<program, inLua, kernel>>
          /\ stage = 10 => Joined
        BY <1>5, StageOf DEF LoopEnds, Wait, Goes, kernelVars
    <2> QED
        BY <2>1 DEF Windowed
<1>6. CASE Close
    <2>1. /\ stage' = stage + 1 /\ UNCHANGED <<program, inLua, kernel, started>>
          /\ \/ program \in Windowed /\ stage = 11
             \/ program = "vrjlua" /\ stage = 5
        BY <1>6, StageOf, KernelKept DEF Close, Goes
    <2> QED
        BY <2>1 DEF Windowed
<1>7. CASE Interpreted
    <2>1. /\ stage' = stage + 1 /\ program = "vrjlua" /\ stage = 4 /\ call = "none"
          /\ UNCHANGED <<program, inLua, kernel, started>>
        BY <1>7, StageOf, KernelKept DEF Interpreted, Goes
    <2> QED
        BY <2>1 DEF Windowed
<1>8. CASE Interpret \/ CtrlC
    <2>1. /\ program = "vrjlua" /\ stage = 4
          /\ UNCHANGED <<program, stage, inLua, kernel, started>>
        BY <1>8, StageOf, KernelKept DEF Interpret, CtrlC, mainVars
    <2>2. call # "blocked" \/ call' = "blocked"
        BY <1>8 DEF Interpret, CtrlC, Sigint, FailsToLoad, Usage, ChunkFailsToLoad,
                    ScriptFailsToLoad, LineFailsToLoad, Fails, ReadsOn, CallBegins, ChunkBegins,
                    LibraryBegins, ScriptBegins, LineBegins, ChunkReturns, ChunkRaises,
                    Interrupted, CallEnds, ShowsResults, InputEnds
    <2> QED
        BY <2>1, <2>2 DEF Windowed
<1>9. ASSUME NEW waiting \in BOOLEAN, ChunkStarts(waiting) PROVE ThreadInv'
    <2>1. /\ program = "vrjlua" /\ stage = 4 /\ UNCHANGED <<program, stage, inLua>>
          /\ kernel = "idle" /\ kernel' = "running"
          /\ started' \/ call' = "blocked"
        BY <1>9, StageOf DEF ChunkStarts, InChunk, Uses, DoStart
    <2> QED
        BY <2>1 DEF Windowed
<1>10. CASE ChunkWaits \/ WaitIsOver
    <2>1. /\ program = "vrjlua" /\ stage = 4 /\ (call' = "blocked" \/ Joined)
          /\ UNCHANGED <<program, stage, inLua, kernel, started>>
        BY <1>10, StageOf DEF ChunkWaits, WaitIsOver, InChunk, mainVars, kernelVars
    <2> QED
        BY <2>1 DEF Windowed
<1>11. CASE ChunkStops \/ ChunkInits \/ ChunkAppends
    <2>1. /\ program = "vrjlua" /\ stage = 4
          /\ UNCHANGED <<program, stage, inLua, started, call>>
          /\ kernel' = kernel \/ (kernel = "running" /\ kernel' = "stopping")
        BY <1>11, StageOf DEF ChunkStops, ChunkInits, ChunkAppends, InChunk, Uses, Stop,
                              kernelVars, interpVars
    <2> QED
        BY <2>1 DEF Windowed
<1>12. CASE KernelCalls \/ KernelReturns \/ KernelEnds
    <2>1. /\ UNCHANGED <<program, stage, started, call>>
          /\ \/ KernelCalls /\ kernel \in {"running", "stopping"} /\ kernel' = kernel
             \/ KernelReturns /\ inLua /\ ~inLua' /\ kernel' \in {kernel, "stopping"}
             \/ KernelEnds /\ kernel = "stopping" /\ ~inLua /\ kernel' = "stopped" /\ inLua' = inLua
        BY <1>12 DEF KernelCalls, KernelReturns, KernelEnds, kernelVars, interpVars, mainVars
    <2> QED
        BY <2>1 DEF Windowed
<1>13. CASE UNCHANGED vars
    BY <1>13 DEF vars, mainVars, kernelVars, interpVars
<1> QED
    BY <1>1, <1>2, <1>3, <1>4, <1>5, <1>6, <1>7, <1>8, <1>9, <1>10, <1>11, <1>12, <1>13
       DEF Next, Chunk

\* Main and the kernel's thread are in the Lua state at the same time only after
\* a script has called vrjKernel.start().
THEOREM OneThread == Spec => []OneThreadInLua
<1>1. Spec => []ThreadInv
    BY ThreadInit, ThreadStep, PTL DEF Spec
<1>2. ThreadInv => OneThreadInLua
    <2> SUFFICES ASSUME ThreadInv, At("interpret"), call \in {"lua", "print"}, inLua
                 PROVE  started
        BY DEF OneThreadInLua
    <2>1. program = "vrjlua" /\ kernel \in {"running", "stopping"}
        BY StageOf DEF ThreadInv
    <2> QED
        BY <2>1 DEF ThreadInv, Joined
<1> QED
    BY <1>1, <1>2, PTL

\* What the bindings, the modules and the kernel's thread do to the state: it
\* is closed by Close, and by bindings that fail.
LEMMA ClosedStep == ThreadInv /\ ClosedInv /\ [Next]_vars => ClosedInv'
<1> SUFFICES ASSUME ThreadInv, ClosedInv, [Next]_vars, lua' = "closed"
             PROVE  \/ stage' = 3 /\ exit' # "no"
                    \/ program' = "vrjlua" /\ stage' > 4
                    \/ program' \in Windowed /\ stage' > 11
    BY DEF ClosedInv
<1>1. program' = program /\ stage' \in {stage, stage + 1} /\ stage \in Nat
    BY DEF Next, vars, mainVars, SetPath, Open, Bind, BindFails, RequireTestbed, RunTestbed,
           LeaveTestbed, GetRunBuf, Start, LoopEnds, StopKernel, Wait, Close, Interpret,
           Interpreted, Chunk, ChunkStarts, ChunkWaits, WaitIsOver, ChunkStops, ChunkInits,
           ChunkAppends, Uses, CtrlC, KernelCalls, KernelReturns, KernelEnds, Goes, ThreadInv
<1>2. CASE Open \/ Bind
    BY <1>2 DEF Open, OpenState, Bind, ApplyBindings
<1>3. CASE BindFails
    <2>1. stage' = stage /\ stage = 3 /\ exit' = "failed"
        BY <1>3, StageOf DEF BindFails, ThreadInv
    <2> QED
        BY <2>1
<1>4. CASE Close
    <2>1. stage' = stage + 1 /\ \/ program \in Windowed /\ stage = 11
                                \/ program = "vrjlua" /\ stage = 5
        BY <1>4, StageOf DEF Close, Goes, ThreadInv
    <2> QED
        BY <2>1, <1>1
<1>5. CASE lua = "closed" /\ (stage' = stage \/ stage # 3) /\ (exit # "no" => exit' # "no")
    BY <1>1, <1>5 DEF ClosedInv, Windowed
<1>6. ASSUME UNCHANGED lua, exit = "no" \/ (stage' = stage /\ exit' = exit)
      PROVE  lua = "closed" /\ (stage' = stage \/ stage # 3) /\ (exit # "no" => exit' # "no")
    BY <1>6 DEF ClosedInv
<1>7. CASE SetPath \/ RequireTestbed \/ LeaveTestbed \/ GetRunBuf \/ Start \/ LoopEnds
    BY <1>5, <1>6, <1>7 DEF SetPath, RequireTestbed, Require, LeaveTestbed, GetRunBuf, Start, LoopEnds,
                            At, scriptVars
<1>8. CASE StopKernel \/ Wait \/ Interpreted
    BY <1>5, <1>6, <1>8 DEF StopKernel, Wait, Interpreted, At, scriptVars
<1>9. CASE RunTestbed
    BY <1>5, <1>6, <1>9 DEF RunTestbed, At, ParseArgument, TestbedEnds, scriptVars
<1>10. CASE Interpret \/ CtrlC
    BY <1>5, <1>6, <1>10 DEF Interpret, CtrlC, At, scriptVars
<1>11. CASE Chunk
    BY <1>5, <1>6, <1>11 DEF Chunk, ChunkStarts, ChunkWaits, WaitIsOver, ChunkStops, ChunkInits,
                             ChunkAppends, AppendToLuaRequirePath, InChunk, At, scriptVars
<1>12. CASE KernelCalls \/ KernelReturns \/ KernelEnds \/ UNCHANGED vars
    BY <1>5, <1>6, <1>12 DEF KernelCalls, KernelReturns, KernelEnds, vars, mainVars, scriptVars
<1> QED
    BY <1>2, <1>3, <1>4, <1>7, <1>8, <1>9, <1>10, <1>11, <1>12 DEF Next

\* The Lua state is closed while the kernel's callbacks still use it only when a
\* script called vrjKernel.start() and ended without waiting: main of the windowed
\* programs waits, and so does enter().
THEOREM StateOutlivesKernel == Spec => []ClosedAfterKernel
<1>1. Spec => [](ThreadInv /\ ClosedInv)
    BY ThreadInit, ThreadStep, ClosedStep, PTL DEF Spec
<1>2. ThreadInv /\ ClosedInv => ClosedAfterKernel
    <2> SUFFICES ASSUME ThreadInv, ClosedInv, lua = "closed", ~Joined
                 PROVE  started
        BY DEF ClosedAfterKernel
    <2>1. CASE program \in Windowed
        BY <2>1 DEF ThreadInv, ClosedInv, Joined, Windowed
    <2>2. CASE program = "vrjlua"
        BY <2>2 DEF ThreadInv, ClosedInv, Joined, Windowed
    <2> QED
        BY <2>1, <2>2 DEF ThreadInv
<1> QED
    BY <1>1, <1>2, PTL

\* The Lua state is safe unless a script started the kernel beside itself.
THEOREM LuaStateCorrect == Spec => []LuaStateSafe
<1>1. OneThreadInLua /\ ClosedAfterKernel => LuaStateSafe
  BY DEF LuaStateSafe
<1> QED  BY <1>1, OneThread, StateOutlivesKernel, PTL

\* A Ctrl-C has one effect.
THEOREM SigintCorrect == Spec => []SigintHandled
<1>1. SigintInterruptsOnce /\ HandlerOnlyInCall => SigintHandled
  BY DEF SigintHandled
<1> QED  BY <1>1, SignalsCorrect, HandlerCorrect, PTL
-----------------------------------------------------------------------------
(* Roles and configurations.                                                *)

Role == {Single, Primary, Secondary}
ConfigType == {"fallback", "jconf"} \X Nat

ConfTypes ==
    /\ juggler \in {2, 3}
    /\ args \in Seq(Arguments) /\ jconfs \in Seq(Nat)
    /\ roles \in Seq(Role) /\ configs \in Seq(ConfigType)

\* Nothing is configured before the arguments are read; the testbed's end decides
\* between the jconf files, the fallback and, on a secondary, nothing; Qt's main
\* goes on only behind a testbed that came to its end.
ConfInv ==
    /\ ConfTypes
    /\ jconfs = <<>> => "jconf" \notin Range(args)
    /\ testbed \in {"off", "parsing"} => configs = <<>>
    /\ sawSecondary => juggler = 2 \/ Secondary \in Range(roles)
    /\ testbed = "done" => configs # <<>> \/ sawSecondary
    /\ program = "qt" /\ stage > 5 => testbed = "done"
    /\ program # "vrjlua" /\ Primary \in Range(roles) => sawPrimary
    /\ FallbackAlone
    /\ PrimaryStaysPrimary

LEMMA RoleFacts ==
    /\ Single \in Role /\ Primary \in Role /\ Secondary \in Role
    /\ Primary # Secondary
BY DEF Role, Single, Primary, Secondary

LEMMA SeqGrows ==
    ASSUME NEW S, NEW q \in Seq(S), NEW e \in S
    PROVE  /\ Append(q, e) \in Seq(S) /\ Append(q, e) # <<>>
           /\ Len(q) \in Nat /\ DOMAIN q = 1..Len(q)
           /\ DOMAIN Append(q, e) = 1..(Len(q) + 1)
           /\ \A i \in 1..Len(q) : Append(q, e)[i] = q[i]
           /\ Append(q, e)[Len(q) + 1] = e
BY AppendProperties

LEMMA RangeGrows ==
    ASSUME NEW S, NEW q \in Seq(S), NEW e \in S
    PROVE  Range(Append(q, e)) = Range(q) \cup {e}
BY SeqGrows DEF Range

\* initAs...: with Juggler 3 the role is added to those the kernel was told.
LEMMA RoleAdded ==
    ASSUME ConfTypes, NEW role \in Role, InitAs(role)
    PROVE  /\ roles' \in Seq(Role)
           /\ juggler = 3 => roles' = Append(roles, role) /\ Range(roles') = Range(roles) \cup {role}
           /\ juggler # 3 => roles' = roles
<1>1. roles \in Seq(Role)
    BY DEF ConfTypes
<1>2. Append(roles, role) \in Seq(Role)
    BY <1>1, SeqGrows
<1>3. Range(Append(roles, role)) = Range(roles) \cup {role}
    BY <1>1, RangeGrows
<1> QED
    BY <1>1, <1>2, <1>3 DEF InitAs

\* The testbed's stage is Qt's fifth.
LEMMA QtStage ==
    ASSUME program = "qt", stage \in Nat \ {0}, NEW s, At(s), s # "testbed"
    PROVE  stage # 5
<1>1. Stages[program] = <<"setpath", "open", "bind", "require", "testbed", "runbuf",
                          "start", "loop", "stop", "wait", "close">>
    BY DEF Stages
<1>2. s = <<"setpath", "open", "bind", "require", "testbed", "runbuf",
            "start", "loop", "stop", "wait", "close">>[stage]
    BY <1>1 DEF At
<1> QED
    BY <1>2

LEMMA ConfInit == Init => ConfInv
<1> SUFFICES ASSUME Init PROVE ConfInv
    OBVIOUS
<1>1. /\ juggler \in {2, 3} /\ args = <<>> /\ jconfs = <<>> /\ roles = <<>> /\ configs = <<>>
      /\ testbed = "off" /\ sawSecondary = FALSE /\ stage = 1
    BY DEF Init, KernelInit, TestbedInit
<1>2. Range(<<>>) = {} /\ DOMAIN <<>> = {}
    BY DEF Range
<1>3. ConfTypes
    BY <1>1 DEF ConfTypes
<1> QED
    BY <1>1, <1>2, <1>3 DEF ConfInv, FallbackAlone, PrimaryStaysPrimary

\* One argument of the command line.
LEMMA ArgumentStep ==
    ASSUME ConfInv, ParseArgument, program # "vrjlua", UNCHANGED <<program, stage>>,
           program = "qt" => stage = 5
    PROVE  ConfInv'
<1>a. /\ ConfTypes /\ configs = <<>> /\ testbed = "parsing"
      /\ roles \in Seq(Role) /\ args \in Seq(Arguments) /\ jconfs \in Seq(Nat)
    BY DEF ParseArgument, ConfInv, ConfTypes
<1>b. PICK argument \in Arguments :
          /\ args' = Append(args, argument)
          /\ CASE argument = "primary" -> ArgPrimary
               [] argument = "secondary" -> ArgSecondary
               [] argument = "help" -> ArgHelp
               [] OTHER -> ArgFile(argument)
    BY DEF ParseArgument
<1>c. args' \in Seq(Arguments) /\ Range(args') = Range(args) \cup {argument}
    BY <1>a, <1>b, SeqGrows, RangeGrows
<1>1. ASSUME UNCHANGED <<juggler, roles, configs, sawPrimary, sawSecondary>>,
             testbed' # "done", jconfs' \in Seq(Nat), jconfs' = <<>> => "jconf" \notin Range(args')
      PROVE  ConfInv'
    <2>1. ConfTypes'
        BY <1>1, <1>a, <1>c DEF ConfTypes
    <2>2. FallbackAlone'
        BY <1>1, <1>a DEF FallbackAlone
    <2>3. PrimaryStaysPrimary'
        BY <1>1 DEF ConfInv, PrimaryStaysPrimary
    <2> QED
        BY <1>1, <1>a, <2>1, <2>2, <2>3 DEF ConfInv
<1>2. ASSUME NEW role \in Role, InitAs(role), argument # "jconf",
             UNCHANGED <<juggler, configs, testbed, jconfs>>,
             sawSecondary' => sawSecondary \/ role = Secondary,
             sawPrimary => sawPrimary', role = Primary => sawPrimary',
             role = Secondary => ~sawPrimary
      PROVE  ConfInv'
    <2>1. /\ roles' \in Seq(Role)
          /\ juggler = 3 => roles' = Append(roles, role) /\ Range(roles') = Range(roles) \cup {role}
          /\ juggler # 3 => roles' = roles
        BY <1>2, <1>a, RoleAdded
    <2>2. ConfTypes'
        BY <1>2, <1>a, <1>c, <2>1 DEF ConfTypes
    <2>3. FallbackAlone'
        BY <1>2, <1>a DEF FallbackAlone
    <2>4. \A i, j \in DOMAIN roles' : i < j => ~(roles'[i] = Primary /\ roles'[j] = Secondary)
        <3>1. \A i, j \in DOMAIN roles : i < j => ~(roles[i] = Primary /\ roles[j] = Secondary)
            BY DEF ConfInv, PrimaryStaysPrimary
        <3>2. CASE juggler # 3
            BY <2>1, <3>1, <3>2
        <3>3. CASE juggler = 3
            <4> DEFINE n == Len(roles)
            <4> DEFINE r == Append(roles, role)
            <4>1. /\ n \in Nat /\ DOMAIN roles = 1..n /\ DOMAIN r = 1..(n + 1)
                  /\ \A i \in 1..n : r[i] = roles[i]
                  /\ r[n + 1] = role
                BY <1>a, SeqGrows
            <4> HIDE DEF n, r
            <4>2. ASSUME NEW i \in 1..(n + 1), NEW j \in 1..(n + 1), i < j,
                         r[i] = Primary, r[j] = Secondary
                  PROVE  FALSE
                <5>1. i \in 1..n
                    BY <4>1, <4>2
                <5>2. roles[i] = Primary /\ Primary \in Range(roles)
                    BY <4>1, <4>2, <5>1 DEF Range
                <5>3. sawPrimary
                    BY <5>2 DEF ConfInv
                <5>4. role # Secondary
                    BY <1>2, <5>3
                <5>5. j \in 1..n
                    BY <4>1, <4>2, <5>4
                <5>6. roles[j] = Secondary
                    BY <4>1, <4>2, <5>5
                <5> QED
                    BY <3>1, <4>1, <4>2, <5>1, <5>2, <5>5, <5>6
            <4>3. roles' = r
                BY <2>1, <3>3 DEF r
            <4> QED
                BY <4>1, <4>2, <4>3
        <3> QED
            BY <3>2, <3>3
    <2>5. PrimaryStaysPrimary'
        BY <2>4 DEF PrimaryStaysPrimary
    <2>6. jconfs' = <<>> => "jconf" \notin Range(args')
        BY <1>2, <1>c DEF ConfInv
    <2>7. sawSecondary' => juggler' = 2 \/ Secondary \in Range(roles')
        BY <1>2, <1>a, <2>1 DEF ConfInv, ConfTypes
    <2>8. Primary \in Range(roles') => sawPrimary'
        BY <1>2, <2>1 DEF ConfInv
    <2> QED
        BY <1>2, <1>a, <2>2, <2>3, <2>5, <2>6, <2>7, <2>8 DEF ConfInv
<1>3. CASE argument = "primary"
    <2>1. ArgPrimary
        BY <1>b, <1>3
    <2> QED
        BY <1>2, <1>3, <2>1, RoleFacts DEF ArgPrimary
<1>4. CASE argument = "secondary"
    <2>1. ArgSecondary
        BY <1>b, <1>4
    <2>2. CASE sawPrimary
        <3>1. /\ UNCHANGED <<juggler, roles, configs, sawPrimary, sawSecondary, jconfs>>
              /\ testbed' = "exited"
            BY <2>1, <2>2 DEF ArgSecondary, kernelVars
        <3> QED
            BY <1>1, <1>4, <1>a, <1>c, <3>1 DEF ConfInv
    <2>3. CASE ~sawPrimary
        <3>1. /\ InitAs(Secondary) /\ UNCHANGED <<juggler, configs, testbed, jconfs, sawPrimary>>
            BY <2>1, <2>3 DEF ArgSecondary, InitAsSecondaryDefaultPort
        <3> QED
            BY <1>2, <1>4, <2>3, <3>1, RoleFacts
    <2> QED
        BY <2>2, <2>3
<1>5. CASE argument = "help"
    <2>1. /\ UNCHANGED <<juggler, roles, configs, sawPrimary, sawSecondary, jconfs>>
          /\ testbed' = "failed"
        BY <1>b, <1>5 DEF ArgHelp, kernelVars
    <2> QED
        BY <1>1, <1>5, <1>a, <1>c, <2>1 DEF ConfInv
<1>6. CASE argument \notin {"primary", "secondary", "help"}
    <2>1. ArgFile(argument)
        BY <1>b, <1>6
    <2>2. /\ UNCHANGED <<juggler, roles, configs, sawPrimary, sawSecondary, testbed>>
          /\ jconfs' = IF argument = "jconf" THEN Append(jconfs, Len(args) + 1) ELSE jconfs
        BY <2>1 DEF ArgFile, kernelVars
    <2>3. Len(args) + 1 \in Nat
        BY <1>a
    <2>4. Append(jconfs, Len(args) + 1) \in Seq(Nat) /\ Append(jconfs, Len(args) + 1) # <<>>
        BY <1>a, <2>3, SeqGrows
    <2>5. jconfs' \in Seq(Nat) /\ (jconfs' = <<>> => "jconf" \notin Range(args'))
        BY <1>a, <1>c, <2>2, <2>4 DEF ConfInv
    <2> QED
        BY <1>1, <1>a, <2>2, <2>5
<1> QED
    BY <1>3, <1>4, <1>5, <1>6

\* The testbed's end.
LEMMA ConfigureStep ==
    ASSUME ConfInv, TestbedEnds, UNCHANGED <<program, stage>>, program = "qt" => stage = 5
    PROVE  ConfInv'
<1>a. ConfTypes /\ configs = <<>> /\ testbed = "parsing" /\ jconfs \in Seq(Nat)
    BY DEF TestbedEnds, ConfInv, ConfTypes
<1>b. UNCHANGED <<args, sawPrimary, sawSecondary, jconfs>> /\ testbed' \in {"done", "failed"}
    BY DEF TestbedEnds
<1>1. ASSUME UNCHANGED <<juggler, roles>>, configs' \in Seq(ConfigType), FallbackAlone',
             testbed' = "done" => configs' # <<>> \/ sawSecondary
      PROVE  ConfInv'
    <2>1. ConfTypes'
        BY <1>1, <1>a, <1>b DEF ConfTypes
    <2>2. PrimaryStaysPrimary'
        BY <1>1 DEF ConfInv, PrimaryStaysPrimary
    <2> QED
        BY <1>1, <1>a, <1>b, <2>1, <2>2 DEF ConfInv
<1>2. CASE UNCHANGED kernelVars /\ (testbed' = "done" => sawSecondary)
    <2>1. UNCHANGED <<juggler, roles, configs>>
        BY <1>2 DEF kernelVars
    <2>2. configs' \in Seq(ConfigType) /\ FallbackAlone'
        BY <1>a, <2>1 DEF FallbackAlone, ConfTypes
    <2> QED
        BY <1>1, <1>2, <2>1, <2>2
<1>3. CASE Configure /\ ~sawSecondary /\ jconfs # <<>>
    <2> DEFINE c == [i \in DOMAIN jconfs |-> Config("jconf", jconfs[i])]
    <2>1. configs' = configs \o c /\ UNCHANGED <<juggler, roles>>
        BY <1>3 DEF Configure, roleVars
    <2>2. c \in Seq(ConfigType) /\ c # <<>>
        <3>1. /\ Len(jconfs) \in Nat /\ Len(jconfs) # 0 /\ DOMAIN jconfs = 1..Len(jconfs)
              /\ \A i \in 1..Len(jconfs) : Config("jconf", jconfs[i]) \in ConfigType
            BY <1>3, <1>a DEF Config, ConfigType
        <3>2. c \in Seq(ConfigType)
            BY <3>1, IsASeq
        <3>3. 1 \in DOMAIN c
            BY <3>1
        <3> QED
            BY <3>2, <3>3
    <2> HIDE DEF c
    <2>3. <<>> \o c = c
        BY <2>2, ConcatEmptySeq
    <2>4. configs' = c
        BY <1>a, <2>1, <2>3
    <2>5. FallbackAlone'
        BY <1>b, <2>4 DEF FallbackAlone, c
    <2> QED
        BY <1>1, <2>1, <2>2, <2>4, <2>5
<1>4. CASE Configure /\ ~sawSecondary /\ jconfs = <<>>
    <2> DEFINE fallback == Config("fallback", 0)
    <2>1. configs' = Append(configs, fallback) /\ UNCHANGED <<juggler, roles>>
        BY <1>4 DEF Configure, LoadConfigFile, roleVars
    <2>2. fallback \in ConfigType
        BY DEF Config, ConfigType
    <2> HIDE DEF fallback
    <2>3. Append(<<>>, fallback) = <<fallback>> /\ <<fallback>> \in Seq(ConfigType)
        BY <2>2
    <2>4. configs' = <<fallback>> /\ configs' # <<>> /\ configs' \in Seq(ConfigType)
        BY <1>a, <2>1, <2>3
    <2>5. "jconf" \notin Range(args')
        BY <1>4, <1>b DEF ConfInv
    <2>6. FallbackAlone'
        BY <2>4, <2>5 DEF FallbackAlone, fallback
    <2> QED
        BY <1>1, <2>1, <2>4, <2>6
<1>5. CASE Configure /\ sawSecondary
    BY <1>2, <1>5 DEF Configure
<1> QED
    BY <1>2, <1>3, <1>4, <1>5 DEF TestbedEnds

LEMMA ConfStep == ThreadInv /\ ConfInv /\ [Next]_vars => ConfInv'
<1> SUFFICES ASSUME ThreadInv, ConfInv, [Next]_vars PROVE ConfInv'
    OBVIOUS
<1>a. program \in Windowed \cup {"vrjlua"} /\ stage \in Nat \ {0}
    BY DEF ThreadInv
<1>b. \A s : program = "qt" /\ At(s) /\ s # "testbed" => stage # 5
    BY <1>a, QtStage
<1>1. ASSUME UNCHANGED <<program, juggler, roles, configs, testbed, args, sawPrimary, sawSecondary, jconfs>>,
             stage' = stage \/ (stage' = stage + 1 /\ (program = "qt" => stage # 5))
      PROVE  ConfInv'
    <2>1. ConfTypes' /\ FallbackAlone' /\ PrimaryStaysPrimary'
        BY <1>1 DEF ConfInv, ConfTypes, FallbackAlone, PrimaryStaysPrimary
    <2>2. program' = "qt" /\ stage' > 5 => testbed' = "done"
        BY <1>1, <1>a DEF ConfInv
    <2> QED
        BY <1>1, <2>1, <2>2 DEF ConfInv
<1>2. CASE SetPath \/ Open \/ Bind \/ GetRunBuf \/ LoopEnds \/ Wait \/ Close \/ Interpreted
    <2>1. /\ UNCHANGED <<program, juggler, roles, configs, testbed, args, sawPrimary, sawSecondary, jconfs>>
          /\ stage' \in {stage, stage + 1}
        BY <1>2 DEF SetPath, Open, Bind, GetRunBuf, LoopEnds, Wait, Close, Interpreted, Goes,
                    kernelVars, testbedVars
    <2>2. program = "qt" => stage # 5
        BY <1>2, <1>b DEF SetPath, Open, Bind, GetRunBuf, LoopEnds, Wait, Close, Interpreted
    <2> QED
        BY <1>1, <2>1, <2>2
<1>3. CASE Start \/ StopKernel
    <2>1. /\ UNCHANGED <<program, juggler, roles, configs, testbed, args, sawPrimary, sawSecondary, jconfs>>
          /\ stage' = stage + 1
        BY <1>3 DEF Start, StartDirectly, StopKernel, Stop, Goes, roleVars, testbedVars
    <2>2. program = "qt" => stage # 5
        BY <1>3, <1>b DEF Start, StopKernel
    <2> QED
        BY <1>1, <2>1, <2>2
<1>4. CASE BindFails \/ Interpret \/ CtrlC \/ ChunkWaits \/ WaitIsOver \/ ChunkAppends \/ UNCHANGED vars
    BY <1>1, <1>4 DEF BindFails, Interpret, CtrlC, ChunkWaits, WaitIsOver, ChunkAppends, Uses, vars,
           mainVars, kernelVars, testbedVars
<1>5. CASE ChunkStops \/ KernelCalls \/ KernelReturns \/ KernelEnds
    BY <1>1, <1>5 DEF ChunkStops, Stop, KernelCalls, KernelReturns, KernelEnds, Uses, mainVars,
           kernelVars, roleVars, testbedVars
<1>6. CASE RequireTestbed
    <2>1. /\ UNCHANGED <<program, juggler, roles, configs, args, sawPrimary, sawSecondary, jconfs>>
          /\ stage' = stage + 1
          /\ testbed' = "failed" \/ (testbed = "off" /\ testbed' = "parsing")
        BY <1>6 DEF RequireTestbed, TestbedBegins, Goes, kernelVars
    <2>2. program = "qt" => stage + 1 <= 5
        <3>1. ASSUME program = "qt" PROVE stage = 4
            <4>1. Stages[program] = <<"setpath", "open", "bind", "require", "testbed", "runbuf",
                                      "start", "loop", "stop", "wait", "close">>
                BY <3>1 DEF Stages
            <4>2. /\ stage \in 1..11
                  /\ "require" = <<"setpath", "open", "bind", "require", "testbed", "runbuf",
                                   "start", "loop", "stop", "wait", "close">>[stage]
                BY <1>6, <1>a, <4>1 DEF RequireTestbed, At
            <4> QED
                BY <4>2
        <3> QED
            BY <3>1
    <2>3. ConfTypes' /\ FallbackAlone' /\ PrimaryStaysPrimary'
        BY <2>1 DEF ConfInv, ConfTypes, FallbackAlone, PrimaryStaysPrimary
    <2>4. ~(program' = "qt" /\ stage' > 5)
        BY <1>a, <2>1, <2>2
    <2> QED
        BY <2>1, <2>3, <2>4 DEF ConfInv
<1>7. CASE RunTestbed
    <2>1. program # "vrjlua" /\ UNCHANGED <<program, stage>> /\ (ParseArgument \/ TestbedEnds)
        BY <1>7, <1>a, StageOf DEF RunTestbed, mainVars, Windowed
    <2>2. program = "qt" => stage = 5
        <3>1. ASSUME program = "qt" PROVE stage = 5
            <4>1. Stages[program] = <<"setpath", "open", "bind", "require", "testbed", "runbuf",
                                      "start", "loop", "stop", "wait", "close">>
                BY <3>1 DEF Stages
            <4>2. /\ stage \in 1..11
                  /\ "testbed" = <<"setpath", "open", "bind", "require", "testbed", "runbuf",
                                   "start", "loop", "stop", "wait", "close">>[stage]
                BY <1>7, <1>a, <4>1 DEF RunTestbed, At
            <4> QED
                BY <4>2
        <3> QED
            BY <3>1
    <2> QED
        BY <2>1, <2>2, ArgumentStep, ConfigureStep
<1>8. CASE LeaveTestbed
    <2>1. /\ UNCHANGED <<program, juggler, roles, configs, testbed, args, sawPrimary, sawSecondary, jconfs>>
          /\ stage' = stage \/ (program = "qt" => testbed = "done")
        BY <1>8 DEF LeaveTestbed, kernelVars, testbedVars
    <2>2. ConfTypes' /\ FallbackAlone' /\ PrimaryStaysPrimary'
        BY <2>1 DEF ConfInv, ConfTypes, FallbackAlone, PrimaryStaysPrimary
    <2> QED
        BY <2>1, <2>2 DEF ConfInv
<1>9. ASSUME program = "vrjlua", UNCHANGED <<program, juggler, configs, testbed, args, sawPrimary, sawSecondary, jconfs>>,
             roles' = roles \/ \E role \in Role : InitAs(role)
      PROVE  ConfInv'
    <2>1. ConfTypes
        BY DEF ConfInv
    <2>2. roles' \in Seq(Role) /\ Range(roles) \subseteq Range(roles')
        <3>1. CASE roles' = roles
            BY <2>1, <3>1 DEF ConfTypes
        <3>2. ASSUME NEW role \in Role, InitAs(role)
              PROVE  roles' \in Seq(Role) /\ Range(roles) \subseteq Range(roles')
            BY <2>1, <3>2, RoleAdded
        <3> QED
            BY <1>9, <3>1, <3>2
    <2>3. ConfTypes' /\ FallbackAlone' /\ PrimaryStaysPrimary'
        BY <1>9, <2>1, <2>2 DEF ConfInv, ConfTypes, FallbackAlone, PrimaryStaysPrimary
    <2> QED
        BY <1>9, <2>2, <2>3 DEF ConfInv
<1>10. ASSUME NEW waiting \in BOOLEAN, ChunkStarts(waiting) PROVE ConfInv'
    <2>1. program = "vrjlua"
        BY <1>10, <1>a, StageOf DEF ChunkStarts, InChunk
    <2>2. /\ UNCHANGED <<program, juggler, configs, testbed, args, sawPrimary, sawSecondary, jconfs>>
          /\ roles' = roles \/ InitAs(Single)
        BY <1>10 DEF ChunkStarts, Uses, DoStart, InitFallback, roleVars, testbedVars
    <2> QED
        BY <1>9, <2>1, <2>2, RoleFacts
<1>11. CASE ChunkInits
    <2>1. program = "vrjlua"
        BY <1>11, <1>a, StageOf DEF ChunkInits, InChunk
    <2>2. /\ UNCHANGED <<program, juggler, configs, testbed, args, sawPrimary, sawSecondary, jconfs>>
          /\ \E role \in Role : InitAs(role)
        BY <1>11 DEF ChunkInits, Uses, Role, testbedVars
    <2> QED
        BY <1>9, <2>1, <2>2
<1> QED
    BY <1>2, <1>3, <1>4, <1>5, <1>6, <1>7, <1>8, <1>10, <1>11 DEF Next, Chunk

\* The roles are those that the arguments asked for, so far, and a testbed that
\* came to its end has handed out a configuration to all but secondaries.
RoleInv ==
    /\ sawPrimary <=> "primary" \in Range(args)
    /\ sawSecondary => "secondary" \in Range(args)
    /\ "secondary" \in Range(args) => sawSecondary \/ testbed = "exited"
    /\ program # "vrjlua" /\ juggler = 3 =>
           \A role : role \in Range(roles)
                        <=> (role = Primary /\ sawPrimary) \/ (role = Secondary /\ sawSecondary)
    /\ program = "vrjlua" \/ stage <= 4 => testbed = "off"
    /\ testbed = "done" => (configs = <<>> <=> sawSecondary)

LEMMA RoleInit == Init => RoleInv
<1> SUFFICES ASSUME Init PROVE RoleInv
    OBVIOUS
<1>1. args = <<>> /\ roles = <<>> /\ testbed = "off" /\ sawPrimary = FALSE /\ sawSecondary = FALSE
    BY DEF Init, KernelInit, TestbedInit
<1>2. Range(<<>>) = {}
    BY DEF Range
<1> QED
    BY <1>1, <1>2 DEF RoleInv

\* One argument.
LEMMA RoleArgument ==
    ASSUME ConfInv, RoleInv, ParseArgument,
           program # "vrjlua", stage = 5, UNCHANGED <<program, stage>>
    PROVE  RoleInv'
<1>a. /\ ConfTypes /\ testbed = "parsing" /\ configs = <<>>
      /\ roles \in Seq(Role) /\ args \in Seq(Arguments)
    BY DEF ParseArgument, ConfInv, ConfTypes
<1>b. PICK argument \in Arguments :
          /\ args' = Append(args, argument)
          /\ CASE argument = "primary" -> ArgPrimary
               [] argument = "secondary" -> ArgSecondary
               [] argument = "help" -> ArgHelp
               [] OTHER -> ArgFile(argument)
    BY DEF ParseArgument
<1>c. Range(args') = Range(args) \cup {argument}
    BY <1>a, <1>b, RangeGrows
<1>1. CASE argument = "primary"
    <2>1. /\ InitAs(Primary) /\ sawPrimary' = TRUE
          /\ UNCHANGED <<juggler, testbed, sawSecondary>>
        BY <1>b, <1>1 DEF ArgPrimary
    <2>2. juggler = 3 => Range(roles') = Range(roles) \cup {Primary}
        BY <1>a, <2>1, RoleAdded, RoleFacts
    <2> QED
        BY <1>1, <1>a, <1>c, <2>1, <2>2 DEF RoleInv
<1>2. CASE argument = "secondary" /\ sawPrimary
    <2>1. /\ testbed' = "exited"
          /\ UNCHANGED <<juggler, roles, sawPrimary, sawSecondary>>
        BY <1>b, <1>2 DEF ArgSecondary, kernelVars
    <2> QED
        BY <1>2, <1>c, <2>1 DEF RoleInv
<1>3. CASE argument = "secondary" /\ ~sawPrimary
    <2>1. /\ InitAs(Secondary) /\ sawSecondary' = TRUE
          /\ UNCHANGED <<juggler, testbed, sawPrimary>>
        BY <1>b, <1>3 DEF ArgSecondary, InitAsSecondaryDefaultPort
    <2>2. juggler = 3 => Range(roles') = Range(roles) \cup {Secondary}
        BY <1>a, <2>1, RoleAdded, RoleFacts
    <2> QED
        BY <1>3, <1>a, <1>c, <2>1, <2>2 DEF RoleInv
<1>4. CASE argument \notin {"primary", "secondary"}
    <2>1. /\ UNCHANGED <<juggler, roles, sawPrimary, sawSecondary>>
          /\ testbed' # "done"
        BY <1>a, <1>b, <1>4 DEF ArgHelp, ArgFile, kernelVars
    <2> QED
        BY <1>4, <1>a, <1>c, <2>1 DEF RoleInv
<1> QED
    BY <1>1, <1>2, <1>3, <1>4

\* The end of the testbed: a secondary has no configuration.
LEMMA RoleEnd ==
    ASSUME ConfInv, ConfInv', RoleInv, TestbedEnds,
           program # "vrjlua", stage = 5, UNCHANGED <<program, stage>>
    PROVE  RoleInv'
<1>1. /\ UNCHANGED <<args, sawPrimary, sawSecondary, juggler, roles>>
      /\ testbed = "parsing" /\ testbed' \in {"done", "failed"}
    BY DEF TestbedEnds, Configure, LoadConfigFile, kernelVars, roleVars
<1>2. sawSecondary => configs' = configs
    BY DEF TestbedEnds, Configure, kernelVars
<1>3. testbed' = "done" => (configs' = <<>> <=> sawSecondary')
    BY <1>1, <1>2 DEF ConfInv
<1> QED
    BY <1>1, <1>3 DEF RoleInv

LEMMA RoleStep == ThreadInv /\ ConfInv /\ ConfInv' /\ RoleInv /\ [Next]_vars => RoleInv'
<1> SUFFICES ASSUME ThreadInv, ConfInv, ConfInv', RoleInv, [Next]_vars PROVE RoleInv'
    OBVIOUS
<1>a. program \in Windowed \cup {"vrjlua"} /\ stage \in Nat \ {0}
    BY DEF ThreadInv
<1>1. ASSUME UNCHANGED <<program, args, sawPrimary, sawSecondary, juggler, configs>>,
             program # "vrjlua" => roles' = roles,
             \/ testbed' = testbed /\ stage' \in {stage, stage + 1}
             \/ testbed' \in {"parsing", "failed"} /\ testbed = "off" /\ program # "vrjlua" /\ stage' = 5
      PROVE  RoleInv'
    BY <1>1, <1>a DEF RoleInv
<1>2. CASE SetPath \/ Open \/ Bind \/ BindFails \/ LeaveTestbed \/ GetRunBuf \/ LoopEnds \/ Wait
           \/ Close \/ Interpret \/ Interpreted \/ CtrlC \/ ChunkWaits \/ WaitIsOver \/ ChunkAppends
           \/ UNCHANGED vars
    BY <1>1, <1>2 DEF Goes, SetPath, Open, Bind, BindFails, LeaveTestbed, GetRunBuf, LoopEnds, Wait,
           Close, Interpret, Interpreted, CtrlC, ChunkWaits, WaitIsOver, ChunkAppends, Uses, vars,
           mainVars, kernelVars, testbedVars
<1>3. CASE Start \/ StopKernel \/ ChunkStops \/ KernelCalls \/ KernelReturns \/ KernelEnds
    BY <1>1, <1>3 DEF Goes, Start, StartDirectly, StopKernel, Stop, ChunkStops, KernelCalls,
           KernelReturns, KernelEnds, Uses, mainVars, kernelVars, roleVars, testbedVars
<1>4. CASE RequireTestbed
    <2>1. /\ UNCHANGED <<program, args, sawPrimary, sawSecondary, juggler, configs, roles>>
          /\ testbed' \in {"parsing", "failed"} /\ At("require") /\ stage' = stage + 1
        BY <1>4 DEF RequireTestbed, TestbedBegins, kernelVars, Goes
    <2>2. program # "vrjlua" /\ stage = 4 /\ testbed = "off"
        BY <1>a, <2>1, StageOf DEF RoleInv, Windowed
    <2> QED
        BY <1>1, <2>1, <2>2
<1>5. CASE RunTestbed
    <2>1. /\ UNCHANGED <<program, stage>> /\ At("testbed")
          /\ ParseArgument \/ TestbedEnds
        BY <1>5 DEF RunTestbed, mainVars
    <2>2. program # "vrjlua" /\ stage = 5
        BY <1>a, <2>1, StageOf DEF Windowed
    <2> QED
        BY <2>1, <2>2, RoleArgument, RoleEnd
<1>6. ASSUME NEW waiting \in BOOLEAN, ChunkStarts(waiting) PROVE RoleInv'
    <2>1. program = "vrjlua"
        BY <1>6, <1>a, StageOf DEF ChunkStarts, InChunk
    <2> QED
        BY <1>1, <1>6, <2>1 DEF RoleInv, ChunkStarts, DoStart, Uses, testbedVars
<1>7. CASE ChunkInits
    <2>1. program = "vrjlua"
        BY <1>7, <1>a, StageOf DEF ChunkInits, InChunk
    <2> QED
        BY <1>1, <1>7, <2>1 DEF RoleInv, ChunkInits, Uses, testbedVars
<1> QED
    BY <1>2, <1>3, <1>4, <1>5, <1>6, <1>7 DEF Next, Chunk

\* For every command line: a testbed that came to its end has given the node the
\* role asked for, if it was one, and a configuration unless it is a secondary; the
\* jconf files, or the fallback alone; no primary was made secondary; and Qt's
\* kernel runs behind such a testbed only.
THEOREM ConfiguredCorrect == Spec => []Configured
<1>1. Spec => [](ThreadInv /\ ConfInv /\ RoleInv)
    BY ThreadInit, ThreadStep, ConfInit, ConfStep, RoleInit, RoleStep, PTL DEF Spec
<1>2. ThreadInv /\ ConfInv /\ RoleInv => Configured
    <2> SUFFICES ASSUME ThreadInv, ConfInv, RoleInv PROVE RunsAfterTestbed /\ RoleAndConfig
        BY DEF Configured, ConfInv
    <2>1. RunsAfterTestbed
        <3>1. program = "qt" /\ kernel # "idle" => stage > 7
            BY DEF ThreadInv, Windowed
        <3> QED
            BY <3>1 DEF ConfInv, ThreadInv, RunsAfterTestbed
    <2>2. ASSUME testbed = "done", RolesAskedFor # {Primary, Secondary}
          PROVE  /\ juggler = 3 => Range(roles) = RolesAskedFor
                 /\ configs = <<>> <=> RolesAskedFor = {Secondary}
        <3>1. \A role : role \in RolesAskedFor
                  <=> (role = Primary /\ sawPrimary) \/ (role = Secondary /\ sawSecondary)
            BY <2>2 DEF RoleInv, RolesAskedFor
        <3>2. ~(sawPrimary /\ sawSecondary)
            BY <2>2, <3>1
        <3>3. sawSecondary <=> RolesAskedFor = {Secondary}
            BY <3>1, <3>2, RoleFacts
        <3>4. program # "vrjlua"
            BY <2>2 DEF RoleInv
        <3>5. juggler = 3 => Range(roles) = RolesAskedFor
            BY <3>1, <3>4 DEF RoleInv
        <3> QED
            BY <2>2, <3>3, <3>5 DEF RoleInv
    <2> QED
        BY <2>1, <2>2 DEF RoleAndConfig
<1> QED
    BY <1>1, <1>2, PTL
-----------------------------------------------------------------------------
(* Types.                                                                   *)

KernelTypes ==
    /\ kernel \in {"idle", "running", "stopping", "stopped"}
    /\ initialised \in BOOLEAN /\ isCluster \in BOOLEAN /\ isPrimary \in BOOLEAN
    /\ started \in BOOLEAN /\ inLua \in BOOLEAN

MainTypes ==
    /\ stage \in 1..(Len(Stages[program]) + 1)
    /\ lua \in {"none", "open", "bound", "closed"}
    /\ testbed \in {"off", "parsing", "done", "failed", "exited"}

InterpTypes ==
    /\ call \in {"none", "lua", "blocked", "returned", "failed", "print", "partial"}
    /\ handler \in {"default", "laction"}
    /\ status \in BOOLEAN /\ lines \in Nat

LEMMA TypesInit == Init => KernelTypes /\ MainTypes /\ InterpTypes
<1> SUFFICES ASSUME Init PROVE KernelTypes /\ MainTypes /\ InterpTypes
    OBVIOUS
<1>1. KernelTypes
    BY DEF Init, KernelInit, KernelTypes
<1>2. InterpTypes
    BY DEF Init, InterpreterInit, InterpTypes
<1>3. lua = "none" /\ testbed = "off" /\ stage = 1 /\ program \in {"qt", "fltk", "vrjlua"}
    BY DEF Init, ScriptInit, TestbedInit
<1>4. Len(Stages[program]) \in Nat
    BY <1>3 DEF Stages
<1> QED
    BY <1>1, <1>2, <1>3, <1>4 DEF MainTypes

LEMMA InterpTypesStep == InterpTypes /\ InterpMove => InterpTypes'
<1> SUFFICES ASSUME InterpTypes, InterpMove PROVE InterpTypes'
    OBVIOUS
<1> USE DEF InterpTypes
<1>1. ASSUME NEW ok \in BOOLEAN, PartOver(ok) PROVE status' \in BOOLEAN
    <2>1. CASE ok
        BY <1>1, <2>1 DEF PartOver
    <2>2. CASE ~ok
        <3>1. (Head(todo) \in {"init", "usage", "e", "l", "script"}) \in BOOLEAN
            OBVIOUS
        <3> QED
            BY <1>1, <2>2, <3>1 DEF PartOver, PartFails
    <2> QED
        BY <2>1, <2>2
<1>2. CASE UNCHANGED interpVars \/ CallMoves \/ CallbackCut \/ Sigint
    BY <1>2 DEF interpVars, CallMoves, CallbackCut, Sigint
<1>3. CASE FailsToLoad
    <2>1. status' \in BOOLEAN
        BY <1>1, <1>3 DEF FailsToLoad, Usage, ChunkFailsToLoad, ScriptFailsToLoad, LineFailsToLoad,
                          Fails
    <2>2. /\ call' \in {call, "none"} /\ handler' = handler
          /\ lines' \in {lines, lines + 1}
        BY <1>3 DEF FailsToLoad, Usage, ChunkFailsToLoad, ScriptFailsToLoad, LineFailsToLoad, Fails
    <2> QED
        BY <2>1, <2>2
<1>4. CASE CallBegins
    BY <1>4 DEF CallBegins, ChunkBegins, LibraryBegins, ScriptBegins, LineBegins, DoCall
<1>5. CASE ReadsOn \/ ChunkReturns \/ ChunkRaises \/ Interrupted \/ ShowsResults \/ InputEnds
    BY <1>5 DEF ReadsOn, ChunkReturns, ChunkRaises, Interrupted, ShowsResults, InputEnds
<1>6. CASE CallEnds
    <2>1. (call = "returned") \in BOOLEAN
        OBVIOUS
    <2>2. status' \in BOOLEAN
        BY <1>1, <1>6, <2>1 DEF CallEnds
    <2> QED
        BY <1>6, <2>2 DEF CallEnds
<1> QED
    BY <1>2, <1>3, <1>4, <1>5, <1>6 DEF InterpMove

LEMMA InitAsTypes ==
    ASSUME NEW role, InitAs(role)
    PROVE  initialised' \in BOOLEAN /\ isCluster' \in BOOLEAN /\ isPrimary' \in BOOLEAN
<1>1. ("vrjmaster" \in role) \in BOOLEAN /\ (role # Single \/ (juggler = 3 /\ isCluster)) \in BOOLEAN
    OBVIOUS
<1> QED
    BY <1>1 DEF InitAs

LEMMA KernelTypesStep == KernelTypes /\ [Next]_vars => KernelTypes'
<1> SUFFICES ASSUME KernelTypes, [Next]_vars PROVE KernelTypes'
    OBVIOUS
<1> USE DEF KernelTypes
<1>1. CASE SetPath \/ Open \/ Bind \/ BindFails \/ RequireTestbed \/ LeaveTestbed
    BY <1>1 DEF SetPath, Open, Bind, BindFails, RequireTestbed, LeaveTestbed, kernelVars
<1>2. CASE GetRunBuf \/ LoopEnds \/ Wait \/ Close \/ Interpreted
    BY <1>2 DEF GetRunBuf, LoopEnds, Wait, Close, Interpreted, kernelVars
<1>3. CASE Start \/ StopKernel
    BY <1>3 DEF Start, StartDirectly, StopKernel, Stop, roleVars
<1>4. CASE Interpret \/ CtrlC \/ UNCHANGED vars
    BY <1>4 DEF Interpret, CtrlC, vars, mainVars, kernelVars
<1>5. CASE KernelCalls \/ KernelReturns \/ KernelEnds
    BY <1>5 DEF KernelCalls, KernelReturns, KernelEnds, kernelVars, roleVars, mainVars
<1>6. CASE ChunkWaits \/ WaitIsOver \/ ChunkAppends \/ ChunkStops
    BY <1>6 DEF ChunkWaits, WaitIsOver, ChunkAppends, ChunkStops, Stop, Uses, kernelVars, roleVars,
                mainVars
<1>7. CASE ChunkInits
    <2>1. \E role : InitAs(role)
        BY <1>7 DEF ChunkInits
    <2> QED
        BY <1>7, <2>1, InitAsTypes DEF ChunkInits, Uses
<1>8. ASSUME NEW waiting \in BOOLEAN, ChunkStarts(waiting) PROVE KernelTypes'
    <2>1. DoStart(waiting) /\ inLua' = inLua
        BY <1>8 DEF ChunkStarts, Uses
    <2>2. initialised' \in BOOLEAN /\ isCluster' \in BOOLEAN /\ isPrimary' \in BOOLEAN
        BY <2>1, InitAsTypes DEF DoStart, InitFallback, roleVars
    <2>3. (started \/ ~waiting) \in BOOLEAN
        OBVIOUS
    <2> QED
        BY <2>1, <2>2, <2>3 DEF DoStart
<1>9. CASE RunTestbed
    <2>1. inLua' = inLua
        BY <1>9 DEF RunTestbed, mainVars
    <2>2. CASE TestbedEnds
        BY <2>1, <2>2 DEF TestbedEnds, Configure, LoadConfigFile, kernelVars, roleVars
    <2>3. CASE ParseArgument
        <3>1. PICK argument \in Arguments :
                  CASE argument = "primary" -> ArgPrimary
                    [] argument = "secondary" -> ArgSecondary
                    [] argument = "help" -> ArgHelp
                    [] OTHER -> ArgFile(argument)
            BY <2>3 DEF ParseArgument
        <3>2. ArgPrimary \/ ArgSecondary \/ ArgHelp \/ ArgFile(argument)
            BY <3>1
        <3>3. UNCHANGED kernelVars \/ \E role : InitAs(role) /\ UNCHANGED <<kernel, started>>
            BY <3>2 DEF ArgPrimary, ArgSecondary, InitAsSecondaryDefaultPort, ArgHelp, ArgFile
        <3> QED
            BY <2>1, <3>3, InitAsTypes DEF kernelVars
    <2> QED
        BY <1>9, <2>2, <2>3 DEF RunTestbed
<1> QED
    BY <1>1, <1>2, <1>3, <1>4, <1>5, <1>6, <1>7, <1>8, <1>9 DEF Next, Chunk

LEMMA MainTypesStep == ThreadInv /\ MainTypes /\ [Next]_vars => MainTypes'
<1> SUFFICES ASSUME ThreadInv, MainTypes, [Next]_vars PROVE MainTypes'
    OBVIOUS
<1> DEFINE last == Len(Stages[program])
<1>a. last \in Nat /\ program' = program
    <2>1. last \in Nat
        BY DEF ThreadInv, Windowed, Stages
    <2>2. program' = program
        BY DEF Next, vars, mainVars, SetPath, Open, Bind, BindFails, RequireTestbed, RunTestbed,
               LeaveTestbed, GetRunBuf, Start, LoopEnds, StopKernel, Wait, Close, Interpret,
               Interpreted, Chunk, ChunkStarts, ChunkWaits, WaitIsOver, ChunkStops, ChunkInits,
               ChunkAppends, Uses, CtrlC, KernelCalls, KernelReturns, KernelEnds
    <2> QED
        BY <2>1, <2>2
<1>b. last' = last
    BY <1>a
<1>c. \A s : At(s) => stage <= last
    BY DEF At
<1>d. MainTypes <=> /\ stage \in 1..(last + 1) /\ lua \in {"none", "open", "bound", "closed"}
                    /\ testbed \in {"off", "parsing", "done", "failed", "exited"}
    BY DEF MainTypes
<1>e. MainTypes' <=> /\ stage' \in 1..(last + 1) /\ lua' \in {"none", "open", "bound", "closed"}
                     /\ testbed' \in {"off", "parsing", "done", "failed", "exited"}
    BY <1>b DEF MainTypes
<1> HIDE DEF last
<1>1. CASE SetPath \/ Open \/ Bind \/ BindFails
    BY <1>1, <1>a, <1>c, <1>d, <1>e DEF SetPath, Open, Bind, BindFails, Goes, OpenState, ApplyBindings,
                             WrappersFail, scriptVars, testbedVars
<1>2. CASE RequireTestbed \/ LeaveTestbed \/ GetRunBuf
    BY <1>2, <1>a, <1>c, <1>d, <1>e DEF RequireTestbed, Require, TestbedBegins, LeaveTestbed, GetRunBuf,
                             Goes, scriptVars, testbedVars
<1>3. CASE Start \/ LoopEnds \/ StopKernel \/ Wait
    BY <1>3, <1>a, <1>c, <1>d, <1>e DEF Start, LoopEnds, StopKernel, Wait, Goes, scriptVars, testbedVars
<1>4. CASE Close \/ Interpreted
    BY <1>4, <1>a, <1>c, <1>d, <1>e DEF Close, CloseState, Interpreted, Goes, scriptVars, testbedVars
<1>5. CASE Interpret \/ CtrlC \/ KernelCalls \/ KernelReturns \/ KernelEnds \/ UNCHANGED vars
    BY <1>5, <1>d, <1>e DEF Interpret, CtrlC, KernelCalls, KernelReturns, KernelEnds, vars, mainVars,
                 scriptVars, testbedVars
<1>6. CASE Chunk
    BY <1>6, <1>d, <1>e DEF Chunk, ChunkStarts, ChunkWaits, WaitIsOver, ChunkStops, ChunkInits,
                 ChunkAppends, AppendToLuaRequirePath, Uses, mainVars, scriptVars, testbedVars
<1>7. CASE RunTestbed
    <2>1. stage' = stage
        BY <1>7 DEF RunTestbed, mainVars
    <2>2. CASE TestbedEnds
        BY <2>1, <2>2, <1>d, <1>e DEF TestbedEnds
    <2>3. CASE ParseArgument
        <3>1. lua' = lua /\ testbed' \in {testbed, "exited", "failed"}
            BY <2>3 DEF ParseArgument, ArgPrimary, ArgSecondary, ArgHelp, ArgFile, scriptVars
        <3> QED
            BY <2>1, <3>1, <1>d, <1>e
    <2> QED
        BY <1>7, <2>2, <2>3 DEF RunTestbed
<1> QED
    BY <1>1, <1>2, <1>3, <1>4, <1>5, <1>6, <1>7 DEF Next

\* The type invariant.
THEOREM ProgramsTypeCorrect == Spec => []TypeOK
<1> DEFINE All == /\ ThreadInv /\ ConfInv /\ SignalInv
                  /\ KernelTypes /\ MainTypes /\ InterpTypes
<1>1. Init => All
    BY SignalInit, ThreadInit, ConfInit, TypesInit
<1>2. All /\ [Next]_vars => All'
    BY ThreadStep, ConfStep, SignalStep, KernelTypesStep, MainTypesStep, InterpTypesStep, InterpMoves
       DEF SignalInv
<1>3. All => TypeOK
    <2> SUFFICES ASSUME All PROVE TypeOK
        OBVIOUS
    <2>1. /\ juggler \in {2, 3} /\ roles \in Seq(Role) /\ configs \in Seq(ConfigType)
          /\ hook \in BOOLEAN /\ killed \in BOOLEAN /\ sigints \in Nat /\ cut \in Nat
        BY DEF ConfInv, ConfTypes, SignalInv, SignalTypes
    <2>2. \A i \in DOMAIN roles : roles[i] \in {Single, Primary, Secondary}
        BY <2>1 DEF Role
    <2>3. \A i \in DOMAIN configs : configs[i] \in {"fallback", "jconf"} \X Nat
        BY <2>1 DEF ConfigType
    <2> QED
        BY <2>1, <2>2, <2>3 DEF TypeOK, KernelTypes, MainTypes, InterpTypes
<1> HIDE DEF All
<1> QED
    BY <1>1, <1>2, <1>3, PTL DEF Spec
-----------------------------------------------------------------------------
(* Where things are found.                                                  *)

LEMMA LeastIndex ==
    ASSUME NEW T \in SUBSET Nat, T # {}
    PROVE  Min(T) \in T /\ \A y \in T : Min(T) <= y
<1> DEFINE R == OpToRel(<, Nat)
<1>1. IsWellFoundedOn(R, Nat)
    BY NatLessThanWellFounded
<1>2. \A x, y \in Nat : y < x => <<y, x>> \in R
    BY DEF OpToRel
<1> HIDE DEF R
<1>3. \E x \in T : \A y \in T : ~(<<y, x>> \in R)
    BY <1>1, WFMin, Zenon
<1>4. PICK x \in T : \A y \in T : ~(<<y, x>> \in R)
    BY <1>3
<1>5. x \in Nat /\ \A y \in T : y \in Nat /\ ~(y < x)
    BY <1>2, <1>4
<1>6. \A y \in T : x <= y
    BY <1>5
<1> QED
    BY <1>6 DEF Min

\* The first hit of a search: the values at the indices of a set.
LEMMA FirstHit ==
    ASSUME NEW T \in SUBSET Nat, T # {}, NEW i \in T, \A j \in T : i <= j
    PROVE  Min(T) = i
<1>1. Min(T) \in T /\ Min(T) <= i
    BY LeastIndex
<1>2. Min(T) \in Nat /\ i \in Nat /\ i <= Min(T)
    BY <1>1
<1> QED
    BY <1>1, <1>2

LEMMA UpwardsIs ==
    ASSUME NEW start
    PROVE  /\ Upwards(start)[0] = start
           /\ \A i \in 1..5 : Upwards(start)[i] = IF Upwards(start)[i - 1] = NoDir THEN NoDir
                                                  ELSE Parent[Upwards(start)[i - 1]]
<1> DEFINE up(d) == IF d = NoDir THEN NoDir ELSE Parent[d]
<1> DEFINE Is(at) == at = [i \in 0..MaxUp |-> IF i = 0 THEN start
                                              ELSE IF at[i - 1] = NoDir THEN NoDir
                                              ELSE Parent[at[i - 1]]]
<1> DEFINE g == [i \in 0..MaxUp |-> IF i = 0 THEN start
                                    ELSE IF i = 1 THEN up(start)
                                    ELSE IF i = 2 THEN up(up(start))
                                    ELSE IF i = 3 THEN up(up(up(start)))
                                    ELSE IF i = 4 THEN up(up(up(up(start))))
                                    ELSE up(up(up(up(up(start)))))]
<1>1. Is(g)
    <2> HIDE DEF up
    <2>1. /\ g[0] = start /\ g[1] = up(g[0]) /\ g[2] = up(g[1])
          /\ g[3] = up(g[2]) /\ g[4] = up(g[3]) /\ g[5] = up(g[4])
        BY DEF MaxUp
    <2> HIDE DEF g
    <2>2. \A i \in 1..5 : g[i] = up(g[i - 1])
        BY <2>1
    <2>3. DOMAIN g = 0..5 /\ g = [i \in 0..5 |-> g[i]]
        BY DEF g, MaxUp
    <2>4. \A i \in 0..5 : g[i] = IF i = 0 THEN start
                                 ELSE IF g[i - 1] = NoDir THEN NoDir ELSE Parent[g[i - 1]]
        <3> TAKE i \in 0..5
        <3>1. CASE i = 0
            BY <2>1, <3>1
        <3>2. CASE i \in 1..5
            <4>1. g[i] = up(g[i - 1]) /\ i # 0
                BY <2>2, <3>2
            <4> QED
                BY <4>1 DEF up
        <3> QED
            BY <3>1, <3>2
    <2> QED
        BY <2>3, <2>4 DEF MaxUp
<1> DEFINE n == CHOOSE at : Is(at)
<1>2. Upwards(start) = n
    BY DEF Upwards
<1> HIDE DEF g
<1>3. Is(n)
    BY <1>1
<1> HIDE DEF n
<1> QED
    BY <1>2, <1>3 DEF MaxUp

\* The levels looked at are the directories that can be reached.
LEMMA ReachableIs ==
    ASSUME NEW d \in Dirs
    PROVE  Reachable(d) = {Upwards(d)[i] : i \in 0..5}
<1> DEFINE Is(near) == near = [i \in 0..MaxUp |->
                           IF i = 0 THEN {d}
                           ELSE near[i - 1] \cup {Parent[e] : e \in near[i - 1] \ {NoDir}}]
<1> DEFINE g == [i \in 0..MaxUp |-> {Upwards(d)[j] : j \in 0..i}]
<1>1. Is(g)
    <2>1. \A j \in 1..5 : Upwards(d)[j] = IF Upwards(d)[j - 1] = NoDir THEN NoDir
                                          ELSE Parent[Upwards(d)[j - 1]]
        BY UpwardsIs
    <2>2. g[0] = {d}
        BY UpwardsIs DEF MaxUp
    <2>3. ASSUME NEW i \in 1..5
          PROVE  g[i] = g[i - 1] \cup {Parent[e] : e \in g[i - 1] \ {NoDir}}
        <3>1. /\ g[i] = {Upwards(d)[j] : j \in 0..i}
              /\ g[i - 1] = {Upwards(d)[j] : j \in 0..(i - 1)}
            BY DEF MaxUp
        <3> HIDE DEF g
        <3>2. ASSUME NEW x \in g[i]
              PROVE  x \in g[i - 1] \cup {Parent[e] : e \in g[i - 1] \ {NoDir}}
            <4>1. PICK j \in 0..i : x = Upwards(d)[j]
                BY <3>1
            <4>2. CASE j \in 0..(i - 1)
                BY <3>1, <4>1, <4>2
            <4>3. CASE j = i
                <5>1. Upwards(d)[i - 1] \in g[i - 1]
                    BY <3>1
                <5> QED
                    BY <2>1, <4>1, <4>3, <5>1
            <4> QED
                BY <4>1, <4>2, <4>3
        <3>3. g[i - 1] \subseteq g[i]
            BY <3>1
        <3>4. ASSUME NEW e \in g[i - 1] \ {NoDir} PROVE Parent[e] \in g[i]
            <4>1. PICK j \in 0..(i - 1) : e = Upwards(d)[j]
                BY <3>1
            <4>2. j + 1 \in 1..5 /\ j + 1 \in 0..i /\ (j + 1) - 1 = j
                OBVIOUS
            <4>3. Parent[e] = Upwards(d)[j + 1]
                BY <2>1, <4>1, <4>2
            <4> QED
                BY <3>1, <4>2, <4>3
        <3> QED
            BY <3>2, <3>3, <3>4
    <2>4. DOMAIN g = 0..5 /\ g = [i \in 0..5 |-> g[i]]
        BY DEF MaxUp
    <2> HIDE DEF g
    <2> QED
        BY <2>2, <2>3, <2>4 DEF MaxUp
<1>2. Reachable(d) = (CHOOSE near : Is(near))[MaxUp]
    BY DEF Reachable
<1> HIDE DEF g
<1> DEFINE n == CHOOSE near : Is(near)
<1>3. Is(n)
    BY <1>1
<1> HIDE DEF n
<1>4. /\ n[0] = {d} /\ g[0] = {d}
      /\ \A i \in 1..5 : /\ n[i] = n[i - 1] \cup {Parent[e] : e \in n[i - 1] \ {NoDir}}
                         /\ g[i] = g[i - 1] \cup {Parent[e] : e \in g[i - 1] \ {NoDir}}
    BY <1>1, <1>3 DEF MaxUp
<1>5. \A i \in 1..5 : n[i - 1] = g[i - 1] => n[i] = g[i]
    BY <1>4
<1>6. n[1] = g[1]
    <2>1. n[0] = g[0] /\ (n[1 - 1] = g[1 - 1] => n[1] = g[1])
        BY <1>4, <1>5
    <2>2. 1 - 1 = 0
        OBVIOUS
    <2> QED
        BY <2>1, <2>2
<1>7. n[2] = g[2]
    BY <1>5, <1>6
<1>8. n[3] = g[3]
    BY <1>5, <1>7
<1>9. n[4] = g[4]
    BY <1>5, <1>8
<1>10. n[5] = g[5]
    BY <1>5, <1>9
<1>11. g[5] = {Upwards(d)[j] : j \in 0..5}
    BY DEF g, MaxUp
<1> QED
    BY <1>2, <1>10, <1>11 DEF n, MaxUp

\* The walk from one place finds what can be reached, and nothing else.
LEMMA FoundUpwards ==
    ASSUME disk \in Disks, NEW d \in Dirs, NEW fn \in {"share", "flat", "font"}
    PROVE  /\ FindUpwards(d, fn) # NoDir => FindUpwards(d, fn) \in Reachable(d) \cap disk[fn]
           /\ FindUpwards(d, fn) = NoDir => Reachable(d) \cap disk[fn] = {}
           /\ d \in disk[fn] => FindUpwards(d, fn) # NoDir
<1> DEFINE at == Upwards(d)
           hits == {i \in 0..MaxUp : at[i] \in disk[fn]}
<1>1. FindUpwards(d, fn) = IF hits = {} THEN NoDir ELSE at[Min(hits)]
    BY DEF FindUpwards
<1>2. Reachable(d) = {at[i] : i \in 0..5}
    BY ReachableIs
<1>3. at[0] = d
    BY UpwardsIs
<1> HIDE DEF at
<1>4. hits \in SUBSET Nat /\ \A i \in hits : i \in 0..5 /\ at[i] \in disk[fn]
    BY DEF MaxUp
<1>5. \A i \in 0..5 : at[i] \in disk[fn] => i \in hits
    BY DEF MaxUp
<1> HIDE DEF hits
<1>6. NoDir \notin disk[fn]
    BY LuaPathAssumption
<1>7. CASE hits = {}
    BY <1>1, <1>2, <1>3, <1>5, <1>7
<1>8. CASE hits # {}
    <2>1. Min(hits) \in hits
        BY <1>4, <1>8, LeastIndex
    <2> QED
        BY <1>1, <1>2, <1>4, <1>6, <1>8, <2>1
<1> QED
    BY <1>7, <1>8

\* The search from several places leads to the first that finds something.
LEMMA FoundFrom ==
    ASSUME NEW starts, DOMAIN starts \subseteq Nat, NEW fn
    PROVE  /\ FindFrom(starts, fn) = NoDir =>
                  \A i \in DOMAIN starts : FindUpwards(starts[i], fn) = NoDir
           /\ FindFrom(starts, fn) # NoDir =>
                  \E i \in DOMAIN starts :
                      /\ FindFrom(starts, fn) = FindUpwards(starts[i], fn)
                      /\ \A j \in DOMAIN starts : j < i => FindUpwards(starts[j], fn) = NoDir
<1> DEFINE hits == {i \in DOMAIN starts : FindUpwards(starts[i], fn) # NoDir}
<1>1. FindFrom(starts, fn) = IF hits = {} THEN NoDir ELSE FindUpwards(starts[Min(hits)], fn)
    BY DEF FindFrom
<1>2. hits \in SUBSET Nat
    OBVIOUS
<1>3. CASE hits = {}
    BY <1>1, <1>3
<1>4. CASE hits # {}
    <2> DEFINE m == Min(hits)
    <2>1. m \in hits /\ \A j \in hits : m <= j
        BY <1>2, <1>4, LeastIndex
    <2>2. FindFrom(starts, fn) = FindUpwards(starts[m], fn)
        BY <1>1, <1>4
    <2> HIDE DEF m
    <2>3. m \in DOMAIN starts /\ FindUpwards(starts[m], fn) # NoDir
        BY <2>1
    <2>4. \A j \in DOMAIN starts : j < m => j \notin hits
        BY <1>2, <2>1
    <2> QED
        BY <2>2, <2>3, <2>4
<1> QED
    BY <1>3, <1>4

\* What LuaPath finds for a program that was called in a certain way.
Starts == <<Cwd, Cwd, ExeDirOf(arg0)>>
Inst == FindFrom(Starts, "share")
Flat == FindFrom(Starts, "flat")
Root == IF Inst # NoDir THEN Inst ELSE Flat
LuaDir == IF Inst # NoDir THEN Entry(Place(Inst, "lua"), TRUE) ELSE Entry(Place(Flat, "here"), FALSE)
Assets == Starts \o (IF Inst # NoDir THEN <<ShareOf[Inst]>> ELSE <<>>) \o SomeDir(disk["hint"])
Settled(search) ==
    [valid |-> TRUE, exeDir |-> ExeDirOf(arg0), root |-> Root, luaDir |-> LuaDir,
     share |-> FindFrom(Assets, "font"), juggler |-> FindJuggler(Root),
     env |-> JugglerEnvironment(FALSE, FindJuggler(Root)), search |-> search]

Places == disk \in Disks /\ arg0 \in {"path", "bare"}

LEMMA InitialisedIs == Initialised(arg0) = Settled(<<>>)
BY DEF Initialised, Found, Settled, Starts, Inst, Flat, Root, LuaDir, Assets

LEMMA StartFacts ==
    ASSUME Places
    PROVE  /\ Cwd \in Dirs /\ ExeDirOf(arg0) \in Dirs
           /\ DOMAIN Starts = {1, 2, 3}
           /\ Starts[1] = Cwd /\ Starts[2] = Cwd /\ Starts[3] = ExeDirOf(arg0)
           /\ arg0 = "path" => ExeDirOf(arg0) = ExeDir
           /\ \A fn \in {"share", "flat", "etc", "font", "mine"} : NoDir \notin disk[fn]
<1>1. Cwd \in Dirs /\ ExeDir \in Dirs
    BY LuaPathAssumption
<1>2. ExeDirOf(arg0) \in {Cwd, ExeDir} /\ (arg0 = "path" => ExeDirOf(arg0) = ExeDir)
    BY DEF ExeDirOf, Places
<1>3. \A fn \in {"share", "flat", "etc", "font", "mine"} : NoDir \notin disk[fn]
    BY LuaPathAssumption DEF Places
<1>4. DOMAIN Starts = {1, 2, 3} /\ Starts[1] = Cwd /\ Starts[2] = Cwd /\ Starts[3] = ExeDirOf(arg0)
    BY DEF Starts
<1> QED
    BY <1>1, <1>2, <1>3, <1>4

\* What is near the working directory comes before what is near the program.
LEMMA StartsFind ==
    ASSUME Places, NEW fn \in {"share", "flat"}
    PROVE  LET found == FindFrom(Starts, fn)
               nearExe == Reachable(ExeDirOf(arg0))
           IN  /\ NearCwd \cap disk[fn] # {} => found \in NearCwd \cap disk[fn]
               /\ NearCwd \cap disk[fn] = {} /\ nearExe \cap disk[fn] # {}
                      => found \in nearExe \cap disk[fn]
               /\ (NearCwd \cup nearExe) \cap disk[fn] = {} => found = NoDir
               /\ found = NoDir => (NearCwd \cup nearExe) \cap disk[fn] = {}
<1> DEFINE found == FindFrom(Starts, fn)
           nearExe == Reachable(ExeDirOf(arg0))
           fromCwd == FindUpwards(Cwd, fn)
           fromExe == FindUpwards(ExeDirOf(arg0), fn)
<1>a. disk \in Disks
    BY DEF Places
<1>1. /\ fromCwd # NoDir => fromCwd \in NearCwd \cap disk[fn]
      /\ fromCwd = NoDir => NearCwd \cap disk[fn] = {}
    BY <1>a, StartFacts, FoundUpwards DEF NearCwd
<1>2. /\ fromExe # NoDir => fromExe \in nearExe \cap disk[fn]
      /\ fromExe = NoDir => nearExe \cap disk[fn] = {}
    BY <1>a, StartFacts, FoundUpwards
<1>3. /\ found = NoDir => fromCwd = NoDir /\ fromExe = NoDir
      /\ found # NoDir => found = fromCwd \/ (found = fromExe /\ fromCwd = NoDir)
    <2>1. DOMAIN Starts = {1, 2, 3} /\ Starts[1] = Cwd /\ Starts[2] = Cwd /\ Starts[3] = ExeDirOf(arg0)
        BY StartFacts
    <2>2. /\ found = NoDir => \A i \in {1, 2, 3} : FindUpwards(Starts[i], fn) = NoDir
          /\ found # NoDir =>
                 \E i \in {1, 2, 3} :
                     /\ found = FindUpwards(Starts[i], fn)
                     /\ \A j \in {1, 2, 3} : j < i => FindUpwards(Starts[j], fn) = NoDir
        BY <2>1, FoundFrom
    <2>3. CASE found = NoDir
        BY <2>1, <2>2, <2>3
    <2>4. CASE found # NoDir
        <3>1. PICK i \in {1, 2, 3} :
                  /\ found = FindUpwards(Starts[i], fn)
                  /\ \A j \in {1, 2, 3} : j < i => FindUpwards(Starts[j], fn) = NoDir
            BY <2>2, <2>4
        <3>2. CASE i \in {1, 2}
            BY <2>1, <2>4, <3>1, <3>2
        <3>3. CASE i = 3
            <4>1. FindUpwards(Starts[1], fn) = NoDir
                BY <3>1, <3>3
            <4> QED
                BY <2>1, <2>4, <3>1, <3>3, <4>1
        <3> QED
            BY <3>2, <3>3
    <2> QED
        BY <2>3, <2>4
<1>4. NoDir \notin disk[fn]
    BY StartFacts
<1> HIDE DEF found, nearExe, fromCwd, fromExe
<1>5. /\ NearCwd \cap disk[fn] # {} => found \in NearCwd \cap disk[fn]
      /\ NearCwd \cap disk[fn] = {} /\ nearExe \cap disk[fn] # {} => found \in nearExe \cap disk[fn]
      /\ (NearCwd \cup nearExe) \cap disk[fn] = {} => found = NoDir
      /\ found = NoDir => (NearCwd \cup nearExe) \cap disk[fn] = {}
    BY <1>1, <1>2, <1>3, <1>4
<1> QED
    BY <1>5 DEF found, nearExe

\* The root has the share layout exactly if one with it was found.
LEMMA RootIs ==
    ASSUME Places
    PROVE  /\ Inst # NoDir => Inst \in disk["share"] /\ Root = Inst
           /\ Root \in disk["share"] => Inst # NoDir
           /\ Root # NoDir => Root \in disk["share"] \cup disk["flat"]
<1> DEFINE nearExe == Reachable(ExeDirOf(arg0))
<1>1. /\ Inst # NoDir => Inst \in (NearCwd \cup nearExe) \cap disk["share"]
      /\ Inst = NoDir => (NearCwd \cup nearExe) \cap disk["share"] = {}
    BY StartsFind DEF Inst
<1>2. Flat # NoDir => Flat \in (NearCwd \cup nearExe) \cap disk["flat"]
    BY StartsFind DEF Flat
<1>3. NoDir \notin disk["share"]
    BY StartFacts
<1> HIDE DEF nearExe
<1> QED
    BY <1>1, <1>2, <1>3 DEF Root

\* An asset below the root, or where the hint says, is found.
LEMMA AssetIs ==
    ASSUME Places, Root \in disk["share"], {ShareOf[Root], disk["hint"]} \cap disk["font"] # {}
    PROVE  FindFrom(Assets, "font") # NoDir /\ FindFrom(Assets, "font") \in disk["font"]
<1> DEFINE hint == disk["hint"]
<1>a. disk \in Disks /\ Inst # NoDir /\ Root = Inst
    BY RootIs DEF Places
<1>b. ShareOf[Root] \in Dirs /\ hint \in Dirs \cup {NoDir} /\ NoDir \notin Dirs
      /\ disk["font"] \subseteq Dirs
    BY <1>a, LuaPathAssumption
<1>c. Cwd \in Dirs /\ ExeDirOf(arg0) \in Dirs
    BY StartFacts
<1>1. /\ DOMAIN Assets \subseteq Nat
      /\ \A i \in DOMAIN Assets : Assets[i] \in Dirs
      /\ \A d \in disk["font"] : d = ShareOf[Root] \/ d = hint => \E i \in DOMAIN Assets : Assets[i] = d
    <2> DEFINE share == <<ShareOf[Root]>>
               last == SomeDir(hint)
    <2>1. Starts \in Seq(Dirs) /\ share \in Seq(Dirs) /\ last \in Seq(Dirs)
        BY <1>b, <1>c DEF Starts, SomeDir
    <2>2. Assets = (Starts \o share) \o last
        BY <1>a DEF Assets
    <2>3. ShareOf[Root] \in Range(share)
        <3>1. 1 \in DOMAIN share /\ share[1] = ShareOf[Root]
            OBVIOUS
        <3> QED
            BY <3>1 DEF Range
    <2>4. hint # NoDir => hint \in Range(last)
        <3>1. hint # NoDir => 1 \in DOMAIN last /\ last[1] = hint
            BY DEF SomeDir
        <3> QED
            BY <3>1 DEF Range
    <2> HIDE DEF share, last
    <2> DEFINE first == Starts \o share
    <2>5. first \in Seq(Dirs) /\ Range(first) = Range(Starts) \cup Range(share)
        BY <2>1, ConcatProperties, RangeConcatenation
    <2>6. Assets = first \o last
        BY <2>2
    <2> HIDE DEF first
    <2>8. first \o last \in Seq(Dirs)
        BY <2>1, <2>5, ConcatProperties
    <2>9. Range(first \o last) = Range(first) \cup Range(last)
        BY <2>1, <2>5, RangeConcatenation
    <2>7. ShareOf[Root] \in Range(Assets) /\ (hint # NoDir => hint \in Range(Assets))
        BY <2>3, <2>4, <2>5, <2>6, <2>9
    <2> QED
        BY <1>b, <2>6, <2>7, <2>8 DEF Range
<1>2. PICK k \in DOMAIN Assets : Assets[k] \in disk["font"]
    BY <1>1
<1>3. FindUpwards(Assets[k], "font") # NoDir
    BY <1>a, <1>1, <1>2, FoundUpwards
<1>4. FindFrom(Assets, "font") # NoDir
    BY <1>1, <1>3, FoundFrom
<1>5. PICK i \in DOMAIN Assets : FindFrom(Assets, "font") = FindUpwards(Assets[i], "font")
    BY <1>1, <1>4, FoundFrom
<1>6. FindUpwards(Assets[i], "font") \in disk["font"]
    BY <1>a, <1>1, <1>4, <1>5, FoundUpwards
<1> QED
    BY <1>4, <1>5, <1>6

-----------------------------------------------------------------------------
(* From where modules are loaded.                                           *)

Here == Entry(Place(Cwd, "here"), TRUE)
Etc == Entry(Place(Root, "etc"), TRUE)
Search == IF Root = NoDir THEN <<LuaDir>> ELSE <<Etc>> \o <<LuaDir>>

\* The place a module is loaded from, or <<>>.
Source(mod) ==
    IF Cwd \in disk["flat"] \/ (mod = "vrjlua-config" /\ Cwd \in disk["mine"]) THEN Place(Cwd, "here")
    ELSE IF mod = "vrjlua-config" /\ Root \in disk["etc"] THEN Place(Root, "etc")
    ELSE IF Root \in disk["share"] THEN Place(Root, "lua")
    ELSE <<>>

LEMMA SettledSearch ==
    ASSUME NEW s, NEW t
    PROVE  /\ [Settled(s) EXCEPT !.search = t] = Settled(t)
           /\ Settled(s).search = s /\ Settled(s).root = Root /\ Settled(s).luaDir = LuaDir
           /\ Settled(s).share = FindFrom(Assets, "font") /\ Settled(s).valid = TRUE
<1> DEFINE yes == TRUE
           exe == ExeDirOf(arg0)
           share == FindFrom(Assets, "font")
           vr == FindJuggler(Root)
           env == JugglerEnvironment(FALSE, FindJuggler(Root))
<1>1. /\ Settled(s) = [valid |-> yes, exeDir |-> exe, root |-> Root, luaDir |-> LuaDir,
                         share |-> share, juggler |-> vr, env |-> env, search |-> s]
      /\ Settled(t) = [valid |-> yes, exeDir |-> exe, root |-> Root, luaDir |-> LuaDir,
                         share |-> share, juggler |-> vr, env |-> env, search |-> t]
    BY DEF Settled
<1> HIDE DEF yes, exe, share, vr, env
<1>2. [Settled(s) EXCEPT !.search = t] = Settled(t)
    BY <1>1
<1>3. /\ Settled(s).search = s /\ Settled(s).root = Root /\ Settled(s).luaDir = LuaDir
      /\ Settled(s).share = share /\ Settled(s).valid = yes
    BY <1>1
<1> QED
    BY <1>2, <1>3 DEF share, yes

LEMMA SearchFacts ==
    /\ Search \in Seq({Here, Etc, LuaDir}) /\ Search # <<>>
    /\ Root = NoDir => Len(Search) = 1 /\ Search[1] = LuaDir
    /\ Root # NoDir => Len(Search) = 2 /\ Search[1] = Etc /\ Search[2] = LuaDir
<1> DEFINE S == {Here, Etc, LuaDir}
           a == <<Etc>>
           b == <<LuaDir>>
<1>1. /\ a \in Seq(S) /\ Len(a) = 1 /\ a[1] = Etc
      /\ b \in Seq(S) /\ Len(b) = 1 /\ b[1] = LuaDir
    OBVIOUS
<1>2. Search = IF Root = NoDir THEN b ELSE a \o b
    BY DEF Search
<1> HIDE DEF a, b, S
<1>3. /\ a \o b \in Seq(S) /\ Len(a \o b) = Len(a) + Len(b)
      /\ \A i \in 1..(Len(a) + Len(b)) : (a \o b)[i] = IF i <= Len(a) THEN a[i] ELSE b[i - Len(a)]
    BY <1>1, ConcatProperties
<1>4. Len(a \o b) = 2 /\ (a \o b)[1] = Etc /\ (a \o b)[2] = LuaDir
    BY <1>1, <1>3
<1>5. /\ Search \in Seq(S) /\ Len(Search) # 0
      /\ Root = NoDir => Len(Search) = 1 /\ Search[1] = LuaDir
      /\ Root # NoDir => Len(Search) = 2 /\ Search[1] = Etc /\ Search[2] = LuaDir
    BY <1>1, <1>2, <1>3, <1>4
<1>6. Search # <<>>
    BY <1>5
<1> QED
    BY <1>5, <1>6 DEF S

\* The bindings put the etc directory of the root in front of its lua directory.
LEMMA BoundPathIs == BoundPath(Settled(<<>>)) = Settled(Search)
<1>1. Updated(Settled(<<>>)) = Settled(<<LuaDir>>)
    <2>1. Settled(<<>>).search = <<>> /\ Settled(<<>>).luaDir = LuaDir
        BY SettledSearch
    <2>2. [Settled(<<>>) EXCEPT !.search = <<LuaDir>>] = Settled(<<LuaDir>>)
        BY SettledSearch
    <2> QED
        BY <2>1, <2>2 DEF Updated
<1>2. CASE Root = NoDir
    BY <1>1, <1>2, SettledSearch DEF BoundPath, Search
<1>3. CASE Root # NoDir
    <2>1. BoundPath(Settled(<<>>)) = WithRequirePath(Settled(<<LuaDir>>), Etc)
        BY <1>1, <1>3, SettledSearch DEF BoundPath, Etc
    <2>2. Settled(<<LuaDir>>).search = <<LuaDir>> /\ Search = <<Etc>> \o <<LuaDir>>
        BY <1>3, SettledSearch DEF Search
    <2>3. [Settled(<<LuaDir>>) EXCEPT !.search = Search] = Settled(Search)
        <3> DEFINE q == <<LuaDir>>
        <3> HIDE DEF q
        <3>1. [Settled(q) EXCEPT !.search = Search] = Settled(Search)
            BY SettledSearch, Zenon
        <3> QED
            BY <3>1 DEF q
    <2>4. WithRequirePath(Settled(<<LuaDir>>), Etc) = Updated(Settled(Search))
        BY <2>2, <2>3 DEF WithRequirePath
    <2>5. Settled(Search).search = Search /\ Search # <<>>
        BY SearchFacts, SettledSearch
    <2>6. Updated(Settled(Search)) = Settled(Search)
        BY <2>5 DEF Updated
    <2> QED
        BY <2>1, <2>4, <2>6
<1> QED
    BY <1>2, <1>3

LEMMA PathIs ==
    LET path == PackagePathOf(Settled(Search))
        last == IF Root = NoDir THEN 2 ELSE 3
    IN  DOMAIN path = 1..last /\ path[1] = Here /\ path[last] = LuaDir
        /\ (Root # NoDir => path[2] = Etc)
<1> DEFINE S == {Here, Etc, LuaDir}
           first == <<Here>>
           path == PackagePathOf(Settled(Search))
           last == IF Root = NoDir THEN 2 ELSE 3
<1>0. (Root = NoDir => last = 2) /\ (Root # NoDir => last = 3)
    OBVIOUS
<1>1. path = first \o Search
    BY SettledSearch DEF PackagePathOf, Here
<1>2. first \in Seq(S) /\ Len(first) = 1 /\ first[1] = Here
    OBVIOUS
<1> HIDE DEF last
<1>3. /\ Search \in Seq(S) /\ Len(Search) = last - 1
      /\ Search[last - 1] = LuaDir /\ (Root # NoDir => Search[1] = Etc)
    <2>1. CASE Root = NoDir
        BY <1>0, <2>1, SearchFacts
    <2>2. CASE Root # NoDir
        BY <1>0, <2>2, SearchFacts
    <2> QED
        BY <2>1, <2>2
<1> HIDE DEF S, first, path
<1>4. /\ path \in Seq(S) /\ Len(path) = Len(first) + Len(Search)
      /\ \A i \in 1..(Len(first) + Len(Search)) :
             path[i] = IF i <= Len(first) THEN first[i] ELSE Search[i - Len(first)]
    BY <1>1, <1>2, <1>3, ConcatProperties
<1>5. Len(path) = last /\ path[1] = Here /\ \A i \in 2..last : path[i] = Search[i - 1]
    BY <1>0, <1>2, <1>3, <1>4
<1>6. DOMAIN path = 1..last /\ path[1] = Here /\ path[last] = LuaDir
      /\ (Root # NoDir => path[2] = Etc)
    BY <1>0, <1>3, <1>4, <1>5
<1> QED
    BY <1>6 DEF path, last

LEMMA ResolveIs ==
    ASSUME Places, NEW mod
    PROVE  Resolve(PackagePathOf(Settled(Search)), mod) = Source(mod)
<1> DEFINE path == PackagePathOf(Settled(Search))
           last == IF Root = NoDir THEN 2 ELSE 3
           hits == {i \in DOMAIN path : path[i].slash /\ Holds(path[i].place, mod)}
<1>1. DOMAIN path = 1..last /\ path[1] = Here /\ path[last] = LuaDir
      /\ (Root # NoDir => path[2] = Etc)
    BY PathIs
<1>0. (Root = NoDir => last = 2) /\ (Root # NoDir => last = 3)
    OBVIOUS
<1>2. Resolve(path, mod) = IF hits = {} THEN <<>> ELSE path[Min(hits)].place
    BY DEF Resolve
<1> HIDE DEF path, last
<1>3. /\ Here.slash /\ Here.place = Place(Cwd, "here")
      /\ Etc.slash /\ Etc.place = Place(Root, "etc")
      /\ LuaDir.slash <=> Inst # NoDir
      /\ Inst # NoDir => LuaDir.place = Place(Root, "lua")
    BY RootIs DEF Here, Etc, LuaDir, Entry
<1>4. /\ Holds(Place(Cwd, "here"), mod) <=> \/ Cwd \in disk["flat"]
                                            \/ mod = "vrjlua-config" /\ Cwd \in disk["mine"]
      /\ Holds(Place(Root, "etc"), mod) <=> mod = "vrjlua-config" /\ Root \in disk["etc"]
      /\ Holds(Place(Root, "lua"), mod) <=> Root \in disk["share"]
    BY DEF Holds, Place
<1>5. (Inst # NoDir <=> Root \in disk["share"]) /\ (Root \in disk["etc"] => Root # NoDir)
    BY RootIs, StartFacts
<1>6. hits \in SUBSET Nat /\ hits \subseteq 1..last
    BY <1>0, <1>1
<1>7. 1 \in hits <=> Holds(Place(Cwd, "here"), mod)
    BY <1>0, <1>1, <1>3
<1>8. Root # NoDir => (2 \in hits <=> Holds(Place(Root, "etc"), mod))
    BY <1>0, <1>1, <1>3
<1>9. last \in hits <=> Inst # NoDir /\ Holds(Place(Root, "lua"), mod)
    BY <1>0, <1>1, <1>3
<1> DEFINE inCwd == Cwd \in disk["flat"] \/ (mod = "vrjlua-config" /\ Cwd \in disk["mine"])
           inEtc == mod = "vrjlua-config" /\ Root \in disk["etc"]
<1>a. /\ 1 \in hits <=> inCwd
      /\ Root # NoDir => (2 \in hits <=> inEtc)
      /\ last \in hits <=> Root \in disk["share"]
      /\ inEtc => Root # NoDir
    BY <1>4, <1>5, <1>7, <1>8, <1>9
<1>b. Source(mod) = IF inCwd THEN Place(Cwd, "here") ELSE IF inEtc THEN Place(Root, "etc")
                    ELSE IF Root \in disk["share"] THEN Place(Root, "lua") ELSE <<>>
    BY DEF Source
<1> HIDE DEF hits, inCwd, inEtc
<1>10. ASSUME 1 \in hits PROVE Resolve(path, mod) = Source(mod)
    <2>1. Min(hits) = 1
        BY <1>6, <1>10, FirstHit
    <2> QED
        BY <1>1, <1>2, <1>3, <1>a, <1>b, <1>10, <2>1
<1>11. ASSUME 1 \notin hits, Root # NoDir, 2 \in hits
       PROVE  Resolve(path, mod) = Source(mod)
    <2>1. Min(hits) = 2
        <3>1. \A j \in hits : 2 <= j
            BY <1>0, <1>6, <1>11
        <3> QED
            BY <1>6, <1>11, <3>1, FirstHit
    <2>2. Resolve(path, mod) = Place(Root, "etc")
        BY <1>1, <1>2, <1>3, <1>11, <2>1
    <2>3. Source(mod) = Place(Root, "etc")
        BY <1>a, <1>b, <1>11
    <2> QED
        BY <2>2, <2>3
<1>12. ASSUME 1 \notin hits, (Root = NoDir \/ 2 \notin hits), last \in hits
       PROVE  Resolve(path, mod) = Source(mod)
    <2>1. \A j \in hits : last <= j
        BY <1>0, <1>6, <1>12
    <2>2. Min(hits) = last
        BY <1>6, <1>12, <2>1, FirstHit
    <2>3. Resolve(path, mod) = Place(Root, "lua")
        BY <1>1, <1>2, <1>3, <1>9, <1>12, <2>2
    <2>4. Source(mod) = Place(Root, "lua")
        BY <1>a, <1>b, <1>12
    <2> QED
        BY <2>3, <2>4
<1>13. ASSUME 1 \notin hits, (Root = NoDir \/ 2 \notin hits), last \notin hits
       PROVE  Resolve(path, mod) = Source(mod)
    <2>1. hits = {}
        BY <1>0, <1>6, <1>13
    <2> QED
        BY <1>2, <1>a, <1>b, <1>13, <2>1
<1> QED
    BY <1>10, <1>11, <1>12, <1>13 DEF path

\* The singleton is settled before the bindings are applied; they decide the search
\* path, and every module comes from where it decides.
LocationInv ==
    /\ Places
    /\ lp.valid => \E s : lp = Settled(s)
    /\ stage > 2 \/ (program \in Windowed /\ stage = 2) => lp.valid
    /\ stage <= 3 => /\ lp.valid => lp = Settled(<<>>)
                     /\ modules = {} /\ modelPath = <<>>
                     /\ call = "none" /\ testbed = "off"
    /\ lua \in {"bound", "closed"} => stage > 3 \/ exit = "failed"
    /\ stage > 3 => collecting

PathInv ==
    /\ stage > 3 /\ program \in Windowed => packagePath = PackagePathOf(Settled(Search))
    /\ DOMAIN modelPath \subseteq Nat
    /\ stage > 3 /\ FindFrom(Assets, "font") # NoDir =>
           \E i \in DOMAIN modelPath : modelPath[i] = FindFrom(Assets, "font")

ModuleInv ==
    /\ \A m \in modules : m = Module(m[1], Source(m[1])) /\ Source(m[1]) # <<>>
    /\ stage > 3 => (Loaded("vrjlua-init") <=> Source("vrjlua-init") # <<>>)

\* What was found stays found, as the file system does not change.
LEMMA PlacesStay ==
    ASSUME UNCHANGED <<disk, arg0>>
    PROVE  /\ Places' = Places /\ Root' = Root /\ Search' = Search
           /\ FindFrom(Assets, "font")' = FindFrom(Assets, "font")
           /\ \A s : Settled(s)' = Settled(s)
           /\ \A mod : Source(mod)' = Source(mod)
<1>1. \A start, fn : FindUpwards(start, fn)' = FindUpwards(start, fn)
    BY DEF FindUpwards
<1>2. Starts' = Starts
    BY DEF Starts, ExeDirOf
<1>3. \A starts, fn : FindFrom(starts, fn)' = FindFrom(starts, fn)
    BY <1>1 DEF FindFrom
<1>4. Inst' = Inst /\ Flat' = Flat
    BY <1>2, <1>3 DEF Inst, Flat
<1>5. Root' = Root /\ LuaDir' = LuaDir /\ Assets' = Assets
    BY <1>2, <1>4 DEF Root, LuaDir, Assets
<1>6. Search' = Search
    BY <1>5 DEF Search, Etc
<1>7. FindFrom(Assets, "font")' = FindFrom(Assets, "font")
    BY <1>3, <1>5
<1>8. FindJuggler(Root)' = FindJuggler(Root)
    BY <1>1, <1>5 DEF FindJuggler, FindVPRDLL
<1>9. \A s : Settled(s)' = Settled(s)
    BY <1>5, <1>7, <1>8 DEF Settled, ExeDirOf
<1>10. \A mod : Source(mod)' = Source(mod)
    BY <1>5 DEF Source
<1> QED
    BY <1>5, <1>6, <1>7, <1>9, <1>10 DEF Places

\* Steps that leave the search alone; they may load a module once main is past the
\* bindings.
Quiet ==
    /\ UNCHANGED <<pathVars, collecting, arg0, program>>
    /\ stage' \in {stage, stage + 1}
    /\ stage <= 3 => /\ UNCHANGED <<stage, modules, call, testbed>>
                     /\ lua' = lua \/ exit' = "failed"
    /\ exit = "failed" => exit' = "failed"

LEMMA QuietStep ==
    ASSUME LocationInv, PathInv, Quiet, stage \in Nat
    PROVE  LocationInv' /\ PathInv' /\ (stage' > 3 <=> stage > 3)
<1>1. /\ disk' = disk /\ arg0' = arg0 /\ program' = program /\ lp' = lp /\ collecting' = collecting
      /\ packagePath' = packagePath /\ modelPath' = modelPath
    BY DEF Quiet, pathVars
<1>2. /\ Places' = Places /\ Root' = Root /\ Search' = Search
      /\ FindFrom(Assets, "font")' = FindFrom(Assets, "font")
      /\ \A s : Settled(s)' = Settled(s)
    BY <1>1, PlacesStay
<1>3. /\ stage' > 3 <=> stage > 3
      /\ stage' > 2 <=> stage > 2
      /\ stage' = 2 <=> stage = 2
      /\ stage' <= 3 => stage <= 3
    BY DEF Quiet
<1>4. LocationInv'
    <2>1. Places' /\ (lp'.valid => \E s : lp' = Settled(s)')
        BY <1>1, <1>2 DEF LocationInv
    <2>2. stage' > 2 \/ (program' \in Windowed /\ stage' = 2) => lp'.valid
        BY <1>1, <1>3 DEF LocationInv
    <2>3. stage' <= 3 => /\ lp'.valid => lp' = Settled(<<>>)'
                         /\ modules' = {} /\ modelPath' = <<>>
                         /\ call' = "none" /\ testbed' = "off"
        BY <1>1, <1>2, <1>3 DEF LocationInv, Quiet
    <2>4. lua' \in {"bound", "closed"} => stage' > 3 \/ exit' = "failed"
        BY <1>3 DEF LocationInv, Quiet
    <2>5. stage' > 3 => collecting'
        BY <1>1, <1>3 DEF LocationInv
    <2> QED
        BY <2>1, <2>2, <2>3, <2>4, <2>5 DEF LocationInv
<1>5. PathInv'
    <2>1. PackagePathOf(Settled(Search))' = PackagePathOf(Settled(Search))
        BY <1>2 DEF PackagePathOf
    <2> QED
        BY <1>1, <1>2, <1>3, <2>1 DEF PathInv
<1> QED
    BY <1>3, <1>4, <1>5

\* A module that is loaded later comes from where the path decides, too.
LEMMA ModuleStep ==
    ASSUME LocationInv, PathInv, ModuleInv, UNCHANGED <<disk, arg0>>, stage' > 3 <=> stage > 3,
           \/ modules' = modules
           \/ /\ program \in Windowed /\ stage > 3
              /\ \E mod \in {"osgnav-testbed", "vrjlua-config"} :
                     modules' = WithModule(packagePath, mod)
    PROVE  ModuleInv'
<1>1. \A mod : Source(mod)' = Source(mod)
    BY PlacesStay
<1>2. CASE modules' = modules
    BY <1>1, <1>2 DEF ModuleInv, Loaded
<1>3. ASSUME NEW mod \in {"osgnav-testbed", "vrjlua-config"}, program \in Windowed, stage > 3,
             modules' = WithModule(packagePath, mod), modules' # modules
      PROVE  ModuleInv'
    <2>1. Resolve(packagePath, mod) = Source(mod)
        BY <1>3, ResolveIs DEF PathInv, LocationInv
    <2> DEFINE new == Module(mod, Source(mod))
    <2>2. Source(mod) # <<>> /\ modules' = modules \cup {new}
        BY <1>3, <2>1 DEF WithModule
    <2>3. new[1] = mod
        BY DEF Module
    <2>4. \A m \in modules' : m = Module(m[1], Source(m[1])) /\ Source(m[1]) # <<>>
        BY <2>2, <2>3 DEF ModuleInv
    <2>5. Loaded("vrjlua-init")' <=> Loaded("vrjlua-init")
        BY <2>2, <2>3 DEF Loaded
    <2> QED
        BY <1>1, <2>4, <2>5 DEF ModuleInv
<1> QED
    BY <1>2, <1>3
\* The steps that are quiet: all but those that find the installation, open the
\* state, bind it, and add to the search path.
LEMMA QuietSteps ==
    ASSUME ThreadInv, LocationInv, [Next]_vars, ~SetPath, ~Open, ~Bind, ~ChunkAppends
    PROVE  /\ Quiet
           /\ \/ modules' = modules
              \/ /\ program \in Windowed /\ stage > 3
                 /\ \E mod \in {"osgnav-testbed", "vrjlua-config"} :
                        modules' = WithModule(packagePath, mod)
<1> DEFINE Goal == /\ Quiet
                   /\ \/ modules' = modules
                      \/ /\ program \in Windowed /\ stage > 3
                         /\ \E mod \in {"osgnav-testbed", "vrjlua-config"} :
                                modules' = WithModule(packagePath, mod)
<1>1. stage \in Nat \ {0} /\ program \in Windowed \cup {"vrjlua"}
    BY DEF ThreadInv
<1>2. ASSUME UNCHANGED <<pathVars, modules, collecting, arg0, program, call, testbed>>,
             stage' = stage, lua' = lua, exit' = exit
      PROVE  Goal
    BY <1>1, <1>2 DEF Quiet
<1>3. ASSUME UNCHANGED <<pathVars, modules, collecting, arg0, program>>,
             stage > 3, stage' \in {stage, stage + 1}, exit = "no"
      PROVE  Goal
    BY <1>1, <1>3 DEF Quiet
<1>4. CASE BindFails
    BY <1>1, <1>4, StageOf DEF BindFails, WrappersFail, Quiet, testbedVars, interpVars
<1>5. CASE RequireTestbed
    <2>1. stage > 3 /\ program \in Windowed /\ exit = "no"
        BY <1>1, <1>5, StageOf DEF RequireTestbed, At
    <2> QED
        BY <1>1, <1>5, <2>1 DEF RequireTestbed, Require, Goes, Quiet
<1>6. CASE RunTestbed
    <2>1. stage > 3 /\ program \in Windowed /\ exit = "no"
        BY <1>1, <1>6, StageOf DEF RunTestbed, At
    <2>2. CASE ParseArgument
        BY <1>1, <1>3, <1>6, <2>1, <2>2 DEF RunTestbed, ParseArgument, mainVars, scriptVars
    <2>3. CASE TestbedEnds
        <3>1. modules' = modules \/ modules' = WithModule(packagePath, "vrjlua-config")
            BY <2>3 DEF TestbedEnds, Configure
        <3> QED
            BY <1>1, <1>6, <2>1, <2>3, <3>1 DEF RunTestbed, TestbedEnds, mainVars, Quiet
    <2> QED
        BY <1>6, <2>2, <2>3 DEF RunTestbed
<1>7. CASE LeaveTestbed \/ GetRunBuf \/ Start \/ LoopEnds \/ StopKernel \/ Wait \/ Interpreted
    <2>1. stage > 3 /\ exit = "no"
        BY <1>1, <1>7, StageOf DEF LeaveTestbed, GetRunBuf, Start, LoopEnds, StopKernel, Wait,
                                   Interpreted, At
    <2> QED
        BY <1>3, <1>7, <2>1 DEF LeaveTestbed, GetRunBuf, Start, LoopEnds, StopKernel, Wait,
                                Interpreted, Goes, scriptVars
<1>8. CASE Close
    <2>1. stage > 3 /\ exit = "no"
        BY <1>1, <1>8, StageOf DEF Close, At
    <2> QED
        BY <1>3, <1>8, <2>1 DEF Close, CloseState, Goes
<1>9. CASE Interpret \/ CtrlC \/ WaitIsOver
    <2>1. stage > 3 /\ exit = "no"
        BY <1>1, <1>9, StageOf DEF Interpret, CtrlC, WaitIsOver, At
    <2> QED
        BY <1>3, <1>9, <2>1 DEF Interpret, CtrlC, WaitIsOver, mainVars, scriptVars
<1>10. CASE ChunkWaits \/ ChunkStops \/ ChunkInits
    <2>1. stage > 3 /\ exit = "no"
        BY <1>1, <1>10, StageOf DEF ChunkWaits, ChunkStops, ChunkInits, InChunk, At
    <2> QED
        BY <1>3, <1>10, <2>1 DEF ChunkWaits, ChunkStops, ChunkInits, Uses, mainVars, scriptVars
<1>11. ASSUME NEW waiting \in BOOLEAN, ChunkStarts(waiting) PROVE Goal
    <2>1. stage > 3 /\ exit = "no"
        BY <1>1, <1>11, StageOf DEF ChunkStarts, InChunk, At
    <2> QED
        BY <1>3, <1>11, <2>1 DEF ChunkStarts, Uses, scriptVars
<1>12. CASE KernelCalls \/ KernelReturns \/ KernelEnds \/ UNCHANGED vars
    BY <1>2, <1>12 DEF KernelCalls, KernelReturns, KernelEnds, vars, mainVars, scriptVars,
                       testbedVars, interpVars
<1> QED
    BY <1>4, <1>5, <1>6, <1>7, <1>8, <1>9, <1>10, <1>11, <1>12 DEF Next, Chunk
StartInv == LocationInv /\ PathInv /\ ModuleInv

LEMMA StartInit == Init => StartInv
<1> SUFFICES ASSUME Init PROVE StartInv
    OBVIOUS
<1>1. lp.valid = FALSE /\ packagePath = <<>> /\ modelPath = <<>> /\ disk \in Disks
    <2> DEFINE no == FALSE
    <2>1. lp = [valid |-> no, exeDir |-> NoDir, root |-> NoDir, luaDir |-> NoDir,
                share |-> NoDir, juggler |-> NoDir, env |-> NoDir, search |-> <<>>]
        BY DEF Init, PathInit
    <2> HIDE DEF no
    <2>2. lp.valid = no
        BY <2>1
    <2> QED
        BY <2>2 DEF no, Init, PathInit
<1>2. /\ stage = 1 /\ modules = {} /\ call = "none" /\ testbed = "off" /\ lua = "none"
      /\ arg0 \in {"path", "bare"}
    BY DEF Init, ScriptInit, TestbedInit, InterpreterInit
<1>3. LocationInv
    BY <1>1, <1>2 DEF LocationInv, Places
<1>4. PathInv
    BY <1>1, <1>2 DEF PathInv
<1> QED
    BY <1>2, <1>3, <1>4 DEF StartInv, ModuleInv

\* The singleton is settled by whichever comes first, argv[0] or the bindings.
LEMMA SetPathStep ==
    ASSUME ThreadInv, StartInv, SetPath \/ Open
    PROVE  StartInv'
<1>1. /\ UNCHANGED <<disk, packagePath, modelPath, arg0, program, modules, call, testbed>>
      /\ stage \in {1, 2} /\ stage' = stage + 1
      /\ lua' \in {lua, "open"}
      /\ exit' = exit
    BY StageOf DEF SetPath, Open, OpenState, Goes, ThreadInv, scriptVars, testbedVars, interpVars,
                   pathVars
<1>2. /\ Places' = Places /\ \A s : Settled(s)' = Settled(s)
      /\ \A mod : Source(mod)' = Source(mod)
    BY <1>1, PlacesStay
<1>3. PathInv'
    <2>1. ~(stage' > 3) /\ modelPath' = modelPath
        BY <1>1
    <2> QED
        BY <2>1 DEF StartInv, PathInv
<1>4. ModuleInv'
    <2>1. ~(stage' > 3) /\ modules' = {}
        BY <1>1 DEF StartInv, LocationInv
    <2> QED
        BY <2>1 DEF ModuleInv
<1>5. CASE SetPath
    <2>p. lp.valid => lp = Settled(<<>>)
        BY <1>1 DEF StartInv, LocationInv
    <2>q. lp' = Settled(<<>>)
        BY <1>5, <2>p, InitialisedIs DEF SetPath, Instance
    <2>r. Settled(<<>>).valid = TRUE
        BY SettledSearch
    <2>1. lp' = Settled(<<>>) /\ lp'.valid
        BY <2>q, <2>r
    <2>2. lua' \in {"bound", "closed"} => exit' = "failed"
        BY <1>1, <1>5 DEF StartInv, LocationInv
    <2>3. LocationInv'
        BY <1>1, <1>2, <2>1, <2>2 DEF StartInv, LocationInv
    <2> QED
        BY <1>3, <1>4, <2>3 DEF StartInv
<1>6. CASE Open
    <2>1. lp' = lp /\ lua' = "open"
        BY <1>6 DEF Open, OpenState, pathVars
    <2>2. /\ program \in Windowed => stage = 2
          /\ program \notin Windowed => stage = 1
        BY <1>6, StageOf DEF Open, ThreadInv, Windowed
    <2>3. stage' > 2 \/ (program' \in Windowed /\ stage' = 2) => lp'.valid
        BY <1>1, <2>1, <2>2 DEF StartInv, LocationInv
    <2>4. LocationInv'
        BY <1>1, <1>2, <2>1, <2>3 DEF StartInv, LocationInv
    <2> QED
        BY <1>3, <1>4, <2>4 DEF StartInv
<1> QED
    BY <1>5, <1>6

\* The assets are on the model search path if there are any.
LEMMA WithAssetsIs ==
    ASSUME modelPath = <<>>
    PROVE  LET path == WithAssets(Settled(Search))
               assets == FindFrom(Assets, "font")
           IN  /\ DOMAIN path \subseteq Nat
               /\ assets # NoDir => \E i \in DOMAIN path : path[i] = assets
<1> DEFINE assets == FindFrom(Assets, "font")
           path == WithAssets(Settled(Search))
           S == {assets, Root}
           one == Append(<<>>, assets)
           shared == IF assets = NoDir THEN <<>> ELSE one
<1>1. path = IF Root = NoDir THEN shared ELSE Append(shared, Root)
    BY SettledSearch DEF WithAssets, AppendToModelSearchPath
<1>2. one \in Seq(S) /\ Len(one) = 1 /\ one[1] = assets /\ <<>> \in Seq(S)
    OBVIOUS
<1> HIDE DEF one, path
<1>3. shared \in Seq(S) /\ (assets # NoDir => 1 \in DOMAIN shared /\ shared[1] = assets)
    BY <1>2
<1> HIDE DEF shared
<1> DEFINE more == Append(shared, Root)
<1>4. /\ more \in Seq(S) /\ Len(more) = Len(shared) + 1
      /\ \A i \in 1..Len(shared) : more[i] = shared[i]
    BY <1>3, AppendProperties DEF S
<1> HIDE DEF more, S
<1>5. path \in Seq(S) /\ (assets # NoDir => 1 \in DOMAIN path /\ path[1] = assets)
    BY <1>1, <1>3, <1>4 DEF more
<1>6. DOMAIN path \subseteq Nat
    BY <1>5
<1> HIDE DEF assets
<1>7. /\ DOMAIN path \subseteq Nat
      /\ assets # NoDir => \E i \in DOMAIN path : path[i] = assets
    BY <1>5, <1>6
<1> QED
    BY <1>7 DEF assets, path

LEMMA BindStep ==
    ASSUME ThreadInv, StartInv, Bind
    PROVE  StartInv'
<1> DEFINE init == "vrjlua-init"
           path == PackagePathOf(Settled(Search))
<1>1. /\ UNCHANGED <<disk, arg0, program>>
      /\ stage = 3 /\ stage' = 4 /\ collecting' = TRUE
    BY StageOf DEF Bind, ApplyBindings, UnblockCollector, Goes, ThreadInv
<1>2. lp = Settled(<<>>) /\ lp.valid /\ modules = {} /\ modelPath = <<>> /\ Places
    BY <1>1 DEF StartInv, LocationInv
<1>3. BoundPath(Instance("none")) = Settled(Search)
    BY <1>2, BoundPathIs DEF Instance
<1>4. /\ lp' = Settled(Search) /\ packagePath' = path
      /\ modelPath' = WithAssets(Settled(Search))
      /\ modules' = WithModule(path, init)
    BY <1>3 DEF Bind, ApplyBindings
<1>5. /\ Places' = Places /\ Root' = Root /\ Search' = Search
      /\ FindFrom(Assets, "font")' = FindFrom(Assets, "font")
      /\ \A s : Settled(s)' = Settled(s)
      /\ \A mod : Source(mod)' = Source(mod)
    BY <1>1, PlacesStay
<1>6. LocationInv'
    <2>1. lp'.valid
        BY <1>4, SettledSearch
    <2> QED
        BY <1>1, <1>2, <1>4, <1>5, <2>1 DEF LocationInv
<1>7. PathInv'
    <2>1. PackagePathOf(Settled(Search))' = path
        BY <1>5 DEF PackagePathOf
    <2>2. /\ DOMAIN modelPath' \subseteq Nat
          /\ FindFrom(Assets, "font") # NoDir =>
                 \E i \in DOMAIN modelPath' : modelPath'[i] = FindFrom(Assets, "font")
        BY <1>2, <1>4, WithAssetsIs
    <2> QED
        BY <1>4, <1>5, <2>1, <2>2 DEF PathInv
<1>8. ModuleInv'
    <2>1. Resolve(path, init) = Source(init)
        BY <1>2, ResolveIs
    <2> DEFINE new == Module(init, Source(init))
    <2>2. modules' = IF Source(init) = <<>> THEN {} ELSE {new}
        BY <1>2, <1>4, <2>1 DEF WithModule, Loaded
    <2>3. new[1] = init
        BY DEF Module
    <2> HIDE DEF new
    <2>4. \A m \in modules' : m = new /\ Source(init) # <<>>
        BY <2>2
    <2>5. \A m \in modules' : m = Module(m[1], Source(m[1])) /\ Source(m[1]) # <<>>
        BY <2>3, <2>4 DEF new
    <2>6. Loaded(init)' <=> Source(init) # <<>>
        BY <2>2, <2>3 DEF Loaded
    <2> QED
        BY <1>5, <2>5, <2>6 DEF ModuleInv
<1> QED
    BY <1>6, <1>7, <1>8 DEF StartInv

\* A script that adds to the search path changes nothing else of the singleton.
LEMMA AppendsStep ==
    ASSUME ThreadInv, StartInv, ChunkAppends
    PROVE  StartInv'
<1>1. /\ UNCHANGED <<disk, modelPath, arg0, program, stage, exit, lua, collecting, modules>>
      /\ stage = 4 /\ program \notin Windowed
    BY StageOf DEF ChunkAppends, InChunk, Uses, AppendToLuaRequirePath, ThreadInv, scriptVars, Windowed
<1>2. PICK slash \in BOOLEAN : lp' = WithRequirePath(lp, Entry(Place(ExeDir, "here"), slash))
    BY DEF ChunkAppends, AppendToLuaRequirePath
<1>3. /\ Places' = Places
      /\ FindFrom(Assets, "font")' = FindFrom(Assets, "font")
      /\ \A s : Settled(s)' = Settled(s)
      /\ \A mod : Source(mod)' = Source(mod)
    BY <1>1, PlacesStay
<1>4. \E t : lp' = Settled(t) /\ lp'.valid
    <2>1. PICK s : lp = Settled(s)
        BY <1>1 DEF StartInv, LocationInv
    <2> DEFINE new == <<Entry(Place(ExeDir, "here"), slash)>> \o s
               default == <<LuaDir>>
    <2>2. lp' = Updated([Settled(s) EXCEPT !.search = new])
        BY <1>2, <2>1, SettledSearch DEF WithRequirePath
    <2> HIDE DEF new, default
    <2>3. [Settled(s) EXCEPT !.search = new] = Settled(new)
        BY SettledSearch
    <2>4. [Settled(new) EXCEPT !.search = default] = Settled(default)
        BY SettledSearch
    <2>5. lp' = Settled(new) \/ lp' = Settled(default)
        <3>1. Settled(new).luaDir = LuaDir
            BY SettledSearch
        <3>2. lp' = Settled(new) \/ lp' = [Settled(new) EXCEPT !.search = <<LuaDir>>]
            BY <2>2, <2>3, <3>1 DEF Updated
        <3> QED
            BY <2>4, <3>2 DEF default
    <2>6. Settled(new).valid = TRUE /\ Settled(default).valid = TRUE
        BY SettledSearch
    <2>7. CASE lp' = Settled(new)
        BY <2>6, <2>7
    <2>8. CASE lp' = Settled(default)
        BY <2>6, <2>8
    <2> QED
        BY <2>5, <2>7, <2>8
<1>5. LocationInv'
    BY <1>1, <1>3, <1>4 DEF StartInv, LocationInv
<1>6. PathInv'
    BY <1>1, <1>3 DEF StartInv, PathInv
<1>7. ModuleInv'
    BY <1>1, <1>3 DEF StartInv, ModuleInv, Loaded
<1> QED
    BY <1>5, <1>6, <1>7 DEF StartInv

LEMMA StartStep == ThreadInv /\ StartInv /\ [Next]_vars => StartInv'
<1> SUFFICES ASSUME ThreadInv, StartInv, [Next]_vars PROVE StartInv'
    OBVIOUS
<1>1. CASE SetPath \/ Open
    BY <1>1, SetPathStep
<1>2. CASE Bind
    BY <1>2, BindStep
<1>3. CASE ChunkAppends
    BY <1>3, AppendsStep
<1>4. ASSUME ~SetPath, ~Open, ~Bind, ~ChunkAppends PROVE StartInv'
    <2>1. /\ Quiet
          /\ \/ modules' = modules
             \/ /\ program \in Windowed /\ stage > 3
                /\ \E mod \in {"osgnav-testbed", "vrjlua-config"} :
                       modules' = WithModule(packagePath, mod)
        BY <1>4, QuietSteps DEF StartInv
    <2>2. LocationInv' /\ PathInv' /\ (stage' > 3 <=> stage > 3)
        BY <2>1, QuietStep DEF StartInv, ThreadInv
    <2>3. UNCHANGED <<disk, arg0>>
        BY <2>1 DEF Quiet, pathVars
    <2>4. ModuleInv'
        BY <2>1, <2>2, <2>3, ModuleStep DEF StartInv
    <2> QED
        BY <2>2, <2>4 DEF StartInv
<1> QED
    BY <1>1, <1>2, <1>3, <1>4
\* A program called by its path finds the installation that is near.
LEMMA RootNear ==
    ASSUME Places, arg0 = "path"
    PROVE  LET holds == IF (NearCwd \cup NearExe) \cap disk["share"] # {}
                        THEN disk["share"] ELSE disk["flat"]
           IN  CASE NearCwd \cap holds # {} -> Root \in NearCwd \cap holds
                 [] NearCwd \cap holds = {} /\ NearExe \cap holds # {} -> Root \in NearExe \cap holds
                 [] OTHER -> Root = NoDir
<1> DEFINE share == disk["share"]
           flat == disk["flat"]
<1>1. Reachable(ExeDirOf(arg0)) = NearExe
    BY StartFacts DEF NearExe
<1>2. /\ NearCwd \cap share # {} => Inst \in NearCwd \cap share
      /\ NearCwd \cap share = {} /\ NearExe \cap share # {} => Inst \in NearExe \cap share
      /\ Inst = NoDir <=> (NearCwd \cup NearExe) \cap share = {}
    BY <1>1, StartsFind DEF Inst
<1>3. /\ NearCwd \cap flat # {} => Flat \in NearCwd \cap flat
      /\ NearCwd \cap flat = {} /\ NearExe \cap flat # {} => Flat \in NearExe \cap flat
      /\ Flat = NoDir <=> (NearCwd \cup NearExe) \cap flat = {}
    BY <1>1, StartsFind DEF Flat
<1> HIDE DEF share, flat
<1>4. CASE (NearCwd \cup NearExe) \cap share # {}
    <2>1. Root = Inst
        BY <1>2, <1>4 DEF Root
    <2> QED
        BY <1>2, <1>4, <2>1 DEF share
<1>5. CASE (NearCwd \cup NearExe) \cap share = {}
    <2>1. Root = Flat
        BY <1>2, <1>5 DEF Root
    <2>2. CASE NearCwd \cap flat # {}
        BY <1>3, <1>5, <2>1, <2>2 DEF share, flat
    <2>3. CASE NearCwd \cap flat = {} /\ NearExe \cap flat # {}
        BY <1>3, <1>5, <2>1, <2>3 DEF share, flat
    <2>4. CASE (NearCwd \cup NearExe) \cap flat = {}
        BY <1>3, <1>5, <2>1, <2>4 DEF share, flat
    <2> QED
        BY <2>2, <2>3, <2>4
<1> QED
    BY <1>4, <1>5

\* What a script relies on is there when it runs, for every layout of the file
\* system, however the program was called: one installation, the nearest, with its
\* start-up module, the user's configuration before the installed one, the assets,
\* and a collector that collects.
THEOREM StartUpCorrect == Spec => []StartUpComplete
<1>1. Spec => [](ThreadInv /\ StartInv)
    BY ThreadInit, ThreadStep, StartInit, StartStep, PTL DEF Spec
<1>2. ThreadInv /\ StartInv => StartUpComplete
    <2> SUFFICES ASSUME ThreadInv, StartInv PROVE StartUpComplete
        OBVIOUS
    <2>1. /\ Places
          /\ stage > 3 => lp.valid /\ lp.root = Root
          /\ Bound => stage > 3
          /\ modules # {} => stage > 3
          /\ stage \in Nat
        <3>1. lp.valid => lp.root = Root
            BY SettledSearch DEF StartInv, LocationInv
        <3> QED
            BY <3>1 DEF StartInv, LocationInv, ThreadInv, Bound
    <2>2. InstallationFound
        <3> SUFFICES ASSUME Bound, arg0 = "path" PROVE InstallationFound
            BY DEF InstallationFound
        <3>1. lp.root = Root
            BY <2>1
        <3> QED
            BY <2>1, <3>1, RootNear DEF InstallationFound
    <2>3. ASSUME NEW m \in modules
          PROVE  /\ lp.root = Root
                 /\ m = Module(m[1], Source(m[1])) /\ m[2] = Source(m[1]) /\ m[2] # <<>>
        <3>1. m = Module(m[1], Source(m[1])) /\ Source(m[1]) # <<>>
            BY <2>3 DEF StartInv, ModuleInv
        <3>2. m[2] = Source(m[1])
            BY <3>1 DEF Module
        <3> QED
            BY <2>1, <2>3, <3>1, <3>2
    <2>4. OneInstallation
        <3> SUFFICES ASSUME NEW m \in modules
                     PROVE  \/ m[2] = Place(lp.root, "lua")
                            \/ m[2] = Place(Cwd, "here")
                            \/ m = Module("vrjlua-config", Place(lp.root, "etc"))
            BY DEF OneInstallation
        <3> QED
            BY <2>3 DEF Source
    <2>5. UserConfigFirst
        <3> DEFINE own == Cwd \in disk["mine"] \cup disk["flat"]
                   copy == Root \in disk["etc"]
        <3>1. ASSUME NEW m \in modules, m[1] = "vrjlua-config"
              PROVE  /\ lp.root = Root
                     /\ own => m[2] = Place(Cwd, "here")
                     /\ ~own /\ copy => m[2] = Place(Root, "etc")
                     /\ ~own /\ ~copy => m[2] = Place(Root, "lua")
            BY <2>3, <3>1 DEF Source
        <3> QED
            BY <3>1 DEF UserConfigFirst
    <2>6. InitLoaded
        <3> SUFFICES ASSUME Bound
                     PROVE  Loaded("vrjlua-init") <=> lp.root \in disk["share"] \/ Cwd \in disk["flat"]
            BY DEF InitLoaded
        <3>1. Loaded("vrjlua-init") <=> Source("vrjlua-init") # <<>>
            BY <2>1 DEF StartInv, ModuleInv
        <3>2. Source("vrjlua-init") # <<>> <=> Root \in disk["share"] \/ Cwd \in disk["flat"]
            BY DEF Source, Place
        <3> QED
            BY <2>1, <3>1, <3>2
    <2>7. AssetsFound
        <3> SUFFICES ASSUME Bound, lp.root \in disk["share"],
                            {ShareOf[lp.root], disk["hint"]} \cap disk["font"] # {}
                     PROVE  FindInModelSearchPath("font") # NoDir
            BY DEF AssetsFound
        <3>1. FindFrom(Assets, "font") # NoDir /\ FindFrom(Assets, "font") \in disk["font"]
            BY <2>1, AssetIs
        <3> DEFINE hits == {i \in DOMAIN modelPath : modelPath[i] \in disk["font"]}
        <3>2. hits # {} /\ hits \in SUBSET Nat
            BY <2>1, <3>1 DEF StartInv, PathInv
        <3>3. FindInModelSearchPath("font") = modelPath[Min(hits)]
            BY <3>2 DEF FindInModelSearchPath
        <3>4. Min(hits) \in hits
            BY <3>2, LeastIndex
        <3> QED
            BY <2>1, <3>3, <3>4, StartFacts
    <2>8. CollectorRuns
        <3>1. stage <= 3 => call = "none" /\ testbed = "off" /\ ~inLua
            BY DEF StartInv, LocationInv, ThreadInv, Windowed
        <3> QED
            BY <2>1, <3>1 DEF StartInv, LocationInv, CollectorRuns
    <2> QED
        BY <2>2, <2>4, <2>5, <2>6, <2>7, <2>8 DEF StartUpComplete
<1> QED
    BY <1>1, <1>2, PTL
=============================================================================
