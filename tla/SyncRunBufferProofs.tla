-------------------------- MODULE SyncRunBufferProofs --------------------------
(***************************************************************************)
(* Proofs about SyncRunBuffer, for every capacity, every number of files   *)
(* and every number of chunks from the GUI thread.                         *)
(***************************************************************************)
EXTENDS SyncRunBuffer, SequenceTheorems, TLAPS

USE SyncRunBufferAssumption

-----------------------------------------------------------------------------
(* The console of a secondary.                                              *)

\* Whoever ran init() has told the console when it is done.
ToldInv == init /\ kernel \notin {"replay", "clear"} => (disableSent <=> ~local)

LEMMA ToldStep == ToldInv /\ [Next]_vars => ToldInv'
<1> SUFFICES ASSUME ToldInv, [Next]_vars PROVE ToldInv'
    OBVIOUS
<1> USE DEF ToldInv, setting, kernelVars, guiVars
<1>1. CASE AddFile \/ IsLocal
    BY <1>1 DEF AddFile, IsLocal
<1>2. CASE GuiCall \/ GuiEarly \/ GuiForward \/ GuiRefused
    BY <1>2 DEF GuiCall, GuiEarly, GuiForward, GuiRefused
<1>3. CASE StartKernel \/ InitSceneInits \/ InitSceneSkips
    BY <1>3 DEF StartKernel, InitSceneInits, InitSceneSkips
<1>4. CASE Replay \/ ReplayEnds \/ ClearEarly
    BY <1>4 DEF Replay, ReplayEnds, ClearEarly
<1>5. CASE Sync \/ RunBegins \/ RunInits \/ RunOne \/ RunEnds
    BY <1>5 DEF Sync, RunBegins, RunInits, RunOne, RunEnds
<1>6. CASE UNCHANGED vars
    BY <1>6 DEF vars
<1> QED
    BY <1>1, <1>2, <1>3, <1>4, <1>5, <1>6 DEF Next, ScriptStep, GuiStep, KernelStep

\* The console of a secondary, and of no other node, is asked to take no more
\* input, be it a script, initScene or the first frame that initialises.
THEOREM ConsoleTold == Spec => []SecondaryConsoleTold
<1>1. Init => ToldInv
    BY DEF Init, ToldInv
<1>2. ToldInv => SecondaryConsoleTold
    BY DEF ToldInv, SecondaryConsoleTold, StartupOver
<1> QED
    BY <1>1, <1>2, ToldStep, PTL DEF Spec

-----------------------------------------------------------------------------
(* What a secondary runs.                                                   *)

\* From the first synchronisation on, the buffer of a secondary that initialised
\* in initScene holds nothing of its own.
OwnInv ==
    /\ ~local => gui # "forward"
    /\ ~local /\ explicit =>
           /\ executed = <<>>
           /\ caller = "initScene"
           /\ kernel \in {"replay", "clear", "sync", "latePreFrame", "run"} => init
           /\ kernel \in {"latePreFrame", "run"} => buf = <<>>
           /\ kernel = "run" => left = 0

LEMMA OwnStep == OwnInv /\ [Next]_vars => OwnInv'
<1> SUFFICES ASSUME OwnInv, [Next]_vars PROVE OwnInv'
    OBVIOUS
<1> USE DEF OwnInv, setting, kernelVars, guiVars
<1>1. CASE AddFile \/ IsLocal
    BY <1>1 DEF AddFile, IsLocal
<1>2. CASE GuiCall \/ GuiEarly \/ GuiForward \/ GuiRefused
    BY <1>2 DEF GuiCall, GuiEarly, GuiForward, GuiRefused
<1>3. CASE StartKernel \/ InitSceneInits \/ InitSceneSkips
    BY <1>3 DEF StartKernel, InitSceneInits, InitSceneSkips
<1>4. CASE Replay \/ ReplayEnds
    BY <1>4 DEF Replay, ReplayEnds
<1>5. CASE ClearEarly \/ Sync
    BY <1>5 DEF ClearEarly, AfterInit, Sync
<1>6. CASE RunBegins
    <2>1. Len(<<>>) = 0
        BY EmptySeq
    <2> QED
        BY <1>6, <2>1 DEF RunBegins
<1>7. CASE RunInits \/ RunOne \/ RunEnds
    BY <1>7 DEF RunInits, RunOne, RunEnds
<1>8. CASE UNCHANGED vars
    BY <1>8 DEF vars
<1> QED
    BY <1>1, <1>2, <1>3, <1>4, <1>5, <1>6, <1>7, <1>8 DEF Next, ScriptStep, GuiStep, KernelStep

\* A secondary whose delegate initialises the buffer in initScene never runs a
\* chunk that was added on it.
THEOREM NoneOfItsOwn == Spec => []SecondaryRunsNoneOfItsOwn
<1>1. Init => OwnInv
    BY DEF Init, OwnInv
<1>2. OwnInv => SecondaryRunsNoneOfItsOwn
    BY DEF OwnInv, SecondaryRunsNoneOfItsOwn
<1> QED
    BY <1>1, <1>2, OwnStep, PTL DEF Spec

-----------------------------------------------------------------------------
(* Types and sizes.                                                         *)

Waiting == {"early", "forward"}     \* the GUI thread is inside addString

\* Nothing is accepted that nobody added, an uninitialised buffer is empty, the
\* replay stays within the early birds and a frame within the buffer.
SizeInv ==
    /\ Len(accepted) <= MaxEarly + guiCalls
    /\ gui \in Waiting => guiCalls >= 1 /\ Len(accepted) < MaxEarly + guiCalls
    /\ kernel = "setup" => gui = "idle" /\ guiCalls = 0
    /\ Len(early) <= Len(accepted)
    /\ ~init => /\ buf = <<>> /\ executed = <<>> /\ next = 1
                /\ kernel \in {"setup", "initScene", "sync", "latePreFrame"}
    /\ gui = "forward" => init
    /\ kernel = "replay" => next <= Len(early) + 1
    /\ kernel = "run" => left <= Len(buf)

TypeInv == TypeOK /\ SizeInv

LEMMA TypeInit == Init => TypeInv
<1> SUFFICES ASSUME Init PROVE TypeInv
    OBVIOUS
<1>1. <<>> \in Seq(Chunk) /\ Len(<<>>) = 0
    BY EmptySeq
<1>2. /\ early = <<>> /\ buf = <<>> /\ accepted = <<>> /\ executed = <<>>
      /\ kernel = "setup" /\ caller = "initScene" /\ next = 1 /\ left = 0
      /\ gui = "idle" /\ guiCalls = 0
    BY DEF Init
<1>3. SizeInv
    BY <1>1, <1>2 DEF SizeInv, Waiting
<1>4. local \in BOOLEAN /\ patient \in BOOLEAN /\ explicit \in BOOLEAN /\ init \in BOOLEAN
      /\ disableSent \in BOOLEAN
    BY DEF Init
<1>5. /\ next \in 1..(MaxEarly + MaxGui + 1) /\ left \in 0..Capacity /\ guiCalls \in 0..MaxGui
      /\ Len(buf) <= Capacity
    BY <1>1, <1>2
<1>6. early \in Seq(Chunk) /\ buf \in Seq(Chunk) /\ accepted \in Seq(Chunk) /\ executed \in Seq(Chunk)
    BY <1>1, <1>2
<1>7. kernel \in KernelPoints /\ caller \in {"initScene", "runBuffer"} /\ gui \in {"idle", "early", "forward"}
    BY <1>2 DEF KernelPoints
<1> QED
    BY <1>3, <1>4, <1>5, <1>6, <1>7 DEF TypeInv, TypeOK

LEMMA NewChunk ==
    /\ \A k \in 1..MaxEarly : Early(k) \in Chunk
    /\ \A k \in 1..MaxGui : Gui(k) \in Chunk
BY DEF Chunk

LEMMA Grows ==
    ASSUME NEW S, NEW s \in Seq(S), NEW c \in S
    PROVE  Append(s, c) \in Seq(S) /\ Len(Append(s, c)) = Len(s) + 1
BY AppendProperties

LEMMA TypeStep == TypeInv /\ [Next]_vars => TypeInv'
<1> SUFFICES ASSUME TypeInv, [Next]_vars PROVE TypeInv'
    OBVIOUS
<1> USE DEF TypeInv, TypeOK, SizeInv, Waiting, KernelPoints, setting, kernelVars, guiVars
<1>1. CASE AddFile
    <2> DEFINE c == Early(Len(accepted) + 1)
    <2>1. c \in Chunk
        BY <1>1, NewChunk DEF AddFile
    <2> HIDE DEF c
    <2>2. /\ accepted' = Append(accepted, c) /\ early' \in {early, Append(early, c)}
          /\ buf' \in {buf, Append(buf, c)} /\ (buf' # buf => ~Full /\ init)
          /\ Len(accepted) < MaxEarly /\ kernel = "setup"
          /\ UNCHANGED <<setting, init, kernelVars, guiVars, disableSent, executed>>
        BY <1>1 DEF AddFile, c
    <2>3. /\ Append(accepted, c) \in Seq(Chunk) /\ Len(Append(accepted, c)) = Len(accepted) + 1
          /\ Append(early, c) \in Seq(Chunk) /\ Len(Append(early, c)) = Len(early) + 1
          /\ Append(buf, c) \in Seq(Chunk) /\ Len(Append(buf, c)) = Len(buf) + 1
        BY <2>1, Grows
    <2>4. /\ accepted' \in Seq(Chunk) /\ Len(accepted') = Len(accepted) + 1
          /\ early' \in Seq(Chunk) /\ Len(early') <= Len(early) + 1
          /\ buf' \in Seq(Chunk)
        <3>1. accepted' \in Seq(Chunk) /\ Len(accepted') = Len(accepted) + 1
            BY <2>2, <2>3
        <3>2. early' = early \/ early' = Append(early, c)
            BY <2>2
        <3>3. early' \in Seq(Chunk) /\ Len(early') <= Len(early) + 1
            <4>1. early \in Seq(Chunk) /\ Len(early) \in Nat
                BY LenProperties
            <4> HIDE DEF TypeInv, TypeOK, SizeInv
            <4> QED
                BY <2>3, <3>2, <4>1
        <3>4. buf' = buf \/ buf' = Append(buf, c)
            BY <2>2
        <3>5. buf' \in Seq(Chunk)
            BY <2>3, <3>4
        <3> QED
            BY <3>1, <3>3, <3>5
    <2>5. CASE buf' = buf
        <3>1. SizeInv'
            BY <2>2, <2>4, <2>5
        <3>2. TypeOK'
            BY <2>2, <2>4, <2>5
        <3> QED
            BY <3>1, <3>2
    <2>6. CASE buf' # buf
        <3>1. buf' = Append(buf, c) /\ Len(buf) < Capacity /\ init
            BY <2>2, <2>6 DEF Full
        <3>2. Len(buf') <= Capacity
            BY <2>3, <3>1
        <3>3. SizeInv'
            BY <2>2, <2>4, <3>1
        <3>4. TypeOK'
            BY <2>2, <2>4, <3>2
        <3> QED
            BY <3>3, <3>4
    <2> QED
        BY <2>5, <2>6
<1>2. CASE IsLocal
    <2> DEFINE m == IF Len(early) <= Capacity THEN Len(early) ELSE Capacity
    <2>1. m \in 0..Len(early) /\ m <= Capacity
        OBVIOUS
    <2>2. SubSeq(early, 1, m) \in Seq(Chunk) /\ Len(SubSeq(early, 1, m)) = m
        BY <2>1, SubSeqProperties
    <2>3. <<>> \in Seq(Chunk) /\ Len(<<>>) = 0
        BY EmptySeq
    <2>4. buf' = SubSeq(early, 1, m)
        BY <1>2 DEF IsLocal
    <2>5. disableSent' \in BOOLEAN
        BY <1>2 DEF IsLocal
    <2> HIDE DEF m
    <2>6. /\ kernel = "setup" /\ init' = TRUE /\ early' = <<>>
          /\ UNCHANGED <<local, patient, explicit, kernel, caller, next, left, gui, guiCalls, accepted, executed>>
        BY <1>2 DEF IsLocal
    <2>7. /\ early' \in Seq(Chunk) /\ Len(early') = 0
          /\ buf' \in Seq(Chunk) /\ Len(buf') <= Capacity
        BY <2>1, <2>2, <2>3, <2>4, <2>6
    <2>8. SizeInv'
        BY <2>6, <2>7
    <2>9. TypeOK'
        BY <2>5, <2>6, <2>7
    <2> QED
        BY <2>8, <2>9
<1>3. CASE GuiCall
    <2>1. /\ kernel # "setup" /\ gui = "idle" /\ guiCalls < MaxGui /\ guiCalls' = guiCalls + 1
          /\ gui' \in {"idle", "early", "forward"} /\ (gui' = "forward" => init)
          /\ UNCHANGED <<local, patient, explicit, init, early, buf, kernel, caller, next, left,
                         disableSent, accepted, executed>>
        BY <1>3 DEF GuiCall, Alive
    <2>2. SizeInv'
        BY <2>1
    <2>3. TypeOK'
        BY <2>1
    <2> QED
        BY <2>2, <2>3
<1>4. CASE GuiEarly
    <2>1. Gui(guiCalls) \in Chunk
        BY <1>4, NewChunk DEF GuiEarly
    <2>2. /\ Append(early, Gui(guiCalls)) \in Seq(Chunk)
          /\ Len(Append(early, Gui(guiCalls))) = Len(early) + 1
          /\ Append(accepted, Gui(guiCalls)) \in Seq(Chunk)
          /\ Len(Append(accepted, Gui(guiCalls))) = Len(accepted) + 1
        BY <2>1, Grows
    <2>3. /\ kernel # "setup" /\ gui = "early" /\ gui' = "idle"
          /\ early' = Append(early, Gui(guiCalls)) /\ accepted' = Append(accepted, Gui(guiCalls))
          /\ UNCHANGED <<local, patient, explicit, init, buf, kernel, caller, next, left, guiCalls,
                         disableSent, executed>>
        BY <1>4 DEF GuiEarly, Alive
    <2>4. SizeInv'
        BY <2>2, <2>3
    <2>5. TypeOK'
        BY <2>2, <2>3
    <2> QED
        BY <2>4, <2>5
<1>5. CASE GuiForward
    <2>1. Gui(guiCalls) \in Chunk
        BY <1>5, NewChunk DEF GuiForward
    <2>2. /\ Append(buf, Gui(guiCalls)) \in Seq(Chunk)
          /\ Len(Append(buf, Gui(guiCalls))) = Len(buf) + 1
          /\ Append(accepted, Gui(guiCalls)) \in Seq(Chunk)
          /\ Len(Append(accepted, Gui(guiCalls))) = Len(accepted) + 1
        BY <2>1, Grows
    <2>3. /\ kernel # "setup" /\ gui = "forward" /\ gui' = "idle" /\ Len(buf) < Capacity
          /\ buf' = Append(buf, Gui(guiCalls)) /\ accepted' = Append(accepted, Gui(guiCalls))
          /\ UNCHANGED <<local, patient, explicit, init, early, kernel, caller, next, left, guiCalls,
                         disableSent, executed>>
        BY <1>5 DEF GuiForward, Alive, Full
    <2>5. /\ buf' \in Seq(Chunk) /\ accepted' \in Seq(Chunk)
          /\ Len(buf') <= Capacity /\ Len(buf') > Len(buf)
          /\ Len(accepted') = Len(accepted) + 1
        BY <2>2, <2>3
    <2>4. SizeInv'
        <3>1. init
            BY <2>3
        <3>2. Len(accepted') <= MaxEarly + guiCalls /\ Len(early) <= Len(accepted')
            BY <2>3, <2>5
        <3> QED
            BY <2>3, <2>5, <3>1, <3>2
    <2>6. TypeOK'
        BY <2>3, <2>5
    <2> QED
        BY <2>4, <2>6
<1>6. CASE GuiRefused
    BY <1>6 DEF GuiRefused
<1>7. CASE StartKernel \/ InitSceneInits \/ InitSceneSkips
    <2>1. /\ UNCHANGED <<local, patient, explicit, early, buf, caller, next, left, gui, guiCalls,
                         disableSent, accepted, executed>>
          /\ kernel \in {"setup", "initScene"}
          /\ \/ init' = init /\ kernel' \in {"initScene", "sync"}
             \/ init' = init /\ init /\ kernel' = "dead"
             \/ ~init /\ init' = TRUE /\ kernel' = "replay"
        BY <1>7 DEF StartKernel, InitSceneInits, InitSceneSkips
    <2>2. /\ init' \in BOOLEAN /\ kernel' \in {"initScene", "sync", "dead", "replay"}
          /\ (~init' => ~init /\ kernel' \in {"initScene", "sync"})
          /\ (kernel' = "replay" => ~init)
        BY <2>1
    <2>3. SizeInv'
        BY <2>1, <2>2
    <2>4. TypeOK'
        BY <2>1, <2>2
    <2> QED
        BY <2>3, <2>4
<1>8. CASE Replay
    <2>1. /\ kernel = "replay" /\ next <= Len(early) /\ next' = next + 1 /\ init
          /\ UNCHANGED <<local, patient, explicit, init, early, kernel, caller, left, gui, guiCalls,
                         disableSent, accepted, executed>>
          /\ \/ Len(buf) < Capacity /\ buf' = Append(buf, early[next])
             \/ buf' = buf
        BY <1>8 DEF Replay, Full
    <2>2. early[next] \in Chunk
        BY <2>1
    <2>3. Append(buf, early[next]) \in Seq(Chunk) /\ Len(Append(buf, early[next])) = Len(buf) + 1
        BY <2>2, Grows
    <2>4. /\ buf' \in Seq(Chunk) /\ Len(buf') <= Capacity
          /\ Len(buf') >= Len(buf)
        <3>1. CASE buf' = buf
            BY <3>1
        <3>2. CASE Len(buf) < Capacity /\ buf' = Append(buf, early[next])
            BY <2>3, <3>2
        <3> QED
            BY <2>1, <3>1, <3>2
    <2>5. next' \in 1..(MaxEarly + MaxGui + 1)
        BY <2>1
    <2>6. SizeInv'
        BY <2>1, <2>4
    <2>7. TypeOK'
        BY <2>1, <2>4, <2>5
    <2> QED
        BY <2>6, <2>7
<1>9. CASE ReplayEnds
    BY <1>9 DEF ReplayEnds
<1>10. CASE ClearEarly
    <2>1. <<>> \in Seq(Chunk) /\ Len(<<>>) = 0
        BY EmptySeq
    <2>2. disableSent' \in BOOLEAN
        BY <1>10 DEF ClearEarly
    <2> QED
        BY <1>10, <2>1, <2>2 DEF ClearEarly, AfterInit
<1>11. CASE Sync
    <2>1. <<>> \in Seq(Chunk) /\ Len(<<>>) = 0
        BY EmptySeq
    <2> QED
        BY <1>11, <2>1 DEF Sync
<1>12. CASE RunBegins \/ RunInits \/ RunEnds
    <2>1. /\ UNCHANGED <<local, patient, explicit, early, buf, next, gui, guiCalls, disableSent,
                         accepted, executed>>
          /\ init' \in BOOLEAN /\ (~init' => ~init) /\ (~init => init')
          /\ caller' \in {"initScene", "runBuffer"}
          /\ kernel' \in {"run", "replay", "sync"}
          /\ (kernel' = "run" => left' = Len(buf)) /\ left' \in {left, 0, Len(buf)}
          /\ (kernel' = "replay" => ~init)
          /\ kernel # "setup"
        BY <1>12 DEF RunBegins, RunInits, RunEnds
    <2>2. left' \in 0..Capacity
        BY <2>1
    <2>3. SizeInv'
        BY <2>1
    <2>4. TypeOK'
        BY <2>1, <2>2
    <2> QED
        BY <2>3, <2>4
<1>13. CASE RunOne
    <2>1. buf # <<>>
        BY <1>13, EmptySeq DEF RunOne
    <2>2. /\ Tail(buf) \in Seq(Chunk) /\ Len(Tail(buf)) = Len(buf) - 1
          /\ Head(buf) \in Chunk /\ Append(executed, Head(buf)) \in Seq(Chunk)
        BY <2>1, HeadTailProperties, Grows
    <2> QED
        BY <1>13, <2>2 DEF RunOne
<1>14. CASE UNCHANGED vars
    BY <1>14 DEF vars
<1> QED
    BY <1>1, <1>2, <1>3, <1>4, <1>5, <1>6, <1>7, <1>8, <1>9, <1>10, <1>11, <1>12, <1>13, <1>14
       DEF Next, ScriptStep, GuiStep, KernelStep

LEMMA TypeInvariant == Spec => []TypeInv
BY TypeInit, TypeStep, PTL DEF Spec

\* Every variable of the synchronised run buffer keeps its type.
THEOREM SyncTypeCorrect == Spec => []TypeOK
<1>1. TypeInv => TypeOK
    BY DEF TypeInv
<1> QED
    BY <1>1, TypeInvariant, PTL

-----------------------------------------------------------------------------
(* What is left behind among the early birds.                               *)

\* Once init() is over the early birds are gone, but for the one that the GUI
\* thread had already decided to put there.
LateInv ==
    /\ patient => gui # "early"
    /\ init /\ kernel \notin {"replay", "clear"} =>
           \/ early = <<>>
           \/ /\ gui # "early"
              /\ ~patient
              /\ \E k \in 0..MaxGui : early = <<Gui(k)>>

LEMMA LateStep == TypeInv /\ LateInv /\ [Next]_vars => LateInv'
<1> SUFFICES ASSUME TypeInv, LateInv, [Next]_vars PROVE LateInv'
    OBVIOUS
<1> USE DEF LateInv, setting, kernelVars, guiVars
<1>1. CASE AddFile
    BY <1>1 DEF AddFile
<1>2. CASE IsLocal
    BY <1>2 DEF IsLocal
<1>3. CASE GuiCall
    BY <1>3 DEF GuiCall, StartupOver
<1>4. CASE GuiEarly
    <2>1. /\ gui = "early" /\ ~patient /\ patient' = patient /\ gui' = "idle"
          /\ init' = init /\ kernel' = kernel /\ early' = Append(early, Gui(guiCalls))
        BY <1>4 DEF GuiEarly
    <2>2. guiCalls \in 0..MaxGui
        BY DEF TypeInv, TypeOK
    <2>3. Append(<<>>, Gui(guiCalls)) = <<Gui(guiCalls)>>
        OBVIOUS
    <2> QED
        BY <2>1, <2>2, <2>3
<1>5. CASE GuiForward \/ GuiRefused
    BY <1>5 DEF GuiForward, GuiRefused
<1>6. CASE StartKernel \/ InitSceneInits \/ InitSceneSkips
    BY <1>6 DEF StartKernel, InitSceneInits, InitSceneSkips
<1>7. CASE Replay \/ ReplayEnds \/ ClearEarly
    BY <1>7 DEF Replay, ReplayEnds, ClearEarly
<1>8. CASE Sync \/ RunBegins \/ RunInits \/ RunOne \/ RunEnds
    BY <1>8 DEF Sync, RunBegins, RunInits, RunOne, RunEnds
<1>9. CASE UNCHANGED vars
    BY <1>9 DEF vars
<1> QED
    BY <1>1, <1>2, <1>3, <1>4, <1>5, <1>6, <1>7, <1>8, <1>9 DEF Next, ScriptStep, GuiStep, KernelStep

\* At most one chunk stays among the early birds for good, it comes from the
\* console, and only a user who did not wait for the scene can lose it.
THEOREM LateCorrect == Spec => []OneLateBird
<1>1. Init => LateInv
    BY DEF Init, LateInv
<1>2. LateInv => OneLateBird
    <2> SUFFICES ASSUME LateInv, StartupOver
                 PROVE  Len(early) <= 1 /\ \A c \in Range(early) : ~patient /\ ~IsEarly(c)
        BY DEF OneLateBird
    <2>1. CASE early = <<>>
        <3>1. Len(early) = 0 /\ DOMAIN early = 1..0
            BY <2>1, EmptySeq
        <3> QED
            BY <3>1 DEF Range
    <2>2. CASE ~patient /\ \E k \in 0..MaxGui : early = <<Gui(k)>>
        <3> PICK k \in 0..MaxGui : early = <<Gui(k)>>
            BY <2>2
        <3>1. Len(early) = 1 /\ Range(early) = {Gui(k)}
            BY DEF Range
        <3>2. ~IsEarly(Gui(k))
            BY DEF IsEarly, Gui
        <3> QED
            BY <2>2, <3>1, <3>2
    <2> QED
        BY <2>1, <2>2 DEF LateInv, StartupOver
<1> QED
    BY <1>1, <1>2, LateStep, TypeInvariant, PTL DEF Spec

-----------------------------------------------------------------------------
(* No chunk runs twice.                                                     *)

stream == executed \o buf
Used == Range(stream) \cup Range(early)

\* A chunk is numbered above every one of its kind that is in use.
Fresh ==
    /\ \A k \in Nat : Early(k) \in Used => k <= Len(accepted)
    /\ \A k \in Nat : Gui(k) \in Used => k <= guiCalls
    /\ gui \in Waiting => Gui(guiCalls) \notin Used

\* An early bird still to be handed over has not been handed over yet.
Pending ==
    kernel = "replay" \/ ~init =>
        \A j \in DOMAIN early : j >= next => early[j] \notin Range(stream)

OnceInv ==
    /\ IsInjective(stream)
    /\ IsInjective(early)
    /\ Fresh
    /\ Pending

LEMMA RangeOfAppend ==
    ASSUME NEW S, NEW s \in Seq(S), NEW c \in S
    PROVE  Range(Append(s, c)) = Range(s) \cup {c}
<1>1. /\ Append(s, c) \in Seq(S)
      /\ Len(Append(s, c)) = Len(s) + 1
      /\ \A i \in 1..Len(s) : Append(s, c)[i] = s[i]
      /\ Append(s, c)[Len(s) + 1] = c
    BY AppendProperties
<1> QED
    BY <1>1 DEF Range

LEMMA AppendFresh ==
    ASSUME NEW S, NEW s \in Seq(S), NEW c \in S, IsInjective(s), c \notin Range(s)
    PROVE  IsInjective(Append(s, c))
<1>1. /\ Append(s, c) \in Seq(S)
      /\ Len(Append(s, c)) = Len(s) + 1
      /\ \A i \in 1..Len(s) : Append(s, c)[i] = s[i]
      /\ Append(s, c)[Len(s) + 1] = c
    BY AppendProperties
<1>2. \A i \in 1..Len(s) : s[i] # c
    BY DEF Range
<1> QED
    BY <1>1, <1>2 DEF IsInjective

\* A chunk goes to the end of the buffer.
LEMMA StreamGrows ==
    ASSUME NEW S, NEW a \in Seq(S), NEW b \in Seq(S), NEW c \in S,
           IsInjective(a \o b), c \notin Range(a \o b)
    PROVE  /\ IsInjective(a \o Append(b, c))
           /\ Range(a \o Append(b, c)) = Range(a \o b) \cup {c}
<1>1. a \o b \in Seq(S) /\ <<c>> \in Seq(S)
    BY ConcatProperties
<1>2. a \o Append(b, c) = Append(a \o b, c)
    <2>1. Append(b, c) = b \o <<c>> /\ Append(a \o b, c) = (a \o b) \o <<c>>
        BY <1>1, AppendIsConcat
    <2> QED
        BY <2>1, <1>1, ConcatAssociative
<1>3. IsInjective(Append(a \o b, c))
    BY <1>1, AppendFresh
<1>4. Range(Append(a \o b, c)) = Range(a \o b) \cup {c}
    BY <1>1, RangeOfAppend
<1> QED
    BY <1>2, <1>3, <1>4

\* The kernel thread runs the first chunk of the buffer.
LEMMA StreamStays ==
    ASSUME NEW S, NEW a \in Seq(S), NEW b \in Seq(S), b # <<>>
    PROVE  Append(a, Head(b)) \o Tail(b) = a \o b
<1>1. Head(b) \in S /\ Tail(b) \in Seq(S) /\ <<Head(b)>> \in Seq(S)
    BY HeadTailProperties
<1>2. <<Head(b)>> \o Tail(b) = b
    BY <1>1, HeadTailProperties
<1>3. Append(a, Head(b)) = a \o <<Head(b)>>
    BY <1>1, AppendIsConcat
<1> QED
    BY <1>1, <1>2, <1>3, ConcatAssociative

\* Dropping what waits in the buffer leaves what has run.
LEMMA StreamShrinks ==
    ASSUME NEW S, NEW a \in Seq(S), NEW b \in Seq(S), IsInjective(a \o b)
    PROVE  IsInjective(a \o <<>>) /\ Range(a \o <<>>) \subseteq Range(a \o b)
<1>1. a \o <<>> = a
    BY ConcatEmptySeq
<1>2. /\ a \o b \in Seq(S) /\ Len(a \o b) = Len(a) + Len(b)
      /\ \A i \in 1..Len(a) : (a \o b)[i] = a[i]
    BY ConcatProperties
<1>3. IsInjective(a)
    BY <1>2 DEF IsInjective
<1>4. Range(a) \subseteq Range(a \o b)
    BY <1>2 DEF Range
<1> QED
    BY <1>1, <1>3, <1>4

LEMMA PrefixOfInjective ==
    ASSUME NEW S, NEW s \in Seq(S), NEW m \in 0..Len(s), IsInjective(s)
    PROVE  /\ IsInjective(<<>> \o SubSeq(s, 1, m))
           /\ Range(<<>> \o SubSeq(s, 1, m)) \subseteq Range(s)
<1>1. /\ SubSeq(s, 1, m) \in Seq(S) /\ Len(SubSeq(s, 1, m)) = m
      /\ \A i \in 1..m : SubSeq(s, 1, m)[i] = s[i]
    BY SubSeqProperties
<1>2. <<>> \o SubSeq(s, 1, m) = SubSeq(s, 1, m)
    BY <1>1, ConcatEmptySeq
<1>3. IsInjective(SubSeq(s, 1, m))
    BY <1>1 DEF IsInjective
<1>4. Range(SubSeq(s, 1, m)) \subseteq Range(s)
    BY <1>1 DEF Range
<1> QED
    BY <1>2, <1>3, <1>4

LEMMA EmptyOnce == Range(<<>>) = {} /\ IsInjective(<<>>)
<1>1. Len(<<>>) = 0 /\ DOMAIN <<>> = 1..0
    BY EmptySeq
<1> QED
    BY <1>1 DEF Range, IsInjective

LEMMA OnceInit == Init => OnceInv
<1> SUFFICES ASSUME Init PROVE OnceInv
    OBVIOUS
<1>1. stream = <<>> \o <<>> /\ early = <<>> /\ gui = "idle"
    BY DEF Init, stream
<1>2. stream = <<>>
    BY <1>1, EmptySeq, ConcatEmptySeq
<1>3. Used = {} /\ IsInjective(stream) /\ IsInjective(early)
    BY <1>1, <1>2, EmptyOnce DEF Used
<1>4. DOMAIN early = 1..0
    BY <1>1, EmptySeq
<1> QED
    BY <1>1, <1>3, <1>4 DEF OnceInv, Fresh, Pending, Waiting

LEMMA OnceStep == TypeInv /\ OnceInv /\ [Next]_vars => OnceInv'
<1> SUFFICES ASSUME TypeInv, OnceInv, [Next]_vars PROVE OnceInv'
    OBVIOUS
<1>a. /\ early \in Seq(Chunk) /\ buf \in Seq(Chunk) /\ accepted \in Seq(Chunk)
      /\ executed \in Seq(Chunk) /\ guiCalls \in 0..MaxGui /\ next \in Nat
      /\ Len(accepted) \in Nat /\ Len(early) \in Nat /\ DOMAIN early = 1..Len(early)
    BY LenProperties DEF TypeInv, TypeOK
<1>b. IsInjective(stream) /\ IsInjective(early) /\ Fresh /\ Pending
    BY DEF OnceInv
<1>c. /\ gui \in Waiting => guiCalls >= 1
      /\ ~init => buf = <<>> /\ executed = <<>> /\ next = 1 /\ kernel # "clear"
    BY DEF TypeInv, SizeInv
<1>d. stream \in Seq(Chunk)
    BY <1>a, ConcatProperties DEF stream
\* Steps that move no chunk.
<1>1. ASSUME stream' = stream, UNCHANGED <<early, next, accepted, guiCalls>>,
             gui' \in Waiting => gui \in Waiting,
             kernel' = "replay" \/ ~init' => kernel = "replay" \/ ~init
      PROVE  OnceInv'
    <2>1. Used' = Used
        BY <1>1 DEF Used
    <2>2. Fresh'
        BY <1>1, <1>b, <2>1 DEF Fresh
    <2>3. Pending'
        BY <1>1, <1>b DEF Pending
    <2> QED
        BY <1>1, <1>b, <2>2, <2>3 DEF OnceInv
<1>2. CASE AddFile
    <2> DEFINE n == Len(accepted) + 1
               c == Early(n)
    <2>1. c \in Chunk /\ n \in Nat
        BY <1>2, <1>a, NewChunk DEF AddFile
    <2>2. c \notin Used
        BY <1>a, <1>b, <2>1 DEF Fresh
    <2>3. /\ accepted' = Append(accepted, c) /\ executed' = executed /\ UNCHANGED <<gui, guiCalls, init, kernel, next>>
          /\ init => buf' = Append(buf, c) /\ early' = early
          /\ ~init => buf' = buf /\ early' = Append(early, c)
          /\ kernel = "setup"
        BY <1>2 DEF AddFile, kernelVars, guiVars
    <2>4. Len(accepted') = Len(accepted) + 1
        BY <1>a, <2>1, <2>3, AppendProperties
    <2> HIDE DEF c
    <2>5. /\ IsInjective(stream)' /\ IsInjective(early)'
          /\ Used' = Used \cup {c}
          /\ Pending'
        <3>1. CASE init
            <4>1. stream' = executed \o Append(buf, c) /\ early' = early
                BY <2>3, <3>1 DEF stream
            <4>2. IsInjective(stream') /\ Range(stream') = Range(stream) \cup {c}
                BY <1>a, <1>b, <2>1, <2>2, <4>1, StreamGrows DEF stream, Used
            <4> QED
                BY <1>b, <2>3, <3>1, <4>1, <4>2 DEF Used, Pending
        <3>2. CASE ~init
            <4>1. stream' = stream /\ early' = Append(early, c)
                BY <2>3, <3>2 DEF stream
            <4>2. IsInjective(early') /\ Range(early') = Range(early) \cup {c}
                BY <1>a, <1>b, <2>1, <2>2, <4>1, AppendFresh, RangeOfAppend DEF Used
            <4>3. /\ DOMAIN early' = 1..(Len(early) + 1)
                  /\ \A j \in 1..Len(early) : early'[j] = early[j]
                  /\ early'[Len(early) + 1] = c
                BY <1>a, <2>1, <4>1, AppendProperties
            <4>4. Pending'
                <5>1. \A j \in DOMAIN early : early[j] \notin Range(stream)
                    BY <1>a, <1>b, <1>c, <3>2 DEF Pending
                <5>2. \A j \in DOMAIN early' : early'[j] \notin Range(stream)
                    <6> TAKE j \in DOMAIN early'
                    <6>1. CASE j \in 1..Len(early)
                        BY <1>a, <4>3, <5>1, <6>1
                    <6>2. CASE j = Len(early) + 1
                        BY <2>2, <4>3, <6>2 DEF Used
                    <6> QED
                        BY <1>a, <4>3, <6>1, <6>2
                <5> QED
                    BY <4>1, <5>2 DEF Pending
            <4> QED
                BY <1>b, <4>1, <4>2, <4>4 DEF Used
        <3> QED
            BY <3>1, <3>2
    <2>6. Fresh'
        <3>1. \A k \in Nat : (Early(k) = c => k = n) /\ Gui(k) # c
            BY DEF c, Early, Gui
        <3>2. gui \notin Waiting \/ Gui(guiCalls) # c
            BY <1>a, <3>1
        <3> HIDE DEF n
        <3>3. n <= Len(accepted')
            BY <2>4, <1>a DEF n
        <3> QED
            BY <1>a, <1>b, <2>3, <2>4, <2>5, <3>1, <3>2, <3>3 DEF Fresh
    <2> QED
        BY <2>5, <2>6 DEF OnceInv
<1>3. CASE IsLocal
    <2> DEFINE m == IF Len(early) <= Capacity THEN Len(early) ELSE Capacity
    <2>1. m \in 0..Len(early)
        BY <1>a, SyncRunBufferAssumption
    <2>2. /\ ~init /\ init' /\ early' = <<>> /\ buf' = SubSeq(early, 1, m) /\ kernel = "setup"
          /\ UNCHANGED <<gui, guiCalls, kernel, accepted, executed>>
        BY <1>3 DEF IsLocal, kernelVars, guiVars
    <2> HIDE DEF m
    <2>3. stream' = <<>> \o SubSeq(early, 1, m)
        BY <1>c, <2>2 DEF stream
    <2>4. IsInjective(stream') /\ Range(stream') \subseteq Range(early)
        BY <1>a, <1>b, <2>1, <2>3, PrefixOfInjective
    <2>5. Used' \subseteq Used /\ IsInjective(early)'
        BY <2>2, <2>4, EmptyOnce DEF Used
    <2>6. Fresh'
        BY <1>b, <2>2, <2>5 DEF Fresh
    <2>7. Pending'
        BY <2>2 DEF Pending
    <2> QED
        BY <2>4, <2>5, <2>6, <2>7 DEF OnceInv
<1>4. CASE GuiCall
    <2>1. /\ guiCalls' = guiCalls + 1
          /\ UNCHANGED <<init, early, buf, kernel, next, accepted, executed>>
        BY <1>4 DEF GuiCall, kernelVars
    <2>2. Used' = Used /\ stream' = stream
        BY <2>1 DEF Used, stream
    <2>3. Fresh'
        BY <1>a, <1>b, <2>1, <2>2 DEF Fresh
    <2>4. Pending'
        BY <1>b, <2>1, <2>2 DEF Pending
    <2> QED
        BY <1>b, <2>1, <2>2, <2>3, <2>4 DEF OnceInv
<1>5. CASE GuiEarly \/ GuiForward
    <2> DEFINE c == Gui(guiCalls)
    <2>1. gui \in Waiting /\ gui' = "idle"
          /\ UNCHANGED <<guiCalls, init, kernel, next, executed>>
          /\ accepted' = Append(accepted, c)
        BY <1>5 DEF GuiEarly, GuiForward, Waiting, kernelVars
    <2>2. c \in Chunk /\ guiCalls \in Nat
        BY <1>a, <1>c, <2>1, NewChunk
    <2>3. c \notin Used
        BY <1>b, <2>1 DEF Fresh
    <2>4. Len(accepted') = Len(accepted) + 1
        BY <1>a, <2>1, <2>2, AppendProperties
    <2>a. /\ GuiForward => buf' = Append(buf, c) /\ early' = early
          /\ GuiEarly => buf' = buf /\ early' = Append(early, c)
        BY DEF GuiEarly, GuiForward
    <2> HIDE DEF c
    <2>5. /\ IsInjective(stream)' /\ IsInjective(early)'
          /\ Used' = Used \cup {c}
          /\ Pending'
        <3>1. CASE GuiForward
            <4>1. stream' = executed \o Append(buf, c) /\ early' = early
                BY <2>1, <2>a, <3>1 DEF stream
            <4>2. IsInjective(stream') /\ Range(stream') = Range(stream) \cup {c}
                BY <1>a, <1>b, <2>2, <2>3, <4>1, StreamGrows DEF stream, Used
            <4>3. \A j \in DOMAIN early : early[j] # c
                BY <2>3 DEF Used, Range
            <4>4. Pending'
                BY <1>b, <2>1, <4>1, <4>2, <4>3 DEF Pending
            <4> QED
                BY <1>b, <4>1, <4>2, <4>4 DEF Used
        <3>2. CASE GuiEarly
            <4>1. stream' = stream /\ early' = Append(early, c)
                BY <2>1, <2>a, <3>2 DEF stream
            <4>2. IsInjective(early') /\ Range(early') = Range(early) \cup {c}
                BY <1>a, <1>b, <2>2, <2>3, <4>1, AppendFresh, RangeOfAppend DEF Used
            <4>3. /\ DOMAIN early' = 1..(Len(early) + 1)
                  /\ \A j \in 1..Len(early) : early'[j] = early[j]
                  /\ early'[Len(early) + 1] = c
                BY <1>a, <2>2, <4>1, AppendProperties
            <4>4. Pending'
                BY <1>a, <1>b, <2>1, <2>3, <4>1, <4>3 DEF Pending, Used
            <4> QED
                BY <1>b, <4>1, <4>2, <4>4 DEF Used
        <3> QED
            BY <1>5, <3>1, <3>2
    <2>6. Fresh'
        <3>1. \A k \in Nat : (Gui(k) = c => k = guiCalls) /\ Early(k) # c
            BY DEF c, Early, Gui
        <3>2. gui' \notin Waiting
            BY <2>1 DEF Waiting
        <3> QED
            BY <1>a, <1>b, <2>1, <2>4, <2>5, <3>1, <3>2 DEF Fresh
    <2> QED
        BY <2>5, <2>6 DEF OnceInv
<1>6. CASE GuiRefused
    <2>1. gui' \notin Waiting
        BY <1>6 DEF GuiRefused, Waiting
    <2> QED
        BY <1>6, <1>1, <2>1 DEF GuiRefused, stream, kernelVars
<1>7. CASE StartKernel \/ InitSceneInits \/ InitSceneSkips
    BY <1>7, <1>1 DEF StartKernel, InitSceneInits, InitSceneSkips, stream, guiVars
<1>8. CASE Replay
    <2>1. /\ kernel = "replay" /\ next <= Len(early) /\ next' = next + 1
          /\ UNCHANGED <<init, early, kernel, gui, guiCalls, accepted, executed>>
          /\ buf' \in {buf, Append(buf, early[next])}
        BY <1>8 DEF Replay, guiVars
    <2>2. next >= 1
        BY DEF TypeInv, TypeOK
    <2> DEFINE c == early[next]
    <2>3. next \in DOMAIN early /\ c \in Chunk /\ c \in Range(early) /\ c \notin Range(stream)
        <3>1. next \in DOMAIN early
            BY <1>a, <2>1, <2>2
        <3>2. c \in Range(early)
            BY <3>1 DEF Range
        <3>3. c \notin Range(stream)
            BY <1>b, <2>1, <3>1, <2>2 DEF Pending, TypeInv, TypeOK
        <3>4. c \in Chunk
            BY <1>a, <3>1
        <3> QED
            BY <3>1, <3>2, <3>3, <3>4
    <2>4. \A j \in DOMAIN early : j >= next' => early[j] # c
        <3>1. \A i, j \in DOMAIN early : early[i] = early[j] => i = j
            BY <1>b DEF IsInjective
        <3>2. \A j \in DOMAIN early : j >= next' => j # next
            BY <1>a, <2>1
        <3> QED
            BY <2>3, <3>1, <3>2
    <2>5. \A j \in DOMAIN early : j >= next' => early[j] \notin Range(stream)
        BY <1>a, <1>b, <2>1 DEF Pending
    <2>a. buf' = buf \/ buf' = Append(buf, c)
        BY <2>1
    <2> HIDE DEF c
    <2>6. /\ IsInjective(stream)'
          /\ Range(stream') \subseteq Range(stream) \cup {c}
        <3>1. CASE buf' = buf
            BY <1>b, <2>1, <3>1 DEF stream
        <3>2. CASE buf' = Append(buf, c)
            <4>1. stream' = executed \o Append(buf, c)
                BY <2>1, <3>2 DEF stream
            <4> QED
                BY <1>a, <1>b, <2>3, <4>1, StreamGrows DEF stream
        <3> QED
            BY <2>a, <3>1, <3>2
    <2>7. Used' \subseteq Used
        BY <2>1, <2>3, <2>6 DEF Used
    <2>8. Fresh'
        BY <1>b, <2>1, <2>7 DEF Fresh
    <2>9. Pending'
        BY <2>1, <2>4, <2>5, <2>6 DEF Pending
    <2> QED
        BY <1>b, <2>1, <2>6, <2>8, <2>9 DEF OnceInv
<1>9. CASE ReplayEnds
    BY <1>9, <1>1 DEF ReplayEnds, stream, guiVars
<1>10. CASE ClearEarly
    <2>1. /\ early' = <<>> /\ UNCHANGED <<gui, guiCalls, buf, executed, accepted>>
        BY <1>10 DEF ClearEarly, guiVars
    <2>2. stream' = stream
        BY <2>1 DEF stream
    <2>3. Used' \subseteq Used /\ IsInjective(early)'
        BY <2>1, <2>2, EmptyOnce DEF Used
    <2>4. Fresh'
        BY <1>b, <2>1, <2>3 DEF Fresh
    <2>5. Pending'
        <3>1. DOMAIN early' = 1..0
            BY <2>1, EmptySeq
        <3> QED
            BY <3>1 DEF Pending
    <2> QED
        BY <1>b, <2>2, <2>3, <2>4, <2>5 DEF OnceInv
<1>11. CASE Sync
    <2>1. /\ kernel' = "latePreFrame" /\ UNCHANGED <<init, early, next, gui, guiCalls, accepted, executed>>
          /\ (buf' = buf) \/ (init /\ buf' = <<>>)
        BY <1>11 DEF Sync, guiVars
    <2>2. CASE buf' = buf
        BY <1>1, <2>1, <2>2 DEF stream
    <2>3. CASE init /\ buf' = <<>>
        <3>1. stream' = executed \o <<>>
            BY <2>1, <2>3 DEF stream
        <3>2. IsInjective(stream') /\ Range(stream') \subseteq Range(stream)
            BY <1>a, <1>b, <3>1, StreamShrinks DEF stream
        <3>3. Used' \subseteq Used
            BY <2>1, <3>2 DEF Used
        <3>4. Fresh'
            BY <1>b, <2>1, <3>3 DEF Fresh
        <3>5. Pending'
            BY <2>1, <2>3 DEF Pending
        <3> QED
            BY <1>b, <2>1, <3>2, <3>4, <3>5 DEF OnceInv
    <2> QED
        BY <2>1, <2>2, <2>3
<1>12. CASE RunBegins \/ RunInits \/ RunEnds
    BY <1>12, <1>1 DEF RunBegins, RunInits, RunEnds, stream, guiVars
<1>13. CASE RunOne
    <2>1. buf # <<>>
        <3>1. kernel = "run" /\ left > 0
            BY <1>13 DEF RunOne
        <3>2. left <= Len(buf)
            BY <3>1 DEF TypeInv, SizeInv
        <3>3. left \in Nat
            BY DEF TypeInv, TypeOK
        <3> QED
            BY <1>a, <3>1, <3>2, <3>3, EmptySeq
    <2>2. executed' = Append(executed, Head(buf)) /\ buf' = Tail(buf)
        BY <1>13 DEF RunOne
    <2>3. stream' = stream
        BY <1>a, <2>1, <2>2, StreamStays DEF stream
    <2> QED
        BY <1>13, <1>1, <2>3 DEF RunOne, guiVars
<1>14. CASE UNCHANGED vars
    BY <1>14, <1>1 DEF vars, stream, kernelVars, guiVars
<1> QED
    BY <1>2, <1>3, <1>4, <1>5, <1>6, <1>7, <1>8, <1>9, <1>10, <1>11, <1>12, <1>13, <1>14
       DEF Next, ScriptStep, GuiStep, KernelStep

\* No chunk runs twice, however its journey through _earlyBirds, the replay and
\* the buffer interleaves with the GUI thread.
THEOREM SyncOnceCorrect == Spec => []RunsOnce
<1>1. Spec => []OnceInv
    BY OnceInit, OnceStep, TypeInvariant, PTL DEF Spec
<1>2. OnceInv => RunsOnce
    BY DEF OnceInv, RunsOnce, stream
<1> QED
    BY <1>1, <1>2, PTL

\* A secondary is overruled and told so, in every state.
THEOREM SecondaryCorrect == Spec => []SecondaryOverruled
<1>1. SecondaryRunsNoneOfItsOwn /\ SecondaryConsoleTold => SecondaryOverruled
  BY DEF SecondaryOverruled
<1> QED  BY <1>1, NoneOfItsOwn, ConsoleTold, PTL
-----------------------------------------------------------------------------
(* The early birds keep their order.                                        *)

\* The files among the chunks of a sequence are in the order of their numbers.
InOrder(s) ==
    \A j, k \in DOMAIN s : j < k /\ IsEarly(s[j]) /\ IsEarly(s[k]) => s[j][2] < s[k][2]

\* Every file handed over comes before every file still to be handed over.
HandedOver ==
    kernel = "replay" =>
        \A i \in DOMAIN stream, j \in DOMAIN early :
            j >= next /\ IsEarly(stream[i]) /\ IsEarly(early[j]) => stream[i][2] < early[j][2]

OrderInv == InOrder(stream) /\ InOrder(early) /\ HandedOver

LEMMA Kinds ==
    /\ \A c \in Chunk : IsEarly(c) => \E k \in 1..MaxEarly : c = Early(k)
    /\ \A k \in Nat : IsEarly(Early(k)) /\ Early(k)[2] = k /\ ~IsEarly(Gui(k))
BY DEF Chunk, IsEarly, Early, Gui

LEMMA StreamAppends ==
    ASSUME NEW S, NEW a \in Seq(S), NEW b \in Seq(S), NEW c \in S
    PROVE  a \o Append(b, c) = Append(a \o b, c)
<1>1. a \o b \in Seq(S) /\ <<c>> \in Seq(S)
    BY ConcatProperties
<1>2. Append(b, c) = b \o <<c>> /\ Append(a \o b, c) = (a \o b) \o <<c>>
    BY <1>1, AppendIsConcat
<1> QED
    BY <1>1, <1>2, ConcatAssociative

\* A sequence stays in order if what is appended is no file, or a later one.
LEMMA AppendInOrder ==
    ASSUME NEW s \in Seq(Chunk), NEW c \in Chunk, InOrder(s),
           \A j \in DOMAIN s : IsEarly(c) /\ IsEarly(s[j]) => s[j][2] < c[2]
    PROVE  InOrder(Append(s, c))
<1>1. /\ Len(s) \in Nat /\ DOMAIN s = 1..Len(s)
      /\ DOMAIN Append(s, c) = 1..(Len(s) + 1)
      /\ \A i \in 1..Len(s) : Append(s, c)[i] = s[i]
      /\ Append(s, c)[Len(s) + 1] = c
    BY AppendProperties, LenProperties
<1> DEFINE t == Append(s, c)
<1> HIDE DEF t
<1> SUFFICES ASSUME NEW j \in 1..(Len(s) + 1), NEW k \in 1..(Len(s) + 1), j < k,
                    IsEarly(t[j]), IsEarly(t[k])
             PROVE  t[j][2] < t[k][2]
    BY <1>1 DEF InOrder, t
<1>2. j \in 1..Len(s) /\ t[j] = s[j]
    BY <1>1 DEF t
<1>3. CASE k \in 1..Len(s)
    <2>1. t[k] = s[k]
        BY <1>1, <1>3 DEF t
    <2> QED
        BY <1>1, <1>2, <1>3, <2>1 DEF InOrder
<1>4. CASE k = Len(s) + 1
    <2>1. t[k] = c
        BY <1>1, <1>4 DEF t
    <2> QED
        BY <1>1, <1>2, <2>1
<1> QED
    BY <1>1, <1>3, <1>4

\* So does what is at the front of one.
LEMMA FrontInOrder ==
    ASSUME NEW s \in Seq(Chunk), NEW t \in Seq(Chunk), InOrder(s), Len(t) <= Len(s),
           \A i \in 1..Len(t) : t[i] = s[i]
    PROVE  InOrder(t)
<1>1. DOMAIN s = 1..Len(s) /\ DOMAIN t = 1..Len(t) /\ Len(s) \in Nat /\ Len(t) \in Nat
    BY LenProperties
<1> QED
    BY <1>1 DEF InOrder

LEMMA OrderInit == Init => OrderInv
<1> SUFFICES ASSUME Init PROVE OrderInv
    OBVIOUS
<1>1. stream = <<>> /\ early = <<>> /\ kernel = "setup"
    BY EmptySeq, ConcatEmptySeq DEF Init, stream
<1>2. DOMAIN <<>> = {}
    BY EmptySeq
<1> QED
    BY <1>1, <1>2 DEF OrderInv, InOrder, HandedOver

LEMMA OrderStep == TypeInv /\ OnceInv /\ OrderInv /\ [Next]_vars => OrderInv'
<1> SUFFICES ASSUME TypeInv, OnceInv, OrderInv, [Next]_vars PROVE OrderInv'
    OBVIOUS
<1>a. /\ early \in Seq(Chunk) /\ buf \in Seq(Chunk) /\ executed \in Seq(Chunk)
      /\ accepted \in Seq(Chunk) /\ Len(accepted) \in Nat
      /\ guiCalls \in 0..MaxGui /\ next \in Nat /\ next >= 1
      /\ Len(early) \in Nat /\ DOMAIN early = 1..Len(early)
    BY LenProperties DEF TypeInv, TypeOK
<1>b. InOrder(stream) /\ InOrder(early) /\ HandedOver
    BY DEF OrderInv
<1>c. stream \in Seq(Chunk) /\ Len(stream) \in Nat /\ DOMAIN stream = 1..Len(stream)
    BY <1>a, ConcatProperties, LenProperties DEF stream
<1>d. DOMAIN <<>> = {} /\ Len(<<>>) = 0 /\ <<>> \in Seq(Chunk) /\ InOrder(<<>>)
    <2>1. DOMAIN <<>> = {} /\ Len(<<>>) = 0 /\ <<>> \in Seq(Chunk)
        BY EmptySeq
    <2> QED
        BY <2>1 DEF InOrder
\* Steps that move no chunk.
<1>1. ASSUME stream' = stream, UNCHANGED <<early, next>>,
             kernel' = "replay" => kernel = "replay" \/ ~init
      PROVE  OrderInv'
    <2>1. CASE kernel' = "replay" /\ ~init
        <3>1. stream = <<>>
            BY <2>1, EmptySeq, ConcatEmptySeq DEF stream, TypeInv, SizeInv
        <3> QED
            BY <1>1, <1>b, <1>d, <3>1 DEF OrderInv, HandedOver
    <2>2. CASE kernel' = "replay" => kernel = "replay"
        BY <1>1, <1>b, <2>2 DEF OrderInv, HandedOver
    <2> QED
        BY <1>1, <2>1, <2>2
<1>2. CASE AddFile
    <2> DEFINE n == Len(accepted) + 1
               c == Early(n)
    <2>1. c \in Chunk /\ n \in Nat
        BY <1>2, <1>a, NewChunk DEF AddFile
    <2>2. \A d \in Used : d \in Chunk /\ IsEarly(d) => d[2] < c[2]
        <3> SUFFICES ASSUME NEW d \in Used, d \in Chunk, IsEarly(d) PROVE d[2] < c[2]
            OBVIOUS
        <3>1. PICK k \in 1..MaxEarly : d = Early(k)
            BY Kinds
        <3>2. k <= Len(accepted)
            BY <3>1 DEF OnceInv, Fresh
        <3>3. d[2] = k /\ c[2] = n
            BY <2>1, <3>1, Kinds
        <3> QED
            BY <1>a, <3>2, <3>3
    <2>3. /\ init => buf' = Append(buf, c) /\ early' = early
          /\ ~init => buf' = buf /\ early' = Append(early, c)
          /\ kernel' = "setup" /\ executed' = executed
        BY <1>2 DEF AddFile, kernelVars
    <2> HIDE DEF c
    <2>4. CASE init
        <3>1. stream' = Append(stream, c)
            <4>1. executed \o Append(buf, c) = Append(executed \o buf, c)
                BY <1>a, <2>1, StreamAppends
            <4> QED
                BY <2>3, <2>4, <4>1 DEF stream
        <3>2. \A j \in DOMAIN stream : stream[j] \in Used /\ stream[j] \in Chunk
            BY <1>c DEF Used, Range
        <3>3. InOrder(stream')
            BY <1>b, <1>c, <2>1, <2>2, <3>1, <3>2, AppendInOrder
        <3> QED
            BY <1>b, <2>3, <2>4, <3>3 DEF OrderInv, HandedOver
    <2>5. CASE ~init
        <3>1. stream' = stream
            BY <2>3, <2>5 DEF stream
        <3>2. \A j \in DOMAIN early : early[j] \in Used /\ early[j] \in Chunk
            BY <1>a DEF Used, Range
        <3>3. InOrder(early')
            BY <1>a, <1>b, <2>1, <2>2, <2>3, <2>5, <3>2, AppendInOrder
        <3> QED
            BY <1>b, <2>3, <3>1, <3>3 DEF OrderInv, HandedOver
    <2> QED
        BY <2>4, <2>5
<1>3. CASE IsLocal
    <2> DEFINE m == IF Len(early) <= Capacity THEN Len(early) ELSE Capacity
    <2>1. m \in 0..Len(early)
        BY <1>a, SyncRunBufferAssumption
    <2>2. /\ ~init /\ early' = <<>> /\ buf' = SubSeq(early, 1, m) /\ kernel' = "setup"
          /\ executed' = executed
        BY <1>3 DEF IsLocal, kernelVars
    <2> HIDE DEF m
    <2>3. /\ buf' \in Seq(Chunk) /\ Len(buf') = m /\ \A i \in 1..m : buf'[i] = early[i]
        BY <1>a, <2>1, <2>2, SubSeqProperties
    <2>4. stream' = buf'
        BY <2>2, <2>3, ConcatEmptySeq DEF stream, TypeInv, SizeInv
    <2>5. InOrder(stream')
        BY <1>a, <1>b, <2>1, <2>3, <2>4, FrontInOrder
    <2> QED
        BY <1>d, <2>2, <2>5 DEF OrderInv, HandedOver
<1>4. CASE GuiCall \/ GuiRefused
    BY <1>4, <1>1 DEF GuiCall, GuiRefused, stream, kernelVars
<1>5. CASE GuiEarly \/ GuiForward
    <2> DEFINE c == Gui(guiCalls)
    <2>1. gui \in Waiting /\ UNCHANGED <<kernel, next, executed>>
        BY <1>5 DEF GuiEarly, GuiForward, Waiting, kernelVars
    <2>2. c \in Chunk /\ ~IsEarly(c)
        <3>1. guiCalls >= 1
            BY <2>1 DEF TypeInv, SizeInv
        <3> QED
            BY <1>a, <3>1, NewChunk, Kinds
    <2>a. /\ GuiForward => buf' = Append(buf, c) /\ early' = early
          /\ GuiEarly => buf' = buf /\ early' = Append(early, c)
        BY DEF GuiEarly, GuiForward
    <2> HIDE DEF c
    <2>3. CASE GuiForward
        <3>1. stream' = Append(stream, c)
            <4>1. executed \o Append(buf, c) = Append(executed \o buf, c)
                BY <1>a, <2>2, StreamAppends
            <4> QED
                BY <2>1, <2>a, <2>3, <4>1 DEF stream
        <3>2. InOrder(stream')
            BY <1>b, <1>c, <2>2, <3>1, AppendInOrder
        <3>3. /\ DOMAIN stream' = 1..(Len(stream) + 1)
              /\ \A i \in 1..Len(stream) : stream'[i] = stream[i]
              /\ stream'[Len(stream) + 1] = c
            BY <1>c, <2>2, <3>1, AppendProperties, LenProperties
        <3>4. \A i \in DOMAIN stream' : IsEarly(stream'[i]) => i \in DOMAIN stream /\ stream'[i] = stream[i]
            BY <1>c, <2>2, <3>3
        <3> QED
            BY <1>b, <2>1, <2>a, <2>3, <3>2, <3>4 DEF OrderInv, HandedOver
    <2>4. CASE GuiEarly
        <3>1. stream' = stream /\ early' = Append(early, c)
            BY <2>1, <2>a, <2>4 DEF stream
        <3>2. InOrder(early')
            BY <1>a, <1>b, <2>2, <3>1, AppendInOrder
        <3>3. /\ DOMAIN early' = 1..(Len(early) + 1)
              /\ \A i \in 1..Len(early) : early'[i] = early[i]
              /\ early'[Len(early) + 1] = c
            BY <1>a, <2>2, <3>1, AppendProperties, LenProperties
        <3>4. \A i \in DOMAIN early' : IsEarly(early'[i]) => i \in DOMAIN early /\ early'[i] = early[i]
            BY <1>a, <2>2, <3>3
        <3> QED
            BY <1>b, <2>1, <3>1, <3>2, <3>4 DEF OrderInv, HandedOver
    <2> QED
        BY <1>5, <2>3, <2>4
<1>6. CASE StartKernel \/ InitSceneInits \/ InitSceneSkips
    BY <1>6, <1>1 DEF StartKernel, InitSceneInits, InitSceneSkips, stream
<1>7. CASE Replay
    <2>1. /\ kernel = "replay" /\ next <= Len(early) /\ next' = next + 1
          /\ UNCHANGED <<early, kernel, executed>>
          /\ buf' = buf \/ buf' = Append(buf, early[next])
        BY <1>7 DEF Replay
    <2> DEFINE c == early[next]
    <2>2. next \in DOMAIN early /\ c \in Chunk
        BY <1>a, <2>1
    <2> HIDE DEF c
    <2>3. \A i \in DOMAIN stream : IsEarly(c) /\ IsEarly(stream[i]) => stream[i][2] < c[2]
        BY <1>b, <2>1, <2>2 DEF HandedOver, c
    <2>4. \A j \in DOMAIN early : j >= next + 1 => j > next /\ j >= next
        BY <1>a
    <2>5. CASE buf' = buf
        <3>1. stream' = stream
            BY <2>1, <2>5 DEF stream
        <3> QED
            BY <1>b, <2>1, <2>4, <3>1 DEF OrderInv, HandedOver
    <2>6. CASE buf' = Append(buf, c)
        <3>1. stream' = Append(stream, c)
            BY <1>a, <2>1, <2>2, <2>6, StreamAppends DEF stream
        <3>2. InOrder(stream')
            BY <1>b, <1>c, <2>2, <2>3, <3>1, AppendInOrder
        <3>3. /\ DOMAIN stream' = 1..(Len(stream) + 1)
              /\ \A i \in 1..Len(stream) : stream'[i] = stream[i]
              /\ stream'[Len(stream) + 1] = c
            BY <1>c, <2>2, <3>1, AppendProperties, LenProperties
        <3>4. ASSUME NEW i \in DOMAIN stream', NEW j \in DOMAIN early, j >= next + 1,
                     IsEarly(stream'[i]), IsEarly(early[j])
              PROVE  stream'[i][2] < early[j][2]
            <4>1. CASE i \in 1..Len(stream)
                BY <1>b, <1>c, <2>1, <2>4, <3>3, <3>4, <4>1 DEF HandedOver
            <4>2. CASE i = Len(stream) + 1
                BY <1>b, <2>2, <2>4, <3>3, <3>4, <4>2 DEF InOrder, c
            <4> QED
                BY <1>c, <3>3, <4>1, <4>2
        <3> QED
            BY <1>b, <2>1, <3>2, <3>4 DEF OrderInv, HandedOver
    <2> QED
        BY <2>1, <2>5, <2>6 DEF c
<1>8. CASE ReplayEnds
    BY <1>8, <1>1 DEF ReplayEnds, stream
<1>9. CASE ClearEarly
    <2>1. stream' = stream /\ early' = <<>> /\ kernel' # "replay"
        BY <1>9 DEF ClearEarly, AfterInit, stream
    <2> QED
        BY <1>b, <1>d, <2>1 DEF OrderInv, HandedOver
<1>10. CASE Sync
    <2>1. /\ kernel' = "latePreFrame" /\ UNCHANGED <<early, next, executed>>
          /\ buf' = buf \/ buf' = <<>>
        BY <1>10 DEF Sync
    <2>2. CASE buf' = buf
        BY <1>1, <2>1, <2>2 DEF stream
    <2>3. CASE buf' = <<>>
        <3>1. stream' = executed
            BY <1>a, <2>1, <2>3, ConcatEmptySeq DEF stream
        <3>2. Len(executed) <= Len(stream) /\ \A i \in 1..Len(executed) : executed[i] = stream[i]
            BY <1>a, ConcatProperties, LenProperties DEF stream
        <3>3. InOrder(stream')
            BY <1>a, <1>b, <1>c, <3>1, <3>2, FrontInOrder
        <3> QED
            BY <1>b, <2>1, <3>3 DEF OrderInv, HandedOver
    <2> QED
        BY <2>1, <2>2, <2>3
<1>11. CASE RunBegins \/ RunInits \/ RunEnds
    BY <1>11, <1>1 DEF RunBegins, RunInits, RunEnds, stream
<1>12. CASE RunOne
    <2>1. buf # <<>>
        <3>1. kernel = "run" /\ left > 0
            BY <1>12 DEF RunOne
        <3>2. left <= Len(buf)
            BY <3>1 DEF TypeInv, SizeInv
        <3>3. left \in Nat
            BY DEF TypeInv, TypeOK
        <3> QED
            BY <1>a, <3>1, <3>2, <3>3, EmptySeq
    <2>2. stream' = stream
        BY <1>12, <1>a, <2>1, StreamStays DEF RunOne, stream
    <2> QED
        BY <1>12, <1>1, <2>2 DEF RunOne
<1>13. CASE UNCHANGED vars
    BY <1>13, <1>1 DEF vars, stream, kernelVars
<1> QED
    BY <1>2, <1>3, <1>4, <1>5, <1>6, <1>7, <1>8, <1>9, <1>10, <1>11, <1>12, <1>13
       DEF Next, ScriptStep, GuiStep, KernelStep

\* The files of the command line run in the order they were given.
THEOREM EarlyOrderCorrect == Spec => []EarlyInOrder
<1>1. OrderInv => EarlyInOrder
    BY DEF OrderInv, InOrder, EarlyInOrder, stream
<1>2. Spec => []OnceInv
    BY OnceInit, OnceStep, TypeInvariant, PTL DEF Spec
<1> QED
    BY <1>1, <1>2, OrderInit, OrderStep, TypeInvariant, PTL DEF Spec
-----------------------------------------------------------------------------
(* The first early birds are kept.                                          *)

\* How many of the files init() has handed to the buffer.
Handed == IF ~init THEN 0 ELSE IF kernel = "replay" THEN next - 1 ELSE Len(accepted)

\* Until init() is over nothing but the files has been added, and the buffer holds
\* as many of those handed over as fit.
StartingUp ==
    /\ gui = "idle" /\ executed = <<>>
    /\ \A j \in 1..Len(accepted) : accepted[j] = Early(j)
    /\ ~init \/ kernel = "replay" => early = accepted
    /\ Len(buf) = IF Handed <= Capacity THEN Handed ELSE Capacity
    /\ \A j \in 1..Len(buf) : buf[j] = Early(j)

\* Of the files, exactly the first ones are in the stream.
FirstOnes ==
    \A k \in 1..MaxEarly :
        Early(k) \in Range(accepted) => (Early(k) \in Range(stream) <=> k <= Capacity)

KeptInv == patient => IF StartupOver THEN local => FirstOnes ELSE StartingUp

LEMMA EarlyIsOne == \A j, k \in Nat : (Early(j) = Early(k) => j = k) /\ Early(j) # Gui(k)
BY DEF Early, Gui

\* When all the files have been handed over the first ones are in the buffer.
LEMMA StartupEnds ==
    ASSUME TypeInv, StartingUp, Handed = Len(accepted)
    PROVE  FirstOnes
<1>1. /\ accepted \in Seq(Chunk) /\ Len(accepted) \in Nat /\ DOMAIN accepted = 1..Len(accepted)
      /\ buf \in Seq(Chunk) /\ Len(buf) \in Nat /\ DOMAIN buf = 1..Len(buf)
    BY LenProperties DEF TypeInv, TypeOK
<1>2. stream = buf
    BY <1>1, ConcatEmptySeq DEF stream, StartingUp
<1>3. Len(buf) = IF Len(accepted) <= Capacity THEN Len(accepted) ELSE Capacity
    BY DEF StartingUp
<1> SUFFICES ASSUME NEW k \in 1..MaxEarly, Early(k) \in Range(accepted)
             PROVE  Early(k) \in Range(buf) <=> k <= Capacity
    BY <1>2 DEF FirstOnes
<1>4. k <= Len(accepted) /\ k \in Nat /\ k >= 1
    <2>1. PICK j \in 1..Len(accepted) : accepted[j] = Early(k)
        BY <1>1 DEF Range
    <2>2. Early(j) = Early(k) /\ j \in Nat
        BY <2>1 DEF StartingUp
    <2> QED
        BY <2>1, <2>2, EarlyIsOne
<1>5. ASSUME Early(k) \in Range(buf) PROVE k <= Capacity
    <2>1. PICK j \in 1..Len(buf) : buf[j] = Early(k)
        BY <1>1, <1>5 DEF Range
    <2>2. Early(j) = Early(k) /\ j \in Nat
        BY <2>1 DEF StartingUp
    <2>3. j = k
        BY <1>4, <2>2, EarlyIsOne
    <2> QED
        BY <1>1, <1>3, <2>1, <2>3
<1>6. ASSUME k <= Capacity PROVE Early(k) \in Range(buf)
    <2>1. k \in 1..Len(buf)
        BY <1>1, <1>3, <1>4, <1>6
    <2>2. buf[k] = Early(k)
        BY <2>1 DEF StartingUp
    <2> QED
        BY <1>1, <2>1, <2>2 DEF Range
<1> QED
    BY <1>5, <1>6

LEMMA KeptInit == Init => KeptInv
<1> SUFFICES ASSUME Init PROVE StartingUp /\ ~StartupOver
    BY DEF KeptInv
<1>1. /\ gui = "idle" /\ executed = <<>> /\ accepted = <<>> /\ early = <<>> /\ buf = <<>> /\ ~init
      /\ kernel = "setup"
    BY DEF Init
<1>2. Len(<<>>) = 0 /\ Handed = 0
    BY <1>1, EmptySeq DEF Handed
<1> QED
    BY <1>1, <1>2 DEF StartingUp, StartupOver

\* Once init() is over no file is added or taken away.
LEMMA KeptAfterwards ==
    ASSUME TypeInv, StartupOver, local => FirstOnes, [Next]_vars
    PROVE  StartupOver' /\ (local' => FirstOnes')
<1>a. /\ buf \in Seq(Chunk) /\ executed \in Seq(Chunk) /\ accepted \in Seq(Chunk)
      /\ stream \in Seq(Chunk) /\ guiCalls \in 0..MaxGui /\ (gui \in Waiting => guiCalls >= 1)
    BY ConcatProperties DEF TypeInv, TypeOK, SizeInv, stream
<1>b. init /\ kernel \notin {"setup", "initScene", "replay", "clear"}
    BY DEF StartupOver
<1>1. ASSUME UNCHANGED <<local, init>>, kernel' \in {kernel, "sync", "latePreFrame", "run"},
             local => stream' = stream, accepted' = accepted
      PROVE  StartupOver' /\ (local' => FirstOnes')
    BY <1>1, <1>b DEF StartupOver, FirstOnes
<1>2. CASE GuiEarly \/ GuiForward
    <2> DEFINE c == Gui(guiCalls)
    <2>1. /\ UNCHANGED <<local, init, kernel, executed>> /\ accepted' = Append(accepted, c)
          /\ gui \in Waiting
          /\ buf' = buf \/ buf' = Append(buf, c)
        BY <1>2 DEF GuiEarly, GuiForward, setting, kernelVars, Waiting
    <2>2. c \in Chunk
        BY <1>a, <2>1, NewChunk
    <2>3. \A k \in 1..MaxEarly : Early(k) # c
        BY <1>a, EarlyIsOne
    <2> HIDE DEF c
    <2>4. Range(accepted') = Range(accepted) \cup {c}
        BY <1>a, <2>1, <2>2, RangeOfAppend
    <2>5. Range(stream') = Range(stream) \/ Range(stream') = Range(stream) \cup {c}
        <3>1. CASE buf' = buf
            BY <2>1, <3>1 DEF stream
        <3>2. CASE buf' = Append(buf, c)
            <4>1. executed \o Append(buf, c) = Append(executed \o buf, c)
                BY <1>a, <2>2, StreamAppends
            <4>2. stream' = Append(stream, c)
                BY <2>1, <3>2, <4>1 DEF stream
            <4> QED
                BY <1>a, <2>2, <4>2, RangeOfAppend
        <3> QED
            BY <2>1, <3>1, <3>2
    <2> QED
        BY <1>b, <2>1, <2>3, <2>4, <2>5 DEF StartupOver, FirstOnes
<1>3. CASE GuiCall \/ GuiRefused
    BY <1>3, <1>1 DEF GuiCall, GuiRefused, stream, setting, kernelVars
<1>4. CASE Sync
    BY <1>4, <1>1 DEF Sync, stream, setting
<1>5. CASE RunBegins \/ RunEnds
    BY <1>5, <1>1 DEF RunBegins, RunEnds, stream, setting
<1>6. CASE RunOne
    <2>1. buf # <<>>
        BY <1>6, EmptySeq DEF RunOne, TypeInv, TypeOK, SizeInv
    <2>2. stream' = stream
        BY <1>6, <1>a, <2>1, StreamStays DEF RunOne, stream
    <2> QED
        BY <1>6, <1>1, <2>2 DEF RunOne, setting
<1>7. CASE UNCHANGED vars
    BY <1>7, <1>1 DEF vars, stream, setting, kernelVars
<1>8. ~AddFile /\ ~IsLocal /\ ~StartKernel /\ ~InitSceneInits /\ ~InitSceneSkips
    BY <1>b DEF AddFile, IsLocal, StartKernel, InitSceneInits, InitSceneSkips
<1>9. ~Replay /\ ~ReplayEnds /\ ~ClearEarly /\ ~RunInits
    BY <1>b DEF Replay, ReplayEnds, ClearEarly, RunInits
<1> QED
    BY <1>2, <1>3, <1>4, <1>5, <1>6, <1>7, <1>8, <1>9 DEF Next, ScriptStep, GuiStep, KernelStep

LEMMA KeptStep == TypeInv /\ KeptInv /\ [Next]_vars => KeptInv'
<1> SUFFICES ASSUME TypeInv, KeptInv, [Next]_vars PROVE KeptInv'
    OBVIOUS
<1>1. patient' = patient
    BY DEF Next, ScriptStep, GuiStep, KernelStep, vars, setting, AddFile, IsLocal, StartKernel,
           GuiCall, GuiEarly, GuiForward, GuiRefused, InitSceneInits, InitSceneSkips, Replay,
           ReplayEnds, ClearEarly, Sync, RunBegins, RunInits, RunOne, RunEnds
<1>2. CASE ~patient
    BY <1>1, <1>2 DEF KeptInv
<1>3. CASE patient /\ StartupOver
    BY <1>1, <1>3, KeptAfterwards DEF KeptInv
<1>4. CASE patient /\ ~StartupOver
    <2>a. StartingUp
        BY <1>4 DEF KeptInv
    <2>b. /\ gui = "idle" /\ executed = <<>>
          /\ \A j \in 1..Len(accepted) : accepted[j] = Early(j)
          /\ ~init \/ kernel = "replay" => early = accepted
          /\ Len(buf) = IF Handed <= Capacity THEN Handed ELSE Capacity
          /\ \A j \in 1..Len(buf) : buf[j] = Early(j)
        BY <2>a DEF StartingUp
    <2>c. /\ accepted \in Seq(Chunk) /\ Len(accepted) \in Nat /\ DOMAIN accepted = 1..Len(accepted)
          /\ buf \in Seq(Chunk) /\ Len(buf) \in Nat /\ DOMAIN buf = 1..Len(buf)
          /\ early \in Seq(Chunk) /\ Len(early) \in Nat
          /\ next \in Nat /\ next >= 1
        BY LenProperties DEF TypeInv, TypeOK
    <2>d. /\ ~init => next = 1 /\ kernel \in {"setup", "initScene", "sync", "latePreFrame"}
          /\ init => kernel \in {"setup", "initScene", "replay", "clear"}
          /\ kernel = "replay" => next <= Len(early) + 1
        BY <1>4 DEF TypeInv, SizeInv, StartupOver
    \* The steps that only move the kernel thread.
    <2>1. ASSUME UNCHANGED <<gui, executed, accepted, early, buf>>, Handed' = Handed,
                 ~init' \/ kernel' = "replay" => ~init \/ kernel = "replay", ~StartupOver'
          PROVE  KeptInv'
        BY <2>1, <2>b DEF KeptInv, StartingUp
    <2>2. ASSUME UNCHANGED <<accepted, executed, buf>>, Handed = Len(accepted), StartupOver'
          PROVE  KeptInv'
        <3>1. FirstOnes
            BY <2>2, <2>a, StartupEnds
        <3> QED
            BY <2>2, <3>1 DEF KeptInv, FirstOnes, stream
    <2>3. CASE AddFile
        <3> DEFINE n == Len(accepted) + 1
                   c == Early(n)
        <3>1. c \in Chunk
            BY <2>3, <2>c, NewChunk DEF AddFile
        <3>2. /\ accepted' = Append(accepted, c) /\ UNCHANGED <<gui, executed, init, kernel, next>>
              /\ kernel = "setup" /\ (init => Len(buf) < Capacity)
              /\ early' = IF init THEN early ELSE Append(early, c)
              /\ buf' = IF init THEN Append(buf, c) ELSE buf
            BY <2>3 DEF AddFile, kernelVars, guiVars, Full
        <3> HIDE DEF c
        <3>3. /\ Len(accepted') = n
              /\ \A j \in 1..Len(accepted) : accepted'[j] = accepted[j]
              /\ accepted'[n] = c
            BY <2>c, <3>1, <3>2, AppendProperties
        <3>4. \A j \in 1..Len(accepted') : accepted'[j] = Early(j)
            BY <2>b, <2>c, <3>3 DEF c
        <3>5. ~StartupOver'
            BY <3>2 DEF StartupOver
        <3>6. CASE init
            <4>1. Handed = Len(accepted) /\ Handed' = n
                BY <3>2, <3>3, <3>6 DEF Handed
            <4>2. Len(buf) = Len(accepted) /\ Len(buf) < Capacity
                <5>1. Len(buf) < Capacity
                    BY <3>2, <3>6
                <5>2. Len(buf) = IF Len(accepted) <= Capacity THEN Len(accepted) ELSE Capacity
                    BY <2>b, <4>1
                <5>3. Len(accepted) <= Capacity
                    BY <2>c, <5>1, <5>2
                <5> QED
                    BY <5>1, <5>2, <5>3
            <4>3. /\ Len(buf') = Len(buf) + 1 /\ buf'[Len(buf) + 1] = c
                  /\ \A j \in 1..Len(buf) : buf'[j] = buf[j]
                BY <2>c, <3>1, <3>2, <3>6, AppendProperties
            <4>4. \A j \in 1..Len(buf') : buf'[j] = Early(j)
                BY <2>b, <2>c, <4>2, <4>3 DEF c
            <4>5. Len(buf') = n /\ n <= Capacity
                BY <2>c, <4>2, <4>3
            <4>6. Len(buf') = IF Handed' <= Capacity THEN Handed' ELSE Capacity
                BY <4>1, <4>5
            <4> QED
                BY <2>b, <3>2, <3>4, <3>5, <3>6, <4>4, <4>6 DEF KeptInv, StartingUp
        <3>7. CASE ~init
            <4>1. Handed = 0 /\ Handed' = 0 /\ early' = accepted' /\ buf' = buf
                BY <2>b, <3>2, <3>7 DEF Handed
            <4> QED
                BY <2>b, <3>2, <3>4, <3>5, <4>1 DEF KeptInv, StartingUp
        <3> QED
            BY <3>6, <3>7
    <2>4. CASE IsLocal
        <3> DEFINE m == IF Len(early) <= Capacity THEN Len(early) ELSE Capacity
        <3>1. /\ ~init /\ init' = TRUE /\ kernel = "setup" /\ buf' = SubSeq(early, 1, m)
              /\ UNCHANGED <<gui, executed, accepted, kernel>>
            BY <2>4 DEF IsLocal, kernelVars, guiVars
        <3>2. early = accepted /\ m \in 0..Len(early)
            BY <2>b, <2>c, <3>1, SyncRunBufferAssumption
        <3> HIDE DEF m
        <3>3. Len(buf') = m /\ \A j \in 1..m : buf'[j] = accepted[j]
            BY <2>c, <3>1, <3>2, SubSeqProperties
        <3>4. Handed' = Len(accepted)
            BY <3>1 DEF Handed
        <3>5. Len(buf') = IF Handed' <= Capacity THEN Handed' ELSE Capacity
            BY <3>2, <3>3, <3>4 DEF m
        <3>6. \A j \in 1..Len(buf') : buf'[j] = Early(j)
            BY <2>b, <2>c, <3>2, <3>3
        <3> QED
            BY <2>b, <3>1, <3>5, <3>6 DEF KeptInv, StartingUp, StartupOver
    <2>5. CASE StartKernel
        BY <2>5, <2>1 DEF StartKernel, guiVars, Handed, StartupOver
    <2>6. CASE (InitSceneInits \/ RunInits) /\ ~init
        <3>1. /\ init' = TRUE /\ kernel' = "replay" /\ UNCHANGED <<gui, executed, accepted, early, buf, next>>
            BY <2>6 DEF InitSceneInits, RunInits, guiVars
        <3>2. Handed = 0 /\ Handed' = 0
            BY <2>6, <2>d, <3>1 DEF Handed
        <3> QED
            BY <2>1, <2>6, <3>1, <3>2 DEF StartupOver
    <2>7. CASE (InitSceneInits \/ InitSceneSkips) /\ init
        <3>1. /\ init' = init /\ kernel = "initScene" /\ kernel' \in {"dead", "sync"}
              /\ UNCHANGED <<executed, accepted, buf>>
            BY <2>7 DEF InitSceneInits, InitSceneSkips
        <3>2. Handed = Len(accepted)
            BY <2>7, <3>1 DEF Handed
        <3> QED
            BY <2>2, <2>7, <3>1, <3>2 DEF StartupOver
    <2>8. CASE (InitSceneSkips \/ Sync) /\ ~init
        <3>1. init' = init /\ UNCHANGED <<gui, executed, accepted, early, buf>>
            BY <2>8 DEF InitSceneSkips, Sync, guiVars
        <3>2. Handed = 0 /\ Handed' = 0
            BY <2>8, <3>1 DEF Handed
        <3> QED
            BY <2>1, <2>8, <3>1, <3>2 DEF StartupOver
    <2>9. CASE Replay
        <3>1. /\ kernel = "replay" /\ next <= Len(early) /\ next' = next + 1 /\ init
              /\ UNCHANGED <<init, early, kernel, gui, accepted, executed>>
              /\ \/ ~Full /\ buf' = Append(buf, early[next])
                 \/ Full /\ buf' = buf
            BY <2>9, <2>b, <2>d DEF Replay, guiVars
        <3>2. Handed = next - 1 /\ Handed' = next /\ early = accepted
            BY <2>b, <2>c, <3>1 DEF Handed
        <3>3. early[next] = Early(next) /\ early[next] \in Chunk
            BY <2>b, <2>c, <3>1, <3>2
        <3>4. CASE ~Full /\ buf' = Append(buf, early[next])
            <4>1. Len(buf) < Capacity
                BY <2>c, <3>4 DEF Full
            <4>2. Len(buf) = next - 1
                BY <2>b, <2>c, <3>2, <4>1
            <4>3. /\ Len(buf') = Len(buf) + 1 /\ buf'[Len(buf) + 1] = early[next]
                  /\ \A j \in 1..Len(buf) : buf'[j] = buf[j]
                BY <2>c, <3>3, <3>4, AppendProperties
            <4>4. Len(buf) + 1 = next
                BY <2>c, <4>2
            <4>5. \A j \in 1..Len(buf') : buf'[j] = Early(j)
                BY <2>b, <2>c, <3>3, <4>3, <4>4
            <4>6. Len(buf') = next /\ next <= Capacity
                BY <2>c, <4>1, <4>3, <4>4
            <4>7. Len(buf') = IF Handed' <= Capacity THEN Handed' ELSE Capacity
                BY <3>2, <4>6
            <4> QED
                BY <2>b, <3>1, <3>2, <4>5, <4>7 DEF KeptInv, StartingUp, StartupOver
        <3>5. CASE Full /\ buf' = buf
            <4>1. Len(buf) >= Capacity
                BY <3>5 DEF Full
            <4>2. Len(buf) = Capacity /\ next > Capacity
                BY <2>b, <2>c, <3>2, <4>1
            <4>3. Len(buf') = IF Handed' <= Capacity THEN Handed' ELSE Capacity
                BY <2>c, <3>2, <3>5, <4>2
            <4> QED
                BY <2>b, <3>1, <3>2, <3>5, <4>3 DEF KeptInv, StartingUp, StartupOver
        <3> QED
            BY <3>1, <3>4, <3>5
    <2>10. CASE ReplayEnds
        <3>1. /\ kernel = "replay" /\ next > Len(early) /\ kernel' = "clear"
              /\ UNCHANGED <<gui, init, executed, accepted, early, buf, next>>
            BY <2>10 DEF ReplayEnds, guiVars
        <3>2. early = accepted /\ init
            BY <2>b, <2>d, <3>1
        <3>3. next - 1 = Len(accepted)
            BY <2>c, <2>d, <3>1, <3>2
        <3>4. Handed' = Handed
            BY <3>1, <3>2, <3>3 DEF Handed
        <3> QED
            BY <2>1, <3>1, <3>2, <3>4 DEF StartupOver
    <2>11. CASE ClearEarly
        <3>1. /\ kernel = "clear" /\ kernel' \in {"sync", "run"} /\ init /\ init' = init
              /\ UNCHANGED <<executed, accepted, buf>>
            BY <2>11, <2>d DEF ClearEarly, AfterInit
        <3>2. Handed = Len(accepted)
            BY <3>1 DEF Handed
        <3> QED
            BY <2>2, <3>1, <3>2 DEF StartupOver
    <2>12. ~GuiCall /\ ~GuiEarly /\ ~GuiForward /\ ~GuiRefused
        BY <1>4, <2>b DEF GuiCall, GuiEarly, GuiForward, GuiRefused
    <2>13. ~RunBegins /\ ~RunOne /\ ~RunEnds /\ (RunInits => ~init) /\ (Sync => ~init)
        BY <2>d DEF RunBegins, RunOne, RunEnds, RunInits, Sync
    <2>14. CASE UNCHANGED vars
        BY <2>14, <2>1, <1>4 DEF vars, kernelVars, guiVars, Handed, StartupOver
    <2> QED
        BY <2>3, <2>4, <2>5, <2>6, <2>7, <2>8, <2>9, <2>10, <2>11, <2>12, <2>13, <2>14
           DEF Next, ScriptStep, GuiStep, KernelStep
<1> QED
    BY <1>2, <1>3, <1>4

LEMMA RangeOfStream ==
    ASSUME TypeInv
    PROVE  Range(stream) = Range(executed) \cup Range(buf)
<1>1. executed \in Seq(Chunk) /\ buf \in Seq(Chunk)
    BY DEF TypeInv, TypeOK
<1> QED
    BY <1>1, RangeConcatenation DEF stream

\* Of the files on the command line exactly the first ones that fit are kept, and
\* they run in the order they were given, for every capacity, number of files and
\* number of chunks that the GUI thread slips in between.
THEOREM EarlyBirdsCorrect == Spec => []EarlyBirdsKept
<1>1. TypeInv /\ KeptInv => FilesKept
    BY RangeOfStream DEF KeptInv, FirstOnes, FilesKept
<1>2. FilesKept /\ EarlyInOrder => EarlyBirdsKept
    BY DEF EarlyBirdsKept
<1> QED
    BY <1>1, <1>2, KeptInit, KeptStep, TypeInvariant, EarlyOrderCorrect, PTL DEF Spec
=============================================================================
