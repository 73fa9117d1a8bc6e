------------------------------ MODULE FrameLoop -------------------------------
(***************************************************************************)
(* OsgAppProxy (vrjugglua/OsgAppProxy.cpp): the VR Juggler application     *)
(* that forwards the kernel's callbacks to a Lua table, the delegate, and  *)
(* watches it: an application whose delegate did not complete one call     *)
(* during a whole frame is taken for dead, and the program exits.          *)
(*                                                                         *)
(* While a callback runs, the script may install another delegate or stop  *)
(* the kernel; a callback ends by returning or by raising an error.  The   *)
(* table itself is not modified while the program runs.                    *)
(***************************************************************************)
EXTENDS Integers

CONSTANTS
    Delegates,  \* the tables scripts install
    None,       \* no delegate, an empty luabind::object
    MaxTime,    \* bound: the largest head time stamp
    MaxFrames   \* bound: frames explored

FrameCalls == {"preFrame", "latePreFrame", "intraFrame", "postFrame"}
Calls == FrameCalls \cup {"initScene"}

ASSUME FrameLoopAssumption ==
    /\ None \notin Delegates
    /\ MaxTime \in Nat
    /\ MaxFrames \in Nat

VARIABLES
    active,     \* the proxy is the kernel's application
    defines,    \* defines[d]: the callbacks delegate d has as functions
    delegate,   \* _delegate
    flag,       \* _delegationSuccessFlag
    last,       \* _lastPreFrameTime
    delta,      \* _timeDelta
    headTime,   \* cur_time of the preFrame under way
    phase,      \* the callback the kernel is in, or where the program is
    calling,    \* is the delegate's function running?
    stopped,    \* vrj::Kernel::stop() was called
    frames,     \* frames begun so far
    outcomes,   \* history: what happened since the last preFrame began
    added       \* history: the sum of all the time deltas, less that of all the
                \* backward jumps of the head's time

clockVars == <<last, delta, headTime, added>>
watchVars == <<flag, outcomes>>
vars == <<active, defines, delegate, watchVars, clockVars, phase, calling, stopped, frames>>

Points == Calls \cup {"setup", "frameEnd", "stopped", "exited", "destroyed"}

Init ==
    /\ active = FALSE
    /\ defines \in [Delegates -> SUBSET Calls]
    /\ delegate = None
    /\ flag = TRUE
    /\ last = 0
    /\ delta = -1
    /\ headTime = 0
    /\ phase = "setup"
    /\ calling = FALSE
    /\ stopped = FALSE
    /\ frames = 0
    /\ outcomes = {"created"}
    /\ added = 0

-----------------------------------------------------------------------------
(* What scripts do: before the kernel starts, and inside a callback.        *)

ScriptRuns == phase = "setup" \/ calling

Note(outcome) == outcomes' = outcomes \cup {outcome}

\* Mutant of SetAppDelegate: the new delegate gets no fresh attempt.
MutSetAppDelegate(d) ==
    /\ ScriptRuns
    /\ delegate' = d
    /\ Note("installed")
    /\ UNCHANGED <<active, defines, flag, clockVars, phase, calling, stopped, frames>>

\* setAppDelegate with a table; with anything else it only reports an error.
SetAppDelegate(d) ==
    /\ ScriptRuns
    /\ delegate' = d
    /\ flag' = TRUE
    /\ Note("installed")
    /\ UNCHANGED <<active, defines, clockVars, phase, calling, stopped, frames>>

\* The script makes the proxy the kernel's application.
SetActiveApplication ==
    /\ phase = "setup"
    /\ active' = TRUE
    /\ UNCHANGED <<defines, delegate, watchVars, clockVars, phase, calling, stopped, frames>>

\* vrjKernel.stop() in a callback.
StopKernel ==
    /\ calling
    /\ ~stopped
    /\ stopped' = TRUE
    /\ UNCHANGED <<active, defines, delegate, watchVars, clockVars, phase, calling, frames>>

Script ==
    \/ \E d \in Delegates : SetAppDelegate(d)
    \/ SetActiveApplication
    \/ StopKernel

-----------------------------------------------------------------------------
(* _forwardCallToDelegate.                                                  *)

HasCall(call) == delegate # None /\ call \in defines[delegate]

After(call) ==
    CASE call = "initScene" -> "preFrame"
      [] call = "preFrame" -> "latePreFrame"
      [] call = "latePreFrame" -> "intraFrame"
      [] call = "intraFrame" -> "postFrame"
      [] call = "postFrame" -> "frameEnd"

\* Forwarding `call` starts the delegate's function, if there is one.
Forward(call) ==
    IF HasCall(call)
    THEN calling' = TRUE /\ UNCHANGED phase
    ELSE phase' = After(call) /\ UNCHANGED calling

\* The function returns; preFrame then stores its time stamp.
Returns ==
    /\ calling
    /\ calling' = FALSE
    /\ flag' = TRUE
    /\ Note("returned")
    /\ phase' = After(phase)
    /\ last' = IF phase = "preFrame" THEN headTime ELSE last
    /\ UNCHANGED <<active, defines, delegate, delta, headTime, added, stopped, frames>>

\* Mutant of Raises: a failed preFrame leaves the old time stamp in place.
MutRaises ==
    /\ calling
    /\ calling' = FALSE
    /\ phase' = IF phase = "initScene" THEN "exited" ELSE After(phase)
    /\ Note("raised")
    /\ UNCHANGED <<active, defines, delegate, flag, clockVars, stopped, frames>>

\* The function raises a Lua error, which is caught and printed; a required
\* call (initScene) exits.
Raises ==
    /\ calling
    /\ calling' = FALSE
    /\ phase' = IF phase = "initScene" THEN "exited" ELSE After(phase)
    /\ last' = IF phase = "preFrame" THEN headTime ELSE last
    /\ Note("raised")
    /\ UNCHANGED <<active, defines, delegate, flag, delta, headTime, added, stopped, frames>>

\* The function raises something that is neither a string nor a number: the
\* handler add_file_and_line, installed for all protected calls, makes a
\* std::string of a null pointer; what this throws is no luabind::error, and
\* nothing catches it.
RaisesNoString ==
    /\ calling
    /\ calling' = FALSE
    /\ phase' = "exited"
    /\ Note("raised")
    /\ UNCHANGED <<active, defines, delegate, flag, clockVars, stopped, frames>>

-----------------------------------------------------------------------------
(* The kernel's calls.                                                      *)

StartKernel ==
    /\ phase = "setup"
    /\ phase' = "initScene"
    /\ UNCHANGED <<active, defines, delegate, watchVars, clockVars, calling, stopped, frames>>

\* Without an application the kernel idles.  No delegate: exit rather than wait
\* for ever.
InitScene ==
    /\ phase = "initScene"
    /\ active
    /\ ~calling
    /\ IF delegate = None
       THEN phase' = "exited" /\ UNCHANGED calling
       ELSE Forward("initScene")
    /\ UNCHANGED <<active, defines, delegate, watchVars, clockVars, stopped, frames>>

\* The time stamp of the first user's head, which may jump back; without a
\* user it stands still.
HeadTimes == 0..MaxTime

TimeDelta(cur) == IF last >= cur THEN 0 ELSE cur - last

\* Mutant of Watchdog: the flag is not cleared for the frame that begins.
MutWatchdog ==
    /\ flag' = flag
    /\ outcomes' = {}

\* preFrame clears the flag for the frame that begins.
Watchdog ==
    /\ flag' = FALSE
    /\ outcomes' = {}

PreFrame ==
    /\ phase = "preFrame"
    /\ ~calling
    /\ flag
    /\ frames < MaxFrames
    /\ frames' = frames + 1
    /\ Watchdog
    /\ \E cur \in HeadTimes :
        /\ headTime' = cur
        /\ delta' = TimeDelta(cur)
        /\ added' = added + TimeDelta(cur) - (IF cur < headTime THEN headTime - cur ELSE 0)
        /\ last' = IF HasCall("preFrame") THEN last ELSE cur
    /\ Forward("preFrame")
    /\ UNCHANGED <<active, defines, delegate, stopped>>

\* "A full frame loop completed without any successful calls": exit(1).
BailOut ==
    /\ phase = "preFrame"
    /\ ~calling
    /\ ~flag
    /\ stopped' = TRUE
    /\ phase' = "exited"
    /\ UNCHANGED <<active, defines, delegate, watchVars, clockVars, calling, frames>>

\* latePreFrame, intraFrame and postFrame only forward.
FrameCall(call) ==
    /\ phase = call
    /\ ~calling
    /\ Forward(call)
    /\ UNCHANGED <<active, defines, delegate, watchVars, clockVars, stopped, frames>>

\* The kernel loops until it is stopped.
FrameEnd ==
    /\ phase = "frameEnd"
    /\ phase' = IF stopped THEN "stopped" ELSE "preFrame"
    /\ UNCHANGED <<active, defines, delegate, watchVars, clockVars, calling, stopped, frames>>

\* ~OsgAppProxy: the delegate's exit callback has no effect on the proxy, and
\* the reference to the delegate is dropped.
Destroy ==
    /\ phase = "stopped"
    /\ phase' = "destroyed"
    /\ delegate' = None
    /\ UNCHANGED <<active, defines, watchVars, clockVars, calling, stopped, frames>>

-----------------------------------------------------------------------------
Next ==
    \/ Script
    \/ StartKernel
    \/ InitScene
    \/ PreFrame
    \/ BailOut
    \/ \E call \in FrameCalls \ {"preFrame"} : FrameCall(call)
    \/ Returns
    \/ Raises
    \/ RaisesNoString
    \/ FrameEnd
    \/ Destroy

Spec == Init /\ [][Next]_vars

-----------------------------------------------------------------------------
TypeOK ==
    /\ active \in BOOLEAN
    /\ defines \in [Delegates -> SUBSET Calls]
    /\ delegate \in Delegates \cup {None}
    /\ flag \in BOOLEAN
    /\ last \in 0..MaxTime
    /\ delta \in -1..MaxTime
    /\ headTime \in 0..MaxTime
    /\ phase \in Points
    /\ calling \in BOOLEAN
    /\ stopped \in BOOLEAN
    /\ frames \in 0..MaxFrames
    /\ outcomes \subseteq {"created", "installed", "returned", "raised"}
    /\ added \in 0..MaxTime

\* Signs of life: a callback that returned, or a delegate that has not had its
\* chance yet.
Alive == outcomes \cap {"created", "installed", "returned"} # {}

\* The watchdog never kills a living application: it exits only when, since
\* the previous preFrame began, no callback returned and no delegate was
\* installed, even by a callback that then raised an error.
OnlyTheDeadBailOut == [][BailOut => ~Alive]_vars

\* ... and it does kill a dead one: no frame is entered after a frame without
\* any sign of life.
DeadDoNotLinger == [][PreFrame => Alive]_vars

\* The deltas the scripts are given add up to the head's time, give or take its
\* backward jumps: no interval is counted twice and none is lost, even across
\* a preFrame that failed.
DeltasAddUp == added = headTime

\* The watchdog is exact: it ends an application when, and only when, a whole
\* frame went by without a sign of life (OsgAppProxy.cpp:194).
WatchdogExact == OnlyTheDeadBailOut /\ DeadDoNotLinger
=============================================================================
