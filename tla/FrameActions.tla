----------------------------- MODULE FrameActions -----------------------------
(***************************************************************************)
(* Frame actions (vrjugglua/lua/Actions.lua): coroutines that a delegate's *)
(* latePreFrame resumes once per frame, in updateFrameActions, until each  *)
(* waits for the next redraw.  While an update is under way the actions    *)
(* themselves add actions and remove each other.                           *)
(*                                                                         *)
(* Kernel thread only.  The rest of a frame (chunks of the run buffer, the *)
(* other callbacks of the delegate) adds and removes actions too.          *)
(***************************************************************************)
EXTENDS Integers, Sequences, SequencesExt

CONSTANTS
    Action,     \* the coroutines, each created at most once
    NoAction,   \* no coroutine is running
    FrameBound,  \* bound: frames explored
    MaxDelta,   \* bound: the largest time delta of a frame
    MaxWait     \* bound: redraws or seconds an action waits for

ASSUME FrameActionsAssumption ==
    /\ NoAction \notin Action
    /\ FrameBound \in Nat
    /\ MaxDelta \in Nat
    /\ MaxWait \in Nat \ {0}

VARIABLES
    list,       \* Actions._frameActions
    thisTime,   \* the list updateFrameActions took over
    pos,        \* how many of thisTime have been resumed
    running,    \* the coroutine whose body is running
    stage,      \* where the frame is: "before", "in" or "after" the update
    status,     \* of each coroutine: "unborn", "suspended", "running", "dead"
    wait,       \* what a suspended coroutine still waits for
    timeDelta,  \* appProxy:getTimeDelta()
    frame,      \* history: frames begun
    now,        \* history: the head's time, the sum of the deltas
    runs,       \* history: how often an action was resumed in this frame
    fresh,      \* history: actions added during this frame's update
    due,        \* history: the frame or the time an action waits for
    gone,       \* history: actions removeFrameAction found on the list
    missed      \* history: live actions it was called for and did not find

timeVars == <<timeDelta, frame, now>>
historyVars == <<runs, fresh, due, gone, missed>>
actionVars == <<list, thisTime, pos, running, stage, status, wait, timeVars, historyVars>>

TimeBound == FrameBound * MaxDelta

Wait(kind, left) == [kind |-> kind, left |-> left]

ActionsInit ==
    /\ list = <<>>
    /\ thisTime = <<>>
    /\ pos = 0
    /\ running = NoAction
    /\ stage = "after"
    /\ status = [a \in Action |-> "unborn"]
    /\ wait = [a \in Action |-> Wait("redraws", 1)]
    /\ timeDelta = -1
    /\ frame = 0
    /\ now = 0
    /\ runs = [a \in Action |-> 0]
    /\ fresh = {}
    /\ due = [a \in Action |-> 0]
    /\ gone = {}
    /\ missed = {}

-----------------------------------------------------------------------------
(* What any script may do, outside an update or in the body of an action.   *)

CodeRuns == stage # "in" \/ running # NoAction

\* addFrameAction: a new coroutine, resumed first by the next update.
AddFrameAction(a) ==
    /\ CodeRuns
    /\ status[a] = "unborn"
    /\ status' = [status EXCEPT ![a] = "suspended"]
    /\ list' = Append(list, a)
    /\ fresh' = IF stage = "in" THEN fresh \cup {a} ELSE fresh
    /\ UNCHANGED <<thisTime, pos, running, stage, wait, timeVars, runs, due, gone, missed>>

\* Mutant of Without: table.remove without a position drops the last one.
MutWithout(a) == IF list = <<>> THEN list ELSE Front(list)

\* The last place of an action on the list; the search goes on past a match.
PlaceOf(a) == CHOOSE i \in DOMAIN list : list[i] = a /\ \A j \in (i + 1)..Len(list) : list[j] # a

Without(a) == IF a \in Range(list) THEN RemoveAt(list, PlaceOf(a)) ELSE list

\* removeFrameAction: takes the action off the list, if it is there.
RemoveFrameAction(a) ==
    /\ CodeRuns
    /\ status[a] # "unborn"
    /\ list' = Without(a)
    /\ gone' = gone \cup ({a} \cap Range(list))
    /\ missed' = missed \cup {b \in {a} : status[b] # "dead" /\ b \notin Range(list)}
    /\ UNCHANGED <<thisTime, pos, running, stage, status, wait, timeVars,
                   runs, fresh, due>>

-----------------------------------------------------------------------------
(* The frame: preFrame sets the time delta, some latePreFrame updates.      *)

BeginFrame ==
    /\ stage = "after"
    /\ frame < FrameBound
    /\ stage' = "before"
    /\ frame' = frame + 1
    /\ \E d \in 0..MaxDelta : timeDelta' = d /\ now' = now + d
    /\ runs' = [a \in Action |-> 0]
    /\ fresh' = {}
    /\ UNCHANGED <<list, thisTime, pos, running, status, wait, due, gone, missed>>

\* Mutant of UpdateBegins: the list is iterated but not replaced.
MutUpdateBegins ==
    /\ stage = "before"
    /\ stage' = "in"
    /\ thisTime' = list
    /\ pos' = 0
    /\ UNCHANGED <<list, running, status, wait, timeVars, historyVars>>

\* updateFrameActions takes the list over and starts an empty one.
UpdateBegins ==
    /\ stage = "before"
    /\ stage' = "in"
    /\ thisTime' = list
    /\ list' = <<>>
    /\ pos' = 0
    /\ UNCHANGED <<running, status, wait, timeVars, historyVars>>

\* How much of its wait an action resumed with this frame's delta has left: a
\* loop around coroutine.yield() in waitForRedraw and waitSeconds.
LeftOf(a) == wait[a].left - (IF wait[a].kind = "redraws" THEN 1 ELSE timeDelta)

\* Mutant of Reinsert: suspended actions go to the front.
MutReinsert(a) == <<a>> \o list

\* A suspended coroutine goes on the new list.
Reinsert(a) == Append(list, a)

\* coroutine.resume(v, dt): the body goes on if its wait is over, and otherwise
\* the coroutine yields at once.
Resume(a) ==
    /\ stage = "in"
    /\ running = NoAction
    /\ pos < Len(thisTime)
    /\ a = thisTime[pos + 1]
    /\ pos' = pos + 1
    /\ runs' = [runs EXCEPT ![a] = @ + 1]
    /\ IF LeftOf(a) <= 0
       THEN /\ running' = a
            /\ status' = [status EXCEPT ![a] = "running"]
            /\ UNCHANGED <<list, wait>>
       ELSE /\ wait' = [wait EXCEPT ![a].left = LeftOf(a)]
            /\ list' = Reinsert(a)
            /\ UNCHANGED <<running, status>>
    /\ UNCHANGED <<thisTime, stage, timeVars, fresh, due, gone, missed>>

Yields(a, w) ==
    /\ status' = [status EXCEPT ![a] = "suspended"]
    /\ wait' = [wait EXCEPT ![a] = w]
    /\ list' = Reinsert(a)
    /\ running' = NoAction
    /\ UNCHANGED <<thisTime, pos, stage, timeVars, runs, fresh, gone, missed>>

\* waitForRedraw(n), of the action that runs.
WaitForRedraw(a, n) ==
    /\ running = a
    /\ Yields(a, Wait("redraws", n))
    /\ due' = [due EXCEPT ![a] = frame + n]

\* Mutant of WaitSeconds: this frame's delta is counted as waited for.
MutWaitSeconds(a, s) ==
    /\ running = a
    /\ Yields(a, Wait("seconds", s - timeDelta))
    /\ due' = [due EXCEPT ![a] = now + s]

\* waitSeconds(s), with s > 0; waitSeconds(0) does not yield.
WaitSeconds(a, s) ==
    /\ running = a
    /\ Yields(a, Wait("seconds", s))
    /\ due' = [due EXCEPT ![a] = now + s]

\* Mutant of Ends: a dead coroutine is kept like any other.
MutEnds(a) ==
    /\ running = a
    /\ status' = [status EXCEPT ![a] = "dead"]
    /\ running' = NoAction
    /\ list' = Reinsert(a)
    /\ missed' = missed \ {a}
    /\ UNCHANGED <<thisTime, pos, stage, wait, timeVars, runs, fresh, due, gone>>

\* The body returns or raises an error: the coroutine is dead and not kept.
Ends(a) ==
    /\ running = a
    /\ status' = [status EXCEPT ![a] = "dead"]
    /\ running' = NoAction
    /\ missed' = missed \ {a}
    /\ UNCHANGED <<list, thisTime, pos, stage, wait, timeVars, runs, fresh, due, gone>>

\* Mutant of UpdateEnds: the survivors replace the list, additions included.
MutUpdateEnds ==
    /\ stage = "in"
    /\ running = NoAction
    /\ pos = Len(thisTime)
    /\ stage' = "after"
    /\ list' = SelectSeq(thisTime, LAMBDA a : status[a] # "dead")
    /\ UNCHANGED <<thisTime, pos, running, status, wait, timeVars, historyVars>>

UpdateEnds ==
    /\ stage = "in"
    /\ running = NoAction
    /\ pos = Len(thisTime)
    /\ stage' = "after"
    /\ UNCHANGED <<list, thisTime, pos, running, status, wait, timeVars, historyVars>>

-----------------------------------------------------------------------------
ActionsNext ==
    \/ BeginFrame
    \/ UpdateBegins
    \/ UpdateEnds
    \/ \E a \in Action :
        \/ AddFrameAction(a)
        \/ RemoveFrameAction(a)
        \/ Resume(a)
        \/ \E n \in 1..MaxWait : WaitForRedraw(a, n)
        \/ \E s \in 1..MaxWait : WaitSeconds(a, s)
        \/ Ends(a)

ActionsSpec == ActionsInit /\ [][ActionsNext]_actionVars

-----------------------------------------------------------------------------
\* The actions updateFrameActions is yet to resume.
Ahead == IF stage = "in" THEN SubSeq(thisTime, pos + 1, Len(thisTime)) ELSE <<>>

Known == Range(list) \cup Range(Ahead)

ActionsTypeOK ==
    /\ Range(list) \subseteq Action
    /\ Range(thisTime) \subseteq Action
    /\ pos \in 0..Len(thisTime)
    /\ running \in Action \cup {NoAction}
    /\ stage \in {"before", "in", "after"}
    /\ status \in [Action -> {"unborn", "suspended", "running", "dead"}]
    /\ wait \in [Action -> [kind : {"redraws", "seconds"}, left : 1..MaxWait]]
    /\ timeDelta \in -1..MaxDelta
    /\ frame \in 0..FrameBound
    /\ now \in 0..TimeBound
    /\ runs \in [Action -> 0..FrameBound]
    /\ fresh \subseteq Action
    /\ due \in [Action -> 0..(TimeBound + FrameBound + MaxWait)]
    /\ gone \subseteq Action
    /\ missed \subseteq Action

\* Additions and removals made by the actions while the list is being replaced
\* leave no coroutine on it twice and none on it that is dead or running.
ListedOnce ==
    /\ IsInjective(list \o Ahead)
    /\ \A a \in Known : status[a] = "suspended"

\* No action is lost while the list is being replaced: unless it ended, or a script
\* wanted it removed, it is on the list or among those the update is yet to resume.
NoneLost ==
    \A a \in Action \ (gone \cup missed) : status[a] = "suspended" => a \in Known

\* Each action on the list has been resumed exactly once by the update that is
\* over; one that was added during the update waits for the next.
OncePerFrame ==
    stage = "after" /\ frame > 0 =>
        \A a \in Range(thisTime) \cup fresh :
            runs[a] = IF a \in fresh THEN 0 ELSE 1

\* Two actions that go on are resumed in the same order in the next frame.
OrderKept ==
    \A i, j \in DOMAIN list, k, l \in DOMAIN thisTime :
        stage = "in" /\ list[i] = thisTime[k] /\ list[j] = thisTime[l] /\ i < j
            => k < l

\* An action that waits runs on neither too early nor a frame too late.
WaitsExactly ==
    \A a \in Action :
        LET clock == IF wait[a].kind = "redraws" THEN frame ELSE now
        IN  /\ status[a] = "running" => clock >= due[a]
            /\ stage = "after" /\ a \in Range(list) /\ a \in Range(thisTime)
                   => clock < due[a]

\* An action that was taken off the list never runs again, also when that was in
\* the middle of the update that had just put it there.
FoundIsGone == gone \cap (Known \cup {running}) = {}

\* The list holds every action that is to go on and none twice, none that ended
\* and none that removeFrameAction took off it: whatever the actions add and
\* remove while the list they are on is being replaced.
ListExact == ListedOnce /\ NoneLost /\ FoundIsGone

\* "Remove a frame action, stopping it from executing" (Actions.lua:71): once a
\* script called removeFrameAction for an action, it is not resumed again.  The
\* code does not keep this promise: during an update it searches only the new list
\* (Actions.lua:75), where neither the running action nor one yet to be resumed is.
RemovedIsStopped ==
    [][\A a \in Action : Resume(a) => a \notin gone \cup missed]_actionVars

\* An update resumes each action of its list once, and in the order of the update
\* before, although survivors are put back behind what was added in between.
OnceInOrder == OncePerFrame /\ OrderKept
=============================================================================
