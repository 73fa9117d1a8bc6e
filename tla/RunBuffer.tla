------------------------------ MODULE RunBuffer -------------------------------
(***************************************************************************)
(* LuaRunBuffer (vrjugglua/LuaRunBuffer.cpp): a circular buffer of script  *)
(* chunks between the threads that type or load them (console, GUI,        *)
(* scripts) and the kernel thread, which runs them once per frame.  One    *)
(* vpr::CondVar is both the lock and the condition "there is space".       *)
(*                                                                         *)
(* Every thread may call addString; only the Consumer calls runBuffer, and *)
(* the chunk it is running, or a frame action between two calls, may       *)
(* itself call addString on the same buffer.                               *)
(*                                                                         *)
(* A chunk is identified by its thread and the number of that thread's     *)
(* call, <<t, k>>: the text is irrelevant, a dofile chunk of addFile is a  *)
(* chunk like any other.  The script is assumed valid (initLua was called  *)
(* by SynchronizedRunBuffer::init before the buffer is reachable).         *)
(***************************************************************************)
EXTENDS Naturals, Sequences

CONSTANTS
    Producers,      \* threads that only add
    Consumer,       \* the kernel thread: runs the buffer, may add as well
    NoThread,       \* nobody
    Capacity,       \* _buf.capacity()
    MaxAdds,        \* bound: addString calls per thread
    ProducerModes,  \* values of `blocking` the producers pass
    ConsumerModes   \* values of `blocking` the consumer passes

Thread == Producers \cup {Consumer}

ASSUME RunBufferAssumption ==
    /\ Consumer \notin Producers
    /\ NoThread \notin Thread
    /\ Capacity \in Nat \ {0}
    /\ MaxAdds \in Nat
    /\ ProducerModes \subseteq BOOLEAN
    /\ ConsumerModes \subseteq BOOLEAN

Chunk == Thread \X (1..MaxAdds)

VARIABLES
    buf,        \* _buf, oldest chunk first
    lock,       \* holder of the CondVar's mutex, or NoThread
    waitSet,    \* threads asleep in _cond.wait()
    pc,         \* where each thread is in addString; "idle" outside it
    calls,      \* calls[t]: addString calls t has made so far
    blocking,   \* blocking[t]: the `blocking` argument of t's current call
    frame,      \* where the Consumer is in runBuffer; "out" outside it
    i, n,       \* locals of runBuffer
    current,    \* <<c>> while runString(c) executes, else <<>>
    accepted,   \* history: chunks whose addString returned true
    executed,   \* history: chunks runString was called with and returned from
    limit       \* history: Len(accepted) when runBuffer read _buf.size()

addVars  == <<pc, calls, blocking, waitSet, accepted>>
runVars  == <<frame, i, n, current, executed, limit>>
vars == <<buf, lock, addVars, runVars>>

AddPoints == {"idle", "acquire", "check", "push", "wait"}
RunPoints == {"out", "size", "loop", "try", "pop", "run"}

Modes(t) == IF t = Consumer THEN ConsumerModes ELSE ProducerModes

\* The chunk thread t is adding in its current call.
Arg(t) == <<t, calls[t]>>

\* _full()
Full == Len(buf) = Capacity

\* boost::circular_buffer::push_back: a full buffer loses its oldest element.
PushBack(b, c) ==
    IF Len(b) = Capacity THEN Append(Tail(b), c) ELSE Append(b, c)

Init ==
    /\ buf = <<>>
    /\ lock = NoThread
    /\ waitSet = {}
    /\ pc = [t \in Thread |-> "idle"]
    /\ calls = [t \in Thread |-> 0]
    /\ blocking = [t \in Thread |-> FALSE]
    /\ frame = "out"
    /\ i = 0
    /\ n = 0
    /\ current = <<>>
    /\ accepted = <<>>
    /\ executed = <<>>
    /\ limit = 0

-----------------------------------------------------------------------------
(* addString *)

\* Thread t may enter addString: the consumer only from the chunk it runs or
\* from frame code outside runBuffer.
MayCall(t) ==
    /\ pc[t] = "idle"
    /\ calls[t] < MaxAdds
    /\ t = Consumer => frame \in {"out", "run"}

\* Guard(_cond, false) finds the lock free.
TryAcquire(t) ==
    /\ MayCall(t)
    /\ FALSE \in Modes(t)
    /\ lock = NoThread
    /\ lock' = t
    /\ calls' = [calls EXCEPT ![t] = @ + 1]
    /\ blocking' = [blocking EXCEPT ![t] = FALSE]
    /\ pc' = [pc EXCEPT ![t] = "check"]
    /\ UNCHANGED <<buf, waitSet, accepted, runVars>>

\* Guard(_cond, false) finds the lock taken: addString returns false.
TryFails(t) ==
    /\ MayCall(t)
    /\ FALSE \in Modes(t)
    /\ lock # NoThread
    /\ calls' = [calls EXCEPT ![t] = @ + 1]
    /\ blocking' = [blocking EXCEPT ![t] = FALSE]
    /\ UNCHANGED <<buf, lock, waitSet, pc, accepted, runVars>>

\* Guard(_cond, true): the call, and the lock once it is free.
CallBlocking(t) ==
    /\ MayCall(t)
    /\ TRUE \in Modes(t)
    /\ calls' = [calls EXCEPT ![t] = @ + 1]
    /\ blocking' = [blocking EXCEPT ![t] = TRUE]
    /\ pc' = [pc EXCEPT ![t] = "acquire"]
    /\ UNCHANGED <<buf, lock, waitSet, accepted, runVars>>

Acquire(t) ==
    /\ pc[t] = "acquire"
    /\ lock = NoThread
    /\ lock' = t
    /\ pc' = [pc EXCEPT ![t] = "check"]
    /\ UNCHANGED <<buf, waitSet, calls, blocking, accepted, runVars>>

\* Mutant of SeesSpace: the test of _full() is forgotten.
MutSeesSpace(t) ==
    /\ pc[t] = "check"
    /\ pc' = [pc EXCEPT ![t] = "push"]
    /\ UNCHANGED <<buf, lock, waitSet, calls, blocking, accepted, runVars>>

SeesSpace(t) ==
    /\ pc[t] = "check"
    /\ ~Full
    /\ pc' = [pc EXCEPT ![t] = "push"]
    /\ UNCHANGED <<buf, lock, waitSet, calls, blocking, accepted, runVars>>

\* Full and not blocking: return false, the guard unlocks.
BailOut(t) ==
    /\ pc[t] = "check"
    /\ Full
    /\ ~blocking[t]
    /\ lock' = NoThread
    /\ pc' = [pc EXCEPT ![t] = "idle"]
    /\ UNCHANGED <<buf, waitSet, calls, blocking, accepted, runVars>>

\* Full and blocking: _cond.wait() unlocks and sleeps in one step.
Wait(t) ==
    /\ pc[t] = "check"
    /\ Full
    /\ blocking[t]
    /\ lock' = NoThread
    /\ waitSet' = waitSet \cup {t}
    /\ pc' = [pc EXCEPT ![t] = "wait"]
    /\ UNCHANGED <<buf, calls, blocking, accepted, runVars>>

\* Mutant of Wake: `if (_full())` instead of `while (_full())`.
MutWake(t) ==
    /\ pc[t] = "wait"
    /\ t \notin waitSet
    /\ lock = NoThread
    /\ lock' = t
    /\ pc' = [pc EXCEPT ![t] = "push"]
    /\ UNCHANGED <<buf, waitSet, calls, blocking, accepted, runVars>>

\* A woken thread takes the lock back and re-tests `while (_full())`.
Wake(t) ==
    /\ pc[t] = "wait"
    /\ t \notin waitSet
    /\ lock = NoThread
    /\ lock' = t
    /\ pc' = [pc EXCEPT ![t] = "check"]
    /\ UNCHANGED <<buf, waitSet, calls, blocking, accepted, runVars>>

\* A condition variable may wake a waiter without a signal.
SpuriousWakeup(t) ==
    /\ t \in waitSet
    /\ waitSet' = waitSet \ {t}
    /\ UNCHANGED <<buf, lock, pc, calls, blocking, accepted, runVars>>

\* _buf.push_back(str); return true.
Push(t) ==
    /\ pc[t] = "push"
    /\ buf' = PushBack(buf, Arg(t))
    /\ accepted' = Append(accepted, Arg(t))
    /\ lock' = NoThread
    /\ pc' = [pc EXCEPT ![t] = "idle"]
    /\ UNCHANGED <<waitSet, calls, blocking, runVars>>

AddString(t) ==
    \/ TryAcquire(t)
    \/ TryFails(t)
    \/ CallBlocking(t)
    \/ Acquire(t)
    \/ SeesSpace(t)
    \/ BailOut(t)
    \/ Wait(t)
    \/ Wake(t)
    \/ Push(t)

-----------------------------------------------------------------------------
(* runBuffer, called by the kernel thread from latePreFrame.  _empty() and  *)
(* _buf.size() are read without the lock.                                   *)

\* runBuffer's own steps only happen while the thread is not inside addString.
ConsumerAt(point) ==
    /\ frame = point
    /\ pc[Consumer] = "idle"

\* Mutant of EmptyTest: the buffer is only flushed once it is full.
MutEmptyTest ==
    /\ ConsumerAt("out")
    /\ Full
    /\ frame' = "size"
    /\ UNCHANGED <<buf, lock, addVars, i, n, current, executed, limit>>

\* if (_empty()) return 0.
EmptyTest ==
    /\ ConsumerAt("out")
    /\ buf # <<>>
    /\ frame' = "size"
    /\ UNCHANGED <<buf, lock, addVars, i, n, current, executed, limit>>

ReadSize ==
    /\ ConsumerAt("size")
    /\ n' = Len(buf)
    /\ i' = 0
    /\ limit' = Len(accepted)
    /\ frame' = "loop"
    /\ UNCHANGED <<buf, lock, addVars, current, executed>>

\* Mutant of LoopBody: `while (!_buf.empty())`.
MutLoopBodyAll ==
    /\ ConsumerAt("loop")
    /\ buf # <<>>
    /\ frame' = "try"
    /\ UNCHANGED <<buf, lock, addVars, i, n, current, executed, limit>>

\* for (; i < n && !_buf.empty(); ) enters the body ...
LoopBody ==
    /\ ConsumerAt("loop")
    /\ i < n
    /\ buf # <<>>
    /\ frame' = "try"
    /\ UNCHANGED <<buf, lock, addVars, i, n, current, executed, limit>>

\* ... or ends, and runBuffer returns.
LoopExit ==
    /\ ConsumerAt("loop")
    /\ ~(i < n /\ buf # <<>>)
    /\ frame' = "out"
    /\ UNCHANGED <<buf, lock, addVars, i, n, current, executed, limit>>

\* Guard(_cond, _runBlock) with _runBlock false.
LockForPop ==
    /\ ConsumerAt("try")
    /\ lock = NoThread
    /\ lock' = Consumer
    /\ frame' = "pop"
    /\ UNCHANGED <<buf, addVars, i, n, current, executed, limit>>

\* "Could not acquire buffer lock for consuming, done for this frame..."
GiveUpFrame ==
    /\ ConsumerAt("try")
    /\ lock # NoThread
    /\ frame' = "out"
    /\ UNCHANGED <<buf, lock, addVars, i, n, current, executed, limit>>

\* Mutant of Signal: nobody is told that there is space.
MutSignal == UNCHANGED waitSet

\* _cond.signal(): one waiter, if any, is woken.
Signal ==
    \/ waitSet = {} /\ UNCHANGED waitSet
    \/ \E w \in waitSet : waitSet' = waitSet \ {w}

\* front, pop_front, signal, release.
Pop ==
    /\ ConsumerAt("pop")
    /\ current' = <<Head(buf)>>
    /\ buf' = Tail(buf)
    /\ Signal
    /\ lock' = NoThread
    /\ frame' = "run"
    /\ UNCHANGED <<pc, calls, blocking, accepted, i, n, executed, limit>>

\* runString(current) returns, with an error or not: the loop goes on.
RunReturns ==
    /\ ConsumerAt("run")
    /\ executed' = executed \o current
    /\ current' = <<>>
    /\ i' = i + 1
    /\ frame' = "loop"
    /\ UNCHANGED <<buf, lock, addVars, n, limit>>

RunBufferStep ==
    \/ EmptyTest
    \/ ReadSize
    \/ LoopBody
    \/ LoopExit
    \/ LockForPop
    \/ GiveUpFrame
    \/ Pop
    \/ RunReturns

-----------------------------------------------------------------------------
Next ==
    \/ \E t \in Thread : AddString(t) \/ SpuriousWakeup(t)
    \/ RunBufferStep

Spec == Init /\ [][Next]_vars

\* The steps of a call already begun; a thread is never obliged to call.
FinishAdd(t) ==
    \/ Acquire(t)
    \/ SeesSpace(t)
    \/ BailOut(t)
    \/ Wait(t)
    \/ Wake(t)
    \/ Push(t)

\* Threads are scheduled, the kernel calls runBuffer in every frame, and the
\* condition variable does not wake threads for nothing for ever.
Fairness ==
    /\ <>[][~\E t \in Thread : SpuriousWakeup(t)]_vars
    /\ \A t \in Thread : WF_vars(FinishAdd(t))
    /\ WF_vars(RunBufferStep)

FairSpec == Spec /\ Fairness

-----------------------------------------------------------------------------
TypeOK ==
    /\ buf \in Seq(Chunk)
    /\ lock \in Thread \cup {NoThread}
    /\ waitSet \subseteq Thread
    /\ pc \in [Thread -> AddPoints]
    /\ calls \in [Thread -> 0..MaxAdds]
    /\ blocking \in [Thread -> BOOLEAN]
    /\ frame \in RunPoints
    /\ i \in Nat
    /\ n \in Nat
    /\ current \in Seq(Chunk)
    /\ accepted \in Seq(Chunk)
    /\ executed \in Seq(Chunk)
    /\ limit \in Nat

\* Thread t is between a successful acquire and the matching release.
Holds(t) ==
    \/ pc[t] \in {"check", "push"}
    \/ t = Consumer /\ frame = "pop"

\* Every accepted chunk is executed, executing or pending, in the order it was
\* accepted: the circular buffer never overwrites one, whatever the threads do.
AcceptedInOrder == accepted = executed \o current \o buf

\* front() and pop_front() are only reached with something in the buffer,
\* although the emptiness test is made without the lock.
PopNeverEmpty == frame = "pop" => buf # <<>>

\* One call of runBuffer runs only what was in the buffer when it read the
\* size: a chunk that adds itself again waits for the next frame, so a frame
\* always ends.
FrameBounded ==
    frame \notin {"out", "size"} => Len(executed \o current) <= limit

\* The buffer never holds more than its capacity, no thread is asleep while
\* it holds the lock and two threads never hold it together.
MutualExclusion ==
    /\ Len(buf) <= Capacity
    /\ \A t \in Thread : Holds(t) <=> lock = t

\* No wake-up is lost: while a thread sleeps for space, either the buffer still
\* holds a chunk, whose pop will signal, or a thread that is awake is about to
\* put one in.
NoLostWakeup ==
    waitSet # {} =>
        \/ buf # <<>>
        \/ \E t \in Thread \ waitSet : pc[t] \in {"wait", "check", "push"}

Safety ==
    /\ AcceptedInOrder
    /\ PopNeverEmpty
    /\ FrameBounded
    /\ MutualExclusion
    /\ NoLostWakeup

\* LuaRunBuffer implements the bounded FIFO of ChunkQueue.
Queue == INSTANCE ChunkQueue WITH pending <- buf
QueueSpec == Queue!Spec

\* An accepted chunk is executed in some later frame.
AcceptedIsExecuted ==
    \A t \in Thread : \A k \in 1..MaxAdds :
        (\E j \in DOMAIN accepted : accepted[j] = <<t, k>>)
            ~> (\E j \in DOMAIN executed : executed[j] = <<t, k>>)

\* A producer's addString returns, even a blocking one that found the buffer
\* full, unless the consumer has put itself to sleep on its own buffer.
AddReturns ==
    \A p \in Producers :
        pc[p] # "idle" ~> (pc[p] = "idle" \/ pc[Consumer] = "wait")

\* The consumer's own addString returns.
ConsumerAddReturns == pc[Consumer] # "idle" ~> pc[Consumer] = "idle"

\* Nobody is starved: an accepted chunk is executed, and a producer that waits for
\* space gets it, although one signal wakes one sleeper and a try-lock may fail.
Progress == AcceptedIsExecuted /\ AddReturns
=============================================================================
