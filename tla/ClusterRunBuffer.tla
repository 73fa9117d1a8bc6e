--------------------------- MODULE ClusterRunBuffer ---------------------------
(***************************************************************************)
(* The run buffer of a cluster: the primary's LuaRunBuffer is written to   *)
(* every secondary once per frame (application data synchronisation, the   *)
(* writeObject/readObject pair), then every node calls runBuffer in        *)
(* latePreFrame.  Only the primary takes input, from its GUI thread at any *)
(* time and from scripts on its kernel thread.                             *)
(*                                                                         *)
(* Frame of OsgAppProxy.h: preFrame, synchronisation, latePreFrame, draw,  *)
(* barrier.  The synchronisation and the barrier involve all the nodes;    *)
(* between them each node is on its own.                                   *)
(***************************************************************************)
EXTENDS Naturals, Sequences, FiniteSets, SequencesExt

CONSTANTS
    Primary,
    Secondaries,
    Capacity,       \* capacity of every node's buffer (the default, 10)
    MaxGui,         \* bound: calls of the primary's GUI thread
    MaxKernel       \* bound: chunks added by scripts on its kernel thread

Nodes == Secondaries \cup {Primary}

ASSUME ClusterAssumption ==
    /\ Primary \notin Secondaries
    /\ Capacity \in Nat \ {0}
    /\ MaxGui \in Nat
    /\ MaxKernel \in Nat

VARIABLES
    buf,        \* buf[n]: _buf on node n
    maxRun,     \* maxRun[n]: _maxRun on node n
    phase,      \* phase[n]: where node n is in the frame
    left,       \* left[n]: iterations left of runBuffer's loop, n - i
    guiHolds,   \* the primary's GUI thread holds the buffer's lock
    guiCalls,   \* addString calls of the GUI thread that got the lock
    kernelAdds, \* chunks scripts on the primary's kernel thread have added
    ranNow,     \* history: chunks node n has run in this frame
    executed    \* history: chunks node n has run, oldest first

vars == <<buf, maxRun, phase, left, guiHolds, guiCalls, kernelAdds, ranNow, executed>>

Phases == {"sync", "latePreFrame", "loop", "draw"}
Chunk == {<<"gui", k>> : k \in 1..MaxGui} \cup {<<"kernel", k>> : k \in 1..MaxKernel}

Full(n) == Len(buf[n]) = Capacity

Init ==
    /\ buf = [n \in Nodes |-> <<>>]
    /\ maxRun = [n \in Nodes |-> Capacity]
    /\ phase = [n \in Nodes |-> "sync"]
    /\ left = [n \in Nodes |-> 0]
    /\ guiHolds = FALSE
    /\ guiCalls = 0
    /\ kernelAdds = 0
    /\ ranNow = [n \in Nodes |-> 0]
    /\ executed = [n \in Nodes |-> <<>>]

-----------------------------------------------------------------------------
(* Adding on the primary, without blocking.  On a secondary addString       *)
(* returns false and changes nothing.                                       *)

\* The GUI thread acquires the lock.  The kernel thread never holds it across
\* a step of this module.
GuiLocks ==
    /\ ~guiHolds
    /\ guiCalls < MaxGui
    /\ guiHolds' = TRUE
    /\ guiCalls' = guiCalls + 1
    /\ UNCHANGED <<buf, maxRun, phase, left, kernelAdds, ranNow, executed>>

\* It adds its chunk, unless the buffer is full, and lets go of the lock.
GuiAdds ==
    /\ guiHolds
    /\ guiHolds' = FALSE
    /\ buf' = IF Full(Primary) THEN buf
              ELSE [buf EXCEPT ![Primary] = Append(@, <<"gui", guiCalls>>)]
    /\ UNCHANGED <<maxRun, phase, left, guiCalls, kernelAdds, ranNow, executed>>

\* A chunk that is running, or a frame action after runBuffer, adds a chunk.
KernelAdds ==
    /\ phase[Primary] \in {"loop", "draw"}
    /\ kernelAdds < MaxKernel
    /\ ~guiHolds
    /\ ~Full(Primary)
    /\ kernelAdds' = kernelAdds + 1
    /\ buf' = [buf EXCEPT ![Primary] = Append(@, <<"kernel", kernelAdds + 1>>)]
    /\ UNCHANGED <<maxRun, phase, left, guiHolds, guiCalls, ranNow, executed>>

-----------------------------------------------------------------------------
(* One frame.                                                               *)

\* Mutant of Received: the secondary's buffer is one chunk shorter.
MutReceived(n) == IF Full(Primary) THEN Tail(buf[Primary]) ELSE buf[Primary]

\* What a secondary's push_back loop makes of the primary's buffer: readObject
\* clears its own buffer first.
Received(n) == LET sent == buf[Primary] IN
    IF Len(sent) <= Capacity THEN sent ELSE SubSeq(sent, Len(sent) - Capacity + 1, Len(sent))

\* writeObject on the primary, readObject on the secondaries; both wait for
\* the lock.
Synchronise ==
    /\ \A n \in Nodes : phase[n] = "sync"
    /\ ~guiHolds
    /\ maxRun' = [n \in Nodes |-> Len(buf[Primary])]
    /\ buf' = [n \in Nodes |-> IF n = Primary THEN buf[n] ELSE Received(n)]
    /\ phase' = [n \in Nodes |-> "latePreFrame"]
    /\ ranNow' = [n \in Nodes |-> 0]
    /\ UNCHANGED <<left, guiHolds, guiCalls, kernelAdds, executed>>

\* runBuffer: n = _buf.size().  _maxRun plays no part.
RunBegins(n) ==
    /\ phase[n] = "latePreFrame"
    /\ left' = [left EXCEPT ![n] = Len(buf[n])]
    /\ phase' = [phase EXCEPT ![n] = "loop"]
    /\ UNCHANGED <<buf, maxRun, guiHolds, guiCalls, kernelAdds, ranNow, executed>>

\* Mutant of Contended: a secondary's console adds chunks as well.
MutContended(n) == guiHolds

\* Only the primary's lock is ever taken by another thread.
Contended(n) == n = Primary /\ guiHolds

\* Mutant of RunOne: front() without pop_front().
MutRunOne(n) ==
    /\ phase[n] = "loop"
    /\ left[n] > 0
    /\ buf[n] # <<>>
    /\ ~Contended(n)
    /\ executed' = [executed EXCEPT ![n] = Append(@, Head(buf[n]))]
    /\ ranNow' = [ranNow EXCEPT ![n] = @ + 1]
    /\ left' = [left EXCEPT ![n] = @ - 1]
    /\ UNCHANGED <<buf, maxRun, phase, guiHolds, guiCalls, kernelAdds>>

\* One iteration: pop and run the oldest chunk.
RunOne(n) ==
    /\ phase[n] = "loop"
    /\ left[n] > 0
    /\ buf[n] # <<>>
    /\ ~Contended(n)
    /\ executed' = [executed EXCEPT ![n] = Append(@, Head(buf[n]))]
    /\ ranNow' = [ranNow EXCEPT ![n] = @ + 1]
    /\ buf' = [buf EXCEPT ![n] = Tail(@)]
    /\ left' = [left EXCEPT ![n] = @ - 1]
    /\ UNCHANGED <<maxRun, phase, guiHolds, guiCalls, kernelAdds>>

\* Mutant of RunEnds: a chunk whose lock could not be had is popped all the same.
MutRunEnds(n) ==
    /\ phase[n] = "loop"
    /\ left[n] = 0 \/ buf[n] = <<>> \/ Contended(n)
    /\ phase' = [phase EXCEPT ![n] = "draw"]
    /\ left' = [left EXCEPT ![n] = 0]
    /\ buf' = IF left[n] > 0 /\ buf[n] # <<>> THEN [buf EXCEPT ![n] = Tail(@)] ELSE buf
    /\ UNCHANGED <<maxRun, guiHolds, guiCalls, kernelAdds, ranNow, executed>>

\* The loop ends, or gives up for this frame because the lock is taken.
RunEnds(n) ==
    /\ phase[n] = "loop"
    /\ left[n] = 0 \/ buf[n] = <<>> \/ Contended(n)
    /\ phase' = [phase EXCEPT ![n] = "draw"]
    /\ left' = [left EXCEPT ![n] = 0]
    /\ UNCHANGED <<buf, maxRun, guiHolds, guiCalls, kernelAdds, ranNow, executed>>

\* All have drawn: the swap barrier opens and the next frame begins.
Barrier ==
    /\ \A n \in Nodes : phase[n] = "draw"
    /\ phase' = [n \in Nodes |-> "sync"]
    /\ UNCHANGED <<buf, maxRun, left, guiHolds, guiCalls, kernelAdds, ranNow, executed>>

-----------------------------------------------------------------------------
NodeStep(n) == RunBegins(n) \/ RunOne(n) \/ RunEnds(n)

Next ==
    \/ GuiLocks
    \/ GuiAdds
    \/ KernelAdds
    \/ Synchronise
    \/ \E n \in Nodes : NodeStep(n)
    \/ Barrier

Spec == Init /\ [][Next]_vars

Fairness ==
    /\ WF_vars(GuiAdds)
    /\ WF_vars(Synchronise)
    /\ WF_vars(Barrier)
    /\ \A n \in Nodes : WF_vars(NodeStep(n))

FairSpec == Spec /\ Fairness

-----------------------------------------------------------------------------
TypeOK ==
    /\ buf \in [Nodes -> Seq(Chunk)]
    /\ \A n \in Nodes : Len(buf[n]) <= Capacity
    /\ maxRun \in [Nodes -> 0..Capacity]
    /\ phase \in [Nodes -> Phases]
    /\ left \in [Nodes -> 0..Capacity]
    /\ guiHolds \in BOOLEAN
    /\ guiCalls \in 0..MaxGui
    /\ kernelAdds \in 0..MaxKernel
    /\ ranNow \in [Nodes -> 0..Capacity]
    /\ executed \in [Nodes -> Seq(Chunk)]

AtBarrier == \A n \in Nodes : phase[n] = "draw"

\* The secondaries never diverge from each other: at every barrier they have
\* run the same chunks in the same order, whatever happens on the primary.
SecondariesAgree ==
    AtBarrier => \A s, t \in Secondaries : executed[s] = executed[t]

\* No secondary runs a chunk that the primary dropped: whatever it has run, the
\* primary has run or still has pending.
NothingOnlyOnSecondaries ==
    AtBarrier =>
        \A s \in Secondaries :
            Range(executed[s]) \subseteq Range(executed[Primary]) \cup Range(buf[Primary])

\* The primary runs a chunk at most once, although its buffer is copied out
\* frame after frame.
PrimaryRunsOnce == IsInjective(executed[Primary] \o buf[Primary])

\* As long as only scripts on the kernel thread have added chunks, the cluster
\* is in lockstep: at every barrier all the nodes have run the same chunks.
Lockstep ==
    AtBarrier /\ guiCalls = 0 => \A n \in Nodes : executed[n] = executed[Primary]

\* A chunk that was synchronised eventually runs on every node, the primary
\* included, however often its lock makes it give up a frame.
EveryoneRuns ==
    \A c \in Chunk :
        (\E s \in Secondaries : c \in Range(buf[s]))
            ~> (\A n \in Nodes : c \in Range(executed[n]))

\* "Set max # to run so we don't run anything added between data
\* synchronization and postframe."
RunsOnlySynchronised == \A n \in Nodes : ranNow[n] <= maxRun[n]

\* The nodes never part for good: the secondaries agree with each other, run
\* nothing that the primary dropped, and the primary, which gives up a frame when
\* its lock is taken and sends the same chunks again, runs nothing twice; without
\* another thread's chunks all of them run the same.
ClusterConsistent ==
    SecondariesAgree /\ NothingOnlyOnSecondaries /\ PrimaryRunsOnce /\ Lockstep

-----------------------------------------------------------------------------
(* The buffers implement a replicated log.                                  *)

\* What a node has run, followed by what it has pending.
stream(n) == executed[n] \o buf[n]

Log == INSTANCE ReplicatedLog WITH
    log  <- stream(Primary),
    copy <- [s \in Secondaries |-> stream(s)],
    ran  <- [n \in Nodes |-> Len(executed[n])]

\* readObject replaces what a secondary has pending and drops what does not fit
\* (LuaRunBuffer.cpp:112-123), and the primary pops on its own: still no chunk is
\* lost, overtaken or invented on the way, a secondary has nothing pending when it
\* is sent more, and all are sent the same.
LogSpec == Log!Spec
=============================================================================
