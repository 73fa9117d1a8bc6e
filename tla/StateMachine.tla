----------------------------- MODULE StateMachine ------------------------------
(***************************************************************************)
(* The state machine delegate (StateMachine.lua) on the nodes of a         *)
(* cluster.  Every frame a node updates its current state and then goes    *)
(* through the events of that state, in the order of pairs(), which is no  *)
(* order; an event that has occurred runs its handler, which moves to      *)
(* another state.  A move to nil stops the kernel.                         *)
(*                                                                         *)
(* The nodes run the same script on the same data: which events occur in a *)
(* frame, and what update() does, is the same everywhere.                  *)
(***************************************************************************)
EXTENDS Naturals, FiniteSets

CONSTANTS
    Replicas,
    States,     \* the states of the script
    Nil,        \* no state
    Events,     \* the functions that are keys of the tables "events"
    EventsOf,   \* EventsOf[s]: a function from events to the states they lead to
    Chain       \* Chain[s]: where the enter callback of s moves on to, or s

ASSUME StateMachineAssumption ==
    /\ Replicas # {} /\ Nil \notin States /\ IsFiniteSet(Events)
    /\ EventsOf \in [States -> UNION {[E -> States \cup {Nil}] : E \in SUBSET Events}]
    /\ Chain \in [States -> States \cup {Nil}]
    /\ \A s \in States : Chain[s] \in {s, Nil} \/ Chain[Chain[s]] = Chain[s]

VARIABLES
    occurred,   \* the events that have occurred in this frame
    step,       \* step[n]: "init", "preFrame", "events", "latePreFrame", "exited"
    state,      \* state[n]: appDelegate.state
    table,      \* table[n]: the state whose events node n goes through
    toCome,     \* toCome[n]: the events it has not come to
    inside,     \* inside[n]: states entered and not left
    stopAsked,  \* stopAsked[n]: vrjKernel.stop() was called
    stale,      \* history: nodes that ran a handler of a state they had left
    tied        \* history: two events of one state have occurred in one frame

machineVars == <<occurred, step, state, table, toCome, inside, stopAsked, stale, tied>>

Tables(s) == IF s = Nil THEN {} ELSE DOMAIN EventsOf[s]

MachineInit ==
    /\ occurred = {}
    /\ step = [n \in Replicas |-> "init"]
    /\ \E start \in States : state = [n \in Replicas |-> start]
    /\ table = [n \in Replicas |-> Nil]
    /\ toCome = [n \in Replicas |-> {}]
    /\ inside = [n \in Replicas |-> {}]
    /\ stopAsked = [n \in Replicas |-> FALSE]
    /\ stale = {}
    /\ tied = FALSE

\* Where a node is once enter callbacks that move on are done.
Settled(s) == IF s = Nil THEN Nil ELSE Chain[s]

\* Mutant of MoveTo: a move to nil only stops the kernel.
MutMoveTo(n, s) ==
    IF s = Nil
    THEN /\ stopAsked' = [stopAsked EXCEPT ![n] = TRUE]
         /\ UNCHANGED <<state, inside>>
    ELSE /\ state' = [state EXCEPT ![n] = Settled(s)]
         /\ inside' = [inside EXCEPT ![n] = (@ \ {state[n]}) \cup ({Settled(s)} \ {Nil})]
         /\ UNCHANGED stopAsked

\* Mutant of MoveTo: the leave callback is forgotten.
MutMoveToKeeps(n, s) ==
    /\ state' = [state EXCEPT ![n] = Settled(s)]
    /\ inside' = [inside EXCEPT ![n] = @ \cup ({Settled(s)} \ {Nil})]
    /\ stopAsked' = [stopAsked EXCEPT ![n] = @ \/ Settled(s) = Nil]

\* moveDirectlyToState: leave the old state, enter the new one, which may move
\* on, and stop the kernel on the way to nil.
MoveTo(n, s) ==
    /\ state' = [state EXCEPT ![n] = Settled(s)]
    /\ inside' = [inside EXCEPT ![n] = (@ \ {state[n]}) \cup ({Settled(s)} \ {Nil})]
    /\ stopAsked' = [stopAsked EXCEPT ![n] = @ \/ Settled(s) = Nil]

\* initScene: the starting state is entered, without moveDirectlyToState.
InitScene(n) ==
    /\ step[n] = "init"
    /\ step' = [step EXCEPT ![n] = "latePreFrame"]
    /\ state' = [state EXCEPT ![n] = Settled(@)]
    /\ inside' = [inside EXCEPT ![n] = {Settled(state[n])} \ {Nil}]
    /\ stopAsked' = [stopAsked EXCEPT ![n] = Settled(state[n]) = Nil]
    /\ UNCHANGED <<occurred, table, toCome, stale, tied>>

Running == {n \in Replicas : step[n] # "exited"}

\* The swap barrier: every node that runs has come to the end of its frame.
NextFrame ==
    /\ Running # {}
    /\ \A n \in Running : step[n] = "latePreFrame"
    /\ occurred' \in SUBSET Events
    /\ step' = [n \in Replicas |-> IF n \in Running THEN "preFrame" ELSE step[n]]
    /\ UNCHANGED <<state, table, toCome, inside, stopAsked, stale, tied>>

\* Mutant of BeginEvents: the events of the state are looked up through a table
\* that is kept from the first frame.
MutBeginEvents(n) ==
    /\ step[n] = "preFrame"
    /\ step' = [step EXCEPT ![n] = IF state[n] = Nil THEN "latePreFrame" ELSE "events"]
    /\ table' = [table EXCEPT ![n] = IF @ = Nil THEN state[n] ELSE @]
    /\ toCome' = [toCome EXCEPT ![n] = Tables(table'[n])]
    /\ tied' = (tied \/ Cardinality(Tables(table'[n]) \cap occurred) > 1)
    /\ UNCHANGED <<occurred, state, inside, stopAsked, stale>>

\* preFrame up to the loop: update() has nothing to do with the state here; with
\* state nil it raises an error and the rest of preFrame is skipped.
BeginEvents(n) ==
    /\ step[n] = "preFrame"
    /\ step' = [step EXCEPT ![n] = IF state[n] = Nil THEN "latePreFrame" ELSE "events"]
    /\ table' = [table EXCEPT ![n] = state[n]]
    /\ toCome' = [toCome EXCEPT ![n] = Tables(state[n])]
    /\ tied' = (tied \/ Cardinality(Tables(state[n]) \cap occurred) > 1)
    /\ UNCHANGED <<occurred, state, inside, stopAsked, stale>>

\* Mutant of Handle: after a move the loop goes on with the new state's events.
MutHandle(n) ==
    \E e \in toCome[n] :
        IF e \in occurred
        THEN /\ MoveTo(n, EventsOf[table[n]][e])
             /\ table' = [table EXCEPT ![n] = state'[n]]
             /\ toCome' = [toCome EXCEPT ![n] = Tables(state'[n]) \ {e}]
             /\ UNCHANGED stale
        ELSE /\ toCome' = [toCome EXCEPT ![n] = @ \ {e}]
             /\ UNCHANGED <<state, table, inside, stopAsked, stale>>

\* One round of the loop, over the events of the state the frame began with.
Handle(n) ==
    \E e \in toCome[n] :
        /\ toCome' = [toCome EXCEPT ![n] = @ \ {e}]
        /\ IF e \in occurred
           THEN /\ MoveTo(n, EventsOf[table[n]][e])
                /\ stale' = IF state[n] # table[n] THEN stale \cup {n} ELSE stale
           ELSE UNCHANGED <<state, inside, stopAsked, stale>>
        /\ UNCHANGED table

HandleEvent(n) ==
    /\ step[n] = "events"
    /\ Handle(n)
    /\ UNCHANGED <<occurred, step, tied>>

EndEvents(n) ==
    /\ step[n] = "events"
    /\ toCome[n] = {}
    /\ step' = [step EXCEPT ![n] = "latePreFrame"]
    /\ UNCHANGED <<occurred, state, table, toCome, inside, stopAsked, stale, tied>>

\* The kernel ends at the end of a frame, some time after stop().
KernelEnds(n) ==
    /\ step[n] = "latePreFrame"
    /\ stopAsked[n]
    /\ step' = [step EXCEPT ![n] = "exited"]
    /\ UNCHANGED <<occurred, state, table, toCome, inside, stopAsked, stale, tied>>

\* What the kernel thread of a node does on its own.
ReplicaStep(n) == InitScene(n) \/ BeginEvents(n) \/ HandleEvent(n) \/ EndEvents(n)

MachineNext ==
    \/ NextFrame
    \/ \E n \in Replicas : ReplicaStep(n) \/ KernelEnds(n)

MachineSpec == MachineInit /\ [][MachineNext]_machineVars

\* The kernel threads run; the kernel obeys stop().
MachineFairSpec ==
    /\ MachineSpec
    /\ WF_machineVars(NextFrame)
    /\ \A n \in Replicas : /\ WF_machineVars(ReplicaStep(n))
                         /\ SF_machineVars(KernelEnds(n))

-----------------------------------------------------------------------------
\* The type invariant.
MachineTypeOK ==
    /\ occurred \subseteq Events
    /\ step \in [Replicas -> {"init", "preFrame", "events", "latePreFrame", "exited"}]
    /\ state \in [Replicas -> States \cup {Nil}]
    /\ table \in [Replicas -> States \cup {Nil}]
    /\ toCome \in [Replicas -> SUBSET Events]
    /\ \A n \in Replicas : toCome[n] \subseteq Tables(table[n])
    /\ inside \in [Replicas -> SUBSET States]
    /\ stopAsked \in [Replicas -> BOOLEAN]
    /\ stale \subseteq Replicas
    /\ tied \in BOOLEAN

\* Enter and leave callbacks alternate: exactly the current state has been
\* entered and not left, however many handlers run in a frame and even if enter
\* callbacks move on by themselves (StateMachine.lua:26-44).
OneStateInside ==
    \A n \in Replicas : step[n] # "init" => inside[n] = {state[n]} \ {Nil}

\* A handler of a state that has been left runs only when two events of a state
\* have occurred in the same frame: the loop goes on with the old table
\* (StateMachine.lua:13).
StaleOnlyWhenTied == stale # {} => tied

\* The nodes of a cluster are in the same state at the end of every frame, as
\* long as no two events of a state have occurred in one frame: each node's
\* pairs() has an order of its own.
NodesAgree ==
    ~tied /\ (\A n \in Running : step[n] = "latePreFrame")
    => \A m, n \in Running : state[m] = state[n]

\* A move to nil is the last one, with the same exception: a handler that comes
\* after it enters a state again while the kernel is stopping.
StopIsFinal == \A n \in Replicas : stopAsked[n] /\ ~tied => state[n] = Nil

\* A node that moves to nil ends, and so does every node of the cluster if no
\* two events of a state ever occur in one frame.
StopsTogether ==
    /\ \A n \in Replicas : stopAsked[n] ~> step[n] = "exited"
    /\ (\E n \in Replicas : stopAsked[n]) ~> (tied \/ \A n \in Replicas : step[n] = "exited")

\* All that can go wrong in the loop over the events takes two events of a state in
\* one frame: a handler of a state that was left, a state entered after the end,
\* and nodes that part (StateMachine.lua:13).
OnlyTiesGoWrong == StaleOnlyWhenTied /\ StopIsFinal /\ NodesAgree
=============================================================================
