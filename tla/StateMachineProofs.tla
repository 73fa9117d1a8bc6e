-------------------------- MODULE StateMachineProofs ---------------------------
(***************************************************************************)
(* Theorems about StateMachine, for every number of nodes and every table  *)
(* of states and events.                                                   *)
(*                                                                         *)
(* Exactly one state is entered at a time whatever happens.  The others    *)
(* hold as long as no two events of a state have occurred in one frame:    *)
(* then a node that has moved has no occurred event left to come to        *)
(* (MovedIsDone), and every node reaches the same state from the one the   *)
(* frame began with (InStep).                                              *)
(***************************************************************************)
EXTENDS StateMachine, FiniteSetTheorems, TLAPS

Places == States \cup {Nil}

\* At most one event of the state has occurred.
Lone(s) == \A e, f \in Tables(s) \cap occurred : e = f

\* Between the events of a node's table only one has occurred, unless tied.
LoneEvent == \A n \in Replicas : step[n] = "events" /\ ~tied => Lone(table[n])

\* With state nil the loop is not reached.
LoopHasTable == \A n \in Replicas : step[n] = "events" => table[n] \in States

\* A node that has moved to another state in this frame has no other to come.
MovedIsDone ==
    \A n \in Replicas :
        step[n] = "events" /\ ~tied /\ state[n] # table[n] => toCome[n] \cap occurred = {}

IInv ==
    /\ MachineTypeOK
    /\ OneStateInside
    /\ LoneEvent
    /\ LoopHasTable
    /\ MovedIsDone
    /\ StaleOnlyWhenTied
    /\ StopIsFinal

-----------------------------------------------------------------------------
LEMMA TablesAreEvents ==
    ASSUME NEW s \in Places
    PROVE  Tables(s) \subseteq Events
  BY StateMachineAssumption DEF Places, Tables

\* Where an event of a state leads is a place.
LEMMA EventLeads ==
    ASSUME NEW s \in States, NEW e \in Tables(s)
    PROVE  EventsOf[s][e] \in Places
<1>1. s # Nil
  BY StateMachineAssumption
<1>2. PICK E \in SUBSET Events : EventsOf[s] \in [E -> Places]
  BY StateMachineAssumption DEF Places
<1>3. e \in E
  BY <1>1, <1>2 DEF Tables
<1> QED
  BY <1>2, <1>3

LEMMA SettledIsPlace ==
    ASSUME NEW s \in Places
    PROVE  Settled(s) \in Places
  BY StateMachineAssumption DEF Places, Settled

\* A set that does not have more than one element has at most one.
LEMMA NotManyIsLone ==
    ASSUME NEW s \in Places, ~(Cardinality(Tables(s) \cap occurred) > 1)
    PROVE  Lone(s)
<1> DEFINE S == Tables(s) \cap occurred
<1>1. IsFiniteSet(S)
  BY TablesAreEvents, StateMachineAssumption, FS_Subset
<1> SUFFICES ASSUME NEW e \in S, NEW f \in S, e # f PROVE FALSE
  BY DEF Lone
<1>2. IsFiniteSet({e, f}) /\ {e, f} \subseteq S
  BY <1>1, FS_Subset
<1>3. Cardinality({e, f}) <= Cardinality(S)
  BY <1>1, <1>2, FS_Subset
<1>4. Cardinality({e, f}) = 2
  <2>1. IsFiniteSet({e}) /\ Cardinality({e}) = 1
    BY FS_Singleton
  <2>2. f \notin {e} /\ {e} \cup {f} = {e, f}
    OBVIOUS
  <2>3. Cardinality({e} \cup {f}) = Cardinality({e}) + 1
    BY <2>1, <2>2, FS_AddElement
  <2> QED
    BY <2>1, <2>2, <2>3
<1>5. Cardinality(S) \in Nat
  BY <1>1, FS_CardinalityType
<1> QED
  BY <1>3, <1>4, <1>5

-----------------------------------------------------------------------------
LEMMA IInvInit == MachineInit => IInv
<1> SUFFICES ASSUME MachineInit PROVE IInv
  OBVIOUS
<1>1. MachineTypeOK
  BY StateMachineAssumption DEF MachineInit, MachineTypeOK, Tables
<1> QED
  BY <1>1 DEF MachineInit, IInv, OneStateInside, LoneEvent, LoopHasTable, MovedIsDone,
              StaleOnlyWhenTied, StopIsFinal

LEMMA NextFrameKeepsIInv == IInv /\ NextFrame => IInv'
<1> SUFFICES ASSUME IInv, NextFrame PROVE IInv'
  OBVIOUS
<1>1. \A n \in Replicas : step'[n] = IF n \in Running THEN "preFrame" ELSE step[n]
  BY DEF NextFrame
<1>2. \A n \in Replicas : step'[n] # "events" /\ step'[n] # "init"
  BY <1>1 DEF NextFrame, Running
<1>3. \A n \in Replicas : step[n] # "init"
  BY DEF NextFrame, Running
<1>4. MachineTypeOK'
  <2>1. step' \in [Replicas -> {"init", "preFrame", "events", "latePreFrame", "exited"}]
    BY DEF NextFrame, IInv, MachineTypeOK
  <2> QED
    BY <2>1 DEF NextFrame, IInv, MachineTypeOK
<1> QED
  BY <1>2, <1>3, <1>4 DEF NextFrame, IInv, OneStateInside, LoneEvent, LoopHasTable, MovedIsDone,
                          StaleOnlyWhenTied, StopIsFinal

LEMMA InitSceneKeepsIInv ==
    ASSUME IInv, NEW n \in Replicas, InitScene(n)
    PROVE  IInv'
<1>1. state[n] \in Places /\ Settled(state[n]) \in Places
  BY SettledIsPlace DEF IInv, MachineTypeOK, Places
<1>2. MachineTypeOK'
  BY <1>1 DEF InitScene, IInv, MachineTypeOK, Places
<1>3. \A m \in Replicas : step'[m] = "events" => m # n /\ step[m] = "events"
  BY DEF InitScene, IInv, MachineTypeOK
<1>4. \A m \in Replicas \ {n} : state'[m] = state[m] /\ inside'[m] = inside[m] /\ step'[m] = step[m]
                             /\ stopAsked'[m] = stopAsked[m]
  BY DEF InitScene, IInv, MachineTypeOK
<1>5. /\ state'[n] = Settled(state[n]) /\ inside'[n] = {Settled(state[n])} \ {Nil}
      /\ stopAsked'[n] = (Settled(state[n]) = Nil)
  BY DEF InitScene, IInv, MachineTypeOK
<1>6. UNCHANGED <<occurred, table, toCome, stale, tied>>
  BY DEF InitScene
<1>7. OneStateInside' /\ StopIsFinal'
  BY <1>4, <1>5, <1>6 DEF IInv, OneStateInside, StopIsFinal
<1>8. LoneEvent' /\ LoopHasTable' /\ MovedIsDone' /\ StaleOnlyWhenTied'
  BY <1>3, <1>4, <1>6 DEF IInv, LoneEvent, Lone, LoopHasTable, MovedIsDone, StaleOnlyWhenTied
<1> QED
  BY <1>2, <1>7, <1>8 DEF IInv

LEMMA BeginEventsKeepsIInv ==
    ASSUME IInv, NEW n \in Replicas, BeginEvents(n)
    PROVE  IInv'
<1>1. state[n] \in Places
  BY DEF IInv, MachineTypeOK, Places
<1>2. Tables(state[n]) \subseteq Events
  BY <1>1, TablesAreEvents
<1>3. MachineTypeOK'
  BY <1>1, <1>2 DEF BeginEvents, IInv, MachineTypeOK, Places
<1>4. ~tied' => Lone(state[n])
  BY <1>1, NotManyIsLone DEF BeginEvents
<1>5. \A m \in Replicas \ {n} : step'[m] = step[m] /\ table'[m] = table[m] /\ toCome'[m] = toCome[m]
  BY DEF BeginEvents, IInv, MachineTypeOK
<1>6. table'[n] = state[n] /\ (step'[n] = "events" => state[n] # Nil)
  BY DEF BeginEvents, IInv, MachineTypeOK
<1>7. UNCHANGED <<occurred, state>> /\ (~tied' => ~tied)
  BY DEF BeginEvents
<1>8. LoneEvent'
  <2> SUFFICES ASSUME NEW m \in Replicas, step'[m] = "events", ~tied'
               PROVE  Lone(table[m])'
    BY DEF LoneEvent
  <2>1. CASE m = n
    BY <1>4, <1>6, <1>7, <2>1 DEF Lone, Tables
  <2>2. CASE m # n
    <3>1. Lone(table[m])
      BY <1>5, <1>7, <2>2 DEF IInv, LoneEvent
    <3> QED
      BY <1>5, <1>7, <2>2, <3>1 DEF Lone, Tables
  <2> QED
    BY <2>1, <2>2
<1>9. LoopHasTable' /\ MovedIsDone'
  BY <1>1, <1>5, <1>6, <1>7 DEF IInv, LoopHasTable, MovedIsDone, Places
<1>10. OneStateInside' /\ StaleOnlyWhenTied' /\ StopIsFinal'
  BY DEF BeginEvents, IInv, MachineTypeOK, OneStateInside, StaleOnlyWhenTied, StopIsFinal
<1> QED
  BY <1>3, <1>8, <1>9, <1>10 DEF IInv

\* What a move does to the node that moves.
LEMMA MoveToEffect ==
    ASSUME MachineTypeOK, OneStateInside, NEW n \in Replicas, NEW s \in Places, MoveTo(n, s),
           step[n] # "init"
    PROVE  /\ state' = [state EXCEPT ![n] = Settled(s)] /\ Settled(s) \in Places
           /\ inside' = [inside EXCEPT ![n] = {Settled(s)} \ {Nil}]
           /\ stopAsked' \in [Replicas -> BOOLEAN]
           /\ stopAsked'[n] = (stopAsked[n] \/ Settled(s) = Nil)
           /\ \A m \in Replicas \ {n} : stopAsked'[m] = stopAsked[m]
<1>1. inside[n] \ {state[n]} = {}
  BY DEF OneStateInside
<1>2. Settled(s) \in Places
  BY SettledIsPlace
<1> QED
  BY <1>1, <1>2 DEF MoveTo, MachineTypeOK

LEMMA HandleEventKeepsIInv ==
    ASSUME IInv, NEW n \in Replicas, HandleEvent(n)
    PROVE  IInv'
<1> USE DEF HandleEvent
<1>1. PICK e \in toCome[n] :
          /\ toCome' = [toCome EXCEPT ![n] = @ \ {e}]
          /\ IF e \in occurred
             THEN /\ MoveTo(n, EventsOf[table[n]][e])
                  /\ stale' = IF state[n] # table[n] THEN stale \cup {n} ELSE stale
             ELSE UNCHANGED <<state, inside, stopAsked, stale>>
          /\ UNCHANGED table
  BY DEF Handle
<1>2. /\ e \in Tables(table[n]) /\ table[n] \in States
      /\ toCome[n] \subseteq Tables(table[n]) /\ step[n] # "init"
  BY DEF IInv, MachineTypeOK, LoopHasTable
<1>3. LoneEvent' /\ LoopHasTable'
  BY <1>1 DEF IInv, LoneEvent, Lone, LoopHasTable
<1>4. CASE e \notin occurred
  <2>1. MachineTypeOK'
    BY <1>1, <1>4 DEF IInv, MachineTypeOK
  <2> QED
    BY <1>1, <1>3, <1>4, <2>1
    DEF IInv, MachineTypeOK, OneStateInside, MovedIsDone, StaleOnlyWhenTied, StopIsFinal
<1>5. CASE e \in occurred
  <2> DEFINE t == Settled(EventsOf[table[n]][e])
  <2>1. EventsOf[table[n]][e] \in Places
    BY <1>2, EventLeads
  <2>2. /\ state' = [state EXCEPT ![n] = t] /\ t \in Places
        /\ inside' = [inside EXCEPT ![n] = {t} \ {Nil}]
        /\ stopAsked' \in [Replicas -> BOOLEAN]
        /\ stopAsked'[n] = (stopAsked[n] \/ t = Nil)
        /\ \A m \in Replicas \ {n} : stopAsked'[m] = stopAsked[m]
    BY <1>1, <1>2, <1>5, <2>1, MoveToEffect DEF IInv
  <2>3. ~tied => state[n] = table[n]
    BY <1>2, <1>5 DEF IInv, MovedIsDone
  <2>4. MachineTypeOK'
    BY <1>1, <1>5, <2>2 DEF IInv, MachineTypeOK, Places
  <2>5. OneStateInside'
    BY <2>2 DEF IInv, MachineTypeOK, OneStateInside
  <2>6. MovedIsDone'
    <3> SUFFICES ASSUME NEW m \in Replicas, step[m] = "events", ~tied, state'[m] # table[m]
                 PROVE  toCome'[m] \cap occurred = {}
      BY <1>1 DEF MovedIsDone
    <3>1. CASE m = n
      BY <1>1, <1>2, <1>5, <3>1 DEF IInv, MachineTypeOK, LoneEvent, Lone
    <3>2. CASE m # n
      BY <1>1, <2>2, <3>2 DEF IInv, MachineTypeOK, MovedIsDone
    <3> QED
      BY <3>1, <3>2
  <2>7. StaleOnlyWhenTied'
    BY <1>1, <1>5, <2>3 DEF IInv, StaleOnlyWhenTied
  <2>8. StopIsFinal'
    <3> SUFFICES ASSUME NEW m \in Replicas, stopAsked'[m], ~tied PROVE state'[m] = Nil
      BY DEF StopIsFinal
    <3>1. CASE m = n
      <4>1. ~stopAsked[n]
        BY <1>2, <2>3, StateMachineAssumption DEF IInv, StopIsFinal
      <4> QED
        BY <2>2, <3>1, <4>1 DEF IInv, MachineTypeOK
    <3>2. CASE m # n
      BY <2>2, <3>2 DEF IInv, MachineTypeOK, StopIsFinal
    <3> QED
      BY <3>1, <3>2
  <2> QED
    BY <1>3, <2>4, <2>5, <2>6, <2>7, <2>8 DEF IInv
<1> QED
  BY <1>4, <1>5

LEMMA EndsKeepIInv ==
    ASSUME IInv, NEW n \in Replicas, EndEvents(n) \/ KernelEnds(n)
    PROVE  IInv'
  BY DEF EndEvents, KernelEnds, IInv, MachineTypeOK, OneStateInside, LoneEvent, Lone, LoopHasTable,
         MovedIsDone, StaleOnlyWhenTied, StopIsFinal

LEMMA IInvStep == IInv /\ [MachineNext]_machineVars => IInv'
<1> SUFFICES ASSUME IInv, [MachineNext]_machineVars PROVE IInv'
  OBVIOUS
<1>1. CASE NextFrame
  BY <1>1, NextFrameKeepsIInv
<1>2. ASSUME NEW n \in Replicas,
             InitScene(n) \/ BeginEvents(n) \/ HandleEvent(n) \/ EndEvents(n) \/ KernelEnds(n)
      PROVE  IInv'
  BY <1>2, InitSceneKeepsIInv, BeginEventsKeepsIInv, HandleEventKeepsIInv, EndsKeepIInv
<1>3. CASE UNCHANGED machineVars
  BY <1>3 DEF machineVars, IInv, MachineTypeOK, OneStateInside, LoneEvent, Lone, LoopHasTable,
              MovedIsDone, StaleOnlyWhenTied, StopIsFinal
<1> QED
  BY <1>1, <1>2, <1>3 DEF MachineNext, ReplicaStep

LEMMA IInvAlways == MachineSpec => []IInv
  BY IInvInit, IInvStep, PTL DEF MachineSpec

-----------------------------------------------------------------------------
(* The nodes of a cluster.                                                  *)

\* What a node that begins a frame in s can be in at its end.
Reaches(s, t) ==
    IF Tables(s) \cap occurred = {} THEN t = s
    ELSE \E e \in Tables(s) \cap occurred : t = Settled(EventsOf[s][e])

\* No frame has begun yet: s is the starting state.
First(s) ==
    \A n \in Running :
        \/ step[n] = "init" /\ state[n] = s
        \/ step[n] = "latePreFrame" /\ state[n] = Settled(s)

\* A node in the loop, on its way from s.
InLoop(n, s) ==
    /\ table[n] = s
    /\ \/ state[n] = s /\ Tables(s) \cap occurred \subseteq toCome[n]
       \/ Reaches(s, state[n]) /\ toCome[n] \cap occurred = {}

\* Every node has begun the frame in s.
InFrame(s) ==
    \A n \in Running :
        \/ step[n] = "preFrame" /\ state[n] = s
        \/ step[n] = "events" /\ InLoop(n, s)
        \/ step[n] = "latePreFrame" /\ Reaches(s, state[n]) /\ Lone(s)

InStep == ~tied => \E s \in Places : First(s) \/ InFrame(s)

\* At most one state is reached if at most one event has occurred.
LEMMA ReachesOne ==
    ASSUME NEW s, NEW t, NEW u, Lone(s), Reaches(s, t), Reaches(s, u)
    PROVE  t = u
  BY DEF Lone, Reaches

\* Nodes that agree on where the frame began agree at its end.
LEMMA InStepAgree == InStep => NodesAgree
<1> SUFFICES ASSUME InStep, ~tied, \A n \in Running : step[n] = "latePreFrame",
                    NEW m \in Running, NEW n \in Running
             PROVE  state[m] = state[n]
  BY DEF NodesAgree
<1>1. PICK s \in Places : First(s) \/ InFrame(s)
  BY DEF InStep
<1>2. CASE First(s)
  BY <1>2 DEF First
<1>3. CASE InFrame(s)
  BY <1>3, ReachesOne DEF InFrame
<1> QED
  BY <1>1, <1>2, <1>3

LEMMA InStepInit == MachineInit => InStep
  BY DEF MachineInit, InStep, First, Running, Places

LEMMA NextFrameKeepsInStep == IInv /\ InStep /\ NextFrame => InStep'
<1> SUFFICES ASSUME IInv, InStep, NextFrame, ~tied
             PROVE  \E t \in Places : InFrame(t)'
  BY DEF InStep, NextFrame
<1>1. NodesAgree
  BY InStepAgree
<1>2. PICK n \in Running : TRUE
  BY DEF NextFrame
<1>3. \A m \in Running : state[m] = state[n]
  BY <1>1, <1>2 DEF NodesAgree, NextFrame
<1>4. state[n] \in Places
  BY <1>2 DEF IInv, MachineTypeOK, Running, Places
<1>5. \A m \in Replicas : step'[m] = IF m \in Running THEN "preFrame" ELSE step[m]
  BY DEF NextFrame
<1>6. \A m \in Running' : m \in Running /\ step'[m] = "preFrame" /\ state'[m] = state[n]
  BY <1>3, <1>5 DEF Running, NextFrame
<1>7. InFrame(state[n])'
  BY <1>6 DEF InFrame, NextFrame
<1> QED
  BY <1>4, <1>7 DEF NextFrame

\* A node's own steps leave the others where they are.
LEMMA OthersStay ==
    ASSUME IInv, NEW n \in Replicas,
           InitScene(n) \/ BeginEvents(n) \/ HandleEvent(n) \/ EndEvents(n) \/ KernelEnds(n)
    PROVE  /\ occurred' = occurred
           /\ \A m \in Replicas \ {n} : /\ step'[m] = step[m] /\ state'[m] = state[m]
                                     /\ table'[m] = table[m] /\ toCome'[m] = toCome[m]
  BY DEF InitScene, BeginEvents, HandleEvent, Handle, MoveTo, EndEvents, KernelEnds, IInv, MachineTypeOK

LEMMA NodeKeepsInStep ==
    ASSUME IInv, InStep, NEW n \in Replicas,
           InitScene(n) \/ BeginEvents(n) \/ HandleEvent(n) \/ EndEvents(n) \/ KernelEnds(n)
    PROVE  InStep'
<1>1. tied => tied'
  BY DEF InitScene, BeginEvents, HandleEvent, Handle, EndEvents, KernelEnds
<1> SUFFICES ASSUME ~tied' PROVE \E s \in Places : First(s)' \/ InFrame(s)'
  BY DEF InStep
<1>2. PICK s \in Places : First(s) \/ InFrame(s)
  BY <1>1 DEF InStep
<1>3. /\ occurred' = occurred
      /\ \A m \in Replicas \ {n} : /\ step'[m] = step[m] /\ state'[m] = state[m]
                                /\ table'[m] = table[m] /\ toCome'[m] = toCome[m]
  BY OthersStay
<1>4. \A m \in Running' : m \in Running
  BY <1>3 DEF Running, InitScene, BeginEvents, HandleEvent, EndEvents, KernelEnds
<1>5. CASE First(s)
  <2>1. n \in Running => step'[n] = "exited" \/ (step'[n] = "latePreFrame" /\ state'[n] = Settled(s))
    BY <1>5 DEF First, InitScene, BeginEvents, HandleEvent, EndEvents, KernelEnds, IInv, MachineTypeOK
  <2>2. First(s)'
    BY <1>3, <1>4, <1>5, <2>1 DEF First, Running
  <2> QED
    BY <2>2
<1>6. CASE InFrame(s)
  <2> DEFINE Fine(m) == \/ step[m] = "preFrame" /\ state[m] = s
                        \/ step[m] = "events" /\ InLoop(m, s)
                        \/ step[m] = "latePreFrame" /\ Reaches(s, state[m]) /\ Lone(s)
  <2>1. \A m \in Running' \ {n} : Fine(m)'
    BY <1>3, <1>4, <1>6 DEF InFrame, Running, InLoop, Reaches, Lone, Tables, Settled
  <2>2. n \in Running' => Fine(n)'
    <3> SUFFICES ASSUME n \in Running' PROVE Fine(n)'
      OBVIOUS
    <3>1. Fine(n) /\ (step[n] = "events" /\ ~tied => Lone(table[n]))
      BY <1>4, <1>6 DEF InFrame, IInv, LoneEvent
    <3>2. CASE InitScene(n)
      BY <3>1, <3>2 DEF InitScene
    <3>3. CASE BeginEvents(n)
      <4>1. state[n] = s /\ state'[n] = s /\ table'[n] = s /\ toCome'[n] = Tables(s)
            /\ step'[n] = IF s = Nil THEN "latePreFrame" ELSE "events"
        BY <3>1, <3>3 DEF BeginEvents, IInv, MachineTypeOK
      <4>2. CASE s = Nil
        <5>1. Reaches(s, s)' /\ Lone(s)'
          BY <4>2 DEF Reaches, Lone, Tables
        <5> QED
          BY <4>1, <4>2, <5>1 DEF Reaches
      <4>3. CASE s # Nil
        BY <4>1, <4>3 DEF InLoop, Tables
      <4> QED
        BY <4>2, <4>3
    <3>4. CASE HandleEvent(n)
      <4>1. InLoop(n, s) /\ step'[n] = "events" /\ table'[n] = s /\ Lone(s)
        BY <1>1, <3>1, <3>4 DEF HandleEvent, Handle, InLoop
      <4>2. PICK e \in toCome[n] :
                /\ toCome'[n] = toCome[n] \ {e}
                /\ IF e \in occurred THEN MoveTo(n, EventsOf[table[n]][e])
                   ELSE state' = state
        BY <3>4 DEF HandleEvent, Handle, IInv, MachineTypeOK
      <4>3. e \in Tables(s)
        BY <4>1 DEF InLoop, IInv, MachineTypeOK
      <4>4. CASE e \notin occurred
        BY <1>3, <4>1, <4>2, <4>4 DEF InLoop, Reaches, Tables, Settled
      <4>5. CASE e \in occurred
        <5>1. state'[n] = Settled(EventsOf[s][e])
          BY <4>1, <4>2, <4>5 DEF InLoop, MoveTo, IInv, MachineTypeOK
        <5>2. Reaches(s, state[n])'
          BY <1>3, <4>3, <4>5, <5>1 DEF Reaches, Tables, Settled
        <5>3. toCome'[n] \cap occurred' = {}
          BY <1>3, <4>1, <4>2, <4>3, <4>5 DEF Lone, InLoop, IInv, MachineTypeOK
        <5> QED
          BY <4>1, <5>2, <5>3 DEF InLoop, Reaches
      <4> QED
        BY <4>4, <4>5
    <3>5. CASE EndEvents(n)
      <4>1. InLoop(n, s) /\ Lone(s) /\ toCome[n] = {} /\ step'[n] = "latePreFrame" /\ state' = state
        BY <1>1, <3>1, <3>5 DEF EndEvents, InLoop, IInv, MachineTypeOK
      <4>2. Reaches(s, state[n])
        BY <4>1 DEF InLoop, Reaches
      <4> QED
        BY <1>3, <4>1, <4>2 DEF Reaches, Lone, Tables, Settled
    <3>6. CASE KernelEnds(n)
      BY <3>6 DEF KernelEnds, Running, IInv, MachineTypeOK
    <3> QED
      BY <3>2, <3>3, <3>4, <3>5, <3>6
  <2>3. InFrame(s)'
    BY <2>1, <2>2 DEF InFrame
  <2> QED
    BY <2>3
<1> QED
  BY <1>2, <1>5, <1>6

LEMMA InStepStep == IInv /\ InStep /\ [MachineNext]_machineVars => InStep'
<1> SUFFICES ASSUME IInv, InStep, [MachineNext]_machineVars PROVE InStep'
  OBVIOUS
<1>1. CASE NextFrame
  BY <1>1, NextFrameKeepsInStep
<1>2. ASSUME NEW n \in Replicas,
             InitScene(n) \/ BeginEvents(n) \/ HandleEvent(n) \/ EndEvents(n) \/ KernelEnds(n)
      PROVE  InStep'
  BY <1>2, NodeKeepsInStep
<1>3. CASE UNCHANGED machineVars
  BY <1>3 DEF machineVars, InStep, First, InFrame, InLoop, Running, Reaches, Lone, Tables, Settled
<1> QED
  BY <1>1, <1>2, <1>3 DEF MachineNext, ReplicaStep

-----------------------------------------------------------------------------
\* The types hold, and the loop only goes through events of the state that the
\* frame began with (StateMachine.lua:12-13).
THEOREM TypesOK == MachineSpec => []MachineTypeOK
<1>1. IInv => MachineTypeOK
  BY DEF IInv
<1> QED
  BY <1>1, IInvAlways, PTL

\* Enter and leave callbacks alternate (moveDirectlyToState, initScene).
THEOREM OneStateIsInside == MachineSpec => []OneStateInside
<1>1. IInv => OneStateInside
  BY DEF IInv
<1> QED
  BY <1>1, IInvAlways, PTL

\* No handler of a state that has been left runs, unless two events of a state
\* have occurred in one frame (the loop of preFrame).
THEOREM StaleMeansTied == MachineSpec => []StaleOnlyWhenTied
<1>1. IInv => StaleOnlyWhenTied
  BY DEF IInv
<1> QED
  BY <1>1, IInvAlways, PTL

\* A move to nil is final, with the same exception.
THEOREM StoppingIsFinal == MachineSpec => []StopIsFinal
<1>1. IInv => StopIsFinal
  BY DEF IInv
<1> QED
  BY <1>1, IInvAlways, PTL

\* The nodes of a cluster of any size agree at the end of every frame, whatever
\* the order of each node's pairs(), with the same exception.
THEOREM NodesStayTogether == MachineSpec => []NodesAgree
<1>1. MachineSpec => []InStep
  BY InStepInit, InStepStep, IInvAlways, PTL DEF MachineSpec
<1> QED
  BY <1>1, InStepAgree, PTL

\* Without two events in one frame nothing goes wrong, on any number of nodes.
THEOREM TiesCorrect == MachineSpec => []OnlyTiesGoWrong
<1>1. StaleOnlyWhenTied /\ StopIsFinal /\ NodesAgree => OnlyTiesGoWrong
  BY DEF OnlyTiesGoWrong
<1> QED  BY <1>1, StaleMeansTied, StoppingIsFinal, NodesStayTogether, PTL
=============================================================================
