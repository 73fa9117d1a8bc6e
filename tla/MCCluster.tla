------------------------------- MODULE MCCluster -------------------------------
(***************************************************************************)
(* The two components in which nodes of a cluster must not part, checked   *)
(* together: they share no state, so a behaviour is one of them while the  *)
(* other stays in an initial state.                                        *)
(*                                                                         *)
(* ClusterRunBuffer: a primary and two secondaries, interchangeable but    *)
(* not declared symmetric, since the run checks liveness.                  *)
(* StateMachine: two nodes and a script of four states, one of which is    *)
(* passed through.                                                         *)
(***************************************************************************)
EXTENDS ClusterRunBuffer, StateMachine

CONSTANTS a, b, c, via, e1, e2, e3

VARIABLE part   \* the component that this behaviour is of

MCEventsOf ==
    [s \in {a, b, c, via} |->
        CASE s = a -> [e \in {e1} |-> b]
          [] s = b -> [e \in {e1, e2, e3} |-> IF e = e1 THEN a ELSE IF e = e2 THEN via ELSE Nil]
          [] s = c -> [e \in {e2} |-> Nil]
          [] OTHER -> [e \in {} |-> Nil]]
MCChain == [s \in {a, b, c, via} |-> IF s = via THEN c ELSE s]

-----------------------------------------------------------------------------
MCInit ==
    /\ part \in {"buffers", "machines"}
    /\ Init /\ MachineInit
    /\ part = "buffers" => state = [n \in Replicas |-> a]

Buffers == part = "buffers" /\ UNCHANGED <<part, machineVars>>
Machines == part = "machines" /\ UNCHANGED <<part, vars>>

\* The kernels of all nodes have ended.
Over == Running = {} /\ UNCHANGED machineVars

MCNext ==
    \/ Buffers /\ GuiLocks
    \/ Buffers /\ GuiAdds
    \/ Buffers /\ KernelAdds
    \/ Buffers /\ Synchronise
    \/ Buffers /\ Barrier
    \/ \E n \in Nodes :
        \/ Buffers /\ RunBegins(n)
        \/ Buffers /\ RunOne(n)
        \/ Buffers /\ RunEnds(n)
    \/ Machines /\ NextFrame
    \/ Machines /\ Over
    \/ \E n \in Replicas :
        \/ Machines /\ InitScene(n)
        \/ Machines /\ BeginEvents(n)
        \/ Machines /\ HandleEvent(n)
        \/ Machines /\ EndEvents(n)
        \/ Machines /\ KernelEnds(n)

allVars == <<part, vars, machineVars>>

\* The fairness of FairSpec and MachineFairSpec, each in its own behaviours.
MCFairSpec ==
    /\ MCInit
    /\ [][MCNext]_allVars
    /\ WF_allVars(Buffers /\ GuiAdds)
    /\ WF_allVars(Buffers /\ Synchronise)
    /\ WF_allVars(Buffers /\ Barrier)
    /\ \A n \in Nodes : WF_allVars(Buffers /\ NodeStep(n))
    /\ WF_allVars(Machines /\ NextFrame)
    /\ \A n \in Replicas : /\ WF_allVars(Machines /\ ReplicaStep(n))
                           /\ SF_allVars(Machines /\ KernelEnds(n))
=============================================================================
