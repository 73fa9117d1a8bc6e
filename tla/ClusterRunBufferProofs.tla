------------------------ MODULE ClusterRunBufferProofs -------------------------
(***************************************************************************)
(* Proofs about ClusterRunBuffer for every number of secondaries, every    *)
(* capacity and every number of calls.                                     *)
(*                                                                         *)
(* What a node has run followed by what it has pending, stream(n), is the  *)
(* quantity the arguments are about: running a chunk leaves it as it is.   *)
(***************************************************************************)
EXTENDS ClusterRunBuffer, SequenceTheorems, TLAPS

LEMMA HeadMoves ==
    ASSUME NEW S, NEW a \in Seq(S), NEW b \in Seq(S), b # <<>>
    PROVE  /\ Head(b) \in S
           /\ Tail(b) \in Seq(S)
           /\ Len(Tail(b)) = Len(b) - 1
           /\ Append(a, Head(b)) \in Seq(S)
           /\ Append(a, Head(b)) \o Tail(b) = a \o b
<1>1. Head(b) \in S /\ Tail(b) \in Seq(S) /\ <<Head(b)>> \in Seq(S) /\ Len(Tail(b)) = Len(b) - 1
    BY HeadTailProperties
<1>2. <<Head(b)>> \o Tail(b) = b
    BY <1>1, HeadTailProperties
<1>3. Append(a, Head(b)) = a \o <<Head(b)>> /\ Append(a, Head(b)) \in Seq(S)
    BY <1>1, AppendIsConcat, AppendProperties
<1> QED
    BY <1>1, <1>2, <1>3, ConcatAssociative

LEMMA RangeOfAppend ==
    ASSUME NEW S, NEW s \in Seq(S), NEW c \in S
    PROVE  Range(Append(s, c)) = Range(s) \cup {c}
<1>1. /\ Append(s, c) \in Seq(S)
      /\ Len(Append(s, c)) = Len(s) + 1
      /\ \A i \in 1..Len(s) : Append(s, c)[i] = s[i]
      /\ Append(s, c)[Len(s) + 1] = c
    BY AppendProperties
<1> QED
    BY <1>1 DEF Range

-----------------------------------------------------------------------------
(* Type correctness.                                                        *)

\* What a node has run and has still to run in this frame fits the buffer.
FrameFits == \A n \in Nodes :
    /\ phase[n] = "latePreFrame" => ranNow[n] = 0
    /\ phase[n] = "loop" => ranNow[n] + left[n] <= Capacity

\* The GUI thread holds the lock only for a call it has begun.
CallBegun == guiHolds => guiCalls >= 1

TypeInv == TypeOK /\ FrameFits /\ CallBegun

LEMMA TypeInit == Init => TypeInv
<1> SUFFICES ASSUME Init PROVE TypeInv
    OBVIOUS
<1>1. <<>> \in Seq(Chunk) /\ Len(<<>>) = 0
    BY EmptySeq
<1>2. buf \in [Nodes -> Seq(Chunk)] /\ executed \in [Nodes -> Seq(Chunk)]
    BY <1>1 DEF Init
<1>3. \A n \in Nodes : Len(buf[n]) <= Capacity
    BY <1>1, ClusterAssumption DEF Init
<1>4. /\ maxRun \in [Nodes -> 0..Capacity] /\ phase \in [Nodes -> Phases]
      /\ left \in [Nodes -> 0..Capacity] /\ ranNow \in [Nodes -> 0..Capacity]
    <2>1. 0 \in 0..Capacity /\ Capacity \in 0..Capacity
        BY ClusterAssumption
    <2>2. /\ maxRun = [n \in Nodes |-> Capacity] /\ phase = [n \in Nodes |-> "sync"]
          /\ left = [n \in Nodes |-> 0] /\ ranNow = [n \in Nodes |-> 0]
        BY DEF Init
    <2> QED
        BY <2>1, <2>2 DEF Phases
<1>5. guiHolds \in BOOLEAN /\ guiCalls \in 0..MaxGui /\ kernelAdds \in 0..MaxKernel
    <2>1. guiHolds = FALSE /\ guiCalls = 0 /\ kernelAdds = 0
        BY DEF Init
    <2>2. 0 \in 0..MaxGui /\ 0 \in 0..MaxKernel
        BY ClusterAssumption
    <2> QED
        BY <2>1, <2>2
<1>6. FrameFits /\ CallBegun
    BY DEF Init, FrameFits, CallBegun
<1> QED
    BY <1>2, <1>3, <1>4, <1>5, <1>6 DEF TypeInv, TypeOK

LEMMA ReceivedIsSent ==
    ASSUME TypeInv, NEW n \in Nodes
    PROVE  Received(n) = buf[Primary]
BY DEF TypeInv, TypeOK, Received, Nodes

LEMMA TypeStep == TypeInv /\ [Next]_vars => TypeInv'
<1> SUFFICES ASSUME TypeInv, [Next]_vars
             PROVE  TypeInv'
    OBVIOUS
<1> USE ClusterAssumption DEF Nodes
<1>1. CASE GuiLocks
    BY <1>1 DEF TypeInv, TypeOK, FrameFits, CallBegun, GuiLocks
<1>2. CASE GuiAdds
    <2>1. <<"gui", guiCalls>> \in Chunk
        BY <1>2 DEF GuiAdds, TypeInv, TypeOK, CallBegun, Chunk
    <2>2. /\ Append(buf[Primary], <<"gui", guiCalls>>) \in Seq(Chunk)
          /\ Len(Append(buf[Primary], <<"gui", guiCalls>>)) = Len(buf[Primary]) + 1
        BY <2>1, AppendProperties DEF TypeInv, TypeOK
    <2>3. buf' \in [Nodes -> Seq(Chunk)] /\ \A n \in Nodes : Len(buf'[n]) <= Capacity
        BY <1>2, <2>2 DEF GuiAdds, TypeInv, TypeOK, Full
    <2> QED
        BY <1>2, <2>3 DEF TypeInv, TypeOK, FrameFits, CallBegun, GuiAdds
<1>3. CASE KernelAdds
    <2>1. <<"kernel", kernelAdds + 1>> \in Chunk
        BY <1>3 DEF KernelAdds, TypeInv, TypeOK, Chunk
    <2>2. /\ Append(buf[Primary], <<"kernel", kernelAdds + 1>>) \in Seq(Chunk)
          /\ Len(Append(buf[Primary], <<"kernel", kernelAdds + 1>>)) = Len(buf[Primary]) + 1
        BY <2>1, AppendProperties DEF TypeInv, TypeOK
    <2>3. buf' \in [Nodes -> Seq(Chunk)] /\ \A n \in Nodes : Len(buf'[n]) <= Capacity
        BY <1>3, <2>2 DEF KernelAdds, TypeInv, TypeOK, Full
    <2> QED
        BY <1>3, <2>3 DEF TypeInv, TypeOK, FrameFits, CallBegun, KernelAdds
<1>4. CASE Synchronise
    <2>1. \A n \in Nodes : buf'[n] \in Seq(Chunk) /\ Len(buf'[n]) <= Capacity
        BY <1>4, ReceivedIsSent DEF Synchronise, TypeInv, TypeOK
    <2>2. buf' \in [Nodes -> Seq(Chunk)]
        BY <1>4, <2>1 DEF Synchronise
    <2>3. maxRun' \in [Nodes -> 0..Capacity]
        BY <1>4 DEF Synchronise, TypeInv, TypeOK
    <2>4. phase' \in [Nodes -> Phases] /\ ranNow' \in [Nodes -> 0..Capacity] /\ FrameFits'
        BY <1>4 DEF Synchronise, Phases, FrameFits
    <2>5. UNCHANGED <<left, guiHolds, guiCalls, kernelAdds, executed>>
        BY <1>4 DEF Synchronise
    <2> QED
        BY <2>1, <2>2, <2>3, <2>4, <2>5 DEF TypeInv, TypeOK, CallBegun
<1>5. ASSUME NEW n \in Nodes, RunBegins(n) PROVE TypeInv'
    BY <1>5 DEF TypeInv, TypeOK, FrameFits, CallBegun, RunBegins, Phases
<1>6. ASSUME NEW n \in Nodes, RunOne(n) PROVE TypeInv'
    <2>1. /\ Tail(buf[n]) \in Seq(Chunk)
          /\ Len(Tail(buf[n])) = Len(buf[n]) - 1
          /\ Append(executed[n], Head(buf[n])) \in Seq(Chunk)
        BY <1>6, HeadMoves DEF TypeInv, TypeOK, RunOne
    <2>2. buf' \in [Nodes -> Seq(Chunk)] /\ \A m \in Nodes : Len(buf'[m]) <= Capacity
        BY <1>6, <2>1 DEF TypeInv, TypeOK, RunOne
    <2>3. executed' \in [Nodes -> Seq(Chunk)]
        BY <1>6, <2>1 DEF TypeInv, TypeOK, RunOne
    <2>4. /\ phase[n] = "loop" /\ left[n] > 0
          /\ ranNow' = [ranNow EXCEPT ![n] = ranNow[n] + 1]
          /\ left' = [left EXCEPT ![n] = left[n] - 1]
          /\ UNCHANGED <<maxRun, phase, guiHolds, guiCalls, kernelAdds>>
        BY <1>6 DEF RunOne
    <2>5. /\ ranNow \in [Nodes -> 0..Capacity] /\ left \in [Nodes -> 0..Capacity]
          /\ FrameFits
        BY DEF TypeInv, TypeOK
    <2>6. ranNow' \in [Nodes -> 0..Capacity] /\ left' \in [Nodes -> 0..Capacity] /\ FrameFits'
        BY <2>4, <2>5 DEF FrameFits
    <2> QED
        BY <2>2, <2>3, <2>4, <2>6 DEF TypeInv, TypeOK, CallBegun
<1>7. ASSUME NEW n \in Nodes, RunEnds(n) PROVE TypeInv'
    BY <1>7 DEF TypeInv, TypeOK, FrameFits, CallBegun, RunEnds, Phases
<1>8. CASE Barrier
    BY <1>8 DEF TypeInv, TypeOK, FrameFits, CallBegun, Barrier, Phases
<1>9. CASE UNCHANGED vars
    BY <1>9 DEF TypeInv, TypeOK, FrameFits, CallBegun, vars
<1> QED
    BY <1>1, <1>2, <1>3, <1>4, <1>5, <1>6, <1>7, <1>8, <1>9 DEF Next, NodeStep

LEMMA TypeInvariant == Spec => []TypeInv
BY TypeInit, TypeStep, PTL DEF Spec

\* Every variable of the cluster keeps its type.
THEOREM ClusterTypeCorrect == Spec => []TypeOK
<1>1. TypeInv => TypeOK
    BY DEF TypeInv
<1> QED
    BY <1>1, TypeInvariant, PTL

-----------------------------------------------------------------------------
(* The streams.                                                             *)

\* Running a chunk moves it from what is pending to what has run.
LEMMA RunKeepsStreams ==
    ASSUME TypeInv, NEW n \in Nodes, RunOne(n)
    PROVE  \A m \in Nodes : stream(m)' = stream(m)
<1>1. executed \in [Nodes -> Seq(Chunk)] /\ buf \in [Nodes -> Seq(Chunk)]
    BY DEF TypeInv, TypeOK
<1>2. /\ executed' = [executed EXCEPT ![n] = Append(executed[n], Head(buf[n]))]
      /\ buf' = [buf EXCEPT ![n] = Tail(buf[n])]
      /\ buf[n] # <<>>
    BY DEF RunOne
<1>3. Append(executed[n], Head(buf[n])) \o Tail(buf[n]) = executed[n] \o buf[n]
    BY <1>1, <1>2, HeadMoves
<1>4. \A m \in Nodes : executed'[m] \o buf'[m] = executed[m] \o buf[m]
    BY <1>1, <1>2, <1>3
<1> QED
    BY <1>4 DEF stream

\* Only the primary's buffer grows between two synchronisations.
LEMMA AddKeepsOthers ==
    ASSUME TypeInv, GuiAdds \/ KernelAdds
    PROVE  /\ \A s \in Secondaries : stream(s)' = stream(s) /\ buf'[s] = buf[s]
           /\ UNCHANGED <<executed, phase, left>>
BY ClusterAssumption DEF TypeInv, TypeOK, GuiAdds, KernelAdds, Nodes, stream

LEMMA StreamType ==
    ASSUME TypeInv, NEW n \in Nodes
    PROVE  /\ stream(n) \in Seq(Chunk)
           /\ Range(stream(n)) = Range(executed[n]) \cup Range(buf[n])
<1>1. executed[n] \in Seq(Chunk) /\ buf[n] \in Seq(Chunk)
    BY DEF TypeInv, TypeOK
<1> QED
    BY <1>1, ConcatProperties, RangeConcatenation DEF stream

-----------------------------------------------------------------------------
(* The secondaries agree.                                                   *)

\* Nobody interrupts a secondary's runBuffer, so that it ends with an empty
\* buffer.
Emptied == \A s \in Secondaries :
    /\ phase[s] = "loop" => left[s] = Len(buf[s])
    /\ phase[s] \in {"draw", "sync"} => buf[s] = <<>>

SameStreams == \A s, t \in Secondaries : stream(s) = stream(t)

AgreeInv == Emptied /\ SameStreams

LEMMA AgreeInit == Init => AgreeInv
BY DEF Init, AgreeInv, Emptied, SameStreams, stream, Nodes

LEMMA AgreeStep == TypeInv /\ AgreeInv /\ [Next]_vars => AgreeInv'
<1> SUFFICES ASSUME TypeInv, AgreeInv, [Next]_vars
             PROVE  AgreeInv'
    OBVIOUS
<1>a. Primary \notin Secondaries /\ Secondaries \subseteq Nodes /\ Primary \in Nodes
    BY ClusterAssumption DEF Nodes
<1>b. \A n \in Nodes : buf[n] \in Seq(Chunk) /\ executed[n] \in Seq(Chunk)
    BY DEF TypeInv, TypeOK
<1>1. CASE GuiLocks
    BY <1>1 DEF AgreeInv, Emptied, SameStreams, stream, GuiLocks
<1>2. CASE GuiAdds \/ KernelAdds
    <2>1. \A s \in Secondaries : buf'[s] = buf[s] /\ phase'[s] = phase[s] /\ left'[s] = left[s]
        BY <1>2, AddKeepsOthers
    <2>2. Emptied'
        BY <2>1 DEF AgreeInv, Emptied
    <2>3. SameStreams'
        BY <1>2, AddKeepsOthers DEF AgreeInv, SameStreams
    <2> QED
        BY <2>2, <2>3 DEF AgreeInv
<1>3. CASE Synchronise
    <2>1. \A s \in Secondaries : phase[s] = "sync" /\ buf[s] = <<>>
        BY <1>3, <1>a DEF Synchronise, AgreeInv, Emptied
    <2>2. \A s \in Secondaries : stream(s) = executed[s]
        BY <2>1, <1>a, <1>b, ConcatEmptySeq DEF stream
    <2>3. \A s \in Secondaries : stream(s)' = executed[s] \o buf[Primary]
        BY <1>3, <1>a, ReceivedIsSent DEF Synchronise, stream
    <2>4. SameStreams'
        BY <2>2, <2>3 DEF AgreeInv, SameStreams
    <2>5. Emptied'
        BY <1>3, <1>a DEF Synchronise, Emptied
    <2> QED
        BY <2>4, <2>5 DEF AgreeInv
<1>4. ASSUME NEW n \in Nodes, RunBegins(n) PROVE AgreeInv'
    <2>1. Emptied'
        BY <1>4, <1>a DEF AgreeInv, Emptied, RunBegins, TypeInv, TypeOK
    <2> QED
        BY <1>4, <2>1 DEF AgreeInv, SameStreams, stream, RunBegins
<1>5. ASSUME NEW n \in Nodes, RunOne(n) PROVE AgreeInv'
    <2>1. Len(Tail(buf[n])) = Len(buf[n]) - 1
        BY <1>5, <1>b, HeadTailProperties DEF RunOne
    <2>2. /\ phase[n] = "loop"
          /\ UNCHANGED phase
          /\ buf' = [buf EXCEPT ![n] = Tail(buf[n])]
          /\ left' = [left EXCEPT ![n] = left[n] - 1]
        BY <1>5 DEF RunOne
    <2>3. buf \in [Nodes -> Seq(Chunk)] /\ left \in [Nodes -> 0..Capacity]
        BY DEF TypeInv, TypeOK
    <2>4. Emptied'
        BY <1>a, <2>1, <2>2, <2>3 DEF AgreeInv, Emptied
    <2>5. SameStreams'
        BY <1>5, <1>a, RunKeepsStreams DEF AgreeInv, SameStreams
    <2> QED
        BY <2>4, <2>5 DEF AgreeInv
<1>6. ASSUME NEW n \in Nodes, RunEnds(n) PROVE AgreeInv'
    <2>1. n \in Secondaries => buf[n] = <<>>
        BY <1>6, <1>a, <1>b, EmptySeq DEF RunEnds, Contended, AgreeInv, Emptied
    <2>2. Emptied'
        BY <1>6, <1>a, <2>1 DEF RunEnds, AgreeInv, Emptied, TypeInv, TypeOK
    <2> QED
        BY <1>6, <2>2 DEF AgreeInv, SameStreams, stream, RunEnds
<1>7. CASE Barrier
    BY <1>7, <1>a DEF Barrier, AgreeInv, Emptied, SameStreams, stream
<1>8. CASE UNCHANGED vars
    BY <1>8 DEF vars, AgreeInv, Emptied, SameStreams, stream
<1> QED
    BY <1>1, <1>2, <1>3, <1>4, <1>5, <1>6, <1>7, <1>8 DEF Next, NodeStep

\* The secondaries never diverge: at every barrier all of them have run the
\* same chunks in the same order, whatever the primary's threads do meanwhile.
THEOREM SecondariesCorrect == Spec => []SecondariesAgree
<1>1. Spec => []AgreeInv
    BY AgreeInit, AgreeStep, TypeInvariant, PTL DEF Spec
<1>2. TypeInv /\ AgreeInv => SecondariesAgree
    <2> SUFFICES ASSUME TypeInv, AgreeInv, AtBarrier, NEW s \in Secondaries, NEW t \in Secondaries
                 PROVE  executed[s] = executed[t]
        BY DEF SecondariesAgree
    <2>1. buf[s] = <<>> /\ buf[t] = <<>> /\ stream(s) = stream(t)
        BY DEF AtBarrier, AgreeInv, Emptied, SameStreams, Nodes
    <2>2. executed[s] \in Seq(Chunk) /\ executed[t] \in Seq(Chunk)
        BY DEF TypeInv, TypeOK, Nodes
    <2> QED
        BY <2>1, <2>2, ConcatEmptySeq DEF stream
<1> QED
    BY <1>1, <1>2, TypeInvariant, PTL

-----------------------------------------------------------------------------
(* The primary loses nothing that a secondary has got.                      *)

\* Whatever a secondary has run or has pending, the primary has run or has
\* pending.
Covered == \A s \in Secondaries : Range(stream(s)) \subseteq Range(stream(Primary))

LEMMA CoveredInit == Init => Covered
<1> SUFFICES ASSUME Init PROVE Covered
    OBVIOUS
<1>1. \A s \in Secondaries : stream(s) = stream(Primary)
    BY DEF Init, stream, Nodes
<1> QED
    BY <1>1 DEF Covered

\* Adding to the primary's buffer keeps what was there.
LEMMA AddGrowsPrimary ==
    ASSUME TypeInv, TypeInv', GuiAdds \/ KernelAdds
    PROVE  Range(stream(Primary)) \subseteq Range(stream(Primary))'
<1>1. /\ Primary \in Nodes
      /\ executed' = executed
      /\ buf[Primary] \in Seq(Chunk) /\ buf'[Primary] \in Seq(Chunk)
      /\ executed[Primary] \in Seq(Chunk)
    BY DEF GuiAdds, KernelAdds, Nodes, TypeInv, TypeOK
<1>2. \/ buf'[Primary] = buf[Primary]
      \/ \E c \in Chunk : buf'[Primary] = Append(buf[Primary], c)
    <2>1. ASSUME GuiAdds PROVE <<"gui", guiCalls>> \in Chunk
        BY <2>1 DEF GuiAdds, TypeInv, TypeOK, CallBegun, Chunk
    <2>2. ASSUME KernelAdds PROVE <<"kernel", kernelAdds + 1>> \in Chunk
        BY <2>2 DEF KernelAdds, TypeInv, TypeOK, Chunk
    <2>3. buf \in [Nodes -> Seq(Chunk)]
        BY DEF TypeInv, TypeOK
    <2> QED
        BY <1>1, <2>1, <2>2, <2>3 DEF GuiAdds, KernelAdds
<1>3. Range(buf[Primary]) \subseteq Range(buf'[Primary])
    <2>1. ASSUME NEW c \in Chunk, buf'[Primary] = Append(buf[Primary], c)
          PROVE  Range(buf[Primary]) \subseteq Range(buf'[Primary])
        BY <1>1, <2>1, RangeOfAppend
    <2> QED
        BY <1>2, <2>1
<1> QED
    BY <1>1, <1>3, RangeConcatenation DEF stream

LEMMA CoveredStep == TypeInv /\ TypeInv' /\ AgreeInv /\ Covered /\ [Next]_vars => Covered'
<1> SUFFICES ASSUME TypeInv, TypeInv', AgreeInv, Covered, [Next]_vars
             PROVE  Covered'
    OBVIOUS
<1>a. Primary \notin Secondaries /\ Secondaries \subseteq Nodes /\ Primary \in Nodes
    BY ClusterAssumption DEF Nodes
<1>b. \A n \in Nodes : buf[n] \in Seq(Chunk) /\ executed[n] \in Seq(Chunk)
    BY DEF TypeInv, TypeOK
<1>1. CASE UNCHANGED <<executed, buf>>
    BY <1>1 DEF Covered, stream
<1>2. CASE GuiAdds \/ KernelAdds
    BY <1>2, AddKeepsOthers, AddGrowsPrimary DEF Covered
<1>3. CASE Synchronise
    <2>1. ASSUME NEW s \in Secondaries
          PROVE  Range(stream(s)') = Range(executed[s]) \cup Range(buf[Primary])
        <3>1. stream(s)' = executed[s] \o buf[Primary]
            BY <1>3, <1>a, ReceivedIsSent DEF Synchronise, stream
        <3> QED
            BY <3>1, <1>a, <1>b, RangeConcatenation
    <2>2. \A s \in Secondaries : Range(executed[s]) \subseteq Range(stream(Primary))
        BY <1>a, StreamType DEF Covered
    <2>3. Range(buf[Primary]) \subseteq Range(stream(Primary))
        BY <1>a, StreamType
    <2>4. stream(Primary)' = stream(Primary)
        BY <1>3, <1>a DEF Synchronise, stream
    <2> QED
        BY <2>1, <2>2, <2>3, <2>4 DEF Covered
<1>4. ASSUME NEW n \in Nodes, RunOne(n) PROVE Covered'
    BY <1>4, <1>a, RunKeepsStreams DEF Covered
<1> QED
    BY <1>1, <1>2, <1>3, <1>4
       DEF Next, NodeStep, GuiLocks, RunBegins, RunEnds, Barrier, vars

\* No secondary runs a chunk that the primary then drops.
THEOREM PrimaryCovers == Spec => []NothingOnlyOnSecondaries
<1>1. Spec => []AgreeInv
    BY AgreeInit, AgreeStep, TypeInvariant, PTL DEF Spec
<1>2. Spec => []Covered
    BY <1>1, CoveredInit, CoveredStep, TypeInvariant, PTL DEF Spec
<1>3. TypeInv /\ Covered => NothingOnlyOnSecondaries
    BY StreamType DEF Covered, NothingOnlyOnSecondaries, Nodes
<1> QED
    BY <1>2, <1>3, TypeInvariant, PTL

-----------------------------------------------------------------------------
(* The primary runs a chunk at most once.                                   *)

\* A chunk that is about to be added is not there yet.
Fresh ==
    /\ \A k \in 1..MaxGui :
          <<"gui", k>> \in Range(stream(Primary)) =>
              k <= guiCalls /\ (guiHolds => k < guiCalls)
    /\ \A k \in 1..MaxKernel :
          <<"kernel", k>> \in Range(stream(Primary)) => k <= kernelAdds

OnceInv == PrimaryRunsOnce /\ Fresh

LEMMA AppendToConcat ==
    ASSUME NEW S, NEW a \in Seq(S), NEW b \in Seq(S), NEW c \in S
    PROVE  a \o Append(b, c) = Append(a \o b, c)
<1>1. a \o b \in Seq(S) /\ <<c>> \in Seq(S)
    BY ConcatProperties
<1>2. Append(b, c) = b \o <<c>> /\ Append(a \o b, c) = (a \o b) \o <<c>>
    BY <1>1, AppendIsConcat
<1> QED
    BY <1>1, <1>2, ConcatAssociative

LEMMA AppendFresh ==
    ASSUME NEW S, NEW a \in Seq(S), NEW b \in Seq(S), NEW c \in S,
           IsInjective(a \o b), c \notin Range(a \o b)
    PROVE  /\ IsInjective(a \o Append(b, c))
           /\ Range(a \o Append(b, c)) = Range(a \o b) \cup {c}
<1>1. a \o b \in Seq(S) /\ <<c>> \in Seq(S)
    BY ConcatProperties
<1>2. a \o Append(b, c) = Append(a \o b, c)
    BY AppendToConcat
<1> DEFINE s == a \o b
<1>3. /\ Append(s, c) \in Seq(S)
      /\ Len(Append(s, c)) = Len(s) + 1
      /\ \A i \in 1..Len(s) : Append(s, c)[i] = s[i]
      /\ Append(s, c)[Len(s) + 1] = c
    BY <1>1, AppendProperties
<1>4. \A i \in 1..Len(s) : s[i] # c
    BY <1>1 DEF Range
<1>5. IsInjective(s)
    OBVIOUS
<1> HIDE DEF s
<1>6. s \in Seq(S)
    BY <1>1 DEF s
<1>7. IsInjective(Append(s, c))
    BY <1>3, <1>4, <1>5, <1>6 DEF IsInjective
<1>8. Range(Append(s, c)) = Range(s) \cup {c}
    BY <1>6, RangeOfAppend
<1> QED
    BY <1>2, <1>7, <1>8 DEF s

LEMMA OnceInit == Init => OnceInv
<1> SUFFICES ASSUME Init PROVE OnceInv
    OBVIOUS
<1>1. stream(Primary) = <<>> \o <<>>
    BY DEF Init, stream, Nodes
<1>2. stream(Primary) = <<>>
    BY <1>1, EmptySeq, ConcatEmptySeq
<1>3. Len(stream(Primary)) = 0 /\ DOMAIN stream(Primary) = 1..0
    BY <1>2, EmptySeq
<1> QED
    BY <1>3 DEF OnceInv, PrimaryRunsOnce, Fresh, IsInjective, Range, stream

LEMMA OnceStep == TypeInv /\ OnceInv /\ [Next]_vars => OnceInv'
<1> SUFFICES ASSUME TypeInv, OnceInv, [Next]_vars
             PROVE  OnceInv'
    OBVIOUS
<1>a. /\ Primary \in Nodes
      /\ buf \in [Nodes -> Seq(Chunk)]
      /\ buf[Primary] \in Seq(Chunk) /\ executed[Primary] \in Seq(Chunk)
      /\ guiCalls \in Nat /\ kernelAdds \in Nat
    BY DEF TypeInv, TypeOK, Nodes
<1>b. IsInjective(stream(Primary)) /\ Fresh
    BY DEF OnceInv, PrimaryRunsOnce, stream
<1>1. ASSUME stream(Primary)' = stream(Primary),
             UNCHANGED <<guiHolds, guiCalls, kernelAdds>>
      PROVE  OnceInv'
    BY <1>1, <1>b DEF OnceInv, PrimaryRunsOnce, Fresh, stream
<1>2. CASE GuiLocks
    <2>1. stream(Primary)' = stream(Primary) /\ kernelAdds' = kernelAdds /\ guiCalls' = guiCalls + 1
        BY <1>2 DEF GuiLocks, stream
    <2>2. Fresh'
        BY <1>a, <1>b, <2>1 DEF Fresh
    <2> QED
        BY <1>b, <2>1, <2>2 DEF OnceInv, PrimaryRunsOnce, stream
<1>3. CASE GuiAdds
    <2>1. /\ guiHolds /\ ~guiHolds' /\ guiCalls' = guiCalls /\ kernelAdds' = kernelAdds
          /\ executed' = executed
        BY <1>3 DEF GuiAdds
    <2>2. CASE Full(Primary)
        <3>1. stream(Primary)' = stream(Primary)
            BY <1>3, <2>2 DEF GuiAdds, stream
        <3>2. Fresh'
            BY <1>b, <2>1, <3>1 DEF Fresh
        <3> QED
            BY <1>b, <3>1, <3>2 DEF OnceInv, PrimaryRunsOnce, stream
    <2>3. CASE ~Full(Primary)
        <3> DEFINE c == <<"gui", guiCalls>>
        <3>1. c \in Chunk /\ guiCalls \in 1..MaxGui
            BY <2>1 DEF TypeInv, TypeOK, CallBegun, Chunk
        <3>2. c \notin Range(stream(Primary))
            BY <1>a, <1>b, <2>1, <3>1 DEF Fresh
        <3>3. stream(Primary)' = executed[Primary] \o Append(buf[Primary], c)
            BY <1>3, <1>a, <2>3 DEF GuiAdds, stream
        <3> HIDE DEF c
        <3>4. /\ IsInjective(stream(Primary)')
              /\ Range(stream(Primary)') = Range(stream(Primary)) \cup {c}
            BY <1>a, <1>b, <3>1, <3>2, <3>3, AppendFresh DEF stream
        <3>5. Fresh'
            BY <1>a, <1>b, <2>1, <3>4 DEF Fresh, c
        <3> QED
            BY <3>4, <3>5 DEF OnceInv, PrimaryRunsOnce, stream
    <2> QED
        BY <2>2, <2>3
<1>4. CASE KernelAdds
    <2>1. /\ guiHolds' = guiHolds /\ guiCalls' = guiCalls /\ kernelAdds' = kernelAdds + 1
          /\ executed' = executed
        BY <1>4 DEF KernelAdds
    <2> DEFINE c == <<"kernel", kernelAdds + 1>>
    <2>2. c \in Chunk /\ kernelAdds + 1 \in 1..MaxKernel
        <3>1. kernelAdds + 1 \in 1..MaxKernel
            BY <1>4, <1>a, ClusterAssumption DEF KernelAdds
        <3> QED
            BY <3>1 DEF Chunk
    <2>3. c \notin Range(stream(Primary))
        BY <1>a, <1>b, <2>2 DEF Fresh
    <2>4. stream(Primary)' = executed[Primary] \o Append(buf[Primary], c)
        BY <1>4, <1>a DEF KernelAdds, stream
    <2> HIDE DEF c
    <2>5. /\ IsInjective(stream(Primary)')
          /\ Range(stream(Primary)') = Range(stream(Primary)) \cup {c}
        BY <1>a, <1>b, <2>2, <2>3, <2>4, AppendFresh DEF stream
    <2>6. Fresh'
        BY <1>a, <1>b, <2>1, <2>5 DEF Fresh, c
    <2> QED
        BY <2>5, <2>6 DEF OnceInv, PrimaryRunsOnce, stream
<1>5. CASE Synchronise
    BY <1>5, <1>1, <1>a DEF Synchronise, stream
<1>6. ASSUME NEW n \in Nodes, RunOne(n) PROVE OnceInv'
    BY <1>6, <1>1, <1>a, RunKeepsStreams DEF RunOne
<1>7. ASSUME NEW n \in Nodes, RunBegins(n) \/ RunEnds(n) PROVE OnceInv'
    BY <1>7, <1>1 DEF RunBegins, RunEnds, stream
<1>8. CASE Barrier \/ UNCHANGED vars
    BY <1>8, <1>1 DEF Barrier, vars, stream
<1> QED
    BY <1>2, <1>3, <1>4, <1>5, <1>6, <1>7, <1>8 DEF Next, NodeStep

\* The primary runs a chunk at most once, although every frame copies its
\* buffer out.
THEOREM OnceCorrect == Spec => []PrimaryRunsOnce
<1>1. Spec => []OnceInv
    BY OnceInit, OnceStep, TypeInvariant, PTL DEF Spec
<1>2. OnceInv => PrimaryRunsOnce
    BY DEF OnceInv
<1> QED
    BY <1>1, <1>2, PTL

-----------------------------------------------------------------------------
(* Lockstep without another thread.                                         *)

\* The first k elements, while the head runs and while the tail grows.
LEMMA PrefixMoves ==
    ASSUME NEW S, NEW a \in Seq(S), NEW b \in Seq(S), NEW k \in 1..Len(b)
    PROVE  Append(a, Head(b)) \o SubSeq(Tail(b), 1, k - 1) = a \o SubSeq(b, 1, k)
<1>1. b # <<>> /\ Len(b) \in Nat /\ k \in Int
    BY EmptySeq, LenProperties
<1>2. Head(b) = b[1] /\ Tail(b) \in Seq(S) /\ Len(Tail(b)) = Len(b) - 1
      /\ \A i \in 1..Len(Tail(b)) : Tail(b)[i] = b[i + 1]
    BY <1>1, HeadTailProperties
<1> DEFINE s == SubSeq(b, 1, k)
           t == SubSeq(Tail(b), 1, k - 1)
<1>3. s \in Seq(S) /\ Len(s) = k /\ \A i \in 1..k : s[i] = b[i]
    BY <1>1, SubSeqProperties
<1>4. t \in Seq(S) /\ Len(t) = k - 1 /\ \A i \in 1..(k - 1) : t[i] = b[i + 1]
    BY <1>1, <1>2, SubSeqProperties
<1> HIDE DEF s, t
<1>5. s # <<>>
    BY <1>1, <1>3, EmptySeq
<1>6. Head(s) = Head(b) /\ Tail(s) = t
    <2>1. /\ Head(s) = s[1] /\ Tail(s) \in Seq(S) /\ Len(Tail(s)) = k - 1
          /\ \A i \in 1..(k - 1) : Tail(s)[i] = s[i + 1]
        BY <1>1, <1>3, <1>5, HeadTailProperties
    <2>2. s[1] = b[1] /\ \A i \in 1..(k - 1) : s[i + 1] = b[i + 1]
        BY <1>1, <1>3
    <2>3. Tail(s) = t
        BY <1>1, <1>4, <2>1, <2>2, SeqEqual
    <2> QED
        BY <1>2, <2>1, <2>2, <2>3
<1>7. Append(a, Head(s)) \o Tail(s) = a \o s
    BY <1>3, <1>5, HeadMoves
<1> QED
    BY <1>6, <1>7 DEF s, t

LEMMA PrefixKept ==
    ASSUME NEW S, NEW b \in Seq(S), NEW c \in S, NEW k \in 0..Len(b)
    PROVE  SubSeq(Append(b, c), 1, k) = SubSeq(b, 1, k)
<1>1. /\ Append(b, c) \in Seq(S) /\ Len(Append(b, c)) = Len(b) + 1
      /\ \A i \in 1..Len(b) : Append(b, c)[i] = b[i]
    BY AppendProperties
<1>2. Len(b) \in Nat /\ k \in Nat
    BY LenProperties
<1> DEFINE s == SubSeq(b, 1, k)
           t == SubSeq(Append(b, c), 1, k)
<1>3. s \in Seq(S) /\ Len(s) = k /\ \A i \in 1..k : s[i] = b[i]
    BY <1>2, SubSeqProperties
<1>4. t \in Seq(S) /\ Len(t) = k /\ \A i \in 1..k : t[i] = Append(b, c)[i]
    BY <1>1, <1>2, SubSeqProperties
<1> HIDE DEF s, t
<1>5. \A i \in 1..k : t[i] = s[i]
    BY <1>1, <1>2, <1>3, <1>4
<1>6. t = s
    BY <1>2, <1>3, <1>4, <1>5, SeqEqual
<1> QED
    BY <1>6 DEF s, t

\* What the primary has run and, of the chunks it sent in this frame, has yet to
\* run: not what scripts have added since.
primaryStream ==
    CASE phase[Primary] = "latePreFrame" -> stream(Primary)
      [] phase[Primary] = "loop" -> executed[Primary] \o SubSeq(buf[Primary], 1, left[Primary])
      [] OTHER -> executed[Primary]

\* While no other thread has touched the primary's buffer, the secondaries have
\* run or have pending just that.
LockInv ==
    guiCalls = 0 =>
        /\ phase[Primary] = "loop" => left[Primary] <= Len(buf[Primary])
        /\ \A s \in Secondaries : stream(s) = primaryStream

LEMMA LockInit == Init => LockInv
<1> SUFFICES ASSUME Init PROVE LockInv
    OBVIOUS
<1>1. \A n \in Nodes : stream(n) = <<>> \o <<>> /\ executed[n] = <<>> /\ phase[n] = "sync"
    BY DEF Init, stream
<1>2. <<>> \o <<>> = <<>>
    BY EmptySeq, ConcatEmptySeq
<1> QED
    BY <1>1, <1>2 DEF LockInv, primaryStream, Nodes

LEMMA LockStep == TypeInv /\ TypeInv' /\ AgreeInv /\ LockInv /\ [Next]_vars => LockInv'
<1> SUFFICES ASSUME TypeInv, TypeInv', AgreeInv, LockInv, [Next]_vars, guiCalls' = 0
             PROVE  /\ phase'[Primary] = "loop" => left'[Primary] <= Len(buf'[Primary])
                    /\ \A s \in Secondaries : stream(s)' = primaryStream'
    BY DEF LockInv
<1>a. Primary \notin Secondaries /\ Secondaries \subseteq Nodes /\ Primary \in Nodes
    BY ClusterAssumption DEF Nodes
<1>b. /\ \A n \in Nodes : buf[n] \in Seq(Chunk) /\ executed[n] \in Seq(Chunk) /\ Len(buf[n]) \in Nat
      /\ buf \in [Nodes -> Seq(Chunk)] /\ executed \in [Nodes -> Seq(Chunk)]
      /\ phase \in [Nodes -> Phases] /\ left \in [Nodes -> 0..Capacity]
      /\ \A n \in Nodes : left[n] \in Nat
    BY LenProperties, ClusterAssumption DEF TypeInv, TypeOK
<1>c. guiCalls = 0 /\ ~guiHolds /\ ~GuiLocks /\ ~GuiAdds
    <2>1. guiCalls \in Nat /\ (guiHolds => guiCalls >= 1)
        BY DEF TypeInv, TypeOK, CallBegun
    <2>2. guiCalls' = guiCalls \/ guiCalls' = guiCalls + 1
        BY DEF Next, NodeStep, GuiLocks, GuiAdds, KernelAdds, Synchronise, RunBegins, RunOne,
               RunEnds, Barrier, vars
    <2>3. guiCalls = 0 /\ ~guiHolds
        BY <2>1, <2>2
    <2> QED
        BY <2>3 DEF GuiLocks, GuiAdds
<1>d. /\ phase[Primary] = "loop" => left[Primary] <= Len(buf[Primary])
      /\ \A s \in Secondaries : stream(s) = primaryStream
    BY <1>c DEF LockInv
<1>1. CASE KernelAdds
    <2>1. \A s \in Secondaries : stream(s)' = stream(s)
        BY <1>1, AddKeepsOthers
    <2>2. /\ buf'[Primary] = Append(buf[Primary], <<"kernel", kernelAdds + 1>>)
          /\ UNCHANGED <<phase, left, executed>>
          /\ phase[Primary] \in {"loop", "draw"}
        BY <1>1, <1>a, <1>b DEF KernelAdds
    <2>3. <<"kernel", kernelAdds + 1>> \in Chunk
        BY <1>1 DEF KernelAdds, TypeInv, TypeOK, Chunk
    <2>4. Len(buf'[Primary]) = Len(buf[Primary]) + 1
        BY <1>a, <1>b, <2>2, <2>3, AppendProperties
    <2>5. phase[Primary] = "loop" =>
              SubSeq(buf'[Primary], 1, left[Primary]) = SubSeq(buf[Primary], 1, left[Primary])
        BY <1>a, <1>b, <1>d, <2>2, <2>3, PrefixKept
    <2>6. primaryStream' = primaryStream
        BY <2>2, <2>5 DEF primaryStream
    <2> QED
        BY <1>a, <1>b, <1>d, <2>1, <2>2, <2>4, <2>6
<1>2. CASE Synchronise
    <2>1. \A s \in Secondaries : stream(s) = executed[s] /\ stream(s) = executed[Primary]
        <3>1. \A s \in Secondaries : buf[s] = <<>> /\ phase[Primary] = "sync"
            BY <1>2, <1>a DEF Synchronise, AgreeInv, Emptied
        <3> QED
            BY <3>1, <1>a, <1>b, <1>d, ConcatEmptySeq DEF stream, primaryStream
    <2>2. \A s \in Secondaries : stream(s)' = executed[s] \o buf[Primary]
        BY <1>2, <1>a, ReceivedIsSent DEF Synchronise, stream
    <2>3. /\ phase'[Primary] = "latePreFrame"
          /\ stream(Primary)' = executed[Primary] \o buf[Primary]
        BY <1>2, <1>a DEF Synchronise, stream
    <2> QED
        BY <2>1, <2>2, <2>3 DEF primaryStream
<1>3. ASSUME NEW n \in Nodes, RunBegins(n)
      PROVE  /\ phase'[Primary] = "loop" => left'[Primary] <= Len(buf'[Primary])
             /\ \A s \in Secondaries : stream(s)' = primaryStream'
    <2>1. /\ UNCHANGED <<buf, executed>> /\ phase[n] = "latePreFrame"
          /\ left' = [left EXCEPT ![n] = Len(buf[n])]
          /\ phase' = [phase EXCEPT ![n] = "loop"]
        BY <1>3 DEF RunBegins
    <2>2. \A s \in Secondaries : stream(s)' = stream(s)
        BY <2>1 DEF stream
    <2>3. CASE n = Primary
        <3>1. phase'[Primary] = "loop" /\ left'[Primary] = Len(buf[Primary])
            BY <1>a, <1>b, <2>1, <2>3
        <3>2. SubSeq(buf[Primary], 1, Len(buf[Primary])) = buf[Primary]
            BY <1>a, <1>b, SubSeqFull
        <3>3. primaryStream = executed[Primary] \o buf[Primary]
            BY <2>1, <2>3 DEF primaryStream, stream
        <3>4. primaryStream' = executed'[Primary] \o SubSeq(buf'[Primary], 1, left'[Primary])
            BY <3>1 DEF primaryStream
        <3>5. primaryStream' = primaryStream
            BY <2>1, <3>1, <3>2, <3>3, <3>4
        <3> QED
            BY <1>a, <1>b, <1>d, <2>1, <2>2, <3>1, <3>5
    <2>4. CASE n # Primary
        <3>1. phase'[Primary] = phase[Primary] /\ left'[Primary] = left[Primary]
            BY <1>a, <1>b, <2>1, <2>4
        <3> QED
            BY <1>d, <2>1, <2>2, <3>1 DEF primaryStream, stream
    <2> QED
        BY <2>3, <2>4
<1>4. ASSUME NEW n \in Nodes, RunOne(n)
      PROVE  /\ phase'[Primary] = "loop" => left'[Primary] <= Len(buf'[Primary])
             /\ \A s \in Secondaries : stream(s)' = primaryStream'
    <2>1. \A s \in Secondaries : stream(s)' = stream(s)
        BY <1>4, <1>a, RunKeepsStreams
    <2>2. /\ phase[n] = "loop" /\ left[n] > 0 /\ buf[n] # <<>> /\ phase' = phase
          /\ executed' = [executed EXCEPT ![n] = Append(executed[n], Head(buf[n]))]
          /\ buf' = [buf EXCEPT ![n] = Tail(buf[n])]
          /\ left' = [left EXCEPT ![n] = left[n] - 1]
        BY <1>4 DEF RunOne
    <2>3. CASE n = Primary
        <3>1. /\ executed'[Primary] = Append(executed[Primary], Head(buf[Primary]))
              /\ buf'[Primary] = Tail(buf[Primary])
              /\ left'[Primary] = left[Primary] - 1
            BY <1>a, <1>b, <2>2, <2>3
        <3>2. left[Primary] \in 1..Len(buf[Primary]) /\ Len(Tail(buf[Primary])) = Len(buf[Primary]) - 1
            BY <1>a, <1>b, <1>d, <2>2, <2>3, HeadTailProperties
        <3>3. Append(executed[Primary], Head(buf[Primary])) \o SubSeq(Tail(buf[Primary]), 1, left[Primary] - 1)
                  = executed[Primary] \o SubSeq(buf[Primary], 1, left[Primary])
            BY <1>a, <1>b, <3>2, PrefixMoves
        <3>4. primaryStream' = primaryStream
            BY <2>2, <2>3, <3>1, <3>3 DEF primaryStream
        <3> QED
            BY <1>a, <1>b, <1>d, <2>1, <2>2, <3>1, <3>2, <3>4
    <2>4. CASE n # Primary
        <3>1. /\ executed'[Primary] = executed[Primary] /\ buf'[Primary] = buf[Primary]
              /\ left'[Primary] = left[Primary]
            BY <1>a, <1>b, <2>2, <2>4
        <3> QED
            BY <1>d, <2>1, <2>2, <3>1 DEF primaryStream, stream
    <2> QED
        BY <2>3, <2>4
<1>5. ASSUME NEW n \in Nodes, RunEnds(n)
      PROVE  /\ phase'[Primary] = "loop" => left'[Primary] <= Len(buf'[Primary])
             /\ \A s \in Secondaries : stream(s)' = primaryStream'
    <2>1. /\ UNCHANGED <<buf, executed>> /\ phase[n] = "loop"
          /\ left' = [left EXCEPT ![n] = 0]
          /\ phase' = [phase EXCEPT ![n] = "draw"]
          /\ left[n] = 0 \/ buf[n] = <<>>
        BY <1>5, <1>c DEF RunEnds, Contended
    <2>2. \A s \in Secondaries : stream(s)' = stream(s)
        BY <2>1 DEF stream
    <2>3. CASE n = Primary
        <3>1. phase'[Primary] = "draw"
            BY <1>a, <1>b, <2>1, <2>3
        <3>2. left[Primary] = 0
            BY <1>a, <1>b, <1>d, <2>1, <2>3, EmptySeq
        <3>3. SubSeq(buf[Primary], 1, 0) = <<>>
            BY <1>a, <1>b, SubSeqEmpty
        <3>4. primaryStream = executed[Primary]
            BY <1>a, <1>b, <2>1, <2>3, <3>2, <3>3, ConcatEmptySeq DEF primaryStream
        <3>5. primaryStream' = executed[Primary]
            BY <2>1, <3>1 DEF primaryStream
        <3> QED
            BY <1>d, <2>2, <3>1, <3>4, <3>5
    <2>4. CASE n # Primary
        <3>1. phase'[Primary] = phase[Primary] /\ left'[Primary] = left[Primary]
            BY <1>a, <1>b, <2>1, <2>4
        <3> QED
            BY <1>d, <2>1, <2>2, <3>1 DEF primaryStream, stream
    <2> QED
        BY <2>3, <2>4
<1>6. CASE Barrier
    <2>1. /\ UNCHANGED <<buf, executed, left>> /\ phase[Primary] = "draw" /\ phase'[Primary] = "sync"
        BY <1>6, <1>a DEF Barrier
    <2> QED
        BY <1>d, <2>1 DEF primaryStream, stream
<1>7. CASE UNCHANGED vars
    BY <1>7, <1>d DEF vars, primaryStream, stream
<1> QED
    BY <1>c, <1>1, <1>2, <1>3, <1>4, <1>5, <1>6, <1>7 DEF Next, NodeStep

\* As long as only scripts on the kernel thread add chunks, all the nodes of every
\* cluster have run the same chunks in the same order at every barrier, whatever
\* those scripts add while the frame's chunks run.
THEOREM LockstepCorrect == Spec => []Lockstep
<1>1. Spec => []AgreeInv
    BY AgreeInit, AgreeStep, TypeInvariant, PTL DEF Spec
<1>2. Spec => []LockInv
    BY <1>1, LockInit, LockStep, TypeInvariant, PTL DEF Spec
<1>3. TypeInv /\ AgreeInv /\ LockInv => Lockstep
    <2> SUFFICES ASSUME TypeInv, AgreeInv, LockInv, AtBarrier, guiCalls = 0, NEW n \in Nodes
                 PROVE  executed[n] = executed[Primary]
        BY DEF Lockstep
    <2>1. CASE n \in Secondaries
        <3>1. buf[n] = <<>> /\ executed[n] \in Seq(Chunk) /\ phase[Primary] = "draw"
            BY <2>1 DEF AtBarrier, AgreeInv, Emptied, TypeInv, TypeOK, Nodes
        <3>2. stream(n) = executed[n] /\ stream(n) = executed[Primary]
            BY <2>1, <3>1, ConcatEmptySeq DEF stream, LockInv, primaryStream
        <3> QED
            BY <3>2
    <2> QED
        BY <2>1 DEF Nodes
<1> QED
    BY <1>1, <1>2, <1>3, TypeInvariant, PTL
\* The nodes of every cluster stay consistent.
THEOREM ClusterCorrect == Spec => []ClusterConsistent
<1>1. SecondariesAgree /\ NothingOnlyOnSecondaries /\ PrimaryRunsOnce /\ Lockstep => ClusterConsistent
    BY DEF ClusterConsistent
<1> QED
    BY <1>1, SecondariesCorrect, PrimaryCovers, OnceCorrect, LockstepCorrect, PTL

-----------------------------------------------------------------------------
(* The buffers implement a replicated log.                                  *)

\* The abstract variables.
sent == [s \in Secondaries |-> stream(s)]
counts == [n \in Nodes |-> Len(executed[n])]

LEMMA PendingIsRest ==
    ASSUME NEW S, NEW a \in Seq(S), NEW b \in Seq(S)
    PROVE  SubSeq(a \o b, Len(a) + 1, Len(a \o b)) = b
<1> DEFINE s == a \o b
           m == Len(a) + 1
           n == Len(a) + Len(b)
<1>1. /\ s \in Seq(S) /\ Len(s) = n
      /\ \A i \in 1..n : s[i] = IF i <= Len(a) THEN a[i] ELSE b[i - Len(a)]
    BY ConcatProperties
<1>2. Len(a) \in Nat /\ Len(b) \in Nat
    BY LenProperties
<1> HIDE DEF s
<1>3. \A i \in m..n : s[i] \in S
    <2> TAKE i \in m..n
    <2>1. i \in 1..Len(s)
        BY <1>1, <1>2
    <2> QED
        BY <1>1, <2>1
<1> DEFINE t == SubSeq(s, m, n)
<1>4. /\ t \in Seq(S)
      /\ Len(t) = IF m <= n THEN n - m + 1 ELSE 0
      /\ \A i \in 1..(n - m + 1) : t[i] = s[m + i - 1]
    BY <1>2, <1>3, SubSeqProperties
<1> HIDE DEF t
<1>5. Len(t) = Len(b)
    BY <1>2, <1>4
<1>6. \A i \in 1..Len(b) : t[i] = b[i]
    <2> TAKE i \in 1..Len(b)
    <2>1. /\ i \in 1..(n - m + 1) /\ m + i - 1 = Len(a) + i /\ Len(a) + i \in 1..n
          /\ ~(Len(a) + i <= Len(a)) /\ (Len(a) + i) - Len(a) = i
        BY <1>2
    <2> QED
        BY <1>1, <1>4, <2>1
<1>7. t = b
    BY <1>4, <1>5, <1>6, SeqEqual
<1> QED
    BY <1>1, <1>7 DEF t, s

LEMMA AppendToStream ==
    \A a, b \in Seq(Chunk) : \A c \in Chunk : a \o Append(b, c) = Append(a \o b, c)
BY AppendToConcat

\* A chunk that is added goes to the log's end.
LEMMA AddedToLog ==
    ASSUME TypeInv, NEW c \in Chunk, c \notin Range(stream(Primary)),
           buf' = [buf EXCEPT ![Primary] = Append(@, c)], executed' = executed
    PROVE  Log!Accept(c)
<1>1. /\ Primary \in Nodes /\ Primary \notin Secondaries /\ Secondaries \subseteq Nodes
      /\ buf \in [Nodes -> Seq(Chunk)]
      /\ buf[Primary] \in Seq(Chunk) /\ executed[Primary] \in Seq(Chunk)
    BY ClusterAssumption DEF TypeInv, TypeOK, Nodes
<1>2. stream(Primary)' = Append(stream(Primary), c)
    <2>1. stream(Primary)' = executed[Primary] \o Append(buf[Primary], c)
        BY <1>1 DEF stream
    <2>2. executed[Primary] \o Append(buf[Primary], c) = Append(executed[Primary] \o buf[Primary], c)
        BY <1>1, AppendToStream, Zenon
    <2> QED
        BY <2>1, <2>2 DEF stream
<1>3. \A k \in 1..Len(stream(Primary)) : stream(Primary)[k] # c
    <2>1. DOMAIN stream(Primary) = 1..Len(stream(Primary))
        BY <1>1, StreamType, LenProperties
    <2> QED
        BY <2>1 DEF Range
<1>4. sent' = sent
    BY <1>1 DEF sent, stream
<1>5. counts' = counts
    BY DEF counts
<1> QED
    BY <1>2, <1>3, <1>4, <1>5 DEF Log!Accept, sent, counts

LEMMA LogStep == TypeInv /\ AgreeInv /\ OnceInv /\ [Next]_vars => [Log!Next]_Log!vars
<1> SUFFICES ASSUME TypeInv, AgreeInv, OnceInv, [Next]_vars
             PROVE  Log!Next \/ UNCHANGED Log!vars
    OBVIOUS
<1>a. /\ Primary \in Nodes /\ Primary \notin Secondaries /\ Secondaries \subseteq Nodes
      /\ buf \in [Nodes -> Seq(Chunk)] /\ executed \in [Nodes -> Seq(Chunk)]
      /\ guiCalls \in Nat /\ kernelAdds \in Nat
    BY ClusterAssumption DEF TypeInv, TypeOK, Nodes
<1>1. CASE UNCHANGED <<executed, buf>>
    BY <1>1 DEF Log!vars, stream
<1>2. CASE GuiAdds
    <2>1. CASE Full(Primary)
        BY <1>1, <1>2, <2>1 DEF GuiAdds
    <2>2. CASE ~Full(Primary)
        <3> DEFINE c == <<"gui", guiCalls>>
        <3>1. c \in Chunk /\ guiCalls \in 1..MaxGui
            BY <1>2 DEF GuiAdds, TypeInv, TypeOK, CallBegun, Chunk
        <3>2. c \notin Range(stream(Primary))
            BY <1>a, <1>2, <3>1 DEF GuiAdds, OnceInv, Fresh
        <3>3. buf' = [buf EXCEPT ![Primary] = Append(@, c)] /\ executed' = executed
            BY <1>2, <2>2 DEF GuiAdds
        <3> HIDE DEF c
        <3>4. Log!Accept(c)
            BY <3>1, <3>2, <3>3, AddedToLog
        <3> QED
            BY <3>1, <3>4 DEF Log!Next
    <2> QED
        BY <2>1, <2>2
<1>3. CASE KernelAdds
    <2> DEFINE c == <<"kernel", kernelAdds + 1>>
    <2>1. kernelAdds + 1 \in 1..MaxKernel
        BY <1>a, <1>3, ClusterAssumption DEF KernelAdds
    <2>2. c \in Chunk
        BY <2>1 DEF Chunk
    <2>3. c \notin Range(stream(Primary))
        BY <1>a, <2>1 DEF OnceInv, Fresh
    <2>4. buf' = [buf EXCEPT ![Primary] = Append(@, c)] /\ executed' = executed
        BY <1>3 DEF KernelAdds
    <2> HIDE DEF c
    <2>5. Log!Accept(c)
        BY <2>2, <2>3, <2>4, AddedToLog
    <2> QED
        BY <2>2, <2>5 DEF Log!Next
<1>4. CASE Synchronise
    <2>1. /\ executed' = executed /\ \A s \in Secondaries : phase[s] = "sync"
          /\ \A s \in Secondaries : buf'[s] = buf[Primary]
          /\ buf'[Primary] = buf[Primary]
        BY <1>a, <1>4, ReceivedIsSent DEF Synchronise
    <2>2. \A s \in Secondaries : stream(s) = executed[s]
        <3> TAKE s \in Secondaries
        <3>1. buf[s] = <<>> /\ executed[s] \in Seq(Chunk)
            BY <1>a, <2>1 DEF AgreeInv, Emptied
        <3> QED
            BY <3>1, ConcatEmptySeq DEF stream
    <2>3. \A s \in Secondaries : counts[s] = Len(sent[s])
        BY <1>a, <2>2 DEF counts, sent
    <2>4. SubSeq(stream(Primary), counts[Primary] + 1, Len(stream(Primary))) = buf[Primary]
        BY <1>a, PendingIsRest DEF counts, stream
    <2>5. sent' = [s \in Secondaries |-> sent[s] \o buf[Primary]]
        BY <1>a, <2>1, <2>2 DEF sent, stream
    <2>6. stream(Primary)' = stream(Primary) /\ counts' = counts
        BY <1>a, <2>1 DEF stream, counts
    <2>7. Log!Send
        BY <2>3, <2>4, <2>5, <2>6 DEF Log!Send, sent, counts
    <2> QED
        BY <2>7 DEF Log!Next
<1>5. ASSUME NEW n \in Nodes, RunOne(n) PROVE Log!Next
    <2>1. /\ executed' = [executed EXCEPT ![n] = Append(executed[n], Head(buf[n]))]
          /\ buf[n] # <<>> /\ buf[n] \in Seq(Chunk) /\ executed[n] \in Seq(Chunk)
        BY <1>a, <1>5 DEF RunOne
    <2>2. \A m \in Nodes : stream(m)' = stream(m)
        BY <1>5, RunKeepsStreams
    <2>3. stream(Primary)' = stream(Primary) /\ sent' = sent
        BY <1>a, <2>2 DEF sent
    <2>4. counts' = [counts EXCEPT ![n] = counts[n] + 1]
        <3>1. Head(buf[n]) \in Chunk
            BY <2>1, HeadMoves
        <3>2. Len(Append(executed[n], Head(buf[n]))) = Len(executed[n]) + 1
            BY <2>1, <3>1, AppendProperties
        <3> QED
            BY <1>a, <2>1, <3>2 DEF counts
    <2>5. counts[n] < Len(stream(n))
        <3>1. Len(stream(n)) = Len(executed[n]) + Len(buf[n])
            BY <2>1, ConcatProperties DEF stream
        <3>2. Len(executed[n]) \in Nat /\ Len(buf[n]) \in Nat \ {0}
            BY <2>1, EmptySeq, LenProperties
        <3>3. counts[n] = Len(executed[n])
            BY <1>5 DEF counts
        <3>4. \A i \in Nat : \A j \in Nat \ {0} : i < i + j
            OBVIOUS
        <3> QED
            BY <3>1, <3>2, <3>3, <3>4
    <2>6. stream(n) = IF n = Primary THEN stream(Primary) ELSE sent[n]
        BY <1>5 DEF Nodes, sent
    <2>7. Log!Execute(n)
        BY <2>3, <2>4, <2>5, <2>6 DEF Log!Execute, Log!Script, sent, counts
    <2> QED
        BY <2>7 DEF Log!Next, Log!Nodes, Nodes
<1> QED
    BY <1>1, <1>2, <1>3, <1>4, <1>5
       DEF Next, NodeStep, GuiLocks, RunBegins, RunEnds, Barrier, vars

\* The buffers of a cluster, copied and drained frame by frame, are a replicated
\* log: all secondaries are sent the same, what the primary has yet to run, in its
\* order, and only when they have run what they have.
THEOREM RefinesLog == Spec => LogSpec
<1>1. Init => Log!Init
    <2> SUFFICES ASSUME Init PROVE Log!Init
        OBVIOUS
    <2>1. \A n \in Nodes : executed[n] = <<>> /\ buf[n] = <<>>
        BY DEF Init
    <2>2. <<>> \o <<>> = <<>> /\ Len(<<>>) = 0
        BY EmptySeq, ConcatEmptySeq
    <2>3. \A n \in Nodes : stream(n) = <<>> /\ Len(executed[n]) = 0
        BY <2>1, <2>2 DEF stream
    <2> QED
        BY <2>3 DEF Log!Init, Log!Nodes, Nodes
<1>2. Spec => [](TypeInv /\ AgreeInv /\ OnceInv)
    BY AgreeInit, AgreeStep, OnceInit, OnceStep, TypeInvariant, PTL DEF Spec
<1> QED
    BY <1>1, <1>2, LogStep, PTL DEF Spec, LogSpec, Log!Spec
=============================================================================
