--------------------------- MODULE RunBufferProofs ----------------------------
(***************************************************************************)
(* Proofs about RunBuffer for every number of threads, every capacity and  *)
(* every number of calls.                                                  *)
(***************************************************************************)
EXTENDS RunBuffer, SequenceTheorems, TLAPS

-----------------------------------------------------------------------------
(* Sequences of chunks.                                                     *)

\* Taking the head of the last part into an empty middle changes nothing.
LEMMA HeadToConcat ==
    ASSUME NEW S, NEW a \in Seq(S), NEW b \in Seq(S), b # <<>>
    PROVE  (a \o <<>>) \o b = (a \o <<Head(b)>>) \o Tail(b)
<1>1. Head(b) \in S /\ Tail(b) \in Seq(S) /\ <<Head(b)>> \in Seq(S)
    BY HeadTailProperties
<1>2. <<Head(b)>> \o Tail(b) = b
    BY <1>1, HeadTailProperties
<1>3. a \o <<>> = a
    BY ConcatEmptySeq
<1> QED
    BY <1>1, <1>2, <1>3, ConcatAssociative

-----------------------------------------------------------------------------
(* Type correctness.                                                        *)

\* A thread inside addString has made at least one call, so the chunk it
\* carries is a chunk.
ActiveCall == \A t \in Thread : pc[t] # "idle" => calls[t] >= 1

\* Between the emptiness test of the loop and the pop nobody but the consumer
\* removes a chunk.
PopReady == frame \in {"try", "pop"} => buf # <<>>

TypeInv == TypeOK /\ ActiveCall /\ PopReady

LEMMA ArgIsChunk ==
    ASSUME TypeInv, NEW t \in Thread, pc[t] # "idle"
    PROVE  Arg(t) \in Chunk
BY RunBufferAssumption DEF TypeInv, TypeOK, ActiveCall, Arg, Chunk

LEMMA PushBackType ==
    ASSUME NEW b \in Seq(Chunk), NEW c \in Chunk
    PROVE  PushBack(b, c) \in Seq(Chunk) /\ PushBack(b, c) # <<>>
<1>1. ASSUME NEW d \in Seq(Chunk)
      PROVE  Append(d, c) \in Seq(Chunk) /\ Append(d, c) # <<>>
    BY AppendProperties
<1>2. CASE Len(b) = Capacity
    <2>1. b # <<>>
        BY <1>2, RunBufferAssumption
    <2> QED
        BY <1>1, <1>2, <2>1 DEF PushBack
<1>3. CASE Len(b) # Capacity
    BY <1>1, <1>3 DEF PushBack
<1> QED
    BY <1>2, <1>3

LEMMA TypeInit == Init => TypeInv
BY RunBufferAssumption
   DEF Init, TypeInv, TypeOK, ActiveCall, PopReady, Thread, AddPoints, RunPoints

LEMMA TypeStep == TypeInv /\ [Next]_vars => TypeInv'
<1> SUFFICES ASSUME TypeInv, [Next]_vars
             PROVE  TypeInv'
    OBVIOUS
<1> USE RunBufferAssumption
<1>1. ASSUME NEW t \in Thread, TryAcquire(t) PROVE TypeInv'
    BY <1>1 DEF TypeInv, TypeOK, ActiveCall, PopReady, AddPoints, TryAcquire, MayCall, runVars
<1>2. ASSUME NEW t \in Thread, TryFails(t) PROVE TypeInv'
    BY <1>2 DEF TypeInv, TypeOK, ActiveCall, PopReady, AddPoints, TryFails, MayCall, runVars
<1>3. ASSUME NEW t \in Thread, CallBlocking(t) PROVE TypeInv'
    BY <1>3 DEF TypeInv, TypeOK, ActiveCall, PopReady, AddPoints, CallBlocking, MayCall, runVars
<1>4. ASSUME NEW t \in Thread, Acquire(t) PROVE TypeInv'
    BY <1>4 DEF TypeInv, TypeOK, ActiveCall, PopReady, AddPoints, Acquire, runVars
<1>5. ASSUME NEW t \in Thread, SeesSpace(t) PROVE TypeInv'
    BY <1>5 DEF TypeInv, TypeOK, ActiveCall, PopReady, AddPoints, SeesSpace, runVars
<1>6. ASSUME NEW t \in Thread, BailOut(t) PROVE TypeInv'
    BY <1>6 DEF TypeInv, TypeOK, ActiveCall, PopReady, AddPoints, BailOut, runVars
<1>7. ASSUME NEW t \in Thread, Wait(t) PROVE TypeInv'
    BY <1>7 DEF TypeInv, TypeOK, ActiveCall, PopReady, AddPoints, Wait, runVars
<1>8. ASSUME NEW t \in Thread, Wake(t) PROVE TypeInv'
    BY <1>8 DEF TypeInv, TypeOK, ActiveCall, PopReady, AddPoints, Wake, runVars
<1>9. ASSUME NEW t \in Thread, SpuriousWakeup(t) PROVE TypeInv'
    BY <1>9 DEF TypeInv, TypeOK, ActiveCall, PopReady, AddPoints, SpuriousWakeup, runVars
<1>10. ASSUME NEW t \in Thread, Push(t) PROVE TypeInv'
    <2>1. Arg(t) \in Chunk
        BY <1>10, ArgIsChunk DEF Push
    <2>2. buf' \in Seq(Chunk) /\ buf' # <<>>
        BY <1>10, <2>1, PushBackType DEF Push, TypeInv, TypeOK
    <2> QED
        BY <1>10, <2>1, <2>2 DEF TypeInv, TypeOK, ActiveCall, PopReady, AddPoints, Push, runVars
<1>11. CASE EmptyTest
    BY <1>11 DEF TypeInv, TypeOK, ActiveCall, PopReady, RunPoints, EmptyTest, addVars
<1>12. CASE ReadSize
    BY <1>12 DEF TypeInv, TypeOK, ActiveCall, PopReady, RunPoints, ReadSize, addVars
<1>13. CASE LoopBody
    BY <1>13 DEF TypeInv, TypeOK, ActiveCall, PopReady, RunPoints, LoopBody, addVars
<1>14. CASE LoopExit
    BY <1>14 DEF TypeInv, TypeOK, ActiveCall, PopReady, RunPoints, LoopExit, addVars
<1>15. CASE LockForPop
    BY <1>15 DEF TypeInv, TypeOK, ActiveCall, PopReady, RunPoints, LockForPop, ConsumerAt, addVars, Thread
<1>16. CASE GiveUpFrame
    BY <1>16 DEF TypeInv, TypeOK, ActiveCall, PopReady, RunPoints, GiveUpFrame, addVars
<1>17. CASE Pop
    <2>1. buf # <<>>
        BY <1>17 DEF TypeInv, PopReady, Pop, ConsumerAt
    <2> QED
        BY <1>17, <2>1 DEF TypeInv, TypeOK, ActiveCall, PopReady, RunPoints, Pop, Signal
<1>18. CASE RunReturns
    BY <1>18 DEF TypeInv, TypeOK, ActiveCall, PopReady, RunPoints, RunReturns, addVars
<1>19. CASE UNCHANGED vars
    BY <1>19 DEF TypeInv, TypeOK, ActiveCall, PopReady, vars, addVars, runVars
<1> QED
    BY <1>1, <1>2, <1>3, <1>4, <1>5, <1>6, <1>7, <1>8, <1>9, <1>10, <1>11, <1>12,
       <1>13, <1>14, <1>15, <1>16, <1>17, <1>18, <1>19
       DEF Next, AddString, RunBufferStep

\* Every variable of the run buffer keeps its type.
THEOREM TypeCorrect == Spec => []TypeOK
<1>1. Spec => []TypeInv
    BY TypeInit, TypeStep, PTL DEF Spec
<1>2. TypeInv => TypeOK
    BY DEF TypeInv
<1> QED
    BY <1>1, <1>2, PTL

-----------------------------------------------------------------------------
(* The lock and the capacity.                                               *)

\* The consumer enters addString only from outside runBuffer's own steps.
ConsumerPlace == pc[Consumer] # "idle" => frame \in {"out", "run"}

\* Nobody adds between a thread's test of _full() and its push: it has the
\* lock, and only the lock's holder pushes.
SpaceForPush == \A t \in Thread : pc[t] = "push" => Len(buf) < Capacity

LockInv == MutualExclusion /\ ConsumerPlace /\ SpaceForPush

LEMMA LockInit == Init => LockInv
BY RunBufferAssumption
   DEF Init, LockInv, MutualExclusion, ConsumerPlace, SpaceForPush, Holds, Thread

LEMMA LockStep == TypeInv /\ LockInv /\ [Next]_vars => LockInv'
<1> SUFFICES ASSUME TypeInv, LockInv, [Next]_vars
             PROVE  LockInv'
    OBVIOUS
<1> USE RunBufferAssumption
    DEF LockInv, MutualExclusion, ConsumerPlace, SpaceForPush, Holds, Thread,
        TypeInv, TypeOK
<1>1. ASSUME NEW t \in Thread, TryAcquire(t) PROVE LockInv'
    BY <1>1 DEF TryAcquire, MayCall, runVars
<1>2. ASSUME NEW t \in Thread, TryFails(t) PROVE LockInv'
    BY <1>2 DEF TryFails, MayCall, runVars
<1>3. ASSUME NEW t \in Thread, CallBlocking(t) PROVE LockInv'
    BY <1>3 DEF CallBlocking, MayCall, runVars
<1>4. ASSUME NEW t \in Thread, Acquire(t) PROVE LockInv'
    BY <1>4 DEF Acquire, runVars
<1>5. ASSUME NEW t \in Thread, SeesSpace(t) PROVE LockInv'
    BY <1>5 DEF SeesSpace, Full, runVars
<1>6. ASSUME NEW t \in Thread, BailOut(t) PROVE LockInv'
    BY <1>6 DEF BailOut, runVars
<1>7. ASSUME NEW t \in Thread, Wait(t) PROVE LockInv'
    BY <1>7 DEF Wait, runVars
<1>8. ASSUME NEW t \in Thread, Wake(t) PROVE LockInv'
    BY <1>8 DEF Wake, runVars
<1>9. ASSUME NEW t \in Thread, SpuriousWakeup(t) PROVE LockInv'
    BY <1>9 DEF SpuriousWakeup, runVars
<1>10. ASSUME NEW t \in Thread, Push(t) PROVE LockInv'
    <2>1. Len(buf) < Capacity /\ lock = t /\ Arg(t) \in Chunk
        BY <1>10, ArgIsChunk DEF Push
    <2>2. buf' = Append(buf, Arg(t)) /\ Len(buf') = Len(buf) + 1
        BY <1>10, <2>1 DEF Push, PushBack
    <2> QED
        BY <1>10, <2>1, <2>2 DEF Push, runVars
<1>11. CASE EmptyTest
    BY <1>11 DEF EmptyTest, ConsumerAt, addVars
<1>12. CASE ReadSize
    BY <1>12 DEF ReadSize, ConsumerAt, addVars
<1>13. CASE LoopBody
    BY <1>13 DEF LoopBody, ConsumerAt, addVars
<1>14. CASE LoopExit
    BY <1>14 DEF LoopExit, ConsumerAt, addVars
<1>15. CASE LockForPop
    BY <1>15 DEF LockForPop, ConsumerAt, addVars
<1>16. CASE GiveUpFrame
    BY <1>16 DEF GiveUpFrame, ConsumerAt, addVars
<1>17. CASE Pop
    <2>1. buf # <<>>
        BY <1>17 DEF PopReady, Pop, ConsumerAt
    <2>2. Len(buf') = Len(buf) - 1 /\ Len(buf') \in Nat
        BY <1>17, <2>1 DEF Pop
    <2> QED
        BY <1>17, <2>2 DEF Pop, ConsumerAt
<1>18. CASE RunReturns
    BY <1>18 DEF RunReturns, ConsumerAt, addVars
<1>19. CASE UNCHANGED vars
    BY <1>19 DEF vars, addVars, runVars
<1> QED
    BY <1>1, <1>2, <1>3, <1>4, <1>5, <1>6, <1>7, <1>8, <1>9, <1>10, <1>11, <1>12,
       <1>13, <1>14, <1>15, <1>16, <1>17, <1>18, <1>19
       DEF Next, AddString, RunBufferStep

-----------------------------------------------------------------------------
(* Order of execution.                                                      *)

\* A chunk is executing exactly while runBuffer is inside runString.
OneCurrent ==
    IF frame = "run" THEN current # <<>> /\ Len(current) = 1 ELSE current = <<>>

OrderInv == AcceptedInOrder /\ OneCurrent

LEMMA OrderInit == Init => OrderInv
BY ConcatEmptySeq DEF Init, OrderInv, AcceptedInOrder, OneCurrent

LEMMA OrderStep == TypeInv /\ LockInv /\ OrderInv /\ [Next]_vars => OrderInv'
<1> SUFFICES ASSUME TypeInv, LockInv, OrderInv, [Next]_vars
             PROVE  OrderInv'
    OBVIOUS
<1> USE DEF OrderInv, AcceptedInOrder, OneCurrent, TypeInv, TypeOK
<1>1. ASSUME NEW t \in Thread, TryAcquire(t) PROVE OrderInv'
    BY <1>1 DEF TryAcquire, MayCall, runVars
<1>2. ASSUME NEW t \in Thread, TryFails(t) PROVE OrderInv'
    BY <1>2 DEF TryFails, MayCall, runVars
<1>3. ASSUME NEW t \in Thread, CallBlocking(t) PROVE OrderInv'
    BY <1>3 DEF CallBlocking, MayCall, runVars
<1>4. ASSUME NEW t \in Thread, Acquire(t) PROVE OrderInv'
    BY <1>4 DEF Acquire, runVars
<1>5. ASSUME NEW t \in Thread, SeesSpace(t) PROVE OrderInv'
    BY <1>5 DEF SeesSpace, runVars
<1>6. ASSUME NEW t \in Thread, BailOut(t) PROVE OrderInv'
    BY <1>6 DEF BailOut, runVars
<1>7. ASSUME NEW t \in Thread, Wait(t) PROVE OrderInv'
    BY <1>7 DEF Wait, runVars
<1>8. ASSUME NEW t \in Thread, Wake(t) PROVE OrderInv'
    BY <1>8 DEF Wake, runVars
<1>9. ASSUME NEW t \in Thread, SpuriousWakeup(t) PROVE OrderInv'
    BY <1>9 DEF SpuriousWakeup, runVars
<1>10. ASSUME NEW t \in Thread, Push(t) PROVE OrderInv'
    <2>1. Len(buf) < Capacity /\ Arg(t) \in Chunk
        BY <1>10, ArgIsChunk DEF Push, LockInv, SpaceForPush
    <2>2. buf' = Append(buf, Arg(t)) /\ accepted' = Append(accepted, Arg(t))
        BY <1>10, <2>1, RunBufferAssumption DEF Push, PushBack
    <2>3. executed \o current \in Seq(Chunk)
        BY ConcatProperties
    <2>4. <<Arg(t)>> \in Seq(Chunk) /\ buf \in Seq(Chunk)
        BY <2>1
    <2>5. /\ accepted' = ((executed \o current) \o buf) \o <<Arg(t)>>
          /\ buf' = buf \o <<Arg(t)>>
        BY <2>1, <2>2, <2>3, AppendIsConcat
    <2>6. ((executed \o current) \o buf) \o <<Arg(t)>>
            = (executed \o current) \o (buf \o <<Arg(t)>>)
        BY ONLY <2>3, <2>4, ConcatAssociative
    <2>7. accepted' = (executed \o current) \o buf'
        BY ONLY <2>5, <2>6
    <2> QED
        BY <1>10, <2>7 DEF Push, runVars
<1>11. CASE EmptyTest
    BY <1>11 DEF EmptyTest, ConsumerAt, addVars
<1>12. CASE ReadSize
    BY <1>12 DEF ReadSize, ConsumerAt, addVars
<1>13. CASE LoopBody
    BY <1>13 DEF LoopBody, ConsumerAt, addVars
<1>14. CASE LoopExit
    BY <1>14 DEF LoopExit, ConsumerAt, addVars
<1>15. CASE LockForPop
    BY <1>15 DEF LockForPop, ConsumerAt, addVars
<1>16. CASE GiveUpFrame
    BY <1>16 DEF GiveUpFrame, ConsumerAt, addVars
<1>17. CASE Pop
    <2>1. buf # <<>> /\ current = <<>>
        BY <1>17 DEF PopReady, Pop, ConsumerAt
    <2>2. accepted = (executed \o <<Head(buf)>>) \o Tail(buf)
        BY <2>1, HeadToConcat
    <2> QED
        BY <1>17, <2>2 DEF Pop, ConsumerAt
<1>18. CASE RunReturns
    <2>1. executed' = executed \o current /\ current' = <<>> /\ frame' = "loop"
        BY <1>18 DEF RunReturns
    <2>2. executed \o current \in Seq(Chunk)
        BY ConcatProperties
    <2>3. executed' \o current' = executed \o current
        BY <2>1, <2>2, ConcatEmptySeq
    <2> QED
        BY <1>18, <2>1, <2>3 DEF RunReturns, addVars
<1>19. CASE UNCHANGED vars
    BY <1>19 DEF vars, addVars, runVars
<1> QED
    BY <1>1, <1>2, <1>3, <1>4, <1>5, <1>6, <1>7, <1>8, <1>9, <1>10, <1>11, <1>12,
       <1>13, <1>14, <1>15, <1>16, <1>17, <1>18, <1>19
       DEF Next, AddString, RunBufferStep

-----------------------------------------------------------------------------
(* The bound on one call of runBuffer.                                      *)

\* What has been executed and what the loop may still execute add up to what
\* had been accepted when the size was read.
LoopInv ==
    /\ frame \in {"loop", "try", "pop", "run"} => i <= n /\ Len(executed) + n = limit + i
    /\ frame \in {"try", "pop", "run"} => i < n

LEMMA LoopInit == Init => LoopInv
BY DEF Init, LoopInv

LEMMA LoopStep == TypeInv /\ OrderInv /\ LoopInv /\ [Next]_vars => LoopInv'
<1> SUFFICES ASSUME TypeInv, OrderInv, LoopInv, [Next]_vars
             PROVE  LoopInv'
    OBVIOUS
<1> USE DEF LoopInv, TypeInv, TypeOK
<1>1. ASSUME NEW t \in Thread, TryAcquire(t) PROVE LoopInv'
    BY <1>1 DEF TryAcquire, MayCall, runVars
<1>2. ASSUME NEW t \in Thread, TryFails(t) PROVE LoopInv'
    BY <1>2 DEF TryFails, MayCall, runVars
<1>3. ASSUME NEW t \in Thread, CallBlocking(t) PROVE LoopInv'
    BY <1>3 DEF CallBlocking, MayCall, runVars
<1>4. ASSUME NEW t \in Thread, Acquire(t) PROVE LoopInv'
    BY <1>4 DEF Acquire, runVars
<1>5. ASSUME NEW t \in Thread, SeesSpace(t) PROVE LoopInv'
    BY <1>5 DEF SeesSpace, runVars
<1>6. ASSUME NEW t \in Thread, BailOut(t) PROVE LoopInv'
    BY <1>6 DEF BailOut, runVars
<1>7. ASSUME NEW t \in Thread, Wait(t) PROVE LoopInv'
    BY <1>7 DEF Wait, runVars
<1>8. ASSUME NEW t \in Thread, Wake(t) PROVE LoopInv'
    BY <1>8 DEF Wake, runVars
<1>9. ASSUME NEW t \in Thread, SpuriousWakeup(t) PROVE LoopInv'
    BY <1>9 DEF SpuriousWakeup, runVars
<1>10. ASSUME NEW t \in Thread, Push(t) PROVE LoopInv'
    BY <1>10 DEF Push, runVars
<1>11. CASE EmptyTest
    BY <1>11 DEF EmptyTest, ConsumerAt, addVars
<1>12. CASE ReadSize
    <2>1. executed \o current = executed /\ accepted = executed \o buf
        BY <1>12, ConcatEmptySeq
           DEF ReadSize, ConsumerAt, OrderInv, OneCurrent, AcceptedInOrder
    <2>2. Len(accepted) = Len(executed) + Len(buf) /\ Len(buf) \in Nat
        BY <2>1, ConcatProperties
    <2> QED
        BY <1>12, <2>2 DEF ReadSize, addVars
<1>13. CASE LoopBody
    BY <1>13 DEF LoopBody, ConsumerAt, addVars
<1>14. CASE LoopExit
    BY <1>14 DEF LoopExit, ConsumerAt, addVars
<1>15. CASE LockForPop
    BY <1>15 DEF LockForPop, ConsumerAt, addVars
<1>16. CASE GiveUpFrame
    BY <1>16 DEF GiveUpFrame, ConsumerAt, addVars
<1>17. CASE Pop
    BY <1>17 DEF Pop, ConsumerAt, addVars
<1>18. CASE RunReturns
    <2>1. Len(executed \o current) = Len(executed) + Len(current)
        BY ConcatProperties
    <2>2. /\ executed' = executed \o current /\ i' = i + 1 /\ n' = n
          /\ limit' = limit /\ frame = "run" /\ frame' = "loop"
        BY <1>18 DEF RunReturns, ConsumerAt
    <2>3. Len(current) = 1 /\ Len(executed) \in Nat
        BY <2>2 DEF OrderInv, OneCurrent
    <2>4. /\ i \in Nat /\ n \in Nat /\ limit \in Nat
          /\ i < n /\ Len(executed) + n = limit + i
        BY <2>2
    <2>5. Len(executed') = Len(executed) + 1
        BY <2>1, <2>2, <2>3
    <2>6. i' <= n' /\ Len(executed') + n' = limit' + i'
        BY ONLY <2>2, <2>3, <2>4, <2>5
    <2> QED
        BY <2>2, <2>6
<1>19. CASE UNCHANGED vars
    BY <1>19 DEF vars, addVars, runVars
<1> QED
    BY <1>1, <1>2, <1>3, <1>4, <1>5, <1>6, <1>7, <1>8, <1>9, <1>10, <1>11, <1>12,
       <1>13, <1>14, <1>15, <1>16, <1>17, <1>18, <1>19
       DEF Next, AddString, RunBufferStep

-----------------------------------------------------------------------------
(* Sleeping threads.                                                        *)

\* Only a thread inside _cond.wait() is in the wait set.
SleepersWait == \A t \in waitSet : pc[t] = "wait"

WaitInv == SleepersWait /\ NoLostWakeup

LEMMA WaitInit == Init => WaitInv
BY DEF Init, WaitInv, SleepersWait, NoLostWakeup

LEMMA WaitStep == TypeInv /\ WaitInv /\ [Next]_vars => WaitInv'
<1> SUFFICES ASSUME TypeInv, WaitInv, [Next]_vars
             PROVE  WaitInv'
    OBVIOUS
<1> USE DEF WaitInv, SleepersWait, NoLostWakeup, TypeInv, TypeOK
<1>1. ASSUME NEW t \in Thread, TryAcquire(t) PROVE WaitInv'
    BY <1>1 DEF TryAcquire, MayCall, runVars
<1>2. ASSUME NEW t \in Thread, TryFails(t) PROVE WaitInv'
    BY <1>2 DEF TryFails, MayCall, runVars
<1>3. ASSUME NEW t \in Thread, CallBlocking(t) PROVE WaitInv'
    BY <1>3 DEF CallBlocking, MayCall, runVars
<1>4. ASSUME NEW t \in Thread, Acquire(t) PROVE WaitInv'
    BY <1>4 DEF Acquire, runVars
<1>5. ASSUME NEW t \in Thread, SeesSpace(t) PROVE WaitInv'
    BY <1>5 DEF SeesSpace, runVars
<1>6. ASSUME NEW t \in Thread, BailOut(t) PROVE WaitInv'
    <2>1. buf # <<>>
        BY <1>6, RunBufferAssumption DEF BailOut, Full
    <2> QED
        BY <1>6, <2>1 DEF BailOut, runVars
<1>7. ASSUME NEW t \in Thread, Wait(t) PROVE WaitInv'
    <2>1. buf # <<>>
        BY <1>7, RunBufferAssumption DEF Wait, Full
    <2> QED
        BY <1>7, <2>1 DEF Wait, runVars
<1>8. ASSUME NEW t \in Thread, Wake(t) PROVE WaitInv'
    BY <1>8 DEF Wake, runVars
<1>9. ASSUME NEW t \in Thread, SpuriousWakeup(t) PROVE WaitInv'
    BY <1>9 DEF SpuriousWakeup, runVars
<1>10. ASSUME NEW t \in Thread, Push(t) PROVE WaitInv'
    <2>1. buf' # <<>>
        BY <1>10, ArgIsChunk, PushBackType DEF Push
    <2> QED
        BY <1>10, <2>1 DEF Push, runVars
<1>11. CASE EmptyTest
    BY <1>11 DEF EmptyTest, ConsumerAt, addVars
<1>12. CASE ReadSize
    BY <1>12 DEF ReadSize, ConsumerAt, addVars
<1>13. CASE LoopBody
    BY <1>13 DEF LoopBody, ConsumerAt, addVars
<1>14. CASE LoopExit
    BY <1>14 DEF LoopExit, ConsumerAt, addVars
<1>15. CASE LockForPop
    BY <1>15 DEF LockForPop, ConsumerAt, addVars
<1>16. CASE GiveUpFrame
    BY <1>16 DEF GiveUpFrame, ConsumerAt, addVars
<1>17. CASE Pop
    BY <1>17 DEF Pop, ConsumerAt, addVars, Signal
<1>18. CASE RunReturns
    BY <1>18 DEF RunReturns, ConsumerAt, addVars
<1>19. CASE UNCHANGED vars
    BY <1>19 DEF vars, addVars, runVars
<1> QED
    BY <1>1, <1>2, <1>3, <1>4, <1>5, <1>6, <1>7, <1>8, <1>9, <1>10, <1>11, <1>12,
       <1>13, <1>14, <1>15, <1>16, <1>17, <1>18, <1>19
       DEF Next, AddString, RunBufferStep

-----------------------------------------------------------------------------
(* The safety of the run buffer.                                            *)

IInv == TypeInv /\ LockInv /\ OrderInv /\ LoopInv /\ WaitInv

LEMMA SafetyFromIInv == IInv => Safety
<1> SUFFICES ASSUME IInv PROVE Safety
    OBVIOUS
<1>1. AcceptedInOrder /\ PopNeverEmpty /\ MutualExclusion /\ NoLostWakeup
    BY DEF IInv, TypeInv, PopReady, LockInv, OrderInv, WaitInv, PopNeverEmpty
<1>2. FrameBounded
    <2>1. /\ Len(executed \o current) = Len(executed) + Len(current)
          /\ Len(executed) \in Nat
          /\ i \in Nat /\ n \in Nat /\ limit \in Nat
        BY ConcatProperties DEF IInv, TypeInv, TypeOK
    <2>2. Len(current) = IF frame = "run" THEN 1 ELSE 0
        BY DEF IInv, OrderInv, OneCurrent
    <2>3. CASE frame = "run"
        BY <2>1, <2>2, <2>3 DEF IInv, LoopInv, FrameBounded
    <2>4. CASE frame \in {"loop", "try", "pop"}
        BY <2>1, <2>2, <2>4 DEF IInv, LoopInv, FrameBounded
    <2>5. CASE frame \in {"out", "size"}
        BY <2>5 DEF FrameBounded
    <2> QED
        BY <2>3, <2>4, <2>5 DEF IInv, TypeInv, TypeOK, RunPoints
<1> QED
    BY <1>1, <1>2 DEF Safety

LEMMA IInvHolds == Spec => []IInv
<1>1. Init => IInv
    BY TypeInit, LockInit, OrderInit, LoopInit, WaitInit DEF IInv
<1>2. IInv /\ [Next]_vars => IInv'
    BY TypeStep, LockStep, OrderStep, LoopStep, WaitStep DEF IInv
<1> QED
    BY <1>1, <1>2, PTL DEF Spec

\* Chunks are executed in the order they were accepted, and none is lost.
THEOREM OrderCorrect == Spec => []AcceptedInOrder
BY IInvHolds, SafetyFromIInv, PTL DEF Safety

\* pop_front never meets an empty buffer.
THEOREM PopCorrect == Spec => []PopNeverEmpty
BY IInvHolds, SafetyFromIInv, PTL DEF Safety

\* One call of runBuffer runs at most what the buffer held when it began.
THEOREM FrameCorrect == Spec => []FrameBounded
BY IInvHolds, SafetyFromIInv, PTL DEF Safety

\* The lock excludes and the capacity is respected.
THEOREM LockCorrect == Spec => []MutualExclusion
BY IInvHolds, SafetyFromIInv, PTL DEF Safety

\* A thread that sleeps for space can still be woken.
THEOREM WakeupCorrect == Spec => []NoLostWakeup
BY IInvHolds, SafetyFromIInv, PTL DEF Safety

-----------------------------------------------------------------------------
(* The run buffer implements the bounded FIFO.                              *)

LEMMA QueueStep == IInv /\ [Next]_vars => [Queue!Next]_Queue!vars
<1> SUFFICES ASSUME IInv, [Next]_vars
             PROVE  [Queue!Next]_Queue!vars
    OBVIOUS
<1> USE DEF Queue!vars
<1>1. ASSUME NEW t \in Thread, TryAcquire(t) PROVE UNCHANGED Queue!vars
    BY <1>1 DEF TryAcquire, runVars
<1>2. ASSUME NEW t \in Thread, TryFails(t) PROVE UNCHANGED Queue!vars
    BY <1>2 DEF TryFails, runVars
<1>3. ASSUME NEW t \in Thread, CallBlocking(t) PROVE UNCHANGED Queue!vars
    BY <1>3 DEF CallBlocking, runVars
<1>4. ASSUME NEW t \in Thread, Acquire(t) PROVE UNCHANGED Queue!vars
    BY <1>4 DEF Acquire, runVars
<1>5. ASSUME NEW t \in Thread, SeesSpace(t) PROVE UNCHANGED Queue!vars
    BY <1>5 DEF SeesSpace, runVars
<1>6. ASSUME NEW t \in Thread, BailOut(t) PROVE UNCHANGED Queue!vars
    BY <1>6 DEF BailOut, runVars
<1>7. ASSUME NEW t \in Thread, Wait(t) PROVE UNCHANGED Queue!vars
    BY <1>7 DEF Wait, runVars
<1>8. ASSUME NEW t \in Thread, Wake(t) PROVE UNCHANGED Queue!vars
    BY <1>8 DEF Wake, runVars
<1>9. ASSUME NEW t \in Thread, SpuriousWakeup(t) PROVE UNCHANGED Queue!vars
    BY <1>9 DEF SpuriousWakeup, runVars
<1>10. ASSUME NEW t \in Thread, Push(t) PROVE Queue!Next
    <2>1. Len(buf) < Capacity /\ Arg(t) \in Chunk
        BY <1>10, ArgIsChunk DEF Push, IInv, LockInv, SpaceForPush
    <2>2. buf' = Append(buf, Arg(t))
        BY <1>10, <2>1 DEF Push, PushBack
    <2>3. Queue!Accept(Arg(t))
        BY <1>10, <2>1, <2>2 DEF Push, runVars, Queue!Accept
    <2> QED
        BY <2>1, <2>3 DEF Queue!Next
<1>11. CASE EmptyTest
    BY <1>11 DEF EmptyTest
<1>12. CASE ReadSize
    BY <1>12 DEF ReadSize
<1>13. CASE LoopBody
    BY <1>13 DEF LoopBody
<1>14. CASE LoopExit
    BY <1>14 DEF LoopExit
<1>15. CASE LockForPop
    BY <1>15 DEF LockForPop
<1>16. CASE GiveUpFrame
    BY <1>16 DEF GiveUpFrame
<1>17. CASE Pop
    <2>1. buf # <<>> /\ current = <<>>
        BY <1>17 DEF Pop, ConsumerAt, IInv, TypeInv, PopReady, OrderInv, OneCurrent
    <2>2. Queue!Take
        BY <1>17, <2>1 DEF Pop, Queue!Take
    <2> QED
        BY <2>2 DEF Queue!Next
<1>18. CASE RunReturns
    <2>1. current # <<>>
        BY <1>18 DEF RunReturns, ConsumerAt, IInv, OrderInv, OneCurrent
    <2>2. Queue!Finish
        BY <1>18, <2>1 DEF RunReturns, Queue!Finish
    <2> QED
        BY <2>2 DEF Queue!Next
<1>19. CASE UNCHANGED vars
    BY <1>19 DEF vars, runVars
<1> QED
    BY <1>1, <1>2, <1>3, <1>4, <1>5, <1>6, <1>7, <1>8, <1>9, <1>10, <1>11, <1>12,
       <1>13, <1>14, <1>15, <1>16, <1>17, <1>18, <1>19
       DEF Next, AddString, RunBufferStep

\* LuaRunBuffer behaves as a bounded FIFO that never drops, duplicates or
\* reorders a chunk.
THEOREM RefinesQueue == Spec => QueueSpec
<1>1. Init => Queue!Init
    BY DEF Init, Queue!Init
<1>2. IInv /\ [Next]_vars => [Queue!Next]_Queue!vars
    BY QueueStep
<1> QED
    BY <1>1, <1>2, IInvHolds, PTL DEF Spec, QueueSpec, Queue!Spec

=============================================================================
