----------------------------- MODULE FrameProofs -----------------------------
(***************************************************************************)
(* Theorems about what a frame runs: the callbacks of the active delegate  *)
(* (FrameLoop) and the coroutines its latePreFrame resumes (FrameActions), *)
(* for every set of delegates, of coroutines, and every bound.  No step    *)
(* is of both: the two components share this module and nothing else.      *)
(*                                                                         *)
(* FrameLoop: the watchdog is exact because the flag always tells what     *)
(* happened since the last preFrame (FlagTells); the deltas add up because *)
(* the stored time stamp lags behind the head's time only while the        *)
(* delegate's preFrame runs (StampCurrent).                                *)
(*                                                                         *)
(* FrameActions: the lists partition the suspended coroutines (Lists), the *)
(* place in the list taken over tells which of them were resumed (Once),   *)
(* and what is left of a wait counts from this frame or from the one       *)
(* before, according to that place (WaitOf).                               *)
(***************************************************************************)
EXTENDS FrameLoop, FrameActions, SequenceTheorems, TLAPS

\* Only a callback can be running.
CallingInCall == calling => phase \in Calls

\* The success flag tells whether there was a sign of life.
FlagTells == flag <=> Alive

\* The stored time stamp is the head's time, but for a preFrame under way, and
\* unless the program ended in one.
StampCurrent == (phase = "preFrame" /\ calling) \/ phase = "exited" \/ last = headTime

\* The types, without that of the history, which DeltasAddUp gives.
Types ==
    /\ active \in BOOLEAN
    /\ defines \in [Delegates -> SUBSET Calls]
    /\ delegate \in Delegates \cup {None}
    /\ flag \in BOOLEAN
    /\ last \in 0..MaxTime
    /\ delta \in -1..MaxTime
    /\ headTime \in 0..MaxTime
    /\ phase \in Points
    /\ calling \in BOOLEAN
    /\ stopped \in BOOLEAN
    /\ frames \in 0..MaxFrames
    /\ outcomes \subseteq {"created", "installed", "returned", "raised"}

IInv ==
    /\ Types
    /\ CallingInCall
    /\ FlagTells
    /\ StampCurrent
    /\ DeltasAddUp

-----------------------------------------------------------------------------
(* Where a callback leads.                                                  *)

LEMMA AfterIsPoint ==
    ASSUME NEW call \in Calls
    PROVE  After(call) \in Points
  BY DEF After, Calls, FrameCalls, Points

LEMMA AfterIsNotPreFrame ==
    ASSUME NEW call \in FrameCalls
    PROVE  After(call) # "preFrame"
  BY DEF After, FrameCalls

-----------------------------------------------------------------------------
LEMMA InvInit == Init => IInv
  <1>. SUFFICES ASSUME Init PROVE IInv
    OBVIOUS
  <1>. USE FrameLoopAssumption
  <1>1. Types
    <2>1. 0 \in 0..MaxTime /\ -1 \in -1..MaxTime /\ 0 \in 0..MaxFrames
      BY SMT DEF FrameLoopAssumption
    <2>2. "setup" \in Points
      BY DEF Points
    <2>. QED
      BY <2>1, <2>2 DEF Init, Types
  <1>2. CallingInCall /\ StampCurrent /\ FlagTells /\ DeltasAddUp
    BY DEF Init, CallingInCall, StampCurrent, FlagTells, Alive, DeltasAddUp
  <1>. QED
    BY <1>1, <1>2 DEF IInv

LEMMA PreFrameStep == IInv /\ PreFrame => IInv'
  <1>. SUFFICES ASSUME IInv, PreFrame PROVE IInv'
    OBVIOUS
  <1>. USE FrameLoopAssumption
  <1>1. last = headTime /\ ~calling /\ phase = "preFrame"
    BY DEF IInv, StampCurrent, PreFrame
  <1>2. PICK cur \in HeadTimes :
            /\ headTime' = cur
            /\ delta' = TimeDelta(cur)
            /\ added' = added + TimeDelta(cur) - (IF cur < headTime THEN headTime - cur ELSE 0)
            /\ last' = IF HasCall("preFrame") THEN last ELSE cur
    BY DEF PreFrame
  <1>. DEFINE back == IF cur < headTime THEN headTime - cur ELSE 0
  <1>3. cur \in 0..MaxTime /\ headTime \in 0..MaxTime
    BY DEF HeadTimes, IInv, Types
  <1>4. TimeDelta(cur) \in 0..MaxTime /\ back \in 0..MaxTime
    BY ONLY <1>1, <1>3, FrameLoopAssumption, SMT DEF TimeDelta
  <1>5. TimeDelta(cur) + headTime = cur + back
    BY ONLY <1>1, <1>3, FrameLoopAssumption, SMT DEF TimeDelta
  <1>6. DeltasAddUp'
    <2>1. added = headTime /\ headTime' = cur /\ added' = added + TimeDelta(cur) - back
      BY <1>2 DEF IInv, DeltasAddUp
    <2>. HIDE DEF back
    <2>. QED
      BY <2>1, <1>3, <1>4, <1>5, SMT DEF DeltasAddUp
  <1>7. \/ phase' = "preFrame" /\ calling' /\ last' = last
        \/ phase' = "latePreFrame" /\ ~calling' /\ last' = cur
    BY <1>1, <1>2 DEF PreFrame, Forward, After, HasCall
  <1>8. frames' \in 0..MaxFrames
    BY SMT DEF IInv, Types, PreFrame
  <1>9. Types'
    <2>1. last' \in 0..MaxTime /\ delta' \in -1..MaxTime /\ headTime' \in 0..MaxTime
      BY <1>1, <1>2, <1>3, <1>4, <1>7
    <2>2. phase' \in Points /\ calling' \in BOOLEAN
      BY <1>7 DEF Points, Calls, FrameCalls, PreFrame, Forward, IInv, Types
    <2>. QED
      BY <2>1, <2>2, <1>8 DEF IInv, Types, PreFrame, Watchdog
  <1>10. CallingInCall' /\ StampCurrent'
    BY <1>2, <1>7 DEF CallingInCall, StampCurrent, Calls, FrameCalls
  <1>11. FlagTells'
    BY DEF FlagTells, Alive, PreFrame, Watchdog
  <1>. QED
    BY <1>6, <1>9, <1>10, <1>11 DEF IInv

\* Every other step leaves the clocks alone, but for `last` at the end of a
\* preFrame.
LEMMA InvStep == IInv /\ [Next]_vars => IInv'
  <1>. SUFFICES ASSUME IInv, [Next]_vars PROVE IInv'
    OBVIOUS
  <1>. USE FrameLoopAssumption DEF IInv, Types, CallingInCall, FlagTells, StampCurrent,
            DeltasAddUp, Alive, clockVars, watchVars
  <1>1. ASSUME NEW d \in Delegates, SetAppDelegate(d) PROVE IInv'
    BY <1>1 DEF SetAppDelegate, Note, ScriptRuns
  <1>2. CASE StopKernel
    BY <1>2 DEF StopKernel
  <1>3. CASE StartKernel
    BY <1>3 DEF StartKernel, Points, Calls
  <1>4. CASE InitScene
    BY <1>4 DEF InitScene, Forward, After, Points, Calls, FrameCalls
  <1>5. CASE PreFrame
    BY <1>5, PreFrameStep
  <1>6. CASE BailOut
    BY <1>6 DEF BailOut, Points
  <1>7. ASSUME NEW call \in FrameCalls \ {"preFrame"}, FrameCall(call) PROVE IInv'
    <2>1. After(call) \in Points
      BY <1>7, AfterIsPoint DEF Calls
    <2>2. last = headTime
      BY <1>7 DEF FrameCall, FrameCalls
    <2>. QED
      BY <1>7, <2>1, <2>2 DEF FrameCall, Forward, Calls
  <1>8. CASE Returns
    <2>1. After(phase) \in Points
      BY <1>8, AfterIsPoint DEF Returns
    <2>2. phase \in Calls /\ phase # "exited"
      BY <1>8 DEF Returns, Calls, FrameCalls
    <2>. QED
      BY <1>8, <2>1, <2>2 DEF Returns, Note
  <1>9. CASE Raises
    <2>1. After(phase) \in Points
      BY <1>9, AfterIsPoint DEF Raises
    <2>2. phase \in Calls /\ phase # "exited"
      BY <1>9 DEF Raises, Calls, FrameCalls
    <2>. QED
      BY <1>9, <2>1, <2>2 DEF Raises, Note, Points
  <1>10. CASE FrameEnd
    BY <1>10 DEF FrameEnd, Points, Calls, FrameCalls
  <1>11. CASE Destroy
    BY <1>11 DEF Destroy, Points, Calls, FrameCalls
  <1>12. CASE SetActiveApplication
    BY <1>12 DEF SetActiveApplication
  <1>13. CASE RaisesNoString
    BY <1>13 DEF RaisesNoString, Note, Points
  <1>14. CASE UNCHANGED vars
    BY <1>14 DEF vars
  <1>. QED
    BY <1>1, <1>2, <1>3, <1>4, <1>5, <1>6, <1>7, <1>8, <1>9, <1>10, <1>11, <1>12,
       <1>13, <1>14
    DEF Next, Script

LEMMA IInvHolds == Spec => []IInv
  BY InvInit, InvStep, PTL DEF Spec

-----------------------------------------------------------------------------
\* Every variable of the frame loop keeps its type.
THEOREM FrameTypeCorrect == Spec => []TypeOK
  <1>1. IInv => TypeOK
    <2>. SUFFICES ASSUME IInv PROVE TypeOK
      OBVIOUS
    <2>. QED
      BY DEF IInv, Types, DeltasAddUp, TypeOK
  <1>. QED
    BY <1>1, IInvHolds, PTL

\* No interval of the head's time is lost or handed out twice, whichever
\* callbacks fail.
THEOREM DeltasCorrect == Spec => []DeltasAddUp
  <1>1. IInv => DeltasAddUp
    BY DEF IInv
  <1>. QED
    BY <1>1, IInvHolds, PTL

\* preFrame never ends an application that showed a sign of life since the
\* previous preFrame.
THEOREM BailOutCorrect == Spec => OnlyTheDeadBailOut
  <1>1. IInv /\ [Next]_vars => [BailOut => ~Alive]_vars
    BY DEF IInv, FlagTells, BailOut
  <1>. QED
    BY <1>1, IInvHolds, PTL DEF Spec, OnlyTheDeadBailOut

\* preFrame never lets an application go on that showed none.
THEOREM WatchdogCorrect == Spec => DeadDoNotLinger
  <1>1. IInv /\ [Next]_vars => [PreFrame => Alive]_vars
    BY DEF IInv, FlagTells, PreFrame
  <1>. QED
    BY <1>1, IInvHolds, PTL DEF Spec, DeadDoNotLinger

\* The watchdog is exact, for all delegates and any time.
THEOREM ExactCorrect == Spec => WatchdogExact
BY BailOutCorrect, WatchdogCorrect DEF WatchdogExact
-----------------------------------------------------------------------------
(* Frame actions: lists without repetitions.                                *)

LEMMA AppendNew ==
    ASSUME NEW S, NEW s \in Seq(S), IsInjective(s), NEW c \in S, c \notin Range(s)
    PROVE  /\ Append(s, c) \in Seq(S) /\ Len(Append(s, c)) = Len(s) + 1
           /\ \A i \in 1..Len(s) : Append(s, c)[i] = s[i]
           /\ Append(s, c)[Len(s) + 1] = c
           /\ IsInjective(Append(s, c))
           /\ Range(Append(s, c)) = Range(s) \cup {c}
  <1>1. /\ Append(s, c) \in Seq(S) /\ Len(Append(s, c)) = Len(s) + 1
        /\ \A i \in 1..Len(s) : Append(s, c)[i] = s[i]
        /\ Append(s, c)[Len(s) + 1] = c
    BY AppendProperties
  <1>2. /\ DOMAIN s = 1..Len(s) /\ Len(s) \in Nat
        /\ DOMAIN Append(s, c) = 1..(Len(s) + 1)
    BY <1>1, LenProperties
  <1>3. \A i \in 1..Len(s) : s[i] # c
    BY <1>2 DEF Range
  <1>4. IsInjective(Append(s, c))
    BY <1>1, <1>2, <1>3 DEF IsInjective
  <1>5. Range(Append(s, c)) = Range(s) \cup {c}
    BY <1>1, <1>2 DEF Range
  <1>. QED
    BY <1>1, <1>4, <1>5

\* What table.remove(s, i) leaves.
LEMMA RemoveOne ==
    ASSUME NEW S, NEW s \in Seq(S), IsInjective(s), NEW i \in 1..Len(s)
    PROVE  /\ RemoveAt(s, i) \in Seq(S) /\ Len(RemoveAt(s, i)) = Len(s) - 1
           /\ \A j \in 1..(Len(s) - 1) : RemoveAt(s, i)[j] = IF j < i THEN s[j] ELSE s[j + 1]
           /\ IsInjective(RemoveAt(s, i))
           /\ Range(RemoveAt(s, i)) = Range(s) \ {s[i]}
  <1>. DEFINE h == SubSeq(s, 1, i - 1)
              t == SubSeq(s, i + 1, Len(s))
              r == RemoveAt(s, i)
  <1>1. Len(s) \in Nat /\ DOMAIN s = 1..Len(s) /\ \A j \in 1..Len(s) : s[j] \in S
    BY LenProperties, ElementOfSeq
  <1>2. h \in Seq(S) /\ Len(h) = i - 1 /\ \A j \in 1..(i - 1) : h[j] = s[j]
    <2>1. /\ h \in Seq(S) /\ Len(h) = IF 1 <= i - 1 THEN (i - 1) - 1 + 1 ELSE 0
          /\ \A j \in 1..((i - 1) - 1 + 1) : h[j] = s[1 + j - 1]
      BY <1>1, SubSeqProperties
    <2>. QED
      BY <1>1, <2>1
  <1>3. t \in Seq(S) /\ Len(t) = Len(s) - i /\ \A j \in 1..(Len(s) - i) : t[j] = s[i + j]
    <2>1. /\ t \in Seq(S) /\ Len(t) = IF i + 1 <= Len(s) THEN Len(s) - (i + 1) + 1 ELSE 0
          /\ \A j \in 1..(Len(s) - (i + 1) + 1) : t[j] = s[(i + 1) + j - 1]
      BY <1>1, SubSeqProperties
    <2>. HIDE DEF t
    <2>2. Len(t) = Len(s) - i
      <3>1. Len(t) = IF i + 1 <= Len(s) THEN Len(s) - (i + 1) + 1 ELSE 0
        BY <2>1
      <3>2. Len(s) \in Int /\ i \in Int /\ i <= Len(s)
        BY <1>1
      <3>3. CASE i + 1 <= Len(s)
        <4>1. Len(t) = Len(s) - (i + 1) + 1
          BY <3>1, <3>3
        <4>2. Len(s) - (i + 1) + 1 = Len(s) - i
          BY <3>2
        <4>. QED
          BY <4>1, <4>2
      <3>4. CASE ~(i + 1 <= Len(s))
        <4>1. Len(t) = 0
          BY <3>1, <3>4
        <4>2. Len(s) - i = 0
          BY <3>2, <3>4
        <4>. QED
          BY <4>1, <4>2
      <3>. QED
        BY <3>3, <3>4
    <2>3. ASSUME NEW j \in 1..(Len(s) - i) PROVE t[j] = s[i + j]
      <3>1. j \in 1..(Len(s) - (i + 1) + 1) /\ (i + 1) + j - 1 = i + j
        BY <1>1
      <3>2. t[j] = s[(i + 1) + j - 1]
        BY <2>1, <3>1, Zenon
      <3>. QED
        BY <3>1, <3>2
    <2>. QED
      BY <2>1, <2>2, <2>3
  <1>4. r = h \o t
    BY DEF RemoveAt
  <1>. HIDE DEF h, t, r
  <1>5. /\ r \in Seq(S) /\ Len(r) = Len(h) + Len(t)
        /\ \A j \in 1..(Len(h) + Len(t)) : r[j] = IF j <= Len(h) THEN h[j] ELSE t[j - Len(h)]
    BY <1>2, <1>3, <1>4, ConcatProperties
  <1>6. /\ Len(r) = Len(s) - 1
        /\ \A j \in 1..(Len(s) - 1) : r[j] = IF j < i THEN s[j] ELSE s[j + 1]
    <2>1. Len(r) = Len(s) - 1
      BY <1>1, <1>2, <1>3, <1>5
    <2>2. ASSUME NEW j \in 1..(Len(s) - 1) PROVE r[j] = IF j < i THEN s[j] ELSE s[j + 1]
      <3>1. j \in 1..(Len(h) + Len(t)) /\ Len(h) = i - 1 /\ j \in Int
        BY <1>1, <1>2, <1>3
      <3>2. r[j] = IF j <= Len(h) THEN h[j] ELSE t[j - Len(h)]
        BY <1>5, <3>1
      <3>3. CASE j < i
        <4>1. j <= Len(h) /\ j \in 1..(i - 1)
          BY <3>1, <3>3
        <4>. QED
          BY <1>2, <3>2, <3>3, <4>1
      <3>4. CASE ~(j < i)
        <4>. DEFINE k == j - Len(h)
        <4>1. ~(j <= Len(h)) /\ k \in 1..(Len(s) - i) /\ i + k = j + 1
          BY <1>1, <3>1, <3>4
        <4>. HIDE DEF k
        <4>2. t[k] = s[i + k]
          BY <1>3, <4>1
        <4>3. r[j] = t[k]
          BY <3>2, <4>1 DEF k
        <4>4. r[j] = s[j + 1]
          BY <4>1, <4>2, <4>3
        <4>. QED
          BY <3>4, <4>4
      <3>. QED
        BY <3>3, <3>4
    <2>. QED
      BY <2>1, <2>2
  <1>7. DOMAIN r = 1..(Len(s) - 1)
    BY <1>5, <1>6, LenProperties
  <1>8. IsInjective(r)
    <2>. SUFFICES ASSUME NEW a \in 1..(Len(s) - 1), NEW b \in 1..(Len(s) - 1), r[a] = r[b]
                  PROVE  a = b
      BY <1>7 DEF IsInjective
    <2>1. \A j, k \in 1..Len(s) : s[j] = s[k] => j = k
      BY <1>1 DEF IsInjective
    <2>. QED
      BY <1>1, <1>6, <2>1
  <1>9. Range(r) = Range(s) \ {s[i]}
    <2>1. ASSUME NEW j \in 1..(Len(s) - 1) PROVE r[j] \in Range(s) \ {s[i]}
      <3>1. PICK k \in 1..Len(s) : r[j] = s[k] /\ k # i
        BY <1>1, <1>6
      <3>. QED
        BY <1>1, <3>1 DEF IsInjective, Range
    <2>2. ASSUME NEW k \in 1..Len(s), k # i PROVE s[k] \in Range(r)
      <3>1. PICK j \in 1..(Len(s) - 1) : r[j] = s[k]
        <4>1. CASE k < i
          BY <1>1, <1>6, <4>1
        <4>2. CASE k > i
          <5>1. k - 1 \in 1..(Len(s) - 1) /\ r[k - 1] = s[k]
            BY <1>1, <1>6, <4>2
          <5>. QED
            BY <5>1
        <4>. QED
          BY <1>1, <2>2, <4>1, <4>2
      <3>. QED
        BY <1>7, <3>1 DEF Range
    <2>. QED
      BY <1>1, <1>7, <2>1, <2>2 DEF Range
  <1>. QED
    BY <1>5, <1>6, <1>8, <1>9 DEF r
-----------------------------------------------------------------------------
(* Frame actions: the invariant.                                            *)

Listed == Range(list)

\* The actions that the update under way has yet to resume.
Rest == IF stage = "in" THEN {thisTime[k] : k \in (pos + 1)..Len(thisTime)} ELSE {}

\* The types; what bounds the sums of the clock is ClockBounds.
ActionTypes ==
    /\ list \in Seq(Action) /\ thisTime \in Seq(Action)
    /\ pos \in 0..Len(thisTime)
    /\ running \in Action \cup {NoAction}
    /\ stage \in {"before", "in", "after"}
    /\ status \in [Action -> {"unborn", "suspended", "running", "dead"}]
    /\ wait \in [Action -> [kind : {"redraws", "seconds"}, left : 1..MaxWait]]
    /\ timeDelta \in -1..MaxDelta
    /\ frame \in 0..FrameBound /\ now \in Nat
    /\ runs \in [Action -> Nat]
    /\ fresh \subseteq Action /\ gone \subseteq Action /\ missed \subseteq Action
    /\ due \in [Action -> Nat]

\* While an update is under way the frame has begun and has a time delta.
InFrame == stage # "after" => frame >= 1 /\ timeDelta >= 0

\* No action is listed twice, and a listed action is suspended and not removed.
Lists ==
    /\ IsInjective(list) /\ IsInjective(thisTime)
    /\ Listed \cap Rest = {}
    /\ \A a \in Listed \cup Rest : status[a] = "suspended" /\ a \notin gone
    /\ \A a \in Range(thisTime) \cup gone \cup fresh : status[a] # "unborn"
    /\ \A a \in Action \ gone : status[a] = "suspended" => a \in Listed \cup Rest

\* The coroutine that runs is the one the update resumed last.
Runs ==
    /\ \A a \in Action : status[a] = "running" <=> a = running
    /\ running # NoAction => stage = "in" /\ pos >= 1 /\ running = thisTime[pos] /\ running \notin gone

\* The update has resumed the actions up to its place, once, and no other.
Once ==
    /\ stage = "before" => fresh = {} /\ \A a \in Action : runs[a] = 0
    /\ stage = "after" => pos = Len(thisTime)
    /\ stage # "before" =>
          /\ \A k \in 1..Len(thisTime) : runs[thisTime[k]] = IF k <= pos THEN 1 ELSE 0
          /\ fresh \cap Range(thisTime) = {}
    /\ \A a \in fresh : runs[a] = 0
    /\ \A a \in Action : runs[a] <= 1 /\ runs[a] <= frame /\ (status[a] = "unborn" => runs[a] = 0)

ActionsInv == ActionTypes /\ InFrame /\ Lists /\ Runs /\ Once

\* What lists become: one lemma per change.
LEMMA RestIsAhead ==
    ASSUME ActionTypes
    PROVE  /\ Ahead \in Seq(Action)
           /\ Range(Ahead) = Rest
           /\ IsInjective(thisTime) => IsInjective(Ahead)
  <1>1. CASE stage = "in"
    <2>. DEFINE t == SubSeq(thisTime, pos + 1, Len(thisTime))
                n == Len(thisTime) - pos
    <2>1. /\ Len(thisTime) \in Nat /\ pos \in Nat /\ pos <= Len(thisTime)
          /\ DOMAIN thisTime = 1..Len(thisTime)
          /\ \A k \in 1..Len(thisTime) : thisTime[k] \in Action
      BY LenProperties, ElementOfSeq DEF ActionTypes
    <2>2. /\ t \in Seq(Action)
          /\ Len(t) = IF pos + 1 <= Len(thisTime) THEN Len(thisTime) - (pos + 1) + 1 ELSE 0
          /\ \A j \in 1..(Len(thisTime) - (pos + 1) + 1) : t[j] = thisTime[(pos + 1) + j - 1]
      BY <2>1, SubSeqProperties
    <2>. HIDE DEF t
    <2>3. n \in Nat /\ Len(t) = n
      <3>1. Len(t) = IF pos + 1 <= Len(thisTime) THEN Len(thisTime) - (pos + 1) + 1 ELSE 0
        BY <2>2
      <3>2. CASE pos + 1 <= Len(thisTime)
        <4>1. Len(t) = Len(thisTime) - (pos + 1) + 1
          BY <3>1, <3>2
        <4>. QED
          BY <2>1, <4>1
      <3>3. CASE ~(pos + 1 <= Len(thisTime))
        <4>1. Len(t) = 0
          BY <3>1, <3>3
        <4>2. pos = Len(thisTime)
          <5>1. \A k, l \in Nat : k <= l /\ ~(k + 1 <= l) => k = l
            BY SMT
          <5>. QED
            BY ONLY <2>1, <3>3, <5>1, Zenon
        <4>3. n \in Nat /\ n = 0
          BY <2>1, <4>2
        <4>. QED
          BY <4>1, <4>3
      <3>. QED
        BY <3>2, <3>3
    <2>4. \A j \in 1..n : t[j] = thisTime[pos + j]
      <3>. SUFFICES ASSUME NEW j \in 1..n PROVE t[j] = thisTime[pos + j]
        OBVIOUS
      <3>1. j \in 1..(Len(thisTime) - (pos + 1) + 1) /\ (pos + 1) + j - 1 = pos + j
        BY <2>1
      <3>2. t[j] = thisTime[(pos + 1) + j - 1]
        BY <2>2, <3>1, Zenon
      <3>. QED
        BY <3>1, <3>2
    <2>5. DOMAIN t = 1..n
      BY <2>2, <2>3, LenProperties
    <2>6. Range(t) = Rest
      <3>1. ASSUME NEW j \in 1..n PROVE t[j] \in Rest
        <4>1. pos + j \in (pos + 1)..Len(thisTime)
          BY <2>1
        <4>. QED
          BY <1>1, <2>4, <4>1 DEF Rest
      <3>2. ASSUME NEW k \in (pos + 1)..Len(thisTime) PROVE thisTime[k] \in Range(t)
        <4>1. k - pos \in 1..n /\ pos + (k - pos) = k
          BY <2>1
        <4>2. t[k - pos] = thisTime[k]
          BY <2>4, <4>1, Zenon
        <4>. QED
          BY <2>5, <4>1, <4>2 DEF Range
      <3>. QED
        BY <1>1, <2>5, <3>1, <3>2 DEF Range, Rest
    <2>7. IsInjective(thisTime) => IsInjective(t)
      <3>. SUFFICES ASSUME IsInjective(thisTime), NEW a \in 1..n, NEW b \in 1..n, t[a] = t[b]
                    PROVE  a = b
        BY <2>5 DEF IsInjective
      <3>1. thisTime[pos + a] = thisTime[pos + b]
        BY <2>4
      <3>2. pos + a \in 1..Len(thisTime) /\ pos + b \in 1..Len(thisTime)
        BY <2>1
      <3>3. pos + a = pos + b
        BY <2>1, <3>1, <3>2 DEF IsInjective
      <3>. QED
        BY <2>1, <3>3
    <2>. QED
      BY <1>1, <2>2, <2>6, <2>7 DEF Ahead, t
  <1>2. CASE stage # "in"
    <2>1. Ahead = <<>> /\ Rest = {}
      BY <1>2 DEF Ahead, Rest
    <2>2. <<>> \in Seq(Action) /\ DOMAIN <<>> = {}
      BY EmptySeq
    <2>. QED
      BY <2>1, <2>2 DEF Range, IsInjective
  <1>. QED
    BY <1>1, <1>2

\* The next action that an update resumes.
LEMMA NextOfRest ==
    ASSUME ActionTypes, IsInjective(thisTime), stage = "in", pos < Len(thisTime), stage' = "in",
           thisTime' = thisTime, pos' = pos + 1
    PROVE  /\ thisTime[pos + 1] \in Rest
           /\ Rest' = Rest \ {thisTime[pos + 1]}
  <1>1. Len(thisTime) \in Nat /\ pos \in Nat /\ DOMAIN thisTime = 1..Len(thisTime)
    BY LenProperties DEF ActionTypes
  <1>2. Rest' = {thisTime[k] : k \in (pos + 2)..Len(thisTime)}
    BY <1>1 DEF Rest
  <1>3. Rest = {thisTime[k] : k \in (pos + 1)..Len(thisTime)}
    BY DEF Rest
  <1>4. \A k \in (pos + 2)..Len(thisTime) : thisTime[k] # thisTime[pos + 1]
    BY <1>1 DEF IsInjective
  <1>5. (pos + 1)..Len(thisTime) = ((pos + 2)..Len(thisTime)) \cup {pos + 1}
    BY <1>1
  <1>. QED
    BY <1>2, <1>3, <1>4, <1>5
-----------------------------------------------------------------------------
LEMMA ActionsInitial == ActionsInit => ActionsInv
  <1>. SUFFICES ASSUME ActionsInit PROVE ActionsInv
    OBVIOUS
  <1>. USE FrameActionsAssumption
  <1>1. <<>> \in Seq(Action) /\ Len(<<>>) = 0 /\ DOMAIN <<>> = {}
    BY EmptySeq
  <1>2. list = <<>> /\ thisTime = <<>> /\ stage = "after" /\ pos = 0 /\ running = NoAction
    BY DEF ActionsInit
  <1>3. Listed = {} /\ Range(thisTime) = {} /\ Rest = {} /\ IsInjective(list) /\ IsInjective(thisTime)
    BY <1>1, <1>2 DEF Listed, Range, Rest, IsInjective
  <1>4. ActionTypes
    <2>1. /\ wait = [a \in Action |-> [kind |-> "redraws", left |-> 1]] /\ 1 \in 1..MaxWait
          /\ 0 \in 0..FrameBound /\ -1 \in -1..MaxDelta /\ 0 \in Nat
      BY DEF ActionsInit, Wait
    <2>2. wait \in [Action -> [kind : {"redraws", "seconds"}, left : 1..MaxWait]]
      BY <2>1
    <2>. QED
      BY <1>1, <1>2, <2>1, <2>2 DEF ActionsInit, ActionTypes
  <1>5. InFrame /\ Lists
    BY <1>2, <1>3 DEF ActionsInit, InFrame, Lists
  <1>6. Runs
    BY <1>2 DEF ActionsInit, Runs
  <1>7. Once
    BY <1>1, <1>2, <1>3 DEF ActionsInit, Once
  <1>. QED
    BY <1>4, <1>5, <1>6, <1>7 DEF ActionsInv

\* What the invariant says of the places in the lists.
LEMMA ListFacts ==
    ASSUME ActionsInv
    PROVE  /\ list \in Seq(Action) /\ thisTime \in Seq(Action)
           /\ Len(list) \in Nat /\ Len(thisTime) \in Nat
           /\ DOMAIN list = 1..Len(list) /\ DOMAIN thisTime = 1..Len(thisTime)
           /\ \A k \in 1..Len(thisTime) : thisTime[k] \in Action /\ thisTime[k] \in Range(thisTime)
           /\ Listed \subseteq Action /\ Range(thisTime) \subseteq Action /\ Rest \subseteq Range(thisTime)
           /\ pos \in 0..Len(thisTime) /\ pos \in Nat
           /\ stage = "after" => Rest = {}
           /\ NoAction \notin Action
  <1>1. list \in Seq(Action) /\ thisTime \in Seq(Action) /\ pos \in 0..Len(thisTime)
    BY DEF ActionsInv, ActionTypes
  <1>2. /\ Len(list) \in Nat /\ Len(thisTime) \in Nat
        /\ DOMAIN list = 1..Len(list) /\ DOMAIN thisTime = 1..Len(thisTime)
        /\ \A k \in 1..Len(thisTime) : thisTime[k] \in Action
        /\ \A k \in 1..Len(list) : list[k] \in Action
    BY <1>1, LenProperties, ElementOfSeq
  <1>. QED
    BY <1>1, <1>2, FrameActionsAssumption DEF Listed, Range, Rest

LEMMA AddStep ==
    ASSUME ActionsInv, NEW a \in Action, AddFrameAction(a)
    PROVE  /\ ActionsInv'
           /\ list' = Append(list, a) /\ a \notin Listed /\ a \notin Range(thisTime)
           /\ Listed' = Listed \cup {a} /\ Rest' = Rest
  <1>1. /\ status[a] = "unborn" /\ status' = [status EXCEPT ![a] = "suspended"]
        /\ list' = Append(list, a)
        /\ fresh' = IF stage = "in" THEN fresh \cup {a} ELSE fresh
        /\ UNCHANGED <<thisTime, pos, running, stage, wait, timeVars, runs, due, gone, missed>>
    BY DEF AddFrameAction
  <1>2. /\ a \notin Listed /\ a \notin Rest /\ a \notin Range(thisTime) /\ a \notin gone /\ a # running
        /\ status \in [Action -> {"unborn", "suspended", "running", "dead"}]
    BY <1>1, ListFacts DEF ActionsInv, ActionTypes, Lists, Runs
  <1>3. list' \in Seq(Action) /\ IsInjective(list') /\ Listed' = Listed \cup {a}
    BY <1>1, <1>2, ListFacts, AppendNew DEF ActionsInv, Lists, Listed
  <1>4. Rest' = Rest /\ thisTime' = thisTime
    BY <1>1 DEF Rest
  <1>5. ActionTypes' /\ InFrame'
    BY <1>1, <1>3 DEF ActionsInv, ActionTypes, InFrame, timeVars
  <1>6. /\ status'[a] = "suspended"
        /\ \A b \in Action : b # a => status'[b] = status[b]
    BY <1>1, <1>2
  <1>7. Lists'
    <2>1. /\ \A b \in Listed \cup Rest : status[b] = "suspended" /\ b \notin gone /\ b \in Action
          /\ \A b \in Range(thisTime) \cup gone \cup fresh : status[b] # "unborn" /\ b \in Action
          /\ \A b \in Action \ gone : status[b] = "suspended" => b \in Listed \cup Rest
          /\ Listed \cap Rest = {} /\ IsInjective(thisTime)
      BY ListFacts DEF ActionsInv, ActionTypes, Lists
    <2>2. gone' = gone /\ fresh' \subseteq fresh \cup {a}
      BY <1>1
    <2>. QED
      BY <1>2, <1>3, <1>4, <1>6, <2>1, <2>2 DEF Lists
  <1>8. Runs'
    BY <1>1, <1>2, <1>6 DEF ActionsInv, Runs
  <1>9. Once'
    <2>1. runs' = runs /\ runs[a] = 0
      BY <1>1 DEF ActionsInv, Once
    <2>2. UNCHANGED <<thisTime, pos, stage, frame>>
      BY <1>1 DEF timeVars
    <2>3. stage = "before" => fresh' = fresh
      BY <1>1
    <2>4. fresh' \subseteq fresh \cup {a}
      BY <1>1
    <2>. QED
      BY <1>2, <1>6, <2>1, <2>2, <2>3, <2>4 DEF ActionsInv, Once
  <1>. QED
    BY <1>1, <1>2, <1>3, <1>4, <1>5, <1>7, <1>8, <1>9 DEF ActionsInv

LEMMA RemoveStep ==
    ASSUME ActionsInv, NEW a \in Action, RemoveFrameAction(a)
    PROVE  /\ ActionsInv'
           /\ \/ list' = list /\ gone' = gone
              \/ \E i \in 1..Len(list) : list' = RemoveAt(list, i)
           /\ Listed' = Listed \ {a} /\ Rest' = Rest
  <1>1. /\ status[a] # "unborn"
        /\ list' = Without(a)
        /\ gone' = gone \cup ({a} \cap Range(list))
        /\ missed' \subseteq missed \cup {a}
        /\ UNCHANGED <<thisTime, pos, running, stage, status, wait, timeVars, runs, fresh, due>>
    BY DEF RemoveFrameAction
  <1>2. /\ list' \in Seq(Action) /\ IsInjective(list') /\ Listed' = Listed \ {a}
        /\ \/ list' = list /\ gone' = gone
           \/ \E i \in 1..Len(list) : list' = RemoveAt(list, i)
    <2>1. CASE a \in Range(list)
      <3>1. PICK i \in 1..Len(list) : list[i] = a
        BY <2>1, ListFacts DEF Range
      <3>2. \A j \in 1..Len(list) : list[j] = a => j = i
        BY <3>1, ListFacts DEF ActionsInv, Lists, IsInjective
      <3>3. \A j \in (i + 1)..Len(list) : list[j] # a
        BY <3>2, ListFacts
      <3>4. PlaceOf(a) \in DOMAIN list /\ list[PlaceOf(a)] = a
        <4>1. \E j \in DOMAIN list : list[j] = a /\ \A k \in (j + 1)..Len(list) : list[k] # a
          BY <3>1, <3>3, ListFacts
        <4>. QED
          BY <4>1 DEF PlaceOf
      <3>5. PlaceOf(a) = i
        BY <3>2, <3>4, ListFacts
      <3>6. list' = RemoveAt(list, i)
        BY <1>1, <2>1, <3>5 DEF Without
      <3>7. IsInjective(list) /\ list \in Seq(Action)
        BY ListFacts DEF ActionsInv, Lists
      <3>8. list' \in Seq(Action) /\ IsInjective(list') /\ Range(list') = Range(list) \ {a}
        BY <3>1, <3>6, <3>7, RemoveOne
      <3>. QED
        BY <3>6, <3>8 DEF Listed
    <2>2. CASE a \notin Range(list)
      <3>1. list' = list /\ gone' = gone
        BY <1>1, <2>2 DEF Without
      <3>. QED
        BY <2>2, <3>1, ListFacts DEF ActionsInv, Lists, Listed
    <2>. QED
      BY <2>1, <2>2
  <1>3. Rest' = Rest /\ thisTime' = thisTime /\ status' = status
    BY <1>1 DEF Rest
  <1>4. ActionTypes' /\ InFrame'
    BY <1>1, <1>2 DEF ActionsInv, ActionTypes, InFrame, timeVars
  <1>5. Lists'
    <2>1. gone' \subseteq gone \cup {a} /\ (a \in Listed => a \in gone')
      BY <1>1 DEF Listed
    <2>2. a \notin Listed => gone' = gone
      BY <1>1 DEF Listed
    <2>3. \A b \in Listed' \cup Rest' : b \notin gone'
      BY <1>2, <1>3, <2>1, <2>2 DEF ActionsInv, Lists
    <2>4. \A b \in Action \ gone' : status[b] = "suspended" => b \in Listed' \cup Rest'
      BY <1>1, <1>2, <1>3, <2>1 DEF ActionsInv, Lists
    <2>5. \A b \in Range(thisTime') \cup gone' \cup fresh' : status'[b] # "unborn"
      BY <1>1, <1>3, <2>1 DEF ActionsInv, Lists
    <2>. QED
      BY <1>2, <1>3, <2>3, <2>4, <2>5 DEF ActionsInv, Lists
  <1>6. Runs'
    <2>1. a = running => a \notin Listed
      BY ListFacts DEF ActionsInv, Runs, Lists
    <2>2. running # NoAction => running \notin gone'
      BY <1>1, <2>1 DEF ActionsInv, Runs, Listed
    <2>. QED
      BY <1>1, <2>2 DEF ActionsInv, Runs
  <1>7. Once'
    BY <1>1 DEF ActionsInv, Once, timeVars
  <1>. QED
    BY <1>2, <1>3, <1>4, <1>5, <1>6, <1>7 DEF ActionsInv

LEMMA BeginFrameStep ==
    ASSUME ActionsInv, BeginFrame
    PROVE  ActionsInv' /\ Listed' = Listed /\ Rest' = {}
  <1>1. /\ stage = "after" /\ frame < FrameBound
        /\ stage' = "before" /\ frame' = frame + 1
        /\ runs' = [a \in Action |-> 0] /\ fresh' = {}
        /\ UNCHANGED <<list, thisTime, pos, running, status, wait, due, gone, missed>>
    BY DEF BeginFrame
  <1>2. PICK d \in 0..MaxDelta : timeDelta' = d /\ now' = now + d
    BY DEF BeginFrame
  <1>3. Listed' = Listed /\ Rest' = {} /\ Rest = {}
    BY <1>1 DEF Listed, Rest
  <1>4. ActionTypes' /\ InFrame'
    BY <1>1, <1>2, FrameActionsAssumption DEF ActionsInv, ActionTypes, InFrame
  <1>5. Lists'
    BY <1>1, <1>3 DEF ActionsInv, Lists
  <1>6. Runs'
    BY <1>1 DEF ActionsInv, Runs
  <1>7. Once'
    <2>1. frame' \in Nat
      BY <1>1 DEF ActionsInv, ActionTypes
    <2>. QED
      BY <1>1, <2>1 DEF Once
  <1>. QED
    BY <1>3, <1>4, <1>5, <1>6, <1>7 DEF ActionsInv

LEMMA UpdateBeginsStep ==
    ASSUME ActionsInv, UpdateBegins
    PROVE  ActionsInv' /\ Listed' = {} /\ Rest' = Listed /\ Range(thisTime)' = Listed
  <1>1. /\ stage = "before" /\ stage' = "in" /\ thisTime' = list /\ list' = <<>> /\ pos' = 0
        /\ UNCHANGED <<running, status, wait, timeVars, historyVars>>
    BY DEF UpdateBegins
  <1>2. <<>> \in Seq(Action) /\ DOMAIN <<>> = {} /\ Len(<<>>) = 0
    BY EmptySeq
  <1>3. Listed' = {} /\ IsInjective(list')
    BY <1>1, <1>2 DEF Listed, Range, IsInjective
  <1>4. Rest' = Listed /\ Range(thisTime)' = Listed
    BY <1>1, ListFacts DEF Rest, Listed, Range
  <1>5. ActionTypes' /\ InFrame'
    <2>1. pos' \in 0..Len(thisTime')
      BY <1>1, ListFacts
    <2>. QED
      BY <1>1, <1>2, <2>1 DEF ActionsInv, ActionTypes, InFrame, timeVars, historyVars
  <1>6. Rest = {} /\ running = NoAction /\ fresh = {} /\ \A a \in Action : runs[a] = 0
    BY <1>1 DEF Rest, ActionsInv, Runs, Once
  <1>7. Lists'
    <2>1. UNCHANGED <<status, gone, fresh>> /\ IsInjective(thisTime') /\ Listed \subseteq Action
      BY <1>1, ListFacts DEF historyVars, ActionsInv, Lists
    <2>2. Range(thisTime') = Listed
      BY <1>4
    <2>. QED
      BY <1>3, <1>4, <1>6, <2>1, <2>2 DEF ActionsInv, Lists
  <1>8. Runs'
    BY <1>1, <1>6 DEF ActionsInv, Runs
  <1>9. Once'
    <2>1. UNCHANGED <<runs, fresh, frame, status>>
      BY <1>1 DEF historyVars, timeVars
    <2>2. \A k \in 1..Len(thisTime') : runs[thisTime'[k]] = 0 /\ ~(k <= pos')
      <3>1. \A k \in 1..Len(list) : list[k] \in Action
        BY ListFacts, ElementOfSeq
      <3>. QED
        BY <1>1, <1>6, <3>1
    <2>. QED
      BY <1>1, <1>6, <2>1, <2>2 DEF ActionsInv, Once
  <1>. QED
    BY <1>3, <1>4, <1>5, <1>7, <1>8, <1>9 DEF ActionsInv

LEMMA UpdateEndsStep ==
    ASSUME ActionsInv, UpdateEnds
    PROVE  ActionsInv' /\ Rest' = {} /\ Rest = {}
  <1>1. /\ stage = "in" /\ running = NoAction /\ pos = Len(thisTime) /\ stage' = "after"
        /\ UNCHANGED <<list, thisTime, pos, running, status, wait, timeVars, historyVars>>
    BY DEF UpdateEnds
  <1>2. Rest = {} /\ Rest' = {} /\ Listed' = Listed
    BY <1>1, ListFacts DEF Rest, Listed
  <1>3. ActionTypes' /\ InFrame'
    BY <1>1 DEF ActionsInv, ActionTypes, InFrame, timeVars, historyVars
  <1>4. Lists'
    BY <1>1, <1>2 DEF ActionsInv, Lists, historyVars
  <1>5. Runs' /\ Once'
    BY <1>1 DEF ActionsInv, Runs, Once, historyVars, timeVars
  <1>. QED
    BY <1>2, <1>3, <1>4, <1>5 DEF ActionsInv
LEMMA ResumeStep ==
    ASSUME ActionsInv, NEW a \in Action, Resume(a)
    PROVE  /\ ActionsInv'
           /\ a \in Rest /\ Rest' = Rest \ {a} /\ a \notin Listed
           /\ a = thisTime[pos + 1] /\ pos + 1 \in 1..Len(thisTime)
           /\ LeftOf(a) > 0 => list' = Append(list, a) /\ Listed' = Listed \cup {a}
  <1>1. /\ stage = "in" /\ running = NoAction /\ pos < Len(thisTime) /\ a = thisTime[pos + 1]
        /\ pos' = pos + 1
        /\ runs' = [runs EXCEPT ![a] = @ + 1]
        /\ UNCHANGED <<thisTime, stage, timeVars, fresh, due, gone, missed>>
    BY DEF Resume
  <1>2. /\ a \in Rest /\ Rest' = Rest \ {a}
        /\ pos + 1 \in 1..Len(thisTime)
    <2>1. ActionTypes /\ IsInjective(thisTime)
      BY DEF ActionsInv, Lists
    <2>2. thisTime[pos + 1] \in Rest /\ Rest' = Rest \ {thisTime[pos + 1]}
      BY <1>1, <2>1, NextOfRest
    <2>. QED
      BY <1>1, <2>2, ListFacts
  <1>3. a \notin Listed /\ a \in Range(thisTime) /\ status[a] = "suspended" /\ a \notin gone
    BY <1>2, ListFacts DEF ActionsInv, Lists
  <1>4. /\ status \in [Action -> {"unborn", "suspended", "running", "dead"}]
        /\ runs \in [Action -> Nat] /\ frame >= 1 /\ frame \in Nat /\ runs[a] = 0
    <2>1. runs[thisTime[pos + 1]] = IF pos + 1 <= pos THEN 1 ELSE 0
      BY <1>1, <1>2 DEF ActionsInv, Once
    <2>2. ~(pos + 1 <= pos)
      BY ListFacts
    <2>3. runs[a] = 0
      BY <1>1, <2>1, <2>2
    <2>4. frame >= 1 /\ frame \in Nat
      BY <1>1 DEF ActionsInv, ActionTypes, InFrame
    <2>. QED
      BY <2>3, <2>4 DEF ActionsInv, ActionTypes
  <1>5. Once'
    <2>1. runs'[a] = 1 /\ \A b \in Action : b # a => runs'[b] = runs[b]
      BY <1>1, <1>4
    <2>2. \A k \in 1..Len(thisTime) : runs'[thisTime[k]] = IF k <= pos + 1 THEN 1 ELSE 0
      <3>. SUFFICES ASSUME NEW k \in 1..Len(thisTime)
                    PROVE  runs'[thisTime[k]] = IF k <= pos + 1 THEN 1 ELSE 0
        OBVIOUS
      <3>1. CASE k = pos + 1
        BY <1>1, <2>1, <3>1
      <3>2. CASE k # pos + 1
        <4>1. thisTime[k] # a /\ thisTime[k] \in Action
          BY <1>1, <1>2, <3>2, ListFacts DEF ActionsInv, Lists, IsInjective
        <4>2. runs[thisTime[k]] = IF k <= pos THEN 1 ELSE 0
          BY <1>1 DEF ActionsInv, Once
        <4>3. k <= pos <=> k <= pos + 1
          BY <3>2, ListFacts
        <4>. QED
          BY <2>1, <4>1, <4>2, <4>3
      <3>. QED
        BY <3>1, <3>2
    <2>3. UNCHANGED <<thisTime, stage, frame, fresh>> /\ pos' = pos + 1
      BY <1>1 DEF timeVars
    <2>4. a \notin fresh
      BY <1>1, <1>3 DEF ActionsInv, Once
    <2>5. \A b \in Action : status'[b] = "unborn" => status[b] = "unborn"
      BY <1>4 DEF Resume
    <2>6. fresh \subseteq Action /\ \A b \in fresh : runs'[b] = 0
      BY <2>1, <2>4 DEF ActionsInv, ActionTypes, Once
    <2>7. \A b \in Action : runs'[b] <= 1 /\ runs'[b] <= frame /\ (status'[b] = "unborn" => runs'[b] = 0)
      BY <1>3, <1>4, <2>1, <2>5 DEF ActionsInv, Once
    <2>. QED
      BY <1>1, <2>2, <2>3, <2>6, <2>7 DEF ActionsInv, Once
  <1>6. InFrame'
    BY <1>1 DEF ActionsInv, InFrame, timeVars
  <1>7. CASE LeftOf(a) <= 0
    <2>1. /\ running' = a /\ status' = [status EXCEPT ![a] = "running"]
          /\ list' = list /\ wait' = wait
      BY <1>7 DEF Resume
    <2>2. status'[a] = "running" /\ \A b \in Action : b # a => status'[b] = status[b]
      BY <1>4, <2>1
    <2>3. Listed' = Listed
      BY <2>1 DEF Listed
    <2>4. ActionTypes'
      <3>1. status' \in [Action -> {"unborn", "suspended", "running", "dead"}]
        BY <2>1 DEF ActionsInv, ActionTypes
      <3>2. runs' \in [Action -> Nat]
        <4>1. runs \in [Action -> Nat] /\ runs[a] + 1 \in Nat
          BY DEF ActionsInv, ActionTypes
        <4>. QED
          BY <1>1, <4>1
      <3>3. pos' \in 0..Len(thisTime')
        BY <1>1, <1>2 DEF ActionsInv, ActionTypes
      <3>. QED
        BY <1>1, <2>1, <3>1, <3>2, <3>3 DEF ActionsInv, ActionTypes, timeVars
    <2>5. Lists'
      <3>1. /\ \A b \in Listed \cup Rest : status[b] = "suspended" /\ b \notin gone /\ b \in Action
            /\ \A b \in Range(thisTime) \cup gone \cup fresh : status[b] # "unborn" /\ b \in Action
            /\ \A b \in Action \ gone : status[b] = "suspended" => b \in Listed \cup Rest
            /\ Listed \cap Rest = {} /\ IsInjective(thisTime) /\ IsInjective(list)
        BY ListFacts DEF ActionsInv, ActionTypes, Lists
      <3>2. UNCHANGED <<list, thisTime, gone, fresh>>
        BY <1>1, <2>1
      <3>. QED
        BY <1>2, <1>3, <2>2, <2>3, <3>1, <3>2 DEF Lists
    <2>6. Runs'
      <3>1. \A b \in Action : status[b] # "running"
        BY <1>1, FrameActionsAssumption DEF ActionsInv, Runs
      <3>2. pos' >= 1 /\ a = thisTime'[pos'] /\ stage' = "in" /\ a \notin gone'
        BY <1>1, <1>3, ListFacts
      <3>. QED
        BY <2>1, <2>2, <3>1, <3>2 DEF Runs
    <2>7. ~(LeftOf(a) > 0)
      BY <1>7 DEF LeftOf, ActionsInv, ActionTypes
    <2>. QED
      BY <1>1, <1>2, <1>3, <1>5, <1>6, <2>4, <2>5, <2>6, <2>7 DEF ActionsInv
  <1>8. CASE ~(LeftOf(a) <= 0)
    <2>1. /\ wait' = [wait EXCEPT ![a].left = LeftOf(a)]
          /\ list' = Append(list, a) /\ running' = running /\ status' = status
      BY <1>8 DEF Resume, Reinsert
    <2>2. list' \in Seq(Action) /\ IsInjective(list') /\ Listed' = Listed \cup {a}
      BY <1>3, <2>1, ListFacts, AppendNew DEF ActionsInv, Lists, Listed
    <2>3. LeftOf(a) \in 1..MaxWait
      <3>1. wait[a] \in [kind : {"redraws", "seconds"}, left : 1..MaxWait]
        BY DEF ActionsInv, ActionTypes
      <3>2. timeDelta \in Int /\ timeDelta >= 0
        BY <1>1 DEF ActionsInv, ActionTypes, InFrame
      <3>3. MaxWait \in Nat
        BY FrameActionsAssumption
      <3>4. wait[a].left \in 1..MaxWait
        BY <3>1
      <3>. QED
        BY <1>8, <3>2, <3>3, <3>4 DEF LeftOf
    <2>4. ActionTypes'
      <3>1. wait' \in [Action -> [kind : {"redraws", "seconds"}, left : 1..MaxWait]]
        BY <2>1, <2>3 DEF ActionsInv, ActionTypes
      <3>2. pos' \in 0..Len(thisTime') /\ runs' \in [Action -> Nat]
        BY <1>1, <1>2, <1>4
      <3>3. UNCHANGED <<thisTime, running, stage, status, timeDelta, frame, now, fresh, due, gone, missed>>
        BY <1>1, <2>1 DEF timeVars
      <3>. QED
        BY <2>2, <3>1, <3>2, <3>3 DEF ActionsInv, ActionTypes
    <2>5. Lists'
      <3>1. UNCHANGED <<thisTime, status, gone, fresh>>
        BY <1>1, <2>1
      <3>. QED
        BY <1>2, <1>3, <2>2, <3>1 DEF ActionsInv, Lists
    <2>6. Runs'
      BY <1>1, <2>1 DEF ActionsInv, Runs
    <2>. QED
      BY <1>1, <1>2, <1>3, <1>5, <1>6, <2>1, <2>2, <2>4, <2>5, <2>6 DEF ActionsInv
  <1>. QED
    BY <1>7, <1>8
\* The coroutine that runs waits again: what it waits for is up to w and moment.
LEMMA YieldsStep ==
    ASSUME ActionsInv, NEW a \in Action, running = a,
           NEW kind \in {"redraws", "seconds"}, NEW n \in 1..MaxWait, Yields(a, Wait(kind, n)),
           NEW moment \in Nat, due' = [due EXCEPT ![a] = moment]
    PROVE  /\ ActionsInv'
           /\ a \notin Listed /\ list' = Append(list, a) /\ Listed' = Listed \cup {a} /\ Rest' = Rest
           /\ a \notin Rest /\ stage = "in" /\ pos \in 1..Len(thisTime) /\ a = thisTime[pos]
  <1>1. /\ status' = [status EXCEPT ![a] = "suspended"]
        /\ wait' = [wait EXCEPT ![a] = [kind |-> kind, left |-> n]]
        /\ list' = Append(list, a) /\ running' = NoAction
        /\ UNCHANGED <<thisTime, pos, stage, timeVars, runs, fresh, gone, missed>>
    BY DEF Yields, Wait, Reinsert
  <1>2. /\ a # NoAction /\ status[a] = "running" /\ stage = "in" /\ pos \in 1..Len(thisTime)
        /\ a = thisTime[pos] /\ a \notin gone
    <2>1. a # NoAction
      BY FrameActionsAssumption
    <2>. QED
      BY <2>1, ListFacts DEF ActionsInv, Runs
  <1>3. a \notin Listed \cup Rest
    BY <1>2 DEF ActionsInv, Lists
  <1>4. list' \in Seq(Action) /\ IsInjective(list') /\ Listed' = Listed \cup {a}
    BY <1>1, <1>3, ListFacts, AppendNew DEF ActionsInv, Lists, Listed
  <1>5. Rest' = Rest
    BY <1>1 DEF Rest
  <1>6. status'[a] = "suspended" /\ \A b \in Action : b # a => status'[b] = status[b]
    BY <1>1 DEF ActionsInv, ActionTypes
  <1>7. ActionTypes'
    <2>1. status' \in [Action -> {"unborn", "suspended", "running", "dead"}]
      BY <1>1 DEF ActionsInv, ActionTypes
    <2>2. wait' \in [Action -> [kind : {"redraws", "seconds"}, left : 1..MaxWait]]
      BY <1>1 DEF ActionsInv, ActionTypes
    <2>3. due' \in [Action -> Nat]
      BY DEF ActionsInv, ActionTypes
    <2>4. UNCHANGED <<thisTime, pos, stage, timeDelta, frame, now, runs, fresh, gone>>
      BY <1>1 DEF timeVars
    <2>. QED
      BY <1>1, <1>4, <2>1, <2>2, <2>3, <2>4 DEF ActionsInv, ActionTypes
  <1>8. InFrame'
    BY <1>1 DEF ActionsInv, InFrame, timeVars
  <1>9. Lists'
    <2>1. UNCHANGED <<thisTime, gone, fresh>>
      BY <1>1
    <2>2. fresh \subseteq Action /\ gone \subseteq Action
      BY DEF ActionsInv, ActionTypes
    <2>3. Listed \subseteq Action /\ Rest \subseteq Action /\ Range(thisTime) \subseteq Action
      BY ListFacts
    <2>4. IsInjective(list') /\ IsInjective(thisTime')
      BY <1>4, <2>1 DEF ActionsInv, Lists
    <2>5. Listed' \cap Rest' = {}
      BY <1>3, <1>4, <1>5 DEF ActionsInv, Lists
    <2>6. \A b \in Listed' \cup Rest' : status'[b] = "suspended" /\ b \notin gone'
      <3>1. SUFFICES ASSUME NEW b \in Listed' \cup Rest' PROVE status'[b] = "suspended" /\ b \notin gone
        BY <2>1
      <3>2. CASE b = a
        BY <1>2, <1>6, <3>2
      <3>3. CASE b # a
        <4>1. b \in Listed \cup Rest
          BY <1>4, <1>5, <3>3
        <4>2. b \in Action /\ status[b] = "suspended" /\ b \notin gone
          BY <2>3, <4>1 DEF ActionsInv, Lists
        <4>. QED
          BY <1>6, <3>3, <4>2
      <3>. QED
        BY <3>2, <3>3
    <2>7. \A b \in Range(thisTime') \cup gone' \cup fresh' : status'[b] # "unborn"
      <3>1. SUFFICES ASSUME NEW b \in Range(thisTime) \cup gone \cup fresh PROVE status'[b] # "unborn"
        BY <2>1
      <3>2. b \in Action /\ status[b] # "unborn"
        BY <2>2, <2>3 DEF ActionsInv, Lists
      <3>. QED
        BY <1>6, <3>2
    <2>8. \A b \in Action \ gone' : status'[b] = "suspended" => b \in Listed' \cup Rest'
      <3>1. SUFFICES ASSUME NEW b \in Action \ gone, status'[b] = "suspended", b # a
                     PROVE  b \in Listed \cup Rest
        BY <1>4, <1>5, <2>1
      <3>. QED
        BY <1>6, <3>1 DEF ActionsInv, Lists
    <2>. QED
      BY <2>4, <2>5, <2>6, <2>7, <2>8 DEF Lists
  <1>10. Runs'
    <2>1. \A b \in Action : status'[b] # "running" /\ b # NoAction
      BY <1>2, <1>6, FrameActionsAssumption DEF ActionsInv, Runs
    <2>. QED
      BY <1>1, <2>1 DEF Runs
  <1>11. Once'
    <2>1. UNCHANGED <<thisTime, pos, stage, frame, runs, fresh>>
      BY <1>1 DEF timeVars
    <2>2. \A b \in Action : status'[b] = "unborn" => status[b] = "unborn"
      BY <1>6
    <2>. QED
      BY <2>1, <2>2 DEF ActionsInv, Once
  <1>. QED
    BY <1>1, <1>2, <1>3, <1>4, <1>5, <1>7, <1>8, <1>9, <1>10, <1>11 DEF ActionsInv

LEMMA WaitForRedrawStep ==
    ASSUME ActionsInv, NEW a \in Action, NEW n \in 1..MaxWait, WaitForRedraw(a, n)
    PROVE  /\ ActionsInv'
           /\ a \notin Listed /\ list' = Append(list, a) /\ Listed' = Listed \cup {a} /\ Rest' = Rest
           /\ a \notin Rest /\ stage = "in" /\ pos \in 1..Len(thisTime) /\ a = thisTime[pos]
  <1>1. running = a /\ Yields(a, Wait("redraws", n)) /\ due' = [due EXCEPT ![a] = frame + n]
    BY DEF WaitForRedraw
  <1>2. frame + n \in Nat
    BY DEF ActionsInv, ActionTypes
  <1>. QED
    BY <1>1, <1>2, YieldsStep

LEMMA WaitSecondsStep ==
    ASSUME ActionsInv, NEW a \in Action, NEW s \in 1..MaxWait, WaitSeconds(a, s)
    PROVE  /\ ActionsInv'
           /\ a \notin Listed /\ list' = Append(list, a) /\ Listed' = Listed \cup {a} /\ Rest' = Rest
           /\ a \notin Rest /\ stage = "in" /\ pos \in 1..Len(thisTime) /\ a = thisTime[pos]
  <1>1. running = a /\ Yields(a, Wait("seconds", s)) /\ due' = [due EXCEPT ![a] = now + s]
    BY DEF WaitSeconds
  <1>2. now + s \in Nat
    BY DEF ActionsInv, ActionTypes
  <1>. QED
    BY <1>1, <1>2, YieldsStep

LEMMA EndsStep ==
    ASSUME ActionsInv, NEW a \in Action, Ends(a)
    PROVE  ActionsInv' /\ Rest' = Rest
  <1>1. /\ running = a /\ running' = NoAction
        /\ status' = [status EXCEPT ![a] = "dead"]
        /\ missed' \subseteq missed
        /\ UNCHANGED <<list, thisTime, pos, stage, wait, timeVars, runs, fresh, due, gone>>
    BY DEF Ends
  <1>2. a # NoAction /\ status[a] = "running"
    BY <1>1, FrameActionsAssumption DEF ActionsInv, Runs
  <1>3. a \notin Listed \cup Rest /\ Rest' = Rest /\ Listed' = Listed
    BY <1>1, <1>2 DEF ActionsInv, Lists, Rest, Listed
  <1>4. status'[a] = "dead" /\ \A b \in Action : b # a => status'[b] = status[b]
    BY <1>1 DEF ActionsInv, ActionTypes
  <1>5. ActionTypes' /\ InFrame'
    BY <1>1 DEF ActionsInv, ActionTypes, InFrame, timeVars, historyVars
  <1>6. Lists'
    <2>1. fresh \subseteq Action /\ gone \subseteq Action
      BY DEF ActionsInv, ActionTypes
    <2>2. UNCHANGED <<list, thisTime, gone, fresh>>
      BY <1>1 DEF historyVars
    <2>. QED
      BY <1>2, <1>3, <1>4, <2>1, <2>2, ListFacts DEF ActionsInv, Lists
  <1>7. Runs'
    <2>1. \A b \in Action : status'[b] # "running" /\ b # NoAction
      BY <1>1, <1>2, <1>4, FrameActionsAssumption DEF ActionsInv, Runs
    <2>. QED
      BY <1>1, <2>1 DEF Runs
  <1>8. Once'
    <2>1. UNCHANGED <<thisTime, pos, stage, frame, runs, fresh>>
      BY <1>1 DEF timeVars, historyVars
    <2>2. \A b \in Action : status'[b] = "unborn" => status[b] = "unborn"
      BY <1>4
    <2>. QED
      BY <2>1, <2>2 DEF ActionsInv, Once
  <1>. QED
    BY <1>3, <1>5, <1>6, <1>7, <1>8 DEF ActionsInv

LEMMA ActionsStep == ActionsInv /\ [ActionsNext]_actionVars => ActionsInv'
  <1>. SUFFICES ASSUME ActionsInv, [ActionsNext]_actionVars PROVE ActionsInv'
    OBVIOUS
  <1>1. CASE BeginFrame
    BY <1>1, BeginFrameStep
  <1>2. CASE UpdateBegins
    BY <1>2, UpdateBeginsStep
  <1>3. CASE UpdateEnds
    BY <1>3, UpdateEndsStep
  <1>4. ASSUME NEW a \in Action, AddFrameAction(a) PROVE ActionsInv'
    BY <1>4, AddStep
  <1>5. ASSUME NEW a \in Action, RemoveFrameAction(a) PROVE ActionsInv'
    BY <1>5, RemoveStep
  <1>6. ASSUME NEW a \in Action, Resume(a) PROVE ActionsInv'
    BY <1>6, ResumeStep
  <1>7. ASSUME NEW a \in Action, NEW n \in 1..MaxWait, WaitForRedraw(a, n) PROVE ActionsInv'
    BY <1>7, WaitForRedrawStep
  <1>8. ASSUME NEW a \in Action, NEW s \in 1..MaxWait, WaitSeconds(a, s) PROVE ActionsInv'
    BY <1>8, WaitSecondsStep
  <1>9. ASSUME NEW a \in Action, Ends(a) PROVE ActionsInv'
    BY <1>9, EndsStep
  <1>10. CASE UNCHANGED actionVars
    <2>1. UNCHANGED <<list, thisTime, pos, running, stage, status, wait, timeDelta, frame, now,
                      runs, fresh, due, gone, missed>>
      BY <1>10 DEF actionVars, timeVars, historyVars
    <2>2. Listed' = Listed /\ Rest' = Rest
      BY <2>1 DEF Listed, Rest
    <2>. QED
      BY <2>1, <2>2 DEF ActionsInv, ActionTypes, InFrame, Lists, Runs, Once
  <1>. QED
    BY <1>1, <1>2, <1>3, <1>4, <1>5, <1>6, <1>7, <1>8, <1>9, <1>10 DEF ActionsNext

LEMMA ActionsInvHolds == ActionsSpec => []ActionsInv
  BY ActionsInitial, ActionsStep, PTL DEF ActionsSpec
-----------------------------------------------------------------------------
(* Frame actions: the types.                                                *)

\* The sum of the deltas, and what is waited for, stay within their bounds.
ClockBounds ==
    /\ now <= frame * MaxDelta
    /\ \A a \in Action : due[a] <= TimeBound + FrameBound + MaxWait

LEMMA DeltaGrows ==
    ASSUME NEW k \in Nat, NEW sum \in Nat, NEW d \in 0..MaxDelta, sum <= k * MaxDelta
    PROVE  sum + d <= (k + 1) * MaxDelta
  <1>1. MaxDelta \in Nat
    BY FrameActionsAssumption
  <1>2. (k + 1) * MaxDelta = k * MaxDelta + MaxDelta /\ k * MaxDelta \in Nat
    BY <1>1, SMT
  <1>. QED
    BY <1>1, <1>2, SMT

LEMMA TimeBounded ==
    ASSUME NEW k \in 0..FrameBound, NEW sum \in Nat, sum <= k * MaxDelta
    PROVE  sum <= TimeBound /\ TimeBound \in Nat
  <1>1. MaxDelta \in Nat /\ FrameBound \in Nat /\ FrameBound - k \in Nat /\ k \in Nat
    BY FrameActionsAssumption
  <1>2. /\ (FrameBound - k) * MaxDelta \in Nat /\ k * MaxDelta \in Nat
        /\ FrameBound * MaxDelta = k * MaxDelta + (FrameBound - k) * MaxDelta
    BY <1>1, SMT
  <1>. QED
    BY <1>1, <1>2, SMT DEF TimeBound

LEMMA ClockStep == ActionsInv /\ ClockBounds /\ [ActionsNext]_actionVars => ClockBounds'
  <1>. SUFFICES ASSUME ActionsInv, ClockBounds, [ActionsNext]_actionVars PROVE ClockBounds'
    OBVIOUS
  <1>1. /\ now \in Nat /\ frame \in 0..FrameBound /\ frame \in Nat /\ due \in [Action -> Nat]
        /\ FrameBound \in Nat /\ MaxWait \in Nat
    BY FrameActionsAssumption DEF ActionsInv, ActionTypes
  <1>2. now <= TimeBound /\ TimeBound \in Nat /\ now <= frame * MaxDelta
    BY <1>1, TimeBounded DEF ClockBounds
  <1>3. CASE UNCHANGED <<frame, now, due>>
    BY <1>3 DEF ClockBounds
  <1>4. CASE BeginFrame
    <2>1. PICK d \in 0..MaxDelta : now' = now + d
      BY <1>4 DEF BeginFrame
    <2>2. frame' = frame + 1 /\ due' = due
      BY <1>4 DEF BeginFrame
    <2>3. now + d <= (frame + 1) * MaxDelta
      BY <1>1, <1>2, DeltaGrows
    <2>. QED
      BY <2>1, <2>2, <2>3 DEF ClockBounds
  <1>5. ASSUME NEW a \in Action, NEW n \in 1..MaxWait, WaitForRedraw(a, n) \/ WaitSeconds(a, n)
        PROVE  ClockBounds'
    <2>1. /\ due' = [due EXCEPT ![a] = frame + n] \/ due' = [due EXCEPT ![a] = now + n]
          /\ UNCHANGED <<frame, now>>
      BY <1>5 DEF WaitForRedraw, WaitSeconds, Yields, timeVars
    <2>2. /\ frame + n <= TimeBound + FrameBound + MaxWait
          /\ now + n <= TimeBound + FrameBound + MaxWait
      BY <1>1, <1>2
    <2>. QED
      BY <1>1, <2>1, <2>2 DEF ClockBounds
  <1>6. ASSUME NEW a \in Action, AddFrameAction(a) \/ RemoveFrameAction(a) \/ Resume(a) \/ Ends(a)
        PROVE  UNCHANGED <<frame, now, due>>
    BY <1>6 DEF AddFrameAction, RemoveFrameAction, Resume, Ends, timeVars, historyVars
  <1>7. ASSUME UpdateBegins \/ UpdateEnds \/ UNCHANGED actionVars
        PROVE  UNCHANGED <<frame, now, due>>
    BY <1>7 DEF UpdateBegins, UpdateEnds, actionVars, timeVars, historyVars
  <1>. QED
    BY <1>3, <1>4, <1>5, <1>6, <1>7 DEF ActionsNext

\* Every variable of the frame actions keeps its type: in particular no action
\* is resumed more often than there were frames.
THEOREM ActionsTypeCorrect == ActionsSpec => []ActionsTypeOK
  <1>1. ActionsInit => ClockBounds
    <2>. SUFFICES ASSUME ActionsInit PROVE ClockBounds
      OBVIOUS
    <2>1. 0 * MaxDelta = 0 /\ 0 <= 0
      BY FrameActionsAssumption
    <2>2. 0 <= TimeBound + FrameBound + MaxWait
      <3>1. 0 \in 0..FrameBound /\ 0 \in Nat
        BY FrameActionsAssumption
      <3>2. TimeBound \in Nat
        BY <2>1, <3>1, TimeBounded
      <3>. QED
        BY <3>2, FrameActionsAssumption
    <2>. QED
      BY <2>1, <2>2 DEF ActionsInit, ClockBounds
  <1>2. ActionsInv /\ ClockBounds => ActionsTypeOK
    <2>. SUFFICES ASSUME ActionsInv, ClockBounds PROVE ActionsTypeOK
      OBVIOUS
    <2>1. now \in 0..TimeBound /\ TimeBound \in Nat
      BY TimeBounded DEF ActionsInv, ActionTypes, ClockBounds
    <2>2. runs \in [Action -> 0..FrameBound]
      <3>1. runs \in [Action -> Nat] /\ \A a \in Action : runs[a] <= frame
        BY DEF ActionsInv, ActionTypes, Once
      <3>2. \A a \in Action : runs[a] \in 0..FrameBound
        BY <3>1, FrameActionsAssumption DEF ActionsInv, ActionTypes
      <3>. QED
        BY <3>1, <3>2
    <2>3. due \in [Action -> 0..(TimeBound + FrameBound + MaxWait)]
      <3>1. due \in [Action -> Nat]
        BY DEF ActionsInv, ActionTypes
      <3>2. \A a \in Action : due[a] \in 0..(TimeBound + FrameBound + MaxWait)
        BY <2>1, <3>1, FrameActionsAssumption DEF ClockBounds
      <3>. QED
        BY <3>1, <3>2
    <2>. QED
      BY <2>1, <2>2, <2>3, ListFacts DEF ActionsInv, ActionTypes, ActionsTypeOK, Listed
  <1>. QED
    BY <1>1, <1>2, ClockStep, ActionsInvHolds, PTL DEF ActionsSpec

-----------------------------------------------------------------------------
(* Frame actions: the list.                                                 *)

LEMMA ConcatNew ==
    ASSUME NEW S, NEW s \in Seq(S), NEW t \in Seq(S), IsInjective(s), IsInjective(t),
           Range(s) \cap Range(t) = {}
    PROVE  IsInjective(s \o t)
  <1>1. /\ Len(s) \in Nat /\ Len(t) \in Nat
        /\ DOMAIN s = 1..Len(s) /\ DOMAIN t = 1..Len(t)
    BY LenProperties
  <1>2. /\ s \o t \in Seq(S) /\ Len(s \o t) = Len(s) + Len(t)
        /\ \A i \in 1..(Len(s) + Len(t)) :
              (s \o t)[i] = IF i <= Len(s) THEN s[i] ELSE t[i - Len(s)]
    BY ConcatProperties
  <1>3. DOMAIN (s \o t) = 1..(Len(s) + Len(t))
    BY <1>2, LenProperties
  <1>. SUFFICES ASSUME NEW i \in 1..(Len(s) + Len(t)), NEW j \in 1..(Len(s) + Len(t)),
                       (s \o t)[i] = (s \o t)[j]
                PROVE  i = j
    BY <1>3 DEF IsInjective
  <1>. DEFINE k == i - Len(s)
              l == j - Len(s)
  <1>4. \A m \in 1..Len(s), n \in 1..Len(t) : s[m] # t[n]
    BY <1>1 DEF Range
  <1>5. CASE i <= Len(s) /\ j <= Len(s)
    BY <1>1, <1>2, <1>5 DEF IsInjective
  <1>6. CASE i <= Len(s) /\ ~(j <= Len(s))
    <2>1. i \in 1..Len(s) /\ l \in 1..Len(t)
      BY <1>1, <1>6
    <2>2. (s \o t)[i] = s[i] /\ (s \o t)[j] = t[l]
      BY <1>2, <1>6
    <2>. QED
      BY <1>4, <2>1, <2>2
  <1>7. CASE ~(i <= Len(s)) /\ j <= Len(s)
    <2>1. j \in 1..Len(s) /\ k \in 1..Len(t)
      BY <1>1, <1>7
    <2>2. (s \o t)[j] = s[j] /\ (s \o t)[i] = t[k]
      BY <1>2, <1>7
    <2>. QED
      BY <1>4, <2>1, <2>2
  <1>8. CASE ~(i <= Len(s)) /\ ~(j <= Len(s))
    <2>1. k \in 1..Len(t) /\ l \in 1..Len(t)
      BY <1>1, <1>8
    <2>2. (s \o t)[i] = t[k] /\ (s \o t)[j] = t[l]
      BY <1>2, <1>8
    <2>3. k = l
      BY <1>1, <2>1, <2>2 DEF IsInjective
    <2>. QED
      BY <1>1, <2>3
  <1>. QED
    BY <1>5, <1>6, <1>7, <1>8

\* The list holds every action that is to go on, once, and none that ended or that
\* removeFrameAction took off it, for any number of actions that add and remove each
\* other during an update.  It says nothing of an action that was to be removed and
\* was not found, which goes on although it should not (RemovedIsStopped).
THEOREM ListCorrect == ActionsSpec => []ListExact
  <1>1. ActionsInv => ListExact
    <2>. SUFFICES ASSUME ActionsInv PROVE ListExact
      OBVIOUS
    <2>1. Ahead \in Seq(Action) /\ Range(Ahead) = Rest /\ IsInjective(Ahead)
      BY RestIsAhead DEF ActionsInv, Lists
    <2>2. Known = Listed \cup Rest
      BY <2>1 DEF Known, Listed
    <2>3. IsInjective(list \o Ahead)
      BY <2>1, ListFacts, ConcatNew DEF ActionsInv, Lists, Listed
    <2>4. ListedOnce
      BY <2>2, <2>3 DEF ListedOnce, ActionsInv, Lists
    <2>5. NoneLost
      BY <2>2 DEF NoneLost, ActionsInv, Lists
    <2>6. FoundIsGone
      <3>1. gone \subseteq Action
        BY DEF ActionsInv, ActionTypes
      <3>2. running \notin gone
        BY <3>1, FrameActionsAssumption DEF ActionsInv, Runs
      <3>. QED
        BY <2>2, <3>2 DEF FoundIsGone, ActionsInv, Lists
    <2>. QED
      BY <2>4, <2>5, <2>6 DEF ListExact
  <1>. QED
    BY <1>1, ActionsInvHolds, PTL
-----------------------------------------------------------------------------
(* Frame actions: the order.                                                *)

\* An action that goes on the list while an update is under way follows every
\* action of that update on the list already.
LEMMA AppendKeepsOrder ==
    ASSUME ActionsInv, OrderKept, NEW c \in Action, c \notin Listed, stage' = stage,
           list' = Append(list, c), thisTime' = thisTime,
           \A k, l \in 1..Len(thisTime) :
               stage = "in" /\ thisTime[l] = c /\ thisTime[k] \in Listed => k < l
    PROVE  OrderKept'
  <1>1. /\ list' \in Seq(Action) /\ Len(list') = Len(list) + 1
        /\ \A i \in 1..Len(list) : list'[i] = list[i]
        /\ list'[Len(list) + 1] = c
    BY ListFacts, AppendNew DEF ActionsInv, Lists, Listed
  <1>2. DOMAIN list' = 1..(Len(list) + 1)
    BY <1>1, LenProperties
  <1>. SUFFICES ASSUME NEW i \in 1..(Len(list) + 1), NEW j \in 1..(Len(list) + 1),
                       NEW k \in 1..Len(thisTime), NEW l \in 1..Len(thisTime),
                       stage = "in", list'[i] = thisTime[k], list'[j] = thisTime[l], i < j
                PROVE  k < l
    BY <1>2, ListFacts DEF OrderKept
  <1>3. i \in 1..Len(list) /\ list'[i] = list[i] /\ list[i] \in Listed
    <2>1. i \in 1..Len(list)
      BY ListFacts
    <2>. QED
      BY <1>1, <2>1, ListFacts DEF Listed, Range
  <1>4. CASE j = Len(list) + 1
    <2>1. thisTime[l] = c /\ thisTime[k] \in Listed
      BY <1>1, <1>3, <1>4
    <2>. QED
      BY <2>1
  <1>5. CASE j \in 1..Len(list)
    BY <1>1, <1>3, <1>5, ListFacts DEF OrderKept
  <1>. QED
    BY <1>4, <1>5, ListFacts

\* The actions on the list that the update under way resumed are behind its place.
LEMMA ListedAreBehind ==
    ASSUME ActionsInv, stage = "in", NEW k \in 1..Len(thisTime), thisTime[k] \in Listed
    PROVE  k <= pos
  <1>1. thisTime[k] \notin Rest
    BY DEF ActionsInv, Lists
  <1>2. ~(k \in (pos + 1)..Len(thisTime))
    BY <1>1 DEF Rest
  <1>. QED
    BY <1>2, ListFacts

LEMMA OrderStep == ActionsInv /\ OrderKept /\ [ActionsNext]_actionVars => OrderKept'
  <1>. SUFFICES ASSUME ActionsInv, OrderKept, [ActionsNext]_actionVars PROVE OrderKept'
    OBVIOUS
  <1>1. CASE BeginFrame \/ UpdateEnds
    BY <1>1 DEF BeginFrame, UpdateEnds, OrderKept
  <1>2. CASE UpdateBegins
    <2>1. list' = <<>> /\ DOMAIN <<>> = {}
      BY <1>2, EmptySeq DEF UpdateBegins
    <2>. QED
      BY <2>1 DEF OrderKept
  <1>3. ASSUME NEW a \in Action, AddFrameAction(a) PROVE OrderKept'
    <2>1. a \notin Listed /\ a \notin Range(thisTime) /\ list' = Append(list, a)
      BY <1>3, AddStep
    <2>2. \A l \in 1..Len(thisTime) : thisTime[l] # a
      BY <2>1, ListFacts
    <2>. QED
      BY <1>3, <2>1, <2>2, AppendKeepsOrder DEF AddFrameAction
  <1>4. ASSUME NEW a \in Action, RemoveFrameAction(a) PROVE OrderKept'
    <2>1. UNCHANGED <<thisTime, stage>>
      BY <1>4 DEF RemoveFrameAction
    <2>2. list' = list \/ \E i \in 1..Len(list) : list' = RemoveAt(list, i)
      BY <1>4, RemoveStep
    <2>3. CASE list' = list
      BY <2>1, <2>3 DEF OrderKept
    <2>4. ASSUME NEW h \in 1..Len(list), list' = RemoveAt(list, h) PROVE OrderKept'
      <3>1. /\ list' \in Seq(Action) /\ Len(list') = Len(list) - 1
            /\ \A j \in 1..(Len(list) - 1) : list'[j] = IF j < h THEN list[j] ELSE list[j + 1]
        <4>1. IsInjective(list) /\ list \in Seq(Action)
          BY ListFacts DEF ActionsInv, Lists
        <4>. QED
          BY <2>4, <4>1, RemoveOne
      <3>2. DOMAIN list' = 1..(Len(list) - 1)
        BY <3>1, LenProperties
      <3>. SUFFICES ASSUME NEW i \in 1..(Len(list) - 1), NEW j \in 1..(Len(list) - 1),
                           NEW k \in 1..Len(thisTime), NEW l \in 1..Len(thisTime),
                           stage = "in", list'[i] = thisTime[k], list'[j] = thisTime[l], i < j
                    PROVE  k < l
        BY <2>1, <3>2, ListFacts DEF OrderKept
      <3>. DEFINE m == IF i < h THEN i ELSE i + 1
                  n == IF j < h THEN j ELSE j + 1
      <3>3. list'[i] = list[m] /\ list'[j] = list[n]
        BY <3>1
      <3>4. m \in 1..Len(list) /\ n \in 1..Len(list) /\ m < n
        BY ListFacts
      <3>. HIDE DEF m, n
      <3>. QED
        BY <3>3, <3>4, ListFacts DEF OrderKept
    <2>. QED
      BY <2>2, <2>3, <2>4
  <1>5. ASSUME NEW a \in Action, Resume(a) PROVE OrderKept'
    <2>1. /\ a \notin Listed /\ a = thisTime[pos + 1] /\ pos + 1 \in 1..Len(thisTime)
          /\ LeftOf(a) > 0 => list' = Append(list, a)
      BY <1>5, ResumeStep
    <2>2. UNCHANGED <<thisTime, stage>> /\ stage = "in"
      BY <1>5 DEF Resume
    <2>3. list' = list \/ list' = Append(list, a)
      BY <1>5 DEF Resume, Reinsert
    <2>4. CASE list' = list
      BY <2>2, <2>4 DEF OrderKept
    <2>5. CASE list' = Append(list, a)
      <3>1. ASSUME NEW k \in 1..Len(thisTime), NEW l \in 1..Len(thisTime),
                   thisTime[l] = a, thisTime[k] \in Listed
            PROVE  k < l
        <4>1. k <= pos
          BY <2>2, <3>1, ListedAreBehind
        <4>2. l = pos + 1
          BY <2>1, <3>1, ListFacts DEF ActionsInv, Lists, IsInjective
        <4>. QED
          BY <4>1, <4>2, ListFacts
      <3>. QED
        BY <2>1, <2>2, <2>5, <3>1, AppendKeepsOrder
    <2>. QED
      BY <2>3, <2>4, <2>5
  <1>6. ASSUME NEW a \in Action, NEW n \in 1..MaxWait, WaitForRedraw(a, n) \/ WaitSeconds(a, n)
        PROVE  OrderKept'
    <2>1. /\ a \notin Listed /\ list' = Append(list, a) /\ stage = "in"
          /\ pos \in 1..Len(thisTime) /\ a = thisTime[pos]
      BY <1>6, WaitForRedrawStep, WaitSecondsStep
    <2>2. UNCHANGED <<thisTime, stage>>
      BY <1>6 DEF WaitForRedraw, WaitSeconds, Yields
    <2>3. ASSUME NEW k \in 1..Len(thisTime), NEW l \in 1..Len(thisTime),
                 thisTime[l] = a, thisTime[k] \in Listed
          PROVE  k < l
      <3>1. k <= pos /\ thisTime[k] # a
        BY <2>1, <2>3, ListedAreBehind
      <3>2. l = pos /\ k # pos
        BY <2>1, <2>3, <3>1, ListFacts DEF ActionsInv, Lists, IsInjective
      <3>. QED
        BY <3>1, <3>2, ListFacts
    <2>. QED
      BY <2>1, <2>2, <2>3, AppendKeepsOrder
  <1>7. ASSUME NEW a \in Action, Ends(a) PROVE OrderKept'
    BY <1>7 DEF Ends, OrderKept
  <1>8. CASE UNCHANGED actionVars
    BY <1>8 DEF actionVars, OrderKept
  <1>. QED
    BY <1>1, <1>2, <1>3, <1>4, <1>5, <1>6, <1>7, <1>8 DEF ActionsNext

\* An update resumes each action of its list once, in the order of the update
\* before, whatever is added, removed or ends meanwhile.
THEOREM OrderCorrect == ActionsSpec => []OnceInOrder
  <1>1. ActionsInit => OrderKept
    BY DEF ActionsInit, OrderKept
  <1>2. ActionsInv => OncePerFrame
    <2>. SUFFICES ASSUME ActionsInv, stage = "after", NEW a \in Range(thisTime) \cup fresh
                  PROVE  runs[a] = IF a \in fresh THEN 0 ELSE 1
      BY DEF OncePerFrame
    <2>1. CASE a \in fresh
      BY <2>1 DEF ActionsInv, Once
    <2>2. CASE a \notin fresh
      <3>1. PICK k \in 1..Len(thisTime) : a = thisTime[k]
        BY <2>2, ListFacts DEF Range
      <3>2. k <= pos
        BY <3>1, ListFacts DEF ActionsInv, Once
      <3>3. runs[thisTime[k]] = IF k <= pos THEN 1 ELSE 0
        BY DEF ActionsInv, Once
      <3>. QED
        BY <2>2, <3>1, <3>2, <3>3
    <2>. QED
      BY <2>1, <2>2
  <1>3. ActionsInv /\ OrderKept => OnceInOrder
    BY <1>2 DEF OnceInOrder
  <1>. QED
    BY <1>1, <1>3, OrderStep, ActionsInvHolds, PTL DEF ActionsSpec

-----------------------------------------------------------------------------
(* Frame actions: the waits.                                                *)

\* What an action waits for, now and as of the frame before.
Clock(a) == IF wait[a].kind = "redraws" THEN frame ELSE now

ClockBefore(a) == IF wait[a].kind = "redraws" THEN frame - 1 ELSE now - timeDelta

\* An action that has not been resumed yet waits for the next redraw.
NeverRan(a) == wait[a] = [kind |-> "redraws", left |-> 1] /\ due[a] = 0

\* What is left of a wait counts from this frame once the action was resumed in
\* it, and until then from the frame before.
WaitOf(a) ==
    /\ status[a] = "unborn" => NeverRan(a)
    /\ status[a] = "running" => Clock(a) >= due[a]
    /\ stage = "before" /\ a \in Listed => NeverRan(a) \/ due[a] = ClockBefore(a) + wait[a].left
    /\ a \in Rest => NeverRan(a) \/ due[a] = ClockBefore(a) + wait[a].left
    /\ stage # "before" /\ a \in Listed =>
          \/ due[a] = Clock(a) + wait[a].left
          \/ NeverRan(a) /\ a \notin Range(thisTime)

WaitInv == \A a \in Action : WaitOf(a)
\* A step that touches neither the clock nor what an action waits for.
LEMMA WaitKept ==
    ASSUME NEW b \in Action, WaitOf(b), status'[b] = status[b], wait'[b] = wait[b], due'[b] = due[b],
           UNCHANGED <<stage, timeDelta, frame, now, thisTime>>,
           b \in Listed' => b \in Listed, b \in Rest' => b \in Rest
    PROVE  WaitOf(b)'
  <1>1. Clock(b)' = Clock(b) /\ ClockBefore(b)' = ClockBefore(b) /\ NeverRan(b)' = NeverRan(b)
    BY DEF Clock, ClockBefore, NeverRan
  <1>2. Range(thisTime)' = Range(thisTime)
    OBVIOUS
  <1>. QED
    BY <1>1, <1>2 DEF WaitOf

\* An action that yields waits from now on.
LEMMA WaitBegins ==
    ASSUME ActionsInv, WaitInv, NEW a \in Action, NEW kind \in {"redraws", "seconds"},
           NEW n \in 1..MaxWait, Yields(a, Wait(kind, n)), stage = "in", a \notin Rest,
           due' = [due EXCEPT ![a] = (IF kind = "redraws" THEN frame ELSE now) + n],
           Listed' = Listed \cup {a}, Rest' = Rest
    PROVE  WaitInv'
  <1>1. /\ status' = [status EXCEPT ![a] = "suspended"]
        /\ wait' = [wait EXCEPT ![a] = [kind |-> kind, left |-> n]]
        /\ UNCHANGED <<stage, timeDelta, frame, now, thisTime>>
    BY DEF Yields, Wait, timeVars
  <1>2. /\ status \in [Action -> {"unborn", "suspended", "running", "dead"}]
        /\ wait \in [Action -> [kind : {"redraws", "seconds"}, left : 1..MaxWait]]
        /\ due \in [Action -> Nat]
    BY DEF ActionsInv, ActionTypes
  <1>3. WaitOf(a)'
    <2>1. status'[a] = "suspended" /\ wait'[a] = [kind |-> kind, left |-> n]
      BY <1>1, <1>2
    <2>2. due'[a] = (IF kind = "redraws" THEN frame ELSE now) + n
      BY <1>2
    <2>3. due'[a] = Clock(a)' + wait'[a].left
      BY <1>1, <2>1, <2>2 DEF Clock
    <2>4. stage' = "in" /\ a \notin Rest'
      BY <1>1
    <2>. QED
      BY <2>1, <2>3, <2>4 DEF WaitOf
  <1>4. ASSUME NEW b \in Action, b # a PROVE WaitOf(b)'
    <2>1. status'[b] = status[b] /\ wait'[b] = wait[b] /\ due'[b] = due[b]
      BY <1>1, <1>2, <1>4
    <2>. QED
      BY <1>1, <1>4, <2>1, WaitKept DEF WaitInv
  <1>. QED
    BY <1>3, <1>4 DEF WaitInv

LEMMA ResumeKeepsWaits ==
    ASSUME ActionsInv, WaitInv, NEW a \in Action, Resume(a)
    PROVE  WaitInv'
  <1>1. /\ stage = "in" /\ a \in Rest /\ Rest' = Rest \ {a} /\ a \notin Listed
        /\ UNCHANGED <<stage, timeDelta, frame, now, thisTime, due>>
    BY ResumeStep DEF Resume, timeVars
  <1>2. /\ status \in [Action -> {"unborn", "suspended", "running", "dead"}]
        /\ wait \in [Action -> [kind : {"redraws", "seconds"}, left : 1..MaxWait]]
        /\ due \in [Action -> Nat] /\ frame \in Nat /\ now \in Nat /\ timeDelta \in Int
    BY DEF ActionsInv, ActionTypes
  <1>3. wait[a].kind \in {"redraws", "seconds"} /\ wait[a].left \in Nat /\ due[a] \in Nat
    BY <1>2
  <1>4. NeverRan(a) \/ due[a] = ClockBefore(a) + wait[a].left
    BY <1>1 DEF WaitInv, WaitOf
  <1>5. CASE LeftOf(a) <= 0
    <2>1. /\ status' = [status EXCEPT ![a] = "running"]
          /\ list' = list /\ wait' = wait
      BY <1>5 DEF Resume
    <2>2. Listed' = Listed
      BY <2>1 DEF Listed
    <2>3. Clock(a) >= due[a]
      <3>1. CASE NeverRan(a)
        BY <1>2, <3>1 DEF NeverRan, Clock
      <3>2. CASE due[a] = ClockBefore(a) + wait[a].left
        BY <1>2, <1>3, <1>5, <3>2 DEF ClockBefore, Clock, LeftOf
      <3>. QED
        BY <1>4, <3>1, <3>2
    <2>4. WaitOf(a)'
      <3>1. status'[a] = "running" /\ a \notin Rest' /\ a \notin Listed'
        BY <1>1, <1>2, <2>1, <2>2
      <3>2. Clock(a)' >= due'[a]
        BY <1>1, <2>1, <2>3 DEF Clock
      <3>. QED
        BY <3>1, <3>2 DEF WaitOf
    <2>5. ASSUME NEW b \in Action, b # a PROVE WaitOf(b)'
      <3>1. status'[b] = status[b] /\ wait'[b] = wait[b] /\ due'[b] = due[b]
        BY <1>1, <1>2, <2>1, <2>5
      <3>. QED
        BY <1>1, <2>2, <3>1, WaitKept DEF WaitInv
    <2>. QED
      BY <2>4, <2>5 DEF WaitInv
  <1>6. CASE LeftOf(a) > 0
    <2>1. /\ wait' = [wait EXCEPT ![a].left = LeftOf(a)] /\ status' = status
          /\ Listed' = Listed \cup {a}
      <3>1. ~(LeftOf(a) <= 0)
        BY <1>2, <1>3, <1>6 DEF LeftOf
      <3>. QED
        BY <1>6, <3>1, ResumeStep DEF Resume
    <2>2. due[a] = ClockBefore(a) + wait[a].left
      <3>1. ~NeverRan(a)
        BY <1>6 DEF NeverRan, LeftOf
      <3>. QED
        BY <1>4, <3>1
    <2>3. wait'[a].kind = wait[a].kind /\ wait'[a].left = LeftOf(a)
      BY <1>2, <2>1
    <2>4. due'[a] = Clock(a)' + wait'[a].left
      <3>1. Clock(a)' = Clock(a)
        BY <1>1, <2>3 DEF Clock
      <3>2. due[a] = Clock(a) + LeftOf(a)
        BY <1>2, <1>3, <2>2 DEF ClockBefore, Clock, LeftOf
      <3>. QED
        BY <1>1, <2>3, <3>1, <3>2
    <2>5. WaitOf(a)'
      <3>1. status[a] = "suspended" /\ stage' = "in" /\ a \notin Rest'
        BY <1>1 DEF ActionsInv, Lists
      <3>. QED
        BY <2>1, <2>4, <3>1 DEF WaitOf
    <2>6. ASSUME NEW b \in Action, b # a PROVE WaitOf(b)'
      <3>1. status'[b] = status[b] /\ wait'[b] = wait[b] /\ due'[b] = due[b]
        BY <1>1, <1>2, <2>1, <2>6
      <3>. QED
        BY <1>1, <2>1, <2>6, <3>1, WaitKept DEF WaitInv
    <2>. QED
      BY <2>5, <2>6 DEF WaitInv
  <1>. QED
    BY <1>2, <1>3, <1>5, <1>6 DEF LeftOf
LEMMA WaitStep == ActionsInv /\ WaitInv /\ [ActionsNext]_actionVars => WaitInv'
  <1>. SUFFICES ASSUME ActionsInv, WaitInv, [ActionsNext]_actionVars PROVE WaitInv'
    OBVIOUS
  <1>1. CASE BeginFrame
    <2>1. /\ stage = "after" /\ stage' = "before" /\ frame' = frame + 1
          /\ now' = now + timeDelta'
          /\ UNCHANGED <<list, thisTime, running, status, wait, due>>
      BY <1>1 DEF BeginFrame
    <2>2. timeDelta' \in Int /\ frame \in Int /\ now \in Int
      BY <1>1, FrameActionsAssumption DEF BeginFrame, ActionsInv, ActionTypes
    <2>3. Listed' = Listed /\ Rest' = {}
      BY <1>1, BeginFrameStep
    <2>4. \A a \in Action : status[a] # "running"
      BY <2>1, FrameActionsAssumption DEF ActionsInv, Runs
    <2>5. ASSUME NEW a \in Action PROVE WaitOf(a)'
      <3>1. ClockBefore(a)' = Clock(a) /\ NeverRan(a)' = NeverRan(a)
        <4>1. \A k, d \in Int : (k + d) - d = k
          BY SMT
        <4>2. frame' - 1 = frame /\ now' - timeDelta' = now
          <5>1. frame' = frame + 1 /\ now' = now + timeDelta'
            BY <2>1
          <5>2. (now + timeDelta') - timeDelta' = now
            BY <2>2, <4>1, Zenon
          <5>3. (frame + 1) - 1 = frame
            BY ONLY <2>2, SMT
          <5>. QED
            BY ONLY <5>1, <5>2, <5>3, Zenon
        <4>. QED
          BY <2>1, <4>2 DEF Clock, ClockBefore, NeverRan
      <3>2. a \in Listed => NeverRan(a) \/ due[a] = Clock(a) + wait[a].left
        BY <2>1 DEF WaitInv, WaitOf
      <3>3. status[a] = "unborn" => NeverRan(a)
        BY DEF WaitInv, WaitOf
      <3>. QED
        BY <2>1, <2>3, <2>4, <3>1, <3>2, <3>3 DEF WaitOf
    <2>. QED
      BY <2>5 DEF WaitInv
  <1>2. CASE UpdateBegins
    <2>1. /\ stage = "before" /\ stage' = "in"
          /\ UNCHANGED <<status, wait, due, timeDelta, frame, now>>
      BY <1>2 DEF UpdateBegins, timeVars, historyVars
    <2>2. Listed' = {} /\ Rest' = Listed
      BY <1>2, UpdateBeginsStep
    <2>3. ASSUME NEW a \in Action PROVE WaitOf(a)'
      <3>1. /\ Clock(a)' = Clock(a) /\ ClockBefore(a)' = ClockBefore(a)
            /\ NeverRan(a)' = NeverRan(a)
        BY <2>1 DEF Clock, ClockBefore, NeverRan
      <3>. QED
        BY <2>1, <2>2, <3>1 DEF WaitInv, WaitOf
    <2>. QED
      BY <2>3 DEF WaitInv
  <1>3. CASE UpdateEnds
    <2>1. /\ stage = "in" /\ stage' = "after" /\ Rest' = {}
          /\ UNCHANGED <<list, thisTime, status, wait, due, timeDelta, frame, now>>
      BY <1>3, UpdateEndsStep DEF UpdateEnds, timeVars, historyVars
    <2>2. ASSUME NEW a \in Action PROVE WaitOf(a)'
      <3>1. /\ Clock(a)' = Clock(a) /\ NeverRan(a)' = NeverRan(a)
            /\ Listed' = Listed /\ Range(thisTime)' = Range(thisTime)
        BY <2>1 DEF Clock, NeverRan, Listed
      <3>. QED
        BY <2>1, <3>1 DEF WaitInv, WaitOf
    <2>. QED
      BY <2>2 DEF WaitInv
  <1>4. ASSUME NEW a \in Action, AddFrameAction(a) PROVE WaitInv'
    <2>1. /\ status[a] = "unborn" /\ status' = [status EXCEPT ![a] = "suspended"]
          /\ UNCHANGED <<stage, timeDelta, frame, now, thisTime, wait, due>>
          /\ status \in [Action -> {"unborn", "suspended", "running", "dead"}]
      BY <1>4 DEF AddFrameAction, timeVars, ActionsInv, ActionTypes
    <2>2. a \notin Range(thisTime) /\ Listed' = Listed \cup {a} /\ Rest' = Rest
      BY <1>4, AddStep
    <2>3. a \notin Rest
      BY <2>2, ListFacts
    <2>4. WaitOf(a)'
      <3>1. NeverRan(a)'
        BY <2>1 DEF WaitInv, WaitOf, NeverRan
      <3>2. status'[a] = "suspended" /\ a \notin Rest' /\ a \notin Range(thisTime)'
        BY <2>1, <2>2, <2>3
      <3>. QED
        BY <3>1, <3>2 DEF WaitOf
    <2>5. ASSUME NEW b \in Action, b # a PROVE WaitOf(b)'
      <3>1. status'[b] = status[b]
        BY <2>1, <2>5
      <3>. QED
        BY <2>1, <2>2, <2>5, <3>1, WaitKept DEF WaitInv
    <2>. QED
      BY <2>4, <2>5 DEF WaitInv
  <1>5. ASSUME NEW a \in Action, RemoveFrameAction(a) PROVE WaitInv'
    <2>1. UNCHANGED <<stage, timeDelta, frame, now, thisTime, status, wait, due>>
      BY <1>5 DEF RemoveFrameAction, timeVars
    <2>2. Listed' = Listed \ {a} /\ Rest' = Rest
      BY <1>5, RemoveStep
    <2>. QED
      BY <2>1, <2>2, WaitKept DEF WaitInv
  <1>6. ASSUME NEW a \in Action, Resume(a) PROVE WaitInv'
    BY <1>6, ResumeKeepsWaits
  <1>7. ASSUME NEW a \in Action, NEW n \in 1..MaxWait, WaitForRedraw(a, n) PROVE WaitInv'
    <2>1. stage = "in" /\ a \notin Rest /\ Listed' = Listed \cup {a} /\ Rest' = Rest
      BY <1>7, WaitForRedrawStep
    <2>2. Yields(a, Wait("redraws", n)) /\ due' = [due EXCEPT ![a] = frame + n]
      BY <1>7 DEF WaitForRedraw
    <2>. QED
      BY <2>1, <2>2, WaitBegins
  <1>8. ASSUME NEW a \in Action, NEW s \in 1..MaxWait, WaitSeconds(a, s) PROVE WaitInv'
    <2>1. stage = "in" /\ a \notin Rest /\ Listed' = Listed \cup {a} /\ Rest' = Rest
      BY <1>8, WaitSecondsStep
    <2>2. Yields(a, Wait("seconds", s)) /\ due' = [due EXCEPT ![a] = now + s]
      BY <1>8 DEF WaitSeconds
    <2>. QED
      BY <2>1, <2>2, WaitBegins
  <1>9. ASSUME NEW a \in Action, Ends(a) PROVE WaitInv'
    <2>1. /\ status' = [status EXCEPT ![a] = "dead"] /\ running = a
          /\ UNCHANGED <<list, stage, timeDelta, frame, now, thisTime, wait, due>>
          /\ status \in [Action -> {"unborn", "suspended", "running", "dead"}]
      BY <1>9 DEF Ends, timeVars, historyVars, ActionsInv, ActionTypes
    <2>2. Listed' = Listed /\ Rest' = Rest
      BY <1>9, <2>1, EndsStep DEF Listed
    <2>3. status'[a] = "dead" /\ a \notin Listed /\ a \notin Rest
      <3>1. status[a] = "running"
        BY <2>1 DEF ActionsInv, Runs
      <3>. QED
        BY <2>1, <3>1 DEF ActionsInv, Lists
    <2>4. WaitOf(a)'
      BY <2>2, <2>3 DEF WaitOf
    <2>5. ASSUME NEW b \in Action, b # a PROVE WaitOf(b)'
      <3>1. status'[b] = status[b]
        BY <2>1, <2>5
      <3>. QED
        BY <2>1, <2>2, <3>1, WaitKept DEF WaitInv
    <2>. QED
      BY <2>4, <2>5 DEF WaitInv
  <1>10. CASE UNCHANGED actionVars
    <2>1. UNCHANGED <<list, pos, stage, timeDelta, frame, now, thisTime, status, wait, due>>
      BY <1>10 DEF actionVars, timeVars, historyVars
    <2>2. Listed' = Listed /\ Rest' = Rest
      BY <2>1 DEF Listed, Rest
    <2>. QED
      BY <2>1, <2>2, WaitKept DEF WaitInv
  <1>. QED
    BY <1>1, <1>2, <1>3, <1>4, <1>5, <1>6, <1>7, <1>8, <1>9, <1>10 DEF ActionsNext

\* An action that waits runs on neither too early nor a frame too late, for any
\* lengths of the frames.
THEOREM WaitsCorrect == ActionsSpec => []WaitsExactly
  <1>1. ActionsInit => WaitInv
    <2>. SUFFICES ASSUME ActionsInit, NEW a \in Action PROVE WaitOf(a)
      BY DEF WaitInv
    <2>1. /\ status[a] = "unborn" /\ stage = "after" /\ list = <<>>
          /\ wait[a] = [kind |-> "redraws", left |-> 1] /\ due[a] = 0
      BY DEF ActionsInit, Wait
    <2>2. Listed = {} /\ Rest = {}
      BY <2>1, EmptySeq DEF Listed, Rest, Range
    <2>. QED
      BY <2>1, <2>2 DEF WaitOf, NeverRan
  <1>2. ActionsInv /\ WaitInv => WaitsExactly
    <2>. SUFFICES ASSUME ActionsInv, WaitInv, NEW a \in Action
                  PROVE  /\ status[a] = "running" => Clock(a) >= due[a]
                         /\ stage = "after" /\ a \in Listed /\ a \in Range(thisTime)
                                => Clock(a) < due[a]
      BY DEF WaitsExactly, Clock, Listed
    <2>1. WaitOf(a)
      BY DEF WaitInv
    <2>2. Clock(a) \in Nat /\ wait[a].left >= 1 /\ wait[a].left \in Nat
      <3>1. wait[a] \in [kind : {"redraws", "seconds"}, left : 1..MaxWait]
        BY DEF ActionsInv, ActionTypes
      <3>2. frame \in Nat /\ now \in Nat
        BY DEF ActionsInv, ActionTypes
      <3>. QED
        BY <3>1, <3>2, FrameActionsAssumption DEF Clock
    <2>3. status[a] = "running" => Clock(a) >= due[a]
      BY <2>1 DEF WaitOf
    <2>4. ASSUME stage = "after", a \in Listed, a \in Range(thisTime) PROVE Clock(a) < due[a]
      <3>1. due[a] = Clock(a) + wait[a].left
        BY <2>1, <2>4 DEF WaitOf
      <3>. QED
        BY <2>2, <3>1
    <2>. QED
      BY <2>3, <2>4
  <1>. QED
    BY <1>1, <1>2, WaitStep, ActionsInvHolds, PTL DEF ActionsSpec
=============================================================================
