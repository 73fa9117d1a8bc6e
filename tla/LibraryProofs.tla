---------------------------- MODULE LibraryProofs ----------------------------
(***************************************************************************)
(* Theorems about two parts of the library that scripts use: the easing of *)
(* the navigator's velocity (Navigator) and the choice of an overload when *)
(* a script calls a bound function (OsgBinding).  No step is of both: the  *)
(* two components share this module and nothing else.                      *)
(*                                                                         *)
(* Navigator: for every maximal velocity, every acceleration and           *)
(* deceleration that divide it, and every length of a frame.               *)
(*                                                                         *)
(* OsgBinding: for all classes, conversions, signatures and arguments.     *)
(* What luabind has found of the overloads looked at is exact (Ranking),   *)
(* so the outcome is a function of the set of overloads; what a candidate  *)
(* receives and returns follows from its scores (Converted); and an error  *)
(* is about overloads that are registered (Names).                         *)
(***************************************************************************)
EXTENDS Navigator, OsgBinding, SequenceTheorems, FiniteSetTheorems, WellFoundedInduction, TLAPS

-----------------------------------------------------------------------------
(* The navigator.                                                           *)


A == Acceleration
D == Deceleration
Velocity == -MaxVel..MaxVel

LEMMA Rates ==
    /\ A \in Nat /\ A * TicksToMax = MaxVel
    /\ D \in Nat /\ D * TicksToStop = MaxVel
    /\ MaxVel \in Nat \ {0} /\ TicksToMax \in Nat \ {0} /\ TicksToStop \in Nat \ {0}
    /\ OneSecond \in Nat \ {0} /\ MaxFrameTicks \in Nat
<1>1. /\ MaxVel \in Nat \ {0} /\ TicksToMax \in Nat \ {0} /\ TicksToStop \in Nat \ {0}
      /\ OneSecond \in Nat \ {0} /\ MaxFrameTicks \in Nat
      /\ MaxVel % TicksToMax = 0 /\ MaxVel % TicksToStop = 0
    BY NavigatorAssumption
<1>2. ASSUME NEW m \in Nat, NEW t \in Nat \ {0}, m % t = 0
      PROVE  m \div t \in Nat /\ (m \div t) * t = m
    BY <1>2
<1> QED
    BY <1>1, <1>2 DEF A, D, Acceleration, Deceleration

LEMMA MinOfTwo ==
    ASSUME NEW a \in Int, NEW b \in Int
    PROVE  Min({a, b}) = IF a <= b THEN a ELSE b
BY DEF Min

LEMMA MaxOfTwo ==
    ASSUME NEW a \in Int, NEW b \in Int
    PROVE  Max({a, b}) = IF a >= b THEN a ELSE b
BY DEF Max

\* Toward(f, g, x, y): from f towards g, by x upwards or by y downwards.
Toward(f, g, x, y) ==
    IF f < g THEN (IF g <= f + x THEN g ELSE f + x)
             ELSE (IF g >= f - y THEN g ELSE f - y)

Mirror(g) == IF g < 0 THEN -1 ELSE 1

LEMMA ProductsAreNat == ASSUME NEW t \in Nat PROVE A * t \in Nat /\ D * t \in Nat
BY Rates

LEMMA ClampedIsNat == ASSUME NEW dt \in 0..MaxFrameTicks PROVE Clamped(dt) \in Nat
BY Rates DEF Clamped

\* The ramp of the code, and of the property, in these terms.
LEMMA EasedIsToward ==
    ASSUME NEW v \in Int, NEW g \in Int, NEW dt \in 0..MaxFrameTicks
    PROVE  Eased(v, g, dt) = Toward(v, g, A * Clamped(dt), D * Clamped(dt))
<1>1. /\ A * Clamped(dt) \in Nat /\ D * Clamped(dt) \in Nat
    BY ClampedIsNat, ProductsAreNat
<1> DEFINE x == A * Clamped(dt)
           y == D * Clamped(dt)
<1>2. Eased(v, g, dt) = IF v < g THEN Min({g, v + x}) ELSE IF v > g THEN Max({g, v - y}) ELSE v
    BY DEF Eased, A, D
<1> HIDE DEF x, y
<1>3. x \in Nat /\ y \in Nat
    BY <1>1 DEF x, y
<1>4. /\ Min({g, v + x}) = IF g <= v + x THEN g ELSE v + x
      /\ Max({g, v - y}) = IF g >= v - y THEN g ELSE v - y
    BY <1>3, MinOfTwo, MaxOfTwo
<1>5. Eased(v, g, dt) = Toward(v, g, x, y)
    BY <1>2, <1>3, <1>4 DEF Toward
<1> QED
    BY <1>5 DEF x, y

LEMMA RampIsToward ==
    ASSUME NEW r, r.goal \in Int, r.from \in Int, r.ticks \in Nat
    PROVE  RampAfter(r) = Mirror(r.goal) * Toward(Mirror(r.goal) * r.from, Mirror(r.goal) * r.goal,
                                                  A * r.ticks, D * r.ticks)
<1>1. A * r.ticks \in Nat /\ D * r.ticks \in Nat
    BY ProductsAreNat
<1> DEFINE x == A * r.ticks
           y == D * r.ticks
           s == Mirror(r.goal)
           f == s * r.from
           g == s * r.goal
<1>2. RampAfter(r) = s * (IF f < g THEN Min({g, f + x}) ELSE Max({g, f - y}))
    BY DEF RampAfter, A, D, Mirror
<1>3. x \in Nat /\ y \in Nat /\ f \in Int /\ g \in Int /\ s \in {-1, 1}
    BY <1>1 DEF Mirror
<1> HIDE DEF x, y, s, f, g
<1>4. /\ Min({g, f + x}) = IF g <= f + x THEN g ELSE f + x
      /\ Max({g, f - y}) = IF g >= f - y THEN g ELSE f - y
    BY <1>3, MinOfTwo, MaxOfTwo
<1>5. RampAfter(r) = s * Toward(f, g, x, y)
    BY <1>2, <1>4 DEF Toward
<1> QED
    BY <1>5 DEF x, y, s, f, g

LEMMA TowardIsInt ==
    ASSUME NEW f \in Int, NEW g \in Int, NEW x \in Nat, NEW y \in Nat
    PROVE  /\ Toward(f, g, x, y) \in Int
           /\ \A m \in Nat : f \in -m..m /\ g \in -m..m => Toward(f, g, x, y) \in -m..m
BY DEF Toward

\* Easing for a while and then for another is easing for both.
LEMMA TowardAdds ==
    ASSUME NEW f \in Int, NEW g \in Int, NEW x \in Nat, NEW y \in Nat, NEW u \in Nat, NEW w \in Nat
    PROVE  Toward(Toward(f, g, x, y), g, u, w) = Toward(f, g, x + u, y + w)
BY DEF Toward

-----------------------------------------------------------------------------
\* The ticks of a ramp are counted to this bound, when every goal is reached.
Enough == 2 * TicksToMax + TicksToStop

LEMMA EnoughReaches ==
    ASSUME NEW f \in Velocity, NEW g \in Velocity, g >= 0, NEW t \in Nat, t >= Enough
    PROVE  Toward(f, g, A * t, D * t) = g
<1>1. /\ A * TicksToMax = MaxVel /\ D * TicksToStop = MaxVel /\ A \in Nat /\ D \in Nat
      /\ TicksToMax \in Nat /\ TicksToStop \in Nat /\ MaxVel \in Nat
    BY Rates
<1>2. PICK k \in Nat : t = (2 * TicksToMax) + (TicksToStop + k)
    <2>1. t - Enough \in Nat /\ t = (2 * TicksToMax) + (TicksToStop + (t - Enough))
        BY <1>1 DEF Enough
    <2> QED
        BY <2>1
<1>3. A * t = A * (2 * TicksToMax) + A * (TicksToStop + k)
    BY <1>1, <1>2
<1>4. A * (2 * TicksToMax) = 2 * (A * TicksToMax)
    BY <1>1
<1>5. A * (TicksToStop + k) \in Nat /\ A * t \in Nat
    BY <1>1, <1>2
<1>6. A * t >= 2 * MaxVel
    BY <1>1, <1>3, <1>4, <1>5
<1>7. t = TicksToStop + (2 * TicksToMax + k)
    BY <1>1, <1>2
<1>8. D * t = D * TicksToStop + D * (2 * TicksToMax + k)
    BY <1>1, <1>7
<1>9. D * (2 * TicksToMax + k) \in Nat /\ D * t \in Nat
    BY <1>1, <1>2
<1>10. D * t >= MaxVel
    BY <1>1, <1>8, <1>9
<1> DEFINE x == A * t
           y == D * t
<1> HIDE DEF x, y
<1>11. x \in Nat /\ y \in Nat /\ x >= 2 * MaxVel /\ y >= MaxVel
    BY <1>5, <1>6, <1>9, <1>10 DEF x, y
<1>12. Toward(f, g, x, y) = g
    BY <1>1, <1>11 DEF Toward, Velocity
<1> QED
    BY <1>12 DEF x, y

-----------------------------------------------------------------------------
(* The frame rate does not matter.                                          *)

RampInv ==
    /\ scriptGoal \in ScriptGoals
    /\ vel \in Velocity
    /\ ramp \in [goal : Velocity, from : Velocity, ticks : Nat]
    /\ FrameRateIndependent

LEMMA GoalIsVelocity == ASSUME RampInv PROVE GoalVel \in Velocity
<1>1. MaxVel \in Nat
    BY Rates
<1>2. scriptGoal \in Velocity
    BY NavigatorAssumption DEF RampInv, Velocity
<1> QED
    BY <1>1, <1>2 DEF GoalVel, Velocity

\* The new velocity is the one that a ramp from the old one gives.
LEMMA UpdatedIsToward ==
    ASSUME NEW v \in Velocity, NEW g \in Velocity, NEW dt \in 0..MaxFrameTicks
    PROVE  /\ UpdatedVelocity(v, g, dt) \in Velocity
           /\ UpdatedVelocity(v, g, dt) =
                  Mirror(g) * Toward(Mirror(g) * v, Mirror(g) * g, A * Clamped(dt), D * Clamped(dt))
<1> DEFINE x == A * Clamped(dt)
           y == D * Clamped(dt)
<1>1. x \in Nat /\ y \in Nat
    BY ClampedIsNat, ProductsAreNat
<1>2. /\ Eased(v, g, dt) = Toward(v, g, x, y)
      /\ Eased(-v, -g, dt) = Toward(-v, -g, x, y)
    <2>1. v \in Int /\ g \in Int /\ -v \in Int /\ -g \in Int
        BY Rates DEF Velocity
    <2>2. Eased(v, g, dt) = Toward(v, g, x, y)
        BY <2>1, EasedIsToward
    <2>3. \A i, j \in Int : Eased(i, j, dt) = Toward(i, j, x, y)
        BY EasedIsToward
    <2> QED
        BY <2>1, <2>2, <2>3
<1> HIDE DEF x, y
<1>3. MaxVel \in Nat
    BY Rates
<1>4. Toward(v, g, x, y) \in Velocity /\ Toward(-v, -g, x, y) \in Velocity
    <2>1. v \in -MaxVel..MaxVel /\ g \in -MaxVel..MaxVel /\ -v \in -MaxVel..MaxVel /\ -g \in -MaxVel..MaxVel
          /\ v \in Int /\ g \in Int /\ -v \in Int /\ -g \in Int
        BY <1>3 DEF Velocity
    <2>2. \A i, j \in Int : i \in -MaxVel..MaxVel /\ j \in -MaxVel..MaxVel
                             => Toward(i, j, x, y) \in -MaxVel..MaxVel
        BY <1>1, <1>3, TowardIsInt
    <2> QED
        BY <2>1, <2>2 DEF Velocity
<1>5. UpdatedVelocity(v, g, dt) = IF g < 0 THEN -Toward(-v, -g, x, y) ELSE Toward(v, g, x, y)
    BY <1>2 DEF UpdatedVelocity
<1>6. /\ UpdatedVelocity(v, g, dt) \in Velocity
      /\ UpdatedVelocity(v, g, dt) = Mirror(g) * Toward(Mirror(g) * v, Mirror(g) * g, x, y)
    <2>1. CASE g < 0
        <3>1. Mirror(g) = -1 /\ Mirror(g) * v = -v /\ Mirror(g) * g = -g
            BY <2>1 DEF Mirror, Velocity
        <3> DEFINE w == Toward(-v, -g, x, y)
        <3>2. w \in Velocity /\ UpdatedVelocity(v, g, dt) = -w
            BY <1>4, <1>5, <2>1
        <3> HIDE DEF w
        <3>3. -w \in Velocity /\ -w = (-1) * w
            BY <1>3, <3>2 DEF Velocity
        <3> QED
            BY <3>1, <3>2, <3>3 DEF w
    <2>2. CASE ~(g < 0)
        <3>1. Mirror(g) = 1 /\ Mirror(g) * v = v /\ Mirror(g) * g = g
            BY <2>2 DEF Mirror, Velocity
        <3> DEFINE w == Toward(v, g, x, y)
        <3>2. w \in Velocity /\ UpdatedVelocity(v, g, dt) = w
            BY <1>4, <1>5, <2>2
        <3> HIDE DEF w
        <3>3. w = 1 * w
            BY <3>2 DEF Velocity
        <3> QED
            BY <3>1, <3>2, <3>3 DEF w
    <2> QED
        BY <2>1, <2>2
<1> QED
    BY <1>6 DEF x, y

LEMMA RampStep == RampInv /\ [NavNext]_navigatorVars => RampInv'
<1> SUFFICES ASSUME RampInv, [NavNext]_navigatorVars PROVE RampInv'
    OBVIOUS
<1>1. CASE NewFrame \/ UseOther \/ UNCHANGED navigatorVars
    BY <1>1 DEF NewFrame, UseOther, navigatorVars, navVars, RampInv, FrameRateIndependent, RampAfter
<1>2. CASE SetScriptGoal
    BY <1>2 DEF SetScriptGoal, RampInv, FrameRateIndependent, RampAfter
<1>3. CASE Navigate
    <2> DEFINE g == GoalVel
    <2>1. PICK dt \in 0..MaxFrameTicks :
              vel' = UpdatedVelocity(vel, g, dt) /\ ramp' = Ramp(g, dt) /\ scriptGoal' = scriptGoal
        BY <1>3 DEF Navigate
    <2>2. g \in Velocity /\ vel \in Velocity /\ ramp \in [goal : Velocity, from : Velocity, ticks : Nat]
        BY GoalIsVelocity DEF RampInv
    <2> HIDE DEF g
    <2> DEFINE c == Clamped(dt)
               s == Mirror(g)
    <2>3. /\ vel' \in Velocity
          /\ vel' = s * Toward(s * vel, s * g, A * c, D * c)
        BY <2>1, <2>2, UpdatedIsToward
    <2>4. c \in Nat /\ s \in {-1, 1}
        BY ClampedIsNat DEF Mirror
    <2>a. \A v \in Velocity : v \in Int /\ s * v \in Velocity /\ s * v \in Int /\ s * (s * v) = v
        BY <2>4, Rates DEF Velocity
    <2>b. s * g >= 0
        BY <2>2 DEF Mirror, Velocity
    <2> HIDE DEF c, s
    <2>5. CASE g # ramp.goal
        <3>1. ramp' = [goal |-> g, from |-> vel, ticks |-> c]
            BY <2>1, <2>5 DEF Ramp, c
        <3> DEFINE r == [goal |-> g, from |-> vel, ticks |-> c]
        <3>2. r.goal = g /\ r.from = vel /\ r.ticks = c
            OBVIOUS
        <3> HIDE DEF r
        <3>3. RampAfter(r) = s * Toward(s * vel, s * g, A * c, D * c)
            BY <2>2, <2>4, <2>a, <3>2, RampIsToward DEF s
        <3>4. vel' = RampAfter(ramp')
            BY <2>3, <3>1, <3>3 DEF r
        <3>5. ramp' \in [goal : Velocity, from : Velocity, ticks : Nat]
            BY <2>2, <2>4, <3>1
        <3> QED
            BY <2>1, <2>3, <3>4, <3>5 DEF RampInv, FrameRateIndependent
    <2>6. CASE g = ramp.goal
        <3> DEFINE f == s * ramp.from
                   h == s * g
                   t == ramp.ticks
                   n == Min({t + c, Enough})
        <3>1. f \in Velocity /\ h \in Velocity /\ f \in Int /\ h \in Int /\ t \in Nat /\ h >= 0
            BY <2>2, <2>a, <2>b
        <3>2. n = IF t + c <= Enough THEN t + c ELSE Enough
            BY <2>4, <3>1, Rates, MinOfTwo DEF Enough
        <3>3. n \in Nat /\ (n = t + c \/ (t + c >= Enough /\ n >= Enough))
            BY <2>4, <3>1, <3>2, Rates DEF Enough
        <3>4. ramp' = [goal |-> g, from |-> ramp.from, ticks |-> n]
            BY <2>1, <2>2, <2>6 DEF Ramp, c, Enough
        <3>5. vel = s * Toward(f, h, A * t, D * t)
            BY <2>2, <2>6, <2>a, RampIsToward DEF RampInv, FrameRateIndependent, s
        <3> HIDE DEF f, h, t, n
        <3>6. /\ A * t \in Nat /\ D * t \in Nat /\ A * c \in Nat /\ D * c \in Nat
              /\ A * (t + c) = A * t + A * c /\ D * (t + c) = D * t + D * c
            BY <2>4, <3>1, Rates
        <3>7. Toward(f, h, A * t, D * t) \in Int
            BY <3>1, <3>6, TowardIsInt
        <3>8. s * vel = Toward(f, h, A * t, D * t)
            BY <2>4, <3>5, <3>7
        <3>9. vel' = s * Toward(Toward(f, h, A * t, D * t), h, A * c, D * c)
            BY <2>3, <3>8 DEF h
        <3>10. vel' = s * Toward(f, h, A * (t + c), D * (t + c))
            <4>1. Toward(Toward(f, h, A * t, D * t), h, A * c, D * c)
                      = Toward(f, h, A * t + A * c, D * t + D * c)
                <5> DEFINE x == A * t
                           y == D * t
                           u == A * c
                           w == D * c
                <5>1. x \in Nat /\ y \in Nat /\ u \in Nat /\ w \in Nat
                    BY <3>6
                <5> HIDE DEF x, y, u, w
                <5>2. Toward(Toward(f, h, x, y), h, u, w) = Toward(f, h, x + u, y + w)
                    BY <3>1, <5>1, TowardAdds
                <5> QED
                    BY <5>2 DEF x, y, u, w
            <4> QED
                BY <3>6, <3>9, <4>1
        <3>11. vel' = s * Toward(f, h, A * n, D * n)
            BY <2>4, <3>1, <3>3, <3>10, EnoughReaches
        <3> DEFINE r == [goal |-> g, from |-> ramp.from, ticks |-> n]
        <3>12. r.goal = g /\ r.from = ramp.from /\ r.ticks = n
            OBVIOUS
        <3> HIDE DEF r
        <3>13. RampAfter(r) = s * Toward(f, h, A * n, D * n)
            BY <2>2, <2>a, <3>3, <3>12, RampIsToward DEF s, f, h
        <3>14. vel' = RampAfter(ramp')
            BY <3>4, <3>11, <3>13 DEF r
        <3>15. ramp' \in [goal : Velocity, from : Velocity, ticks : Nat]
            BY <2>2, <3>3, <3>4
        <3> QED
            BY <2>1, <2>3, <3>14, <3>15 DEF RampInv, FrameRateIndependent
    <2> QED
        BY <2>5, <2>6
<1> QED
    BY <1>1, <1>2, <1>3 DEF NavNext

LEMMA RampInit == NavInit => RampInv
<1> SUFFICES ASSUME NavInit PROVE RampInv
    OBVIOUS
<1>1. /\ vel = 0 /\ ramp = [goal |-> 0, from |-> 0, ticks |-> 0] /\ scriptGoal \in ScriptGoals
      /\ 0 \in Velocity
    BY Rates DEF NavInit, Velocity
<1> DEFINE r == [goal |-> 0, from |-> 0, ticks |-> 0]
<1>2. r.goal = 0 /\ r.from = 0 /\ r.ticks = 0
    OBVIOUS
<1> HIDE DEF r
<1>3. /\ RampAfter(r) = Mirror(0) * Toward(Mirror(0) * 0, Mirror(0) * 0, A * 0, D * 0)
    BY <1>2, RampIsToward
<1>4. A * 0 = 0 /\ D * 0 = 0 /\ Mirror(0) = 1 /\ Mirror(0) * 0 = 0
    BY Rates DEF Mirror
<1>5. Toward(0, 0, 0, 0) = 0
    BY DEF Toward
<1>6. RampAfter(r) = 0
    BY <1>3, <1>4, <1>5
<1> QED
    BY <1>1, <1>6 DEF RampInv, FrameRateIndependent, r

\* Easing does not depend on the frame rate: however the time since the goal last
\* changed is divided into frames, the velocity is what one ramp gives for it all.
THEOREM EasingCorrect == NavSpec => []FrameRateIndependent
<1>1. RampInv => FrameRateIndependent
    BY DEF RampInv
<1> QED
    BY <1>1, RampInit, RampStep, PTL DEF NavSpec

-----------------------------------------------------------------------------
(* The way to a stop.                                                       *)

\* What remains of the way bound is the way of the velocity that remains.
Slides(rate, from, v, way) ==
    v \in 0..from /\ way \in Nat /\ 2 * (rate * way) + v * v <= from * from

GlideInv ==
    /\ RampInv
    /\ stalled \in BOOLEAN
    /\ ramp.goal = 0 /\ ~stalled =>
           IF ramp.from < 0 THEN glided \in Int /\ Slides(A, -ramp.from, -vel, -glided)
                            ELSE Slides(D, ramp.from, vel, glided)

\* One frame of a slowing down by rate for c ticks, in which one moves c * w, or,
\* without a direction, not at all.
LEMMA SlideStep ==
    ASSUME NEW rate \in Nat, NEW v \in Nat, NEW c \in Nat, NEW w \in Nat,
           w = IF rate * c >= v THEN 0 ELSE v - rate * c
    PROVE  w <= v /\ 2 * (rate * (c * w)) + w * w <= v * v
<1> DEFINE x == rate * c
<1>1. x \in Nat /\ rate * (c * w) = x * w
    OBVIOUS
<1> HIDE DEF x
<1>2. w = IF x >= v THEN 0 ELSE v - x
    BY DEF x
<1>3. CASE x >= v
    <2>1. w = 0 /\ x * w = 0 /\ w * w = 0
        BY <1>1, <1>2, <1>3
    <2>2. v * v >= 0
        OBVIOUS
    <2> QED
        BY <1>1, <2>1, <2>2
<1>4. CASE ~(x >= v)
    <2>1. v = w + x
        BY <1>1, <1>2, <1>4
    <2>2. v * v = w * w + (2 * (x * w) + x * x)
        BY <1>1, <2>1
    <2>3. x * x >= 0 /\ x * x \in Int /\ w * w \in Int /\ x * w \in Int
        BY <1>1
    <2>4. w <= v
        BY <1>1, <2>1
    <2> QED
        BY <1>1, <2>2, <2>3, <2>4
<1> QED
    BY <1>3, <1>4

LEMMA SlideAdds ==
    ASSUME NEW rate \in Nat, NEW from \in Nat, NEW v, NEW way, Slides(rate, from, v, way),
           NEW c \in Nat, NEW w \in Nat, w = IF rate * c >= v THEN 0 ELSE v - rate * c,
           NEW m, m = c * w \/ m = 0
    PROVE  Slides(rate, from, w, way + m)
<1>1. v \in Nat /\ way \in Nat /\ v <= from /\ 2 * (rate * way) + v * v <= from * from
    BY DEF Slides
<1>2. w <= v /\ 2 * (rate * (c * w)) + w * w <= v * v
    BY <1>1, SlideStep
<1>3. m \in Nat /\ m <= c * w /\ c * w \in Nat
    OBVIOUS
<1>4. rate * m <= rate * (c * w) /\ rate * m \in Nat /\ rate * (c * w) \in Nat
    <2>1. rate * 0 = 0 /\ rate * (c * w) \in Nat
        BY <1>3
    <2> QED
        BY <2>1
<1>5. rate * (way + m) = rate * way + rate * m /\ rate * way \in Nat
    BY <1>1, <1>3
<1>6. w * w \in Nat /\ v * v \in Nat /\ from * from \in Nat
    BY <1>1
<1>7. 2 * (rate * (way + m)) + w * w <= from * from
    BY <1>1, <1>2, <1>4, <1>5, <1>6
<1> QED
    BY <1>1, <1>2, <1>3, <1>7 DEF Slides

LEMMA SlideBegins ==
    ASSUME NEW rate \in Nat, NEW v \in Nat
    PROVE  Slides(rate, v, v, 0)
BY DEF Slides

LEMMA GlideStep == GlideInv /\ [NavNext]_navigatorVars => GlideInv'
<1> SUFFICES ASSUME GlideInv, [NavNext]_navigatorVars PROVE GlideInv'
    OBVIOUS
<1>a. RampInv /\ RampInv'
    BY RampStep DEF GlideInv
<1>1. CASE NewFrame \/ UseOther \/ SetScriptGoal \/ UNCHANGED navigatorVars
    BY <1>1, <1>a DEF NewFrame, UseOther, SetScriptGoal, navigatorVars, navVars, GlideInv
<1>2. CASE Navigate
    <2> DEFINE g == GoalVel
    <2>1. PICK dt \in 0..MaxFrameTicks :
              /\ vel' = UpdatedVelocity(vel, g, dt) /\ ramp' = Ramp(g, dt)
              /\ moved' = IF HasDirection THEN dt * vel' ELSE 0
              /\ glided' = CASE g # 0 -> 0
                             [] g = 0 /\ ramp.goal # 0 -> moved'
                             [] OTHER -> glided + moved'
              /\ stalled' = (g = 0 /\ ((stalled /\ ramp.goal = 0) \/ dt > OneSecond))
        BY <1>2 DEF Navigate, Way
    <2>2. /\ vel \in Velocity /\ vel' \in Velocity /\ ramp \in [goal : Velocity, from : Velocity, ticks : Nat]
          /\ g \in Velocity
        BY <1>a, GoalIsVelocity DEF RampInv
    <2>3. /\ ramp'.goal = g
          /\ ramp'.from = IF g = ramp.goal THEN ramp.from ELSE vel
        BY <2>1, <2>2 DEF Ramp
    <2> HIDE DEF g
    <2>4. stalled' \in BOOLEAN
        BY <2>1
    <2>5. ASSUME g = 0, ~stalled'
          PROVE  IF ramp'.from < 0 THEN glided' \in Int /\ Slides(A, -(ramp'.from), -vel', -glided')
                                   ELSE Slides(D, ramp'.from, vel', glided')
        <3>1. dt <= OneSecond /\ (ramp.goal = 0 => ~stalled)
            <4>1. ~(dt > OneSecond) /\ ~(stalled /\ ramp.goal = 0)
                BY <2>1, <2>5
            <4> QED
                BY <4>1, Rates
        <3>2. Clamped(dt) = dt /\ dt \in Nat
            BY <3>1, Rates DEF Clamped
        <3>3. A * dt \in Nat /\ D * dt \in Nat
            BY <3>2, ProductsAreNat
        <3>4. vel' = Toward(vel, 0, A * dt, D * dt)
            <4>1. vel' = Eased(vel, 0, dt)
                BY <2>1, <2>5 DEF UpdatedVelocity
            <4> QED
                BY <2>2, <3>2, <4>1, EasedIsToward, Rates DEF Velocity
        <3>5. moved' = dt * vel' \/ moved' = 0
            BY <2>1
        <3>6. vel \in Int /\ vel' \in Int /\ ramp.from \in Int
            BY <2>2, Rates DEF Velocity
        <3>7. PICK way \in Int :
                  /\ glided' = way + moved'
                  /\ IF ramp'.from < 0 THEN Slides(A, -(ramp'.from), -vel, -way)
                                       ELSE Slides(D, ramp'.from, vel, way)
            <4>1. CASE ramp.goal # 0
                <5>1. glided' = 0 + moved' /\ ramp'.from = vel
                    BY <2>1, <2>3, <2>5, <3>5, <3>6, <4>1
                <5>2. vel < 0 => Slides(A, -vel, -vel, -0)
                    BY <3>6, Rates, SlideBegins
                <5>3. vel >= 0 => Slides(D, vel, vel, 0)
                    BY <3>6, Rates, SlideBegins
                <5> QED
                    BY <3>6, <5>1, <5>2, <5>3
            <4>2. CASE ramp.goal = 0
                <5>1. glided' = glided + moved' /\ ramp'.from = ramp.from
                    BY <2>1, <2>3, <2>5, <4>2
                <5>2. IF ramp.from < 0 THEN glided \in Int /\ Slides(A, -ramp.from, -vel, -glided)
                                       ELSE Slides(D, ramp.from, vel, glided)
                    BY <3>1, <4>2 DEF GlideInv
                <5>3. glided \in Int
                    BY <5>2 DEF Slides
                <5> QED
                    BY <5>1, <5>2, <5>3
            <4> QED
                BY <4>1, <4>2
        <3>b. ramp'.from \in Int
            BY <2>3, <3>6
        <3>8. CASE ramp'.from < 0
            <4>1. Slides(A, -(ramp'.from), -vel, -way)
                BY <3>7, <3>8
            <4>2. -vel \in Nat
                BY <3>b, <3>8, <4>1 DEF Slides
            <4>3. /\ -vel' = IF A * dt >= -vel THEN 0 ELSE -vel - A * dt
                  /\ -vel' \in Nat
                BY <3>3, <3>4, <3>6, <4>2 DEF Toward
            <4>4. -moved' = dt * (-vel') \/ -moved' = 0
                BY <3>2, <3>5, <3>6
            <4>5. Slides(A, -(ramp'.from), -vel', -way + -moved')
                <5> DEFINE from == -(ramp'.from)
                           w == -vel'
                           m == -moved'
                <5>1. from \in Nat /\ w \in Nat /\ dt \in Nat /\ A \in Nat
                    BY <3>2, <3>8, <3>b, <4>3, Rates
                <5>2. Slides(A, from, -vel, -way) /\ w = (IF A * dt >= -vel THEN 0 ELSE -vel - A * dt)
                    BY <4>1, <4>3
                <5>3. m = dt * w \/ m = 0
                    BY <4>4
                <5> HIDE DEF from, w, m
                <5>4. Slides(A, from, w, -way + m)
                    BY <5>1, <5>2, <5>3, SlideAdds
                <5> QED
                    BY <5>4 DEF from, w, m
            <4>6. moved' \in Int /\ -way + -moved' = -(way + moved')
                BY <3>2, <3>5, <3>6
            <4> QED
                BY <3>7, <3>8, <4>5, <4>6
        <3>9. CASE ~(ramp'.from < 0)
            <4>1. Slides(D, ramp'.from, vel, way)
                BY <3>7, <3>9
            <4>2. vel \in Nat
                BY <3>b, <3>9, <4>1 DEF Slides
            <4>3. /\ vel' = IF D * dt >= vel THEN 0 ELSE vel - D * dt
                  /\ vel' \in Nat
                BY <3>3, <3>4, <3>6, <4>2 DEF Toward
            <4>4. Slides(D, ramp'.from, vel', way + moved')
                <5> DEFINE from == ramp'.from
                           w == vel'
                           m == moved'
                <5>1. from \in Nat /\ w \in Nat /\ dt \in Nat /\ D \in Nat
                    BY <3>2, <3>9, <3>b, <4>3, Rates
                <5>2. Slides(D, from, vel, way) /\ w = (IF D * dt >= vel THEN 0 ELSE vel - D * dt)
                    BY <4>1, <4>3
                <5>3. m = dt * w \/ m = 0
                    BY <3>5
                <5> HIDE DEF from, w, m
                <5>4. Slides(D, from, w, way + m)
                    BY <5>1, <5>2, <5>3, SlideAdds
                <5> QED
                    BY <5>4 DEF from, w, m
            <4> QED
                BY <3>7, <3>9, <4>4
        <3> QED
            BY <3>8, <3>9
    <2> QED
        BY <1>a, <2>3, <2>4, <2>5 DEF GlideInv
<1> QED
    BY <1>1, <1>2 DEF NavNext

\* The way to a stop is no longer than that of a uniform deceleration, unless a
\* frame takes longer than a second.
THEOREM GlideCorrect == NavSpec => []GlideBounded
<1>1. NavInit => GlideInv
    <2> SUFFICES ASSUME NavInit PROVE GlideInv
        OBVIOUS
    <2>1. /\ ramp.goal = 0 /\ ramp.from = 0 /\ vel = 0 /\ glided = 0 /\ stalled = FALSE
        BY DEF NavInit
    <2>2. Slides(D, 0, 0, 0)
        BY SlideBegins, Rates
    <2>3. Slides(D, ramp.from, vel, glided) /\ ~(ramp.from < 0)
        BY <2>1, <2>2
    <2>4. RampInv /\ stalled \in BOOLEAN
        BY <2>1, RampInit
    <2> QED
        BY <2>3, <2>4 DEF GlideInv
<1>2. GlideInv => GlideBounded
    <2> SUFFICES ASSUME GlideInv, ramp.goal = 0, ~stalled
                 PROVE  2 * (IF ramp.from < 0 THEN A ELSE D) * Abs(glided) <= ramp.from * ramp.from
        BY DEF GlideBounded, A, D
    <2>1. ramp.from \in Int /\ vel \in Int
        BY Rates DEF GlideInv, RampInv, Velocity
    <2>2. CASE ramp.from < 0
        <3>1. glided \in Int /\ Slides(A, -ramp.from, -vel, -glided)
            BY <2>2 DEF GlideInv
        <3>2. /\ Abs(glided) = -glided /\ -glided \in Nat
              /\ 2 * (A * (-glided)) + (-vel) * (-vel) <= (-ramp.from) * (-ramp.from)
            BY <3>1 DEF Slides, Abs
        <3>3. (-vel) * (-vel) >= 0 /\ (-ramp.from) * (-ramp.from) = ramp.from * ramp.from
              /\ (-vel) * (-vel) \in Int /\ ramp.from * ramp.from \in Int
            BY <2>1
        <3>4. 2 * (A * (-glided)) = 2 * A * (-glided) /\ 2 * (A * (-glided)) \in Int
            BY <3>2, Rates
        <3> QED
            BY <2>2, <3>2, <3>3, <3>4
    <2>3. CASE ~(ramp.from < 0)
        <3>1. Slides(D, ramp.from, vel, glided)
            BY <2>3 DEF GlideInv
        <3>2. /\ Abs(glided) = glided /\ glided \in Nat
              /\ 2 * (D * glided) + vel * vel <= ramp.from * ramp.from
            BY <3>1 DEF Slides, Abs
        <3>3. vel * vel >= 0 /\ vel * vel \in Int /\ ramp.from * ramp.from \in Int
            BY <2>1
        <3>4. 2 * (D * glided) = 2 * D * glided /\ 2 * (D * glided) \in Int
            BY <3>2, Rates
        <3> QED
            BY <2>3, <3>2, <3>3, <3>4
    <2> QED
        BY <2>2, <2>3
<1> QED
    BY <1>1, <1>2, GlideStep, PTL DEF NavSpec
-----------------------------------------------------------------------------
(* Velocities within their limits, and edges with their levels.             *)

\* A frame goes no further than the longest frame at the highest speed.
LEMMA WayBounded ==
    ASSUME NEW dt \in 0..MaxFrameTicks, NEW v \in Velocity
    PROVE  dt * v \in Int /\ Abs(dt * v) <= MaxFrameTicks * MaxVel
<1>1. MaxFrameTicks \in Nat /\ MaxVel \in Nat /\ dt \in Nat /\ v \in Int
    BY Rates DEF Velocity
<1>2. ASSUME NEW w \in 0..MaxVel
      PROVE  dt * w \in Nat /\ dt * w <= MaxFrameTicks * MaxVel
    <2>1. PICK d \in Nat : MaxFrameTicks = dt + d
        <3>1. MaxFrameTicks - dt \in Nat /\ MaxFrameTicks = dt + (MaxFrameTicks - dt)
            BY <1>1
        <3> QED
            BY <3>1
    <2>2. PICK u \in Nat : MaxVel = w + u
        <3>1. MaxVel - w \in Nat /\ MaxVel = w + (MaxVel - w)
            BY <1>1
        <3> QED
            BY <3>1
    <2>3. w \in Nat /\ MaxFrameTicks * MaxVel = dt * w + dt * u + d * MaxVel
        BY <1>1, <2>1, <2>2
    <2>4. dt * u \in Nat /\ d * MaxVel \in Nat /\ dt * w \in Nat
        BY <1>1, <2>3
    <2> QED
        BY <2>3, <2>4
<1>3. CASE v >= 0
    <2>1. v \in 0..MaxVel
        BY <1>1, <1>3 DEF Velocity
    <2>2. dt * v \in Nat /\ dt * v <= MaxFrameTicks * MaxVel
        BY <1>2, <2>1
    <2> DEFINE p == dt * v
               q == MaxFrameTicks * MaxVel
    <2> HIDE DEF p, q
    <2>3. p \in Nat /\ p <= q
        BY <2>2 DEF p, q
    <2>4. p \in Int /\ Abs(p) <= q
        BY <2>3 DEF Abs
    <2> QED
        BY <2>4 DEF p, q
<1>4. CASE v < 0
    <2>1. -v \in 0..MaxVel
        BY <1>1, <1>4 DEF Velocity
    <2>2. dt * (-v) \in Nat /\ dt * (-v) <= MaxFrameTicks * MaxVel
        BY <1>2, <2>1
    <2>3. dt * v = -(dt * (-v))
        BY <1>1
    <2> DEFINE p == dt * (-v)
               q == MaxFrameTicks * MaxVel
    <2> HIDE DEF p, q
    <2>4. p \in Nat /\ p <= q /\ dt * v = -p
        BY <2>2, <2>3 DEF p, q
    <2>5. -p \in Int /\ Abs(-p) <= q
        BY <2>4 DEF Abs
    <2> QED
        BY <2>4, <2>5 DEF q
<1> QED
    BY <1>1, <1>3, <1>4

\* The reported state of the button goes with its level at this update and the
\* update before, in every frame.
EdgeInv ==
    /\ axes \in Sticks
    /\ \/ was = TRUE /\ digital \in {"ON", "TOGGLE_OFF"}
       \/ was = FALSE /\ digital \in {"OFF", "TOGGLE_ON"}

StateInv ==
    /\ RampInv
    /\ EdgeInv
    /\ use \in {"wand", "gamepad", "script"} /\ step \in {"devices", "navigate"}
    /\ moved \in Int /\ Abs(moved) <= MaxFrameTicks * MaxVel
    /\ glided \in Int /\ stalled \in BOOLEAN

LEMMA StateInit == NavInit => StateInv
<1> SUFFICES ASSUME NavInit PROVE StateInv
    OBVIOUS
<1>1. RampInv
    BY RampInit
<1>2. EdgeInv
    BY DEF NavInit, GadgetsInit, EdgeInv
<1>3. moved \in Int /\ Abs(moved) <= MaxFrameTicks * MaxVel
    <2>1. 0 \in 0..MaxFrameTicks /\ 0 \in Velocity /\ moved = 0 * 0
        BY Rates DEF NavInit, Velocity
    <2> QED
        BY <2>1, WayBounded
<1> QED
    BY <1>1, <1>2, <1>3 DEF NavInit, StateInv

LEMMA UpdateKeepsEdges == EdgeInv /\ UpdateDevices => EdgeInv'
<1> SUFFICES ASSUME EdgeInv, UpdateDevices PROVE EdgeInv'
    OBVIOUS
<1>1. PICK held \in BOOLEAN :
          digital' = CASE held /\ digital \in {"OFF", "TOGGLE_OFF"} -> "TOGGLE_ON"
                       [] held /\ digital \in {"ON", "TOGGLE_ON"} -> "ON"
                       [] ~held /\ digital \in {"ON", "TOGGLE_ON"} -> "TOGGLE_OFF"
                       [] OTHER -> "OFF"
    BY DEF UpdateDevices
<1>2. axes' \in Sticks /\ was' = (digital \in {"TOGGLE_ON", "ON"})
    BY DEF UpdateDevices
<1>3. axes' \in Sticks /\ digital \in {"OFF", "ON", "TOGGLE_ON", "TOGGLE_OFF"}
    BY <1>2 DEF EdgeInv
<1>4. CASE digital \in {"TOGGLE_ON", "ON"}
    <2>1. was' = TRUE
        BY <1>2, <1>4
    <2>2. digital' \in {"ON", "TOGGLE_OFF"}
        BY <1>1, <1>4
    <2> QED
        BY <1>3, <2>1, <2>2 DEF EdgeInv
<1>5. CASE digital \notin {"TOGGLE_ON", "ON"}
    <2>1. was' = FALSE
        <3>1. (digital \in {"TOGGLE_ON", "ON"}) = FALSE
            BY <1>5
        <3> QED
            BY <1>2, <3>1
    <2>2. digital' \in {"OFF", "TOGGLE_ON"}
        BY <1>1, <1>3, <1>5
    <2> QED
        BY <1>3, <2>1, <2>2 DEF EdgeInv
<1> QED
    BY <1>4, <1>5

LEMMA StateStep == StateInv /\ [NavNext]_navigatorVars => StateInv'
<1> SUFFICES ASSUME StateInv, [NavNext]_navigatorVars PROVE StateInv'
    OBVIOUS
<1>a. RampInv /\ RampInv' /\ EdgeInv
    BY RampStep DEF StateInv
<1>b. UNCHANGED gadgetVars => EdgeInv'
    BY <1>a DEF gadgetVars, EdgeInv
<1>1. CASE NewFrame
    <2>1. EdgeInv'
        BY <1>1, <1>a, UpdateKeepsEdges DEF NewFrame
    <2> QED
        BY <1>1, <1>a, <2>1 DEF NewFrame, StateInv, Abs
<1>2. CASE Navigate
    <2>1. PICK dt \in 0..MaxFrameTicks :
              /\ moved' = IF HasDirection THEN dt * vel' ELSE 0
              /\ glided' = CASE GoalVel # 0 -> 0
                             [] GoalVel = 0 /\ ramp.goal # 0 -> moved'
                             [] OTHER -> glided + moved'
              /\ stalled' = (GoalVel = 0 /\ ((stalled /\ ramp.goal = 0) \/ dt > OneSecond))
        BY <1>2 DEF Navigate, Way
    <2>2. moved' \in Int /\ Abs(moved') <= MaxFrameTicks * MaxVel
        <3>1. 0 \in 0..MaxFrameTicks /\ 0 \in Velocity /\ 0 * 0 = 0 /\ vel' \in Velocity
            BY <1>a, Rates DEF Velocity, RampInv
        <3> QED
            BY <2>1, <3>1, WayBounded
    <2>3. glided' \in Int /\ stalled' \in BOOLEAN
        BY <2>1, <2>2 DEF StateInv
    <2>4. UNCHANGED gadgetVars /\ use' = use /\ step' = "devices"
        BY <1>2 DEF Navigate
    <2> QED
        BY <1>a, <1>b, <2>2, <2>3, <2>4 DEF StateInv, Abs
<1>3. CASE SetScriptGoal \/ UseOther \/ UNCHANGED navigatorVars
    <2>1. UNCHANGED <<gadgetVars, step, moved, glided, stalled>>
        BY <1>3 DEF SetScriptGoal, UseOther, navigatorVars, navVars
    <2>2. use' \in {"wand", "gamepad", "script"}
        BY <1>3 DEF SetScriptGoal, UseOther, navigatorVars, navVars, StateInv
    <2> QED
        BY <1>a, <1>b, <2>1, <2>2 DEF StateInv, Abs
<1> QED
    BY <1>1, <1>2, <1>3 DEF NavNext

\* No velocity exceeds its maximum, no frame goes further than that allows, and
\* every change of the level of the button is reported as an edge in the frame of
\* the change and as nothing else.
THEOREM StateCorrect == NavSpec => []StateConsistent
<1>1. StateInv => StateConsistent
    <2> SUFFICES ASSUME StateInv PROVE NavTypeOK /\ EdgesMatchLevels
        BY DEF StateConsistent
    <2>1. NavTypeOK
        BY DEF StateInv, RampInv, EdgeInv, NavTypeOK, Velocity
    <2>2. EdgesMatchLevels
        <3>1. CASE was = TRUE /\ digital \in {"ON", "TOGGLE_OFF"}
            <4>1. (digital = "ON" /\ Pressed = TRUE) \/ (digital = "TOGGLE_OFF" /\ Pressed = FALSE)
                BY <3>1 DEF Pressed
            <4> QED
                BY <3>1, <4>1 DEF EdgesMatchLevels, JustChanged, JustPressed, JustReleased
        <3>2. CASE was = FALSE /\ digital \in {"OFF", "TOGGLE_ON"}
            <4>1. (digital = "TOGGLE_ON" /\ Pressed = TRUE) \/ (digital = "OFF" /\ Pressed = FALSE)
                BY <3>2 DEF Pressed
            <4> QED
                BY <3>2, <4>1 DEF EdgesMatchLevels, JustChanged, JustPressed, JustReleased
        <3> QED
            BY <3>1, <3>2 DEF StateInv, EdgeInv
    <2> QED
        BY <2>1, <2>2
<1> QED
    BY <1>1, StateInit, StateStep, PTL DEF NavSpec


-----------------------------------------------------------------------------
(* Scores.                                                                  *)

LEMMA HasLeast ==
    ASSUME NEW T \in SUBSET Nat, T # {}
    PROVE  \E x \in T : \A y \in T : x <= y
<1> DEFINE R == OpToRel(<, Nat)
<1>1. IsWellFoundedOn(R, Nat)
    BY NatLessThanWellFounded
<1>2. \A x, y \in Nat : y < x => <<y, x>> \in R
    BY DEF OpToRel
<1> HIDE DEF R
<1>3. \E x \in T : \A y \in T : ~(<<y, x>> \in R)
    BY <1>1, WFMin, Zenon
<1>4. PICK x \in T : \A y \in T : ~(<<y, x>> \in R)
    BY <1>3
<1>5. x \in Nat /\ \A y \in T : y \in Nat /\ ~(y < x)
    BY <1>2, <1>4
<1> QED
    BY <1>5

\* The sum of scores is there, and each of them adds at most two to it.
LEMMA SumBounded ==
    ASSUME NEW scores, NEW n \in Nat, Len(scores) = n, DOMAIN scores = 1..n,
           \A i \in 1..n : scores[i] \in {-1, 0, 1, 2}
    PROVE  /\ SumScores(scores) \in -1..2 * n
           /\ SumScores(scores) >= 0 <=> \A i \in 1..n : scores[i] >= 0
<1> DEFINE Is(f) == f = [i \in 0..n |-> IF i = 0 THEN 0 ELSE f[i - 1] + scores[i]]
<1> DEFINE sum == CHOOSE f : Is(f)
<1>1. SumScores(scores) = IF \E i \in 1..n : scores[i] < 0 THEN -1 ELSE sum[n]
    BY DEF SumScores
<1>2. CASE \E i \in 1..n : scores[i] < 0
    <2>1. SumScores(scores) = -1
        BY <1>1, <1>2
    <2> QED
        BY <1>2, <2>1
<1>3. CASE ~\E i \in 1..n : scores[i] < 0
    <2>0. \A i \in 1..n : scores[i] \in 0..2
        BY <1>3
    <2> DEFINE Adds(f, k) == /\ f \in [0..k -> Int]
                             /\ f[0] = 0
                             /\ \A i \in 1..k : f[i] = f[i - 1] + scores[i]
    <2>1. \E f : Adds(f, n)
        <3> DEFINE T == {k \in 0..n : ~\E f : Adds(f, k)}
        <3>1. CASE T = {}
            <4>1. n \notin T
                BY <3>1
            <4> HIDE DEF Adds
            <4> QED
                BY <4>1
        <3>2. CASE T # {}
            <4>1. T \in SUBSET Nat
                OBVIOUS
            <4> HIDE DEF T
            <4>2. PICK m \in T : \A k \in T : m <= k
                BY <3>2, <4>1, HasLeast
            <4>3. m \in 0..n /\ ~\E f : Adds(f, m)
                BY <4>2 DEF T
            <4>4. m # 0
                <5> SUFFICES ASSUME m = 0 PROVE \E f : Adds(f, m)
                    BY <4>3
                <5> DEFINE g == [i \in 0..0 |-> 0]
                <5>1. g \in [0..0 -> Int] /\ g[0] = 0
                    OBVIOUS
                <5> HIDE DEF g
                <5>2. g \in [0..0 -> Int] /\ g[0] = 0 /\ \A i \in 1..0 : g[i] = g[i - 1] + scores[i]
                    BY <5>1
                <5> QED
                    BY <5>2
            <4>5. m - 1 \in 0..n /\ m - 1 \notin T
                BY <4>1, <4>2, <4>3, <4>4
            <4>6. PICK f : Adds(f, m - 1)
                BY <4>5 DEF T
            <4> DEFINE g == [i \in 0..m |-> IF i = m THEN f[m - 1] + scores[m] ELSE f[i]]
            <4>7. /\ g \in [0..m -> Int]
                  /\ g[m] = f[m - 1] + scores[m]
                  /\ \A i \in 0..(m - 1) : g[i] = f[i]
                BY <2>0, <4>3, <4>4, <4>6
            <4> HIDE DEF g
            <4>8. Adds(g, m)
                BY <4>3, <4>4, <4>6, <4>7
            <4> QED
                BY <4>3, <4>8
        <3> QED
            BY <3>1, <3>2
    <2>2. PICK f : Adds(f, n)
        BY <2>1
    <2>3. Is(f)
        <3>1. f = [i \in 0..n |-> f[i]]
            BY <2>2
        <3>2. \A i \in 0..n : f[i] = IF i = 0 THEN 0 ELSE f[i - 1] + scores[i]
            BY <2>2
        <3> QED
            BY <3>1, <3>2
    <2>4. Is(sum)
        BY <2>3
    <2> HIDE DEF sum
    <2>5. sum[0] = 0 /\ \A i \in 1..n : sum[i] = sum[i - 1] + scores[i]
        BY <2>4
    <2>6. sum[n] \in 0..2 * n
        <3> DEFINE T == {k \in 0..n : sum[k] \notin 0..2 * k}
        <3>1. CASE T = {}
            BY <3>1
        <3>2. CASE T # {}
            <4>1. T \in SUBSET Nat
                OBVIOUS
            <4> HIDE DEF T
            <4>2. PICK m \in T : \A k \in T : m <= k
                BY <3>2, <4>1, HasLeast
            <4>3. m \in 0..n /\ sum[m] \notin 0..2 * m
                BY <4>2 DEF T
            <4>4. m # 0
                BY <2>5, <4>3
            <4>5. m - 1 \in 0..n /\ m - 1 \notin T
                BY <4>1, <4>2, <4>3, <4>4
            <4>6. sum[m - 1] \in 0..2 * (m - 1)
                BY <4>5 DEF T
            <4>7. sum[m] = sum[m - 1] + scores[m] /\ scores[m] \in 0..2
                BY <2>0, <2>5, <4>3, <4>4
            <4> QED
                BY <4>3, <4>6, <4>7
        <3> QED
            BY <3>1, <3>2
    <2>7. SumScores(scores) = sum[n]
        BY <1>1, <1>3
    <2> QED
        BY <2>0, <2>6, <2>7
<1> QED
    BY <1>2, <1>3

-----------------------------------------------------------------------------
(* Conversions.                                                             *)

\* The classes and the value types are different types.
LEMMA TypesApart ==
    /\ \A t \in Classes : t \notin IsOSGValue /\ t # "NULL" /\ t # "number"
    /\ \A t \in IsOSGValue : t # "NULL" /\ t # "number"
    /\ \A pair \in IsA : pair[1] \in Classes /\ pair[2] \in Classes /\ pair = <<pair[1], pair[2]>>
<1>1. /\ \A t \in Derived : t \notin IsOSGValue /\ t # "NULL" /\ t # "number"
      /\ IsA \subseteq Classes \X Classes
    BY OsgBindingAssumption
<1>2. \A t \in Classes : t \notin IsOSGValue /\ t # "NULL" /\ t # "number"
    BY <1>1 DEF Classes, Base, IsOSGValue
<1>3. \A t \in IsOSGValue : t # "NULL" /\ t # "number"
    BY DEF IsOSGValue
<1> QED
    BY <1>1, <1>2, <1>3

\* What a Lua value is, by its kind and its type.
LEMMA ValueIs ==
    ASSUME NEW v \in LuaValues
    PROVE  /\ v = [kind |-> v.kind, type |-> v.type, object |-> v.object]
           /\ v.kind = "osg" => \/ v.type \in IsOSGValue /\ v.object = v.type
                                \/ <<v.object, v.type>> \in IsA
                                \/ v.type \in Classes /\ v.object = "NULL"
           /\ v.kind # "osg" => v.kind = "number" /\ v.type = "number" /\ v.object = "number"
<1>1. CASE \E t \in IsOSGValue : v = [kind |-> "osg", type |-> t, object |-> t]
    BY <1>1
<1>2. CASE \E pair \in IsA : v = [kind |-> "osg", type |-> pair[2], object |-> pair[1]]
    <2>1. PICK pair \in IsA : v = [kind |-> "osg", type |-> pair[2], object |-> pair[1]]
        BY <1>2
    <2>2. pair = <<pair[1], pair[2]>>
        BY TypesApart
    <2> QED
        BY <2>1, <2>2
<1>3. CASE \E t \in Classes : v = [kind |-> "osg", type |-> t, object |-> "NULL"]
    BY <1>3
<1>4. CASE v = [kind |-> "number", type |-> "number", object |-> "number"]
    BY <1>4
<1> QED
    BY <1>1, <1>2, <1>3, <1>4 DEF LuaValues

LEMMA ParameterIs ==
    ASSUME NEW p \in Parameters
    PROVE  /\ p = [form |-> p.form, type |-> p.type]
           /\ \/ p.form \in {"pointer", "ref_ptr"} /\ p.type \in Classes
              \/ p.form = "value" /\ p.type \in IsOSGValue
              \/ p.form = "number" /\ p.type = "number"
BY DEF Parameters

LEMMA MatchScores ==
    ASSUME NEW v, NEW p
    PROVE  Match(v, p) \in {-1, 0, 1, 2}
BY DEF Match, ReferenceScore, ValueScore, ComputeScore, CastingScore

\* What a value that matches becomes in C++, and what it becomes again in Lua.
LEMMA Converted ==
    ASSUME NEW v \in LuaValues, NEW p \in Parameters, Match(v, p) >= 0
    PROVE  LET x == From(v, p)
           IN  /\ IF x = "NULL" THEN v.object = "NULL" /\ v.type = p.type
                  ELSE IF p.form \in {"pointer", "ref_ptr"} THEN <<x, p.type>> \in IsA
                  ELSE x = p.type
               /\ To(x, p) \in LuaValues
               /\ Match(To(x, p), p) >= 0
<1> DEFINE x == From(v, p)
<1>1. CASE IsReference(p)
    <2>1. /\ p.type \in Classes /\ p.type \notin IsOSGValue /\ p.form \in {"pointer", "ref_ptr"}
        BY <1>1, ParameterIs, TypesApart DEF IsReference
    <2>2. v.kind = "osg" /\ ComputeScore(v, p) >= 0
        BY <1>1 DEF Match, ReferenceScore, ComputeScore
    <2>3. v.type = p.type \/ Castable(v, p)
        BY <2>2 DEF ComputeScore, CastingScore
    <2>4. v.object # "NULL" /\ v.type = p.type => <<v.object, p.type>> \in IsA
        BY <2>1, <2>2, ValueIs, TypesApart
    <2>5. x = IF Castable(v, p) THEN v.object ELSE "NULL"
        BY <1>1, <2>2 DEF From, FromReference
    <2>6. Castable(v, p) <=> v.object # "NULL" /\ <<v.object, p.type>> \in IsA
        BY <2>1 DEF Castable
    <2>7. IF x = "NULL" THEN v.object = "NULL" /\ v.type = p.type ELSE <<x, p.type>> \in IsA
        BY <2>3, <2>4, <2>5, <2>6
    <2>8. To(x, p) = [kind |-> "osg", type |-> p.type, object |-> x]
        BY <1>1 DEF To, ToReference
    <2>9. To(x, p) \in LuaValues
        <3>1. CASE x = "NULL"
            BY <2>1, <2>8, <3>1 DEF LuaValues
        <3>2. CASE x # "NULL"
            <4> DEFINE pair == <<x, p.type>>
            <4>1. pair \in IsA /\ To(x, p) = [kind |-> "osg", type |-> pair[2], object |-> pair[1]]
                BY <2>7, <2>8, <3>2
            <4> QED
                BY <4>1 DEF LuaValues
        <3> QED
            BY <3>1, <3>2
    <2>10. Match(To(x, p), p) >= 0
        BY <1>1, <2>8 DEF Match, ReferenceScore, ComputeScore
    <2> QED
        BY <2>1, <2>7, <2>9, <2>10
<1>2. CASE ~IsReference(p) /\ IsValue(p)
    <2>1. p.form = "value" /\ p.type \in IsOSGValue /\ p.type # "NULL"
        BY <1>2, TypesApart DEF IsValue
    <2>2. v.kind = "osg" /\ ComputeScore(v, p) >= 0
        BY <1>2 DEF Match, ValueScore, ComputeScore
    <2>3. Castable(v, p)
        BY <2>1, <2>2 DEF ComputeScore, CastingScore, Castable
    <2>4. x = p.type
        BY <1>2, <2>2, <2>3 DEF From, FromValue
    <2>5. To(x, p) = [kind |-> "osg", type |-> p.type, object |-> p.type]
        BY <1>2, <2>4 DEF To, ToValue
    <2>6. To(x, p) \in LuaValues
        BY <2>1, <2>5 DEF LuaValues
    <2>7. Match(To(x, p), p) >= 0
        BY <1>2, <2>5 DEF Match, ValueScore, ComputeScore
    <2> QED
        BY <2>1, <2>4, <2>6, <2>7
<1>3. CASE ~IsReference(p) /\ ~IsValue(p)
    <2>1. p.form = "number" /\ v.kind = "number" /\ p.type = "number"
        BY <1>3, ParameterIs DEF Match
    <2>2. x = "number"
        BY <1>3, <2>1, ValueIs DEF From
    <2>3. To(x, p) = [kind |-> "number", type |-> "number", object |-> "number"]
        BY <1>3, <2>1, <2>2 DEF To
    <2>4. To(x, p) \in LuaValues
        BY <2>3 DEF LuaValues
    <2>5. Match(To(x, p), p) >= 0
        BY <1>3, <2>1, <2>3 DEF Match
    <2> QED
        BY <2>1, <2>2, <2>4, <2>5
<1> QED
    BY <1>1, <1>2, <1>3

\* An overload matches where its parameters do, and no score reaches Infinity.
LEMMA ScoreIs ==
    ASSUME NEW signature \in Signatures, NEW values \in Seq(LuaValues)
    PROVE  /\ Score(signature, values) \in -1..2 * Len(values)
           /\ Score(signature, values) < Infinity
           /\ Score(signature, values) >= 0 =>
                  /\ Len(signature) = Len(values)
                  /\ \A i \in 1..Len(values) : Match(values[i], signature[i]) >= 0
<1> DEFINE n == Len(values)
           scores == [i \in DOMAIN values |-> Match(values[i], signature[i])]
<1>1. signature \in Seq(Parameters) /\ Len(signature) <= 10 /\ n \in Nat
    BY OsgBindingAssumption DEF MaxArity
<1>2. CASE Len(signature) # n
    BY <1>1, <1>2 DEF Score, Infinity
<1>3. CASE Len(signature) = n
    <2>1. Score(signature, values) = SumScores(scores)
        BY <1>3 DEF Score
    <2>2. DOMAIN scores = 1..n /\ Len(scores) = n
        OBVIOUS
    <2>3. \A i \in 1..n : scores[i] = Match(values[i], signature[i]) /\ scores[i] \in {-1, 0, 1, 2}
        BY MatchScores
    <2> HIDE DEF scores
    <2>4. /\ SumScores(scores) \in -1..2 * n
          /\ SumScores(scores) >= 0 <=> \A i \in 1..n : scores[i] >= 0
        BY <1>1, <2>2, <2>3, SumBounded
    <2> QED
        BY <1>1, <1>3, <2>1, <2>3, <2>4 DEF Infinity
<1> QED
    BY <1>2, <1>3

-----------------------------------------------------------------------------
(* The choice among the overloads.                                          *)

BindingTypes ==
    /\ overloads \in Seq(Signatures) /\ Len(overloads) <= MaxOverloads
    /\ \A i, j \in 1..Len(overloads) : overloads[i] = overloads[j] => i = j
    /\ args \in Seq(LuaValues) /\ result \in Seq(LuaValues)
    /\ candidates \in Seq(1..Len(overloads))

\* Where a call is, and what it leaves behind.
Phase ==
    /\ call \in {"none", "scoring", "called", "nomatch", "ambiguous"}
    /\ call = "none" => at = 0 /\ best = Infinity /\ args = <<>> /\ candidates = <<>>
    /\ call = "scoring" => at \in 1..(Len(overloads) + 1)
    /\ call \in {"called", "nomatch", "ambiguous"} => at = Len(overloads) + 1
    /\ call # "none" => args # <<>>
    /\ IF call = "called"
       THEN /\ Len(candidates) = 1
            /\ received = [i \in DOMAIN args |-> From(args[i], overloads[candidates[1]][i])]
       ELSE received = <<>>
    /\ CASE call = "nomatch" ->
                /\ candidates = <<>>
                /\ report = [i \in DOMAIN overloads |-> FormatSignature(overloads[i])]
         [] call = "ambiguous" ->
                /\ Len(candidates) > 1
                /\ report = [i \in DOMAIN candidates |-> FormatSignature(overloads[candidates[i]])]
         [] OTHER -> report = <<>>

\* Of the overloads looked at so far, those that match.
Seen == {i \in 1..(at - 1) : Score(overloads[i], args) >= 0}

\* The candidates are those of the least score, each of them once.
Ranking ==
    /\ best \in 0..2 * Len(args) \/ best = Infinity
    /\ (best = Infinity) <=> (candidates = <<>>)
    /\ \A i \in Seen : best <= Score(overloads[i], args)
    /\ \A k \in 1..Len(candidates) :
           candidates[k] \in Seen /\ Score(overloads[candidates[k]], args) = best
    /\ \A i \in Seen : Score(overloads[i], args) = best =>
                           \E k \in 1..Len(candidates) : candidates[k] = i
    /\ \A k, l \in 1..Len(candidates) : candidates[k] = candidates[l] => k = l

BindingInv == BindingTypes /\ Phase /\ Ranking

LEMMA BindingStart == BindingInit => BindingInv
<1> SUFFICES ASSUME BindingInit PROVE BindingInv
    OBVIOUS
<1>1. /\ overloads = <<>> /\ args = <<>> /\ result = <<>> /\ candidates = <<>>
      /\ call = "none" /\ at = 0 /\ best = Infinity /\ received = <<>> /\ report = <<>>
    BY DEF BindingInit
<1>2. \A S : <<>> \in Seq(S) /\ Len(<<>>) = 0
    OBVIOUS
<1>3. MaxOverloads \in Nat
    BY OsgBindingAssumption
<1>4. BindingTypes
    BY <1>1, <1>2, <1>3 DEF BindingTypes
<1>5. Phase
    BY <1>1 DEF Phase
<1>6. Seen = {}
    BY <1>1 DEF Seen
<1> QED
    BY <1>1, <1>2, <1>4, <1>5, <1>6 DEF BindingInv, Ranking

LEMMA RegisterStep == BindingInv /\ Register => BindingInv'
<1> SUFFICES ASSUME BindingInv, Register PROVE BindingInv'
    OBVIOUS
<1>1. PICK signature \in Signatures : ~Contains(overloads, signature)
                                      /\ overloads' = <<signature>> \o overloads
    BY DEF Register
<1>2. /\ call = "none" /\ call' = call /\ Len(overloads) < MaxOverloads
      /\ args' = <<>> /\ at' = 0 /\ best' = Infinity /\ candidates' = <<>>
      /\ received' = <<>> /\ result' = result /\ report' = <<>>
    BY DEF Register, BindingInv, Phase
<1> DEFINE first == <<signature>>
           n == Len(overloads)
<1>3. first \in Seq(Signatures) /\ Len(first) = 1 /\ first[1] = signature
    OBVIOUS
<1>4. overloads \in Seq(Signatures) /\ n \in Nat /\ MaxOverloads \in Nat /\ result \in Seq(LuaValues)
    BY OsgBindingAssumption DEF BindingInv, BindingTypes
<1>5. overloads' = first \o overloads
    BY <1>1
<1> HIDE DEF first, n
<1>6. /\ overloads' \in Seq(Signatures) /\ Len(overloads') = n + 1
      /\ \A i \in 1..(n + 1) : overloads'[i] = IF i <= 1 THEN signature ELSE overloads[i - 1]
    <2>1. /\ first \o overloads \in Seq(Signatures)
          /\ Len(first \o overloads) = Len(first) + Len(overloads)
          /\ \A i \in 1..(Len(first) + Len(overloads)) :
                 (first \o overloads)[i] = IF i <= Len(first) THEN first[i] ELSE overloads[i - Len(first)]
        BY <1>3, <1>4, ConcatProperties
    <2> QED
        BY <1>3, <1>4, <1>5, <2>1 DEF n
<1>7. \A i \in 1..n : overloads[i] # signature
    <2>1. ~\E i \in 1..n : overloads[i] = signature
        BY <1>1 DEF Contains, n
    <2> QED
        BY <2>1
<1>8. \A i, j \in 1..(n + 1) : overloads'[i] = overloads'[j] => i = j
    <2> SUFFICES ASSUME NEW i \in 1..(n + 1), NEW j \in 1..(n + 1), overloads'[i] = overloads'[j]
                 PROVE  i = j
        OBVIOUS
    <2>1. CASE i = 1 /\ j = 1
        BY <2>1
    <2>2. CASE i = 1 /\ j # 1
        <3>1. overloads'[i] = signature /\ overloads'[j] = overloads[j - 1] /\ j - 1 \in 1..n
            BY <1>4, <1>6, <2>2
        <3> QED
            BY <1>7, <3>1
    <2>3. CASE i # 1 /\ j = 1
        <3>1. overloads'[j] = signature /\ overloads'[i] = overloads[i - 1] /\ i - 1 \in 1..n
            BY <1>4, <1>6, <2>3
        <3> QED
            BY <1>7, <3>1
    <2>4. CASE i # 1 /\ j # 1
        <3>1. overloads'[i] = overloads[i - 1] /\ overloads'[j] = overloads[j - 1]
              /\ i - 1 \in 1..n /\ j - 1 \in 1..n
            BY <1>4, <1>6, <2>4
        <3>2. i - 1 = j - 1
            BY <3>1 DEF BindingInv, BindingTypes, n
        <3> QED
            BY <3>2
    <2> QED
        BY <2>1, <2>2, <2>3, <2>4
<1>9. BindingTypes'
    <2>1. candidates' \in Seq(1..Len(overloads')) /\ args' \in Seq(LuaValues)
        BY <1>2
    <2>2. Len(overloads') <= MaxOverloads
        BY <1>2, <1>4, <1>6 DEF n
    <2> QED
        BY <1>2, <1>4, <1>6, <1>8, <2>1, <2>2 DEF BindingTypes
<1>10. Phase'
    BY <1>2 DEF Phase
<1>11. Ranking'
    <2>1. Seen' = {}
        BY <1>2 DEF Seen
    <2>2. Len(candidates') = 0
        BY <1>2
    <2> QED
        BY <1>2, <2>1, <2>2 DEF Ranking
<1> QED
    BY <1>9, <1>10, <1>11 DEF BindingInv

LEMMA CallStep == BindingInv /\ (Call \/ Return) => BindingInv'
<1> SUFFICES ASSUME BindingInv, Call \/ Return PROVE BindingInv'
    OBVIOUS
<1>1. /\ overloads' = overloads /\ result' = result /\ best' = Infinity /\ candidates' = <<>>
      /\ received' = <<>> /\ report' = <<>>
      /\ Len(overloads) \in Nat
      /\ \/ call' = "scoring" /\ at' = 1 /\ args' # <<>> /\ args' \in Arguments \union {result}
         \/ call' = "none" /\ at' = 0 /\ args' = <<>>
    BY DEF Call, Return, BindingInv, BindingTypes, Phase
<1>2. args' \in Seq(LuaValues)
    <2>1. Arguments \subseteq Seq(LuaValues) /\ result \in Seq(LuaValues)
        BY OsgBindingAssumption DEF BindingInv, BindingTypes
    <2>2. <<>> \in Seq(LuaValues)
        OBVIOUS
    <2> HIDE DEF LuaValues
    <2> QED
        BY <1>1, <2>1, <2>2
<1>3. BindingTypes'
    BY <1>1, <1>2 DEF BindingInv, BindingTypes
<1>4. Phase'
    <2>1. CASE call' = "scoring"
        BY <1>1, <2>1 DEF Phase
    <2>2. CASE call' = "none"
        BY <1>1, <2>2 DEF Phase
    <2> QED
        BY <1>1, <2>1, <2>2
<1>5. Ranking'
    <2>1. Seen' = {}
        BY <1>1 DEF Seen
    <2>2. Len(candidates') = 0
        BY <1>1
    <2> QED
        BY <1>1, <2>1, <2>2 DEF Ranking
<1> QED
    BY <1>3, <1>4, <1>5 DEF BindingInv

\* A lower score drops the candidates there are, an equal one adds to them.
LEMMA ScoreOneStep == BindingInv /\ ScoreOne => BindingInv'
<1> SUFFICES ASSUME BindingInv, ScoreOne PROVE BindingInv'
    OBVIOUS
<1> DEFINE n == Len(overloads)
           C == 1..n
           of(i) == Score(overloads[i], args)
           s == of(at)
<1>1. /\ call = "scoring" /\ at \in 1..n /\ at' = at + 1 /\ n \in Nat
      /\ UNCHANGED <<overloads, call, args, received, result, report>>
      /\ Consider(s)
    BY DEF ScoreOne, BindingInv, Phase, BindingTypes
<1>2. \A i \in C : of(i) \in -1..2 * Len(args) /\ of(i) < Infinity
    <2> TAKE i \in C
    <2>1. overloads[i] \in Signatures /\ args \in Seq(LuaValues)
        BY DEF BindingInv, BindingTypes
    <2> QED
        BY <2>1, ScoreIs
<1>3. candidates \in Seq(C) /\ Len(candidates) \in Nat /\ Len(args) \in Nat
    BY DEF BindingInv, BindingTypes
<1>4. \A i : of(i)' = of(i)
    BY <1>1
<1>5. /\ Seen \subseteq 1..(at - 1) /\ Seen \subseteq C
      /\ Seen' = IF s >= 0 THEN Seen \union {at} ELSE Seen
    <2>1. Seen' = {i \in 1..at : of(i) >= 0}
        BY <1>1 DEF Seen
    <2>2. Seen = {i \in 1..(at - 1) : of(i) >= 0}
        BY DEF Seen
    <2> HIDE DEF of
    <2>3. 1..at = (1..(at - 1)) \union {at}
        BY <1>1
    <2>4. Seen' = IF of(at) >= 0 THEN Seen \union {at} ELSE Seen
        BY <2>1, <2>2, <2>3
    <2> QED
        BY <1>1, <2>2, <2>4
<1>6. /\ best \in 0..2 * Len(args) \/ best = Infinity
      /\ (best = Infinity) <=> (candidates = <<>>)
      /\ \A i \in Seen : best <= of(i)
      /\ \A k \in 1..Len(candidates) : candidates[k] \in Seen /\ of(candidates[k]) = best
      /\ \A i \in Seen : of(i) = best => \E k \in 1..Len(candidates) : candidates[k] = i
      /\ \A k, l \in 1..Len(candidates) : candidates[k] = candidates[l] => k = l
    BY DEF BindingInv, Ranking
<1>7. /\ s \in -1..2 * Len(args) /\ s < Infinity /\ s = of(at) /\ at \notin Seen /\ at \in C
      /\ s >= 0 => s \in 0..2 * Len(args)
    BY <1>1, <1>2, <1>5
<1>8. Phase'
    BY <1>1 DEF BindingInv, Phase
<1> DEFINE Same == /\ overloads' = overloads /\ args' = args
                   /\ \A i : of(i)' = of(i)
                   /\ Seen' = IF s >= 0 THEN Seen \union {at} ELSE Seen
<1>9. Same
    BY <1>1, <1>4, <1>5
<1>10. candidates' \in Seq(C) => BindingTypes'
    BY <1>1 DEF BindingInv, BindingTypes
<1>11. ASSUME candidates' \in Seq(C),
              best' \in 0..2 * Len(args) \/ best' = Infinity,
              (best' = Infinity) <=> (candidates' = <<>>),
              \A i \in Seen' : best' <= of(i),
              \A k \in 1..Len(candidates') : candidates'[k] \in Seen' /\ of(candidates'[k]) = best',
              \A i \in Seen' : of(i) = best' => \E k \in 1..Len(candidates') : candidates'[k] = i,
              \A k, l \in 1..Len(candidates') : candidates'[k] = candidates'[l] => k = l
       PROVE  BindingInv'
    <2>1. Ranking'
        BY <1>1, <1>11 DEF Ranking
    <2> QED
        BY <1>8, <1>10, <1>11, <2>1 DEF BindingInv
<1> HIDE DEF of, s, C, n
<1>12. CASE s >= 0 /\ s < best
    <2>1. best' = s /\ candidates' = <<at>>
        BY <1>1, <1>12 DEF Consider
    <2>2. candidates' \in Seq(C) /\ Len(candidates') = 1 /\ candidates'[1] = at /\ candidates' # <<>>
        BY <1>7, <2>1
    <2>3. \A i \in Seen : best <= of(i) /\ i \in C /\ of(i) \in Int
        BY <1>2, <1>5, <1>6
    <2>4. best \in Int /\ s \in Int /\ s # Infinity
        BY <1>6, <1>7 DEF Infinity
    <2>5. Seen' = Seen \union {at}
        BY <1>5, <1>12
    <2>6. \A i \in Seen : s < of(i)
        BY <1>12, <2>3, <2>4
    <2>7. \A i \in Seen' : best' <= of(i) /\ (of(i) = best' => i = at)
        BY <1>7, <2>1, <2>3, <2>4, <2>5, <2>6
    <2> QED
        BY <1>7, <1>11, <1>12, <2>1, <2>2, <2>4, <2>5, <2>7
<1>13. CASE s = best
    <2> DEFINE more == Append(candidates, at)
               m == Len(candidates)
    <2>1. best' = best /\ candidates' = more
        <3>1. ~(s < best)
            BY <1>3, <1>7, <1>13
        <3> QED
            BY <1>1, <1>13, <3>1 DEF Consider
    <2>2. /\ more \in Seq(C) /\ Len(more) = m + 1 /\ more[m + 1] = at /\ m \in Nat
          /\ \A k \in 1..m : more[k] = candidates[k]
        BY <1>3, <1>7, AppendProperties
    <2> HIDE DEF more
    <2>3. s >= 0 /\ best # Infinity /\ best \in 0..2 * Len(args)
        BY <1>6, <1>7, <1>13 DEF Infinity
    <2>4. Seen' = Seen \union {at}
        BY <1>5, <2>3
    <2>5. more # <<>>
        BY <2>2
    <2>6. \A i \in Seen' : best' <= of(i)
        <3>1. best \in Int /\ best = of(at)
            BY <1>3, <1>7, <1>13, <2>3
        <3>2. best <= of(at)
            BY <3>1
        <3> QED
            BY <1>6, <2>1, <2>4, <3>2
    <2>7. \A k \in 1..m : candidates[k] \in Seen /\ of(candidates[k]) = best /\ candidates[k] # at
        BY <1>6, <1>7
    <2>8. \A k \in 1..(m + 1) : k = m + 1 \/ k \in 1..m
        BY <2>2
    <2>9. \A k \in 1..(m + 1) : more[k] \in Seen' /\ of(more[k]) = best
        BY <1>7, <1>13, <2>2, <2>4, <2>7, <2>8
    <2>10. \A i \in Seen' : of(i) = best => \E k \in 1..(m + 1) : more[k] = i
        <3> SUFFICES ASSUME NEW i \in Seen', of(i) = best PROVE \E k \in 1..(m + 1) : more[k] = i
            OBVIOUS
        <3>1. CASE i = at
            BY <2>2, <3>1
        <3>2. CASE i \in Seen
            <4>1. PICK k \in 1..m : candidates[k] = i
                BY <1>6, <3>2
            <4> QED
                BY <2>2, <4>1
        <3> QED
            BY <2>4, <3>1, <3>2
    <2>11. \A k, l \in 1..(m + 1) : more[k] = more[l] => k = l
        BY <1>6, <2>2, <2>7, <2>8
    <2> QED
        BY <1>11, <2>1, <2>2, <2>3, <2>5, <2>6, <2>9, <2>10, <2>11
<1>14. CASE ~(s >= 0 /\ s < best) /\ s # best
    <2>1. best' = best /\ candidates' = candidates
        BY <1>1, <1>14 DEF Consider
    <2>2. s >= 0 => best < s /\ best # Infinity
        BY <1>6, <1>7, <1>14 DEF Infinity
    <2>3. Seen \subseteq Seen' /\ \A i \in Seen' : i \in Seen \/ (i = at /\ best < of(i))
        BY <1>5, <1>7, <2>2
    <2>4. \A i \in Seen' : best' <= of(i) /\ (of(i) = best' => i \in Seen)
        <3> TAKE i \in Seen'
        <3>1. CASE i \in Seen
            BY <1>6, <2>1, <3>1
        <3>2. CASE i = at /\ best < of(i)
            BY <1>6, <1>7, <2>1, <3>2 DEF Infinity
        <3> QED
            BY <2>3, <3>1, <3>2
    <2> QED
        BY <1>3, <1>6, <1>11, <2>1, <2>3, <2>4
<1> QED
    BY <1>12, <1>13, <1>14

\* The parameters of a candidate take the arguments.
LEMMA CandidateMatches ==
    ASSUME BindingInv, NEW k \in 1..Len(candidates)
    PROVE  LET signature == overloads[candidates[k]]
           IN  /\ signature \in Seq(Parameters) /\ Len(signature) = Len(args)
               /\ \A i \in 1..Len(args) : /\ args[i] \in LuaValues /\ signature[i] \in Parameters
                                          /\ Match(args[i], signature[i]) >= 0
<1> DEFINE c == candidates[k]
           signature == overloads[c]
<1>1. c \in Seen /\ c \in 1..Len(overloads) /\ overloads \in Seq(Signatures) /\ args \in Seq(LuaValues)
    BY DEF BindingInv, BindingTypes, Ranking
<1>2. Score(signature, args) >= 0
    BY <1>1 DEF Seen
<1>3. signature \in Signatures
    BY <1>1
<1>4. signature \in Seq(Parameters)
    BY <1>3, OsgBindingAssumption
<1> HIDE DEF signature, c
<1>5. Len(signature) = Len(args) /\ \A i \in 1..Len(args) : Match(args[i], signature[i]) >= 0
    BY <1>1, <1>2, <1>3, ScoreIs
<1>6. \A i \in 1..Len(args) : args[i] \in LuaValues /\ signature[i] \in Parameters
    BY <1>1, <1>4, <1>5
<1> QED
    BY <1>4, <1>5, <1>6 DEF signature, c

\* What the candidate returns can be passed on.
LEMMA InvokeReturns ==
    ASSUME BindingInv, Invoke
    PROVE  /\ result' \in Seq(LuaValues)
           /\ Match(Head(result'), Head(overloads[candidates[1]])) >= 0
<1> DEFINE signature == overloads[candidates[1]]
           x == From(args[1], signature[1])
           y == To(x, signature[1])
<1>1. Len(candidates) = 1 /\ args # <<>> /\ args \in Seq(LuaValues)
    BY DEF Invoke, BindingInv, BindingTypes, Phase
<1>2. 1 \in 1..Len(args) /\ 1 \in 1..Len(candidates)
    BY <1>1
<1>3. /\ signature \in Seq(Parameters) /\ Len(signature) = Len(args)
      /\ args[1] \in LuaValues /\ signature[1] \in Parameters
      /\ Match(args[1], signature[1]) >= 0
    BY <1>2, CandidateMatches
<1>4. Head(received') = x
    <2>1. /\ received' = [i \in 1..Len(args) |-> From(args[i], signature[i])]
          /\ Len(args) \in Nat
        BY <1>1 DEF Invoke
    <2>2. received'[1] = x
        BY <1>2, <2>1
    <2> QED
        BY <2>1, <2>2
<1>5. Head(signature) = signature[1]
    OBVIOUS
<1>6. result' = <<y>>
    BY <1>4, <1>5 DEF Invoke
<1>7. y \in LuaValues /\ Match(y, signature[1]) >= 0
    BY <1>3, Converted
<1> HIDE DEF y, signature
<1>8. Head(result') = y /\ result' \in Seq(LuaValues)
    BY <1>6, <1>7
<1> QED
    BY <1>5, <1>7, <1>8 DEF signature

LEMMA EndStep == BindingInv /\ (Invoke \/ Fail) => BindingInv'
<1> SUFFICES ASSUME BindingInv, Invoke \/ Fail PROVE BindingInv'
    OBVIOUS
<1>1. /\ call = "scoring" /\ at \in 1..(Len(overloads) + 1) /\ at > Len(overloads)
      /\ UNCHANGED <<overloads, args, at, best, candidates>>
      /\ Len(overloads) \in Nat /\ Len(candidates) \in Nat /\ args # <<>>
      /\ received = <<>> /\ report = <<>>
    BY DEF Invoke, Fail, BindingInv, BindingTypes, Phase
<1>2. at = Len(overloads) + 1
    BY <1>1
<1>3. Ranking'
    <2>1. Seen' = Seen
        BY <1>1 DEF Seen
    <2> QED
        BY <1>1, <2>1 DEF BindingInv, Ranking
<1>4. BindingTypes'
    <2>1. result' \in Seq(LuaValues)
        BY InvokeReturns DEF Fail, BindingInv, BindingTypes
    <2> QED
        BY <1>1, <2>1 DEF BindingInv, BindingTypes
<1>5. CASE Invoke
    <2>1. /\ call' = "called" /\ Len(candidates) = 1 /\ report' = <<>>
          /\ received' = [i \in DOMAIN args |-> From(args[i], overloads[candidates[1]][i])]
        BY <1>1, <1>5 DEF Invoke
    <2>2. Phase'
        BY <1>1, <1>2, <2>1 DEF Phase
    <2> QED
        BY <1>3, <1>4, <2>2 DEF BindingInv
<1>6. CASE Fail
    <2>1. CASE candidates = <<>>
        <3>1. /\ call' = "nomatch" /\ received' = <<>>
              /\ report' = [i \in DOMAIN overloads |-> FormatSignature(overloads[i])]
            BY <1>1, <1>6, <2>1 DEF Fail
        <3>2. Phase'
            BY <1>1, <1>2, <2>1, <3>1 DEF Phase
        <3> QED
            BY <1>3, <1>4, <3>2 DEF BindingInv
    <2>2. CASE candidates # <<>>
        <3>1. /\ call' = "ambiguous" /\ received' = <<>> /\ Len(candidates) # 1
              /\ report' = [i \in DOMAIN candidates |-> FormatSignature(overloads[candidates[i]])]
            BY <1>1, <1>6, <2>2 DEF Fail
        <3>2. Len(candidates) > 1
            <4>1. candidates \in Seq(1..Len(overloads))
                BY DEF BindingInv, BindingTypes
            <4>2. Len(candidates) # 0
                BY <2>2, <4>1
            <4>3. \A m \in Nat : m # 0 /\ m # 1 => m > 1
                OBVIOUS
            <4> QED
                BY <1>1, <3>1, <4>2, <4>3
        <3>3. Phase'
            BY <1>1, <1>2, <3>1, <3>2 DEF Phase
        <3> QED
            BY <1>3, <1>4, <3>3 DEF BindingInv
    <2> QED
        BY <2>1, <2>2
<1> QED
    BY <1>5, <1>6

LEMMA BindingStep == BindingInv /\ [BindingNext]_bindingVars => BindingInv'
<1> SUFFICES ASSUME BindingInv, UNCHANGED bindingVars PROVE BindingInv'
    BY RegisterStep, CallStep, ScoreOneStep, EndStep DEF BindingNext
<1>1. /\ UNCHANGED <<overloads, call, args, at, best, candidates, received, result, report>>
    BY DEF bindingVars
<1>2. Seen' = Seen
    BY <1>1 DEF Seen
<1> QED
    BY <1>1, <1>2 DEF BindingInv, BindingTypes, Phase, Ranking

\* No more overloads are tied than there are.
LEMMA CandidatesFit == BindingInv => Len(candidates) <= Len(overloads)
<1> SUFFICES ASSUME BindingInv PROVE Len(candidates) <= Len(overloads)
    OBVIOUS
<1> DEFINE m == Len(candidates)
           n == Len(overloads)
           S == 1..m
           T == 1..n
<1>1. /\ overloads \in Seq(Signatures) /\ candidates \in Seq(1..n)
      /\ \A k, l \in 1..m : candidates[k] = candidates[l] => k = l
    BY DEF BindingInv, BindingTypes, Ranking
<1>2. m \in Nat /\ n \in Nat /\ candidates \in [S -> T]
    BY <1>1
<1> HIDE DEF m, n
<1>3. IsFiniteSet(S) /\ IsFiniteSet(T) /\ Cardinality(S) = m /\ Cardinality(T) = n
    BY <1>2, FS_Interval
<1>4. \A k, l \in S : candidates[k] = candidates[l] => k = l
    BY <1>1 DEF m
<1> HIDE DEF S, T
<1>5. Cardinality(T) < Cardinality(S) => \E k, l \in S : k # l /\ candidates[k] = candidates[l]
    BY <1>2, <1>3, FS_PigeonHole, Zenon
<1>6. ~(n < m)
    BY <1>3, <1>4, <1>5
<1> QED
    BY <1>2, <1>6 DEF m, n

\* The overloads an error names, in its order.
Names(chosen) ==
    /\ \A k \in 1..Len(report) :
           chosen[k] \in 1..Len(overloads) /\ report[k] = FormatSignature(overloads[chosen[k]])
    /\ \A k, l \in 1..Len(report) : chosen[k] = chosen[l] => k = l

\* An error names different overloads, all of them when none matches.
LEMMA ReportIs ==
    ASSUME BindingInv
    PROVE  /\ DOMAIN report = 1..Len(report) /\ Len(report) \in Nat /\ Len(report) <= Len(overloads)
           /\ call = "nomatch" => Len(report) = Len(overloads)
           /\ \E chosen : Names(chosen)
<1>1. /\ overloads \in Seq(Signatures) /\ candidates \in Seq(1..Len(overloads))
      /\ \A k, l \in 1..Len(candidates) : candidates[k] = candidates[l] => k = l
    BY DEF BindingInv, BindingTypes, Ranking
<1>2. /\ Len(overloads) \in Nat /\ DOMAIN overloads = 1..Len(overloads)
      /\ Len(candidates) \in Nat /\ DOMAIN candidates = 1..Len(candidates)
      /\ \A k \in 1..Len(candidates) : candidates[k] \in 1..Len(overloads)
    BY <1>1
<1>3. CASE call = "nomatch"
    <2> DEFINE all == [i \in 1..Len(overloads) |-> i]
    <2>1. report = [i \in 1..Len(overloads) |-> FormatSignature(overloads[i])]
        BY <1>2, <1>3 DEF BindingInv, Phase
    <2>2. Len(report) = Len(overloads) /\ DOMAIN report = 1..Len(overloads)
        BY <1>2, <2>1
    <2>3. \A k \in 1..Len(report) : all[k] = k /\ report[k] = FormatSignature(overloads[k])
        BY <2>1, <2>2
    <2> HIDE DEF all
    <2>4. Names(all)
        BY <1>2, <2>2, <2>3 DEF Names
    <2> QED
        BY <1>2, <2>2, <2>4
<1>4. CASE call = "ambiguous"
    <2>1. report = [i \in 1..Len(candidates) |-> FormatSignature(overloads[candidates[i]])]
        BY <1>2, <1>4 DEF BindingInv, Phase
    <2>2. Len(report) = Len(candidates) /\ DOMAIN report = 1..Len(candidates)
        BY <1>2, <2>1
    <2>3. \A k \in 1..Len(report) : report[k] = FormatSignature(overloads[candidates[k]])
        BY <2>1, <2>2
    <2>4. Names(candidates)
        BY <1>1, <1>2, <2>2, <2>3 DEF Names
    <2> QED
        BY <1>2, <1>4, <2>2, <2>4, CandidatesFit
<1>5. CASE call \notin {"nomatch", "ambiguous"}
    <2>1. report = <<>>
        BY <1>5 DEF BindingInv, Phase
    <2>2. Len(report) = 0 /\ DOMAIN report = 1..0 /\ 1..0 = {}
        BY <2>1
    <2>3. Names(<<>>)
        BY <2>2 DEF Names
    <2> QED
        BY <1>2, <1>5, <2>2, <2>3
<1> QED
    BY <1>3, <1>4, <1>5

\* The variables of a call keep their types, for every set of overloads: the best
\* score stays below the one it begins with as long as arity is limited.
THEOREM BindingTypeCorrect == BindingSpec => []BindingTypeOK
<1>1. BindingInv => BindingTypeOK
    <2> SUFFICES ASSUME BindingInv PROVE BindingTypeOK
        OBVIOUS
    <2>1. /\ overloads \in Seq(Signatures) /\ Len(overloads) \in Nat /\ Len(overloads) <= MaxOverloads
          /\ args \in Seq(LuaValues) /\ result \in Seq(LuaValues)
          /\ candidates \in Seq(DOMAIN overloads)
        BY DEF BindingInv, BindingTypes
    <2>2. /\ call \in {"none", "scoring", "called", "nomatch", "ambiguous"}
          /\ at \in 0..Len(overloads) + 1
        BY <2>1 DEF BindingInv, Phase
    <2>3. /\ best \in 0..2 * Len(args) \union {Infinity}
          /\ (best = Infinity) <=> (candidates = <<>>)
        BY DEF BindingInv, Ranking
    <2>4. Len(received) \in {0, Len(args)}
        BY <2>1 DEF BindingInv, Phase
    <2>5. Len(report) <= Len(overloads)
        BY <2>1, ReportIs
    <2> QED
        BY <2>1, <2>2, <2>3, <2>4, <2>5 DEF BindingTypeOK
<1> QED
    BY <1>1, BindingStart, BindingStep, PTL DEF BindingSpec

\* What a function returned is accepted where its type is declared, a null pointer
\* too (osgLuaBind.h:167-170, 211-214).
THEOREM ReturnedCorrect == BindingSpec => ReturnedIsAccepted
<1>1. BindingInv /\ Invoke => Match(Head(result'), Head(overloads[candidates[1]])) >= 0
    BY InvokeReturns
<1> QED
    BY <1>1, BindingStart, BindingStep, PTL DEF BindingSpec, ReturnedIsAccepted

\* At the end of a call the candidates are the overloads with the least score.
LEMMA CandidatesAreLeast ==
    ASSUME BindingInv, call \in {"called", "nomatch", "ambiguous"}
    PROVE  /\ candidates = <<>> => Matching = {}
           /\ candidates # <<>> => Least = {candidates[k] : k \in 1..Len(candidates)}
           /\ IsFiniteSet(Least)
<1> DEFINE of(i) == Score(overloads[i], args)
           n == Len(overloads)
           m == Len(candidates)
<1>1. /\ overloads \in Seq(Signatures) /\ candidates \in Seq(1..n) /\ args \in Seq(LuaValues)
      /\ at = n + 1 /\ n \in Nat /\ m \in Nat
    BY DEF BindingInv, BindingTypes, Phase
<1>2. DOMAIN overloads = 1..n /\ (candidates # <<>> => m >= 1)
    BY <1>1
<1>3. Seen = Matching
    BY <1>1, <1>2 DEF Seen, Matching
<1>4. \A i \in Matching : i \in 1..n /\ of(i) \in Int /\ of(i) < Infinity
    <2> TAKE i \in Matching
    <2>1. i \in 1..n
        BY <1>2 DEF Matching
    <2>2. overloads[i] \in Signatures
        BY <1>1, <2>1
    <2>3. of(i) \in -1..2 * Len(args) /\ of(i) < Infinity /\ Len(args) \in Nat
        BY <1>1, <2>2, ScoreIs
    <2> QED
        BY <2>1, <2>3
<1>5. /\ best \in 0..2 * Len(args) \/ best = Infinity
      /\ (best = Infinity) <=> (candidates = <<>>)
      /\ \A i \in Matching : best <= of(i)
      /\ \A k \in 1..m : candidates[k] \in Matching /\ of(candidates[k]) = best
      /\ \A i \in Matching : of(i) = best => \E k \in 1..m : candidates[k] = i
    BY <1>3 DEF BindingInv, Ranking
<1>6. best \in Int
    BY <1>1, <1>5 DEF Infinity
<1>7. Least = {i \in Matching : \A j \in Matching : of(i) <= of(j)}
    BY DEF Least
<1>8. candidates = <<>> => Matching = {}
    BY <1>4, <1>5, <1>6 DEF Infinity
<1>9. IsFiniteSet(Least)
    <2>1. Least \subseteq 1..n
        BY <1>4, <1>7
    <2>2. IsFiniteSet(1..n)
        BY <1>1, FS_Interval
    <2> QED
        BY <2>1, <2>2, FS_Subset
<1> HIDE DEF of, m, n
<1>10. ASSUME candidates # <<>> PROVE Least = {candidates[k] : k \in 1..m}
    <2>1. 1 \in 1..m
        BY <1>1, <1>2, <1>10
    <2>2. \A i \in Least : \E k \in 1..m : candidates[k] = i
        <3> TAKE i \in Least
        <3>1. i \in Matching /\ of(i) <= of(candidates[1]) /\ of(candidates[1]) = best /\ best <= of(i)
            BY <1>5, <1>7, <2>1
        <3>2. of(i) = best
            BY <1>4, <1>6, <3>1
        <3> QED
            BY <1>5, <3>1, <3>2
    <2>3. \A k \in 1..m : candidates[k] \in Least
        BY <1>5, <1>7
    <2> QED
        BY <2>2, <2>3
<1> QED
    BY <1>8, <1>9, <1>10 DEF m

LEMMA OrderHolds == BindingInv => OrderIrrelevant
<1> SUFFICES ASSUME BindingInv PROVE OrderIrrelevant
    OBVIOUS
<1>1. /\ candidates \in Seq(1..Len(overloads)) /\ Len(candidates) \in Nat
      /\ DOMAIN candidates = 1..Len(candidates)
      /\ \A k, l \in 1..Len(candidates) : candidates[k] = candidates[l] => k = l
    BY DEF BindingInv, BindingTypes, Ranking
<1>2. call = "called" => Least = {candidates[1]}
    <2> SUFFICES ASSUME call = "called" PROVE Least = {candidates[1]}
        OBVIOUS
    <2>1. Len(candidates) = 1 /\ 1..1 = {1}
        BY DEF BindingInv, Phase
    <2>2. candidates # <<>>
        BY <2>1
    <2> QED
        BY <2>1, <2>2, CandidatesAreLeast
<1>3. call = "nomatch" => Matching = {}
    BY CandidatesAreLeast DEF BindingInv, Phase
<1>4. call = "ambiguous" => Cardinality(Least) > 1 /\ Range(candidates) = Least
    <2> SUFFICES ASSUME call = "ambiguous" PROVE Cardinality(Least) > 1 /\ Range(candidates) = Least
        OBVIOUS
    <2>1. Len(candidates) > 1
        BY DEF BindingInv, Phase
    <2>2. candidates # <<>> /\ 1 \in 1..Len(candidates) /\ 2 \in 1..Len(candidates)
        BY <1>1, <2>1
    <2>3. Least = {candidates[k] : k \in 1..Len(candidates)} /\ IsFiniteSet(Least)
        BY <2>2, CandidatesAreLeast
    <2>4. Range(candidates) = Least
        BY <1>1, <2>3 DEF Range
    <2>5. candidates[1] \in Least /\ candidates[2] \in Least /\ candidates[1] # candidates[2]
        BY <1>1, <2>2, <2>3
    <2>6. Cardinality(Least) \in Nat
        BY <2>3, FS_CardinalityType
    <2>7. Cardinality(Least) # 0
        BY <2>3, <2>5, FS_EmptySet
    <2>8. Cardinality(Least) # 1
        <3>1. ~\E x : Least = {x}
            BY <2>5
        <3> QED
            BY <2>3, <3>1, FS_Singleton
    <2>9. \A c \in Nat : c # 0 /\ c # 1 => c > 1
        OBVIOUS
    <2> QED
        BY <2>4, <2>6, <2>7, <2>8, <2>9
<1> QED
    BY <1>2, <1>3, <1>4 DEF OrderIrrelevant

LEMMA ReceivedHolds == BindingInv => ReceivedFits
<1> SUFFICES ASSUME BindingInv, call = "called", NEW i \in DOMAIN received
             PROVE  LET p == Called[i] IN
                    IF received[i] = "NULL" THEN args[i].object = "NULL" /\ args[i].type = p.type
                    ELSE IF p.form \in {"pointer", "ref_ptr"} THEN <<received[i], p.type>> \in IsA
                    ELSE received[i] = p.type
    BY DEF ReceivedFits
<1>1. /\ Len(candidates) = 1 /\ args \in Seq(LuaValues)
      /\ received = [j \in DOMAIN args |-> From(args[j], overloads[candidates[1]][j])]
    BY DEF BindingInv, BindingTypes, Phase
<1>2. i \in 1..Len(args) /\ received[i] = From(args[i], Called[i])
    BY <1>1 DEF Called
<1>3. 1 \in 1..Len(candidates)
    BY <1>1
<1>4. args[i] \in LuaValues /\ Called[i] \in Parameters /\ Match(args[i], Called[i]) >= 0
    BY <1>2, <1>3, CandidateMatches DEF Called
<1> QED
    BY <1>2, <1>4, Converted

LEMMA EntriesOf ==
    ASSUME NEW S
    PROVE  \A q \in Seq(S) : DOMAIN q = 1..Len(q) /\ \A j \in DOMAIN q : q[j] \in S
OBVIOUS

\* What an error says of a parameter: the parameter, and what it is presented as.
LEMMA StringIs ==
    ASSUME NEW p \in Parameters
    PROVE  TypeToString(p) = IF p.form \in {"pointer", "ref_ptr"} THEN <<"[osgLuaBind object]", p>>
                             ELSE IF p.form = "value" THEN <<"[osgLuaBind value]", p>>
                             ELSE <<"", p>>
<1>1. CASE p.form \in {"pointer", "ref_ptr"} /\ p.type \in Classes
    BY <1>1, TypesApart DEF TypeToString, ReferenceToString
<1>2. CASE p.form = "value" /\ p.type \in IsOSGValue
    <2>1. p.type \notin Classes /\ p.form # "ref_ptr"
        BY <1>2, TypesApart
    <2> QED
        BY <1>2, <2>1 DEF TypeToString, ValueToString
<1>3. CASE p.form = "number" /\ p.type = "number"
    <2>1. p.type \notin Classes /\ p.type \notin IsOSGValue /\ p.form # "ref_ptr"
        BY <1>3, TypesApart
    <2> QED
        BY <1>3, <2>1 DEF TypeToString
<1> QED
    BY <1>1, <1>2, <1>3, ParameterIs

\* A parameter presented as an osgLuaBind one takes at least a value of its own
\* type: for a reference a null pointer.
LEMMA PresentedTakes ==
    ASSUME NEW p \in Parameters, p.form # "number", p # [form |-> "pointer", type |-> Base]
    PROVE  \E v \in LuaValues : v.kind = "osg" /\ Match(v, p) >= 0
<1>1. CASE p.form \in {"pointer", "ref_ptr"} /\ p.type \in Classes
    <2> DEFINE v == [kind |-> "osg", type |-> p.type, object |-> "NULL"]
    <2>1. v \in LuaValues /\ v.kind = "osg" /\ v.type = p.type
        BY <1>1 DEF LuaValues
    <2>2. p = [form |-> p.form, type |-> p.type]
        BY ParameterIs
    <2>3. IsReference(p)
        BY <1>1, <2>2 DEF IsReference, Classes
    <2> HIDE DEF v
    <2>4. Match(v, p) = 2
        BY <2>1, <2>3 DEF Match, ReferenceScore, ComputeScore
    <2> QED
        BY <2>1, <2>4
<1>2. CASE p.form = "value" /\ p.type \in IsOSGValue
    <2> DEFINE v == [kind |-> "osg", type |-> p.type, object |-> p.type]
    <2>1. v \in LuaValues /\ v.kind = "osg" /\ v.type = p.type
        BY <1>2 DEF LuaValues
    <2>2. ~IsReference(p) /\ IsValue(p)
        BY <1>2 DEF IsReference, IsValue
    <2> HIDE DEF v
    <2>3. Match(v, p) = 2
        BY <2>1, <2>2 DEF Match, ValueScore, ComputeScore
    <2> QED
        BY <2>1, <2>3
<1> QED
    BY <1>1, <1>2, ParameterIs

LEMMA PresentedHolds == BindingInv => PresentedAsConverted
<1> SUFFICES ASSUME BindingInv, NEW i \in DOMAIN report, NEW k \in DOMAIN report[i],
                    report[i][k][1] # "",
                    report[i][k][2] # [form |-> "pointer", type |-> Base]
             PROVE  \E v \in LuaValues : v.kind = "osg" /\ Match(v, report[i][k][2]) >= 0
    BY DEF PresentedAsConverted
<1>1. PICK chosen : Names(chosen)
    BY ReportIs
<1>2. i \in 1..Len(report)
    BY ReportIs
<1> DEFINE s == overloads[chosen[i]]
           p == s[k]
<1>3. /\ chosen[i] \in 1..Len(overloads) /\ report[i] = FormatSignature(s)
      /\ overloads \in Seq(Signatures) /\ Signatures \subseteq Seq(Parameters)
    BY <1>1, <1>2, OsgBindingAssumption DEF Names, BindingInv, BindingTypes
<1>4. s \in Seq(Parameters)
    <2>1. s \in Signatures
        BY <1>3, EntriesOf, Zenon
    <2> HIDE DEF s
    <2> QED
        BY <1>3, <2>1
<1> HIDE DEF s
<1>5. k \in DOMAIN s /\ report[i][k] = TypeToString(p)
    BY <1>3 DEF FormatSignature
<1>6. p \in Parameters
    BY <1>4, <1>5, EntriesOf, Zenon DEF p
<1> DEFINE text == TypeToString(p)
<1> HIDE DEF p
<1>7. text = IF p.form \in {"pointer", "ref_ptr"} THEN <<"[osgLuaBind object]", p>>
             ELSE IF p.form = "value" THEN <<"[osgLuaBind value]", p>>
             ELSE <<"", p>>
    BY <1>6, StringIs
<1>8. report[i][k] = text /\ text[1] # "" /\ text[2] # [form |-> "pointer", type |-> Base]
    BY <1>5
<1> HIDE DEF text
<1>9. text[2] = p /\ p.form # "number"
    <2>1. CASE text = <<"[osgLuaBind object]", p>> /\ p.form \in {"pointer", "ref_ptr"}
        BY <2>1
    <2>2. CASE text = <<"[osgLuaBind value]", p>> /\ p.form = "value"
        BY <2>2
    <2>3. CASE text = <<"", p>>
        <3>1. text[1] = ""
            BY <2>3
        <3> QED
            BY <1>8, <3>1
    <2> QED
        BY <1>7, <2>1, <2>2, <2>3
<1> QED
    BY <1>6, <1>8, <1>9, PresentedTakes

\* Whatever is registered, in whatever order: a call goes to the one overload of
\* the least score with values of its parameters' types, and an error names all that
\* tie, or all, as what scripts can pass (osgLuaBind.h:58-96, 145-220, 258-290).
THEOREM OverloadsCorrect == BindingSpec => []OverloadsResolve
<1>1. BindingInv => OverloadsResolve
    BY OrderHolds, ReceivedHolds, PresentedHolds DEF OverloadsResolve
<1> QED
    BY <1>1, BindingStart, BindingStep, PTL DEF BindingSpec
=============================================================================
