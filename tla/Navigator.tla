------------------------------- MODULE Navigator -------------------------------
(***************************************************************************)
(* The navigator (lua/Navigator.lua): once per frame it moves the user     *)
(* along the wand while its button is pressed, or along the stick of a     *)
(* gamepad, or turns them at a rate that a script gives.  Velocities are   *)
(* eased: they approach their goal at a limited rate.                      *)
(*                                                                         *)
(* A navigator has one ease for its translation and one for its rotation;  *)
(* they share nothing but the frames, and the module follows one of them.  *)
(* Time is counted in ticks, velocities in units per tick.  The time delta *)
(* of a frame is never negative (FrameLoop).                               *)
(***************************************************************************)
EXTENDS Gadgets, FiniteSetsExt

CONSTANTS
    MaxVel,         \* max_vel or max_rot_vel
    TicksToMax,     \* seconds_to_max
    TicksToStop,    \* seconds_to_stop
    OneSecond,      \* the ticks of a second
    MaxFrameTicks,  \* bound: the longest frame
    ScriptGoals     \* the velocities that scripts ask for

ASSUME NavigatorAssumption ==
    /\ {MaxVel, TicksToMax, TicksToStop, OneSecond} \subseteq Nat \ {0}
    /\ MaxFrameTicks \in Nat
    /\ MaxVel % TicksToMax = 0 /\ MaxVel % TicksToStop = 0
    /\ ScriptGoals \subseteq -MaxVel..MaxVel

Acceleration == MaxVel \div TicksToMax
Deceleration == MaxVel \div TicksToStop

VARIABLES
    use,        \* where the goal comes from: "wand", "gamepad" or "script"
    scriptGoal, \* what a script's getGoalRotVel or getGoalVel returns
    vel,        \* ease.vel
    step,       \* "devices" or "navigate": what this frame does next
    moved,      \* how far the last frame went
    ramp,       \* history: since the goal last changed, the velocity at that
                \* time, and the ticks, each frame's clamped as the code does
    glided,     \* history: the way since the goal became 0
    stalled     \* history: a frame took longer than a second since then

navVars == <<use, scriptGoal, vel, step, moved, ramp, glided, stalled>>
navigatorVars == <<gadgetVars, navVars>>

NavInit ==
    /\ GadgetsInit
    /\ use \in {"wand", "gamepad", "script"}
    /\ scriptGoal \in ScriptGoals
    /\ vel = 0
    /\ step = "devices"
    /\ moved = 0
    /\ ramp = [goal |-> 0, from |-> 0, ticks |-> 0]
    /\ glided = 0
    /\ stalled = FALSE

-----------------------------------------------------------------------------
Clamped(dt) == IF dt > OneSecond THEN OneSecond ELSE dt

\* Mutant of Eased: nothing is done against overshooting when speeding up.
MutEased(v, goal, dt) ==
    IF v < goal THEN v + Acceleration * Clamped(dt)
    ELSE IF v > goal THEN Max({goal, v - Deceleration * Clamped(dt)})
    ELSE v

\* Towards a goal that is not negative: faster by the acceleration, slower by
\* the deceleration, and not past the goal.
Eased(v, goal, dt) ==
    IF v < goal THEN Min({goal, v + Acceleration * Clamped(dt)})
    ELSE IF v > goal THEN Max({goal, v - Deceleration * Clamped(dt)})
    ELSE v

\* Mutant of UpdatedVelocity: the goal is flipped and the velocity is not.
MutUpdatedVelocity(v, goal, dt) ==
    IF goal < 0 THEN -Eased(v, -goal, dt) ELSE Eased(v, goal, dt)

\* ease:getUpdatedVelocity: a negative goal is approached in the mirror.
UpdatedVelocity(v, goal, dt) ==
    IF goal < 0 THEN -Eased(-v, -goal, dt) ELSE Eased(v, goal, dt)

AtRest == \A axis \in Axes : Centered(axis) = 0

\* nav:getTransVector: the wand always points somewhere, a stick at rest nowhere.
HasDirection == use = "gamepad" => ~AtRest

\* nav:getGoalVel: the button is all or nothing, and so is the stick, as its
\* vector is normalised before its length is taken for the "analog control".
GoalVel ==
    CASE use = "wand" -> IF Pressed THEN MaxVel ELSE 0
      [] use = "gamepad" -> IF AtRest THEN 0 ELSE MaxVel
      [] OTHER -> scriptGoal

\* The history of a velocity that approaches a goal.
Ramp(goal, dt) ==
    IF goal = ramp.goal
    THEN [ramp EXCEPT !.ticks = Min({@ + Clamped(dt), 2 * TicksToMax + TicksToStop})]
    ELSE [goal |-> goal, from |-> vel, ticks |-> Clamped(dt)]

\* Mutant of Way: the velocity of the frame before.
MutWay(dt) == dt * vel

\* nav:getTranslation, getRotation: this frame's new velocity for all of this
\* frame's time, which is not clamped.
Way(dt) == dt * vel'

\* One frame of the standard navigation action, or of a state's update.
Navigate ==
    /\ step = "navigate"
    /\ step' = "devices"
    /\ \E dt \in 0..MaxFrameTicks :
        /\ vel' = UpdatedVelocity(vel, GoalVel, dt)
        /\ moved' = IF HasDirection THEN Way(dt) ELSE 0
        /\ ramp' = Ramp(GoalVel, dt)
        /\ glided' = CASE GoalVel # 0 -> 0
                       [] GoalVel = 0 /\ ramp.goal # 0 -> moved'
                       [] OTHER -> glided + moved'
        /\ stalled' = (GoalVel = 0 /\ ((stalled /\ ramp.goal = 0) \/ dt > OneSecond))
    /\ UNCHANGED <<use, scriptGoal, gadgetVars>>

\* The script asks for another velocity.
SetScriptGoal ==
    /\ step = "devices" /\ use = "script"
    /\ scriptGoal' \in ScriptGoals
    /\ UNCHANGED <<use, vel, step, moved, ramp, glided, stalled, gadgetVars>>

\* useWandTranslation or useGamepadTranslation is called, or a script defines
\* getGoalVel itself.
UseOther ==
    /\ step = "devices"
    /\ use' \in {"wand", "gamepad", "script"} \ {use}
    /\ UNCHANGED <<scriptGoal, vel, step, moved, ramp, glided, stalled, gadgetVars>>

NewFrame ==
    /\ step = "devices"
    /\ step' = "navigate"
    /\ UpdateDevices
    /\ UNCHANGED <<use, scriptGoal, vel, moved, ramp, glided, stalled>>

NavNext == NewFrame \/ Navigate \/ SetScriptGoal \/ UseOther

NavSpec == NavInit /\ [][NavNext]_navigatorVars

-----------------------------------------------------------------------------
Abs(i) == IF i < 0 THEN -i ELSE i

\* The type invariant; among others, no velocity exceeds its maximum.
NavTypeOK ==
    /\ digital \in {"OFF", "ON", "TOGGLE_ON", "TOGGLE_OFF"}
    /\ axes \in Sticks /\ was \in BOOLEAN
    /\ use \in {"wand", "gamepad", "script"} /\ step \in {"devices", "navigate"}
    /\ scriptGoal \in ScriptGoals
    /\ vel \in -MaxVel..MaxVel
    /\ Abs(moved) <= MaxFrameTicks * MaxVel
    /\ glided \in Int /\ stalled \in BOOLEAN

\* What a velocity is after the ticks of a ramp, in one formula.
RampAfter(r) ==
    LET sign == IF r.goal < 0 THEN -1 ELSE 1
        goal == sign * r.goal
        from == sign * r.from
    IN  sign * (IF from < goal THEN Min({goal, from + Acceleration * r.ticks})
                ELSE Max({goal, from - Deceleration * r.ticks}))

\* Easing does not depend on the frame rate: however the time since the goal
\* last changed is divided into frames, up to a second each, the velocity is what
\* the ramp gives for their sum.  Reversing goes through zero at the rate of the
\* acceleration, and so does stopping from a negative velocity, while stopping
\* from a positive one takes the deceleration (Navigator.lua:40).
FrameRateIndependent == vel = RampAfter(ramp)

\* When the goal becomes 0 the way to a stop is no longer than that of a uniform
\* deceleration, or acceleration from a negative velocity, unless a frame takes
\* longer than a second: time is clamped for the velocity and not for the way
\* (Navigator.lua:101).
GlideBounded ==
    ramp.goal = 0 /\ ~stalled =>
        2 * (IF ramp.from < 0 THEN Acceleration ELSE Deceleration) * Abs(glided)
            <= ramp.from * ramp.from

\* Every change of the level of the button is reported as an edge, once, in the
\* frame of the change, and as nothing else.
EdgesMatchLevels ==
    step = "navigate" =>
        /\ JustChanged <=> (Pressed # was)
        /\ JustPressed <=> (Pressed /\ ~was)
        /\ JustReleased <=> (~Pressed /\ was)

\* Velocities stay within their limits and the devices tell scripts of every edge.
StateConsistent == NavTypeOK /\ EdgesMatchLevels
=============================================================================
