-------------------------------- MODULE Gadgets --------------------------------
(***************************************************************************)
(* The device interfaces scripts read (Internal_DigitalInterface.cpp,      *)
(* Internal_AnalogInterface.cpp): a button and the axes of a gamepad, as   *)
(* Gadgeteer's last update before the frame left them.                     *)
(***************************************************************************)
EXTENDS Integers

CONSTANTS
    MaxReading, \* an axis reads 0..MaxReading, which stands for 0.0 .. 1.0
    Sticks      \* the positions of the stick that are looked at

Axes == {"X", "Y", "Z"}

ASSUME GadgetsAssumption ==
    /\ MaxReading \in Nat \ {0}
    /\ Sticks # {} /\ Sticks \subseteq [Axes -> 0..MaxReading]

VARIABLES
    digital,    \* gadget::Digital::State of the button
    axes,       \* what the axes read
    was         \* history: the button was down at the update before

gadgetVars == <<digital, axes, was>>

GadgetsInit ==
    /\ digital = "OFF"
    /\ axes \in Sticks
    /\ was = FALSE

\* Mutant of Pressed: the frame in which the button goes down is missed.
MutPressed == digital = "ON"

Pressed == digital \in {"TOGGLE_ON", "ON"}
JustChanged == digital \in {"TOGGLE_ON", "TOGGLE_OFF"}
JustPressed == digital = "TOGGLE_ON"
JustReleased == digital = "TOGGLE_OFF"

\* getCentered, in units of 1 / MaxReading.
Centered(axis) == 2 * axes[axis] - MaxReading

\* Gadgeteer's update of the devices, once per frame.
UpdateDevices ==
    /\ \E held \in BOOLEAN :
           digital' = CASE held /\ digital \in {"OFF", "TOGGLE_OFF"} -> "TOGGLE_ON"
                        [] held /\ digital \in {"ON", "TOGGLE_ON"} -> "ON"
                        [] ~held /\ digital \in {"ON", "TOGGLE_ON"} -> "TOGGLE_OFF"
                        [] OTHER -> "OFF"
    /\ axes' \in Sticks
    /\ was' = (digital \in {"TOGGLE_ON", "ON"})
=============================================================================
