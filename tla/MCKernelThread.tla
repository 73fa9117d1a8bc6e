---------------------------- MODULE MCKernelThread -----------------------------
(***************************************************************************)
(* Four components of the kernel thread that share no state, checked       *)
(* together: a behaviour is one of them, from one of its initial states,   *)
(* while the others stay where they are.                                   *)
(*                                                                         *)
(* FrameLoop: two delegates with every choice of callbacks.                *)
(* FrameActions: three actions that wait for one frame or second at most,  *)
(* or two that wait for longer, with deltas that overshoot.                *)
(* Navigator: four ticks to full speed, two to stop, two in a second.      *)
(* OsgBinding: up to three overloads out of eight, with the classes Object, *)
(* Node and Group, each derived from the one before, and three value types.*)
(***************************************************************************)
EXTENDS FrameLoop, FrameActions, Navigator, OsgBinding, TLC

VARIABLE part   \* the component that this behaviour is of

\* Delegates are interchangeable, and so are actions.
Symmetry == Permutations(Delegates) \union Permutations(Action)

-----------------------------------------------------------------------------
\* The stick at rest, and half way to a side.
MCSticks == {[X |-> 2, Y |-> 2, Z |-> 2], [X |-> 3, Y |-> 2, Z |-> 2]}
MCScriptGoals == {-4, 0, 2}

MCDerived == {"Node", "Group"}
MCConversions == {<<"Vec3f", "Vec3d">>, <<"Vec3d", "Vec3f">>}
MCIsA == {<<"Object", "Object">>, <<"Node", "Node">>, <<"Group", "Group">>,
          <<"Node", "Object">>, <<"Group", "Node">>, <<"Group", "Object">>}
MCDirect == {<<"Group", "Node">>}

Pointer(t) == [form |-> "pointer", type |-> t]
RefPtr(t) == [form |-> "ref_ptr", type |-> t]
Val(t) == [form |-> "value", type |-> t]
Number == [form |-> "number", type |-> "number"]

MCSignatures ==
    {<<Pointer("Node")>>, <<Pointer("Group")>>, <<Pointer("Object")>>,
     <<RefPtr("Object")>>, <<Val("Vec3f")>>, <<Val("Vec3d")>>, <<Val("Vec3d"), Number>>,
     <<Pointer("Node"), Val("Vec3d")>>}

MCArguments ==
    {<<v>> : v \in LuaValues}
    \union {<<v, w>> : v \in {u \in LuaValues : u.type \in {"Vec3d", "Node", "Group"}},
                       w \in {u \in LuaValues : u.type \in {"Vec3f", "number"}}}

-----------------------------------------------------------------------------
\* A component whose behaviour this is not has one initial state.
MCInit ==
    /\ part \in {"loop", "actions", "waits", "navigator", "binding"}
    /\ Init /\ ActionsInit /\ NavInit /\ BindingInit
    /\ part # "loop" => defines = [d \in Delegates |-> {}]
    /\ part # "navigator" => use = "wand" /\ scriptGoal = 0 /\ AtRest

Loop ==
    /\ part = "loop"
    /\ UNCHANGED <<part, actionVars, navigatorVars, bindingVars>>
Actions ==
    /\ part \in {"actions", "waits"}
    /\ UNCHANGED <<part, vars, navigatorVars, bindingVars>>
Moves ==
    /\ part = "navigator"
    /\ UNCHANGED <<part, vars, actionVars, bindingVars>>
Binds ==
    /\ part = "binding"
    /\ UNCHANGED <<part, vars, actionVars, navigatorVars>>

\* Bounds: three actions over three frames, or two actions over all of them.
FewFrames == part = "actions" => frame < 3
SmallDelta == part = "actions" => timeDelta' <= 1
ShortWait(n) == part = "actions" => n <= 1
TwoActions == part = "waits" => Cardinality({a \in Action : status[a] # "unborn"}) < 2

\* The next-state relations, action by action.
MCNext ==
    \/ \E d \in Delegates : Loop /\ SetAppDelegate(d)
    \/ Loop /\ SetActiveApplication
    \/ Loop /\ StopKernel
    \/ Loop /\ StartKernel
    \/ Loop /\ InitScene
    \/ Loop /\ PreFrame
    \/ Loop /\ BailOut
    \/ \E kind \in FrameCalls \ {"preFrame"} : Loop /\ FrameCall(kind)
    \/ Loop /\ Returns
    \/ Loop /\ Raises
    \/ Loop /\ RaisesNoString
    \/ Loop /\ FrameEnd
    \/ Loop /\ Destroy
    \/ Actions /\ FewFrames /\ BeginFrame /\ SmallDelta
    \/ Actions /\ UpdateBegins
    \/ Actions /\ UpdateEnds
    \/ \E a \in Action :
        \/ Actions /\ TwoActions /\ AddFrameAction(a)
        \/ Actions /\ RemoveFrameAction(a)
        \/ Actions /\ Resume(a)
        \/ \E n \in 1..MaxWait : Actions /\ ShortWait(n) /\ WaitForRedraw(a, n)
        \/ \E s \in 1..MaxWait : Actions /\ ShortWait(s) /\ WaitSeconds(a, s)
        \/ Actions /\ Ends(a)
    \/ Moves /\ NewFrame
    \/ Moves /\ Navigate
    \/ Moves /\ SetScriptGoal
    \/ Moves /\ UseOther
    \/ Binds /\ Register
    \/ Binds /\ Call
    \/ Binds /\ ScoreOne
    \/ Binds /\ Invoke
    \/ Binds /\ Fail
    \/ Binds /\ Return

MCSpec == MCInit /\ [][MCNext]_<<part, vars, actionVars, navigatorVars, bindingVars>>
=============================================================================
