------------------------------- MODULE LuaScript -------------------------------
(***************************************************************************)
(* The Lua state and what is bound to it (LuaScript.cpp): a state of its   *)
(* own or a borrowed one, the bindings, and modules loaded with require.   *)
(* Errors of a module are reported and answered with FALSE; that of        *)
(* vrjlua-init, which the bindings load themselves, is not looked at.      *)
(***************************************************************************)
EXTENDS LuaPath

VARIABLES
    lua,        \* "none", "open", "bound" or "closed"
    collecting, \* the garbage collector may run
    modules     \* modules loaded, with the place each came from

scriptVars == <<lua, collecting, modules>>

Module(mod, place) == <<mod, place>>

ScriptInit ==
    /\ lua = "none"
    /\ collecting = TRUE
    /\ modules = {}

Loaded(mod) == \E m \in modules : m[1] = mod

\* requireModule, when nothing goes wrong inside the module: loads it from the
\* first place that holds it, once.  The caller sees FALSE if there is none.
CanRequire(path, mod) == Loaded(mod) \/ Resolve(path, mod) # <<>>
WithModule(path, mod) ==
    IF Loaded(mod) \/ Resolve(path, mod) = <<>> THEN modules
    ELSE modules \cup {Module(mod, Resolve(path, mod))}

\* LuaGCBlock: no collection while it lives; then there is, whatever was before.
BlockCollector == collecting' = FALSE

\* Mutant of UnblockCollector: it does nothing.
MutUnblockCollector == UNCHANGED collecting

UnblockCollector == collecting' = TRUE

\* LuaScript(): a new state with the standard libraries; or the state of the
\* program that loads the library, which stops the collector itself.
OpenState ==
    /\ lua = "none"
    /\ lua' = "open"
    /\ BlockCollector
    /\ UNCHANGED <<pathVars, modules>>

\* Mutant of BoundPath: the etc directory is added before the defaults are.
MutBoundPath(p) ==
    IF p.root = NoDir THEN Updated(p)
    ELSE [p EXCEPT !.search = <<p.luaDir, Entry(Place(p.root, "etc"), TRUE)>>]

\* What the bindings make of the search path: the lua directory first, and in
\* front of it the root's etc directory.
BoundPath(p) ==
    IF p.root = NoDir THEN Updated(p)
    ELSE WithRequirePath(Updated(p), Entry(Place(p.root, "etc"), TRUE))

\* Mutant of ApplyBindings: vrjlua-init is required before the path is set.
MutApplyBindings ==
    /\ lua = "open"
    /\ lua' = "bound"
    /\ LET p == BoundPath(Instance("none"))
       IN  /\ lp' = p
           /\ packagePath' = PackagePathOf(p)
           /\ modelPath' = WithAssets(p)
           /\ modules' = WithModule(packagePath, "vrjlua-init")
    /\ UnblockCollector
    /\ UNCHANGED disk

\* _applyBindings: the path, the libraries (the last of them adds the asset
\* directories), then vrjlua-init, whatever becomes of it.
ApplyBindings ==
    /\ lua = "open"
    /\ lua' = "bound"
    /\ LET p == BoundPath(Instance("none"))
       IN  /\ lp' = p
           /\ packagePath' = PackagePathOf(p)
           /\ modelPath' = WithAssets(p)
           /\ modules' = WithModule(PackagePathOf(p), "vrjlua-init")
    /\ UnblockCollector
    /\ UNCHANGED disk

\* bindOsgToLua: the wrappers for OSG cannot be loaded.  An exception ends the
\* process; a plain failure is a Lua error outside of any protected call, or in
\* vrjlua's, which closes the state.
WrappersFail ==
    /\ lua = "open"
    /\ lua' \in {"open", "closed"}
    /\ UNCHANGED <<pathVars, collecting, modules>>

\* require of a module of ours.
Require(mod) ==
    /\ modules' = WithModule(packagePath, mod)
    /\ UNCHANGED <<pathVars, lua, collecting>>

CloseState ==
    /\ lua' = "closed"
    /\ UNCHANGED <<pathVars, collecting, modules>>
=============================================================================
