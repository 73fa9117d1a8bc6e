------------------------------ MODULE KernelState ------------------------------
(***************************************************************************)
(* The kernel as scripts and programs drive it (BindKernelToLua.inl): the  *)
(* static members of KernelState, the role VR Juggler is initialised with, *)
(* start, enter, stop and the configuration files handed to it.            *)
(* vrj::Kernel itself is external: it starts a thread, and that thread     *)
(* ends some time after stop().                                            *)
(***************************************************************************)
EXTENDS Naturals, Sequences

VARIABLES
    juggler,     \* __VJ_version: 3 initialises the kernel, 2 has stubs
    initialised, \* _init
    isCluster,   \* _isCluster
    isPrimary,   \* _isPrimary
    kernel,      \* "idle", "running", "stopping" or "stopped"
    configs,     \* configuration files handed to the kernel, in order
    roles,       \* history: the roles vrj::Kernel::init was called with
    started      \* history: start() was called by a script, which went on

kernelVars == <<juggler, initialised, isCluster, isPrimary, kernel, configs, roles, started>>
roleVars == <<initialised, isCluster, isPrimary, roles>>

\* A role is the set of flags that are true: vrjmaster, vrjslave, both or none.
Single == {}
Primary == {"vrjmaster"}
Secondary == {"vrjslave"}

KernelInit ==
    /\ juggler \in {2, 3}
    /\ initialised = FALSE
    /\ isCluster = FALSE
    /\ isPrimary = FALSE
    /\ kernel = "idle"
    /\ configs = <<>>
    /\ roles = <<>>
    /\ started = FALSE

\* init(vm) by way of initAs...: a second call only warns.  With Juggler 3 a
\* single machine does not take _isCluster back.
InitAs(role) ==
    /\ initialised' = TRUE
    /\ isPrimary' = ("vrjmaster" \in role)
    /\ isCluster' = (role # Single \/ (juggler = 3 /\ isCluster))
    /\ roles' = IF juggler = 3 THEN Append(roles, role) ELSE roles

\* initAsClusterSecondaryNode() as scripts call it, with the default port.
InitAsSecondaryDefaultPort == InitAs(Secondary)

\* init() without arguments, the fallback of doStart.
InitFallback ==
    IF juggler = 3
    THEN InitAs(Single)
    ELSE initialised' = TRUE /\ UNCHANGED <<isCluster, isPrimary, roles>>

\* vrjKernel.start and the first half of vrjKernel.enter: the fallback
\* initialisation, then the kernel's thread.
DoStart(waiting) ==
    /\ kernel = "idle"
    /\ IF initialised THEN UNCHANGED roleVars ELSE InitFallback
    /\ kernel' = "running"
    /\ started' = (started \/ ~waiting)
    /\ UNCHANGED <<juggler, configs>>

\* main() starts vrj::Kernel itself, whatever KernelState says.
StartDirectly ==
    /\ kernel = "idle"
    /\ kernel' = "running"
    /\ UNCHANGED <<juggler, roleVars, configs, started>>

\* vrjKernel.stop: only asks; off the kernel's thread it sleeps two seconds first.
Stop ==
    /\ kernel' = IF kernel = "running" THEN "stopping" ELSE kernel
    /\ UNCHANGED <<juggler, roleVars, configs, started>>

Joined == kernel \in {"idle", "stopped"}     \* waitForKernelStop returns

\* Mutant of LoadConfigFile: a file takes the place of the earlier ones.
MutLoadConfigFile(fn) ==
    /\ configs' = fn
    /\ UNCHANGED <<juggler, roleVars, kernel, started>>

\* vrjKernel.loadConfigFile.
LoadConfigFile(fn) ==
    /\ configs' = Append(configs, fn)
    /\ UNCHANGED <<juggler, roleVars, kernel, started>>
=============================================================================
