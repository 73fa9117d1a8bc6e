-------------------------------- MODULE Testbed --------------------------------
(***************************************************************************)
(* The start-up script of the navigation testbed (osgnav-testbed.lua): it  *)
(* goes through the command line, one argument a step, sets the node's     *)
(* role, collects configuration files and hands Lua files to the run       *)
(* buffer; then it loads the configuration, or the fallback.               *)
(***************************************************************************)
EXTENDS KernelState, LuaScript

CONSTANT MaxArgs    \* bound: arguments on the command line

ASSUME TestbedAssumption == MaxArgs \in Nat

VARIABLES
    testbed,        \* "off", "parsing", "done", "failed" (error), "exited" (os.exit)
    args,           \* the arguments seen so far
    sawPrimary,     \* local isPrimary
    sawSecondary,   \* local isSecondary
    jconfs,         \* configuration files named
    files,          \* Lua files added to the run buffer
    rest            \* newarg: what is left for the user's scripts

testbedVars == <<testbed, args, sawPrimary, sawSecondary, jconfs, files, rest>>

Arguments == {"primary", "secondary", "help", "jconf", "lua", "other"}

\* A jconf file is known by its place on the command line.
Config(kind, i) == <<kind, i>>

TestbedInit ==
    /\ testbed = "off"
    /\ args = <<>>
    /\ sawPrimary = FALSE
    /\ sawSecondary = FALSE
    /\ jconfs = <<>>
    /\ files = <<>>
    /\ rest = <<>>

\* require("osgnav-testbed"): without the table "arg" the loop over it raises.
TestbedBegins(hasArg) ==
    /\ testbed = "off"
    /\ testbed' = IF hasArg THEN "parsing" ELSE "failed"
    /\ UNCHANGED <<args, sawPrimary, sawSecondary, jconfs, files, rest>>

\* --cluster-primary, --vrjmaster: isSecondary is an undefined global here, as
\* the local of that name is declared below the function.
ArgPrimary ==
    /\ InitAs(Primary)
    /\ UNCHANGED <<juggler, kernel, configs, started>>
    /\ sawPrimary' = TRUE
    /\ UNCHANGED <<testbed, sawSecondary, jconfs, files, rest>>

\* Mutant of ArgSecondary: it is as blind to the other role as ArgPrimary is.
MutArgSecondary ==
    /\ InitAs(Secondary)
    /\ UNCHANGED <<juggler, kernel, configs, started>>
    /\ sawSecondary' = TRUE
    /\ UNCHANGED <<testbed, sawPrimary, jconfs, files, rest>>

\* --cluster-secondary, --vrjslave: not on a primary node.
ArgSecondary ==
    IF sawPrimary
    THEN /\ testbed' = "exited"
         /\ UNCHANGED <<kernelVars, sawPrimary, sawSecondary, jconfs, files, rest>>
    ELSE /\ InitAsSecondaryDefaultPort
         /\ UNCHANGED <<juggler, kernel, configs, started>>
         /\ sawSecondary' = TRUE
         /\ UNCHANGED <<testbed, sawPrimary, jconfs, files, rest>>

\* --help: usage() prints the head and then goes through the global optionFlags,
\* which is nil.
ArgHelp ==
    /\ testbed' = "failed"
    /\ UNCHANGED <<kernelVars, sawPrimary, sawSecondary, jconfs, files, rest>>

\* A file, by its extension, or something for the user's scripts.
ArgFile(argument) ==
    /\ jconfs' = IF argument = "jconf" THEN Append(jconfs, Len(args) + 1) ELSE jconfs
    /\ files' = IF argument = "lua" THEN Append(files, Len(args) + 1) ELSE files
    /\ rest' = IF argument = "other" THEN Append(rest, Len(args) + 1) ELSE rest
    /\ UNCHANGED <<kernelVars, testbed, sawPrimary, sawSecondary>>

ParseArgument ==
    /\ testbed = "parsing"
    /\ Len(args) < MaxArgs
    /\ \E argument \in Arguments :
           /\ args' = Append(args, argument)
           /\ CASE argument = "primary" -> ArgPrimary
                [] argument = "secondary" -> ArgSecondary
                [] argument = "help" -> ArgHelp
                [] OTHER -> ArgFile(argument)
    /\ UNCHANGED <<pathVars, scriptVars>>

\* Mutant of Configure: a jconf does not disable the fallback.
MutConfigure ==
    IF sawSecondary
    THEN UNCHANGED <<kernelVars, modules>>
    ELSE /\ LoadConfigFile(Config("fallback", 0))
         /\ modules' = WithModule(packagePath, "vrjlua-config")

\* The end of the script: a secondary skips the configuration, jconf files
\* disable the fallback, and vrjlua-config comes from wherever require finds it.
Configure ==
    IF sawSecondary
    THEN UNCHANGED <<kernelVars, modules>>
    ELSE IF jconfs # <<>>
    THEN /\ configs' = configs \o [i \in DOMAIN jconfs |-> Config("jconf", jconfs[i])]
         /\ UNCHANGED <<juggler, roleVars, kernel, started, modules>>
    ELSE /\ LoadConfigFile(Config("fallback", 0))
         /\ modules' = WithModule(packagePath, "vrjlua-config")

TestbedEnds ==
    /\ testbed = "parsing"
    /\ IF sawSecondary \/ jconfs # <<>> \/ CanRequire(packagePath, "vrjlua-config")
       THEN testbed' = "done" /\ Configure
       ELSE testbed' = "failed" /\ UNCHANGED <<kernelVars, modules>>
    /\ UNCHANGED <<pathVars, lua, collecting, args, sawPrimary, sawSecondary, jconfs, files, rest>>
=============================================================================
