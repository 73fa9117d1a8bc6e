------------------------------ MODULE Interpreter ------------------------------
(***************************************************************************)
(* The stand-alone interpreter (lua.c): LUA_INIT, the options -e and -l, a *)
(* script, then the standard input, each run by docall, which catches      *)
(* errors and, with a signal handler and a hook, interrupts.               *)
(*                                                                         *)
(* The hook is set on the main Lua thread, by a handler that runs at any   *)
(* moment, and fires at the next instruction run there.                    *)
(***************************************************************************)
EXTENDS Naturals, Sequences

CONSTANTS
    MaxOptions, \* bound: options -e and -l on the command line
    MaxLines,   \* bound: lines typed at the prompt
    MaxSigints  \* bound: times the user presses Ctrl-C

ASSUME InterpreterAssumption == {MaxOptions, MaxLines, MaxSigints} \subseteq Nat

VARIABLES
    todo,       \* the parts of the command line still to run
    call,       \* "none"; inside docall "lua", "blocked" (in a C function),
                \* "returned", "failed"; "print" (showing a line's results);
                \* "partial" (an unfinished line at the prompt)
    handler,    \* SIGINT: "default" or "laction"
    hook,       \* the hook is set
    status,     \* s.status is not 0
    lines,      \* lines run at the prompt
    sigints,    \* times SIGINT was delivered
    killed,     \* SIGINT met the default action
    failures,   \* history: parts that failed
    cut         \* history: times the hook fired

interpVars == <<todo, call, handler, hook, status, lines, sigints, killed, failures, cut>>

\* collectargs and the end of pmain: what a command line makes the program do.
\* An invalid option is noticed after LUA_INIT; the prompt comes with -i, or if
\* there was nothing else to do and the standard input is a terminal.
Parts(init, options, valid, script, i, v, tty) ==
    LET alone == script = FALSE /\ "e" \notin {options[n] : n \in DOMAIN options} /\ ~v
        input == IF i THEN <<"dotty">>
                 ELSE IF ~alone THEN <<>> ELSE IF tty THEN <<"dotty">> ELSE <<"stdin">>
    IN  (IF init THEN <<"init">> ELSE <<>>)
        \o IF valid THEN options \o (IF script THEN <<"script">> ELSE <<>>) \o input
           ELSE <<"usage">>

CommandLines ==
    {Parts(init, options, valid, script, i, v, tty) :
        init, valid, script, i, v, tty \in BOOLEAN,
        options \in UNION {[1..n -> {"e", "l"}] : n \in 0..MaxOptions}}

InterpreterInit ==
    /\ call = "none"
    /\ handler = "default"
    /\ hook = FALSE
    /\ status = FALSE
    /\ lines = 0
    /\ sigints = 0
    /\ killed = FALSE
    /\ failures = {}
    /\ cut = 0

Doing(part) == todo # <<>> /\ Head(todo) = part /\ ~killed

\* A part that fails ends the program with failure, but for the standard input
\* read as a file, whose status is dropped, and for lines at the prompt.
PartFails ==
    LET stops == Head(todo) \in {"init", "usage", "e", "l", "script"}
    IN  /\ todo' = CASE stops -> <<>> [] Head(todo) = "dotty" -> todo [] OTHER -> Tail(todo)
        /\ status' = (status \/ stops)
        /\ failures' = failures \cup {Head(todo)}

\* Mutant of PartOver: the error of an option does not stop the program.
MutPartOver(ok) ==
    /\ todo' = IF Head(todo) = "dotty" THEN todo ELSE Tail(todo)
    /\ UNCHANGED status
    /\ failures' = IF ok THEN failures ELSE failures \cup {Head(todo)}

\* A part is over; the prompt goes on until its input ends.
PartOver(ok) ==
    IF ok THEN /\ todo' = IF Head(todo) = "dotty" THEN todo ELSE Tail(todo)
               /\ UNCHANGED <<status, failures>>
    ELSE PartFails

\* A part that fails before docall.
Fails(part) ==
    /\ call = "none" /\ Doing(part)
    /\ PartOver(FALSE)
    /\ UNCHANGED <<call, handler, hook, lines, sigints, killed, cut>>

\* print_usage: the command line is invalid.
Usage == Fails("usage")

\* dofile, dostring: the chunk does not compile.
ChunkFailsToLoad == \E part \in {"init", "e", "stdin"} : Fails(part)

\* handle_script: the table arg is there all the same.
ScriptFailsToLoad == Fails("script")

\* A line at the prompt that does not compile, alone or with those before it.
LineFailsToLoad ==
    /\ call \in {"none", "partial"} /\ Doing("dotty") /\ lines < MaxLines
    /\ lines' = lines + 1
    /\ call' = "none"
    /\ PartOver(FALSE)
    /\ UNCHANGED <<handler, hook, sigints, killed, cut>>

FailsToLoad == Usage \/ ChunkFailsToLoad \/ ScriptFailsToLoad \/ LineFailsToLoad

\* incomplete: the message says that the end of the input came too early, and
\* loadline reads on, with the second prompt.
ReadsOn ==
    /\ call = "none" /\ Doing("dotty") /\ lines < MaxLines
    /\ call' = "partial"
    /\ UNCHANGED <<todo, handler, hook, status, lines, sigints, killed, failures, cut>>

\* docall: the handler, then the protected call.
DoCall ==
    /\ call' = "lua"
    /\ handler' = "laction"
    /\ UNCHANGED <<todo, hook, status, sigints, killed, failures, cut>>

\* dofile, dostring.
ChunkBegins ==
    /\ call = "none" /\ \E part \in {"init", "e", "stdin"} : Doing(part)
    /\ DoCall
    /\ UNCHANGED lines

\* dolibrary: require is called, and it is there that loading fails.
LibraryBegins ==
    /\ call = "none" /\ Doing("l")
    /\ DoCall
    /\ UNCHANGED lines

\* handle_script: the script gets the arguments that follow its name.
ScriptBegins ==
    /\ call = "none" /\ Doing("script")
    /\ DoCall
    /\ UNCHANGED lines

\* dotty: a line, or the end of an unfinished one.
LineBegins ==
    /\ call \in {"none", "partial"} /\ Doing("dotty") /\ lines < MaxLines
    /\ DoCall
    /\ lines' = lines + 1

CallBegins == ChunkBegins \/ LibraryBegins \/ ScriptBegins \/ LineBegins

\* The chunk comes to its end; the hook would fire first.
ChunkReturns ==
    /\ call = "lua" /\ ~hook /\ ~killed
    /\ call' = "returned"
    /\ UNCHANGED <<todo, handler, hook, status, lines, sigints, killed, failures, cut>>

\* An error, to which traceback adds where it comes from if it is a string: that is
\* Lua code too, in which the hook may fire before the call is over.
ChunkRaises ==
    /\ call = "lua" /\ ~killed
    /\ hook' \in {hook, FALSE}
    /\ cut' = IF hook /\ ~hook' THEN cut + 1 ELSE cut
    /\ call' = "failed"
    /\ UNCHANGED <<todo, handler, status, lines, sigints, killed, failures>>

\* Mutant of Interrupted: the hook is not removed.
MutInterrupted ==
    /\ call \in {"lua", "print"} /\ hook /\ ~killed
    /\ cut' = cut + 1
    /\ call' \in IF call = "lua" THEN {"lua", "failed"} ELSE {"none"}
    /\ UNCHANGED <<todo, handler, hook, status, lines, sigints, killed, failures>>

\* lstop: the hook fires, removes itself and raises "interrupted!", which ends
\* the chunk unless the chunk catches it with a pcall of its own.
Interrupted ==
    /\ call \in {"lua", "print"} /\ hook /\ ~killed
    /\ hook' = FALSE
    /\ cut' = cut + 1
    /\ call' \in IF call = "lua" THEN {"lua", "failed"} ELSE {"none"}
    /\ UNCHANGED <<todo, handler, status, lines, sigints, killed, failures>>

\* Mutant of CallEnds: the handler stays.
MutCallEnds ==
    /\ call \in {"returned", "failed"} /\ ~killed
    /\ call' = IF call = "returned" /\ Doing("dotty") THEN "print" ELSE "none"
    /\ PartOver(call = "returned")
    /\ UNCHANGED <<handler, hook, lines, sigints, killed, cut>>

\* docall puts the default action back and leaves the hook as it is.  At the
\* prompt, what a line returned is printed, in a protected call of its own.
CallEnds ==
    /\ call \in {"returned", "failed"} /\ ~killed
    /\ handler' = "default"
    /\ call' = IF call = "returned" /\ Doing("dotty") THEN "print" ELSE "none"
    /\ PartOver(call = "returned")
    /\ UNCHANGED <<hook, lines, sigints, killed, cut>>

ShowsResults ==
    /\ call = "print" /\ ~hook /\ ~killed
    /\ call' = "none"
    /\ UNCHANGED <<todo, handler, hook, status, lines, sigints, killed, failures, cut>>

\* The end of the input at the prompt, where an unfinished line is dropped.
InputEnds ==
    /\ call \in {"none", "partial"} /\ Doing("dotty")
    /\ todo' = <<>>
    /\ call' = "none"
    /\ UNCHANGED <<handler, hook, status, lines, sigints, killed, failures, cut>>

\* Ctrl-C, on any thread: laction, once, or the default action.
Sigint ==
    /\ ~killed /\ sigints < MaxSigints
    /\ sigints' = sigints + 1
    /\ IF handler = "laction"
       THEN handler' = "default" /\ hook' = TRUE /\ UNCHANGED killed
       ELSE killed' = TRUE /\ UNCHANGED <<handler, hook>>
    /\ UNCHANGED <<todo, call, status, lines, failures, cut>>
=============================================================================
