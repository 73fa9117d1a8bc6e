------------------------------ MODULE ChunkQueue ------------------------------
(***************************************************************************)
(* What a run buffer promises to the threads that feed it: a bounded FIFO  *)
(* of script chunks.  A chunk is accepted once and only while there is     *)
(* room, nothing that was accepted is ever dropped or overtaken, and one   *)
(* chunk at a time is taken off the front and executed.                    *)
(* This is the contract LuaRunBuffer.h and SynchronizedRunBuffer.h offer;  *)
(* RunBuffer.tla, the translation of LuaRunBuffer.cpp, implements it.      *)
(***************************************************************************)
EXTENDS Naturals, Sequences

CONSTANTS
    Chunk,      \* the chunks that may be offered
    Capacity    \* how many chunks may be pending

VARIABLES
    pending,    \* accepted, not yet taken
    current,    \* <<c>> while chunk c is executing, <<>> otherwise
    executed    \* the chunks executed so far, oldest first

vars == <<pending, current, executed>>

Init ==
    /\ pending = <<>>
    /\ current = <<>>
    /\ executed = <<>>

Accept(c) ==
    /\ Len(pending) < Capacity
    /\ pending' = Append(pending, c)
    /\ UNCHANGED <<current, executed>>

Take ==
    /\ current = <<>>
    /\ pending # <<>>
    /\ current' = <<Head(pending)>>
    /\ pending' = Tail(pending)
    /\ UNCHANGED executed

Finish ==
    /\ current # <<>>
    /\ executed' = executed \o current
    /\ current' = <<>>
    /\ UNCHANGED pending

Next ==
    \/ \E c \in Chunk : Accept(c)
    \/ Take
    \/ Finish

Spec == Init /\ [][Next]_vars
=============================================================================
