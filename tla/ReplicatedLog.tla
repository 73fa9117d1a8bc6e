---------------------------- MODULE ReplicatedLog ----------------------------
(***************************************************************************)
(* What the run buffers of a cluster promise together: one log, which the  *)
(* primary writes and runs, and on every secondary a copy, which grows for *)
(* all of them at once by what the primary has not run yet.  A chunk is in *)
(* the log once; it can be in the copies more than once, as the primary    *)
(* may have to leave a chunk for a later frame, but never before or        *)
(* without being in the log, and never out of the log's order within what  *)
(* is sent at a time.  Nothing is sent to a secondary that has not run all *)
(* it has.  ClusterRunBuffer.tla implements it.                            *)
(***************************************************************************)
EXTENDS Naturals, Sequences

CONSTANTS
    Chunk,      \* the chunks that may be added
    Primary,
    Secondaries

VARIABLES
    log,        \* what the primary has accepted, oldest first
    copy,       \* copy[s]: what secondary s has been sent
    ran         \* ran[n]: how much of it node n has run

vars == <<log, copy, ran>>

Nodes == Secondaries \cup {Primary}

\* What node n has to run.
Script(n) == IF n = Primary THEN log ELSE copy[n]

Init ==
    /\ log = <<>>
    /\ copy = [s \in Secondaries |-> <<>>]
    /\ ran = [n \in Nodes |-> 0]

Accept(c) ==
    /\ \A k \in 1..Len(log) : log[k] # c
    /\ log' = Append(log, c)
    /\ UNCHANGED <<copy, ran>>

Execute(n) ==
    /\ ran[n] < Len(Script(n))
    /\ ran' = [ran EXCEPT ![n] = @ + 1]
    /\ UNCHANGED <<log, copy>>

Send ==
    /\ \A s \in Secondaries : ran[s] = Len(copy[s])
    /\ copy' = [s \in Secondaries |-> copy[s] \o SubSeq(log, ran[Primary] + 1, Len(log))]
    /\ UNCHANGED <<log, ran>>

Next ==
    \/ \E c \in Chunk : Accept(c)
    \/ \E n \in Nodes : Execute(n)
    \/ Send

Spec == Init /\ [][Next]_vars
=============================================================================
