----------------------------- MODULE TargetStream -----------------------------
(***************************************************************************)
(* What a node expects of its generator: the targets come in ascending     *)
(* order with none left out, and a run that follows another one does not   *)
(* begin behind a target nobody has handed out.                            *)
(***************************************************************************)
EXTENDS Integers

VARIABLES
    stream,     \* the targets of the node
    origin,     \* where its first run begins
    open,       \* a run is handing out targets
    from,       \* where the run began
    handed,     \* what it has handed out
    ever,       \* what any run has handed out
    complete    \* the run has reached the end of the stream

streamVars == <<stream, origin, open, from, handed, ever, complete>>

\* The targets of the run that are still to come.
Rest == {x \in stream : x >= from} \ handed

StreamInit ==
    /\ open = FALSE /\ from = origin /\ handed = {} /\ ever = {} /\ complete = FALSE

\* A run begins: at the origin, or where nothing before it is missing.
Begin ==
    /\ ~open
    /\ open' = TRUE /\ handed' = {} /\ complete' = FALSE
    /\ from' \in Nat
    /\ {x \in stream : origin <= x /\ x < from'} \subseteq ever
    /\ UNCHANGED <<stream, origin, ever>>

\* The next target.
Hand ==
    /\ open
    /\ \E x \in Rest :
         /\ \A y \in Rest : x <= y
         /\ handed' = handed \cup {x} /\ ever' = ever \cup {x}
    /\ UNCHANGED <<stream, origin, open, from, complete>>

\* The run ends: with the stream, at a limit, by a stop or a crash.
Cease ==
    /\ open /\ open' = FALSE
    /\ complete' => Rest = {}
    /\ complete' \in BOOLEAN
    /\ UNCHANGED <<stream, origin, from, handed, ever>>

StreamNext == Begin \/ Hand \/ Cease

StreamSpec == StreamInit /\ [][StreamNext]_streamVars
=============================================================================
