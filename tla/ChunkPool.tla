----------------------------- MODULE ChunkPool -----------------------------
(***************************************************************************)
(* What the chunk allocator promises to the app, without addresses, array  *)
(* or marks: a pool of chunks from which the callers and the stack take.   *)
(* Module AltMem implements it.                                            *)
(***************************************************************************)
EXTENDS Integers

CONSTANT Chunks   \* those that fit between heap and stack

VARIABLES
    held,     \* the chunks taken by callers and not released
    stack     \* the chunks that the stack has grown into

vars == <<held, stack>>

Free == Chunks \ (held \union stack)

Init == held = {} /\ stack = {}

(* A caller gets the lowest free chunk. *)
Take ==
    /\ \E c \in Free : (\A d \in Free : c <= d) /\ held' = held \union {c}
    /\ UNCHANGED stack

(* Only a chunk that a caller has comes back; the stack's never does. *)
Release ==
    /\ \E c \in held : held' = held \ {c}
    /\ UNCHANGED stack

(* The stack gets the chunk it grows into, provided that it is free. *)
Grow ==
    /\ \E c \in Free : stack' = stack \union {c}
    /\ UNCHANGED held

(* A hard reset leaves nothing behind. *)
Clear == held' = {} /\ stack' = {}

Next == Take \/ Release \/ Grow \/ Clear

Spec == Init /\ [][Next]_vars
=============================================================================
