---------------------------- MODULE HeapPolicy ----------------------------
(***************************************************************************)
(* What the monitor promises about the heap, without messages, slots or    *)
(* copies: each guarded chunk has one capability, which is with the app or *)
(* with the monitor.  The app uses it only while it has it and hands over  *)
(* one at a time; it comes back as it was, or for writing, or for          *)
(* execution of signed content.                                            *)
(***************************************************************************)
CONSTANTS
    Chunk,     \* the heap's chunks
    Guarded,   \* those a capability exists for
    Content,   \* what a chunk may hold
    Signed     \* the contents with a valid signature

VARIABLES
    holder,    \* holder[c]: who has the capability of guarded chunk c
    rights,    \* rights[c]: the rights it carries
    content    \* content[c]: what chunk c holds

policyVars == <<holder, rights, content>>

Init ==
    /\ holder = [c \in Guarded |-> "app"]
    /\ rights = [c \in Guarded |-> {"R"}]
    /\ content \in [Chunk -> Content]

Write(c, v) ==
    /\ holder[c] = "app" /\ "W" \in rights[c]
    /\ content' = [content EXCEPT ![c] = v]
    /\ UNCHANGED <<holder, rights>>

Surrender(c) ==
    /\ \A d \in Guarded : holder[d] = "app"
    /\ holder' = [holder EXCEPT ![c] = "mon"]
    /\ UNCHANGED <<rights, content>>

Return(c, rwx) ==
    /\ holder[c] = "mon"
    /\ \/ rwx = rights[c]
       \/ rwx = {"R", "W"}
       \/ rwx = {"R", "X"} /\ content[c] \in Signed
    /\ holder' = [holder EXCEPT ![c] = "app"]
    /\ rights' = [rights EXCEPT ![c] = rwx]
    /\ UNCHANGED content

Next ==
    \E c \in Guarded :
        \/ \E v \in Content : Write(c, v)
        \/ Surrender(c)
        \/ \E rwx \in SUBSET {"R", "W", "X"} : Return(c, rwx)

Spec == Init /\ [][Next]_policyVars

(* Executable content is signed content, and W and X exclude each other. *)
PolicySafe ==
    \A c \in Guarded :
        /\ "X" \in rights[c] => content[c] \in Signed
        /\ ~ {"W", "X"} \subseteq rights[c]
=============================================================================
