----------------------------- MODULE Capman -----------------------------
(***************************************************************************)
(* common/capman.c: each process keeps a copy (caps) of its capability     *)
(* table and decides from the copy; only capman_update and the wrappers    *)
(* below keep copy and table in step.  IPC moves capabilities behind the   *)
(* copy's back.  Searches are relations: "the search returns i".           *)
(***************************************************************************)
EXTENDS S3k

VARIABLE caps      \* caps[p][i]: p's copy of kcap[p][i]

capman_update(p) == caps' = [caps EXCEPT ![p] = kcap[p]]

(* Mutant: the search begins at NCAP - 2. *)
capman_find_freeOffByOne(p, i) ==
    \/ /\ i \in Slot \ {NCAP - 1} /\ caps[p][i].type = "none"
       /\ \A j \in Slot \ {NCAP - 1} : j > i => caps[p][j].type # "none"
    \/ /\ i = NoSlot
       /\ \A j \in Slot \ {NCAP - 1} : caps[p][j].type # "none"

(* The highest free slot, or NoSlot: the search runs from NCAP-1 down. *)
capman_find_free(p, i) ==
    \/ /\ i \in Slot /\ caps[p][i].type = "none"
       /\ \A j \in Slot : j > i => caps[p][j].type # "none"
    \/ /\ i = NoSlot
       /\ \A j \in Slot : caps[p][j].type # "none"

(* The highest capability a PMP of the heap can be derived from. *)
find_memory_derive(p, i) ==
    \/ /\ i \in Slot /\ caps[p][i].type = "memory"
       /\ \A j \in Slot : j > i => caps[p][j].type # "memory"
    \/ /\ i = NoSlot
       /\ \A j \in Slot : caps[p][j].type # "memory"

(* The lowest PMP that shares its begin or its end with chunk c: heap PMPs *)
(* are one chunk long and no section's PMP shares an end with a chunk.     *)
SharesEnd(cap, c) == cap.type = "pmp" /\ ~ (cap.chunk # c /\ cap.chunk + 1 # c + 1)
capman_find_existing_pmp(p, c, i) ==
    \/ /\ i \in Slot /\ SharesEnd(caps[p][i], c)
       /\ \A j \in Slot : j < i => ~ SharesEnd(caps[p][j], c)
    \/ /\ i = NoSlot
       /\ \A j \in Slot : ~ SharesEnd(caps[p][j], c)

(* capman_derive_pmp succeeds when the kernel still has the source the     *)
(* copy shows and the destination is free.                                 *)
CanDerive(p, i) ==
    \E m \in Slot : find_memory_derive(p, m) /\ kcap[p][m].type = "memory" /\ kcap[p][i] = NoCap
capman_derive_pmp(p, i, c, rwx) ==
    /\ CanDerive(p, i)
    /\ kcap' = Put(kcap, p, i, Pmp(c, rwx))
    /\ \E m \in Slot :
         /\ find_memory_derive(p, m)
         /\ caps' = Put(Put(caps, p, m, kcap[p][m]), p, i, Pmp(c, rwx))

capman_delcap(p, i) ==
    /\ caps[p][i] # NoCap
    /\ kcap' = Put(kcap, p, i, NoCap)
    /\ caps' = Put(caps, p, i, NoCap)

CanMove(p, src, dst) ==
    /\ caps[p][src] # NoCap /\ caps[p][dst] = NoCap
    /\ kcap[p][src] # NoCap /\ kcap[p][dst] = NoCap
capman_move(p, src, dst) ==
    /\ CanMove(p, src, dst)
    /\ kcap' = Put(Put(kcap, p, dst, kcap[p][src]), p, src, NoCap)
    /\ caps' = Put(Put(caps, p, dst, caps[p][src]), p, src, NoCap)
=============================================================================
