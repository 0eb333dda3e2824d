------------------------------ MODULE AltMem ------------------------------
(***************************************************************************)
(* app/altmem.c with its addresses: the loop that divides the heap into    *)
(* chunks, first-fit allocation, the search for the chunk of an address,   *)
(* and the stack that grows into the heap.  Module App keeps only which    *)
(* chunks are occupied; this module shows that chunks may be treated so.   *)
(***************************************************************************)
EXTENDS Integers

CONSTANTS
    Heap, Stack,  \* the linker's symbols _heap and _stack
    CHUNK,        \* CHUNK_SIZE
    ArrayLen,     \* APP_SIZE / CHUNK_SIZE
    Addr, Size    \* the pointers and the sizes a caller may pass

ASSUME AltMemAssumption ==
    /\ Heap \in Nat /\ Stack \in Nat /\ CHUNK \in Nat \ {0} /\ ArrayLen \in Nat
    /\ CHUNK <= Stack
    /\ Stack <= Heap + ArrayLen * CHUNK
    /\ Addr \subseteq Nat /\ Size \subseteq Nat

VARIABLES
    chunks, nchunks,  \* the array and how much of it is in use
    i, temp_counter,  \* altmem_init: next entry and its address
    ready,            \* altmem_init has returned
    allocs,           \* allocs[c]: callers of altmem_alloc that hold chunk c
    grown             \* chunks that the stack has grown into

vars == <<chunks, nchunks, i, temp_counter, ready, allocs, grown>>
setupVars == <<nchunks, i, temp_counter, ready>>

Index == 0 .. ArrayLen - 1
InUse == 0 .. nchunks - 1
FirstOf(S) == CHOOSE c \in S : \A d \in S : c <= d

Init ==
    /\ chunks = [c \in Index |-> [start |-> 0, occupied |-> FALSE]]
    /\ nchunks = 0
    /\ i = 0 /\ temp_counter = Heap
    /\ ready = FALSE
    /\ allocs = [c \in Index |-> 0]
    /\ grown = {}

(* Mutant: the bound lacks the size of a chunk. *)
MoreRoomBeyond == temp_counter <= Stack

(* Mutant: the last chunk that fits is left out. *)
MoreRoomStrict == temp_counter < Stack - CHUNK

(* The bound is computed on 64-bit addresses: see CHUNK <= Stack. *)
MoreRoom == temp_counter <= Stack - CHUNK

(* Mutant: the mark that the entry has from before a reset stays. *)
InitChunkKeeps ==
    /\ ~ready /\ MoreRoom
    /\ chunks' = [chunks EXCEPT ![i].start = temp_counter]
    /\ i' = i + 1
    /\ temp_counter' = temp_counter + CHUNK
    /\ UNCHANGED <<nchunks, ready, allocs, grown>>

InitChunk ==
    /\ ~ready /\ MoreRoom
    /\ chunks' = [chunks EXCEPT ![i] = [start |-> temp_counter, occupied |-> FALSE]]
    /\ i' = i + 1
    /\ temp_counter' = temp_counter + CHUNK
    /\ UNCHANGED <<nchunks, ready, allocs, grown>>

InitDone ==
    /\ ~ready /\ ~MoreRoom
    /\ nchunks' = i
    /\ ready' = TRUE
    /\ UNCHANGED <<chunks, i, temp_counter, allocs, grown>>

(* Mutant: the end of a chunk belongs to it. *)
ContainsEnd(c, addr) == chunks[c].start <= addr /\ addr <= chunks[c].start + CHUNK

(* altmem_findchunk: the first chunk with addr in it, or -1. *)
Contains(c, addr) == chunks[c].start <= addr /\ addr < chunks[c].start + CHUNK
altmem_findchunk(addr) ==
    LET S == {c \in InUse : Contains(c, addr)} IN IF S = {} THEN -1 ELSE FirstOf(S)

altmem_isoccupied(c) ==
    IF c \notin InUse THEN -1 ELSE IF chunks[c].occupied THEN 1 ELSE 0

Unoccupied == {c \in InUse : ~chunks[c].occupied}
Mark(c, b) == chunks' = [chunks EXCEPT ![c].occupied = b]

(* A larger request, or one without a free chunk, gets NULL and changes    *)
(* nothing.                                                                *)
altmem_alloc(size) ==
    /\ ready /\ size <= CHUNK /\ Unoccupied # {}
    /\ LET c == FirstOf(Unoccupied) IN
         /\ Mark(c, TRUE)
         /\ allocs' = [allocs EXCEPT ![c] = @ + 1]
    /\ UNCHANGED <<setupVars, grown>>

(* A caller gives back what it holds: the first chunk with this start. *)
altmem_free(ptr) ==
    /\ ready
    /\ \E holder \in InUse :
         /\ allocs[holder] > 0 /\ ptr = chunks[holder].start
         /\ allocs' = [allocs EXCEPT ![holder] = @ - 1]
         /\ Mark(FirstOf({c \in InUse : chunks[c].start = ptr}), FALSE)
    /\ UNCHANGED <<setupVars, grown>>

(* Mutant: any chunk will do, altmem_isoccupied(i) == -1. *)
altmem_stackexpansionAny(addr) ==
    LET c == altmem_findchunk(addr) IN
    /\ ready /\ altmem_isoccupied(c) # -1
    /\ Mark(c, TRUE)
    /\ grown' = grown \cup {c}
    /\ UNCHANGED <<setupVars, allocs>>

(* The trap handler, for a stack pointer below the stack. *)
altmem_stackexpansion(addr) ==
    LET c == altmem_findchunk(addr) IN
    /\ ready /\ altmem_isoccupied(c) = 0
    /\ Mark(c, TRUE)
    /\ grown' = grown \cup {c}
    /\ UNCHANGED <<setupVars, allocs>>

(* th_softreset: the stack is emptied and execution goes on in loop(),     *)
(* which has lost some of the pointers it held; the chunks stay occupied.  *)
SoftReset ==
    /\ ready
    /\ \E lost \in SUBSET InUse :
         allocs' = [c \in Index |-> IF c \in lost THEN 0 ELSE allocs[c]]
    /\ UNCHANGED <<chunks, setupVars, grown>>

(* th_hardreset: setup() divides the heap again, nothing is held. *)
HardReset ==
    /\ ready /\ ready' = FALSE
    /\ i' = 0 /\ temp_counter' = Heap
    /\ allocs' = [c \in Index |-> 0]
    /\ grown' = {}
    /\ UNCHANGED <<chunks, nchunks>>

Next ==
    \/ InitChunk \/ InitDone
    \/ \E size \in Size : altmem_alloc(size)
    \/ \E ptr \in Addr : altmem_free(ptr)
    \/ \E addr \in Addr : altmem_stackexpansion(addr)
    \/ SoftReset \/ HardReset

Spec == Init /\ [][Next]_vars

-----------------------------------------------------------------------------
(* Every variable stays in its range (the declarations of altmem.c). *)
TypeOK ==
    /\ chunks \in [Index -> [start : Nat, occupied : BOOLEAN]]
    /\ nchunks \in 0 .. ArrayLen
    /\ i \in 0 .. ArrayLen /\ temp_counter \in Nat
    /\ ready \in BOOLEAN
    /\ allocs \in [Index -> Nat]
    /\ grown \subseteq Index

(* altmem_init never writes behind the array, whatever the linker places   *)
(* between _heap and _stack (altmem.c 14, 20-25).                          *)
ChunksFit == ~ready /\ MoreRoom => i \in Index

(* The chunks lie one behind the other in the heap, none reaches into the  *)
(* stack, and no room for another one is left: what monitor.c and the      *)
(* linker script take the same region to be (altmem_init).                 *)
Tiling ==
    ready =>
        /\ nchunks > 0 => chunks[0].start = Heap
        /\ \A c \in InUse : c + 1 \in InUse => chunks[c + 1].start = chunks[c].start + CHUNK
        /\ \A c \in InUse : chunks[c].start + CHUNK <= Stack
        /\ nchunks > 0 => chunks[nchunks - 1].start + 2 * CHUNK > Stack
        /\ nchunks = 0 => Heap + CHUNK > Stack

(* An address is in one chunk at most: the search cannot depend on where   *)
(* it begins, and a start address leads back to its chunk, which free and  *)
(* the trap handler rely on (altmem_findchunk, altmem_free).               *)
FindUnique ==
    ready => \A c \in InUse :
        /\ altmem_findchunk(chunks[c].start) = c
        /\ \A a \in Addr : Contains(c, a) => altmem_findchunk(a) = c

(* Nobody shares a chunk: it is with one caller, or with the stack, or     *)
(* free, and what is with somebody is marked as occupied, across resets    *)
(* (altmem_alloc, altmem_free, altmem_stackexpansion).                     *)
Exclusive ==
    \A c \in Index :
        /\ allocs[c] <= 1
        /\ allocs[c] = 1 => c \notin grown
        /\ allocs[c] = 1 \/ c \in grown => c \in InUse /\ chunks[c].occupied

(* Addresses, marks and the search for free chunks implement a pool: what  *)
(* a caller or the stack gets was free, alloc takes the lowest, free gives *)
(* back no chunk but the caller's, and a hard reset, which divides the     *)
(* heap again over the marks of before, leaves no chunk occupied.  Chunks  *)
(* whose pointer a soft reset has lost stay held.                          *)
Fitting == {c \in Index : Heap + (c + 1) * CHUNK <= Stack}
Occupied == {c \in InUse : chunks[c].occupied}
Held == IF ready THEN Occupied \ grown ELSE {}
OfStack == IF ready THEN grown ELSE {}
Pool == INSTANCE ChunkPool WITH Chunks <- Fitting, held <- Held, stack <- OfStack
ImplementsPool == Pool!Spec
=============================================================================
