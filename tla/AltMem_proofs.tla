--------------------------- MODULE AltMem_proofs ---------------------------
(***************************************************************************)
(* The allocator for every heap, chunk size and array that satisfy         *)
(* AltMemAssumption: the chunks tile the heap and have one owner at most.  *)
(***************************************************************************)
EXTENDS AltMem, WellFoundedInduction, TLAPS

(* The first n entries lie one behind the other from Heap to end. *)
Laid(n, end) ==
    /\ end = Heap + n * CHUNK
    /\ n > 0 => end <= Stack
    /\ \A c \in 0 .. n - 1 : chunks[c].start = Heap + c * CHUNK

(* ready ends the loop with i entries; up to there all of them are free. *)
Layout ==
    /\ Laid(i, temp_counter)
    /\ ready => nchunks = i /\ ~MoreRoom
    /\ ~ready => grown = {} /\ allocs = [c \in Index |-> 0]
    /\ ~ready => \A c \in 0 .. i - 1 : ~chunks[c].occupied

AInv == TypeOK /\ Layout /\ Exclusive

-----------------------------------------------------------------------------
LEMMA Constants ==
    /\ Heap \in Nat /\ Stack \in Nat /\ CHUNK \in Nat /\ CHUNK > 0 /\ ArrayLen \in Nat
    /\ Addr \subseteq Nat
  BY AltMemAssumption

(* Chunks of lower number end before those of higher number begin. *)
LEMMA Ordered ==
    ASSUME NEW c \in Nat, NEW d \in Nat, c < d
    PROVE  Heap + c * CHUNK + CHUNK <= Heap + d * CHUNK
<1>1. CHUNK \in Nat /\ Heap \in Nat
  BY AltMemAssumption
<1>2. PICK k \in Nat : d = c + 1 + k
  <2>1. d - c - 1 \in Nat /\ d = c + 1 + (d - c - 1)
    OBVIOUS
  <2> QED BY <2>1
<1>3. d * CHUNK = c * CHUNK + CHUNK + k * CHUNK /\ k * CHUNK \in Nat
  BY <1>1, <1>2
<1>4. c * CHUNK \in Nat /\ d * CHUNK \in Nat
  BY <1>1
<1> QED BY <1>1, <1>3, <1>4

(* As long as there is room the next entry is in the array. *)
LEMMA RoomInArray ==
    ASSUME i \in Nat, temp_counter = Heap + i * CHUNK, MoreRoom
    PROVE  i \in Index
<1>1. Heap \in Nat /\ Stack \in Nat /\ CHUNK \in Nat /\ ArrayLen \in Nat
      /\ Stack <= Heap + ArrayLen * CHUNK /\ CHUNK > 0
  BY AltMemAssumption
<1>2. i * CHUNK \in Nat /\ ArrayLen * CHUNK \in Nat
  BY <1>1
<1>3. i * CHUNK + CHUNK <= ArrayLen * CHUNK
  BY <1>1, <1>2 DEF MoreRoom
<1>4. ArrayLen # i
  BY <1>1, <1>2, <1>3
<1>5. ~(ArrayLen < i)
  BY <1>1, <1>2, <1>3, Ordered
<1> QED BY <1>1, <1>4, <1>5 DEF Index

(* The first of a set of chunks is one of them, and the lowest. *)
LEMMA FirstOfLeast ==
    ASSUME NEW S \in SUBSET Nat, S # {}
    PROVE  FirstOf(S) \in S /\ \A d \in S : FirstOf(S) <= d
<1>1. \E c \in S : \A d \in S : c <= d
  <2>1. PICK c \in S : \A d \in S : ~ <<d, c>> \in OpToRel(<, Nat)
    BY NatLessThanWellFounded, WFMin, Zenon
  <2>2. \A d \in S : ~ d < c
    BY <2>1 DEF OpToRel
  <2> QED BY <2>2
<1> QED BY <1>1 DEF FirstOf

LEMMA FirstOfIn ==
    ASSUME NEW S \in SUBSET Nat, S # {}
    PROVE  FirstOf(S) \in S
  BY FirstOfLeast

(* Chunks that are laid out start at different addresses. *)
LEMMA StartsDiffer ==
    ASSUME TypeOK, Layout, ready, NEW c \in InUse, NEW d \in InUse,
           chunks[c].start = chunks[d].start
    PROVE  c = d
<1>1. c \in Nat /\ d \in Nat /\ CHUNK \in Nat \ {0} /\ Heap \in Nat
  BY AltMemAssumption DEF InUse, TypeOK
<1>2. chunks[c].start = Heap + c * CHUNK /\ chunks[d].start = Heap + d * CHUNK
  BY DEF Layout, Laid, InUse
<1>3. c * CHUNK \in Nat /\ d * CHUNK \in Nat
  BY <1>1
<1>4. ~(c < d)
  <2>1. SUFFICES ASSUME c < d PROVE FALSE
    OBVIOUS
  <2>2. Heap + c * CHUNK + CHUNK <= Heap + d * CHUNK
    BY <1>1, <2>1, Ordered
  <2>3. Heap + c * CHUNK = Heap + d * CHUNK
    BY <1>2
  <2> QED BY <1>1, <1>3, <2>2, <2>3
<1>5. ~(d < c)
  <2>1. SUFFICES ASSUME d < c PROVE FALSE
    OBVIOUS
  <2>2. Heap + d * CHUNK + CHUNK <= Heap + c * CHUNK
    BY <1>1, <2>1, Ordered
  <2>3. Heap + c * CHUNK = Heap + d * CHUNK
    BY <1>2
  <2> QED BY <1>1, <1>3, <2>2, <2>3
<1> QED BY <1>1, <1>4, <1>5

(* Marking a chunk moves none. *)
LEMMA MarkKeeps ==
    ASSUME TypeOK, Layout, NEW c \in Index, NEW b \in BOOLEAN, Mark(c, b), UNCHANGED setupVars
    PROVE  /\ chunks' \in [Index -> [start : Nat, occupied : BOOLEAN]]
           /\ Laid(i, temp_counter)'
           /\ \A d \in Index : chunks'[d].occupied = IF d = c THEN b ELSE chunks[d].occupied
<1>1. \A d \in Index : chunks'[d] = IF d = c THEN [start |-> chunks[c].start, occupied |-> b] ELSE chunks[d]
  BY DEF Mark, TypeOK
<1>2. chunks' \in [Index -> [start : Nat, occupied : BOOLEAN]]
  BY DEF Mark, TypeOK
<1>3. i \in 0 .. ArrayLen /\ ArrayLen \in Nat
  BY AltMemAssumption DEF TypeOK
<1>4. \A d \in 0 .. i - 1 : d \in Index
  BY <1>3 DEF Index
<1>5. \A d \in Index : chunks'[d].start = chunks[d].start
  BY <1>1
<1>6. Laid(i, temp_counter)'
  BY <1>4, <1>5 DEF Layout, Laid, setupVars
<1> QED BY <1>1, <1>2, <1>6

-----------------------------------------------------------------------------
LEMMA InitAInv == Init => AInv
<1> SUFFICES ASSUME Init PROVE AInv
  OBVIOUS
<1>1. TypeOK
  <2>1. chunks \in [Index -> [start : Nat, occupied : BOOLEAN]] /\ allocs \in [Index -> Nat]
    BY DEF Init
  <2>2. nchunks \in 0 .. ArrayLen /\ i \in 0 .. ArrayLen /\ temp_counter \in Nat
    BY Constants DEF Init
  <2> QED BY <2>1, <2>2 DEF Init, TypeOK
<1>2. Layout
  BY Constants DEF Init, Layout, Laid
<1>3. Exclusive
  BY DEF Init, Exclusive
<1> QED BY <1>1, <1>2, <1>3 DEF AInv

LEMMA NextAInv == AInv /\ [Next]_vars => AInv'
<1> SUFFICES ASSUME AInv, [Next]_vars PROVE AInv'
  OBVIOUS
<1>0. TypeOK /\ Layout /\ Exclusive
  BY DEF AInv
<1>i. \A c \in InUse : c \in Index
  BY <1>0, AltMemAssumption DEF TypeOK, InUse, Index
<1>1. CASE InitChunk
  <2>1. i \in Index
    BY <1>0, <1>1, RoomInArray DEF InitChunk, Layout, Laid, TypeOK
  <2>2. TypeOK'
    BY <1>0, <1>1, <2>1, AltMemAssumption DEF InitChunk, TypeOK, Index
  <2>3. Laid(i, temp_counter)'
    <3>1. i \in Nat /\ CHUNK \in Nat /\ Heap \in Nat /\ Stack \in Nat /\ temp_counter = Heap + i * CHUNK
      BY <1>0, AltMemAssumption DEF TypeOK, Layout, Laid
    <3>2. (i + 1) * CHUNK = i * CHUNK + CHUNK /\ i * CHUNK \in Nat
      BY <3>1
    <3>3. temp_counter' = Heap + i' * CHUNK
      BY <1>1, <3>1, <3>2 DEF InitChunk
    <3>4. temp_counter' <= Stack
      BY <1>1, <3>1, <3>2 DEF InitChunk, MoreRoom
    <3>5. ASSUME NEW c \in 0 .. i' - 1 PROVE chunks'[c].start = Heap + c * CHUNK
      <4>1. CASE c = i
        BY <1>0, <1>1, <2>1, <3>1, <4>1 DEF InitChunk, TypeOK
      <4>2. CASE c # i
        <5>1. c \in 0 .. i - 1
          BY <1>1, <3>1, <4>2 DEF InitChunk
        <5>2. chunks'[c] = chunks[c]
          BY <1>0, <1>1, <2>1, <4>2, <5>1, AltMemAssumption DEF InitChunk, TypeOK, Index
        <5> QED BY <1>0, <5>1, <5>2 DEF Layout, Laid
      <4> QED BY <4>1, <4>2
    <3> QED BY <3>3, <3>4, <3>5 DEF Laid
  <2>4. Layout'
    <3>1. ASSUME NEW c \in 0 .. i' - 1 PROVE ~chunks'[c].occupied
      <4>1. CASE c = i
        BY <1>0, <1>1, <2>1, <4>1 DEF InitChunk, TypeOK
      <4>2. CASE c # i
        <5>1. c \in 0 .. i - 1 /\ c \in Index
          BY <1>0, <1>1, <2>1, <4>2, AltMemAssumption DEF InitChunk, TypeOK, Index
        <5> QED BY <1>0, <1>1, <2>1, <4>2, <5>1 DEF InitChunk, TypeOK, Layout
      <4> QED BY <4>1, <4>2
    <3> QED BY <1>0, <1>1, <2>3, <3>1 DEF InitChunk, Layout
  <2>5. Exclusive'
    BY <1>0, <1>1, <2>4 DEF InitChunk, Layout, Exclusive
  <2> QED BY <2>2, <2>4, <2>5 DEF AInv
<1>2. CASE InitDone
  <2>1. TypeOK' /\ Layout'
    BY <1>0, <1>2 DEF InitDone, TypeOK, Layout, Laid, MoreRoom
  <2>2. Exclusive'
    BY <1>0, <1>2 DEF InitDone, Layout, Exclusive
  <2> QED BY <2>1, <2>2 DEF AInv
<1>3. CASE \E size \in Size : altmem_alloc(size)
  <2> DEFINE c == FirstOf(Unoccupied)
  <2>1. c \in Unoccupied
    <3>1. Unoccupied # {}
      BY <1>3 DEF altmem_alloc
    <3>2. Unoccupied \subseteq Nat
      BY <1>0, AltMemAssumption DEF TypeOK, Unoccupied, InUse
    <3> QED BY <3>1, <3>2, FirstOfIn
  <2>2. c \in Index /\ c \in InUse /\ ~chunks[c].occupied
    BY <1>i, <2>1 DEF Unoccupied
  <2> HIDE DEF c
  <2>3. Mark(c, TRUE) /\ UNCHANGED <<setupVars, grown>> /\ allocs' = [allocs EXCEPT ![c] = @ + 1] /\ ready
    BY <1>3 DEF altmem_alloc, c
  <2>4. allocs[c] = 0 /\ c \notin grown
    BY <1>0, <2>2 DEF Exclusive, TypeOK
  <2>5. TypeOK'
    <3>1. chunks' \in [Index -> [start : Nat, occupied : BOOLEAN]]
      BY <1>0, <2>2, <2>3, MarkKeeps
    <3>2. allocs' \in [Index -> Nat]
      BY <1>0, <2>2, <2>3 DEF TypeOK
    <3> QED BY <1>0, <2>3, <3>1, <3>2 DEF TypeOK, setupVars
  <2>6. Layout'
    BY <1>0, <2>2, <2>3, MarkKeeps DEF Layout, setupVars, MoreRoom
  <2>7. Exclusive'
    <3>1. \A d \in Index : chunks'[d].occupied = IF d = c THEN TRUE ELSE chunks[d].occupied
      BY <1>0, <2>2, <2>3, MarkKeeps
    <3>2. \A d \in Index : allocs'[d] = IF d = c THEN 1 ELSE allocs[d]
      BY <1>0, <2>2, <2>3, <2>4 DEF TypeOK
    <3>3. InUse' = InUse /\ grown' = grown
      BY <2>3 DEF setupVars, InUse
    <3> SUFFICES ASSUME NEW d \in Index
                 PROVE  /\ allocs'[d] <= 1
                        /\ allocs'[d] = 1 => d \notin grown
                        /\ allocs'[d] = 1 \/ d \in grown => d \in InUse /\ chunks'[d].occupied
      BY <3>3 DEF Exclusive
    <3>4. CASE d = c
      <4>1. chunks'[c].occupied
        BY <2>2, <3>1
      <4>2. allocs'[c] = 1
        BY <2>2, <3>2
      <4> QED BY <2>2, <2>4, <3>4, <4>1, <4>2
    <3>5. CASE d # c
      <4>1. chunks'[d].occupied = chunks[d].occupied /\ allocs'[d] = allocs[d]
        BY <3>1, <3>2, <3>5
      <4> QED BY <1>0, <4>1 DEF Exclusive
    <3> QED BY <3>4, <3>5
  <2> QED BY <2>5, <2>6, <2>7 DEF AInv
<1>4. CASE \E ptr \in Addr : altmem_free(ptr)
  <2>1. PICK ptr \in Addr : altmem_free(ptr)
    BY <1>4
  <2>2. PICK c \in InUse :
          /\ allocs[c] > 0 /\ ptr = chunks[c].start
          /\ allocs' = [allocs EXCEPT ![c] = @ - 1]
          /\ Mark(FirstOf({d \in InUse : chunks[d].start = ptr}), FALSE)
    BY <2>1 DEF altmem_free
  <2>3. ready /\ UNCHANGED <<setupVars, grown>>
    BY <2>1 DEF altmem_free
  <2>4. {d \in InUse : chunks[d].start = ptr} = {c}
    BY <1>0, <2>2, <2>3, StartsDiffer
  <2>5. FirstOf({c}) = c
    <3>1. FirstOf({c}) \in {c}
      BY <1>0, AltMemAssumption, FirstOfIn DEF TypeOK, InUse
    <3> QED BY <3>1
  <2>6. c \in Index /\ Mark(c, FALSE)
    BY <1>i, <2>2, <2>4, <2>5
  <2>7. allocs[c] = 1 /\ c \notin grown
    BY <1>0, <2>2, <2>6 DEF Exclusive, TypeOK
  <2>8. TypeOK'
    <3>1. chunks' \in [Index -> [start : Nat, occupied : BOOLEAN]]
      BY <1>0, <2>3, <2>6, MarkKeeps
    <3>2. allocs' \in [Index -> Nat]
      BY <1>0, <2>2, <2>6, <2>7 DEF TypeOK
    <3> QED BY <1>0, <2>3, <3>1, <3>2 DEF TypeOK, setupVars
  <2>9. Layout'
    BY <1>0, <2>3, <2>6, MarkKeeps DEF Layout, setupVars, MoreRoom
  <2>10. Exclusive'
    <3>1. \A d \in Index : chunks'[d].occupied = IF d = c THEN FALSE ELSE chunks[d].occupied
      BY <1>0, <2>3, <2>6, MarkKeeps
    <3>2. \A d \in Index : allocs'[d] = IF d = c THEN 0 ELSE allocs[d]
      BY <1>0, <2>2, <2>6, <2>7 DEF TypeOK
    <3>3. InUse' = InUse /\ grown' = grown
      BY <2>3 DEF setupVars, InUse
    <3> SUFFICES ASSUME NEW d \in Index
                 PROVE  /\ allocs'[d] <= 1
                        /\ allocs'[d] = 1 => d \notin grown
                        /\ allocs'[d] = 1 \/ d \in grown => d \in InUse /\ chunks'[d].occupied
      BY <3>3 DEF Exclusive
    <3>4. CASE d = c
      BY <2>3, <2>6, <2>7, <3>1, <3>2, <3>4
    <3>5. CASE d # c
      <4>1. chunks'[d].occupied = chunks[d].occupied /\ allocs'[d] = allocs[d]
        BY <3>1, <3>2, <3>5
      <4> QED BY <1>0, <4>1 DEF Exclusive
    <3> QED BY <3>4, <3>5
  <2> QED BY <2>8, <2>9, <2>10 DEF AInv
<1>5. CASE \E addr \in Addr : altmem_stackexpansion(addr)
  <2>1. PICK addr \in Addr : altmem_stackexpansion(addr)
    BY <1>5
  <2> DEFINE c == altmem_findchunk(addr)
  <2>2. /\ ready /\ altmem_isoccupied(c) = 0 /\ Mark(c, TRUE) /\ grown' = grown \cup {c}
        /\ UNCHANGED <<setupVars, allocs>>
    BY <2>1 DEF altmem_stackexpansion
  <2> HIDE DEF c
  <2>3. c \in InUse /\ ~chunks[c].occupied /\ c \in Index
    BY <1>i, <2>2 DEF altmem_isoccupied
  <2>4. allocs[c] # 1 /\ c \notin grown
    BY <1>0, <2>3 DEF Exclusive
  <2>5. TypeOK'
    BY <1>0, <2>2, <2>3, MarkKeeps DEF TypeOK, setupVars
  <2>6. Layout'
    BY <1>0, <2>2, <2>3, MarkKeeps DEF Layout, setupVars, MoreRoom
  <2>7. Exclusive'
    BY <1>0, <2>2, <2>3, <2>4, MarkKeeps DEF Exclusive, setupVars, InUse
  <2> QED BY <2>5, <2>6, <2>7 DEF AInv
<1>6. CASE SoftReset
  <2>1. PICK lost \in SUBSET InUse : allocs' = [c \in Index |-> IF c \in lost THEN 0 ELSE allocs[c]]
    BY <1>6 DEF SoftReset
  <2>2. ready /\ UNCHANGED <<chunks, setupVars, grown>>
    BY <1>6 DEF SoftReset
  <2>3. TypeOK' /\ Layout'
    BY <1>0, <2>1, <2>2 DEF TypeOK, Layout, Laid, setupVars, MoreRoom
  <2>4. Exclusive'
    BY <1>0, <2>1, <2>2 DEF Exclusive, setupVars, InUse
  <2> QED BY <2>3, <2>4 DEF AInv
<1>7. CASE HardReset
  <2>1. TypeOK'
    <3>1. i' \in 0 .. ArrayLen /\ temp_counter' \in Nat
      BY <1>7, Constants DEF HardReset
    <3>2. allocs' \in [Index -> Nat]
      BY <1>7 DEF HardReset
    <3> QED BY <1>0, <1>7, <3>1, <3>2 DEF HardReset, TypeOK
  <2>2. Layout'
    BY <1>7, Constants DEF HardReset, Layout, Laid
  <2>3. Exclusive'
    BY <1>7 DEF HardReset, Exclusive
  <2> QED BY <2>1, <2>2, <2>3 DEF AInv
<1>8. CASE UNCHANGED vars
  BY <1>0, <1>8 DEF vars, AInv, TypeOK, Layout, Laid, Exclusive, MoreRoom, InUse
<1> QED BY <1>1, <1>2, <1>3, <1>4, <1>5, <1>6, <1>7, <1>8 DEF Next

LEMMA AltMemInvariance == Spec => []AInv
  BY InitAInv, NextAInv, PTL DEF Spec

-----------------------------------------------------------------------------
(* No chunk ever has two owners, and none that has an owner counts as      *)
(* free, for any heap.                                                     *)
THEOREM OneOwner == Spec => []Exclusive
<1>1. AInv => Exclusive
  BY DEF AInv
<1> QED BY <1>1, AltMemInvariance, PTL

(* altmem_init stays in the array of chunks. *)
THEOREM InitInArray == Spec => []ChunksFit
<1>1. AInv => ChunksFit
  BY RoomInArray DEF AInv, TypeOK, Layout, Laid, ChunksFit
<1> QED BY <1>1, AltMemInvariance, PTL

(* When altmem_init is done the chunks fill the heap up to the stack.      *)
THEOREM ChunksTileHeap == Spec => []Tiling
<1>1. AInv => Tiling
  <2> SUFFICES ASSUME AInv, ready PROVE Tiling
    BY DEF Tiling
  <2>1. /\ nchunks = i /\ i \in Nat /\ temp_counter = Heap + i * CHUNK /\ ~MoreRoom
        /\ i > 0 => temp_counter <= Stack
        /\ \A c \in InUse : chunks[c].start = Heap + c * CHUNK
    BY AltMemAssumption DEF AInv, TypeOK, Layout, Laid, InUse
  <2>2. CHUNK \in Nat /\ Heap \in Nat /\ Stack \in Nat
    BY AltMemAssumption
  <2>3. nchunks > 0 => chunks[0].start = Heap
    BY <2>1, <2>2 DEF InUse
  <2>4. ASSUME NEW c \in InUse, c + 1 \in InUse PROVE chunks[c + 1].start = chunks[c].start + CHUNK
    <3>1. c \in Nat /\ (c + 1) * CHUNK = c * CHUNK + CHUNK /\ c * CHUNK \in Nat
      BY <2>1, <2>2 DEF InUse
    <3> QED BY <2>1, <2>2, <2>4, <3>1
  <2>5. ASSUME NEW c \in InUse PROVE chunks[c].start + CHUNK <= Stack
    <3>1. c \in Nat /\ c < i /\ i > 0
      BY <2>1 DEF InUse
    <3>2. Heap + c * CHUNK + CHUNK <= Heap + i * CHUNK
      BY <2>1, <3>1, Ordered
    <3>3. c * CHUNK \in Nat /\ i * CHUNK \in Nat
      BY <2>1, <2>2, <3>1
    <3> QED BY <2>1, <2>2, <3>1, <3>2, <3>3
  <2>6. nchunks > 0 => chunks[nchunks - 1].start + 2 * CHUNK > Stack
    <3> SUFFICES ASSUME nchunks > 0 PROVE chunks[nchunks - 1].start + 2 * CHUNK > Stack
      OBVIOUS
    <3>1. nchunks - 1 \in InUse /\ nchunks - 1 \in Nat
      BY <2>1 DEF InUse
    <3>2. (nchunks - 1) * CHUNK + CHUNK = i * CHUNK /\ i * CHUNK \in Nat /\ (nchunks - 1) * CHUNK \in Nat
      BY <2>1, <2>2, <3>1
    <3> QED BY <2>1, <2>2, <3>1, <3>2 DEF MoreRoom
  <2>7. nchunks = 0 => Heap + CHUNK > Stack
    BY <2>1, <2>2 DEF MoreRoom
  <2> QED BY <2>3, <2>4, <2>5, <2>6, <2>7 DEF Tiling
<1> QED BY <1>1, AltMemInvariance, PTL

(* Every address of a chunk is found to be in that chunk. *)
THEOREM FindIsUnique == Spec => []FindUnique
<1>1. AInv => FindUnique
  <2> SUFFICES ASSUME AInv, ready PROVE FindUnique
    BY DEF FindUnique
  <2>1. CHUNK \in Nat \ {0} /\ Heap \in Nat /\ Addr \subseteq Nat
    BY AltMemAssumption
  <2>2. \A c \in InUse : c \in Nat /\ c * CHUNK \in Nat /\ chunks[c].start = Heap + c * CHUNK
    BY <2>1 DEF AInv, TypeOK, Layout, Laid, InUse
  <2>3. ASSUME NEW c \in InUse, NEW a \in Nat, Contains(c, a) PROVE altmem_findchunk(a) = c
    <3>1. ASSUME NEW d \in InUse, Contains(d, a) PROVE c = d
      <4>1. /\ Heap + c * CHUNK <= a /\ a < Heap + c * CHUNK + CHUNK
            /\ Heap + d * CHUNK <= a /\ a < Heap + d * CHUNK + CHUNK
        BY <2>2, <2>3, <3>1 DEF Contains
      <4>2. c * CHUNK \in Nat /\ d * CHUNK \in Nat /\ c \in Nat /\ d \in Nat
        BY <2>2
      <4> DEFINE lower == c * CHUNK
      <4> DEFINE upper == d * CHUNK
      <4>3. c < d => Heap + lower + CHUNK <= Heap + upper
        BY <4>2, Ordered
      <4>4. d < c => Heap + upper + CHUNK <= Heap + lower
        BY <4>2, Ordered
      <4>5. lower \in Nat /\ upper \in Nat /\ Heap + lower <= a /\ a < Heap + lower + CHUNK
            /\ Heap + upper <= a /\ a < Heap + upper + CHUNK
        BY <4>1, <4>2
      <4> HIDE DEF lower, upper
      <4>6. ~(c < d) /\ ~(d < c)
        BY <2>1, <4>3, <4>4, <4>5
      <4> QED BY <4>2, <4>6
    <3>2. {d \in InUse : Contains(d, a)} = {c}
      BY <2>3, <3>1
    <3>3. FirstOf({c}) = c
      <4>1. FirstOf({c}) \in {c}
        BY <2>2, FirstOfIn
      <4> QED BY <4>1
    <3> QED BY <3>2, <3>3 DEF altmem_findchunk
  <2>4. ASSUME NEW c \in InUse PROVE altmem_findchunk(chunks[c].start) = c
    BY <2>1, <2>2, <2>3 DEF Contains
  <2> QED BY <2>1, <2>3, <2>4 DEF FindUnique
<1> QED BY <1>1, AltMemInvariance, PTL

-----------------------------------------------------------------------------
(* The chunks in use are those that fit between heap and stack. *)
LEMMA InUseFits ==
    ASSUME TypeOK, Layout, ready
    PROVE  InUse = Fitting
<1>1. /\ i \in Nat /\ nchunks = i /\ i <= ArrayLen /\ temp_counter = Heap + i * CHUNK
      /\ ~MoreRoom /\ (i > 0 => temp_counter <= Stack)
      /\ Heap \in Nat /\ Stack \in Nat /\ CHUNK \in Nat /\ CHUNK > 0 /\ ArrayLen \in Nat
  BY AltMemAssumption DEF TypeOK, Layout, Laid
<1>2. \A c \in Nat : (c + 1) * CHUNK = c * CHUNK + CHUNK /\ c * CHUNK \in Nat
  BY <1>1
<1>3. ASSUME NEW c \in InUse PROVE c \in Fitting
  <2>1. c \in Nat /\ c < i /\ c \in Index
    BY <1>1 DEF InUse, Index
  <2>2. Heap + c * CHUNK + CHUNK <= Heap + i * CHUNK
    BY <1>1, <2>1, Ordered
  <2>3. Heap + (c + 1) * CHUNK <= Stack
    BY <1>1, <1>2, <2>1, <2>2
  <2> QED BY <2>1, <2>3 DEF Fitting
<1>4. ASSUME NEW c \in Fitting PROVE c \in InUse
  <2>1. c \in Nat /\ Heap + (c + 1) * CHUNK <= Stack
    BY <1>1 DEF Fitting, Index
  <2>2. ~(i < c)
    <3>1. SUFFICES ASSUME i < c PROVE FALSE
      OBVIOUS
    <3>2. Heap + i * CHUNK + CHUNK <= Heap + c * CHUNK
      BY <1>1, <2>1, <3>1, Ordered
    <3> QED BY <1>1, <1>2, <2>1, <3>2 DEF MoreRoom
  <2>3. i # c
    BY <1>1, <1>2, <2>1 DEF MoreRoom
  <2> QED BY <1>1, <2>1, <2>2, <2>3 DEF InUse
<1> QED BY <1>3, <1>4

(* What is free in the array is free in the pool. *)
LEMMA FreeInPool ==
    ASSUME TypeOK, Layout, Exclusive, ready
    PROVE  Unoccupied = Pool!Free
<1>1. InUse = Fitting
  BY InUseFits
<1>2. Held = Occupied \ grown /\ OfStack = grown /\ grown \subseteq Index
  BY DEF Held, OfStack, TypeOK
<1>3. grown \subseteq Occupied
  BY <1>2 DEF Exclusive, Occupied
<1>4. Pool!Free = InUse \ Occupied
  BY <1>1, <1>2, <1>3 DEF Pool!Free
<1> QED BY <1>4 DEF Unoccupied, Occupied

(* Marking one chunk in use. *)
LEMMA MarkOccupies ==
    ASSUME TypeOK, Layout, NEW c \in InUse, c \in Index, NEW b \in BOOLEAN, Mark(c, b), UNCHANGED setupVars
    PROVE  Occupied' = IF b THEN Occupied \union {c} ELSE Occupied \ {c}
<1>1. \A d \in Index : chunks'[d].occupied = IF d = c THEN b ELSE chunks[d].occupied
  BY MarkKeeps
<1>2. InUse' = InUse /\ \A d \in InUse : d \in Index
  BY AltMemAssumption DEF setupVars, InUse, TypeOK, Index
<1> QED BY <1>1, <1>2 DEF Occupied

(* Every step of the allocator is a step of the pool, or none. *)
LEMMA PoolStep == AInv /\ [Next]_vars => [Pool!Next]_(Pool!vars)
<1> SUFFICES ASSUME AInv, [Next]_vars PROVE Pool!Next \/ (Held' = Held /\ OfStack' = OfStack)
  BY DEF Pool!vars
<1>0. TypeOK /\ Layout /\ Exclusive
  BY DEF AInv
<1>i. \A c \in InUse : c \in Index
  BY <1>0, AltMemAssumption DEF TypeOK, InUse, Index
<1>1. CASE InitChunk
  BY <1>1 DEF InitChunk, Held, OfStack
<1>2. CASE InitDone
  <2>1. ~ready /\ ready' /\ nchunks' = i /\ chunks' = chunks /\ grown' = grown
    BY <1>2 DEF InitDone
  <2>2. Occupied' = {} /\ grown = {}
    BY <1>0, <2>1 DEF Occupied, InUse, Layout
  <2> QED BY <2>1, <2>2 DEF Held, OfStack
<1>3. CASE \E size \in Size : altmem_alloc(size)
  <2> DEFINE c == FirstOf(Unoccupied)
  <2>1. ready /\ Unoccupied # {} /\ Mark(c, TRUE) /\ UNCHANGED <<setupVars, grown>>
    BY <1>3 DEF altmem_alloc
  <2>2. c \in Unoccupied /\ \A d \in Unoccupied : c <= d
    BY <1>0, <2>1, AltMemAssumption, FirstOfLeast DEF TypeOK, Unoccupied, InUse
  <2> HIDE DEF c
  <2>3. c \in InUse /\ c \in Index /\ c \notin Occupied
    BY <1>i, <2>2 DEF Unoccupied, Occupied
  <2>4. Occupied' = Occupied \union {c}
    BY <1>0, <2>1, <2>3, MarkOccupies
  <2>5. c \notin grown
    BY <1>0, <2>2, <2>3 DEF Exclusive, Unoccupied
  <2>6. Held' = Held \union {c} /\ OfStack' = OfStack
    BY <2>1, <2>4, <2>5 DEF Held, OfStack, setupVars
  <2> QED BY <1>0, <2>1, <2>2, <2>6, FreeInPool DEF Pool!Next, Pool!Take
<1>4. CASE \E ptr \in Addr : altmem_free(ptr)
  <2>1. PICK ptr \in Addr, c \in InUse :
          /\ ready /\ UNCHANGED <<setupVars, grown>>
          /\ allocs[c] > 0 /\ ptr = chunks[c].start
          /\ Mark(FirstOf({d \in InUse : chunks[d].start = ptr}), FALSE)
    BY <1>4 DEF altmem_free
  <2>2. {d \in InUse : chunks[d].start = ptr} = {c}
    BY <1>0, <2>1, StartsDiffer
  <2>3. FirstOf({c}) = c
    <3>1. FirstOf({c}) \in {c}
      BY <1>0, AltMemAssumption, FirstOfIn DEF TypeOK, InUse
    <3> QED BY <3>1
  <2>4. c \in Index /\ Mark(c, FALSE)
    BY <1>i, <2>1, <2>2, <2>3
  <2>5. c \in Occupied /\ c \notin grown
    BY <1>0, <2>1, <2>4 DEF Exclusive, TypeOK, Occupied
  <2>6. Occupied' = Occupied \ {c}
    BY <1>0, <2>1, <2>4, MarkOccupies
  <2>7. c \in Held /\ Held' = Held \ {c} /\ OfStack' = OfStack
    BY <2>1, <2>5, <2>6 DEF Held, OfStack, setupVars
  <2> QED BY <2>7 DEF Pool!Next, Pool!Release
<1>5. CASE \E addr \in Addr : altmem_stackexpansion(addr)
  <2>1. PICK addr \in Addr : altmem_stackexpansion(addr)
    BY <1>5
  <2> DEFINE c == altmem_findchunk(addr)
  <2>2. /\ ready /\ altmem_isoccupied(c) = 0 /\ Mark(c, TRUE) /\ grown' = grown \cup {c}
        /\ UNCHANGED <<setupVars, allocs>>
    BY <2>1 DEF altmem_stackexpansion
  <2> HIDE DEF c
  <2>3. c \in InUse /\ c \in Index /\ c \notin Occupied /\ c \in Unoccupied
    BY <1>i, <2>2 DEF altmem_isoccupied, Occupied, Unoccupied
  <2>4. Occupied' = Occupied \union {c}
    BY <1>0, <2>2, <2>3, MarkOccupies
  <2>5. Held' = Held /\ OfStack' = OfStack \union {c}
    BY <2>2, <2>3, <2>4 DEF Held, OfStack, setupVars
  <2> QED BY <1>0, <2>2, <2>3, <2>5, FreeInPool DEF Pool!Next, Pool!Grow
<1>6. CASE SoftReset
  BY <1>6 DEF SoftReset, setupVars, Held, OfStack, Occupied, InUse
<1>7. CASE HardReset
  BY <1>7 DEF HardReset, Held, OfStack, Pool!Next, Pool!Clear
<1>8. CASE UNCHANGED vars
  BY <1>8 DEF vars, Held, OfStack, Occupied, InUse
<1> QED BY <1>1, <1>2, <1>3, <1>4, <1>5, <1>6, <1>7, <1>8 DEF Next

(* The allocator implements a pool of the chunks that fit, for any heap.   *)
THEOREM PoolImplemented == Spec => ImplementsPool
<1>1. Init => Pool!Init
  BY DEF Init, Pool!Init, Held, OfStack
<1> QED BY <1>1, PoolStep, AltMemInvariance, PTL DEF Spec, ImplementsPool, Pool!Spec

(* Every variable stays in its range, so no index leaves the array. *)
THEOREM AltMemTypes == Spec => []TypeOK
<1>1. AInv => TypeOK
  BY DEF AInv
<1> QED BY <1>1, AltMemInvariance, PTL
=============================================================================
