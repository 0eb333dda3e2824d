---------------------------- MODULE MCAppHeader ----------------------------
(* AppHeader for TLC: the sections of pmp_compatible.lds with the          *)
(* permissions of getsections.py; binaries of one block and of two, with   *)
(* and without a last block that is complete.                              *)
EXTENDS AppHeader, SequencesExt

text   == <<46, 116, 101, 120, 116>>
data   == <<46, 100, 97, 116, 97>>
rodata == <<46, 114, 111, 100, 97, 116, 97>>
bss    == <<46, 98, 115, 115>>
heap   == <<46, 104, 101, 97, 112>>
stack  == <<46, 115, 116, 97, 99, 107>>

Listed == <<text, data, rodata, bss, heap, stack>>
MCNames == ToSet(Listed)
MCFound == {SelectSeq(Listed, LAMBDA n : n \in S) : S \in SUBSET MCNames}

Place(offset, size, rwx) == [offset |-> offset, size |-> size, rwx |-> rwx]
MCLayout ==
    text   :> Place(0, 8192, 5)      @@ data :> Place(8192, 8192, 3)   @@
    rodata :> Place(16384, 8192, 1)  @@ bss  :> Place(24576, 8192, 3)  @@
    heap   :> Place(32768, 28672, 1) @@ stack :> Place(61440, 4096, 3)

MCBinaries == {<< >>, << "w1", "w2" >>, << "w1", "w2", "w3" >>, << "w1", "w2", "w3", "w4" >>}
=============================================================================
