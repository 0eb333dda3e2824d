----------------------------- MODULE MCAltMem -----------------------------
(* AltMem for TLC: chunks that fill the heap and the array, and addresses  *)
(* from below the heap to above the stack.                                 *)
EXTENDS AltMem

MCAddr == 0 .. 18
MCSize == {1, 3, 4}
=============================================================================
