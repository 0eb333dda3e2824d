--------------------------- MODULE MCTestSuite ---------------------------
(* TestSuite for TLC: the masks of config.h, all tests, and every choice   *)
(* of the tests that use the heap.                                         *)
EXTENDS TestSuite

MCMasks == {1 .. 4, {8, 9}, Tests} \union SUBSET {5, 6, 7, 9}
=============================================================================
