------------------------------ MODULE CbcMac ------------------------------
(***************************************************************************)
(* aes128_cbc_mac, the signature of the app and of new code, one           *)
(* encryption at a time.  The block cipher is any permutation of a small   *)
(* set of blocks: what AES does to a block plays no part here.             *)
(***************************************************************************)
EXTENDS Integers, Sequences, Functions, Bitwise

CONSTANTS Bits, MaxBlocks   \* bits of a block (128), blocks of a message

Block == 0 .. 2 ^ Bits - 1

VARIABLES
    enc,   \* the cipher under the key of calc_sig
    buf,   \* the message: buf[1] is its first block
    mac,   \* the MAC so far
    i,     \* the block of the loop index; 0 before the first encryption
    done

vars == <<enc, buf, mac, i, done>>

Init ==
    /\ enc \in Bijection(Block, Block)
    /\ buf \in UNION {[1 .. n -> Block] : n \in 1 .. MaxBlocks}
    /\ mac = 0 /\ i = 0
    /\ done = FALSE

FirstBlock ==
    /\ i = 0 /\ i' = 2
    /\ mac' = enc[buf[1]]
    /\ UNCHANGED <<enc, buf, done>>

(* xorblock(mac, &buf[i - 16]): the block before the one at i. *)
NextBlock ==
    /\ i >= 2 /\ i <= Len(buf) /\ i' = i + 1
    /\ mac' = enc[mac ^^ buf[i - 1]]
    /\ UNCHANGED <<enc, buf, done>>

Return ==
    /\ ~done /\ i > Len(buf) /\ done' = TRUE
    /\ UNCHANGED <<enc, buf, mac, i>>

Next == FirstBlock \/ NextBlock \/ Return

Spec == Init /\ [][Next]_vars
-----------------------------------------------------------------------------
(* The CBC-MAC of the first n blocks of a message under the cipher e. *)
CbcMacOf(e, message) ==
    LET chain[n \in 0 .. Len(message)] ==
            IF n = 0 THEN 0 ELSE e[chain[n - 1] ^^ message[n]]
    IN chain[Len(message)]

(* "CBC-MAC with AES." (inc/aes128.h, of aes128_cbc_mac): every block is   *)
(* mixed in once, in its turn.                                             *)
IsCbcMac == done => mac = CbcMacOf(enc, buf)
=============================================================================
