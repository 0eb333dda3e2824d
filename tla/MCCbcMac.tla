----------------------------- MODULE MCCbcMac -----------------------------
(* CbcMac for TLC: all ciphers on four blocks, messages of three blocks.   *)
EXTENDS CbcMac
=============================================================================
