------------------------------- MODULE S3k -------------------------------
(***************************************************************************)
(* The s3k kernel as the monitor and the app use it (the kernel itself is  *)
(* not part of this repository, so everything here is external): one       *)
(* capability table per process, one channel per direction on which a      *)
(* receiver waits and a sender hands over a message and at most one        *)
(* capability, and the heap memory both processes can reach.               *)
(*                                                                         *)
(* Waits selects what s3k_send does when nobody is receiving.  FALSE: the  *)
(* call returns and the message is gone (no caller looks at the result).   *)
(* TRUE: the sender stays in the call until the receiver comes.            *)
(***************************************************************************)
EXTENDS Integers

CONSTANTS
    NCAP,      \* capabilities per process (misc/config.h: 64)
    NChunks,   \* heap chunks of CHUNK_SIZE bytes (pmp_compatible.lds: 7)
    Content,   \* what a heap chunk may hold
    Waits      \* does s3k_send wait for a receiver?

ASSUME S3kAssumption ==
    /\ NCAP \in Nat \ {0}
    /\ NChunks \in Nat /\ NChunks >= 2
    /\ Waits \in BOOLEAN

VARIABLES
    kcap,      \* kcap[p][i]: the capability in slot i of process p
    chan,      \* chan[p]: the endpoint on which p receives
    mem,       \* mem[c]: content of heap chunk c
    started    \* has the app been resumed?

kernelVars == <<kcap, chan, mem, started>>

Proc == {"mon", "app"}
Slot == 0 .. NCAP - 1
NoSlot == -1                      \* the index -1ull: "no capability"
Chunk == 0 .. NChunks - 1
NoChunk == -1
Right == {"R", "W", "X"}
R == {"R"}
RW == {"R", "W"}
RX == {"R", "X"}

(* Capabilities.  "other" stands for the time, monitor, channel, socket   *)
(* and section capabilities, which no request ever moves.                 *)
Cap == [type : {"none", "pmp", "memory", "other"},
        chunk : Chunk \union {NoChunk}, rwx : SUBSET Right]
NoCap == [type |-> "none", chunk |-> NoChunk, rwx |-> {}]
MemoryCap == [type |-> "memory", chunk |-> NoChunk, rwx |-> {}]
OtherCap == [type |-> "other", chunk |-> NoChunk, rwx |-> {}]
Pmp(c, rwx) == [type |-> "pmp", chunk |-> c, rwx |-> rwx]

(* Messages: the four words of recv_buf/buf that matter. *)
Msg == [op : -1 .. 4, sig : Chunk \union {NoChunk}, rwx : SUBSET Right]
Status(op) == [op |-> op, sig |-> NoChunk, rwx |-> {}]

Endpoint == [st : {"idle", "wait", "got"}, slot : Slot \union {NoSlot}, msg : Msg]
Idle == [st |-> "idle", slot |-> NoSlot, msg |-> Status(0)]

Table == [Proc -> [Slot -> Cap]]

(* A table of all processes with cap put into slot i of process p. *)
Put(table, p, i, cap) == [table EXCEPT ![p] = [table[p] EXCEPT ![i] = cap]]

(* s3k_recv: p starts to wait, naming the slot for a capability. *)
Recv(p, i) ==
    /\ chan[p].st = "idle"
    /\ chan' = [chan EXCEPT ![p] = [st |-> "wait", slot |-> i, msg |-> Status(0)]]
    /\ UNCHANGED kcap

(* The capability in slot i of p moves to slot j of q when there is one   *)
(* and the destination is free; otherwise both tables stay as they are.   *)
Transfer(p, i, q, j) ==
    IF /\ i \in Slot /\ j \in Slot
       /\ kcap[p][i] # NoCap /\ kcap[q][j] = NoCap
    THEN Put(Put(kcap, p, i, NoCap), q, j, kcap[p][i])
    ELSE kcap

(* s3k_send from p to q of message m with the capability in slot i. *)
Send(p, q, m, i) ==
    \/ /\ chan[q].st = "wait"
       /\ chan' = [chan EXCEPT ![q] = [st |-> "got", slot |-> chan[q].slot, msg |-> m]]
       /\ kcap' = Transfer(p, i, q, chan[q].slot)
    \/ /\ chan[q].st # "wait"
       /\ ~ Waits
       /\ UNCHANGED <<chan, kcap>>

(* s3k_recv returns: p has its message. *)
Received(p) ==
    /\ chan[p].st = "got"
    /\ chan' = [chan EXCEPT ![p] = Idle]
    /\ UNCHANGED kcap

(* What process p may do to chunk c through its PMP capabilities. *)
Rights(p, c) ==
    UNION {kcap[p][i].rwx : i \in {j \in Slot : kcap[p][j].type = "pmp" /\ kcap[p][j].chunk = c}}
=============================================================================
