------------------------------- MODULE App -------------------------------
(***************************************************************************)
(* The app: setup and loop of app/app.c, the trap handler of app/trap.c    *)
(* and the chunk allocator of app/altmem.c.  What the application code     *)
(* itself does between two exceptions (allocate, free, write, fault        *)
(* anywhere, finish) is input: any of it may happen at any time.           *)
(***************************************************************************)
EXTENDS Capman

CONSTANTS
    HeapSlot0,    \* the app's slot for the first heap PMP (4 in the code)
    OtherFaults   \* do exceptions other than 1, 5 and 7 occur?

(* setup_app gives the app a PMP for the first and the last chunk only. *)
PmpChunk == {0, NChunks - 1}
HeapSlot(c) == IF c = 0 THEN HeapSlot0 ELSE HeapSlot0 + 1

ASSUME AppAssumption ==
    /\ HeapSlot0 \in Slot /\ HeapSlot0 + 1 \in Slot
    /\ OtherFaults \in BOOLEAN

VARIABLES
    apc,       \* where the app is
    buf,       \* the message of the request being made
    occupied,  \* chunks[c].occupied
    idx        \* the capability index of the request being made

appVars == <<apc, buf, occupied, idx>>

AppPc == {"setup", "setup_send", "run", "req_send", "req_recv", "req_got", "ok_send",
          "soft_send", "hard_send", "hard_ok_send", "end_send", "end"}
TrapPc == {"req_send", "req_recv", "req_got", "ok_send", "soft_send", "hard_send", "hard_ok_send"}

AppInit ==
    /\ apc = "setup"
    /\ buf = Status(0)
    /\ occupied = [c \in Chunk |-> FALSE]
    /\ idx = NoSlot

AppGoto(pc) == apc' = pc

(* setup() up to the first send: copy of the capabilities, empty allocator. *)
ASetup ==
    /\ apc = "setup" /\ started /\ AppGoto("setup_send")
    /\ capman_update("app")
    /\ occupied' = [c \in Chunk |-> FALSE]
    /\ UNCHANGED <<kernelVars, buf, idx>>

(* The sends that carry no request: -1 after setup and at the end, a       *)
(* status at the end of a trap.                                            *)
SendStatus(from, op, to) ==
    /\ apc = from /\ AppGoto(to)
    /\ Send("app", "mon", Status(op), NoSlot)
    /\ UNCHANGED <<mem, started, caps, buf, occupied, idx>>

ASetupSend == SendStatus("setup_send", -1, "run")
AOkSend == SendStatus("ok_send", 0, "run")
ASoftSend == SendStatus("soft_send", 1, "run")          \* EPC = loop
AHardSend == SendStatus("hard_send", 1, "hard_ok_send") \* EPC = setup, then falls through
AHardOkSend == SendStatus("hard_ok_send", 0, "setup")
AEndSend == SendStatus("end_send", -1, "end")

(* The application code at work. *)
AllocAt(c) ==
    /\ apc = "run"
    /\ ~ occupied[c] /\ \A d \in Chunk : d < c => occupied[d]
    /\ occupied' = [occupied EXCEPT ![c] = TRUE]
    /\ UNCHANGED <<kernelVars, caps, apc, buf, idx>>

FreeAt(c) ==
    /\ apc = "run"
    /\ occupied' = [occupied EXCEPT ![c] = FALSE]
    /\ UNCHANGED <<kernelVars, caps, apc, buf, idx>>

WriteAt(c, v) ==
    /\ apc = "run"
    /\ "W" \in Rights("app", c)
    /\ mem' = [mem EXCEPT ![c] = v]
    /\ UNCHANGED <<kcap, chan, started, caps, appVars>>

AAlloc == \E c \in Chunk : AllocAt(c)
AFree == \E c \in Chunk : FreeAt(c)
AWrite == \E c \in Chunk, v \in Content : WriteAt(c, v)

AFinish ==
    /\ apc = "run" /\ AppGoto("end_send")
    /\ UNCHANGED <<kernelVars, caps, buf, occupied, idx>>

(* loop() after its last message. *)
AYield ==
    /\ apc = "end"
    /\ UNCHANGED <<kernelVars, caps, appVars>>

(* An access outside the heap (code, data, other memory). *)
Outside == NoChunk
Denied(r, c) == c \in Chunk => r \notin Rights("app", c)

(* th_updatepmp_rw and th_updatepmp_rx up to the send: sig is the address  *)
(* of the signed code, absent in a request for RW.                         *)
PrepareRequest(c, sig, rwx) ==
    /\ \E i \in Slot \union {NoSlot} : capman_find_existing_pmp("app", c, i) /\ idx' = i
    /\ buf' = [op |-> 2, sig |-> sig, rwx |-> rwx]
    /\ AppGoto("req_send")

SoftReset == AppGoto("soft_send") /\ UNCHANGED <<buf, idx>>

(* Mutant: the check that the chunk is allocated is missing. *)
FetchFaultUnchecked(c) ==
    /\ apc = "run" /\ Denied("X", c)
    /\ IF c \in Chunk THEN PrepareRequest(c, c, RX) ELSE SoftReset
    /\ UNCHANGED <<kernelVars, caps, occupied>>

(* ecause 1: only an allocated chunk may become executable. *)
FetchFault(c) ==
    /\ apc = "run" /\ Denied("X", c)
    /\ IF c \in Chunk /\ occupied[c] THEN PrepareRequest(c, c, RX) ELSE SoftReset
    /\ UNCHANGED <<kernelVars, caps, occupied>>
AFetchFault == \E c \in Chunk \union {Outside} : FetchFault(c)

(* ecause 5 *)
ALoadFault ==
    /\ apc = "run"
    /\ \E c \in Chunk \union {Outside} : Denied("R", c)
    /\ SoftReset
    /\ UNCHANGED <<kernelVars, caps, occupied>>

(* Mutant: the chunk taken for the stack is not marked. *)
StackFaultUnmarked(eval, esp) ==
    /\ apc = "run" /\ Denied("W", eval)
    /\ IF esp \in Chunk /\ ~ occupied[esp] THEN PrepareRequest(esp, NoChunk, RW) ELSE SoftReset
    /\ UNCHANGED <<kernelVars, caps, occupied>>

(* ecause 7 with the stack pointer at or below the stack's lower end: the  *)
(* chunk below is taken for the stack, unless it is in use or no chunk     *)
(* (esp = &_stack, or below the heap).                                     *)
StackFault(eval, esp) ==
    /\ apc = "run" /\ Denied("W", eval)
    /\ IF esp \in Chunk /\ ~ occupied[esp]
       THEN /\ occupied' = [occupied EXCEPT ![esp] = TRUE]
            /\ PrepareRequest(esp, NoChunk, RW)
       ELSE SoftReset /\ UNCHANGED occupied
    /\ UNCHANGED <<kernelVars, caps>>
AStackFault == \E eval, esp \in Chunk \union {Outside} : StackFault(eval, esp)

(* altmem_isoccupied(i) is never -1 for an i that altmem_findchunk found. *)
isoccupied(c) == IF c \in Chunk THEN (IF occupied[c] THEN 1 ELSE 0) ELSE -1

(* ecause 7 with the stack pointer in the stack. *)
StoreFault(eval) ==
    /\ apc = "run" /\ Denied("W", eval)
    /\ IF eval \in Chunk /\ isoccupied(eval) # -1
       THEN PrepareRequest(eval, NoChunk, RW)
       ELSE SoftReset
    /\ UNCHANGED <<kernelVars, caps, occupied>>
AStoreFault == \E eval \in Chunk \union {Outside} : StoreFault(eval)

AOtherFault ==
    /\ apc = "run" /\ OtherFaults /\ AppGoto("hard_send")
    /\ UNCHANGED <<kernelVars, caps, buf, occupied, idx>>

(* The request: send, then receive.  Two kernel calls, so the app can be   *)
(* preempted between them.                                                 *)
AReqSend ==
    /\ apc = "req_send" /\ AppGoto("req_recv")
    /\ Send("app", "mon", buf, idx)
    /\ UNCHANGED <<mem, started, caps, buf, occupied, idx>>

AReqRecv ==
    /\ apc = "req_recv" /\ AppGoto("req_got")
    /\ Recv("app", idx)
    /\ UNCHANGED <<mem, started, caps, buf, occupied, idx>>

AReqGot ==
    /\ apc = "req_got"
    /\ Received("app")
    /\ buf' = chan["app"].msg
    /\ capman_update("app")
    /\ AppGoto(IF buf'.op = 0 THEN "ok_send" ELSE "soft_send")
    /\ UNCHANGED <<mem, started, occupied, idx>>

AppFault == AFetchFault \/ ALoadFault \/ AStackFault \/ AStoreFault \/ AOtherFault
AppInput == AAlloc \/ AFree \/ AWrite \/ AFinish \/ AppFault

(* The steps the app takes on its own once it runs. *)
AppStep ==
    \/ ASetup \/ ASetupSend \/ AOkSend \/ ASoftSend \/ AHardSend \/ AHardOkSend
    \/ AEndSend \/ AReqSend \/ AReqRecv \/ AReqGot

AppNext == AppInput \/ AppStep \/ AYield
=============================================================================
