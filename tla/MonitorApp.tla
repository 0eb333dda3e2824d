---------------------------- MODULE MonitorApp ----------------------------
(***************************************************************************)
(* The monitor and the app on one hart, each preempted anywhere: every     *)
(* step is a step of one of them.  The system starts where monitor.c:236   *)
(* leaves it: capabilities handed out, app loaded and still suspended.     *)
(***************************************************************************)
EXTENDS Monitor, App

CONSTANTS
    MemSlot,   \* the monitor's slot with its RAM capability (1 in the code)
    Takens     \* sets of monitor slots that capabilities no request touches may hold

ASSUME SystemAssumption ==
    /\ MemSlot \in Slot \ {RecvSlot}
    /\ \A taken \in Takens : taken \subseteq Slot \ {RecvSlot, MemSlot}

vars == <<kernelVars, caps, monVars, appVars>>

MonTable(taken) == [i \in Slot |-> IF i = MemSlot THEN MemoryCap
                                   ELSE IF i \in taken THEN OtherCap ELSE NoCap]
AppTable == [i \in Slot |-> IF i \in {HeapSlot(c) : c \in PmpChunk}
                            THEN Pmp(CHOOSE c \in PmpChunk : HeapSlot(c) = i, R)
                            ELSE OtherCap]

(* The app's own copy is still zero: it fills it in setup(). *)
Init ==
    /\ \E taken \in Takens :
         /\ kcap = [p \in Proc |-> IF p = "mon" THEN MonTable(taken) ELSE AppTable]
         /\ caps = [p \in Proc |-> IF p = "mon" THEN MonTable(taken) ELSE [i \in Slot |-> NoCap]]
    /\ chan = [p \in Proc |-> Idle]
    /\ mem \in [Chunk -> Content]
    /\ started = FALSE
    /\ MonInit
    /\ AppInit

Next ==
    \/ MonNext /\ UNCHANGED appVars
    \/ AppNext /\ UNCHANGED monVars

Spec == Init /\ [][Next]_vars

(* Both processes own slices of every frame, so neither starves; what the *)
(* application code does between exceptions is its own affair.            *)
Fairness == WF_vars(MonNext /\ UNCHANGED appVars) /\ WF_vars(AppStep /\ UNCHANGED monVars)
FairSpec == Spec /\ Fairness
-----------------------------------------------------------------------------
TypeOK ==
    /\ kcap \in Table
    /\ caps \in Table
    /\ chan \in [Proc -> Endpoint]
    /\ mem \in [Chunk -> Content]
    /\ started \in BOOLEAN
    /\ mpc \in MonPc
    /\ recv_buf \in Msg
    /\ app_running \in BOOLEAN
    /\ tidx \in Slot \union {NoSlot}
    /\ mpc \in {"derive", "delete", "move"} => tidx \in Slot
    /\ apc \in AppPc
    /\ buf \in Msg
    /\ occupied \in [Chunk -> BOOLEAN]
    /\ idx \in Slot \union {NoSlot}

IsPmpOf(cap, c) == cap.type = "pmp" /\ cap.chunk = c
Holders(c) == {h \in Proc \X Slot : IsPmpOf(kcap[h[1]][h[2]], c)}

(* What the app can execute in the heap carries a valid signature, now:    *)
(* not only when the monitor looked (monitor.c:310-331).  Signed is said   *)
(* of the content of a chunk; its signature is of the code_size bytes from *)
(* 0x20 on, what is behind them becomes executable with the chunk.         *)
CodeIntegrity == \A c \in Chunk : "X" \in Rights("app", c) => mem[c] \in Signed

(* No chunk is writable and executable for the app, through one or         *)
(* through several capabilities (monitor.c:301).                           *)
WxorX == \A c \in Chunk : ~ {"W", "X"} \subseteq Rights("app", c)

(* The capability of a heap chunk is never lost and never duplicated: it   *)
(* is in one slot of one process, but for the moment in capman_update_pmp  *)
(* when the monitor holds the old one and its replacement.                 *)
CapConserved ==
    \A c \in PmpChunk :
        \/ \E h \in Holders(c) : Holders(c) = {h}
        \/ mpc = "delete" /\ Holders(c) = {<<"mon", RecvSlot>>, <<"mon", tidx>>}

(* While the monitor decides on a capability and replaces it, and while    *)
(* the application runs, the copy of the table is the table.               *)
CopyFresh ==
    /\ mpc \in {"verify", "find", "derive", "delete", "move", "reply"} => caps["mon"] = kcap["mon"]
    /\ apc \in {"run", "setup_send", "soft_send", "ok_send"} => caps["app"] = kcap["app"]

(* The answer tells the truth: after 0 the app has its capability back     *)
(* with exactly the rights it asked for, after an error its table is what  *)
(* it was before the request (its copy still shows that).                  *)
AnswerTrue ==
    apc = "req_got" /\ chan["app"].st = "got" =>
        kcap["app"] = IF chan["app"].msg.op = 0
                      THEN [caps["app"] EXCEPT ![idx] = Pmp(@.chunk, buf.rwx)]
                      ELSE caps["app"]

(* A request is granted exactly when it hands in a capability, the chunk   *)
(* is to be written or holds signed code, and the monitor has a slot for   *)
(* the replacement: none of these is missed, and nothing else refuses it.  *)
AnswerExact ==
    apc = "req_got" /\ chan["app"].st = "got" =>
        (chan["app"].msg.op = 0 <=>
            /\ idx # NoSlot
            /\ buf.rwx = RW \/ mem[buf.sig] \in Signed
            /\ \E s \in Slot \ {RecvSlot} : kcap["mon"][s] = NoCap)

(* When sends wait, the slot for the next capability is free whenever the  *)
(* monitor waits for a request.                                            *)
SlotReady == Waits /\ chan["mon"].st = "wait" => kcap["mon"][RecvSlot] = NoCap

(* A chunk becomes executable only while it is allocated: between the      *)
(* check (trap.c:116) and the grant nobody frees it.                       *)
ExecOnlyAllocated ==
    [][\A c \in Chunk :
          "X" \notin Rights("app", c) /\ "X" \in Rights("app", c)' => occupied[c]]_vars

(* The same for writing, which is what trap.c:170 announces.               *)
WriteOnlyAllocated ==
    [][\A c \in Chunk :
          "W" \notin Rights("app", c) /\ "W" \in Rights("app", c)' => occupied[c]]_vars

(* The monitor stops serving only when the app has finished.               *)
StopsOnlyAtEnd == [][app_running /\ ~ app_running' => apc = "end"]_vars

(* The system implements the policy: a capability the app does not have    *)
(* is with the monitor and carries the rights the app's copy still shows.  *)
WithApp(c) == kcap["app"][HeapSlot(c)].type = "pmp"
Policy == INSTANCE HeapPolicy WITH
    Guarded <- PmpChunk,
    holder <- [c \in PmpChunk |-> IF WithApp(c) THEN "app" ELSE "mon"],
    rights <- [c \in PmpChunk |-> IF WithApp(c) THEN kcap["app"][HeapSlot(c)].rwx
                                               ELSE caps["app"][HeapSlot(c)].rwx],
    content <- mem
ImplementsPolicy == Policy!Spec
-----------------------------------------------------------------------------
(* Every exception is dealt with and the application continues.            *)
TrapEnds == apc \in TrapPc ~> apc = "run"

(* As long as the monitor serves, a request is answered.                   *)
ServedWhileRunning == apc = "req_got" ~> (apc # "req_got" \/ ~ app_running)

(* A request the monitor has taken up is answered: the app gets out of the *)
(* wait of trap.c:46 and 59.                                               *)
RequestAnswered == mpc = "request" ~> apc \in {"ok_send", "soft_send"}

(* Setup ends with the monitor serving, and the end of the app is noticed. *)
BootEnds == <> app_running
EndNoticed == apc = "end" ~> [] ~ app_running
=============================================================================
