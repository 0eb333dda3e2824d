----------------------------- MODULE BootToApp -----------------------------
(***************************************************************************)
(* Boot composed with what follows it: MonitorApp starts where setup() is  *)
(* about to resume the app, and takes a table for granted in which only    *)
(* the RAM and the heap's PMPs matter.  Here that table is the one that    *)
(* setup() has built.                                                      *)
(***************************************************************************)
EXTENDS Boot

(* A capability as MonitorApp has it, in either process.                   *)
InSystem(type, chunk, rwx) == [type |-> type, chunk |-> chunk, rwx |-> rwx]
Untouched == InSystem("other", -1, {})
Empty == InSystem("none", -1, {})
InMonitor(cap) ==
    CASE cap = NoCap         -> Empty
      [] cap = Memory("ram") -> InSystem("memory", -1, {})
      [] OTHER               -> Untouched
InApp(cap) ==
    IF cap.type = "pmp" /\ cap.of = "heap" THEN InSystem("pmp", cap.n, cap.rwx) ELSE Untouched

(* What the monitor has besides the RAM and keeps: its own memory, UART    *)
(* and its PMP, the rest of its time, monitor and channel capabilities,    *)
(* two sockets and the PMP of the app's memory.                            *)
Kept == {0, 2, 3, 7, 8, UartSlot, SOCKET_PORT1, SOCKET_PORT2, AppMemSlot}

(* The system with the heap's capabilities from slot HeapSlot0 on.  Boot   *)
(* knows nothing of the content of the heap, and neither program has run   *)
(* further than it shows.                                                  *)
NoMessage == [op |-> 0, sig |-> -1, rwx |-> {}]
System(HeapSlot0) == INSTANCE MonitorApp WITH
    NChunks <- NHeap, Content <- {"any"}, Signed <- {}, Waits <- TRUE, OtherFaults <- TRUE,
    RecvSlot <- 48, MemSlot <- 1, Takens <- {Kept},
    kcap <- [p \in Proc |-> [i \in Slot |-> IF p = "mon" THEN InMonitor(table[p][i]) ELSE InApp(table[p][i])]],
    caps <- [p \in Proc |-> [i \in Slot |-> IF p = "mon" THEN InMonitor(copy[i]) ELSE Empty]],
    chan <- [p \in Proc |-> [st |-> "idle", slot |-> -1, msg |-> NoMessage]],
    mem <- [c \in 0 .. NHeap - 1 |-> "any"],
    started <- resumed,
    mpc <- bpc, recv_buf <- NoMessage, app_running <- FALSE, tidx <- -1,
    apc <- "setup", buf <- NoMessage, occupied <- [c \in 0 .. NHeap - 1 |-> FALSE], idx <- -1

(* The assumptions of App, Monitor, MonitorApp and TestSuite on the slots. *)
Suitable(HeapSlot0) ==
    /\ {HeapSlot0, HeapSlot0 + 1} \subseteq Slot
    /\ {1, 48} \subseteq Slot
    /\ Kept \subseteq Slot \ {1, 48}
    /\ Slot \ (Kept \union {1, 48}) # {}

(* setup() ends in an initial state of MonitorApp if the chunks of the     *)
(* heap suit the PMP, whatever sections there are besides: the two end     *)
(* chunks are with the app in adjacent slots and can only be read, the     *)
(* slot for capabilities and the temporary slots are free, and the copy is *)
(* exact, also if another section got no capability (setup_app,            *)
(* setup_ipc).  The slots meet what MonitorApp and TestSuite assume.       *)
StartsSystem ==
    bpc = "resume" /\ security =>
        \A i \in DOMAIN header :
            header[i].name = "heap" /\ (\A c \in Chunks("heap") : PmpCompatible(i, c))
                => Suitable(i - 1) /\ System(i - 1)!Init
=============================================================================
