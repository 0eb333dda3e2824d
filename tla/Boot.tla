------------------------------- MODULE Boot -------------------------------
(***************************************************************************)
(* setup() of monitor/monitor.c up to the moment the app is resumed: the   *)
(* app is authenticated, loaded, and given its capabilities one by one     *)
(* through a temporary slot.  Nobody looks at the result of a step, so a   *)
(* step that fails is simply missing from what the app starts with.        *)
(***************************************************************************)
EXTENDS Integers, Sequences, FiniteSets

CONSTANTS
    NCAP,       \* capabilities per process
    NHeap,      \* chunks in the heap section: size / CHUNK_SIZE
    Headers     \* the section headers an app may come with

ASSUME BootAssumption ==
    /\ NCAP \in Nat /\ NCAP > 48
    /\ NHeap \in Nat /\ NHeap >= 2

(* Addresses in RAM are less the 0x80000000 at which it begins.            *)
APP_BASE == 131072
APP_SIZE == 65536
CHUNK_SIZE == 4096
UART_BASE == 268435456
UART_SIZE == 256

(* getsections.py looks for six sections, each of which an app has once,   *)
(* and gives the heap no right but to read.  A section lies in the memory  *)
(* of the app.  Nothing is assumed of its alignment: pmp_compatible.lds    *)
(* sees to that, but setup() takes whatever header is in front of the app. *)
SectionNames == {"text", "data", "rodata", "bss", "heap", "stack"}
ASSUME HeadersAssumption ==
    \A h \in Headers :
        /\ h \in Seq([name : SectionNames, offset : Nat, size : Nat, rwx : SUBSET {"R", "W", "X"}])
        /\ Len(h) <= 6
        /\ \A i, l \in DOMAIN h : h[i].name = h[l].name => i = l
        /\ \A i \in DOMAIN h : h[i].offset + h[i].size <= APP_SIZE
        /\ \A i \in DOMAIN h : h[i].name = "heap" => h[i].rwx = {"R"} /\ h[i].size \div CHUNK_SIZE = NHeap

VARIABLES
    security,   \* is SECURITY of config.h set in this build?
    table,      \* table[p][i]: the capability in slot i of process p
    copy,       \* the monitor's copy of its own table (capman.c: caps)
    header,     \* app.header: the sections of the app, with their rights
    genuine,    \* does the signature in front of the app match?
    bpc, step,  \* function being executed, operation within it
    j, k, npmp, \* setup_app: section, heap chunk, capabilities handed out
    ipmp,       \* the slots in the app's PMP register
    soccaps,    \* soccaps[ch]: slot of the monitor's socket on channel ch
    loaded, resumed   \* is the app in its memory, does it run?

capVars == <<table, copy>>
appState == <<ipmp, loaded, resumed>>
vars == <<security, table, copy, header, genuine, bpc, step, j, k, npmp, ipmp, soccaps, loaded, resumed>>

Proc == {"mon", "app"}
Slot == 0 .. NCAP - 1
R == {"R"}
RW == {"R", "W"}
RWX == {"R", "W", "X"}

(* Capabilities: of names the memory, n is what is left of a channel or of *)
(* a time slice, a socket's channel or a heap PMP's chunk.                 *)
Cap(type, of, n, rwx) == [type |-> type, of |-> of, n |-> n, rwx |-> rwx]
NoCap == Cap("none", "", 0, {})
Memory(of) == Cap("memory", of, 0, {})
Pmp(of, chunk, rwx) == Cap("pmp", of, chunk, rwx)
Time(from) == Cap("time", "", from, {})
Channel(free) == Cap("channel", "", free, {})
Server(ch) == Cap("socket", "server", ch, {})   \* tag 0
Client(ch) == Cap("socket", "client", ch, {})   \* tag 1

UartSlot == 9
AppMemSlot == 12
TimeSlot == 24
TmpSlot == 32
AppTimeSlot == 15
SOCKET_PORT1 == 10
SOCKET_PORT2 == 11

(* s3k_*_derive of the kernel library: may child be derived from parent,   *)
(* and what does that leave of the parent?                                 *)
Derivable(parent, child) ==
    \/ child.type = "pmp" /\ parent = Memory(IF child.of = "uart" THEN "uart" ELSE "ram")
    \/ child.type = "time" /\ parent = Time(0)
    \/ /\ child.type = "socket" /\ child.of = "server"
       /\ parent.type = "channel" /\ parent.n <= child.n
    \/ child.type = "socket" /\ child.of = "client" /\ parent = Server(child.n)
Remaining(parent, child) ==
    CASE parent.type = "channel" -> Channel(child.n + 1)
      [] parent.type = "time"    -> Time(32)
      [] OTHER                   -> parent

(* The sources a search of the copy can find; it takes the highest. *)
Sources(cap) == {i \in Slot : Derivable(copy[i], cap)}
Highest(S) == CHOOSE i \in S : \A s \in S : s <= i

(* A region comes back from the encoding of the PMP registers if its size  *)
(* is a power of two, eight or more, and divides its begin.  Larger than   *)
(* the app no region here is.                                              *)
NapotSizes == {8, 16, 32, 64, 128, 256, 512, 1024, 2048, 4096, 8192, 16384, 32768, 65536}
Napot(begin, size) == size \in NapotSizes /\ begin % size = 0

(* What capman_derive_pmp, _time and _socket do with a capability: search, *)
(* derive into a slot, refresh.                                            *)
capman_derive(slot, cap) ==
    LET i == Highest(Sources(cap)) IN
    IF Sources(cap) # {} /\ Derivable(table["mon"][i], cap) /\ table["mon"][slot] = NoCap
    THEN /\ table' = [table EXCEPT !["mon"][i] = Remaining(@, cap), !["mon"][slot] = cap]
         /\ copy' = [copy EXCEPT ![i] = table'["mon"][i], ![slot] = cap]
    ELSE UNCHANGED capVars

(* Mutant: a region that does not come back ends in the slot all the same. *)
capman_derive_pmpUntested(slot, begin, size, cap) == capman_derive(slot, cap)

capman_derive_pmp(slot, begin, size, cap) ==
    IF Napot(begin, size) THEN capman_derive(slot, cap) ELSE UNCHANGED capVars

(* Mutant: the copy keeps what was given away. *)
capman_mgivecapKeeps(src, dest) ==
    IF table["mon"][src] # NoCap /\ table["app"][dest] = NoCap
    THEN /\ table' = [table EXCEPT !["mon"][src] = NoCap, !["app"][dest] = table["mon"][src]]
         /\ UNCHANGED copy
    ELSE UNCHANGED capVars

capman_mgivecap(src, dest) ==
    IF table["mon"][src] # NoCap /\ table["app"][dest] = NoCap
    THEN /\ table' = [table EXCEPT !["mon"][src] = NoCap, !["app"][dest] = table["mon"][src]]
         /\ copy' = [copy EXCEPT ![src] = NoCap]
    ELSE UNCHANGED capVars

(* Straight-line code is a sequence of operations. *)
Derive(slot, cap) == [op |-> "derive", slot |-> slot, cap |-> cap]
DerivePmpOf(slot, begin, size, cap) ==
    [op |-> "derive_pmp", slot |-> slot, begin |-> begin, size |-> size, cap |-> cap]
Give(src, dest) == [op |-> "give", slot |-> src, dest |-> dest]
Perform(o) ==
    CASE o.op = "derive"     -> capman_derive(o.slot, o.cap)
      [] o.op = "derive_pmp" -> capman_derive_pmp(o.slot, o.begin, o.size, o.cap)
      [] OTHER               -> capman_mgivecap(o.slot, o.dest)

setup_monitor ==
    << DerivePmpOf(UartSlot, UART_BASE, UART_SIZE, Pmp("uart", 0, RW)),
       DerivePmpOf(AppMemSlot, APP_BASE, APP_SIZE, Pmp("app", 0, RW)) >>
setup_time_slices == << Derive(TimeSlot, Time(0)) >>
setup_uart == << DerivePmpOf(TmpSlot, UART_BASE, UART_SIZE, Pmp("uart", 0, RW)), Give(TmpSlot, npmp) >>
setup_ipcSwapped ==
    << Derive(SOCKET_PORT1, Server(0)), Derive(TmpSlot, Client(0)), Give(TmpSlot, SOCKET_PORT2),
       Derive(TmpSlot, Server(1)), Give(TmpSlot, SOCKET_PORT1), Derive(SOCKET_PORT2, Client(1)) >>
setup_ipc ==
    << Derive(SOCKET_PORT1, Server(0)), Derive(TmpSlot, Client(0)), Give(TmpSlot, SOCKET_PORT2),
       Derive(TmpSlot, Server(1)), Derive(SOCKET_PORT2, Client(1)), Give(TmpSlot, SOCKET_PORT1) >>

(* The next operation of ops; after the last one, on to the next function. *)
Run(pc, ops, then) ==
    /\ bpc = pc
    /\ Perform(ops[step])
    /\ IF step < Len(ops) THEN step' = step + 1 /\ UNCHANGED bpc ELSE step' = 1 /\ bpc' = then

(* What the kernel starts the monitor with; the app starts with nothing. *)
FirstCaps ==
    [i \in Slot |->
        CASE i = 0 -> Pmp("monitor", 0, RWX)
          [] i = 1 -> Memory("ram")
          [] i = 2 -> Memory("uart")
          [] i = 3 -> Time(0)
          [] i \in {4, 5, 6} -> Cap("time", "other hart", 0, {})
          [] i = 7 -> Cap("monitor", "", 0, {})
          [] i = 8 -> Channel(0)
          [] OTHER -> NoCap]
BootTable == [p \in Proc |-> IF p = "mon" THEN FirstCaps ELSE [i \in Slot |-> NoCap]]

Init ==
    /\ security \in BOOLEAN
    /\ table = BootTable
    /\ copy = [i \in Slot |-> NoCap]
    /\ header \in Headers
    /\ genuine \in BOOLEAN
    /\ bpc = "init" /\ step = 1
    /\ j = 1 /\ k = 0 /\ npmp = 0
    /\ ipmp = {}
    /\ soccaps = [ch \in 0 .. 1 |-> 0]
    /\ loaded = FALSE /\ resumed = FALSE

input == <<security, header, genuine>>
counters == <<j, k, npmp>>

(* The time of the other harts goes; capman_init fills the copy. *)
BInit ==
    /\ bpc = "init" /\ bpc' = "monitor"
    /\ table' = [table EXCEPT !["mon"] = [i \in Slot |-> IF i \in {4, 5, 6} THEN NoCap ELSE @[i]]]
    /\ copy' = table'["mon"]
    /\ UNCHANGED <<input, step, counters, appState, soccaps>>

BMonitor ==
    /\ Run("monitor", setup_monitor, "time")
    /\ UNCHANGED <<input, counters, appState, soccaps>>

BTime ==
    /\ Run("time", setup_time_slices, IF security THEN "verify" ELSE "load")
    /\ UNCHANGED <<input, counters, appState, soccaps>>

(* Mutant: the result of the comparison is only reported. *)
BVerifyReports ==
    /\ bpc = "verify" /\ bpc' = "load"
    /\ UNCHANGED <<input, capVars, step, counters, appState, soccaps>>

(* calc_sig and comp_sig; without a match setup() is over. *)
BVerify ==
    /\ bpc = "verify"
    /\ bpc' = IF genuine THEN "load" ELSE "refused"
    /\ UNCHANGED <<input, capVars, step, counters, appState, soccaps>>

BLoad ==
    /\ bpc = "load" /\ bpc' = "sections"
    /\ loaded' = TRUE
    /\ UNCHANGED <<input, capVars, step, counters, ipmp, resumed, soccaps>>

(* The sections to hand out, and the memory of capability c of section i:  *)
(* a chunk of the heap, any other section whole.                           *)
Sections == IF security THEN header ELSE << [name |-> "app", offset |-> 0, size |-> APP_SIZE, rwx |-> RWX] >>
Begin(i, c) == APP_BASE + Sections[i].offset + c * CHUNK_SIZE
Size(i) == IF Sections[i].name = "heap" THEN CHUNK_SIZE ELSE Sections[i].size
PmpCompatible(i, c) == Napot(Begin(i, c), Size(i))
Current == Pmp(Sections[j].name, k, Sections[j].rwx)

(* Mutant: one past the last chunk, k <= nchunks; k += nchunks. *)
NextPmpPast ==
    IF Sections[j].name = "heap" /\ k + NHeap <= NHeap
    THEN k' = k + NHeap /\ UNCHANGED j
    ELSE k' = 0 /\ j' = j + 1

(* Mutant: a capability for every chunk of the heap. *)
NextPmpEvery ==
    IF Sections[j].name = "heap" /\ k + 1 < NHeap
    THEN k' = k + 1 /\ UNCHANGED j
    ELSE k' = 0 /\ j' = j + 1

(* for (k = 0; k < nchunks; k += nchunks-1): the first and the last chunk. *)
NextPmp ==
    IF Sections[j].name = "heap" /\ k + (NHeap - 1) < NHeap
    THEN k' = k + (NHeap - 1) /\ UNCHANGED j
    ELSE k' = 0 /\ j' = j + 1

BDerive ==
    /\ bpc = "sections" /\ j <= Len(Sections) /\ step = 1 /\ step' = 2
    /\ capman_derive_pmp(TmpSlot, Begin(j, k), Size(j), Current)
    /\ UNCHANGED <<input, bpc, counters, appState, soccaps>>

BGive ==
    /\ bpc = "sections" /\ j <= Len(Sections) /\ step = 2 /\ step' = 1
    /\ capman_mgivecap(TmpSlot, npmp)
    /\ npmp' = npmp + 1
    /\ NextPmp
    /\ UNCHANGED <<input, bpc, appState, soccaps>>

BSectionsDone ==
    /\ bpc = "sections" /\ j > Len(Sections) /\ bpc' = "uart"
    /\ UNCHANGED <<input, capVars, step, counters, appState, soccaps>>

BUart ==
    /\ Run("uart", setup_uart, "time_give")
    /\ npmp' = IF step = 2 THEN npmp + 1 ELSE npmp
    /\ UNCHANGED <<input, j, k, appState, soccaps>>

BTimeGive ==
    /\ Run("time_give", << Give(TimeSlot, AppTimeSlot) >>, "setpmp")
    /\ UNCHANGED <<input, counters, appState, soccaps>>

(* Mutant: the mask starts with the number of capabilities. *)
BSetPmpOffByOne ==
    /\ bpc = "setpmp" /\ bpc' = "ipc"
    /\ ipmp' = {s \in 0 .. npmp : s < 8}
    /\ UNCHANGED <<input, capVars, step, counters, loaded, resumed, soccaps>>

(* One byte per slot, highest first, shifted through a 64-bit register:    *)
(* only the lowest eight slots stay in it.                                 *)
BSetPmp ==
    /\ bpc = "setpmp" /\ bpc' = "ipc"
    /\ ipmp' = {s \in 0 .. npmp - 1 : s < 8}
    /\ UNCHANGED <<input, capVars, step, counters, loaded, resumed, soccaps>>

BIpc ==
    /\ Run("ipc", setup_ipc, "getsoc")
    /\ UNCHANGED <<input, counters, appState, soccaps>>

(* capman_getsoc: the last socket of the copy on a channel wins. *)
BGetSoc ==
    /\ bpc = "getsoc" /\ bpc' = "resume"
    /\ soccaps' = [ch \in DOMAIN soccaps |->
           LET S == {i \in Slot : copy[i].type = "socket" /\ copy[i].n = ch} IN
           IF S = {} THEN soccaps[ch] ELSE Highest(S)]
    /\ UNCHANGED <<input, capVars, step, counters, appState>>

BResume ==
    /\ bpc = "resume" /\ bpc' = "done"
    /\ resumed' = TRUE
    /\ UNCHANGED <<input, capVars, step, counters, ipmp, loaded, soccaps>>

(* loop() serves requests (module Monitor) or, refused, only yields. *)
BLoop ==
    /\ bpc \in {"done", "refused"}
    /\ UNCHANGED vars

Next ==
    \/ BInit \/ BMonitor \/ BTime \/ BVerify \/ BLoad \/ BDerive \/ BGive \/ BSectionsDone
    \/ BUart \/ BTimeGive \/ BSetPmp \/ BIpc \/ BGetSoc \/ BResume \/ BLoop

Spec == Init /\ [][Next]_vars

-----------------------------------------------------------------------------
Capability == [type : {"none", "memory", "pmp", "time", "channel", "socket", "monitor"},
               of : SectionNames \union {"", "monitor", "ram", "uart", "app", "other hart", "server", "client"},
               n : Nat, rwx : SUBSET RWX]

(* Every variable stays in its range (setup, setup_app). *)
TypeOK ==
    /\ table \in [Proc -> [Slot -> Capability]]
    /\ copy \in [Slot -> Capability]
    /\ security \in BOOLEAN /\ header \in Headers /\ genuine \in BOOLEAN
    /\ bpc \in {"init", "monitor", "time", "verify", "load", "sections", "uart", "time_give",
                "setpmp", "ipc", "getsoc", "resume", "done", "refused"}
    /\ step \in 1 .. 6 /\ j \in 1 .. Len(Sections) + 1 /\ k \in 0 .. NHeap - 1
    /\ npmp \in 0 .. AppTimeSlot - 1
    /\ ipmp \subseteq Slot
    /\ soccaps \in [0 .. 1 -> Slot]
    /\ loaded \in BOOLEAN /\ resumed \in BOOLEAN

(* An app whose signature does not match is not copied into its memory,    *)
(* does not run and is given nothing at all, no slice of time and no       *)
(* socket either (setup, from the comparison to its return).               *)
SignedOnly ==
    security /\ ~genuine =>
        /\ ~loaded /\ ~resumed
        /\ \A i \in Slot : table["app"][i] = NoCap

(* setup() ignores the results of capman.  Its derivations and gifts fail  *)
(* for one reason only, a section that the PMP cannot describe, and then   *)
(* both tables stay as they are: nothing is left in the temporary slot for *)
(* the next gift to hand out in its place (capman_derive_pmp 264,          *)
(* setup_monitor to setup_ipc).                                            *)
OnlyUnalignedFails ==
    [][ IF bpc = "sections" /\ j <= Len(Sections) /\ ~PmpCompatible(j, k)
        THEN UNCHANGED capVars
        ELSE \/ bpc \in {"monitor", "time", "uart", "time_give", "ipc"}
             \/ bpc = "sections" /\ j <= Len(Sections)
             => table' # table ]_vars

(* The copy in capman, which every search for a parent reads, is the       *)
(* monitor's table once it has been filled (capman_derive_*, capman_mgivecap). *)
CopyFresh == bpc # "init" => copy = table["mon"]

(* The chunks of a section that get a capability of their own. *)
Chunks(name) == IF name = "heap" THEN {0, NHeap - 1} ELSE {0}
Section(i) == {Pmp(Sections[i].name, c, Sections[i].rwx) : c \in {c \in Chunks(Sections[i].name) : PmpCompatible(i, c)}}
GrantedPmps == (UNION {Section(i) : i \in DOMAIN Sections}) \cup {Pmp("uart", 0, RW)}
AllCompatible == \A i \in DOMAIN Sections : \A c \in Chunks(Sections[i].name) : PmpCompatible(i, c)

(* The PMP register the app starts with activates the PMP capability of    *)
(* each section that the PMP can describe, and of the UART, exactly once   *)
(* and with the rights the header gives; a section it cannot describe      *)
(* leaves a slot of the mask empty and costs no other section its access,  *)
(* and if there is none the mask names no empty slot.  The mask and the    *)
(* slots are computed apart (setup_app 130-149 and 158-162).               *)
SectionsActive ==
    bpc \in {"resume", "done"} =>
        /\ {table["app"][s] : s \in ipmp} \ {NoCap} = GrantedPmps
        /\ \A s, t \in ipmp : table["app"][s] = table["app"][t] /\ table["app"][s] # NoCap => s = t
        /\ AllCompatible => \A s \in ipmp : table["app"][s] # NoCap

(* The two ends of each channel are with different processes, in the slots *)
(* both programs have written into them: the monitor receives on 0 and     *)
(* sends on 1, the app the other way round (setup_ipc, capman_getsoc,      *)
(* SOCKET_PORT1 and SOCKET_PORT2 of monitor.c and app.c).                  *)
Wired ==
    bpc \in {"resume", "done"} =>
        /\ table["mon"][soccaps[0]] = Server(0) /\ table["app"][SOCKET_PORT2] = Client(0)
        /\ table["mon"][soccaps[1]] = Client(1) /\ table["app"][SOCKET_PORT1] = Server(1)
=============================================================================
