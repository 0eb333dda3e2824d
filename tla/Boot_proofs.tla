---------------------------- MODULE Boot_proofs ----------------------------
(***************************************************************************)
(* What setup() does, for any number of slots and any sections: the copy   *)
(* in capman is exact and an unsigned app gets nothing; derivations and    *)
(* gifts fail for a section that the PMP cannot describe and for no other  *)
(* reason, and each step leaves both tables exactly as written down here.  *)
(***************************************************************************)
EXTENDS BootToApp, FiniteSetTheorems, FunctionTheorems, SequenceTheorems, TLAPS

(* table and copy are functions on the slots, whatever they hold. *)
Shape ==
    /\ table = [p \in Proc |-> [i \in Slot |-> table[p][i]]]
    /\ copy = [i \in Slot |-> copy[i]]

(* While the signature is not known to match, setup() is still before the  *)
(* comparison, or over, and has only derived capabilities for itself.      *)
Unsigned ==
    security /\ ~genuine =>
        /\ bpc \in {"init", "monitor", "time", "verify", "refused"}
        /\ bpc = "init" => step = 1
        /\ bpc = "monitor" => step \in 1 .. 2
        /\ bpc = "time" => step = 1
        /\ ~loaded /\ ~resumed
        /\ table["app"] = [i \in Slot |-> NoCap]

BInv == Shape /\ CopyFresh /\ Unsigned

-----------------------------------------------------------------------------
(* A derivation leaves the copy exact and the app's capabilities alone     *)
(* (capman_derive_pmp, capman_derive_time, capman_derive_socket).          *)
LEMMA DeriveExact ==
    ASSUME Shape, copy = table["mon"], NEW slot, NEW cap, capman_derive(slot, cap)
    PROVE  Shape' /\ copy' = table'["mon"] /\ table'["app"] = table["app"]
<1> DEFINE i == Highest(Sources(cap))
<1>1. CASE UNCHANGED capVars
  BY <1>1 DEF capVars, Shape
<1>2. CASE /\ table' = [table EXCEPT !["mon"][i] = Remaining(@, cap), !["mon"][slot] = cap]
           /\ copy' = [copy EXCEPT ![i] = table'["mon"][i], ![slot] = cap]
  <2> HIDE DEF i
  <2>1. Shape' /\ table'["app"] = table["app"]
    BY <1>2 DEF Shape, Proc
  <2>2. \A s \in Slot : table'["mon"][s] =
            IF s = slot THEN cap ELSE IF s = i THEN Remaining(table["mon"][i], cap) ELSE table["mon"][s]
    BY <1>2 DEF Shape, Proc
  <2>3. \A s \in Slot : copy'[s] =
            IF s = slot THEN cap ELSE IF s = i THEN table'["mon"][i] ELSE copy[s]
    BY <1>2 DEF Shape
  <2>4. \A s \in Slot : copy'[s] = table'["mon"][s]
    BY <2>2, <2>3
  <2>5. copy' = table'["mon"]
    BY <2>1, <2>4 DEF Shape, Proc
  <2> QED BY <2>1, <2>5
<1> QED BY <1>1, <1>2 DEF capman_derive

(* So does one that a region may stop (capman_derive_pmp). *)
LEMMA DerivePmpExact ==
    ASSUME Shape, copy = table["mon"], NEW slot, NEW begin, NEW size, NEW cap,
           capman_derive_pmp(slot, begin, size, cap)
    PROVE  Shape' /\ copy' = table'["mon"] /\ table'["app"] = table["app"]
<1>1. CASE capman_derive(slot, cap)
  BY <1>1, DeriveExact
<1>2. CASE UNCHANGED capVars
  BY <1>2 DEF capVars, Shape
<1> QED BY <1>1, <1>2 DEF capman_derive_pmp

(* A gift leaves the copy exact (capman_mgivecap). *)
LEMMA GiveExact ==
    ASSUME Shape, copy = table["mon"], NEW src, NEW dest, capman_mgivecap(src, dest)
    PROVE  Shape' /\ copy' = table'["mon"]
<1>1. CASE UNCHANGED capVars
  BY <1>1 DEF capVars, Shape
<1>2. CASE /\ table' = [table EXCEPT !["mon"][src] = NoCap, !["app"][dest] = table["mon"][src]]
           /\ copy' = [copy EXCEPT ![src] = NoCap]
  <2>1. Shape'
    BY <1>2 DEF Shape, Proc
  <2>2. \A s \in Slot : table'["mon"][s] = IF s = src THEN NoCap ELSE table["mon"][s]
    BY <1>2 DEF Shape, Proc
  <2>3. \A s \in Slot : copy'[s] = IF s = src THEN NoCap ELSE copy[s]
    BY <1>2 DEF Shape
  <2>4. copy' = table'["mon"]
    BY <2>1, <2>2, <2>3 DEF Shape, Proc
  <2> QED BY <2>1, <2>4
<1> QED BY <1>1, <1>2 DEF capman_mgivecap

(* So does a whole function, operation by operation. *)
LEMMA RunExact ==
    ASSUME Shape, CopyFresh, NEW pc \in {"monitor", "time", "uart", "time_give", "ipc"},
           NEW ops, NEW then, Run(pc, ops, then)
    PROVE  Shape' /\ CopyFresh'
<1> DEFINE o == ops[step]
<1>1. copy = table["mon"] /\ Perform(o)
  BY DEF CopyFresh, Run
<1>2. \/ capman_derive(o.slot, o.cap)
      \/ capman_derive_pmp(o.slot, o.begin, o.size, o.cap)
      \/ capman_mgivecap(o.slot, o.dest)
  BY <1>1 DEF Perform
<1> HIDE DEF o
<1>3. Shape' /\ copy' = table'["mon"]
  BY <1>1, <1>2, DeriveExact, DerivePmpExact, GiveExact
<1> QED BY <1>3 DEF CopyFresh

-----------------------------------------------------------------------------
LEMMA InitBInv == Init => BInv
<1> SUFFICES ASSUME Init PROVE BInv
  OBVIOUS
<1>0. table = BootTable /\ copy = [i \in Slot |-> NoCap]
  BY DEF Init
<1>1. FirstCaps = [i \in Slot |-> FirstCaps[i]]
  BY DEF FirstCaps
<1>2. table["app"] = [i \in Slot |-> NoCap] /\ Shape
  BY <1>0, <1>1 DEF BootTable, Proc, Shape
<1>3. CopyFresh /\ Unsigned
  BY <1>2 DEF Init, CopyFresh, Unsigned
<1> QED BY <1>2, <1>3 DEF BInv

(* The actions that change no capability. *)
LEMMA QuietExact == BInv /\ UNCHANGED capVars /\ bpc # "init" => Shape' /\ CopyFresh'
  BY DEF BInv, Shape, CopyFresh, capVars

LEMMA NextBInv == BInv /\ [Next]_vars => BInv'
<1> SUFFICES ASSUME BInv, [Next]_vars PROVE BInv'
  OBVIOUS
<1> USE DEF BInv
<1>1. CASE BInit
  <2>1. Shape' /\ table'["app"] = table["app"]
    BY <1>1 DEF BInit, Shape, Proc
  <2>2. CopyFresh'
    BY <1>1 DEF BInit, CopyFresh
  <2>3. Unsigned'
    BY <1>1, <2>1 DEF BInit, Unsigned, input, appState
  <2> QED BY <2>1, <2>2, <2>3
<1>2. CASE BMonitor
  <2>1. Shape' /\ CopyFresh'
    BY <1>2, RunExact DEF BMonitor
  <2>2. Unsigned'
    <3> SUFFICES ASSUME security, ~genuine PROVE Unsigned'
      BY <1>2 DEF BMonitor, Unsigned, input
    <3>1. bpc = "monitor" /\ step \in 1 .. 2 /\ copy = table["mon"]
      BY <1>2 DEF BMonitor, Run, Unsigned, CopyFresh
    <3>2. setup_monitor[step].op = "derive_pmp" /\ Len(setup_monitor) = 2
      BY <3>1 DEF setup_monitor, DerivePmpOf
    <3>3. table'["app"] = table["app"]
      <4> DEFINE o == setup_monitor[step]
      <4>1. capman_derive_pmp(o.slot, o.begin, o.size, o.cap)
        BY <1>2, <3>1, <3>2 DEF BMonitor, Run, Perform
      <4> HIDE DEF o
      <4> QED BY <3>1, <4>1, DerivePmpExact
    <3>4. \/ step' = step + 1 /\ step' \in 1 .. 2 /\ bpc' = "monitor"
          \/ step' = 1 /\ bpc' = "time"
      BY <1>2, <3>1, <3>2 DEF BMonitor, Run
    <3> QED BY <1>2, <3>1, <3>3, <3>4 DEF BMonitor, Unsigned, input, appState
  <2> QED BY <2>1, <2>2
<1>3. CASE BTime
  <2>1. Shape' /\ CopyFresh'
    BY <1>3, RunExact DEF BTime
  <2>2. Unsigned'
    <3> SUFFICES ASSUME security, ~genuine PROVE Unsigned'
      BY <1>3 DEF BTime, Unsigned, input
    <3>1. bpc = "time" /\ step = 1 /\ copy = table["mon"]
      BY <1>3 DEF BTime, Run, Unsigned, CopyFresh
    <3>2. setup_time_slices[step].op = "derive" /\ Len(setup_time_slices) = 1
      BY <3>1 DEF setup_time_slices, Derive
    <3>3. table'["app"] = table["app"]
      BY <1>3, <3>1, <3>2, DeriveExact DEF BTime, Run, Perform
    <3>4. step' = 1 /\ bpc' = "verify"
      BY <1>3, <3>1, <3>2 DEF BTime, Run
    <3> QED BY <1>3, <3>1, <3>3, <3>4 DEF BTime, Unsigned, input, appState
  <2> QED BY <2>1, <2>2
<1>4. CASE BVerify
  BY <1>4, QuietExact DEF BVerify, Unsigned, input, capVars, appState
<1>5. CASE BLoad
  BY <1>5, QuietExact DEF BLoad, Unsigned, input
<1>6. CASE BDerive
  <2>1. copy = table["mon"]
    BY <1>6 DEF BDerive, CopyFresh
  <2>2. Shape' /\ copy' = table'["mon"]
    BY <1>6, <2>1, DerivePmpExact DEF BDerive
  <2> QED BY <1>6, <2>2 DEF BDerive, CopyFresh, Unsigned, input
<1>7. CASE BGive
  <2>1. copy = table["mon"]
    BY <1>7 DEF BGive, CopyFresh
  <2>2. Shape' /\ copy' = table'["mon"]
    BY <1>7, <2>1, GiveExact DEF BGive
  <2> QED BY <1>7, <2>2 DEF BGive, CopyFresh, Unsigned, input
<1>8. CASE BSectionsDone
  BY <1>8, QuietExact DEF BSectionsDone, Unsigned, input
<1>9. CASE BUart
  BY <1>9, RunExact DEF BUart, Run, Unsigned, input
<1>10. CASE BTimeGive
  BY <1>10, RunExact DEF BTimeGive, Run, Unsigned, input
<1>11. CASE BSetPmp
  BY <1>11, QuietExact DEF BSetPmp, Unsigned, input
<1>12. CASE BIpc
  BY <1>12, RunExact DEF BIpc, Run, Unsigned, input
<1>13. CASE BGetSoc
  BY <1>13, QuietExact DEF BGetSoc, Unsigned, input
<1>14. CASE BResume
  BY <1>14, QuietExact DEF BResume, Unsigned, input
<1>15. CASE BLoop \/ UNCHANGED vars
  BY <1>15 DEF BLoop, vars, Shape, CopyFresh, Unsigned
<1> QED
  BY <1>1, <1>2, <1>3, <1>4, <1>5, <1>6, <1>7, <1>8, <1>9, <1>10, <1>11, <1>12, <1>13, <1>14, <1>15
  DEF Next

LEMMA BootInvariance == Spec => []BInv
  BY InitBInv, NextBInv, PTL DEF Spec

-----------------------------------------------------------------------------
(* The searches of capman read the kernel's table, not a stale copy of it, *)
(* from capman_init on.                                                    *)
THEOREM CopyIsExact == Spec => []CopyFresh
<1>1. BInv => CopyFresh
  BY DEF BInv
<1> QED BY <1>1, BootInvariance, PTL

(* With SECURITY set, an app whose signature does not match is neither     *)
(* loaded nor resumed and never holds a capability.                        *)
THEOREM OnlySignedAppsStart == Spec => []SignedOnly
<1>1. BInv => SignedOnly
  BY DEF BInv, Unsigned, SignedOnly
<1> QED BY <1>1, BootInvariance, PTL

-----------------------------------------------------------------------------
(* How far setup() is. *)
Early == bpc \in {"init", "monitor", "time", "verify", "load", "refused"}
Connected == bpc \in {"getsoc", "resume", "done"}
Masked == bpc \in {"ipc", "getsoc", "resume", "done"}
TimeGiven == bpc \in {"setpmp", "ipc", "getsoc", "resume", "done"}
UartGiven == bpc \in {"time_give", "setpmp", "ipc", "getsoc", "resume", "done"}
HeapBefore(n) == \E i \in 1 .. n - 1 : Sections[i].name = "heap"

(* Program counters and loop variables: section j has the slots from       *)
(* j - 1 on, one later behind the heap, which has two.                     *)
Place == (j - 1) + (IF HeapBefore(j) THEN 1 ELSE 0) + (IF k # 0 THEN 1 ELSE 0)
Progress ==
    /\ security \in BOOLEAN /\ genuine \in BOOLEAN /\ header \in Headers
    /\ loaded \in BOOLEAN /\ resumed \in BOOLEAN /\ (resumed => bpc = "done")
    /\ bpc \in {"init", "monitor", "time", "verify", "load", "sections", "uart", "time_give",
                "setpmp", "ipc", "getsoc", "resume", "done", "refused"}
    /\ step \in 1 .. 6
    /\ bpc \in {"monitor", "sections", "uart"} => step <= 2
    /\ bpc \notin {"monitor", "sections", "uart", "ipc"} => step = 1
    /\ j \in 1 .. Len(Sections) + 1 /\ k \in {0, NHeap - 1}
    /\ k # 0 => bpc = "sections" /\ j <= Len(Sections) /\ Sections[j].name = "heap"
    /\ bpc = "sections" /\ step = 2 => j <= Len(Sections)
    /\ Early => j = 1
    /\ ~Early /\ bpc # "sections" => j = Len(Sections) + 1
    /\ npmp = Place + (IF UartGiven THEN 1 ELSE 0)
    /\ ipmp = IF Masked THEN 0 .. npmp - 1 ELSE {}
    /\ soccaps = [ch \in 0 .. 1 |-> IF bpc \in {"resume", "done"} THEN 10 + ch ELSE 0]
    /\ bpc = "init" => copy = [i \in Slot |-> NoCap]

(* The monitor's table. *)
Derived == IF PmpCompatible(j, k) THEN Current ELSE NoCap
Temporary ==
    CASE bpc = "sections" /\ step = 2  -> Derived
      [] bpc = "uart" /\ step = 2      -> Pmp("uart", 0, RW)
      [] bpc = "ipc" /\ step = 3       -> Client(0)
      [] bpc = "ipc" /\ step \in {5, 6} -> Server(1)
      [] OTHER                         -> NoCap
Channels == IF Connected THEN 2 ELSE IF bpc # "ipc" \/ step = 1 THEN 0 ELSE IF step <= 4 THEN 1 ELSE 2
Port1 == IF Connected \/ (bpc = "ipc" /\ step >= 2) THEN Server(0) ELSE NoCap
Port2 == IF Connected \/ (bpc = "ipc" /\ step = 6) THEN Client(1) ELSE NoCap
TimeLeft == IF bpc \in {"init", "monitor", "time"} THEN Time(0) ELSE Time(32)
TimeSlice == IF bpc \in {"init", "monitor", "time"} \/ TimeGiven THEN NoCap ELSE Time(0)
OtherHart == IF bpc = "init" THEN Cap("time", "other hart", 0, {}) ELSE NoCap
UartPmp == IF bpc = "init" \/ (bpc = "monitor" /\ step = 1) THEN NoCap ELSE Pmp("uart", 0, RW)
AppPmp == IF bpc \in {"init", "monitor"} THEN NoCap ELSE Pmp("app", 0, RW)
Used == 0 .. 12 \union {24, 32}
MonTable ==
    /\ table["mon"][0] = Pmp("monitor", 0, RWX)
    /\ table["mon"][1] = Memory("ram") /\ table["mon"][2] = Memory("uart")
    /\ table["mon"][3] = TimeLeft
    /\ table["mon"][4] = OtherHart /\ table["mon"][5] = OtherHart /\ table["mon"][6] = OtherHart
    /\ table["mon"][7] = Cap("monitor", "", 0, {})
    /\ table["mon"][8] = Channel(Channels)
    /\ table["mon"][9] = UartPmp
    /\ table["mon"][10] = Port1 /\ table["mon"][11] = Port2
    /\ table["mon"][12] = AppPmp
    /\ table["mon"][24] = TimeSlice
    /\ table["mon"][32] = Temporary
    /\ \A s \in Slot \ Used : table["mon"][s] = NoCap

(* The app's table: the capabilities handed out so far in the slots below  *)
(* npmp, each once, and three slots of their own.  Of the slots below npmp *)
(* only those of sections that the PMP cannot describe are empty.          *)
Earlier == UNION {Section(i) : i \in 1 .. j - 1}
Half == IF k # 0 /\ PmpCompatible(j, 0) THEN {Pmp(Sections[j].name, 0, Sections[j].rwx)} ELSE {}
Uart == IF UartGiven THEN {Pmp("uart", 0, RW)} ELSE {}
Given == Earlier \union Half \union Uart
AppPort1 == IF Connected THEN Server(1) ELSE NoCap
AppPort2 == IF Connected \/ (bpc = "ipc" /\ step >= 4) THEN Client(0) ELSE NoCap
AppTime == IF TimeGiven THEN Time(0) ELSE NoCap
AppTable ==
    /\ table["app"][10] = AppPort1 /\ table["app"][11] = AppPort2 /\ table["app"][15] = AppTime
    /\ \A s \in Slot \ {10, 11, 15} : s >= npmp => table["app"][s] = NoCap
    /\ \A s \in 0 .. npmp - 1 : table["app"][s] \in Given \union {NoCap}
    /\ \A g \in Given : \E s \in 0 .. npmp - 1 : table["app"][s] = g
    /\ \A s, t \in 0 .. npmp - 1 : table["app"][s] = table["app"][t] /\ table["app"][s] # NoCap => s = t
    /\ AllCompatible => \A s \in 0 .. npmp - 1 : table["app"][s] # NoCap

(* Where the heap's two capabilities are, if both chunks suit the PMP. *)
HeapSuits(i) == \A c \in Chunks("heap") : PmpCompatible(i, c)
HeapSlots ==
    \A i \in 1 .. Len(Sections) : Sections[i].name = "heap" /\ HeapSuits(i) =>
        /\ j > i \/ (j = i /\ k # 0) => table["app"][i - 1] = Pmp("heap", 0, Sections[i].rwx)
        /\ j > i => table["app"][i] = Pmp("heap", NHeap - 1, Sections[i].rwx)

Handover == Progress /\ MonTable /\ AppTable /\ HeapSlots

-----------------------------------------------------------------------------
(* Sections are few, of different names and none the UART's. *)
LEMMA SectionFacts ==
    ASSUME header \in Headers
    PROVE  /\ Len(Sections) \in 0 .. 6
           /\ DOMAIN Sections = 1 .. Len(Sections)
           /\ \A i \in 1 .. Len(Sections) :
                 /\ Sections[i].name \in SectionNames \union {"app"} /\ Sections[i].name # "uart"
                 /\ Sections[i].rwx \in SUBSET RWX
           /\ \A i, l \in 1 .. Len(Sections) : Sections[i].name = Sections[l].name => i = l
<1>1. CASE security
  <2>1. Sections = header
    BY <1>1 DEF Sections
  <2>2. header \in Seq([name : SectionNames, offset : Nat, size : Nat, rwx : SUBSET RWX]) /\ Len(header) <= 6
    BY HeadersAssumption DEF RWX
  <2>3. \A i, l \in DOMAIN header : header[i].name = header[l].name => i = l
    BY HeadersAssumption
  <2>4. Len(header) \in Nat /\ DOMAIN header = 1 .. Len(header)
    BY <2>2
  <2>5. ASSUME NEW i \in 1 .. Len(header)
        PROVE  header[i].name \in SectionNames /\ header[i].name # "uart" /\ header[i].rwx \in SUBSET RWX
    <3>1. header[i] \in [name : SectionNames, offset : Nat, size : Nat, rwx : SUBSET RWX]
      BY <2>2, ElementOfSeq
    <3> QED BY <3>1 DEF SectionNames
  <2>6. Len(header) \in 0 .. 6 /\ DOMAIN header = 1 .. Len(header)
    <3> DEFINE n == Len(header)
    <3>1. n \in Nat /\ n <= 6
      BY <2>2, <2>4
    <3> HIDE DEF n
    <3>2. n \in 0 .. 6
      BY <3>1
    <3> QED BY <2>4, <3>2 DEF n
  <2>7. \A i \in 1 .. Len(header) : header[i].name \in SectionNames \union {"app"}
    BY <2>5
  <2> QED BY <2>1, <2>3, <2>5, <2>6, <2>7
<1>2. CASE ~security
  <2>1. Sections = << [name |-> "app", offset |-> 0, size |-> APP_SIZE, rwx |-> RWX] >>
    BY <1>2 DEF Sections
  <2>2. Len(Sections) = 1 /\ DOMAIN Sections = 1 .. 1
    BY <2>1
  <2>3. Sections[1].name = "app" /\ Sections[1].rwx = RWX
    BY <2>1
  <2> QED BY <2>2, <2>3
<1> QED BY <1>1, <1>2

(* What the header alone decides. *)
LEMMA SameHeader ==
    ASSUME UNCHANGED <<security, header>>
    PROVE  /\ Sections' = Sections /\ AllCompatible' = AllCompatible
           /\ \A i, c : PmpCompatible(i, c)' = PmpCompatible(i, c)
           /\ \A i : Section(i)' = Section(i)
           /\ \A i : HeapSuits(i)' = HeapSuits(i)
<1>1. Sections' = Sections
  BY DEF Sections
<1>2. \A i, c : PmpCompatible(i, c)' = PmpCompatible(i, c)
  BY <1>1 DEF PmpCompatible, Begin, Size
<1>3. AllCompatible' = AllCompatible /\ \A i : HeapSuits(i)' = HeapSuits(i)
  BY <1>1, <1>2 DEF AllCompatible, HeapSuits
<1>4. \A i : Section(i)' = Section(i)
  BY <1>1, <1>2 DEF Section
<1> QED BY <1>1, <1>2, <1>3, <1>4

(* The regions that are not a section's suit the PMP. *)
LEMMA FixedRegions == Napot(UART_BASE, UART_SIZE) /\ Napot(APP_BASE, APP_SIZE)
  BY DEF Napot, NapotSizes, UART_BASE, UART_SIZE, APP_BASE, APP_SIZE

LEMMA SectionRange ==
    ASSUME NEW n \in 0 .. 6, NEW i \in 1 .. n
    PROVE  i - 1 \in 0 .. 8 /\ i \in 0 .. 8
  OBVIOUS

LEMMA Slots == NCAP \in Nat /\ NCAP > 48 /\ NHeap \in Nat /\ NHeap >= 2 /\ 0 .. 48 \subseteq Slot
  BY BootAssumption DEF Slot

(* Never more than eight, the size of the PMP register. *)
LEMMA FewPmps ==
    ASSUME Progress
    PROVE  npmp \in 0 .. 8 /\ (bpc = "sections" => npmp \in 0 .. 7)
                           /\ (~UartGiven => npmp \in 0 .. 7)
                           /\ (bpc = "sections" /\ step = 2 => npmp \in 0 .. 6)
                           /\ Place \in 0 .. 7
<1> DEFINE n == Len(Sections)
<1>1. n \in 0 .. 6 /\ \A i, l \in 1 .. n : Sections[i].name = Sections[l].name => i = l
  BY SectionFacts DEF Progress
<1> HIDE DEF n
<1>2. j \in 1 .. n + 1 /\ k \in {0, NHeap - 1} /\ NHeap - 1 # 0
  BY Slots DEF Progress, n
<1>3. k # 0 => j \in 1 .. n /\ ~HeapBefore(j)
  BY <1>1, <1>2 DEF Progress, HeapBefore, n
<1>4. Place \in 0 .. 7 /\ (j <= n => Place \in 0 .. 6)
  BY <1>1, <1>2, <1>3 DEF Place, HeapBefore
<1> QED BY <1>4 DEF Progress, UartGiven, n

(* A derivation with one possible source succeeds. *)
LEMMA DeriveFrom ==
    ASSUME Shape, copy = table["mon"], NEW slot \in Slot, NEW cap, NEW source \in Slot,
           Derivable(table["mon"][source], cap),
           \A s \in Slot : Derivable(table["mon"][s], cap) => s = source,
           table["mon"][slot] = NoCap, capman_derive(slot, cap), slot # source
    PROVE  /\ table'["app"] = table["app"]
           /\ table'["mon"] = [s \in Slot |-> IF s = slot THEN cap
                                 ELSE IF s = source THEN Remaining(table["mon"][source], cap)
                                 ELSE table["mon"][s]]
<1>1. Sources(cap) = {source}
  BY DEF Sources
<1>2. Highest({source}) = source
  BY DEF Highest, Slot
<1>3. table' = [table EXCEPT !["mon"][source] = Remaining(@, cap), !["mon"][slot] = cap]
  BY <1>1, <1>2 DEF capman_derive
<1> QED BY <1>3 DEF Shape, Proc

(* A gift of something into an empty slot succeeds. *)
LEMMA GiveTo ==
    ASSUME Shape, NEW src \in Slot, NEW dest \in Slot, table["mon"][src] # NoCap,
           table["app"][dest] = NoCap, capman_mgivecap(src, dest)
    PROVE  /\ table'["mon"] = [s \in Slot |-> IF s = src THEN NoCap ELSE table["mon"][s]]
           /\ table'["app"] = [s \in Slot |-> IF s = dest THEN table["mon"][src] ELSE table["app"][s]]
  BY DEF capman_mgivecap, Shape, Proc

(* What the constructors of capabilities tell apart. *)
LEMMA Kinds ==
    /\ NoCap.type = "none"
    /\ \A of : Memory(of).type = "memory" /\ Memory(of).of = of
    /\ \A of, c, rwx : Pmp(of, c, rwx).type = "pmp" /\ Pmp(of, c, rwx).of = of /\ Pmp(of, c, rwx).n = c
    /\ \A n : Time(n).type = "time" /\ Time(n).n = n
    /\ \A n : Channel(n).type = "channel" /\ Channel(n).n = n
    /\ \A n : Server(n).type = "socket" /\ Server(n).of = "server" /\ Server(n).n = n
    /\ \A n : Client(n).type = "socket" /\ Client(n).of = "client" /\ Client(n).n = n
  BY DEF NoCap, Memory, Pmp, Time, Channel, Server, Client, Cap

(* A capability of another type is none of those that others come from. *)
LEMMA OtherType ==
    ASSUME NEW cap
    PROVE  /\ cap.type # "memory" => cap # Memory("ram") /\ cap # Memory("uart")
           /\ cap.type # "socket" => cap # Server(0) /\ cap # Server(1)
           /\ cap.type # "time" => cap # Time(0)
<1>1. cap.type # "memory" => cap # Memory("ram") /\ cap # Memory("uart")
  BY Kinds
<1>2. cap.type # "socket" => cap # Server(0) /\ cap # Server(1)
  BY Kinds
<1>3. cap.type # "time" => cap # Time(0)
  BY Kinds
<1> QED BY <1>1, <1>2, <1>3

(* Where the capabilities are that others are derived from. *)
LEMMA MonFacts ==
    ASSUME MonTable, NEW s \in Slot
    PROVE  /\ table["mon"][s] = Memory("ram") <=> s = 1
           /\ table["mon"][s] = Memory("uart") <=> s = 2
           /\ table["mon"][s].type = "channel" <=> s = 8
           /\ table["mon"][s] = Server(0) => s = 10
           /\ table["mon"][s] = Server(1) => s = 32
           /\ table["mon"][s] = Time(0) => s \in {3, 24}
<1>1. Temporary.type \notin {"memory", "channel", "time"} /\ Temporary # Server(0)
  <2>1. Current.type = "pmp"
    BY Kinds DEF Current
  <2>2. Temporary \in {NoCap, Current, Pmp("uart", 0, RW), Client(0), Server(1)}
    BY DEF Temporary, Derived
  <2> QED BY <2>1, <2>2, Kinds
<1>2. /\ Port1 \in {NoCap, Server(0)} /\ Port2 \in {NoCap, Client(1)}
      /\ TimeLeft.type = "time" /\ TimeSlice \in {NoCap, Time(0)}
      /\ UartPmp.type \in {"none", "pmp"} /\ AppPmp.type \in {"none", "pmp"}
  BY Kinds DEF Port1, Port2, TimeLeft, TimeSlice, UartPmp, AppPmp
<1>3. /\ Cap("monitor", "", 0, {}).type = "monitor" /\ OtherHart \in {NoCap, Cap("time", "other hart", 0, {})}
      /\ Cap("time", "other hart", 0, {}).type = "time" /\ Cap("time", "other hart", 0, {}).of # Time(0).of
  BY DEF Cap, OtherHart, Time
<1>4. /\ NoCap.type = "none" /\ Memory("ram").type = "memory" /\ Memory("uart").type = "memory"
      /\ Memory("ram").of = "ram" /\ Memory("uart").of = "uart"
      /\ Channel(Channels).type = "channel" /\ Time(0).type = "time"
      /\ Server(0).type = "socket" /\ Server(1).type = "socket" /\ Server(0).n = 0 /\ Server(1).n = 1
      /\ Client(1).type = "socket" /\ Client(1).of = "client" /\ Server(0).of = "server" /\ Server(1).of = "server"
      /\ Pmp("monitor", 0, RWX).type = "pmp"
  BY Kinds
<1> DEFINE cap == table["mon"][s]
<1>5. CASE s \notin Used
  <2>1. cap = NoCap
    BY <1>5 DEF MonTable
  <2>2. s \notin {1, 2, 8, 10, 32, 3, 24}
    BY <1>5 DEF Used
  <2> QED BY <1>4, <2>1, <2>2
<1>6. CASE s = 0 \/ s = 7 \/ s = 9 \/ s = 12
  <2>1. cap \in {Pmp("monitor", 0, RWX), Cap("monitor", "", 0, {}), UartPmp, AppPmp}
    BY <1>6 DEF MonTable
  <2> HIDE DEF cap
  <2>2. cap.type \in {"pmp", "monitor", "none"}
    BY <1>2, <1>3, <1>4, <2>1
  <2> QED BY <1>6, <2>2, OtherType DEF cap
<1>7. CASE s = 1 \/ s = 2
  <2>1. cap = IF s = 1 THEN Memory("ram") ELSE Memory("uart")
    BY <1>7 DEF MonTable
  <2> HIDE DEF cap
  <2>2. cap.type = "memory" /\ (cap = Memory("ram") <=> s = 1) /\ (cap = Memory("uart") <=> s = 2)
    BY <1>4, <1>7, <2>1
  <2> QED BY <1>7, <2>2, OtherType DEF cap
<1>13. CASE s = 8
  <2>1. cap.type = "channel"
    BY <1>4, <1>13 DEF MonTable
  <2> HIDE DEF cap
  <2> QED BY <1>13, <2>1, OtherType DEF cap
<1>8. CASE s = 3 \/ s = 24
  <2>1. cap \in {TimeLeft, TimeSlice}
    BY <1>8 DEF MonTable
  <2> HIDE DEF cap
  <2>2. cap.type \in {"time", "none"}
    BY <1>2, <1>4, <2>1
  <2> QED BY <1>8, <2>2, OtherType DEF cap
<1>9. CASE s = 4 \/ s = 5 \/ s = 6
  <2>1. cap = OtherHart
    BY <1>9 DEF MonTable
  <2> HIDE DEF cap
  <2>2. cap.type \in {"time", "none"} /\ cap # Time(0)
    BY <1>3, <1>4, <2>1
  <2> QED BY <1>9, <2>2, OtherType DEF cap
<1>10. CASE s = 10
  <2>1. cap \in {NoCap, Server(0)}
    BY <1>2, <1>10 DEF MonTable
  <2> HIDE DEF cap
  <2>2. cap.type \in {"none", "socket"} /\ (cap.type = "socket" => cap.n = 0)
    BY <1>4, <2>1
  <2>3. cap # Memory("ram") /\ cap # Memory("uart") /\ cap # Server(1) /\ cap # Time(0)
    BY <1>4, <2>2
  <2> QED BY <1>10, <2>2, <2>3 DEF cap
<1>12. CASE s = 11
  <2>1. cap \in {NoCap, Client(1)}
    BY <1>2, <1>12 DEF MonTable
  <2> HIDE DEF cap
  <2>2. cap.type \in {"none", "socket"} /\ (cap.type = "socket" => cap.of = "client")
    BY <1>4, <2>1
  <2>3. cap # Memory("ram") /\ cap # Memory("uart") /\ cap # Server(0) /\ cap # Server(1) /\ cap # Time(0)
    BY <1>4, <2>2
  <2> QED BY <1>12, <2>2, <2>3 DEF cap
<1>11. CASE s = 32
  <2>1. cap = Temporary
    BY <1>11 DEF MonTable
  <2> HIDE DEF cap
  <2>2. cap.type \notin {"memory", "channel", "time"} /\ cap # Server(0)
    BY <1>1, <2>1
  <2> QED BY <1>11, <2>2, OtherType DEF cap
<1> QED
  <2>1. s \notin Used \/ s \in 0 .. 12 \/ s = 24 \/ s = 32
    BY DEF Used
  <2> QED BY <1>5, <1>6, <1>7, <1>8, <1>9, <1>10, <1>11, <1>12, <1>13, <2>1

LEMMA PmpSource ==
    ASSUME NEW parent, NEW of, NEW c, NEW rwx
    PROVE  Derivable(parent, Pmp(of, c, rwx)) <=> parent = Memory(IF of = "uart" THEN "uart" ELSE "ram")
  BY DEF Derivable, Pmp, Cap

(* A PMP is derived from the memory it lies in, which stays as it is. *)
LEMMA DerivePmp ==
    ASSUME Shape, copy = table["mon"], MonTable, NEW slot \in Slot, NEW of, NEW c, NEW rwx,
           table["mon"][slot] = NoCap, capman_derive(slot, Pmp(of, c, rwx))
    PROVE  /\ table'["app"] = table["app"]
           /\ table'["mon"] = [s \in Slot |-> IF s = slot THEN Pmp(of, c, rwx) ELSE table["mon"][s]]
<1> DEFINE source == IF of = "uart" THEN 2 ELSE 1
<1>1. source \in Slot /\ Derivable(table["mon"][source], Pmp(of, c, rwx)) /\ source # slot
  <2>1. source \in Slot /\ table["mon"][source] = Memory(IF of = "uart" THEN "uart" ELSE "ram")
    BY MonFacts, Slots
  <2> QED BY <2>1, PmpSource, Kinds
<1>2. \A s \in Slot : Derivable(table["mon"][s], Pmp(of, c, rwx)) => s = source
  BY MonFacts, PmpSource
<1>3. Remaining(table["mon"][source], Pmp(of, c, rwx)) = table["mon"][source]
  BY MonFacts, Slots DEF Remaining, Memory, Cap
<1> HIDE DEF source
<1>4. /\ table'["app"] = table["app"]
      /\ table'["mon"] = [s \in Slot |-> IF s = slot THEN Pmp(of, c, rwx)
              ELSE IF s = source THEN Remaining(table["mon"][source], Pmp(of, c, rwx)) ELSE table["mon"][s]]
  BY <1>1, <1>2, DeriveFrom
<1> QED BY <1>3, <1>4

(* Steps that leave the app's table, and what it should hold, alone. *)
LEMMA AppKept ==
    ASSUME Progress, AppTable, HeapSlots, table'["app"] = table["app"],
           UNCHANGED <<security, header, j, k, npmp>>, UartGiven' = UartGiven,
           AppPort1' = AppPort1, AppPort2' = AppPort2, AppTime' = AppTime
    PROVE  AppTable' /\ HeapSlots'
<1>1. /\ Sections' = Sections /\ AllCompatible' = AllCompatible
      /\ \A i, c : PmpCompatible(i, c)' = PmpCompatible(i, c)
      /\ \A i : Section(i)' = Section(i) /\ HeapSuits(i)' = HeapSuits(i)
  BY SameHeader
<1>2. Given' = Given
  <2>1. Earlier' = Earlier /\ Uart' = Uart
    BY <1>1 DEF Earlier, Uart
  <2>2. Half' = Half
    <3>1. PmpCompatible(j, 0)' = PmpCompatible(j, 0)
      BY <1>1 DEF PmpCompatible, Begin, Size
    <3> QED BY <1>1, <3>1 DEF Half
  <2> QED BY <2>1, <2>2 DEF Given
<1> QED BY <1>1, <1>2 DEF AppTable, HeapSlots

(* A gift into one of the three slots behind the PMPs. *)
LEMMA AppGetsOther ==
    ASSUME Progress, AppTable, HeapSlots, NEW dest \in {10, 11, 15}, NEW c,
           table'["app"] = [s \in Slot |-> IF s = dest THEN c ELSE table["app"][s]],
           UNCHANGED <<security, header, j, k, npmp>>, UartGiven' = UartGiven,
           AppPort1' = IF dest = 10 THEN c ELSE AppPort1,
           AppPort2' = IF dest = 11 THEN c ELSE AppPort2,
           AppTime' = IF dest = 15 THEN c ELSE AppTime
    PROVE  AppTable' /\ HeapSlots'
<1>1. /\ Sections' = Sections /\ Len(Sections) \in 0 .. 6 /\ AllCompatible' = AllCompatible
      /\ \A i : Section(i)' = Section(i) /\ HeapSuits(i)' = HeapSuits(i)
  BY SameHeader, SectionFacts DEF Progress
<1>2. Given' = Given
  <2>1. Earlier' = Earlier /\ Uart' = Uart
    BY <1>1 DEF Earlier, Uart
  <2>2. Half' = Half
    <3>1. PmpCompatible(j, 0)' = PmpCompatible(j, 0)
      BY <1>1 DEF PmpCompatible, Begin, Size
    <3> QED BY <1>1, <3>1 DEF Half
  <2> QED BY <2>1, <2>2 DEF Given
<1>3. npmp \in 0 .. 8
  BY FewPmps
<1>4. \A s \in 0 .. 8 : s \in Slot /\ table'["app"][s] = table["app"][s]
  BY Slots
<1>5. AppTable'
  <2>1. \A s \in Slot : table'["app"][s] = IF s = dest THEN c ELSE table["app"][s]
    OBVIOUS
  <2>2. 10 \in Slot /\ 11 \in Slot /\ 15 \in Slot
    BY Slots
  <2>3. \A s \in 0 .. npmp - 1 : table'["app"][s] = table["app"][s]
    BY <1>3, <1>4
  <2>4. npmp' = npmp
    OBVIOUS
  <2>5. table'["app"][10] = AppPort1' /\ table'["app"][11] = AppPort2' /\ table'["app"][15] = AppTime'
    BY <2>1, <2>2 DEF AppTable
  <2>6. \A s \in Slot \ {10, 11, 15} : s >= npmp' => table'["app"][s] = NoCap
    BY <2>1, <2>4 DEF AppTable
  <2>7. \A s \in 0 .. npmp' - 1 : table'["app"][s] \in Given' \union {NoCap}
    BY <1>2, <2>3, <2>4 DEF AppTable
  <2>8. \A g \in Given' : \E s \in 0 .. npmp' - 1 : table'["app"][s] = g
    BY <1>2, <2>3, <2>4 DEF AppTable
  <2>9. /\ \A s, t \in 0 .. npmp' - 1 : table'["app"][s] = table'["app"][t] /\ table'["app"][s] # NoCap => s = t
        /\ AllCompatible' => \A s \in 0 .. npmp' - 1 : table'["app"][s] # NoCap
    BY <1>1, <2>3, <2>4 DEF AppTable
  <2> QED BY <2>5, <2>6, <2>7, <2>8, <2>9 DEF AppTable
<1>6. HeapSlots'
  <2>1. \A i \in 1 .. Len(Sections) : i - 1 \in 0 .. 8 /\ i \in 0 .. 8
    BY <1>1, SectionRange
  <2>2. j' = j /\ k' = k
    OBVIOUS
  <2> QED BY <1>1, <1>4, <2>1, <2>2 DEF HeapSlots
<1> QED BY <1>5, <1>6

(* A gift into the next slot for a PMP, which stays empty if there is      *)
(* nothing to give.                                                        *)
LEMMA AppGetsPmp ==
    ASSUME Progress, AppTable, NEW c, npmp <= 7,
           table'["app"] = [s \in Slot |-> IF s = npmp THEN c ELSE table["app"][s]],
           npmp' = npmp + 1, c \notin Given, Given' = Given \union ({c} \ {NoCap}),
           AllCompatible' = AllCompatible, c = NoCap => ~AllCompatible,
           AppPort1' = AppPort1, AppPort2' = AppPort2, AppTime' = AppTime
    PROVE  AppTable'
<1>1. npmp \in 0 .. 7 /\ npmp \in Slot /\ \A s \in 0 .. npmp : s \in Slot
  BY FewPmps, Slots
<1>2. \A s \in 0 .. npmp - 1 : table'["app"][s] = table["app"][s] /\ (c # NoCap => table["app"][s] # c)
  BY <1>1 DEF AppTable
<1>3. table'["app"][npmp] = c
  BY <1>1
<1>4. 0 .. npmp' - 1 = (0 .. npmp - 1) \union {npmp} /\ npmp \notin 0 .. npmp - 1
  BY <1>1
<1>5. /\ table'["app"][10] = AppPort1' /\ table'["app"][11] = AppPort2' /\ table'["app"][15] = AppTime'
      /\ \A s \in Slot \ {10, 11, 15} : s >= npmp' => table'["app"][s] = NoCap
  BY <1>1, Slots DEF AppTable, Slot
<1>6. \A s \in 0 .. npmp' - 1 : table'["app"][s] \in Given' \union {NoCap}
  BY <1>2, <1>3, <1>4 DEF AppTable
<1>7. \A g \in Given' : \E s \in 0 .. npmp' - 1 : table'["app"][s] = g
  <2> SUFFICES ASSUME NEW g \in Given' PROVE \E s \in 0 .. npmp' - 1 : table'["app"][s] = g
    OBVIOUS
  <2>1. g \in Given \/ g = c
    OBVIOUS
  <2> QED BY <1>2, <1>3, <1>4, <2>1 DEF AppTable
<1>8. \A s, t \in 0 .. npmp' - 1 : table'["app"][s] = table'["app"][t] /\ table'["app"][s] # NoCap => s = t
  BY <1>2, <1>3, <1>4 DEF AppTable
<1>9. AllCompatible' => \A s \in 0 .. npmp' - 1 : table'["app"][s] # NoCap
  BY <1>2, <1>3, <1>4 DEF AppTable
<1> QED BY <1>5, <1>6, <1>7, <1>8, <1>9 DEF AppTable

-----------------------------------------------------------------------------
LEMMA InitHandover == Init => Handover
<1> SUFFICES ASSUME Init PROVE Handover
  OBVIOUS
<1>2. Progress
  <2>1. Len(Sections) \in 0 .. 6 /\ ~HeapBefore(1)
    BY SectionFacts DEF Init, HeapBefore
  <2>2. npmp = Place
    BY <2>1 DEF Init, Place
  <2>3. bpc = "init" /\ step = 1 /\ j = 1 /\ k = 0 /\ ipmp = {} /\ ~loaded /\ ~resumed
    BY DEF Init
  <2>4. soccaps = [ch \in 0 .. 1 |-> 0] /\ security \in BOOLEAN /\ genuine \in BOOLEAN /\ header \in Headers
    BY DEF Init
  <2>5. loaded \in BOOLEAN /\ resumed \in BOOLEAN
    BY DEF Init
  <2>6. soccaps = [ch \in 0 .. 1 |-> IF bpc \in {"resume", "done"} THEN 10 + ch ELSE 0]
    BY <2>3, <2>4
  <2>7. ipmp = IF Masked THEN 0 .. npmp - 1 ELSE {}
    BY <2>3 DEF Masked
  <2>8. npmp = Place + (IF UartGiven THEN 1 ELSE 0)
    BY <2>1, <2>2, <2>3, Slots DEF UartGiven, Init
  <2>9. j \in 1 .. Len(Sections) + 1 /\ k \in {0, NHeap - 1}
    BY <2>1, <2>3
  <2>10. copy = [i \in Slot |-> NoCap]
    BY DEF Init
  <2> QED BY <2>3, <2>4, <2>5, <2>6, <2>7, <2>8, <2>9, <2>10 DEF Progress, Early
<1>3. MonTable
  <2>1. table["mon"] = FirstCaps
    BY DEF Init, BootTable, Proc
  <2>2. /\ Channels = 0 /\ Temporary = NoCap /\ Port1 = NoCap /\ Port2 = NoCap /\ TimeLeft = Time(0)
        /\ TimeSlice = NoCap /\ OtherHart = Cap("time", "other hart", 0, {}) /\ UartPmp = NoCap /\ AppPmp = NoCap
    BY DEF Init, Channels, Connected, Temporary, Port1, Port2, TimeLeft, TimeSlice, OtherHart, UartPmp, AppPmp
  <2>3. /\ FirstCaps[0] = Pmp("monitor", 0, RWX) /\ FirstCaps[1] = Memory("ram") /\ FirstCaps[2] = Memory("uart")
        /\ FirstCaps[3] = Time(0) /\ FirstCaps[7] = Cap("monitor", "", 0, {}) /\ FirstCaps[8] = Channel(0)
    BY Slots DEF FirstCaps
  <2>4. /\ FirstCaps[4] = Cap("time", "other hart", 0, {}) /\ FirstCaps[5] = Cap("time", "other hart", 0, {})
        /\ FirstCaps[6] = Cap("time", "other hart", 0, {})
    BY Slots DEF FirstCaps
  <2>5. ASSUME NEW s \in Slot, s \notin 0 .. 8 PROVE FirstCaps[s] = NoCap
    <3>1. /\ s # 0 /\ s # 1 /\ s # 2 /\ s # 3 /\ s \notin {4, 5, 6} /\ s # 7 /\ s # 8
      BY <2>5
    <3> QED BY <3>1, Zenon DEF FirstCaps
  <2>6. \A s \in Slot \ Used : FirstCaps[s] = NoCap
    BY <2>5 DEF Used
  <2>7. /\ FirstCaps[9] = NoCap /\ FirstCaps[10] = NoCap /\ FirstCaps[11] = NoCap /\ FirstCaps[12] = NoCap
        /\ FirstCaps[24] = NoCap /\ FirstCaps[32] = NoCap
    BY <2>5, Slots
  <2> QED BY <2>1, <2>2, <2>3, <2>4, <2>6, <2>7 DEF MonTable
<1>4. \A s \in Slot : table["app"][s] = NoCap
  BY DEF Init, BootTable, Proc
<1>5. Given = {} /\ AppPort1 = NoCap /\ AppPort2 = NoCap /\ AppTime = NoCap
  BY DEF Init, Given, Earlier, Half, Uart, UartGiven, AppPort1, AppPort2, AppTime, Connected, TimeGiven
<1>6. AppTable
  BY <1>4, <1>5, Slots DEF AppTable, Init
<1>7. HeapSlots
  BY SectionFacts DEF HeapSlots, Init
<1> QED BY <1>2, <1>3, <1>6, <1>7 DEF Handover

-----------------------------------------------------------------------------
LEMMA Lengths ==
    /\ Len(setup_monitor) = 2 /\ Len(setup_time_slices) = 1 /\ Len(setup_uart) = 2
    /\ Len(<< Give(TimeSlot, AppTimeSlot) >>) = 1 /\ Len(setup_ipc) = 6
  BY DEF setup_monitor, setup_time_slices, setup_uart, setup_ipc

(* What the loop over the sections counts. *)
LEMMA PlaceStep ==
    ASSUME Progress, bpc = "sections", j <= Len(Sections), NextPmp, UNCHANGED <<security, header>>
    PROVE  /\ Place' = Place + 1
           /\ j' \in 1 .. Len(Sections) + 1 /\ k' \in {0, NHeap - 1}
           /\ k' # 0 => j' = j /\ Sections[j].name = "heap"
<1>1. Sections' = Sections /\ Len(Sections) \in 0 .. 6
  BY SectionFacts DEF Sections, Progress
<1>2. \A i, l \in 1 .. Len(Sections) : Sections[i].name = Sections[l].name => i = l
  BY SectionFacts DEF Progress
<1> DEFINE n == Len(Sections)
<1>3. j \in 1 .. n /\ k \in {0, NHeap - 1} /\ NHeap \in Nat /\ NHeap >= 2
      /\ (k # 0 => Sections[j].name = "heap")
  BY <1>1, Slots DEF Progress
<1>4. CASE Sections[j].name = "heap" /\ k = 0
  <2>1. k' = NHeap - 1 /\ j' = j
    BY <1>3, <1>4 DEF NextPmp
  <2>2. HeapBefore(j)' <=> HeapBefore(j)
    BY <1>1, <2>1 DEF HeapBefore
  <2> QED BY <1>1, <1>3, <1>4, <2>1, <2>2 DEF Place
<1>5. CASE ~(Sections[j].name = "heap" /\ k = 0)
  <2>1. k' = 0 /\ j' = j + 1
    BY <1>3, <1>5 DEF NextPmp
  <2>2. HeapBefore(j)' <=> (HeapBefore(j) \/ Sections[j].name = "heap")
    BY <1>1, <1>3, <2>1 DEF HeapBefore
  <2>3. Sections[j].name = "heap" => ~HeapBefore(j)
    BY <1>1, <1>2, <1>3 DEF HeapBefore
  <2>4. Sections[j].name = "heap" <=> k # 0
    BY <1>3, <1>5
  <2> QED BY <1>1, <1>3, <2>1, <2>2, <2>3, <2>4 DEF Place
<1> QED BY <1>4, <1>5

(* The sockets capman_getsoc finds. *)
LEMMA SocketsFound ==
    ASSUME BInv, MonTable, bpc = "getsoc"
    PROVE  /\ {i \in Slot : copy[i].type = "socket" /\ copy[i].n = 0} = {10}
           /\ {i \in Slot : copy[i].type = "socket" /\ copy[i].n = 1} = {11}
<1>1. copy = table["mon"]
  BY DEF BInv, CopyFresh
<1>2. /\ table["mon"][10] = Server(0) /\ table["mon"][11] = Client(1) /\ table["mon"][32] = NoCap
      /\ table["mon"][24] = NoCap /\ table["mon"][3] = Time(32) /\ table["mon"][8] = Channel(2)
      /\ table["mon"][9] = Pmp("uart", 0, RW) /\ table["mon"][12] = Pmp("app", 0, RW)
  BY DEF MonTable, Port1, Port2, Temporary, TimeSlice, TimeLeft, Channels, UartPmp, AppPmp, TimeGiven, Connected
<1>3. /\ NoCap.type # "socket" /\ Server(0).type = "socket" /\ Server(0).n = 0 /\ Client(1).type = "socket"
      /\ Client(1).n = 1 /\ Time(32).type # "socket" /\ Channel(2).type # "socket"
      /\ Pmp("uart", 0, RW).type # "socket" /\ Pmp("app", 0, RW).type # "socket"
      /\ Pmp("monitor", 0, RWX).type # "socket" /\ Memory("ram").type # "socket" /\ Memory("uart").type # "socket"
  BY Kinds
<1>4. Cap("monitor", "", 0, {}).type # "socket" /\ OtherHart = NoCap
  BY DEF Cap, OtherHart
<1>5. ASSUME NEW i \in Slot, i # 10, i # 11 PROVE table["mon"][i].type # "socket"
  <2>1. CASE i \notin Used
    BY <1>3, <2>1 DEF MonTable
  <2>2. CASE i \in 0 .. 12
    <3>1. CASE i \in {0, 1, 2, 3}
      BY <1>2, <1>3, <3>1 DEF MonTable
    <3>2. CASE i \in {4, 5, 6, 7}
      BY <1>3, <1>4, <3>2 DEF MonTable
    <3>3. CASE i \in {8, 9, 12}
      BY <1>2, <1>3, <3>3
    <3> QED BY <1>5, <2>2, <3>1, <3>2, <3>3
  <2>3. CASE i \in {24, 32}
    BY <1>2, <1>3, <2>3
  <2> QED BY <2>1, <2>2, <2>3 DEF Used
<1>6. 10 \in Slot /\ 11 \in Slot
  BY Slots
<1> QED BY <1>1, <1>2, <1>3, <1>5, <1>6

LEMMA NextProgress ==
    ASSUME BInv, Progress, MonTable, [Next]_vars
    PROVE  Progress'
<1>1. Len(Sections) \in 0 .. 6
  BY SectionFacts DEF Progress
<1>2. ASSUME UNCHANGED <<security, header, j, k>>
      PROVE  Place' = Place /\ Len(Sections)' = Len(Sections) /\ Sections' = Sections
  BY <1>2 DEF Sections, Place, HeapBefore
<1>3. NHeap - 1 # 0
  BY Slots
<1> USE DEF input, counters, appState, capVars
<1>4. CASE BInit
  BY <1>2, <1>4 DEF BInit, Progress, Early, Masked, UartGiven
<1>5. CASE BMonitor
  BY <1>2, <1>5, Lengths DEF BMonitor, Run, Progress, Early, Masked, UartGiven
<1>6. CASE BTime
  BY <1>2, <1>6, Lengths DEF BTime, Run, Progress, Early, Masked, UartGiven
<1>7. CASE BVerify
  BY <1>2, <1>7 DEF BVerify, Progress, Early, Masked, UartGiven
<1>8. CASE BLoad
  BY <1>2, <1>8 DEF BLoad, Progress, Early, Masked, UartGiven
<1>9. CASE BDerive
  BY <1>2, <1>9 DEF BDerive, Progress, Early, Masked, UartGiven
<1>10. CASE BGive
  <2>1. Sections' = Sections /\ Len(Sections') = Len(Sections)
    BY <1>10 DEF BGive, Sections
  <2>2. /\ Place' = Place + 1 /\ j' \in 1 .. Len(Sections) + 1 /\ k' \in {0, NHeap - 1}
        /\ k' # 0 => j' = j /\ Sections[j].name = "heap"
    BY <1>10, PlaceStep DEF BGive
  <2>3. npmp' = npmp + 1 /\ bpc' = bpc /\ bpc = "sections" /\ step' = 1
    BY <1>10 DEF BGive
  <2>4. npmp = Place /\ Place \in Int /\ ipmp' = {} /\ ~Masked' /\ ~UartGiven'
    <3>1. Place \in Int
      BY FewPmps
    <3>2. ~UartGiven /\ ~Masked /\ ~Masked' /\ ~UartGiven'
      BY <2>3 DEF Masked, UartGiven
    <3>3. npmp = Place /\ ipmp = {}
      BY <3>1, <3>2 DEF Progress
    <3> QED BY <1>10, <3>1, <3>2, <3>3 DEF BGive
  <2> QED BY <1>10, <2>1, <2>2, <2>3, <2>4 DEF BGive, Progress, Early
<1>11. CASE BSectionsDone
  BY <1>1, <1>2, <1>11 DEF BSectionsDone, Progress, Early, Masked, UartGiven
<1>12. CASE BUart
  <2>1. Place \in Int
    BY FewPmps
  <2> QED BY <1>2, <1>12, <2>1, Lengths DEF BUart, Run, Progress, Early, Masked, UartGiven
<1>13. CASE BTimeGive
  BY <1>2, <1>13, Lengths DEF BTimeGive, Run, Progress, Early, Masked, UartGiven
<1>14. CASE BSetPmp
  <2>1. {s \in 0 .. npmp - 1 : s < 8} = 0 .. npmp - 1
    BY FewPmps
  <2> QED BY <1>2, <1>14, <2>1 DEF BSetPmp, Progress, Early, Masked, UartGiven
<1>15. CASE BIpc
  BY <1>2, <1>15, Lengths DEF BIpc, Run, Progress, Early, Masked, UartGiven
<1>16. CASE BGetSoc
  <2>1. bpc = "getsoc" /\ bpc' = "resume" /\ DOMAIN soccaps = 0 .. 1
    BY <1>16 DEF BGetSoc, Progress
  <2>2. soccaps' = [ch \in 0 .. 1 |-> IF ch = 0 THEN 10 ELSE 11]
    <3>1. Highest({10}) = 10 /\ Highest({11}) = 11
      BY DEF Highest
    <3>2. soccaps' = [ch \in 0 .. 1 |->
             LET S == {i \in Slot : copy[i].type = "socket" /\ copy[i].n = ch} IN
             IF S = {} THEN soccaps[ch] ELSE Highest(S)]
      BY <1>16, <2>1 DEF BGetSoc
    <3>3. /\ {i \in Slot : copy[i].type = "socket" /\ copy[i].n = 0} = {10}
          /\ {i \in Slot : copy[i].type = "socket" /\ copy[i].n = 1} = {11}
      BY <2>1, SocketsFound
    <3>4. \A ch \in 0 .. 1 : soccaps'[ch] = IF ch = 0 THEN 10 ELSE 11
      <4> DEFINE Found(ch) == {i \in Slot : copy[i].type = "socket" /\ copy[i].n = ch}
      <4>1. \A ch \in 0 .. 1 : soccaps'[ch] = IF Found(ch) = {} THEN soccaps[ch] ELSE Highest(Found(ch))
        BY <3>2
      <4>2. Found(0) = {10} /\ Found(1) = {11}
        BY <3>3
      <4> HIDE DEF Found
      <4> QED BY <3>1, <4>1, <4>2
    <3> QED BY <3>2, <3>4
  <2>3. soccaps' = [ch \in 0 .. 1 |-> 10 + ch]
    BY <2>2
  <2> QED BY <1>2, <1>16, <2>1, <2>3 DEF BGetSoc, Progress, Early, Masked, UartGiven
<1>17. CASE BResume
  BY <1>2, <1>17 DEF BResume, Progress, Early, Masked, UartGiven
<1>18. CASE BLoop \/ UNCHANGED vars
  BY <1>2, <1>18 DEF BLoop, vars, Progress, Early, Masked, UartGiven
<1> QED
  BY <1>4, <1>5, <1>6, <1>7, <1>8, <1>9, <1>10, <1>11, <1>12, <1>13, <1>14, <1>15, <1>16, <1>17, <1>18
  DEF Next

-----------------------------------------------------------------------------
LEMMA MonSlots ==
    ASSUME MonTable
    PROVE  /\ table["mon"][0] = Pmp("monitor", 0, RWX)
           /\ table["mon"][1] = Memory("ram") /\ table["mon"][2] = Memory("uart")
           /\ table["mon"][3] = TimeLeft
           /\ table["mon"][4] = OtherHart /\ table["mon"][5] = OtherHart /\ table["mon"][6] = OtherHart
           /\ table["mon"][7] = Cap("monitor", "", 0, {})
           /\ table["mon"][8] = Channel(Channels)
           /\ table["mon"][9] = UartPmp
           /\ table["mon"][10] = Port1 /\ table["mon"][11] = Port2
           /\ table["mon"][12] = AppPmp
           /\ table["mon"][24] = TimeSlice
           /\ table["mon"][32] = Temporary
  BY DEF MonTable

(* The monitor's table after a step that changes one or two of its slots. *)
LEMMA MonStep ==
    ASSUME MonTable, NEW slot \in {9, 10, 11, 12, 24, 32}, NEW c, NEW source \in {3, 8, 9, 10, 11, 12, 24, 32}, NEW r,
           table'["mon"] = [s \in Slot |-> IF s = slot THEN c ELSE IF s = source THEN r ELSE table["mon"][s]],
           OtherHart' = OtherHart,
           TimeLeft' = IF source = 3 THEN r ELSE TimeLeft,
           Channel(Channels') = IF source = 8 THEN r ELSE Channel(Channels),
           UartPmp' = IF slot = 9 THEN c ELSE IF source = 9 THEN r ELSE UartPmp,
           Port1' = IF slot = 10 THEN c ELSE IF source = 10 THEN r ELSE Port1,
           Port2' = IF slot = 11 THEN c ELSE IF source = 11 THEN r ELSE Port2,
           AppPmp' = IF slot = 12 THEN c ELSE IF source = 12 THEN r ELSE AppPmp,
           TimeSlice' = IF slot = 24 THEN c ELSE IF source = 24 THEN r ELSE TimeSlice,
           Temporary' = IF slot = 32 THEN c ELSE IF source = 32 THEN r ELSE Temporary
    PROVE  MonTable'
<1>1. \A s \in Slot : table'["mon"][s] = IF s = slot THEN c ELSE IF s = source THEN r ELSE table["mon"][s]
  OBVIOUS
<1>2. \A s \in Slot \ {3, 8, 9, 10, 11, 12, 24, 32} : table'["mon"][s] = table["mon"][s]
  BY <1>1
<1>3. /\ 0 \in Slot /\ 1 \in Slot /\ 2 \in Slot /\ 3 \in Slot /\ 4 \in Slot /\ 5 \in Slot /\ 6 \in Slot
      /\ 7 \in Slot /\ 8 \in Slot /\ 9 \in Slot /\ 10 \in Slot /\ 11 \in Slot /\ 12 \in Slot
      /\ 24 \in Slot /\ 32 \in Slot
  BY Slots
<1>3a. /\ table'["mon"][0] = table["mon"][0] /\ table'["mon"][1] = table["mon"][1]
       /\ table'["mon"][2] = table["mon"][2] /\ table'["mon"][4] = table["mon"][4]
       /\ table'["mon"][5] = table["mon"][5] /\ table'["mon"][6] = table["mon"][6]
       /\ table'["mon"][7] = table["mon"][7]
  BY <1>2, <1>3
<1>4. /\ table'["mon"][0] = Pmp("monitor", 0, RWX)
      /\ table'["mon"][1] = Memory("ram") /\ table'["mon"][2] = Memory("uart")
      /\ table'["mon"][4] = OtherHart' /\ table'["mon"][5] = OtherHart' /\ table'["mon"][6] = OtherHart'
      /\ table'["mon"][7] = Cap("monitor", "", 0, {})
  BY MonSlots, <1>3a
<1>5. /\ table'["mon"][3] = TimeLeft' /\ table'["mon"][8] = Channel(Channels')
      /\ table'["mon"][9] = UartPmp' /\ table'["mon"][10] = Port1'
  <2>1. slot # 3 /\ slot # 8
    OBVIOUS
  <2>2. table'["mon"][3] = IF source = 3 THEN r ELSE table["mon"][3]
    BY <1>1, <1>3, <2>1
  <2>3. table'["mon"][8] = IF source = 8 THEN r ELSE table["mon"][8]
    BY <1>1, <1>3, <2>1
  <2>4. table'["mon"][3] = TimeLeft' /\ table'["mon"][8] = Channel(Channels')
    BY MonSlots, <2>2, <2>3
  <2>5. table'["mon"][9] = UartPmp'
    BY MonSlots, <1>1, <1>3
  <2>6. table'["mon"][10] = Port1'
    BY MonSlots, <1>1, <1>3
  <2> QED BY <2>4, <2>5, <2>6
<1>6. /\ table'["mon"][11] = Port2' /\ table'["mon"][12] = AppPmp'
      /\ table'["mon"][24] = TimeSlice' /\ table'["mon"][32] = Temporary'
  BY MonSlots, <1>1, <1>3
<1>7. \A s \in Slot \ Used : table'["mon"][s] = NoCap
  <2>1. \A s \in Slot \ Used : table["mon"][s] = NoCap
    BY DEF MonTable
  <2>2. \A s \in Slot \ Used : s \notin {3, 8, 9, 10, 11, 12, 24, 32}
    BY DEF Used
  <2> QED BY <1>2, <2>1, <2>2
<1> QED BY <1>4, <1>5, <1>6, <1>7 DEF MonTable

(* A step that leaves the monitor's table, and what it should hold, alone. *)
LEMMA MonKept ==
    ASSUME MonTable, table'["mon"] = table["mon"], OtherHart' = OtherHart, TimeLeft' = TimeLeft,
           Channels' = Channels, UartPmp' = UartPmp, Port1' = Port1, Port2' = Port2, AppPmp' = AppPmp,
           TimeSlice' = TimeSlice, Temporary' = Temporary
    PROVE  MonTable'
  BY DEF MonTable

(* The operations of the straight-line functions. *)
LEMMA Operations ==
    /\ Perform(setup_monitor[1]) <=> capman_derive(9, Pmp("uart", 0, RW))
    /\ Perform(setup_monitor[2]) <=> capman_derive(12, Pmp("app", 0, RW))
    /\ Perform(setup_time_slices[1]) <=> capman_derive(24, Time(0))
    /\ Perform(setup_uart[1]) <=> capman_derive(32, Pmp("uart", 0, RW))
    /\ Perform(setup_uart[2]) <=> capman_mgivecap(32, npmp)
    /\ Perform(<< Give(TimeSlot, AppTimeSlot) >>[1]) <=> capman_mgivecap(24, 15)
    /\ Perform(setup_ipc[1]) <=> capman_derive(10, Server(0))
    /\ Perform(setup_ipc[2]) <=> capman_derive(32, Client(0))
    /\ Perform(setup_ipc[3]) <=> capman_mgivecap(32, 11)
    /\ Perform(setup_ipc[4]) <=> capman_derive(32, Server(1))
    /\ Perform(setup_ipc[5]) <=> capman_derive(11, Client(1))
    /\ Perform(setup_ipc[6]) <=> capman_mgivecap(32, 10)
<1>1. \A slot, cap : Perform(Derive(slot, cap)) <=> capman_derive(slot, cap)
  BY DEF Perform, Derive
<1>2. \A src, dest : Perform(Give(src, dest)) <=> capman_mgivecap(src, dest)
  BY DEF Perform, Give
<1>1a. \A slot, begin, size, cap :
          Perform(DerivePmpOf(slot, begin, size, cap)) <=> capman_derive_pmp(slot, begin, size, cap)
  BY DEF Perform, DerivePmpOf
<1>1b. \A slot, cap : /\ capman_derive_pmp(slot, UART_BASE, UART_SIZE, cap) <=> capman_derive(slot, cap)
                      /\ capman_derive_pmp(slot, APP_BASE, APP_SIZE, cap) <=> capman_derive(slot, cap)
  BY FixedRegions DEF capman_derive_pmp
<1>3. /\ setup_monitor[1] = DerivePmpOf(9, UART_BASE, UART_SIZE, Pmp("uart", 0, RW))
      /\ setup_monitor[2] = DerivePmpOf(12, APP_BASE, APP_SIZE, Pmp("app", 0, RW))
      /\ setup_time_slices[1] = Derive(24, Time(0))
      /\ setup_uart[1] = DerivePmpOf(32, UART_BASE, UART_SIZE, Pmp("uart", 0, RW)) /\ setup_uart[2] = Give(32, npmp)
      /\ << Give(TimeSlot, AppTimeSlot) >>[1] = Give(24, 15)
  BY DEF setup_monitor, setup_time_slices, setup_uart, UartSlot, AppMemSlot, TimeSlot, TmpSlot, AppTimeSlot
<1>4. /\ setup_ipc[1] = Derive(10, Server(0)) /\ setup_ipc[2] = Derive(32, Client(0))
      /\ setup_ipc[3] = Give(32, 11) /\ setup_ipc[4] = Derive(32, Server(1))
      /\ setup_ipc[5] = Derive(11, Client(1)) /\ setup_ipc[6] = Give(32, 10)
  BY DEF setup_ipc, SOCKET_PORT1, SOCKET_PORT2, TmpSlot
<1> QED BY <1>1, <1>1a, <1>1b, <1>2, <1>3, <1>4

(* The steps on capabilities, one by one: each changes the table, and that *)
(* for a section changes it if the section suits the PMP.                  *)
Follows == MonTable' /\ AppTable' /\ HeapSlots'
Succeeds == Follows /\ table' # table
SucceedsIfCompatible ==
    Follows /\ IF PmpCompatible(j, k) THEN table' # table ELSE UNCHANGED capVars

LEMMA StepMonitor ==
    ASSUME BInv, Handover, BMonitor
    PROVE  Succeeds
<1>1. bpc = "monitor" /\ step \in {1, 2} /\ copy = table["mon"] /\ Shape
  BY DEF BMonitor, Run, BInv, CopyFresh, Handover, Progress
<1>2. AppPort1' = AppPort1 /\ AppPort2' = AppPort2 /\ AppTime' = AppTime /\ UartGiven' = UartGiven
  BY <1>1, Lengths DEF BMonitor, Run, AppPort1, AppPort2, AppTime, UartGiven, Connected, TimeGiven
<1>3. /\ OtherHart' = OtherHart /\ TimeLeft' = TimeLeft /\ Channels' = Channels /\ Port1' = Port1
      /\ Port2' = Port2 /\ TimeSlice' = TimeSlice /\ Temporary' = Temporary
  BY <1>1, Lengths DEF BMonitor, Run, OtherHart, TimeLeft, Channels, Port1, Port2, TimeSlice, Temporary,
     Connected, TimeGiven
<1>4. CASE step = 1
  <2>1. capman_derive(9, Pmp("uart", 0, RW)) /\ table["mon"][9] = NoCap /\ 9 \in Slot
    <3>1. Perform(setup_monitor[1])
      BY <1>1, <1>4 DEF BMonitor, Run
    <3>2. UartPmp = NoCap
      BY <1>1, <1>4 DEF UartPmp
    <3>3. table["mon"][9] = UartPmp
      BY DEF Handover, MonTable
    <3> QED BY <3>1, <3>2, <3>3, Operations, Slots
  <2>2. UartPmp' = Pmp("uart", 0, RW) /\ AppPmp' = AppPmp
    BY <1>1, <1>4, Lengths DEF BMonitor, Run, UartPmp, AppPmp
  <2>3. /\ table'["app"] = table["app"]
        /\ table'["mon"] = [s \in Slot |-> IF s = 9 THEN Pmp("uart", 0, RW) ELSE table["mon"][s]]
    BY <1>1, <2>1, DerivePmp DEF Handover
  <2>4. table'["mon"] = [s \in Slot |-> IF s = 9 THEN Pmp("uart", 0, RW) ELSE IF s = 9 THEN NoCap ELSE table["mon"][s]]
    BY <2>3
  <2>5. MonTable'
    BY <1>3, <2>2, <2>4, MonStep DEF Handover
  <2>6. AppTable' /\ HeapSlots'
    BY <1>2, <2>3, AppKept DEF BMonitor, Handover, input, counters
  <2>7. table'["mon"][9] # table["mon"][9]
    BY <2>1, <2>3, Kinds
  <2> QED BY <2>5, <2>6, <2>7 DEF Succeeds, Follows
<1>5. CASE step = 2
  <2>1. capman_derive(12, Pmp("app", 0, RW)) /\ table["mon"][12] = NoCap /\ 12 \in Slot
    <3>1. Perform(setup_monitor[2])
      BY <1>1, <1>5 DEF BMonitor, Run
    <3>2. AppPmp = NoCap
      BY <1>1, <1>5 DEF AppPmp
    <3>3. table["mon"][12] = AppPmp
      BY DEF Handover, MonTable
    <3> QED BY <3>1, <3>2, <3>3, Operations, Slots
  <2>2. AppPmp' = Pmp("app", 0, RW) /\ UartPmp' = UartPmp
    BY <1>1, <1>5, Lengths DEF BMonitor, Run, UartPmp, AppPmp
  <2>3. /\ table'["app"] = table["app"]
        /\ table'["mon"] = [s \in Slot |-> IF s = 12 THEN Pmp("app", 0, RW) ELSE table["mon"][s]]
    BY <1>1, <2>1, DerivePmp DEF Handover
  <2>4. table'["mon"] = [s \in Slot |-> IF s = 12 THEN Pmp("app", 0, RW) ELSE IF s = 12 THEN NoCap ELSE table["mon"][s]]
    BY <2>3
  <2>5. MonTable'
    BY <1>3, <2>2, <2>4, MonStep DEF Handover
  <2>6. AppTable' /\ HeapSlots'
    BY <1>2, <2>3, AppKept DEF BMonitor, Handover, input, counters
  <2>7. table'["mon"][12] # table["mon"][12]
    BY <2>1, <2>3, Kinds
  <2> QED BY <2>5, <2>6, <2>7 DEF Succeeds, Follows
<1> QED BY <1>1, <1>4, <1>5

LEMMA StepTime ==
    ASSUME BInv, Handover, BTime
    PROVE  Succeeds
<1>1. bpc = "time" /\ step = 1 /\ copy = table["mon"] /\ Shape /\ bpc' \in {"verify", "load"}
  BY Lengths DEF BTime, Run, BInv, CopyFresh, Handover, Progress
<1>2. AppPort1' = AppPort1 /\ AppPort2' = AppPort2 /\ AppTime' = AppTime /\ UartGiven' = UartGiven
  BY <1>1 DEF AppPort1, AppPort2, AppTime, UartGiven, Connected, TimeGiven
<1>3. /\ OtherHart' = OtherHart /\ Channels' = Channels /\ Port1' = Port1 /\ UartPmp' = UartPmp /\ AppPmp' = AppPmp
      /\ Port2' = Port2 /\ Temporary' = Temporary
  BY <1>1 DEF OtherHart, Channels, Port1, Port2, Temporary, Connected, UartPmp, AppPmp
<1>4. TimeLeft = Time(0) /\ TimeLeft' = Time(32) /\ TimeSlice = NoCap /\ TimeSlice' = Time(0)
  BY <1>1 DEF TimeLeft, TimeSlice, TimeGiven
<1>5. /\ table["mon"][3] = Time(0) /\ table["mon"][24] = NoCap /\ NoCap # Time(0)
      /\ capman_derive(24, Time(0)) /\ 3 \in Slot /\ 24 \in Slot
  <2>1. Perform(setup_time_slices[1])
    BY <1>1 DEF BTime, Run
  <2>2. table["mon"][3] = Time(0) /\ table["mon"][24] = NoCap
    BY <1>4 DEF Handover, MonTable
  <2>3. NoCap # Time(0)
    BY Kinds
  <2> QED BY <2>1, <2>2, <2>3, Operations, Slots
<1>6. \A x : Derivable(x, Time(0)) <=> x = Time(0)
  BY DEF Derivable, Time, Cap
<1>7. \A s \in Slot : Derivable(table["mon"][s], Time(0)) => s = 3
  BY <1>5, <1>6, MonFacts DEF Handover
<1>8. Remaining(Time(0), Time(0)) = Time(32)
  BY DEF Remaining, Time, Cap
<1>9. /\ table'["app"] = table["app"]
      /\ table'["mon"] = [s \in Slot |-> IF s = 24 THEN Time(0) ELSE IF s = 3 THEN Time(32) ELSE table["mon"][s]]
  <2>1. /\ table'["app"] = table["app"]
        /\ table'["mon"] = [s \in Slot |-> IF s = 24 THEN Time(0) ELSE
               IF s = 3 THEN Remaining(table["mon"][3], Time(0)) ELSE table["mon"][s]]
    BY <1>1, <1>5, <1>6, <1>7, DeriveFrom
  <2> QED BY <1>5, <1>8, <2>1
<1>10. MonTable'
  BY <1>3, <1>4, <1>9, MonStep DEF Handover
<1>11. AppTable' /\ HeapSlots'
  BY <1>2, <1>9, AppKept DEF BTime, Handover, input, counters
<1>12. table'["mon"][24] # table["mon"][24]
  BY <1>5, <1>9
<1> QED BY <1>10, <1>11, <1>12 DEF Succeeds, Follows

LEMMA StepDerive ==
    ASSUME BInv, Handover, BDerive
    PROVE  SucceedsIfCompatible
<1>1. bpc = "sections" /\ bpc' = bpc /\ step = 1 /\ step' = 2 /\ copy = table["mon"] /\ Shape
  BY DEF BDerive, BInv, CopyFresh
<1>2. AppPort1' = AppPort1 /\ AppPort2' = AppPort2 /\ AppTime' = AppTime /\ UartGiven' = UartGiven
  BY <1>1 DEF AppPort1, AppPort2, AppTime, UartGiven, Connected, TimeGiven
<1>3. /\ OtherHart' = OtherHart /\ Channels' = Channels /\ Port1' = Port1 /\ UartPmp' = UartPmp /\ AppPmp' = AppPmp
      /\ Port2' = Port2 /\ TimeLeft' = TimeLeft /\ TimeSlice' = TimeSlice
  BY <1>1 DEF OtherHart, Channels, Port1, Port2, TimeLeft, TimeSlice, TimeGiven, Connected, UartPmp, AppPmp
<1>4. Temporary = NoCap /\ Temporary' = Derived
  <2>1. UNCHANGED <<security, header, j, k>>
    BY DEF BDerive, input, counters
  <2>2. Derived' = Derived
    BY <2>1, SameHeader DEF Derived, Current, PmpCompatible, Begin, Size
  <2> QED BY <1>1, <2>2 DEF Temporary
<1>5. table["mon"][32] = NoCap /\ 32 \in Slot
  <2>1. table["mon"][32] = Temporary
    BY MonSlots DEF Handover
  <2> QED BY <1>4, <2>1, Slots
<1>6. /\ table'["app"] = table["app"]
      /\ table'["mon"] = [s \in Slot |-> IF s = 32 THEN Derived ELSE table["mon"][s]]
      /\ IF PmpCompatible(j, k) THEN table' # table ELSE UNCHANGED capVars
  <2>1. CASE PmpCompatible(j, k)
    <3>1. capman_derive(32, Current) /\ Derived = Current
      BY <2>1 DEF BDerive, capman_derive_pmp, PmpCompatible, Derived, TmpSlot
    <3>2. /\ table'["app"] = table["app"]
          /\ table'["mon"] = [s \in Slot |-> IF s = 32 THEN Current ELSE table["mon"][s]]
      BY <1>1, <1>5, <3>1, DerivePmp DEF Current, Handover
    <3>3. table'["mon"][32] # table["mon"][32]
      BY <1>5, <3>2, Kinds DEF Current
    <3> QED BY <2>1, <3>1, <3>2, <3>3
  <2>2. CASE ~PmpCompatible(j, k)
    <3>1. UNCHANGED capVars /\ Derived = NoCap
      BY <2>2 DEF BDerive, capman_derive_pmp, PmpCompatible, Derived
    <3> QED BY <1>1, <1>5, <2>2, <3>1 DEF capVars, Shape, Proc
  <2> QED BY <2>1, <2>2
<1>7. table'["mon"] = [s \in Slot |-> IF s = 32 THEN Derived ELSE IF s = 32 THEN NoCap ELSE table["mon"][s]]
  BY <1>6
<1>8. MonTable'
  BY <1>3, <1>4, <1>7, MonStep DEF Handover
<1>9. AppTable' /\ HeapSlots'
  BY <1>2, <1>6, AppKept DEF BDerive, Handover, input, counters
<1> QED BY <1>6, <1>8, <1>9 DEF SucceedsIfCompatible, Follows

(* What BGive hands out is new, and all that is handed out. *)
LEMMA GivenStep ==
    ASSUME Progress, bpc = "sections", bpc' = bpc, j <= Len(Sections), NextPmp, UNCHANGED <<security, header>>
    PROVE  Derived \notin Given /\ Given' = Given \union ({Derived} \ {NoCap})
<1> DEFINE n == Len(Sections)
           Old == UNION {Section(i) : i \in 1 .. j - 1}
           First == IF PmpCompatible(j, 0) THEN {Pmp(Sections[j].name, 0, Sections[j].rwx)} ELSE {}
           This == {Derived} \ {NoCap}
<1>1. Sections' = Sections /\ n \in 0 .. 6
  BY SectionFacts DEF Sections, Progress
<1>2. \A i, l \in 1 .. n : Sections[i].name = Sections[l].name => i = l
  BY SectionFacts DEF Progress
<1>3. j \in 1 .. n /\ k \in {0, NHeap - 1} /\ NHeap \in Nat /\ NHeap >= 2
      /\ (k # 0 => Sections[j].name = "heap")
  BY <1>1, Slots DEF Progress
<1>4. ~UartGiven /\ ~UartGiven'
  BY DEF UartGiven
<1>4a. Current # NoCap /\ This = IF PmpCompatible(j, k) THEN {Current} ELSE {}
  BY Kinds DEF Current, Derived
<1>5. /\ k # 0 => Given = Old \union First
      /\ k = 0 => Given = Old
  <2>1. Uart = {} /\ (k # 0 => Half = First) /\ (k = 0 => Half = {})
    BY <1>4 DEF Uart, Half
  <2>2. Earlier = Old
    BY DEF Earlier
  <2> HIDE DEF Old, First
  <2> QED BY <2>1, <2>2 DEF Given
<1>5a. ASSUME NEW m PROVE UNION {Section(i)' : i \in 1 .. m} = UNION {Section(i) : i \in 1 .. m}
  <2>1. \A i : Section(i)' = Section(i)
    BY SameHeader
  <2> QED BY <2>1, Zenon
<1>5b. Given' = (UNION {Section(i) : i \in 1 .. j' - 1}) \union Half'
  <2>1. Uart' = {}
    BY <1>4 DEF Uart
  <2>2. Earlier' = UNION {Section(i) : i \in 1 .. j' - 1}
    BY <1>5a, Zenon DEF Earlier
  <2> QED BY <2>1, <2>2 DEF Given
<1>6. This \cap Old = {} /\ NoCap \notin Old
  <2>1. \A i \in 1 .. j - 1 : \A c \in Section(i) : c.of = Sections[i].name /\ c.type = "pmp"
    BY Kinds DEF Section
  <2>2. Current.of = Sections[j].name
    BY Kinds DEF Current
  <2>3. \A i \in 1 .. j - 1 : Sections[i].name # Sections[j].name
    BY <1>1, <1>2, <1>3
  <2>4. \A i \in 1 .. j - 1 : NoCap \notin Section(i) /\ Current \notin Section(i)
    BY <2>1, <2>2, <2>3, Kinds
  <2>5. This \subseteq {Current}
    BY <1>4a
  <2> HIDE DEF This
  <2> QED BY <2>4, <2>5
<1>7. k # 0 => Current \notin First /\ NoCap \notin First
  BY Kinds DEF Current
<1>7a. Derived \notin Given
  <2>1. Derived \in {Current, NoCap} /\ (Derived = Current => This = {Current})
    BY <1>4a DEF Derived
  <2> HIDE DEF This, Old, First
  <2> QED BY <1>5, <1>6, <1>7, <2>1
<1>8. CASE Sections[j].name = "heap" /\ k = 0
  <2>1. k' = NHeap - 1 /\ j' = j /\ k' # 0 /\ This = First
    <3>1. k + (NHeap - 1) = NHeap - 1 /\ NHeap - 1 < NHeap /\ NHeap - 1 # 0
      BY <1>3, <1>8
    <3>2. k' = NHeap - 1 /\ j' = j
      BY <1>8, <3>1 DEF NextPmp
    <3>3. This = First
      BY <1>4a, <1>8 DEF Current
    <3> QED BY <3>1, <3>2, <3>3
  <2>2. Half' = First /\ j' - 1 = j - 1
    <3>1. PmpCompatible(j, 0)' = PmpCompatible(j, 0)
      BY <1>1, <2>1 DEF PmpCompatible, Begin, Size
    <3> QED BY <1>1, <2>1, <3>1 DEF Half
  <2>3. Given' = Old \union First
    BY <1>5b, <2>2, Zenon
  <2> QED BY <1>5, <1>7a, <1>8, <2>1, <2>3
<1>9. CASE ~(Sections[j].name = "heap" /\ k = 0)
  <2>1. k' = 0 /\ j' = j + 1
    BY <1>3, <1>9 DEF NextPmp
  <2>2. Given' = UNION {Section(i) : i \in 1 .. j}
    <3>1. j' - 1 = j /\ Half' = {}
      BY <1>3, <2>1 DEF Half
    <3>2. Given' = (UNION {Section(i) : i \in 1 .. j}) \union {}
      BY <1>5b, <3>1, Zenon
    <3> QED BY <3>2, Zenon
  <2>3. UNION {Section(i) : i \in 1 .. j} = Old \union Section(j)
    BY <1>3
  <2>4. Section(j) = (IF k # 0 THEN First ELSE {}) \union This
    <3>1. CASE k = 0
      BY <1>4a, <1>9, <3>1 DEF Section, Chunks, Current
    <3>2. CASE k # 0
      <4>1. Chunks(Sections[j].name) = {0, k}
        BY <1>3, <3>2 DEF Chunks
      <4> QED BY <1>4a, <3>2, <4>1 DEF Section, Current
    <3> QED BY <3>1, <3>2
  <2> HIDE DEF This, Old, First
  <2> QED BY <1>5, <1>7a, <2>2, <2>3, <2>4 DEF This
<1> QED BY <1>8, <1>9

(* The heap's capabilities are in consecutive slots. *)
LEMMA HeapStep ==
    ASSUME Progress, HeapSlots, bpc = "sections", j <= Len(Sections), NextPmp, UNCHANGED <<security, header>>,
           table'["app"] = [s \in Slot |-> IF s = npmp THEN Derived ELSE table["app"][s]]
    PROVE  HeapSlots'
<1>1. Sections' = Sections /\ Len(Sections) \in 0 .. 6
  BY SectionFacts DEF Sections, Progress
<1>2. \A i, l \in 1 .. Len(Sections) : Sections[i].name = Sections[l].name => i = l
  BY SectionFacts DEF Progress
<1>3. j \in 1 .. Len(Sections) /\ k \in {0, NHeap - 1} /\ NHeap \in Nat /\ NHeap >= 2
      /\ (k # 0 => Sections[j].name = "heap") /\ ~UartGiven
  BY <1>1, Slots DEF Progress, UartGiven
<1>4. npmp = Place /\ npmp \in 0 .. 7
  <2>1. npmp \in 0 .. 7
    BY FewPmps
  <2>2. npmp = Place + 0
    BY <1>3 DEF Progress
  <2>3. Place \in Int
    BY <1>3 DEF Place
  <2> QED BY <2>1, <2>2, <2>3
<1> SUFFICES ASSUME NEW i \in 1 .. Len(Sections), Sections[i].name = "heap", HeapSuits(i)
             PROVE  /\ j' > i \/ (j' = i /\ k' # 0) => table'["app"][i - 1] = Pmp("heap", 0, Sections[i].rwx)
                    /\ j' > i => table'["app"][i] = Pmp("heap", NHeap - 1, Sections[i].rwx)
  BY <1>1, SameHeader DEF HeapSlots
<1>5. i \in Slot /\ i - 1 \in Slot
  <2>1. i \in 0 .. 8 /\ i - 1 \in 0 .. 8
    BY <1>1, SectionRange
  <2>2. 0 .. 8 \subseteq Slot
    BY Slots
  <2> QED BY <2>1, <2>2
<1>6. \A s \in Slot : table'["app"][s] = IF s = npmp THEN Derived ELSE table["app"][s]
  OBVIOUS
<1>7. CASE i < j
  <2>1. npmp # i - 1 /\ npmp # i
    <3>1. HeapBefore(j)
      BY <1>3, <1>7 DEF HeapBefore
    <3>2. k = 0
      BY <1>2, <1>3, <1>7
    <3>3. Place = j
      BY <1>3, <3>1, <3>2 DEF Place
    <3> QED BY <1>3, <1>4, <1>7, <3>3
  <2>2. j > i
    BY <1>3, <1>7
  <2> QED BY <1>5, <1>6, <2>1, <2>2 DEF HeapSlots
<1>8. CASE i = j
  <2>1. ~HeapBefore(j)
    BY <1>1, <1>2, <1>3, <1>8 DEF HeapBefore
  <2>2. CASE k = 0
    <3>1. npmp = i - 1
      BY <1>3, <1>4, <1>8, <2>1, <2>2 DEF Place
    <3>2. j' = j /\ Derived = Pmp("heap", 0, Sections[i].rwx)
      BY <1>3, <1>8, <2>2 DEF NextPmp, Current, Derived, HeapSuits, Chunks
    <3>3. ~(j' > i)
      BY <1>3, <1>8, <3>2
    <3> QED BY <1>5, <1>6, <3>1, <3>2, <3>3
  <2>3. CASE k # 0
    <3>1. npmp = i
      BY <1>3, <1>4, <1>8, <2>1, <2>3 DEF Place
    <3>2. k = NHeap - 1 /\ Derived = Pmp("heap", NHeap - 1, Sections[i].rwx)
      BY <1>3, <1>8, <2>3 DEF Current, Derived, HeapSuits, Chunks
    <3>3. table["app"][i - 1] = Pmp("heap", 0, Sections[i].rwx)
      BY <1>8, <2>3 DEF HeapSlots
    <3>4. i - 1 # npmp
      BY <3>1
    <3> QED BY <1>5, <1>6, <3>1, <3>2, <3>3, <3>4
  <2> QED BY <2>2, <2>3
<1>9. CASE i > j
  <2>1. \/ j' = j
        \/ j' = j + 1 /\ k' = 0
    BY DEF NextPmp
  <2>2. ~(j' > i) /\ ~(j' = i /\ k' # 0)
    BY <1>3, <1>9, <2>1
  <2> QED BY <2>2
<1> QED BY <1>3, <1>7, <1>8, <1>9

LEMMA StepGive ==
    ASSUME BInv, Handover, BGive
    PROVE  SucceedsIfCompatible
<1>1. bpc = "sections" /\ bpc' = bpc /\ step = 2 /\ step' = 1 /\ Shape
  BY DEF BGive, BInv
<1>2. AppPort1' = AppPort1 /\ AppPort2' = AppPort2 /\ AppTime' = AppTime
  BY <1>1 DEF AppPort1, AppPort2, AppTime, Connected, TimeGiven
<1>3. /\ OtherHart' = OtherHart /\ Channels' = Channels /\ Port1' = Port1 /\ UartPmp' = UartPmp /\ AppPmp' = AppPmp
      /\ Port2' = Port2 /\ TimeLeft' = TimeLeft /\ TimeSlice' = TimeSlice
  BY <1>1 DEF OtherHart, Channels, Port1, Port2, TimeLeft, TimeSlice, TimeGiven, Connected, UartPmp, AppPmp
<1>4. Temporary = Derived /\ Temporary' = NoCap
  BY <1>1 DEF Temporary
<1>5. table["mon"][32] = Derived /\ Current # NoCap /\ 32 \in Slot
  <2>1. table["mon"][32] = Temporary
    BY DEF Handover, MonTable
  <2>2. Current # NoCap
    BY Kinds DEF Current
  <2> QED BY <1>4, <2>1, <2>2, Slots
<1>6. npmp \in 0 .. 6 /\ npmp \in Slot /\ table["app"][npmp] = NoCap
  <2>1. npmp \in 0 .. 6 /\ npmp \in Slot \ {10, 11, 15}
    BY <1>1, FewPmps, Slots DEF Handover
  <2> QED BY <2>1 DEF Handover, AppTable
<1>7. /\ table'["mon"] = [s \in Slot |-> IF s = 32 THEN NoCap ELSE table["mon"][s]]
      /\ table'["app"] = [s \in Slot |-> IF s = npmp THEN Derived ELSE table["app"][s]]
      /\ IF PmpCompatible(j, k) THEN table' # table ELSE UNCHANGED capVars
  <2>1. capman_mgivecap(32, npmp)
    BY DEF BGive, TmpSlot
  <2>2. CASE PmpCompatible(j, k)
    <3>1. Derived = Current
      BY <2>2 DEF Derived
    <3>2. /\ table'["mon"] = [s \in Slot |-> IF s = 32 THEN NoCap ELSE table["mon"][s]]
          /\ table'["app"] = [s \in Slot |-> IF s = npmp THEN Current ELSE table["app"][s]]
      BY <1>1, <1>5, <1>6, <2>1, <3>1, GiveTo
    <3>3. table'["mon"][32] # table["mon"][32]
      BY <1>5, <3>1, <3>2
    <3> QED BY <2>2, <3>1, <3>2, <3>3
  <2>3. CASE ~PmpCompatible(j, k)
    <3>1. Derived = NoCap
      BY <2>3 DEF Derived
    <3>2. UNCHANGED capVars
      BY <1>5, <2>1, <3>1 DEF capman_mgivecap
    <3> QED BY <1>1, <1>5, <1>6, <2>3, <3>1, <3>2 DEF capVars, Shape, Proc
  <2> QED BY <2>2, <2>3
<1>8. table'["mon"] = [s \in Slot |-> IF s = 32 THEN NoCap ELSE IF s = 32 THEN NoCap ELSE table["mon"][s]]
  BY <1>7
<1>9. MonTable'
  BY <1>3, <1>4, <1>8, MonStep DEF Handover
<1>10. /\ j <= Len(Sections) /\ NextPmp /\ UNCHANGED <<security, header>> /\ npmp' = npmp + 1
       /\ Progress /\ AppTable /\ HeapSlots
  BY DEF BGive, Handover, input
<1>11. AppTable'
  <2>1. Derived \notin Given /\ Given' = Given \union ({Derived} \ {NoCap}) /\ npmp <= 7
    BY <1>1, <1>6, <1>10, GivenStep
  <2>2. AllCompatible' = AllCompatible
    BY <1>10, SameHeader
  <2>3. Derived = NoCap => ~AllCompatible
    <3>1. j \in DOMAIN Sections
      <4>1. Len(Sections) \in 0 .. 6 /\ DOMAIN Sections = 1 .. Len(Sections)
        BY <1>10, SectionFacts DEF Progress
      <4>2. j \in 1 .. Len(Sections) + 1
        BY <1>10 DEF Progress
      <4> QED BY <1>10, <4>1, <4>2
    <3>2. k \in Chunks(Sections[j].name)
      BY <1>10 DEF Progress, Chunks
    <3> QED BY <1>5, <3>1, <3>2 DEF AllCompatible, Derived
  <2> QED BY <1>2, <1>7, <1>10, <2>1, <2>2, <2>3, AppGetsPmp
<1>12. HeapSlots'
  BY <1>1, <1>7, <1>10, HeapStep
<1> QED BY <1>7, <1>9, <1>11, <1>12 DEF SucceedsIfCompatible, Follows

LEMMA StepUart ==
    ASSUME BInv, Handover, BUart
    PROVE  Succeeds
<1>1. bpc = "uart" /\ step \in {1, 2} /\ copy = table["mon"] /\ Shape
  BY DEF BUart, Run, BInv, CopyFresh, Handover, Progress
<1>2. bpc' \in {"uart", "time_give"} /\ (step = 1 => bpc' = "uart" /\ step' = 2) /\ (step = 2 => bpc' = "time_give")
  BY <1>1, Lengths DEF BUart, Run
<1>3. AppPort1' = AppPort1 /\ AppPort2' = AppPort2 /\ AppTime' = AppTime
  BY <1>1, <1>2 DEF AppPort1, AppPort2, AppTime, Connected, TimeGiven
<1>4. /\ OtherHart' = OtherHart /\ Channels' = Channels /\ Port1' = Port1 /\ UartPmp' = UartPmp /\ AppPmp' = AppPmp
      /\ Port2' = Port2 /\ TimeLeft' = TimeLeft /\ TimeSlice' = TimeSlice
  BY <1>1, <1>2 DEF OtherHart, Channels, Port1, Port2, TimeLeft, TimeSlice, TimeGiven, Connected, UartPmp, AppPmp
<1>5. Sections' = Sections /\ UNCHANGED <<security, header, j, k>> /\ (step = 1 => npmp' = npmp)
  BY DEF BUart, Sections, input
<1>6. table["mon"][32] = Temporary /\ 32 \in Slot /\ Pmp("uart", 0, RW) # NoCap
  <2>1. table["mon"][32] = Temporary
    BY MonSlots DEF Handover
  <2>2. Pmp("uart", 0, RW) # NoCap
    BY Kinds
  <2> QED BY <2>1, <2>2, Slots
<1>7. CASE step = 1
  <2>1. Perform(setup_uart[1])
    BY <1>7 DEF BUart, Run
  <2>2. Temporary = NoCap /\ Temporary' = Pmp("uart", 0, RW) /\ UartGiven' = UartGiven
    BY <1>1, <1>2, <1>7 DEF Temporary, UartGiven
  <2>3. /\ table'["app"] = table["app"]
        /\ table'["mon"] = [s \in Slot |-> IF s = 32 THEN Pmp("uart", 0, RW) ELSE table["mon"][s]]
    BY <1>1, <1>6, <2>1, <2>2, Operations, DerivePmp DEF Handover
  <2>4. table'["mon"] = [s \in Slot |-> IF s = 32 THEN Pmp("uart", 0, RW) ELSE IF s = 32 THEN NoCap ELSE table["mon"][s]]
    BY <2>3
  <2>5. MonTable'
    BY <1>4, <2>2, <2>4, MonStep DEF Handover
  <2>6. AppTable' /\ HeapSlots'
    BY <1>3, <1>5, <1>7, <2>2, <2>3, AppKept DEF Handover
  <2>7. table'["mon"][32] # table["mon"][32]
    BY <1>6, <2>2, <2>3
  <2> QED BY <2>5, <2>6, <2>7 DEF Succeeds, Follows
<1>8. CASE step = 2
  <2>1. Perform(setup_uart[2]) /\ npmp' = npmp + 1
    BY <1>8 DEF BUart, Run
  <2>2. Temporary = Pmp("uart", 0, RW) /\ Temporary' = NoCap /\ ~UartGiven /\ UartGiven'
    BY <1>1, <1>2, <1>8 DEF Temporary, UartGiven
  <2>3. npmp \in 0 .. 7 /\ npmp \in Slot /\ table["app"][npmp] = NoCap
    <3>1. npmp \in 0 .. 7
      BY <2>2, FewPmps DEF Handover
    <3>2. npmp \in Slot \ {10, 11, 15}
      BY <3>1, Slots
    <3> QED BY <3>1, <3>2 DEF Handover, AppTable
  <2>4. /\ table'["mon"] = [s \in Slot |-> IF s = 32 THEN NoCap ELSE table["mon"][s]]
        /\ table'["app"] = [s \in Slot |-> IF s = npmp THEN Pmp("uart", 0, RW) ELSE table["app"][s]]
    BY <1>1, <1>6, <2>1, <2>2, <2>3, Operations, GiveTo
  <2>5. table'["mon"] = [s \in Slot |-> IF s = 32 THEN NoCap ELSE IF s = 32 THEN NoCap ELSE table["mon"][s]]
    BY <2>4
  <2>6. MonTable'
    BY <1>4, <2>2, <2>5, MonStep DEF Handover
  <2>7. Progress /\ AppTable /\ HeapSlots
    BY DEF Handover
  <2>8. j = Len(Sections) + 1 /\ Len(Sections) \in 0 .. 6 /\ k = 0
    BY <1>1, <2>7, SectionFacts DEF Progress, Early
  <2>9. Pmp("uart", 0, RW) \notin Given /\ Given' = Given \union ({Pmp("uart", 0, RW)} \ {NoCap})
    <3>1. Uart = {} /\ Uart' = {Pmp("uart", 0, RW)} /\ Half = {} /\ Half' = {}
      BY <1>5, <2>2, <2>8 DEF Uart, Half
    <3>2. Earlier' = Earlier
      BY <1>5, SameHeader DEF Earlier
    <3>3. \A i \in 1 .. j - 1 : \A c \in Section(i) : c.of # "uart"
      BY <2>7, <2>8, SectionFacts, Kinds DEF Section, Progress
    <3>4. Pmp("uart", 0, RW) \notin Earlier
      BY <3>3, Kinds DEF Earlier
    <3>5. Given = Earlier /\ Given' = Earlier \union {Pmp("uart", 0, RW)}
      BY <3>1, <3>2 DEF Given
    <3> QED BY <1>6, <3>4, <3>5
  <2>10. AppTable'
    <3>1. AllCompatible' = AllCompatible
      BY <1>5, SameHeader
    <3> QED BY <1>3, <1>6, <2>1, <2>3, <2>4, <2>7, <2>9, <3>1, AppGetsPmp
  <2>11. HeapSlots'
    <3> SUFFICES ASSUME NEW i \in 1 .. Len(Sections), Sections[i].name = "heap", HeapSuits(i)
                 PROVE  /\ table'["app"][i - 1] = Pmp("heap", 0, Sections[i].rwx)
                        /\ table'["app"][i] = Pmp("heap", NHeap - 1, Sections[i].rwx)
      BY <1>5, SameHeader DEF HeapSlots
    <3>1. HeapBefore(j)
      BY <2>8 DEF HeapBefore
    <3>2. npmp = Len(Sections) + 1
      BY <2>2, <2>7, <2>8, <3>1 DEF Progress, Place
    <3>3. i # npmp /\ i - 1 # npmp /\ j > i
      BY <2>8, <3>2
    <3>4. i \in Slot /\ i - 1 \in Slot
      <4>1. i \in 0 .. 8 /\ i - 1 \in 0 .. 8
        BY <2>8, SectionRange
      <4>2. 0 .. 8 \subseteq Slot
        BY Slots
      <4> QED BY <4>1, <4>2
    <3> QED BY <2>4, <2>7, <3>3, <3>4 DEF HeapSlots
  <2>12. table'["mon"][32] # table["mon"][32]
    BY <1>6, <2>2, <2>4
  <2> QED BY <2>6, <2>10, <2>11, <2>12 DEF Succeeds, Follows
<1> QED BY <1>1, <1>7, <1>8

LEMMA StepTimeGive ==
    ASSUME BInv, Handover, BTimeGive
    PROVE  Succeeds
<1>1. bpc = "time_give" /\ bpc' = "setpmp" /\ step = 1 /\ copy = table["mon"] /\ Shape
  BY Lengths DEF BTimeGive, Run, BInv, CopyFresh, Handover, Progress
<1>2. /\ AppPort1' = AppPort1 /\ AppPort2' = AppPort2 /\ AppTime = NoCap /\ AppTime' = Time(0)
      /\ UartGiven' = UartGiven
  BY <1>1 DEF AppPort1, AppPort2, AppTime, UartGiven, Connected, TimeGiven
<1>3. /\ OtherHart' = OtherHart /\ Channels' = Channels /\ Port1' = Port1 /\ UartPmp' = UartPmp /\ AppPmp' = AppPmp
      /\ Port2' = Port2 /\ TimeLeft' = TimeLeft /\ Temporary' = Temporary
  BY <1>1 DEF OtherHart, Channels, Port1, Port2, TimeLeft, Temporary, Connected, UartPmp, AppPmp
<1>4. TimeSlice = Time(0) /\ TimeSlice' = NoCap
  BY <1>1 DEF TimeSlice, TimeGiven
<1>5. Perform(<< Give(TimeSlot, AppTimeSlot) >>[1])
  BY <1>1 DEF BTimeGive, Run
<1>6. table["mon"][24] = Time(0) /\ Time(0) # NoCap /\ table["app"][15] = NoCap /\ 24 \in Slot /\ 15 \in Slot
  <2>1. table["mon"][24] = TimeSlice
    BY MonSlots DEF Handover
  <2>2. table["app"][15] = AppTime
    BY DEF Handover, AppTable
  <2> QED BY <1>2, <1>4, <2>1, <2>2, Kinds, Slots
<1>7. /\ table'["mon"] = [s \in Slot |-> IF s = 24 THEN NoCap ELSE table["mon"][s]]
      /\ table'["app"] = [s \in Slot |-> IF s = 15 THEN Time(0) ELSE table["app"][s]]
  BY <1>1, <1>5, <1>6, Operations, GiveTo
<1>8. table'["mon"] = [s \in Slot |-> IF s = 24 THEN NoCap ELSE IF s = 24 THEN NoCap ELSE table["mon"][s]]
  BY <1>7
<1>9. MonTable'
  BY <1>3, <1>4, <1>8, MonStep DEF Handover
<1>10. AppTable' /\ HeapSlots'
  BY <1>2, <1>7, AppGetsOther DEF BTimeGive, Handover, input, counters
<1>11. table'["mon"][24] # table["mon"][24]
  BY <1>6, <1>7
<1> QED BY <1>9, <1>10, <1>11 DEF Succeeds, Follows

(* What a socket is derived from, and what that leaves. *)
LEMMA SocketSource ==
    /\ \A x, ch : Derivable(x, Server(ch)) <=> x.type = "channel" /\ x.n <= ch
    /\ \A x, ch : Derivable(x, Client(ch)) <=> x = Server(ch)
    /\ \A n, ch : Remaining(Channel(n), Server(ch)) = Channel(ch + 1)
    /\ \A ch : Remaining(Server(ch), Client(ch)) = Server(ch)
<1>1. \A x, ch : Derivable(x, Server(ch)) <=> x.type = "channel" /\ x.n <= ch
  BY DEF Derivable, Server, Cap
<1>2. \A x, ch : Derivable(x, Client(ch)) <=> x = Server(ch)
  BY DEF Derivable, Client, Server, Cap
<1>3. \A n, ch : Remaining(Channel(n), Server(ch)) = Channel(ch + 1)
  BY DEF Remaining, Channel, Server, Cap
<1>4. \A ch : Remaining(Server(ch), Client(ch)) = Server(ch)
  BY DEF Remaining, Client, Server, Cap
<1> QED BY <1>1, <1>2, <1>3, <1>4

LEMMA StepIpc ==
    ASSUME BInv, Handover, BIpc
    PROVE  Succeeds
<1>1. /\ bpc = "ipc" /\ step \in 1 .. 6 /\ copy = table["mon"] /\ Shape
      /\ step # 6 => bpc' = "ipc" /\ step' = step + 1
      /\ step = 6 => bpc' = "getsoc"
  BY Lengths DEF BIpc, Run, BInv, CopyFresh, Handover, Progress
<1>2. /\ UartGiven' = UartGiven /\ AppTime' = AppTime /\ OtherHart' = OtherHart /\ UartPmp' = UartPmp
      /\ AppPmp' = AppPmp /\ TimeLeft' = TimeLeft /\ TimeSlice' = TimeSlice
      /\ UNCHANGED <<security, header, j, k, npmp>>
  <2>1. bpc' \in {"ipc", "getsoc"}
    BY <1>1
  <2>2. UNCHANGED <<security, header, j, k, npmp>>
    BY DEF BIpc, input, counters
  <2>3. UartGiven' = UartGiven /\ TimeGiven' = TimeGiven
    BY <1>1, <2>1 DEF UartGiven, TimeGiven
  <2>4. bpc \notin {"init", "monitor", "time"} /\ bpc' \notin {"init", "monitor", "time"}
    BY <1>1, <2>1
  <2>5. AppTime' = AppTime /\ TimeSlice' = TimeSlice
    BY <2>3, <2>4 DEF AppTime, TimeSlice
  <2>6. OtherHart' = OtherHart /\ UartPmp' = UartPmp /\ AppPmp' = AppPmp /\ TimeLeft' = TimeLeft
    BY <2>4 DEF OtherHart, UartPmp, AppPmp, TimeLeft
  <2> QED BY <2>2, <2>3, <2>5, <2>6
<1>3. Perform(setup_ipc[step])
  BY DEF BIpc, Run
<1>4. /\ table["mon"][8] = Channel(Channels) /\ table["mon"][10] = Port1 /\ table["mon"][11] = Port2
      /\ table["mon"][32] = Temporary /\ table["app"][10] = AppPort1 /\ table["app"][11] = AppPort2
  <2>1. AppTable
    BY DEF Handover
  <2> QED BY <2>1, MonSlots DEF Handover, AppTable
<1>5. 8 \in Slot /\ 10 \in Slot /\ 11 \in Slot /\ 32 \in Slot
  BY Slots
<1>6. MonTable /\ Progress /\ AppTable /\ HeapSlots
  BY DEF Handover
<1>7. /\ NoCap # Server(0) /\ NoCap # Server(1) /\ NoCap # Client(0) /\ NoCap # Client(1)
      /\ Channel(0).type = "channel" /\ Channel(0).n = 0 /\ Channel(1).type = "channel" /\ Channel(1).n = 1
  BY Kinds
<1>8. \A ch \in {0, 1} : \A s \in Slot : Derivable(table["mon"][s], Server(ch)) => s = 8
  BY <1>6, MonFacts, SocketSource
<1>9. CASE step = 1
  <2>1. /\ Channels = 0 /\ Channels' = 1 /\ Port1 = NoCap /\ Port1' = Server(0) /\ Port2' = Port2
        /\ Temporary' = Temporary /\ AppPort1' = AppPort1 /\ AppPort2' = AppPort2
    BY <1>1, <1>9 DEF Channels, Port1, Port2, Temporary, AppPort1, AppPort2, Connected
  <2>2. capman_derive(10, Server(0)) /\ Derivable(table["mon"][8], Server(0))
    <3>1. capman_derive(10, Server(0))
      BY <1>3, <1>9, Operations
    <3>2. Derivable(Channel(0), Server(0))
      BY <1>7, SocketSource
    <3> QED BY <1>4, <2>1, <3>1, <3>2
  <2>3. /\ table'["app"] = table["app"]
        /\ table'["mon"] = [s \in Slot |-> IF s = 10 THEN Server(0) ELSE
                IF s = 8 THEN Remaining(table["mon"][8], Server(0)) ELSE table["mon"][s]]
    BY <1>1, <1>4, <1>5, <1>8, <2>1, <2>2, DeriveFrom
  <2>4. Remaining(table["mon"][8], Server(0)) = Channel(1)
    BY <1>4, <2>1, SocketSource
  <2>5. MonTable'
    <3>1. table'["mon"] = [s \in Slot |-> IF s = 10 THEN Server(0) ELSE IF s = 8 THEN Channel(1) ELSE table["mon"][s]]
      BY <2>3, <2>4
    <3> QED BY <1>2, <1>6, <2>1, <3>1, MonStep
  <2>6. AppTable' /\ HeapSlots'
    BY <1>2, <1>6, <2>1, <2>3, AppKept
  <2>7. table'["mon"][10] # table["mon"][10]
    BY <1>4, <1>5, <1>7, <2>1, <2>3
  <2> QED BY <2>5, <2>6, <2>7 DEF Succeeds, Follows
<1>10. CASE step = 2
  <2>1. /\ Channels' = Channels /\ Port1 = Server(0) /\ Port1' = Server(0) /\ Port2' = Port2
        /\ Temporary = NoCap /\ Temporary' = Client(0) /\ AppPort1' = AppPort1 /\ AppPort2' = AppPort2
    BY <1>1, <1>10 DEF Channels, Port1, Port2, Temporary, AppPort1, AppPort2, Connected
  <2>2. /\ capman_derive(32, Client(0)) /\ Derivable(table["mon"][10], Client(0))
        /\ \A s \in Slot : Derivable(table["mon"][s], Client(0)) => s = 10
    BY <1>3, <1>4, <1>6, <1>10, <2>1, Operations, SocketSource, MonFacts
  <2>3. /\ table'["app"] = table["app"]
        /\ table'["mon"] = [s \in Slot |-> IF s = 32 THEN Client(0) ELSE
                IF s = 10 THEN Remaining(table["mon"][10], Client(0)) ELSE table["mon"][s]]
    BY <1>1, <1>4, <1>5, <2>1, <2>2, DeriveFrom
  <2>4. Remaining(table["mon"][10], Client(0)) = Server(0)
    BY <1>4, <2>1, SocketSource
  <2>5. MonTable'
    <3>1. table'["mon"] = [s \in Slot |-> IF s = 32 THEN Client(0) ELSE IF s = 10 THEN Server(0) ELSE table["mon"][s]]
      BY <2>3, <2>4
    <3> QED BY <1>2, <1>6, <2>1, <3>1, MonStep
  <2>6. AppTable' /\ HeapSlots'
    BY <1>2, <1>6, <2>1, <2>3, AppKept
  <2>7. table'["mon"][32] # table["mon"][32]
    BY <1>4, <1>5, <1>7, <2>1, <2>3
  <2> QED BY <2>5, <2>6, <2>7 DEF Succeeds, Follows
<1>11. CASE step = 3
  <2>1. /\ Channels' = Channels /\ Port1' = Port1 /\ Port2' = Port2 /\ Temporary = Client(0) /\ Temporary' = NoCap
        /\ AppPort1' = AppPort1 /\ AppPort2 = NoCap /\ AppPort2' = Client(0)
    BY <1>1, <1>11 DEF Channels, Port1, Port2, Temporary, AppPort1, AppPort2, Connected
  <2>2. capman_mgivecap(32, 11)
    BY <1>3, <1>11, Operations
  <2>3. /\ table'["mon"] = [s \in Slot |-> IF s = 32 THEN NoCap ELSE table["mon"][s]]
        /\ table'["app"] = [s \in Slot |-> IF s = 11 THEN Client(0) ELSE table["app"][s]]
    BY <1>1, <1>4, <1>5, <1>7, <2>1, <2>2, GiveTo
  <2>4. table'["mon"] = [s \in Slot |-> IF s = 32 THEN NoCap ELSE IF s = 32 THEN NoCap ELSE table["mon"][s]]
    BY <2>3
  <2>5. MonTable'
    BY <1>2, <1>6, <2>1, <2>4, MonStep
  <2>6. AppTable' /\ HeapSlots'
    BY <1>2, <1>6, <2>1, <2>3, AppGetsOther
  <2>7. table'["mon"][32] # table["mon"][32]
    BY <1>4, <1>5, <1>7, <2>1, <2>3
  <2> QED BY <2>5, <2>6, <2>7 DEF Succeeds, Follows
<1>12. CASE step = 4
  <2>1. /\ Channels = 1 /\ Channels' = 2 /\ Port1' = Port1 /\ Port2' = Port2
        /\ Temporary = NoCap /\ Temporary' = Server(1) /\ AppPort1' = AppPort1 /\ AppPort2' = AppPort2
    BY <1>1, <1>12 DEF Channels, Port1, Port2, Temporary, AppPort1, AppPort2, Connected
  <2>2. capman_derive(32, Server(1)) /\ Derivable(table["mon"][8], Server(1))
    <3>1. capman_derive(32, Server(1))
      BY <1>3, <1>12, Operations
    <3>2. Derivable(Channel(1), Server(1))
      BY <1>7, SocketSource
    <3> QED BY <1>4, <2>1, <3>1, <3>2
  <2>3. /\ table'["app"] = table["app"]
        /\ table'["mon"] = [s \in Slot |-> IF s = 32 THEN Server(1) ELSE
                IF s = 8 THEN Remaining(table["mon"][8], Server(1)) ELSE table["mon"][s]]
    BY <1>1, <1>4, <1>5, <1>8, <2>1, <2>2, DeriveFrom
  <2>4. Remaining(table["mon"][8], Server(1)) = Channel(2)
    BY <1>4, <2>1, SocketSource
  <2>5. MonTable'
    <3>1. table'["mon"] = [s \in Slot |-> IF s = 32 THEN Server(1) ELSE IF s = 8 THEN Channel(2) ELSE table["mon"][s]]
      BY <2>3, <2>4
    <3> QED BY <1>2, <1>6, <2>1, <3>1, MonStep
  <2>6. AppTable' /\ HeapSlots'
    BY <1>2, <1>6, <2>1, <2>3, AppKept
  <2>7. table'["mon"][32] # table["mon"][32]
    BY <1>4, <1>5, <1>7, <2>1, <2>3
  <2> QED BY <2>5, <2>6, <2>7 DEF Succeeds, Follows
<1>13. CASE step = 5
  <2>1. /\ Channels' = Channels /\ Port1' = Port1 /\ Port2 = NoCap /\ Port2' = Client(1)
        /\ Temporary = Server(1) /\ Temporary' = Server(1) /\ AppPort1' = AppPort1 /\ AppPort2' = AppPort2
    BY <1>1, <1>13 DEF Channels, Port1, Port2, Temporary, AppPort1, AppPort2, Connected
  <2>2. /\ capman_derive(11, Client(1)) /\ Derivable(table["mon"][32], Client(1))
        /\ \A s \in Slot : Derivable(table["mon"][s], Client(1)) => s = 32
    BY <1>3, <1>4, <1>6, <1>13, <2>1, Operations, SocketSource, MonFacts
  <2>3. /\ table'["app"] = table["app"]
        /\ table'["mon"] = [s \in Slot |-> IF s = 11 THEN Client(1) ELSE
                IF s = 32 THEN Remaining(table["mon"][32], Client(1)) ELSE table["mon"][s]]
    BY <1>1, <1>4, <1>5, <2>1, <2>2, DeriveFrom
  <2>4. Remaining(table["mon"][32], Client(1)) = Server(1)
    BY <1>4, <2>1, SocketSource
  <2>5. MonTable'
    <3>1. table'["mon"] = [s \in Slot |-> IF s = 11 THEN Client(1) ELSE IF s = 32 THEN Server(1) ELSE table["mon"][s]]
      BY <2>3, <2>4
    <3> QED BY <1>2, <1>6, <2>1, <3>1, MonStep
  <2>6. AppTable' /\ HeapSlots'
    BY <1>2, <1>6, <2>1, <2>3, AppKept
  <2>7. table'["mon"][11] # table["mon"][11]
    BY <1>4, <1>5, <1>7, <2>1, <2>3
  <2> QED BY <2>5, <2>6, <2>7 DEF Succeeds, Follows
<1>14. CASE step = 6
  <2>1. /\ Channels' = Channels /\ Port1' = Port1 /\ Port2' = Port2 /\ Temporary = Server(1) /\ Temporary' = NoCap
        /\ AppPort1 = NoCap /\ AppPort1' = Server(1) /\ AppPort2' = AppPort2
    BY <1>1, <1>14 DEF Channels, Port1, Port2, Temporary, AppPort1, AppPort2, Connected
  <2>2. capman_mgivecap(32, 10)
    BY <1>3, <1>14, Operations
  <2>3. /\ table'["mon"] = [s \in Slot |-> IF s = 32 THEN NoCap ELSE table["mon"][s]]
        /\ table'["app"] = [s \in Slot |-> IF s = 10 THEN Server(1) ELSE table["app"][s]]
    BY <1>1, <1>4, <1>5, <1>7, <2>1, <2>2, GiveTo
  <2>4. table'["mon"] = [s \in Slot |-> IF s = 32 THEN NoCap ELSE IF s = 32 THEN NoCap ELSE table["mon"][s]]
    BY <2>3
  <2>5. MonTable'
    BY <1>2, <1>6, <2>1, <2>4, MonStep
  <2>6. AppTable' /\ HeapSlots'
    BY <1>2, <1>6, <2>1, <2>3, AppGetsOther
  <2>7. table'["mon"][32] # table["mon"][32]
    BY <1>4, <1>5, <1>7, <2>1, <2>3
  <2> QED BY <2>5, <2>6, <2>7 DEF Succeeds, Follows
<1> QED BY <1>1, <1>9, <1>10, <1>11, <1>12, <1>13, <1>14

LEMMA StepInit ==
    ASSUME BInv, Handover, BInit
    PROVE  MonTable' /\ AppTable' /\ HeapSlots'
<1>1. bpc = "init" /\ bpc' = "monitor" /\ step = 1 /\ step' = 1 /\ Shape
  BY DEF BInit, BInv, Handover, Progress
<1>2. /\ AppPort1' = AppPort1 /\ AppPort2' = AppPort2 /\ AppTime' = AppTime /\ UartGiven' = UartGiven
      /\ Channels' = Channels /\ Port1' = Port1 /\ UartPmp' = UartPmp /\ AppPmp' = AppPmp
      /\ Port2' = Port2 /\ TimeLeft' = TimeLeft /\ TimeSlice' = TimeSlice /\ Temporary' = Temporary
      /\ OtherHart' = NoCap
  BY <1>1 DEF AppPort1, AppPort2, AppTime, UartGiven, Channels, Port1, UartPmp, AppPmp, Port2, TimeLeft, TimeSlice,
     Temporary, OtherHart, Connected, TimeGiven
<1>3. /\ table'["app"] = table["app"]
      /\ table'["mon"] = [i \in Slot |-> IF i \in {4, 5, 6} THEN NoCap ELSE table["mon"][i]]
  BY <1>1 DEF BInit, Shape, Proc
<1>4. MonTable'
  <2>1. table'["mon"][4] = NoCap /\ table'["mon"][5] = NoCap /\ table'["mon"][6] = NoCap
    BY <1>3, Slots
  <2>2. \A s \in Slot \ {4, 5, 6} : table'["mon"][s] = table["mon"][s]
    BY <1>3
  <2>3. \A s \in Slot \ Used : table'["mon"][s] = NoCap
    <3>1. \A s \in Slot \ Used : table["mon"][s] = NoCap
      BY DEF Handover, MonTable
    <3>2. \A s \in Slot \ Used : s \notin {4, 5, 6}
      BY DEF Used
    <3> QED BY <2>2, <3>1, <3>2
  <2>4. \A s \in {0, 1, 2, 3, 7, 8, 9, 10, 11, 12, 24, 32} : table'["mon"][s] = table["mon"][s]
    BY <2>2, Slots
  <2>5. MonTable
    BY DEF Handover
  <2> QED BY <1>2, <2>1, <2>3, <2>4, <2>5, MonSlots DEF MonTable
<1>5. AppTable' /\ HeapSlots'
  BY <1>2, <1>3, AppKept DEF BInit, Handover, input, counters
<1> QED BY <1>4, <1>5

(* The steps that change no capability. *)
LEMMA StepQuiet ==
    ASSUME Handover, BVerify \/ BLoad \/ BSectionsDone \/ BSetPmp \/ BGetSoc \/ BResume \/ BLoop \/ UNCHANGED vars
    PROVE  MonTable' /\ AppTable' /\ HeapSlots'
<1>1. /\ table' = table /\ UNCHANGED <<security, header, j, k, npmp>> /\ step' = step
      /\ \/ bpc' = bpc
         \/ bpc = "verify" /\ bpc' \in {"load", "refused"}
         \/ bpc = "load" /\ bpc' = "sections"
         \/ bpc = "sections" /\ bpc' = "uart"
         \/ bpc = "setpmp" /\ bpc' = "ipc"
         \/ bpc = "getsoc" /\ bpc' = "resume"
         \/ bpc = "resume" /\ bpc' = "done"
  BY DEF BVerify, BLoad, BSectionsDone, BSetPmp, BGetSoc, BResume, BLoop, vars, input, counters, capVars
<1>2. bpc' # bpc => step = 1 \/ (bpc = "sections" /\ j > Len(Sections))
  BY DEF BVerify, BLoad, BSectionsDone, BSetPmp, BGetSoc, BResume, BLoop, vars, Handover, Progress
<1>3. bpc' # bpc => step = 1
  <2>1. bpc = "sections" /\ step = 2 => j <= Len(Sections)
    BY DEF Handover, Progress
  <2>2. bpc = "sections" => step \in {1, 2}
    BY DEF Handover, Progress
  <2>3. j \in Int /\ Len(Sections) \in Int
    BY SectionFacts DEF Handover, Progress
  <2> QED BY <1>2, <2>1, <2>2, <2>3
<1>4. Sections' = Sections
  BY <1>1 DEF Sections
<1>5. /\ AppPort1' = AppPort1 /\ AppPort2' = AppPort2 /\ AppTime' = AppTime /\ UartGiven' = UartGiven
      /\ Channels' = Channels /\ Port1' = Port1 /\ UartPmp' = UartPmp /\ AppPmp' = AppPmp
      /\ Port2' = Port2 /\ TimeLeft' = TimeLeft /\ TimeSlice' = TimeSlice /\ Temporary' = Temporary
      /\ OtherHart' = OtherHart
  <2>1. CASE bpc' = bpc
    <3>1. Derived' = Derived
      BY <1>1, <1>4 DEF Derived, Current, PmpCompatible, Begin, Size
    <3> QED BY <1>1, <2>1, <3>1 DEF AppPort1, AppPort2, AppTime, UartGiven, Channels, Port1, UartPmp, AppPmp, Port2,
               TimeLeft, TimeSlice, Temporary, OtherHart, Connected, TimeGiven
  <2>2. CASE bpc' # bpc
    <3>1. step = 1 /\ step' = 1
      BY <1>1, <1>3, <2>2
    <3>2. Connected' = Connected /\ TimeGiven' = TimeGiven /\ UartGiven' = UartGiven
      BY <1>1, <2>2 DEF Connected, TimeGiven, UartGiven
    <3>3. Temporary = NoCap /\ Temporary' = NoCap
      BY <3>1 DEF Temporary
    <3>4. AppPort1' = AppPort1 /\ AppPort2' = AppPort2 /\ AppTime' = AppTime
      BY <3>1, <3>2 DEF AppPort1, AppPort2, AppTime
    <3>5. Channels' = Channels /\ Port1' = Port1 /\ Port2' = Port2
      BY <3>1, <3>2 DEF Channels, Port1, Port2
    <3>6. /\ bpc \notin {"init", "monitor", "time"}
          /\ bpc' \notin {"init", "monitor", "time"}
      BY <1>1, <2>2
    <3>7. UartPmp' = UartPmp /\ AppPmp' = AppPmp /\ TimeLeft' = TimeLeft /\ OtherHart' = OtherHart
      BY <3>6 DEF UartPmp, AppPmp, TimeLeft, OtherHart
    <3>8. TimeSlice' = TimeSlice
      BY <3>2, <3>6 DEF TimeSlice
    <3> QED BY <3>2, <3>3, <3>4, <3>5, <3>7, <3>8
  <2> QED BY <2>1, <2>2
<1>6. MonTable'
  BY <1>1, <1>5, MonKept DEF Handover
<1>7. AppTable' /\ HeapSlots'
  BY <1>1, <1>5, AppKept DEF Handover
<1> QED BY <1>6, <1>7

LEMMA NextHandover == BInv /\ Handover /\ [Next]_vars => Handover'
<1> SUFFICES ASSUME BInv, Handover, [Next]_vars PROVE Handover'
  OBVIOUS
<1>1. Progress'
  BY NextProgress DEF Handover
<1>2. MonTable' /\ AppTable' /\ HeapSlots'
  BY StepInit, StepQuiet, StepMonitor, StepTime, StepDerive, StepGive, StepUart, StepTimeGive, StepIpc
  DEF Next, Succeeds, SucceedsIfCompatible, Follows
<1> QED BY <1>1, <1>2 DEF Handover

LEMMA HandoverInvariance == Spec => [](BInv /\ Handover)
<1>1. Init => BInv /\ Handover
  BY InitBInv, InitHandover
<1>2. (BInv /\ Handover) /\ [Next]_vars => (BInv /\ Handover)'
  BY NextBInv, NextHandover
<1> QED BY <1>1, <1>2, PTL DEF Spec

-----------------------------------------------------------------------------
(* Whatever sections the app has, a derivation or gift of setup() fails    *)
(* exactly for a section that the PMP cannot describe, and then changes    *)
(* neither table (capman_derive_pmp, _time and _socket, capman_mgivecap).  *)
THEOREM FailuresAreConfined == Spec => OnlyUnalignedFails
<1> DEFINE Outcome ==
        IF bpc = "sections" /\ j <= Len(Sections) /\ ~PmpCompatible(j, k)
        THEN UNCHANGED capVars
        ELSE \/ bpc \in {"monitor", "time", "uart", "time_give", "ipc"}
             \/ bpc = "sections" /\ j <= Len(Sections)
             => table' # table
<1>1. ASSUME BInv, Handover, Next, ~UNCHANGED vars
      PROVE  Outcome
  <2>1. j <= Len(Sections) => ~(j > Len(Sections))
    <3>1. Len(Sections) \in 0 .. 6
      BY <1>1, SectionFacts DEF Handover, Progress
    <3>2. j \in 1 .. Len(Sections) + 1
      BY <1>1 DEF Handover, Progress
    <3> QED BY <3>1, <3>2
  <2>2. CASE bpc = "sections" /\ j <= Len(Sections)
    <3>1. BDerive \/ BGive
      BY <1>1, <2>1, <2>2 DEF Next, BInit, BMonitor, BTime, BVerify, BLoad, BSectionsDone, BUart, BTimeGive, BSetPmp,
         BIpc, BGetSoc, BResume, BLoop, Run
    <3>2. SucceedsIfCompatible
      BY <1>1, <3>1, StepDerive, StepGive
    <3> QED BY <2>2, <3>2 DEF SucceedsIfCompatible
  <2>3. CASE bpc \in {"monitor", "time", "uart", "time_give", "ipc"}
    <3>1. BMonitor \/ BTime \/ BUart \/ BTimeGive \/ BIpc
      BY <1>1, <2>3 DEF Next, BInit, BVerify, BLoad, BDerive, BGive, BSectionsDone, BSetPmp, BGetSoc, BResume, BLoop
    <3>2. Succeeds
      BY <1>1, <3>1, StepMonitor, StepTime, StepUart, StepTimeGive, StepIpc
    <3> QED BY <2>3, <3>2 DEF Succeeds
  <2> QED BY <2>2, <2>3
<1>2. (BInv /\ Handover) /\ [Next]_vars => [Outcome]_vars
  BY <1>1
<1> QED BY <1>2, HandoverInvariance, PTL DEF Spec, OnlyUnalignedFails

(* The two ends of both channels are where the programs look for them,     *)
(* whatever sections the app has (setup_ipc, capman_getsoc).               *)
THEOREM ChannelsWired == Spec => []Wired
<1>1. BInv /\ Handover => Wired
  <2> SUFFICES ASSUME Handover, bpc \in {"resume", "done"}
               PROVE  /\ table["mon"][soccaps[0]] = Server(0) /\ table["app"][SOCKET_PORT2] = Client(0)
                      /\ table["mon"][soccaps[1]] = Client(1) /\ table["app"][SOCKET_PORT1] = Server(1)
    BY DEF Wired
  <2>1. soccaps = [ch \in 0 .. 1 |-> 10 + ch]
    BY DEF Handover, Progress
  <2>2. soccaps[0] = 10 /\ soccaps[1] = 11
    BY <2>1
  <2>3. Port1 = Server(0) /\ Port2 = Client(1) /\ AppPort1 = Server(1) /\ AppPort2 = Client(0)
    BY DEF Port1, Port2, AppPort1, AppPort2, Connected
  <2>4. table["mon"][10] = Port1 /\ table["mon"][11] = Port2 /\ table["app"][10] = AppPort1 /\ table["app"][11] = AppPort2
    BY MonSlots DEF Handover, AppTable
  <2> QED BY <2>2, <2>3, <2>4 DEF SOCKET_PORT1, SOCKET_PORT2
<1> QED BY <1>1, HandoverInvariance, PTL

(* The app's PMP register names every PMP capability that its sections and *)
(* the UART can have, each once, and an empty slot only if there is a      *)
(* section that the PMP cannot describe: for any sections and any size of  *)
(* the heap (setup_app, capman_derive_pmp, capman_setpmp).                 *)
THEOREM SectionsAreActive == Spec => []SectionsActive
<1>1. BInv /\ Handover => SectionsActive
  <2> SUFFICES ASSUME Handover, bpc \in {"resume", "done"}
               PROVE  /\ {table["app"][s] : s \in ipmp} \ {NoCap} = GrantedPmps
                      /\ \A s, t \in ipmp : table["app"][s] = table["app"][t] /\ table["app"][s] # NoCap => s = t
                      /\ AllCompatible => \A s \in ipmp : table["app"][s] # NoCap
    BY DEF SectionsActive
  <2>1. Progress /\ AppTable
    BY DEF Handover
  <2>2. ipmp = 0 .. npmp - 1 /\ j = Len(Sections) + 1 /\ k = 0
    BY <2>1, FewPmps DEF Progress, Masked, Early
  <2>3. Len(Sections) \in 0 .. 6 /\ DOMAIN Sections = 1 .. Len(Sections)
    BY <2>1, SectionFacts DEF Progress
  <2>4. Given = GrantedPmps
    <3>1. Half = {} /\ Uart = {Pmp("uart", 0, RW)}
      BY <2>2 DEF Half, Uart, UartGiven
    <3>2. 1 .. j - 1 = DOMAIN Sections
      BY <2>2, <2>3
    <3>3. Earlier = UNION {Section(i) : i \in DOMAIN Sections}
      BY <3>2, Zenon DEF Earlier
    <3> QED BY <3>1, <3>3, Zenon DEF Given, GrantedPmps
  <2>5. NoCap \notin Given
    <3>1. \A i : NoCap \notin Section(i)
      BY Kinds DEF Section
    <3>2. NoCap # Pmp("uart", 0, RW)
      BY Kinds
    <3> QED BY <2>4, <3>1, <3>2 DEF GrantedPmps
  <2>6. {table["app"][s] : s \in ipmp} \ {NoCap} = Given
    BY <2>1, <2>2, <2>5 DEF AppTable
  <2> QED BY <2>1, <2>2, <2>4, <2>6 DEF AppTable
<1> QED BY <1>1, HandoverInvariance, PTL

-----------------------------------------------------------------------------
(* What MonitorApp assumes of its constants holds of what it starts with   *)
(* here: its slots are slots, and apart.                                   *)
LEMMA SystemAssumed ==
    /\ NCAP \in Nat \ {0} /\ NHeap \in Nat /\ NHeap >= 2
    /\ 48 \in Slot /\ 1 \in Slot \ {48} /\ Kept \subseteq Slot \ {48, 1}
    /\ \A i \in 1 .. 6 : i - 1 \in Slot /\ i \in Slot
<1>1. 0 .. 48 \subseteq Slot /\ NCAP \in Nat \ {0} /\ NHeap \in Nat /\ NHeap >= 2
  BY Slots
<1>2. Kept = {0, 2, 3, 7, 8, 9, 10, 11, 12}
  BY DEF Kept, UartSlot, SOCKET_PORT1, SOCKET_PORT2, AppMemSlot
<1> QED BY <1>1, <1>2

(* What the monitor has when it is about to resume the app. *)
LEMMA MonitorAtResume ==
    ASSUME Handover, bpc = "resume", NEW s \in Slot
    PROVE  InMonitor(table["mon"][s]) =
               IF s = 1 THEN InSystem("memory", -1, {})
               ELSE IF s \in Kept THEN Untouched ELSE Empty
<1>1. Kept = {0, 2, 3, 7, 8, 9, 10, 11, 12}
  BY DEF Kept, UartSlot, SOCKET_PORT1, SOCKET_PORT2, AppMemSlot
<1>2. /\ Progress /\ MonTable /\ step = 1
  BY DEF Handover, Progress
<1>3. /\ TimeLeft = Time(32) /\ TimeSlice = NoCap /\ Temporary = NoCap /\ OtherHart = NoCap
      /\ UartPmp = Pmp("uart", 0, RW) /\ AppPmp = Pmp("app", 0, RW)
      /\ Port1 = Server(0) /\ Port2 = Client(1)
  BY DEF TimeLeft, TimeSlice, TimeGiven, Temporary, OtherHart, UartPmp, AppPmp, Port1, Port2, Connected
<1> DEFINE cap == table["mon"][s]
<1>4. CASE s = 1
  <2>1. cap = Memory("ram") /\ Memory("ram") # NoCap
    BY <1>2, <1>4, MonSlots, Kinds
  <2> QED BY <1>4, <2>1 DEF InMonitor
<1>5. CASE s \in Kept
  <2>1. /\ Pmp("monitor", 0, RWX).type = "pmp" /\ Time(32).type = "time" /\ Cap("monitor", "", 0, {}).type = "monitor"
        /\ Channel(Channels).type = "channel" /\ Pmp("uart", 0, RW).type = "pmp" /\ Server(0).type = "socket"
        /\ Client(1).type = "socket" /\ Pmp("app", 0, RW).type = "pmp"
    BY Kinds DEF Cap
  <2>2. cap \in {Pmp("monitor", 0, RWX), Memory("uart"), Time(32), Cap("monitor", "", 0, {}), Channel(Channels),
                 Pmp("uart", 0, RW), Server(0), Client(1), Pmp("app", 0, RW)}
    BY <1>1, <1>2, <1>3, <1>5, MonSlots
  <2> HIDE DEF cap
  <2>3. cap = Memory("uart") \/ cap.type \notin {"none", "memory"}
    BY <2>1, <2>2
  <2>4. cap # NoCap /\ cap # Memory("ram")
    BY <2>3, Kinds
  <2>5. s # 1
    BY <1>1, <1>5
  <2> QED BY <1>5, <2>4, <2>5 DEF InMonitor, cap
<1>6. CASE s # 1 /\ s \notin Kept
  <2>1. cap = NoCap
    <3>1. s \in {4, 5, 6, 24, 32} \/ s \notin Used
      BY <1>1, <1>6 DEF Used
    <3>2. CASE s \notin Used
      BY <1>2, <3>2 DEF MonTable
    <3>3. CASE s \in {4, 5, 6, 24, 32}
      BY <1>2, <1>3, <3>3, MonSlots
    <3> QED BY <3>1, <3>2, <3>3
  <2>2. NoCap # Memory("ram")
    BY Kinds
  <2> QED BY <1>6, <2>1, <2>2 DEF InMonitor
<1> QED BY <1>4, <1>5, <1>6

(* What the app has then, whose section i is the heap. *)
LEMMA AppAtResume ==
    ASSUME Handover, bpc = "resume", security, NEW i \in DOMAIN header, header[i].name = "heap", HeapSuits(i), NEW s \in Slot
    PROVE  InApp(table["app"][s]) =
               IF s = i - 1 THEN InSystem("pmp", 0, R)
               ELSE IF s = i THEN InSystem("pmp", NHeap - 1, R) ELSE Untouched
<1>1. Progress /\ AppTable /\ HeapSlots
  BY DEF Handover
<1>2. Sections = header /\ header \in Headers
  BY <1>1 DEF Sections, Progress
<1>3. /\ i \in 1 .. Len(Sections) /\ Len(Sections) \in 0 .. 6
      /\ \A l \in 1 .. Len(Sections) : Sections[l].name = "heap" => l = i
      /\ \A l \in 1 .. Len(Sections) : Sections[l].name # "uart"
  BY <1>2, SectionFacts
<1>4. header[i].rwx = R
  BY <1>2, HeadersAssumption DEF R
<1>5. j = Len(Sections) + 1 /\ k = 0 /\ npmp \in 0 .. 8 /\ npmp = Place + 1
  BY <1>1, FewPmps DEF Progress, Early, UartGiven
<1>6. i < npmp
  <2>1. HeapBefore(j)
    BY <1>2, <1>3, <1>5 DEF HeapBefore
  <2> QED BY <1>3, <1>5, <2>1 DEF Place
<1>7. /\ table["app"][i - 1] = Pmp("heap", 0, R) /\ table["app"][i] = Pmp("heap", NHeap - 1, R)
  BY <1>1, <1>2, <1>3, <1>4, <1>5 DEF HeapSlots
<1>8. /\ Pmp("heap", 0, R).type = "pmp" /\ Pmp("heap", 0, R).of = "heap"
      /\ Pmp("heap", 0, R).n = 0 /\ Pmp("heap", 0, R).rwx = R
      /\ Pmp("heap", NHeap - 1, R).type = "pmp" /\ Pmp("heap", NHeap - 1, R).of = "heap"
      /\ Pmp("heap", NHeap - 1, R).n = NHeap - 1 /\ Pmp("heap", NHeap - 1, R).rwx = R
  BY DEF Pmp, Cap
<1>9. i \in 1 .. 6
  BY <1>3
<1>10. CASE s = i - 1
  BY <1>7, <1>8, <1>10 DEF InApp
<1>11. CASE s = i
  BY <1>7, <1>8, <1>9, <1>11 DEF InApp
<1>12. CASE s # i - 1 /\ s # i
  <2> DEFINE cap == table["app"][s]
  <2>1. CASE s \in 0 .. npmp - 1
    <3>0. cap \in Given \union {NoCap}
      BY <1>1, <2>1 DEF AppTable
    <3>1. cap # Pmp("heap", 0, R) /\ cap # Pmp("heap", NHeap - 1, R)
      <4>1. i - 1 \in 0 .. npmp - 1 /\ i \in 0 .. npmp - 1
        BY <1>5, <1>6, <1>9
      <4>2. table["app"][i - 1] # NoCap /\ table["app"][i] # NoCap
        BY <1>7, <1>8, Kinds
      <4> QED BY <1>1, <1>7, <1>12, <2>1, <4>1, <4>2 DEF AppTable
    <3> HIDE DEF cap
    <3>2. Half = {} /\ Uart = {Pmp("uart", 0, RW)}
      BY <1>5 DEF Half, Uart, UartGiven
    <3>3. Pmp("uart", 0, RW).of # "heap"
      BY Kinds
    <3>4. ASSUME cap \in Earlier PROVE cap.of # "heap"
      <4>1. PICK l \in 1 .. Len(Sections) : cap \in Section(l)
        BY <1>3, <1>5, <3>4 DEF Earlier
      <4>2. PICK c \in Chunks(Sections[l].name) : cap = Pmp(Sections[l].name, c, Sections[l].rwx)
        BY <4>1 DEF Section
      <4>3. CASE Sections[l].name = "heap"
        <5>1. l = i /\ c \in {0, NHeap - 1}
          BY <1>3, <4>1, <4>2, <4>3 DEF Chunks
        <5>2. cap = Pmp("heap", c, R)
          BY <1>2, <1>4, <4>2, <4>3, <5>1
        <5> QED BY <3>1, <5>1, <5>2
      <4>4. CASE Sections[l].name # "heap"
        <5>1. cap.of = Sections[l].name
          BY <4>2, Kinds
        <5> QED BY <4>4, <5>1
      <4> QED BY <4>3, <4>4
    <3>5. cap = NoCap \/ cap.of # "heap"
      BY <3>0, <3>2, <3>3, <3>4 DEF Given
    <3> QED BY <1>12, <3>5, Kinds DEF InApp, cap
  <2>2. CASE s \notin 0 .. npmp - 1
    <3>1. s >= npmp
      BY <1>5, <2>2 DEF Slot
    <3>2. cap \in {NoCap, AppPort1, AppPort2, AppTime}
      BY <1>1, <3>1 DEF AppTable
    <3>3. AppPort1 = Server(1) /\ AppPort2 = Client(0) /\ AppTime = Time(0)
      BY DEF AppPort1, AppPort2, AppTime, Connected, TimeGiven
    <3> HIDE DEF cap
    <3>4. cap.type # "pmp"
      BY <3>2, <3>3, Kinds
    <3> QED BY <1>12, <3>4 DEF InApp, cap
  <2> QED BY <2>1, <2>2
<1> QED BY <1>10, <1>11, <1>12

-----------------------------------------------------------------------------
(* setup() ends in an initial state of MonitorApp, for any sections, if    *)
(* the chunks of the heap suit the PMP, any size of the heap and any       *)
(* number of capabilities: what is proved of the                           *)
(* system from there on holds of what setup() hands over (setup_app,       *)
(* setup_ipc, monitor.c 236).                                              *)
THEOREM BootStartsSystem == Spec => []StartsSystem
<1>1. BInv /\ Handover => StartsSystem
  <2> SUFFICES ASSUME BInv, Handover, bpc = "resume", security, NEW i \in DOMAIN header, header[i].name = "heap", HeapSuits(i)
               PROVE  Suitable(i - 1) /\ System(i - 1)!Init
    BY DEF StartsSystem, HeapSuits
  <2>1. copy = table["mon"] /\ ~resumed
    BY DEF BInv, CopyFresh, Handover, Progress
  <2>2. i \in 1 .. 6
    <3>1. header \in Headers /\ Sections = header
      BY DEF Handover, Progress, Sections
    <3> QED BY <3>1, SectionFacts
  <2> DEFINE mon == [s \in Slot |-> IF s = 1 THEN InSystem("memory", -1, {})
                                    ELSE IF s \in Kept THEN Untouched ELSE Empty]
  <2> DEFINE app == [s \in Slot |-> IF s = i - 1 THEN InSystem("pmp", 0, R)
                                    ELSE IF s = i THEN InSystem("pmp", NHeap - 1, R) ELSE Untouched]
  <2>3. \A s \in Slot : InMonitor(table["mon"][s]) = mon[s] /\ InApp(table["app"][s]) = app[s]
    BY MonitorAtResume, AppAtResume
  <2>4. [p \in Proc |-> [s \in Slot |-> IF p = "mon" THEN InMonitor(table[p][s]) ELSE InApp(table[p][s])]]
           = [p \in Proc |-> IF p = "mon" THEN mon ELSE app]
    BY <2>3 DEF Proc
  <2>5. [p \in Proc |-> [s \in Slot |-> IF p = "mon" THEN InMonitor(copy[s]) ELSE Empty]]
           = [p \in Proc |-> IF p = "mon" THEN mon ELSE [s \in Slot |-> Empty]]
    BY <2>1, <2>3 DEF Proc
  <2>6. System(i - 1)!MonTable(Kept) = mon
    BY DEF System!MonTable, System!Slot, System!NoCap, System!OtherCap, System!MemoryCap, System!NoChunk,
           Slot, InSystem, Untouched, Empty
  <2>7. System(i - 1)!AppTable = app
    <3>1. System(i - 1)!PmpChunk = {0, NHeap - 1}
      BY DEF System!PmpChunk
    <3>2. NHeap - 1 \in Nat /\ NHeap - 1 # 0
      BY Slots
    <3>3. \A c \in {0, NHeap - 1} : System(i - 1)!HeapSlot(c) = IF c = 0 THEN i - 1 ELSE i
      BY <2>2 DEF System!HeapSlot
    <3>4. {System(i - 1)!HeapSlot(c) : c \in System(i - 1)!PmpChunk} = {i - 1, i}
      BY <3>1, <3>2, <3>3
    <3>5. (CHOOSE c \in {0, NHeap - 1} : System(i - 1)!HeapSlot(c) = i - 1) = 0
      BY <2>2, <3>2, <3>3
    <3>6. (CHOOSE c \in {0, NHeap - 1} : System(i - 1)!HeapSlot(c) = i) = NHeap - 1
      BY <2>2, <3>2, <3>3
    <3>7. /\ System(i - 1)!OtherCap = Untouched
          /\ \A c : System(i - 1)!Pmp(c, System(i - 1)!R) = InSystem("pmp", c, R)
      BY DEF System!OtherCap, System!NoChunk, System!Pmp, System!R, R, Untouched, InSystem
    <3> DEFINE at(s) == CHOOSE c \in System(i - 1)!PmpChunk : System(i - 1)!HeapSlot(c) = s
    <3>8. at(i - 1) = 0 /\ at(i) = NHeap - 1
      BY <3>1, <3>5, <3>6
    <3>9. System(i - 1)!AppTable =
             [s \in Slot |-> IF s \in {i - 1, i} THEN InSystem("pmp", at(s), R) ELSE Untouched]
      BY <3>4, <3>7, Zenon DEF System!AppTable, System!Slot, Slot
    <3> HIDE DEF at
    <3> QED BY <2>2, <3>8, <3>9
  <2>8. System(i - 1)!NoCap = Empty
    BY DEF System!NoCap, System!NoChunk, Empty, InSystem
  <2>9. System(i - 1)!Idle = [st |-> "idle", slot |-> -1, msg |-> NoMessage]
    BY DEF System!Idle, System!Status, System!NoSlot, System!NoChunk, NoMessage
  <2>10. System(i - 1)!MonInit /\ System(i - 1)!AppInit
    BY <2>1 DEF System!MonInit, System!AppInit, System!Status, System!NoSlot, System!NoChunk, System!Chunk, NoMessage
  <2> HIDE DEF mon, app
  <2>11. /\ System(i - 1)!Proc = Proc /\ System(i - 1)!Slot = Slot
         /\ System(i - 1)!Chunk = 0 .. NHeap - 1
    BY DEF System!Proc, System!Slot, System!Chunk, Proc, Slot
  <2>12. [c \in 0 .. NHeap - 1 |-> "any"] \in [System(i - 1)!Chunk -> {"any"}]
    BY <2>11
  <2>13. Suitable(i - 1)
    <3>1. 0 .. 48 \subseteq Slot
      BY Slots
    <3>2. Kept = {0, 2, 3, 7, 8, 9, 10, 11, 12}
      BY DEF Kept, UartSlot, SOCKET_PORT1, SOCKET_PORT2, AppMemSlot
    <3>3. 4 \in Slot \ (Kept \union {1, 48})
      BY <3>1, <3>2
    <3> QED BY <2>2, <3>1, <3>2, <3>3 DEF Suitable
  <2> QED BY <2>13, <2>1, <2>4, <2>5, <2>6, <2>7, <2>8, <2>9, <2>10, <2>11, <2>12 DEF System!Init
<1> QED BY <1>1, HandoverInvariance, PTL

LEMMA Constructed ==
    /\ NoCap \in Capability /\ Memory("ram") \in Capability /\ Memory("uart") \in Capability
    /\ Cap("monitor", "", 0, {}) \in Capability /\ Cap("time", "other hart", 0, {}) \in Capability
    /\ \A n \in Nat : /\ Time(n) \in Capability /\ Channel(n) \in Capability
                      /\ Server(n) \in Capability /\ Client(n) \in Capability
    /\ \A of \in SectionNames \union {"monitor", "uart", "app"}, c \in Nat, rwx \in SUBSET RWX :
          Pmp(of, c, rwx) \in Capability
<1>1. \A of \in SectionNames \union {"monitor", "uart", "app"}, c \in Nat, rwx \in SUBSET RWX :
          Pmp(of, c, rwx) \in Capability
  BY DEF Pmp, Cap, Capability
<1>2. NoCap \in Capability /\ Memory("ram") \in Capability /\ Memory("uart") \in Capability
  BY DEF NoCap, Memory, Cap, Capability
<1>3. Cap("monitor", "", 0, {}) \in Capability /\ Cap("time", "other hart", 0, {}) \in Capability
  BY DEF Cap, Capability
<1>4. \A n \in Nat : Time(n) \in Capability /\ Channel(n) \in Capability
  BY DEF Time, Channel, Cap, Capability
<1>5. \A n \in Nat : Server(n) \in Capability /\ Client(n) \in Capability
  BY DEF Server, Client, Cap, Capability
<1> QED BY <1>1, <1>2, <1>3, <1>4, <1>5

LEMMA SectionCaps ==
    ASSUME Progress
    PROVE  /\ Given \subseteq Capability
           /\ j <= Len(Sections) => Current \in Capability
<1>1. /\ Len(Sections) \in 0 .. 6 /\ k \in Nat /\ NHeap - 1 \in Nat /\ j \in 1 .. Len(Sections) + 1
      /\ k # 0 => j <= Len(Sections)
  <2>1. Len(Sections) \in 0 .. 6
    BY SectionFacts DEF Progress
  <2>2. j \in 1 .. Len(Sections) + 1 /\ k \in {0, NHeap - 1} /\ (k # 0 => j <= Len(Sections))
    BY DEF Progress
  <2>3. NHeap - 1 \in Nat
    BY Slots
  <2>4. k \in Nat
    BY <2>2, <2>3
  <2> QED BY <2>1, <2>2, <2>3, <2>4
<1>2. \A i \in 1 .. Len(Sections) : /\ Sections[i].name \in SectionNames \union {"monitor", "uart", "app"}
                                    /\ Sections[i].rwx \in SUBSET RWX
  BY SectionFacts DEF Progress
<1>3. \A i \in 1 .. Len(Sections), c \in Nat : Pmp(Sections[i].name, c, Sections[i].rwx) \in Capability
  BY <1>2, Constructed
<1>4. \A i \in 1 .. Len(Sections) : Section(i) \subseteq Capability
  BY <1>1, <1>3 DEF Section, Chunks
<1>5. Earlier \subseteq Capability
  BY <1>1, <1>4 DEF Earlier
<1>6. Half \subseteq Capability
  BY <1>1, <1>3 DEF Half
<1>7. Pmp("uart", 0, RW) \in Capability
  BY Constructed DEF RW, RWX
<1>8. Uart \subseteq Capability
  BY <1>7 DEF Uart
<1>9. j <= Len(Sections) => Current \in Capability
  BY <1>1, <1>3 DEF Current
<1> QED BY <1>5, <1>6, <1>8, <1>9 DEF Given

(* The type invariant holds for any sections. *)
THEOREM BootTypes == Spec => []TypeOK
<1>1. BInv /\ Handover => TypeOK
  <2> SUFFICES ASSUME BInv, Handover PROVE TypeOK
    OBVIOUS
  <2>1. Progress /\ MonTable /\ AppTable /\ Shape /\ CopyFresh
    BY DEF Handover, BInv
  <2>2. Pmp("uart", 0, RW) \in Capability /\ Pmp("app", 0, RW) \in Capability /\ Pmp("monitor", 0, RWX) \in Capability
    BY Constructed DEF RW, RWX
  <2>3. Temporary \in Capability
    <3>1. bpc = "sections" /\ step = 2 => Current \in Capability
      BY <2>1, SectionCaps DEF Progress
    <3>2. Server(1) \in Capability /\ Client(0) \in Capability /\ NoCap \in Capability
      BY Constructed
    <3>3. bpc = "sections" /\ step = 2 => Derived \in Capability
      BY <3>1, <3>2 DEF Derived
    <3> QED BY <2>2, <3>2, <3>3 DEF Temporary
  <2>4. /\ TimeLeft \in Capability /\ OtherHart \in Capability /\ Channel(Channels) \in Capability
        /\ Port1 \in Capability /\ Port2 \in Capability /\ TimeSlice \in Capability
        /\ UartPmp \in Capability /\ AppPmp \in Capability
    BY <2>2, Constructed DEF TimeLeft, OtherHart, Channels, Port1, Port2, TimeSlice, UartPmp, AppPmp
  <2>5. \A s \in Slot : table["mon"][s] \in Capability
    <3>1. \A s \in Slot \ Used : table["mon"][s] \in Capability
      BY <2>1, Constructed DEF MonTable
    <3>2. \A s \in Used : table["mon"][s] \in Capability
      <4>1. /\ table["mon"][0] \in Capability /\ table["mon"][1] \in Capability /\ table["mon"][2] \in Capability
            /\ table["mon"][3] \in Capability /\ table["mon"][4] \in Capability /\ table["mon"][5] \in Capability
            /\ table["mon"][6] \in Capability /\ table["mon"][7] \in Capability
        BY <2>1, <2>2, <2>4, MonSlots, Constructed
      <4>2. /\ table["mon"][8] \in Capability /\ table["mon"][9] \in Capability /\ table["mon"][10] \in Capability
            /\ table["mon"][11] \in Capability /\ table["mon"][12] \in Capability /\ table["mon"][24] \in Capability
            /\ table["mon"][32] \in Capability
        BY <2>1, <2>3, <2>4, MonSlots
      <4>3. Used = {0, 1, 2, 3, 4, 5, 6, 7, 8, 9, 10, 11, 12, 24, 32}
        BY DEF Used
      <4> QED BY <4>1, <4>2, <4>3
    <3> QED BY <3>1, <3>2
  <2>6. \A s \in Slot : table["app"][s] \in Capability
    <3>1. AppPort1 \in Capability /\ AppPort2 \in Capability /\ AppTime \in Capability /\ NoCap \in Capability
      BY Constructed DEF AppPort1, AppPort2, AppTime
    <3>2. npmp \in 0 .. 8 /\ Given \subseteq Capability
      BY <2>1, FewPmps, SectionCaps
    <3>3. ASSUME NEW s \in Slot, s \notin {10, 11, 15} PROVE table["app"][s] \in Capability
      <4>1. s >= npmp \/ s \in 0 .. npmp - 1
        BY <3>2, Slots DEF Slot
      <4> QED BY <2>1, <3>1, <3>2, <3>3, <4>1 DEF AppTable
    <3> QED BY <2>1, <3>1, <3>3 DEF AppTable
  <2>7. table \in [Proc -> [Slot -> Capability]]
    BY <2>1, <2>5, <2>6 DEF Shape, Proc
  <2>8. copy \in [Slot -> Capability]
    <3>1. CASE bpc = "init"
      BY <2>1, <3>1, Constructed DEF Progress
    <3>2. CASE bpc # "init"
      BY <2>1, <2>7, <3>2 DEF CopyFresh, Proc
    <3> QED BY <3>1, <3>2
  <2>9. npmp \in 0 .. 8 /\ (ipmp = {} \/ ipmp = 0 .. npmp - 1) /\ soccaps \in [0 .. 1 -> Slot]
    <3>1. npmp \in 0 .. 8 /\ (ipmp = {} \/ ipmp = 0 .. npmp - 1)
      BY <2>1, FewPmps DEF Progress
    <3>2. soccaps = [ch \in 0 .. 1 |-> IF bpc \in {"resume", "done"} THEN 10 + ch ELSE 0]
      BY <2>1 DEF Progress
    <3>3. soccaps \in [0 .. 1 -> Slot]
      BY <3>2, Slots DEF Slot
    <3> QED BY <3>1, <3>3
  <2>10. npmp \in 0 .. AppTimeSlot - 1 /\ ipmp \subseteq Slot /\ k \in 0 .. NHeap - 1
    <3>1. 0 .. 8 \subseteq Slot /\ NHeap - 1 \in Nat
      BY Slots
    <3>2. k \in {0, NHeap - 1}
      BY <2>1 DEF Progress
    <3> QED BY <2>9, <3>1, <3>2 DEF AppTimeSlot
  <2> QED BY <2>1, <2>7, <2>8, <2>9, <2>10 DEF TypeOK, Progress
<1> QED BY <1>1, HandoverInvariance, PTL
=============================================================================
