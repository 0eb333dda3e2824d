-------------------------- MODULE TestSuite_proofs --------------------------
(***************************************************************************)
(* The test programs are an application in the sense of module App, so     *)
(* every safety property proved of MonitorApp holds while they run.        *)
(***************************************************************************)
EXTENDS TestSuite, MonitorAppSafety_proofs, SequenceTheorems

Pointers == ptr \in Chunk \union {NoChunk} /\ new \in Chunk \union {NoChunk}

LEMMA AtIsAddress == Pointers => \A at : At(at) \in Chunk \union {Outside}
  BY DEF Pointers, At, Outside

LEMMA AllocIsInput == SAlloc => [AppInput /\ UNCHANGED monVars]_vars
  BY DEF SAlloc, AppInput, AAlloc

LEMMA StoreIsInput == SStore => [AppInput /\ UNCHANGED monVars]_vars
<1>1. Code \in Content
  BY SuiteAssumption, MonitorAssumption DEF Code
<1> QED
  BY <1>1 DEF SStore, AppInput, AWrite

LEMMA FreeIsInput == SFree => [AppInput /\ UNCHANGED monVars]_vars
  BY DEF SFree, AppInput, AFree

(* A denied access is one of the faults of module App. *)
LEMMA FaultIsInput == Pointers /\ SFault => AppInput /\ UNCHANGED monVars
<1> SUFFICES ASSUME Pointers, SFault PROVE AppInput /\ UNCHANGED monVars
  OBVIOUS
<1>0. UNCHANGED monVars
  BY DEF SFault, suiteVars
<1>1. At(Operand.at) \in Chunk \union {Outside}
  BY AtIsAddress
<1>2. Below \in Chunk \union {Outside}
  BY S3kAssumption DEF Below, Chunk
<1>3. CASE StoreFault(At(Operand.at))
  BY <1>0, <1>1, <1>3 DEF AppInput, AppFault, AStoreFault
<1>4. CASE FetchFault(At(Operand.at))
  BY <1>0, <1>1, <1>4 DEF AppInput, AppFault, AFetchFault
<1>5. CASE StackFault(Below, Below)
  BY <1>0, <1>2, <1>5 DEF AppInput, AppFault, AStackFault
<1> QED
  BY <1>3, <1>4, <1>5 DEF SFault

(* Every step of the test programs is a step of the system. *)
LEMMA SuiteStep == Pointers /\ [SuiteNext]_allVars => [Next]_vars
<1> SUFFICES ASSUME Pointers, [SuiteNext]_allVars PROVE [Next]_vars
  OBVIOUS
<1>1. CASE SIterate \/ SReturn \/ SExec \/ SPush
  BY <1>1 DEF SIterate, SReturn, SExec, SPush
<1>2. CASE SAlloc \/ SStore \/ SFree \/ SFault
  <2>1. [AppInput /\ UNCHANGED monVars]_vars
    BY <1>2, AllocIsInput, StoreIsInput, FreeIsInput, FaultIsInput
  <2> QED
    BY <2>1 DEF Next, AppNext
<1>3. CASE SEnd
  BY <1>3 DEF SEnd, Next, AppNext, AppInput
<1>4. CASE SAnswer \/ SReset
  BY <1>4 DEF SAnswer, SReset, Next, AppNext, AppStep
<1>5. CASE SQuiet
  BY <1>5 DEF SQuiet, Next, AppNext, AppStep
<1>6. CASE SMonitor
  BY <1>6 DEF SMonitor, Next
<1>7. CASE UNCHANGED allVars
  BY <1>7 DEF allVars
<1> QED
  BY <1>1, <1>2, <1>3, <1>4, <1>5, <1>6, <1>7 DEF SuiteNext, SuiteApp

(* The pointers stay addresses of chunks or NULL. *)
LEMMA PointersStay == Pointers /\ [SuiteNext]_allVars => Pointers'
<1> SUFFICES ASSUME Pointers, [SuiteNext]_allVars PROVE Pointers'
  OBVIOUS
<1> USE DEF Pointers, Chunk
<1>1. CASE SIterate \/ SReturn \/ SExec \/ SPush
  BY <1>1 DEF SIterate, SReturn, SExec, SPush
<1>2. CASE SAlloc
  BY <1>2 DEF SAlloc
<1>3. CASE SStore \/ SFree \/ SFault
  BY <1>3 DEF SStore, SFree, SFault, suiteVars
<1>4. CASE SEnd \/ SAnswer \/ SReset
  BY <1>4 DEF SEnd, SAnswer, SReset
<1>5. CASE SQuiet \/ SMonitor \/ UNCHANGED allVars
  BY <1>5 DEF SQuiet, SMonitor, allVars, suiteVars
<1> QED
  BY <1>1, <1>2, <1>3, <1>4, <1>5 DEF SuiteNext, SuiteApp

(* What is proved of the system for every application holds of this one.   *)
LEMMA SuiteIsAnApplication == SuiteSpec => Spec
<1>1. SuiteInit => Init /\ Pointers
  BY DEF SuiteInit, Pointers
<1> QED
  BY <1>1, SuiteStep, PointersStay, PTL DEF SuiteSpec, Spec

(* The guarantees the tests set out to break hold while they run, for any  *)
(* mask, heap and number of capabilities (test1 to test9).                 *)
THEOREM SuiteCannotBreakPolicy == SuiteSpec => [](CodeIntegrity /\ WxorX)
  BY SuiteIsAnApplication, CodeIsSigned, WriteXorExecute, PTL

-----------------------------------------------------------------------------
(* Where the tests stand: one part for each thing that a test leaves to    *)
(* the next, as a function of the test that runs and of its next access.   *)
Together == 5 \in mask <=> 6 \in mask

(* The rights the app has on a chunk, by its copy. *)
Have(c) == caps["app"][HeapSlot(c)].rwx

(* The next access of test n is at most its last, or the return. *)
Ends(n) == CASE n \in {5, 6, 7} -> 3 [] n = 9 -> 2 [] OTHER -> 1
Position ==
    /\ mask \subseteq Tests
    /\ \/ i = 0 /\ pos = 0 /\ apc \in {"setup", "setup_send", "run"}
       \/ i = 33 /\ pos = 0 /\ apc \in {"end_send", "end"}
       \/ i \in mask /\ pos = 0 /\ apc = "run"
       \/ i \in mask /\ pos \in 1 .. Ends(i)
            /\ apc \in {"run", "req_send", "req_recv", "req_got", "ok_send", "soft_send"}

(* The accesses that make a request, its chunk and the rights it is for. *)
Asking == (i = 5 /\ pos = 2) \/ (i = 6 /\ pos = 1) \/ (i = 7 /\ pos \in {2, 3}) \/ (i = 9 /\ pos = 1)
Target == IF i = 9 THEN Below ELSE 0
Wish == IF i = 6 \/ (i = 7 /\ pos = 3) THEN RX ELSE RW
Trap ==
    /\ apc \in {"req_send", "req_recv", "req_got"} =>
          /\ Asking /\ idx = HeapSlot(Target) /\ Have(Target) # Wish
          /\ buf.rwx = Wish /\ (Wish = RX => buf.sig = 0)
    /\ apc = "ok_send" => Asking /\ Have(Target) = Wish
    /\ apc = "soft_send" => i \in {1, 2, 3, 4, 8} \/ (i = 7 /\ pos = 3)

(* What the tests have made of the two heap capabilities. *)
RightsNow ==
    apc # "setup" =>
        /\ i < 5 => Have(0) = R
        /\ i = 5 => Have(0) \in (CASE pos = 1 -> {R} [] pos = 2 -> {R, RW} [] OTHER -> {RW})
        /\ i = 6 => Have(0) \in (IF pos = 1 THEN {RW, RX} ELSE {RX})
        /\ i = 7 => Have(0) \in (CASE pos = 1 -> {R, RX} [] pos = 2 -> {R, RX, RW} [] OTHER -> {RW})
        /\ i < 9 => Have(Below) = R
        /\ i = 9 => Have(Below) \in (IF pos = 1 THEN {R, RW} ELSE {RW})
Untouched == apc = "setup" => kcap["app"] = AppTable

(* What they have made of the chunks, their contents and the pointers. *)
Pool ==
    /\ occupied \in [Chunk -> BOOLEAN]
    /\ i < 9 => \A c \in Chunk : occupied[c] => c = 0
    /\ i < 5 => ~ occupied[0]
    /\ i = 5 => (occupied[0] <=> pos # 1)
    /\ i = 6 => (occupied[0] <=> pos \in {1, 2})
    /\ i = 7 => (occupied[0] <=> pos # 1)
    /\ i = 9 /\ apc = "run" /\ occupied[Below] => Have(Below) = RW
Held ==
    /\ i \in {5, 7} /\ pos \in {2, 3} => new = 0
    /\ (i = 5 /\ pos = 0) \/ i = 6 => ptr = 0
    /\ i = 5 /\ pos \in {0, 3} => mem[0] \in Signed
    /\ i = 6 /\ pos = 1 => mem[0] \in Signed
    /\ i = 7 /\ pos = 3 => mem[0] \notin Signed

(* What has become of each test so far. *)
Partly ==
    CASE i = 5 -> IF Have(0) = RW THEN << "RW" >> ELSE << >>
      [] i = 6 -> IF pos > 1 THEN << "RX", "executed" >>
                  ELSE IF Have(0) = RX THEN << "RX" >> ELSE << >>
      [] i = 7 -> IF Have(0) # RW THEN << >>
                  ELSE IF apc = "soft_send" THEN << "RW", "refused" >> ELSE << "RW" >>
      [] i = 9 -> IF Have(Below) = RW THEN << "RW" >> ELSE << >>
      [] OTHER -> << >>
SoFar(n) ==
    IF n \notin mask \/ n > i THEN << >>
    ELSE IF n < i \/ pos = 0 THEN Documented(n) ELSE Partly
Logged == log = [n \in Tests |-> SoFar(n)]

(* What test 7 and the stack keep of the heap; nothing goes before that.   *)
Leftover ==
    /\ i \in {8, 9, 33} => (occupied[0] <=> 7 \in mask)
    /\ i \in {9, 33} => \A c \in Chunk : occupied[c] => c \in {0, Below}
    /\ i = 9 /\ (apc # "run" \/ Have(Below) = RW) => occupied[Below]
    /\ i = 33 => (occupied[Below] <=> 9 \in mask)

Progress == Position /\ Trap /\ RightsNow /\ Untouched /\ Pool /\ Held /\ Logged

-----------------------------------------------------------------------------
(* Where the heap's two capabilities are, and what they allow.             *)
LEMMA Heap ==
    /\ 0 \in PmpChunk /\ Below \in PmpChunk /\ 0 # Below
    /\ 0 \in Chunk /\ Below \in Chunk
    /\ HeapSlot(0) \in Slot /\ HeapSlot(Below) \in Slot /\ HeapSlot(0) # HeapSlot(Below)
<1>1. 0 \in PmpChunk /\ Below \in PmpChunk /\ 0 # Below
  BY S3kAssumption DEF PmpChunk, Below
<1> QED
  BY <1>1, HeapSlots

LEMMA RightsAreHeld ==
    ASSUME IInv, apc = "run", NEW c \in PmpChunk
    PROVE  Rights("app", c) = Have(c)
<1>1. caps["app"] = kcap["app"] /\ ~ Waiting
  BY DEF IInv, AppCopy, Waiting
<1>2. IsPmpOf(kcap["app"][HeapSlot(c)], c) /\ HeapSlot(c) \in Slot
  BY <1>1, HeapSlots DEF IInv, Custody, AppSlots
<1>3. \A r \in Rights("app", c) : r \in Have(c)
  BY <1>1, AppRight DEF Have
<1>4. \A r \in Have(c) : r \in Rights("app", c)
  BY <1>1, <1>2 DEF Have, Rights, IsPmpOf
<1> QED
  BY <1>3, <1>4

LEMMA RightNames == RW # RX /\ R # RW /\ R # RX /\ "W" \notin R /\ "W" \notin RX /\ "W" \in RW
                    /\ "X" \notin R /\ "X" \notin RW /\ "X" \in RX
BY DEF R, RW, RX

(* Which tests have an access of which kind, and where.                    *)
LEMMA Programs ==
    /\ Program(1) = << Store("beyond") >> /\ Program(2) = << Exec("beyond") >>
    /\ Program(3) = << Store("text") >> /\ Program(4) = << Exec("rodata") >>
    /\ Len(Program(5)) = 2 /\ Program(5)[1] = Alloc /\ Program(5)[2] = Store("new")
    /\ Len(Program(6)) = 2 /\ Program(6)[1] = Exec("ptr") /\ Program(6)[2] = Free("ptr")
    /\ Program(7) = << Alloc, Store("new"), Exec("new"), Free("new") >>
    /\ Program(8) = << Store("rodata") >> /\ Program(9) = << Push >>
BY DEF Program

LEMMA Ranges ==
    ASSUME Position, pos > 0
    PROVE  /\ i \in mask /\ i \in Tests /\ apc \notin {"setup", "setup_send", "end_send", "end"}
           /\ \/ i \in {1, 2, 3, 4, 8} /\ pos = 1
              \/ i \in {5, 6, 7} /\ pos \in {1, 2, 3}
              \/ i = 9 /\ pos \in {1, 2}
<1>1. i \in mask /\ i \in 1 .. 9 /\ pos \in 1 .. Ends(i) /\ apc \notin {"setup", "setup_send", "end_send", "end"}
  <2>1. pos # 0
    OBVIOUS
  <2> QED
    BY <2>1 DEF Position, Tests
<1>2. i \in {1, 2, 3, 4, 8} \/ i \in {5, 6, 7} \/ i = 9
  BY <1>1
<1> QED
  BY <1>1, <1>2 DEF Ends, Tests

LEMMA Where ==
    ASSUME Position, Running
    PROVE  /\ Access("alloc") => i \in {5, 7} /\ pos = 1
           /\ Access("store") => \/ i \in {1, 3, 8} /\ pos = 1 /\ Operand.at \in DOMAIN SectionRights
                                    /\ "W" \notin SectionRights[Operand.at]
                                 \/ i \in {5, 7} /\ pos = 2 /\ Operand.at = "new"
           /\ Access("exec") => \/ i \in {2, 4} /\ pos = 1 /\ Operand.at \in DOMAIN SectionRights
                                    /\ "X" \notin SectionRights[Operand.at]
                                \/ i = 6 /\ pos = 1 /\ Operand.at = "ptr"
                                \/ i = 7 /\ pos = 3 /\ Operand.at = "new"
           /\ Access("free") => i = 6 /\ pos = 2 /\ Operand.at = "ptr"
           /\ Access("push") => i = 9 /\ pos = 1
           /\ pos > Len(Program(i)) => (i \in {5, 6} /\ pos = 3) \/ (i = 9 /\ pos = 2)
<1> USE DEF Alloc, Store, Exec, Free, Push
<1>1. CASE i \in {1, 2, 3, 4, 8} /\ pos = 1
  <2>1. /\ {"text", "rodata", "beyond"} = DOMAIN SectionRights
        /\ "W" \notin SectionRights["text"] /\ "W" \notin SectionRights["rodata"]
        /\ "X" \notin SectionRights["rodata"]
        /\ "W" \notin SectionRights["beyond"] /\ "X" \notin SectionRights["beyond"]
    BY RightNames DEF SectionRights
  <2> QED
    BY <1>1, <2>1, Programs DEF Access, Operand
<1>2. CASE i \in {5, 6} /\ pos = 3
  <2>1. Len(Program(i)) = 2
    BY <1>2, Programs
  <2>2. \A kind : ~ Access(kind)
    BY <1>2, <2>1 DEF Access
  <2> QED
    BY <1>2, <2>2
<1>3. CASE i = 5 /\ pos \in {1, 2}
  BY <1>3, Programs DEF Access, Operand
<1>4. CASE i = 6 /\ pos \in {1, 2}
  BY <1>4, Programs DEF Access, Operand
<1>5. CASE i = 7 /\ pos \in {1, 2, 3}
  BY <1>5, Programs DEF Access, Operand
<1>6. CASE i = 9 /\ pos \in {1, 2}
  BY <1>6, Programs DEF Access, Operand
<1>7. pos > 0
  BY DEF Running
<1> QED
  BY <1>1, <1>2, <1>3, <1>4, <1>5, <1>6, <1>7, Ranges

(* What a record of up to two events becomes with one more.                *)
LEMMA SameTuple ==
    ASSUME NEW S, NEW s \in Seq(S), NEW t \in Seq(S), NEW l \in 1 .. 3, Len(s) = l, Len(t) = l,
           s[1] = t[1], l >= 2 => s[2] = t[2], l = 3 => s[3] = t[3]
    PROVE  s = t
<1>1. \A k \in 1 .. Len(s) : k = 1 \/ (k = 2 /\ l >= 2) \/ (k = 3 /\ l = 3)
  OBVIOUS
<1>2. \A k \in 1 .. Len(s) : s[k] = t[k]
  BY <1>1
<1> QED
  BY <1>2, SeqEqual

LEMMA Appended ==
    ASSUME NEW a, NEW b, NEW c
    PROVE  /\ Append(<< >>, a) = << a >>
           /\ Append(<< a >>, b) = << a, b >>
           /\ Append(<< a, b >>, c) = << a, b, c >>
<1> DEFINE S == {a, b, c}
           s == Append(<< a >>, b)
           t == << a, b >>
           u == Append(<< a, b >>, c)
           v == << a, b, c >>
<1>1. << a >> \in Seq(S) /\ t \in Seq(S) /\ v \in Seq(S) /\ a \in S /\ b \in S /\ c \in S
  OBVIOUS
<1>2. /\ s \in Seq(S) /\ Len(s) = 2 /\ s[1] = a /\ s[2] = b
      /\ Len(t) = 2 /\ t[1] = a /\ t[2] = b
  BY <1>1
<1>3. /\ u \in Seq(S) /\ Len(u) = 3 /\ u[1] = a /\ u[2] = b /\ u[3] = c
      /\ Len(v) = 3 /\ v[1] = a /\ v[2] = b /\ v[3] = c
  BY <1>1
<1>4. Append(<< >>, a) = << a >>
  OBVIOUS
<1> HIDE DEF S, s, t, u, v
<1>5. s = t
  BY <1>1, <1>2, SameTuple
<1>6. u = v
  BY <1>1, <1>3, SameTuple
<1> QED
  BY <1>4, <1>5, <1>6 DEF s, t, u, v

(* What a step leaves of the progress: all of it, if it touches nothing.   *)
LEMMA NothingMoves ==
    ASSUME Progress, caps'["app"] = caps["app"], apc = "setup" => kcap'["app"] = kcap["app"],
           UNCHANGED <<mem, appVars, suiteVars>>
    PROVE  Progress'
<1> USE DEF appVars, suiteVars
<1>1. \A c : Have(c)' = Have(c)
  BY DEF Have
<1>2. Position' /\ Untouched' /\ Held'
  BY DEF Progress, Position, Untouched, Held
<1>3. Trap' /\ RightsNow' /\ Pool'
  BY <1>1 DEF Progress, Trap, Asking, Target, Wish, RightsNow, Pool
<1>4. Logged'
  BY <1>1 DEF Progress, Logged, SoFar, Partly
<1> QED
  BY <1>2, <1>3, <1>4 DEF Progress

LEMMA MonitorCopies == ASSUME IInv, MonNext PROVE caps'["app"] = caps["app"]
<1>1. \A n, d, t, e : LET k == Put(caps, "mon", n, d)
                      IN k["app"] = caps["app"] /\ Put(k, "mon", t, e)["app"] = caps["app"]
  BY DEF IInv, TypeOK, Table, Proc, Put
<1> QED
  BY <1>1 DEF MonNext, MResume, MSetupRecv, MSetupGot, MYield, MLoopRecv, MLoopGot, MRequest, MVerify, MFind,
              MDerive, MDelete, MMove, MReply, MUpdate, capman_update, capman_derive_pmp, capman_delcap,
              capman_move, IInv, TypeOK, Table, Proc

LEMMA MonitorMoves == ASSUME IInv, Progress, SMonitor PROVE Progress'
<1>1. MonNext /\ UNCHANGED <<appVars, suiteVars>>
  BY DEF SMonitor
<1>2. caps'["app"] = caps["app"]
  BY <1>1, MonitorCopies
<1>3. mem' = mem
  BY <1>1 DEF MonNext, MResume, MSetupRecv, MSetupGot, MYield, MLoopRecv, MLoopGot, MRequest, MVerify, MFind,
              MDerive, MDelete, MMove, MReply, MUpdate, kernelVars
<1>4. ASSUME apc = "setup" PROVE kcap'["app"] = kcap["app"]
  <2>1. ~ Handled
    BY <1>4, AtWork DEF Waiting
  <2> QED
    BY <1>1, <2>1, MonTables DEF MReply, Handled
<1> QED
  BY <1>1, <1>2, <1>3, <1>4, NothingMoves

LEMMA InLoop ==
    ASSUME Position, apc = "run" PROVE mask \subseteq Tests /\ (i = 0 \/ i \in mask) /\ i \in 0 .. 9
<1>1. mask \subseteq Tests /\ (i = 0 \/ i \in mask)
  BY DEF Position
<1>2. i = 0 \/ i \in 1 .. 9
  BY <1>1 DEF Tests
<1>3. i \in 0 .. 9
  BY <1>2
<1> QED
  BY <1>1, <1>3

(* loop() goes on to the next test: what it needs is as the last one left  *)
(* it, whichever that was.                                                 *)
LEMMA Iterates == ASSUME Together, Progress, SIterate PROVE Progress'
<1>1. /\ apc = "run" /\ pos = 0 /\ pos' = 1 /\ UNCHANGED <<caps, kcap, mem, appVars, mask, ptr, new, log>>
      /\ i' \in mask /\ i' > i /\ \A m \in mask : m > i => i' <= m
  BY DEF SIterate, vars, kernelVars
<1>2. /\ mask \subseteq Tests /\ i' \in Tests /\ i' \in 1 .. 9
      /\ i \in 0 .. 9 /\ (i = 0 \/ i \in mask)
  <2>1. mask \subseteq 1 .. 9 /\ i' \in mask
    BY <1>1, InLoop DEF Progress, Tests
  <2> QED
    BY <1>1, <2>1, InLoop DEF Progress, Tests
<1>3. /\ i' = 6 => i = 5
      /\ i' = 7 => i \in 0 .. 4 \/ i = 6
  <2>1. i' = 6 => 5 \in mask
    BY <1>1 DEF Together
  <2>2. i = 5 => 6 \in mask
    BY <1>2 DEF Together
  <2> QED
    BY <1>1, <1>2, <2>1, <2>2
<1>4. \A c : Have(c)' = Have(c)
  BY <1>1 DEF Have
<1>5. Position' /\ Trap' /\ Untouched'
  BY <1>1, <1>2 DEF Position, Ends, Trap, Untouched, Progress, appVars
<1>6. /\ i' < 5 => Have(0) = R
      /\ i' = 5 => Have(0) = R
      /\ i' = 6 => Have(0) = RW
      /\ i' = 7 => Have(0) \in {R, RX}
      /\ Have(Below) = R
  BY <1>1, <1>2, <1>3 DEF Progress, RightsNow
<1>7. RightsNow'
  BY <1>1, <1>2, <1>4, <1>6 DEF RightsNow
<1>8. Pool'
  BY <1>1, <1>2, <1>3, <1>4, Heap DEF Pool, Progress, appVars
<1>9. Held'
  BY <1>1, <1>2, <1>3 DEF Held, Progress
<1>10. Logged'
  <2>1. Partly' = << >>
    BY <1>1, <1>2, <1>4, <1>6, RightNames DEF Partly
  <2>2. ASSUME NEW n \in Tests PROVE SoFar(n)' = SoFar(n)
    <3>1. n \in 1 .. 9
      BY DEF Tests
    <3>2. CASE n \notin mask \/ n > i'
      BY <1>1, <1>2, <3>1, <3>2 DEF SoFar
    <3>3. CASE n \in mask /\ n = i'
      BY <1>1, <1>2, <2>1, <3>3 DEF SoFar
    <3>4. CASE n \in mask /\ n < i'
      <4>1. n <= i
        BY <1>1, <1>2, <3>1, <3>4
      <4> QED
        BY <1>1, <1>2, <3>1, <3>4, <4>1 DEF SoFar
    <3> QED
      BY <1>2, <3>1, <3>2, <3>3, <3>4
  <2> QED
    BY <1>1, <2>2 DEF Progress, Logged
<1> QED
  BY <1>5, <1>7, <1>8, <1>9, <1>10 DEF Progress

LEMMA LoopEnds == ASSUME Progress, SEnd PROVE Progress'
<1>1. /\ apc = "run" /\ apc' = "end_send" /\ pos = 0 /\ pos' = 0 /\ i' = 33 /\ \A n \in mask : n <= i
      /\ UNCHANGED <<caps, occupied, mask, log>>
  BY DEF SEnd, AFinish, AppGoto, kernelVars
<1>2. mask \subseteq Tests /\ i \in 0 .. 9
  BY <1>1, InLoop DEF Progress
<1>3. Position' /\ Trap' /\ RightsNow' /\ Untouched' /\ Pool' /\ Held'
  BY <1>1, <1>2 DEF Position, Trap, RightsNow, Untouched, Pool, Held, Progress
<1>4. ASSUME NEW n \in Tests PROVE SoFar(n)' = SoFar(n)
  <2>1. n \in 1 .. 9
    BY DEF Tests
  <2>2. n \in mask => n <= i
    BY <1>1
  <2> QED
    BY <1>1, <1>2, <2>1, <2>2 DEF SoFar
<1> QED
  BY <1>1, <1>3, <1>4 DEF Progress, Logged

(* The tests themselves: an access of a test that succeeds.                *)
LEMMA Returns == ASSUME Progress, SReturn PROVE Progress'
<1>1. /\ apc = "run" /\ pos > 0 /\ pos' = 0 /\ pos > Len(Program(i)) /\ ptr' = IF i = 5 THEN new ELSE ptr
      /\ UNCHANGED <<caps, kcap, mem, appVars, mask, i, new, log>>
  BY DEF SReturn, Running, vars, kernelVars
<1>2. i \in mask /\ ((i \in {5, 6} /\ pos = 3) \/ (i = 9 /\ pos = 2))
  BY <1>1, Where, Ranges DEF Progress, Running
<1>3. \A c : Have(c)' = Have(c)
  BY <1>1 DEF Have
<1>4. Position' /\ Trap' /\ Untouched'
  BY <1>1, <1>2 DEF Progress, Position, Trap, Untouched, appVars
<1>5. RightsNow' /\ Pool' /\ Held'
  BY <1>1, <1>2, <1>3 DEF Progress, RightsNow, Pool, Held, appVars
<1>6. ASSUME NEW n \in Tests PROVE SoFar(n)' = SoFar(n)
  <2>1. Partly = Documented(i)
    BY <1>1, <1>2 DEF Partly, Documented, Progress, RightsNow
  <2>2. Documented(n)' = Documented(n)
    BY DEF Documented
  <2>3. n > i \/ n = i \/ n < i
    BY <1>2 DEF Tests
  <2> QED
    BY <1>1, <1>2, <2>1, <2>2, <2>3 DEF SoFar
<1> QED
  BY <1>1, <1>4, <1>5, <1>6 DEF Progress, Logged

LEMMA Allocates == ASSUME Progress, SAlloc PROVE Progress'
<1>1. Running /\ Access("alloc") /\ pos' = pos + 1 /\ UNCHANGED <<mask, i, ptr, log>> /\ apc = "run"
  BY DEF SAlloc, Access, Running, Advance
<1>2. i \in mask /\ i \in {5, 7} /\ pos = 1 /\ pos' = 2
  BY <1>1, Where, Ranges DEF Progress, Running
<1>3. \A c \in Chunk : ~ occupied[c]
  BY <1>2 DEF Progress, Pool
<1>4. PICK c \in Chunk : AllocAt(c) /\ new' = c
  BY <1>3, Heap DEF SAlloc
<1>5. c = 0
  <2>1. ~ (0 < c)
    BY <1>3, <1>4, Heap DEF AllocAt
  <2> QED
    BY <2>1 DEF Chunk
<1>6. occupied' = [occupied EXCEPT ![0] = TRUE] /\ new' = 0 /\ UNCHANGED <<caps, kcap, mem, apc, buf, idx>>
  BY <1>4, <1>5 DEF AllocAt, kernelVars
<1>7. \A d : Have(d)' = Have(d)
  BY <1>6 DEF Have
<1>8. Position' /\ Trap' /\ Untouched'
  BY <1>1, <1>2, <1>6 DEF Progress, Position, Ends, Trap, Untouched
<1>9. RightsNow' /\ Pool' /\ Held'
  BY <1>1, <1>2, <1>6, <1>7, Heap DEF Progress, RightsNow, Pool, Held
<1>10. Logged'
  <2>1. Partly' = Partly
    BY <1>1, <1>2, <1>6, <1>7 DEF Partly
  <2> QED
    BY <1>1, <1>2, <2>1 DEF Progress, Logged, SoFar, Documented
<1> QED
  BY <1>8, <1>9, <1>10 DEF Progress

(* What an access to the heap of a test needs.                             *)
LEMMA Operands ==
    ASSUME IInv, Progress, Running
    PROVE  /\ Operand.at = "new" /\ i \in {5, 7} /\ pos \in {2, 3} =>
                 At(Operand.at) = 0 /\ \A r : Allowed(r, Operand.at) <=> r \in Have(0)
           /\ Operand.at = "ptr" /\ i = 6 =>
                 At(Operand.at) = 0 /\ \A r : Allowed(r, Operand.at) <=> r \in Have(0)
           /\ Operand.at \in DOMAIN SectionRights => At(Operand.at) = Outside
<1>1. DOMAIN SectionRights = {"text", "rodata", "beyond"}
  BY DEF SectionRights
<1>2. Rights("app", 0) = Have(0) /\ 0 \in Chunk
  BY RightsAreHeld, Heap DEF Running
<1> QED
  BY <1>1, <1>2 DEF Allowed, At, Progress, Held

LEMMA Stores == ASSUME IInv, Progress, SStore PROVE Progress'
<1>1. /\ Running /\ Access("store") /\ pos' = pos + 1 /\ UNCHANGED <<mask, i, ptr, new, log>> /\ apc = "run"
      /\ Allowed("W", Operand.at)
  BY DEF SStore, Access, Running, Advance
<1>2. i \in mask /\ i \in {5, 7} /\ pos = 2 /\ pos' = 3 /\ At(Operand.at) = 0 /\ "W" \in Have(0)
  <2>1. i \in mask /\ i \in {5, 7} /\ pos = 2 /\ Operand.at = "new"
    BY <1>1, Where, Ranges DEF Progress, Running, Allowed
  <2> QED
    BY <1>1, <2>1, Operands
<1>3. Have(0) = RW
  BY <1>1, <1>2, RightNames DEF Progress, RightsNow
<1>4. mem' = [mem EXCEPT ![0] = Code] /\ UNCHANGED <<caps, kcap, appVars>>
  BY <1>2, Heap DEF SStore, WriteAt, Outside, NoChunk
<1>5. mem'[0] = IF i = 5 THEN SignedCode ELSE BrokenCode
  BY <1>4, Heap DEF IInv, TypeOK, Code
<1>6. \A d : Have(d)' = Have(d)
  BY <1>4 DEF Have
<1>7. Position' /\ Trap' /\ Untouched'
  BY <1>1, <1>2, <1>4 DEF Progress, Position, Ends, Trap, Untouched, appVars
<1>8. RightsNow' /\ Pool'
  BY <1>1, <1>2, <1>3, <1>4, <1>6 DEF Progress, RightsNow, Pool, appVars
<1>9. Held'
  BY <1>1, <1>2, <1>5, SuiteAssumption DEF Progress, Held
<1>10. Logged'
  <2>1. Partly' = Partly
    BY <1>1, <1>2, <1>3, <1>4, <1>6 DEF Partly, appVars
  <2> QED
    BY <1>1, <1>2, <2>1 DEF Progress, Logged, SoFar, Documented
<1> QED
  BY <1>7, <1>8, <1>9, <1>10 DEF Progress

LEMMA Executes == ASSUME IInv, Progress, SExec PROVE Progress'
<1>1. /\ Running /\ Access("exec") /\ pos' = pos + 1 /\ apc = "run" /\ Allowed("X", Operand.at)
      /\ UNCHANGED <<caps, kcap, mem, appVars, mask, i, ptr, new>>
      /\ log' = [log EXCEPT ![i] = Append(@, "executed")]
  BY DEF SExec, Access, Running, Advance, vars, kernelVars, Note
<1>2. i \in mask /\ i = 6 /\ pos = 1 /\ pos' = 2 /\ Have(0) = RX
  <2>1. \/ i = 6 /\ pos = 1 /\ Operand.at = "ptr"
        \/ i = 7 /\ pos = 3 /\ Operand.at = "new"
    BY <1>1, Where DEF Progress, Allowed
  <2>2. "X" \in Have(0)
    BY <1>1, <2>1, Operands
  <2>3. ~ (i = 7 /\ pos = 3)
    BY <1>1, <2>2, RightNames DEF Progress, RightsNow
  <2> QED
    BY <1>1, <2>1, <2>2, <2>3, Ranges, RightNames DEF Progress, RightsNow
<1>3. \A d : Have(d)' = Have(d)
  BY <1>1 DEF Have
<1>4. Position' /\ Trap' /\ Untouched'
  BY <1>1, <1>2 DEF Progress, Position, Ends, Trap, Untouched, appVars
<1>5. RightsNow' /\ Pool' /\ Held'
  BY <1>1, <1>2, <1>3 DEF Progress, RightsNow, Pool, Held, appVars
<1>6. Logged'
  <2>1. SoFar(6) = << "RX" >> /\ 6 \in Tests /\ SoFar(6)' = << "RX", "executed" >>
    BY <1>1, <1>2, RightNames DEF SoFar, Partly, Tests
  <2>2. \A n \in Tests : n # 6 => SoFar(n)' = SoFar(n)
    BY <1>1, <1>2 DEF SoFar, Documented, Tests
  <2>3. Append(<< "RX" >>, "executed") = << "RX", "executed" >>
    BY Appended
  <2> QED
    BY <1>1, <1>2, <2>1, <2>2, <2>3 DEF Progress, Logged
<1> QED
  BY <1>4, <1>5, <1>6 DEF Progress

LEMMA Frees == ASSUME IInv, Progress, SFree PROVE Progress'
<1>1. Running /\ Access("free") /\ pos' = pos + 1 /\ UNCHANGED <<mask, i, ptr, new, log>> /\ apc = "run"
  BY DEF SFree, Access, Running, Advance
<1>2. i \in mask /\ i = 6 /\ pos = 2 /\ pos' = 3 /\ At(Operand.at) = 0
  <2>1. i \in mask /\ i = 6 /\ pos = 2 /\ Operand.at = "ptr"
    BY <1>1, Where, Ranges DEF Progress, Running
  <2> QED
    BY <1>1, <2>1, Operands
<1>3. occupied' = [occupied EXCEPT ![0] = FALSE] /\ UNCHANGED <<caps, kcap, mem, apc, buf, idx>>
  BY <1>2, Heap DEF SFree, FreeAt, kernelVars, Outside, NoChunk
<1>4. \A d : Have(d)' = Have(d)
  BY <1>3 DEF Have
<1>5. Position' /\ Trap' /\ Untouched'
  BY <1>1, <1>2, <1>3 DEF Progress, Position, Ends, Trap, Untouched
<1>6. RightsNow' /\ Pool' /\ Held'
  BY <1>1, <1>2, <1>3, <1>4, Heap DEF Progress, RightsNow, Pool, Held
<1>7. Logged'
  <2>1. Partly' = Partly
    BY <1>1, <1>2 DEF Partly
  <2> QED
    BY <1>1, <1>2, <2>1 DEF Progress, Logged, SoFar, Documented
<1> QED
  BY <1>5, <1>6, <1>7 DEF Progress

LEMMA Pushes == ASSUME IInv, Progress, SPush PROVE Progress'
<1>1. /\ Running /\ Access("push") /\ pos' = pos + 1 /\ apc = "run" /\ "W" \in Rights("app", Below)
      /\ UNCHANGED <<caps, kcap, mem, appVars, mask, i, ptr, new, log>>
  BY DEF SPush, Access, Running, Advance, vars, kernelVars
<1>2. i \in mask /\ i = 9 /\ pos = 1 /\ pos' = 2
  BY <1>1, Where, Ranges DEF Progress, Running
<1>3. Have(Below) = RW
  BY <1>1, <1>2, RightsAreHeld, Heap, RightNames DEF Progress, RightsNow
<1>4. \A d : Have(d)' = Have(d)
  BY <1>1 DEF Have
<1>5. Position' /\ Trap' /\ Untouched'
  BY <1>1, <1>2 DEF Progress, Position, Ends, Trap, Untouched, appVars
<1>6. RightsNow' /\ Pool' /\ Held'
  BY <1>1, <1>2, <1>3, <1>4 DEF Progress, RightsNow, Pool, Held, appVars
<1>7. Logged'
  <2>1. Partly' = Partly
    BY <1>1, <1>2, <1>4 DEF Partly
  <2> QED
    BY <1>1, <1>2, <2>1 DEF Progress, Logged, SoFar, Documented
<1> QED
  BY <1>5, <1>6, <1>7 DEF Progress

(* A denied access makes the request that its place asks for, ...          *)
LEMMA AsksFor ==
    ASSUME IInv, Progress, apc = "run", pos > 0, Asking, NEW sig, PrepareRequest(Target, sig, Wish),
           Wish = RX => sig = 0, Have(Target) # Wish, UNCHANGED <<caps, mem, suiteVars>>,
           UNCHANGED occupied \/ (i = 9 /\ occupied' \in [Chunk -> BOOLEAN])
    PROVE  Progress'
<1> USE DEF suiteVars, AppGoto
<1>1. apc' = "req_send" /\ buf' = [op |-> 2, sig |-> sig, rwx |-> Wish] /\ Target \in PmpChunk /\ Target \in Chunk
  BY Heap DEF PrepareRequest, Target
<1>2. idx' = HeapSlot(Target)
  BY <1>1, Found DEF PrepareRequest
<1>3. \A c : Have(c)' = Have(c)
  BY DEF Have
<1>4. Position'
  BY <1>1, Ranges DEF Progress, Position
<1>5. Trap'
  <2>1. Asking' /\ Target' = Target /\ Wish' = Wish
    BY DEF Asking, Target, Wish
  <2>2. Have(Target)' = Have(Target)
    BY <1>3, <2>1 DEF Have
  <2> QED
    BY <1>1, <1>2, <2>1, <2>2 DEF Trap
<1>6. RightsNow' /\ Untouched' /\ Pool' /\ Held'
  BY <1>1, <1>3 DEF Progress, RightsNow, Untouched, Pool, Held
<1>7. Logged'
  BY <1>1, <1>3 DEF Progress, Logged, SoFar, Partly
<1> QED
  BY <1>4, <1>5, <1>6, <1>7 DEF Progress

(* ... and outside the heap, where the app can ask for nothing, none.      *)
LEMMA AsksForNothing ==
    ASSUME Progress, apc = "run", pos > 0, i \in {1, 2, 3, 4, 8}, SoftReset,
           UNCHANGED <<caps, mem, occupied, suiteVars>>
    PROVE  Progress'
<1> USE DEF suiteVars, AppGoto
<1>1. apc' = "soft_send"
  BY DEF SoftReset
<1>2. \A c : Have(c)' = Have(c)
  BY DEF Have
<1>3. Position' /\ Trap' /\ Untouched'
  BY <1>1, Ranges DEF Progress, Position, Trap, Untouched
<1>4. RightsNow' /\ Pool' /\ Held'
  BY <1>1, <1>2 DEF Progress, RightsNow, Pool, Held
<1>5. Logged'
  BY <1>1, <1>2 DEF Progress, Logged, SoFar, Partly
<1> QED
  BY <1>3, <1>4, <1>5 DEF Progress

LEMMA Faults == ASSUME IInv, Progress, SFault PROVE Progress'
<1>1. Running /\ apc = "run" /\ pos > 0 /\ UNCHANGED <<caps, mem, suiteVars>>
  BY DEF SFault, Access, Running, StoreFault, FetchFault, StackFault, kernelVars
<1>2. CASE Access("store") /\ ~ Allowed("W", Operand.at) /\ StoreFault(At(Operand.at))
  <2>1. CASE i \in {1, 3, 8} /\ Operand.at \in DOMAIN SectionRights
    <3>1. At(Operand.at) = Outside /\ Outside \notin Chunk
      BY <1>1, <2>1, Operands DEF Outside, NoChunk, Chunk
    <3>2. SoftReset /\ UNCHANGED occupied
      BY <1>2, <3>1 DEF StoreFault
    <3> QED
      BY <1>1, <2>1, <3>2, AsksForNothing
  <2>2. CASE i \in {5, 7} /\ pos = 2 /\ Operand.at = "new"
    <3>1. At(Operand.at) = 0 /\ "W" \notin Have(0) /\ 0 \in Chunk
      BY <1>1, <1>2, <2>2, Operands, Heap
    <3>2. PrepareRequest(0, NoChunk, RW) /\ UNCHANGED occupied
      BY <1>2, <3>1 DEF StoreFault, isoccupied
    <3>3. Asking /\ Target = 0 /\ Wish = RW /\ Have(0) # RW
      BY <2>2, <3>1, RightNames DEF Asking, Target, Wish
    <3> QED
      BY <1>1, <3>2, <3>3, AsksFor, RightNames
  <2> QED
    BY <1>1, <1>2, <2>1, <2>2, Where DEF Progress
<1>3. CASE Access("exec") /\ ~ Allowed("X", Operand.at) /\ FetchFault(At(Operand.at))
  <2>1. CASE i \in {2, 4} /\ Operand.at \in DOMAIN SectionRights
    <3>1. At(Operand.at) = Outside /\ Outside \notin Chunk
      BY <1>1, <2>1, Operands DEF Outside, NoChunk, Chunk
    <3>2. SoftReset /\ UNCHANGED occupied
      BY <1>3, <3>1 DEF FetchFault
    <3> QED
      BY <1>1, <2>1, <3>2, AsksForNothing
  <2>2. CASE (i = 6 /\ pos = 1 /\ Operand.at = "ptr") \/ (i = 7 /\ pos = 3 /\ Operand.at = "new")
    <3>1. At(Operand.at) = 0 /\ "X" \notin Have(0) /\ 0 \in Chunk
      BY <1>1, <1>3, <2>2, Operands, Heap
    <3>2. occupied[0]
      BY <2>2 DEF Progress, Pool
    <3>3. PrepareRequest(0, 0, RX) /\ UNCHANGED occupied
      BY <1>3, <3>1, <3>2 DEF FetchFault
    <3>4. Asking /\ Target = 0 /\ Wish = RX /\ Have(0) # RX
      BY <2>2, <3>1, RightNames DEF Asking, Target, Wish
    <3> QED
      BY <1>1, <3>3, <3>4, AsksFor
  <2> QED
    BY <1>1, <1>3, <2>1, <2>2, Where DEF Progress
<1>4. CASE Access("push") /\ StackFault(Below, Below)
  <2>1. i = 9 /\ pos = 1
    BY <1>1, <1>4, Where DEF Progress
  <2>2. "W" \notin Have(Below) /\ Below \in Chunk
    BY <1>1, <1>4, RightsAreHeld, Heap DEF StackFault, Denied
  <2>3. Have(Below) # RW /\ ~ occupied[Below]
    BY <1>1, <2>1, <2>2, RightNames DEF Progress, Pool
  <2>4. PrepareRequest(Below, NoChunk, RW) /\ occupied' \in [Chunk -> BOOLEAN]
    BY <1>4, <2>2, <2>3 DEF StackFault, Progress, Pool
  <2>5. Asking /\ Target = Below /\ Wish = RW
    BY <2>1 DEF Asking, Target, Wish
  <2> QED
    BY <1>1, <2>1, <2>3, <2>4, <2>5, AsksFor, RightNames
<1> QED
  BY <1>2, <1>3, <1>4 DEF SFault

(* The steps of the trap handler and of setup() that decide nothing.       *)
LEMMA QuietMoves == ASSUME IInv, Progress, SQuiet PROVE Progress'
<1> USE DEF suiteVars, AppGoto
<1>0. UNCHANGED suiteVars
  BY DEF SQuiet
<1>1. CASE ASetup
  <2>1. /\ apc = "setup" /\ apc' = "setup_send" /\ i = 0 /\ pos = 0 /\ mask \subseteq Tests
        /\ caps'["app"] = AppTable /\ occupied' = [c \in Chunk |-> FALSE]
    BY <1>1 DEF ASetup, capman_update, Progress, Position, Untouched, IInv, TypeOK, Table, Proc, Tests
  <2>2. Have(0)' = R /\ Have(Below)' = R
    BY <2>1, Heap DEF Have, AppTable, Pmp
  <2>3. Position' /\ Trap' /\ RightsNow' /\ Untouched' /\ Held'
    BY <1>0, <2>1, <2>2 DEF Position, Trap, RightsNow, Untouched, Held
  <2>4. Pool'
    BY <1>0, <2>1, <2>2, Heap DEF Pool
  <2>5. Logged'
    BY <1>0, <2>1 DEF Progress, Logged, SoFar, Documented
  <2> QED
    BY <2>3, <2>4, <2>5 DEF Progress
<1>2. CASE ASetupSend \/ AOkSend \/ AEndSend
  <2>1. /\ UNCHANGED <<caps, mem, buf, occupied, idx>>
        /\ \/ apc = "setup_send" /\ apc' = "run"
           \/ apc = "ok_send" /\ apc' = "run"
           \/ apc = "end_send" /\ apc' = "end"
    BY <1>2 DEF ASetupSend, AOkSend, AEndSend, SendStatus
  <2>2. \A c : Have(c)' = Have(c)
    BY <2>1 DEF Have
  <2>3. Position' /\ Trap' /\ Untouched' /\ Held'
    BY <1>0, <2>1 DEF Progress, Position, Trap, Untouched, Held
  <2>4. RightsNow'
    BY <1>0, <2>1, <2>2 DEF Progress, RightsNow
  <2>5. Pool'
    <3>1. apc = "ok_send" /\ i = 9 => Have(Below) = RW
      BY DEF Progress, Trap, Target, Wish
    <3>2. i = 9 => apc = "ok_send"
      <4>1. i = 9 => pos = 1 \/ apc # "ok_send"
        BY DEF Progress, Trap, Asking
      <4> QED
        BY <2>1, <4>1 DEF Progress, Position
    <3> QED
      BY <1>0, <2>1, <2>2, <3>1, <3>2 DEF Progress, Pool
  <2>6. Logged'
    BY <1>0, <2>1, <2>2 DEF Progress, Logged, SoFar, Partly
  <2> QED
    BY <2>3, <2>4, <2>5, <2>6 DEF Progress
<1>3. CASE AReqSend \/ AReqRecv
  <2>1. /\ UNCHANGED <<caps, mem, buf, occupied, idx>>
        /\ apc \in {"req_send", "req_recv"} /\ apc' \in {"req_recv", "req_got"}
    BY <1>3 DEF AReqSend, AReqRecv
  <2>2. \A c : Have(c)' = Have(c)
    BY <2>1 DEF Have
  <2>3. Position' /\ Untouched' /\ Held'
    BY <1>0, <2>1 DEF Progress, Position, Untouched, Held
  <2>4. Trap'
    <3>1. Asking' = Asking /\ Target' = Target /\ Wish' = Wish
      BY <1>0 DEF Asking, Target, Wish
    <3>2. Have(Target)' = Have(Target)
      BY <2>2, <3>1 DEF Have
    <3> QED
      BY <2>1, <3>1, <3>2 DEF Progress, Trap
  <2>5. RightsNow' /\ Pool'
    BY <1>0, <2>1, <2>2 DEF Progress, RightsNow, Pool
  <2>6. Logged'
    BY <1>0, <2>1, <2>2 DEF Progress, Logged, SoFar, Partly
  <2> QED
    BY <2>3, <2>4, <2>5, <2>6 DEF Progress
<1>4. CASE AYield
  BY <1>0, <1>4, NothingMoves DEF AYield, kernelVars
<1> QED
  BY <1>1, <1>2, <1>3, <1>4 DEF SQuiet

(* The answer: of the requests that the tests make, the monitor grants all *)
(* but the last one of test 7.                                             *)
LEMMA Answered ==
    ASSUME IInv, Exact, HasRoom, Progress, SAnswer
    PROVE  /\ Asking /\ buf'.rwx = Wish /\ (buf'.op = 0 <=> ~ (i = 7 /\ pos = 3))
           /\ buf'.op = 0 => /\ apc' = "ok_send" /\ Have(Target)' = Wish /\ Have(Target) # Wish
                             /\ i = 9 => Have(0)' = Have(0)
                             /\ i < 9 => Have(Below)' = Have(Below)
           /\ buf'.op # 0 => apc' = "soft_send" /\ Have(0)' = Have(0) /\ Have(Below)' = Have(Below)
           /\ i \in mask /\ i \in Tests /\ UNCHANGED <<mem, occupied, idx, mask, i, pos, ptr, new>>
<1>1. /\ apc = "req_got" /\ chan["app"].st = "got" /\ buf' = chan["app"].msg /\ caps'["app"] = kcap["app"]
      /\ apc' = IF buf'.op = 0 THEN "ok_send" ELSE "soft_send"
      /\ UNCHANGED <<mem, occupied, idx, mask, i, pos, ptr, new>>
  BY DEF SAnswer, AReqGot, Received, capman_update, AppGoto, IInv, TypeOK, Table, Proc
<1>2. /\ Asking /\ idx = HeapSlot(Target) /\ Have(Target) # Wish
      /\ buf.rwx = Wish /\ (Wish = RX => buf.sig = 0)
  BY <1>1 DEF Progress, Trap
<1>3. buf'.rwx = Wish /\ (buf'.op = 0 <=> Grantable)
  BY <1>1, <1>2 DEF Exact
<1>4. Grantable <=> ~ (i = 7 /\ pos = 3)
  <2>1. idx # NoSlot
    BY <1>2, Heap, Slots DEF Target
  <2>2. Justified <=> ~ (i = 7 /\ pos = 3)
    BY <1>2, RightNames DEF Justified, Wish, Asking, Progress, Held
  <2> QED
    BY <2>1, <2>2 DEF Grantable
<1>5. i \in mask /\ i \in Tests
  BY <1>2, Ranges DEF Progress, Asking
<1>6. kcap["app"] = IF buf'.op = 0 THEN [caps["app"] EXCEPT ![idx] = Pmp(@.chunk, Wish)] ELSE caps["app"]
  BY <1>1, <1>2 DEF IInv, AnswerTrue
<1>7. ASSUME buf'.op = 0
      PROVE  /\ Have(Target)' = Wish
             /\ i = 9 => Have(0)' = Have(0)
             /\ i < 9 => Have(Below)' = Have(Below)
  <2>1. caps["app"] \in [Slot -> Cap]
    BY DEF IInv, TypeOK, Table, Proc
  <2>2. \A s \in Slot : caps'["app"][s] = IF s = idx THEN Pmp(caps["app"][idx].chunk, Wish) ELSE caps["app"][s]
    BY <1>1, <1>6, <1>7, <2>1
  <2>3. Target' = Target
    BY <1>1 DEF Target
  <2> QED
    BY <1>2, <2>2, <2>3, Heap DEF Have, Target, Pmp
<1>8. buf'.op # 0 => Have(0)' = Have(0) /\ Have(Below)' = Have(Below)
  BY <1>1, <1>6 DEF Have
<1> QED
  BY <1>1, <1>2, <1>3, <1>4, <1>5, <1>7, <1>8

LEMMA SameOutcomes == \A n : Documented(n)' = Documented(n)
BY DEF Documented

(* The record of the running test gets one event, the others are as before. *)
LEMMA OneEvent ==
    ASSUME Progress, i \in Tests, NEW event, log' = [log EXCEPT ![i] = Append(@, event)],
           SoFar(i)' = Append(SoFar(i), event), UNCHANGED <<mask, i>>
    PROVE  Logged'
<1>1. ASSUME NEW n \in Tests, n # i PROVE SoFar(n)' = SoFar(n)
  <2>1. n < i \/ n > i
    BY <1>1 DEF Tests
  <2> QED
    BY <2>1, SameOutcomes DEF SoFar
<1>2. log = [n \in Tests |-> SoFar(n)]
  BY DEF Progress, Logged
<1>3. log' = [n \in Tests |-> IF n = i THEN Append(SoFar(i), event) ELSE SoFar(n)]
  BY <1>2
<1>4. \A n \in Tests : (IF n = i THEN Append(SoFar(i), event) ELSE SoFar(n)) = SoFar(n)'
  BY <1>1
<1> QED
  BY <1>3, <1>4 DEF Logged

LEMMA AnswerMoves == ASSUME IInv, Exact, HasRoom, Progress, SAnswer PROVE Progress'
<1> DEFINE event == IF buf'.op # 0 THEN "refused" ELSE IF buf'.rwx = RX THEN "RX" ELSE "RW"
<1>1. log' = [log EXCEPT ![i] = Append(@, event)]
  BY DEF SAnswer, Note
<1>2. log[i] = Partly /\ pos > 0 /\ i \in 1 .. 9
  BY Answered DEF Progress, Logged, SoFar, Asking, Tests
<1>3. SoFar(i) = Partly /\ i \in Tests /\ UNCHANGED <<mask, i>>
  BY <1>2, Answered DEF Progress, Logged
<1>4. CASE i = 7 /\ pos = 3
  <2>1. /\ apc' = "soft_send" /\ event = "refused" /\ Have(0)' = Have(0) /\ Have(Below)' = Have(Below)
        /\ i \in mask /\ UNCHANGED <<mem, occupied, mask, i, pos, ptr, new>>
    <3>1. buf'.op # 0
      BY <1>4, Answered
    <3>2. event = "refused"
      BY <3>1
    <3> QED
      BY <3>1, <3>2, Answered
  <2>2. Have(0) = RW
    BY <1>4 DEF Progress, RightsNow, SAnswer, AReqGot
  <2>3. Position' /\ Trap' /\ Untouched' /\ Held'
    BY <1>4, <2>1 DEF Progress, Position, Ends, Trap, Untouched, Held
  <2>4. RightsNow' /\ Pool'
    BY <1>4, <2>1, <2>2 DEF Progress, RightsNow, Pool, SAnswer, AReqGot
  <2>5. Logged'
    <3>1. Partly = << "RW" >> /\ SoFar(i)' = << "RW", "refused" >>
      BY <1>4, <2>1, <2>2 DEF Partly, SoFar, SAnswer, AReqGot
    <3>2. Append(<< "RW" >>, "refused") = << "RW", "refused" >>
      BY Appended
    <3>3. SoFar(i)' = Append(SoFar(i), event)
      BY <1>3, <2>1, <3>1, <3>2
    <3> HIDE DEF event
    <3> QED
      BY <1>1, <1>3, <3>3, OneEvent
  <2> QED
    BY <2>3, <2>4, <2>5 DEF Progress
<1>5. CASE ~ (i = 7 /\ pos = 3)
  <2>1. /\ apc = "req_got" /\ apc' = "ok_send" /\ Have(Target)' = Wish /\ Have(Target) # Wish
        /\ event = IF Wish = RX THEN "RX" ELSE "RW"
        /\ i = 9 => Have(0)' = Have(0)
        /\ i < 9 => Have(Below)' = Have(Below)
        /\ Asking /\ i \in mask /\ UNCHANGED <<mem, occupied, mask, i, pos, ptr, new>>
    BY <1>5, Answered DEF SAnswer, AReqGot
  <2>2. /\ i = 5 => pos = 2 /\ Have(0) = R /\ Have(0)' = RW /\ Wish = RW
        /\ i = 6 => pos = 1 /\ Have(0) # RX /\ Have(0)' = RX /\ Wish = RX
        /\ i = 7 => pos = 2 /\ Have(0) # RW /\ Have(0)' = RW /\ Wish = RW
        /\ i = 9 => pos = 1 /\ Have(Below) # RW /\ Have(Below)' = RW /\ Wish = RW
        /\ i \in {5, 6, 7, 9}
    <3>1. Have(Target)' = IF i = 9 THEN Have(Below)' ELSE Have(0)'
      BY <2>1 DEF Target
    <3> QED
      BY <1>5, <2>1, <3>1 DEF Asking, Target, Wish, Progress, RightsNow
  <2>3. Position'
    BY <2>1, <2>2, Ranges DEF Progress, Position, Ends
  <2>4. Trap'
    <3>1. Asking' = Asking /\ Wish' = Wish
      BY <2>1 DEF Asking, Wish
    <3> QED
      BY <2>1, <3>1 DEF Trap
  <2>5. RightsNow' /\ Untouched' /\ Pool' /\ Held'
    BY <2>1, <2>2 DEF Progress, RightsNow, Untouched, Pool, Held
  <2>6. Logged'
    <3>1. Partly = << >> /\ event = IF i = 6 THEN "RX" ELSE "RW"
      BY <2>1, <2>2, RightNames DEF Partly
    <3>2. SoFar(i)' = IF i = 6 THEN << "RX" >> ELSE << "RW" >>
      BY <2>1, <2>2, RightNames DEF Partly, SoFar
    <3>3. Append(<< >>, "RX") = << "RX" >> /\ Append(<< >>, "RW") = << "RW" >>
      BY Appended
    <3>4. SoFar(i)' = Append(SoFar(i), event)
      BY <1>3, <3>1, <3>2, <3>3
    <3> HIDE DEF event
    <3> QED
      BY <1>1, <1>3, <3>4, OneEvent
  <2> QED
    BY <2>3, <2>4, <2>5, <2>6 DEF Progress
<1> QED
  BY <1>4, <1>5

(* A soft reset ends the test, and loop() goes on with the next one.       *)
LEMMA ResetMoves == ASSUME Progress, SReset PROVE Progress'
<1>1. /\ apc = "soft_send" /\ apc' = "run" /\ pos' = 0
      /\ UNCHANGED <<caps, mem, buf, occupied, idx, mask, i, ptr>>
      /\ log' = [log EXCEPT ![i] = Append(@, "soft-reset")]
  BY DEF SReset, ASoftSend, SendStatus, AppGoto, Note
<1>2. /\ i \in mask /\ i \in 1 .. 9 /\ pos > 0
      /\ i \in {1, 2, 3, 4, 8} \/ (i = 7 /\ pos = 3)
  <2>1. i \in mask /\ pos \in 1 .. Ends(i) /\ (i \in {1, 2, 3, 4, 8} \/ (i = 7 /\ pos = 3))
    BY <1>1 DEF Progress, Position, Trap
  <2> QED
    BY <2>1, Ranges DEF Progress, Tests, Ends
<1>3. \A c : Have(c)' = Have(c)
  BY <1>1 DEF Have
<1>4. Position' /\ Trap' /\ Untouched' /\ Held'
  BY <1>1, <1>2 DEF Progress, Position, Trap, Untouched, Held
<1>5. RightsNow' /\ Pool'
  BY <1>1, <1>2, <1>3 DEF Progress, RightsNow, Pool
<1>6. Logged'
  <2>1. SoFar(i) = IF i = 7 THEN << "RW", "refused" >> ELSE << >>
    BY <1>1, <1>2 DEF Progress, SoFar, Partly, RightsNow
  <2>2. SoFar(i)' = IF i = 7 THEN << "RW", "refused", "soft-reset" >> ELSE << "soft-reset" >>
    BY <1>1, <1>2 DEF SoFar, Documented
  <2>3. /\ Append(<< >>, "soft-reset") = << "soft-reset" >>
        /\ Append(<< "RW", "refused" >>, "soft-reset") = << "RW", "refused", "soft-reset" >>
    BY Appended
  <2>4. SoFar(i)' = Append(SoFar(i), "soft-reset")
    BY <2>1, <2>2, <2>3
  <2> QED
    BY <1>1, <1>2, <2>4, OneEvent DEF Tests
<1> QED
  BY <1>4, <1>5, <1>6 DEF Progress

LEMMA SuiteProgresses ==
    ASSUME IInv, Exact, HasRoom, Together, Progress, [SuiteNext]_allVars
    PROVE  Progress'
<1>1. CASE UNCHANGED allVars
  BY <1>1, NothingMoves DEF allVars, vars, kernelVars
<1> QED
  BY <1>1, MonitorMoves, Iterates, LoopEnds, Returns, Allocates, Stores, Executes, Frees, Pushes, Faults,
     AnswerMoves, ResetMoves, QuietMoves DEF SuiteNext, SuiteApp

LEMMA SuiteStarts == SuiteInit => HasRoom /\ Progress
<1> SUFFICES ASSUME SuiteInit PROVE HasRoom /\ Progress
  OBVIOUS
<1>1. /\ apc = "setup" /\ i = 0 /\ pos = 0 /\ mask \subseteq Tests /\ kcap["app"] = AppTable
      /\ occupied = [c \in Chunk |-> FALSE] /\ log = [n \in Tests |-> << >>]
  BY SuiteAssumption DEF SuiteInit, Init, AppInit, Proc
<1>2. PICK taken \in Takens : kcap["mon"] = MonTable(taken)
  BY DEF SuiteInit, Init, Proc
<1>3. PICK s \in Slot \ {RecvSlot, MemSlot} : s \notin taken
  BY RoomAssumption
<1>4. HasRoom
  BY <1>2, <1>3 DEF HasRoom, MonTable
<1>5. Position /\ Trap /\ RightsNow /\ Untouched /\ Held
  BY <1>1 DEF Position, Trap, RightsNow, Untouched, Held
<1>6. Pool
  BY <1>1, Heap DEF Pool
<1>7. Logged
  BY <1>1 DEF Logged, SoFar, Tests
<1> QED
  BY <1>4, <1>5, <1>6, <1>7 DEF Progress

(* Tests 8 and 9, the only ones after the first that keeps a chunk, and    *)
(* the end: what they find of the heap and what they make of it.           *)
LEMMA LeftoverStays ==
    ASSUME IInv, Together, Progress, Leftover, [SuiteNext]_allVars
    PROVE  Leftover'
<1>1. CASE SIterate
  <2>1. /\ apc = "run" /\ pos = 0 /\ apc' = "run" /\ UNCHANGED <<caps, occupied, mask>>
        /\ i' \in mask /\ i' > i /\ \A m \in mask : m > i => i' <= m
    BY <1>1 DEF SIterate, vars, appVars
  <2>2. mask \subseteq 1 .. 9 /\ i \in 0 .. 9 /\ (i = 0 \/ i \in mask)
    BY <2>1, InLoop DEF Progress, Tests
  <2>3. i = 5 => i' = 6
    BY <2>1, <2>2 DEF Together
  <2>4. i' \in {8, 9} => (occupied[0] <=> 7 \in mask)
    BY <2>1, <2>2, <2>3 DEF Progress, Pool, Leftover
  <2>5. \A c \in Chunk : occupied[c] => c = 0
    BY <2>1, <2>2 DEF Progress, Pool
  <2>6. Have(Below)' # RW
    BY <2>1, <2>2, RightNames DEF Progress, RightsNow, Have
  <2>7. i' # 33
    BY <2>1, <2>2
  <2> QED
    BY <2>1, <2>4, <2>5, <2>6, <2>7 DEF Leftover
<1>2. CASE SEnd
  <2>1. /\ apc = "run" /\ pos = 0 /\ i' = 33 /\ \A n \in mask : n <= i
        /\ UNCHANGED <<caps, occupied, mask>>
    BY <1>2 DEF SEnd, AFinish, kernelVars
  <2>2. mask \subseteq 1 .. 9 /\ i \in 0 .. 9 /\ (i = 0 \/ i \in mask)
    BY <2>1, InLoop DEF Progress, Tests
  <2>3. i # 5
    BY <2>1, <2>2 DEF Together
  <2>4. occupied[0] <=> 7 \in mask
    BY <2>1, <2>2, <2>3 DEF Progress, Pool, Leftover
  <2>5. \A c \in Chunk : occupied[c] => c \in {0, Below}
    BY <2>2 DEF Progress, Pool, Leftover
  <2>6. occupied[Below] <=> 9 \in mask
    <3>1. CASE i = 9
      BY <2>1, <2>2, <3>1 DEF Progress, RightsNow, Leftover
    <3>2. CASE i < 9
      BY <2>1, <2>2, <3>2, Heap DEF Progress, Pool
    <3> QED
      BY <2>2, <3>1, <3>2
  <2> QED
    BY <2>1, <2>4, <2>5, <2>6 DEF Leftover
<1>3. CASE SFault /\ i = 9
  <2>1. StackFault(Below, Below) /\ apc = "run" /\ UNCHANGED suiteVars
    BY <1>3, Where DEF SFault, Access, Running, Progress
  <2>2. Below \in Chunk /\ 0 # Below /\ occupied \in [Chunk -> BOOLEAN] /\ caps' = caps
    BY <2>1, Heap DEF Progress, Pool, StackFault
  <2>3. occupied' = [occupied EXCEPT ![Below] = TRUE]
    <3>1. "W" \notin Have(Below)
      BY <2>1, <2>2, RightsAreHeld, Heap DEF StackFault, Denied
    <3>2. ~ occupied[Below]
      BY <1>3, <2>1, <3>1, RightNames DEF Progress, Pool
    <3> QED
      BY <2>1, <2>2, <3>2 DEF StackFault
  <2> QED
    BY <1>3, <2>1, <2>2, <2>3, Heap DEF Leftover, suiteVars
<1>4. CASE ~ SIterate /\ ~ SEnd /\ ~ (SFault /\ i = 9)
  <2>1. i' = i /\ mask' = mask
    BY <1>4 DEF SuiteNext, SuiteApp, SMonitor, SReturn, SAlloc, SStore, SExec, SFree, SPush, SFault,
                SAnswer, SReset, SQuiet, allVars, suiteVars
  <2>2. CASE i \notin {8, 9, 33}
    BY <2>1, <2>2 DEF Leftover
  <2>3. CASE i \in {8, 9, 33}
    <3>1. ~ SAlloc /\ ~ SFree
      BY <2>3, Where DEF SAlloc, SFree, Access, Running, Progress
    <3>2. ~ ASetup
      BY <2>3 DEF ASetup, Progress, Position
    <3>3. SMonitor => UNCHANGED appVars /\ caps'["app"] = caps["app"]
      BY MonitorCopies DEF SMonitor
    <3>4. SFault => UNCHANGED occupied
      BY <1>4, <2>3, Where DEF SFault, Access, Running, Progress, StoreFault, FetchFault
    <3>5. UNCHANGED occupied
      BY <1>4, <3>1, <3>2, <3>3, <3>4 DEF SuiteNext, SuiteApp, SReturn, SStore, SExec, SPush,
           SAnswer, SReset, SQuiet, AReqGot, ASoftSend, ASetupSend, AOkSend, AEndSend, SendStatus, AReqSend, AReqRecv,
           AYield, WriteAt, allVars, vars, appVars
    <3>6. i = 9 /\ apc = "run" => apc' = "run" /\ Have(Below)' = Have(Below)
      BY <1>4, <3>1, <3>2, <3>3 DEF SuiteNext, SuiteApp, SReturn, SStore, SExec, SPush,
           SAnswer, SReset, SQuiet, AReqGot, ASoftSend, ASetupSend, AOkSend, AEndSend, SendStatus, AReqSend, AReqRecv,
           AYield, WriteAt, allVars, vars, appVars, Have
    <3> QED
      BY <2>1, <2>3, <3>5, <3>6 DEF Leftover
  <2> QED
    BY <2>2, <2>3
<1> QED
  BY <1>1, <1>2, <1>3, <1>4

(* Tests 5 and 6 selected together, the state of the tests is known.       *)
LEMMA SuiteKnown == SuiteSpec => [](Together => Progress /\ Leftover)
<1>1. SuiteInit => HasRoom /\ (Together => Progress /\ Leftover)
  BY SuiteStarts DEF SuiteInit, Leftover
<1>2. IInv /\ XInv /\ Exact /\ HasRoom /\ (Together => Progress /\ Leftover) /\ [SuiteNext]_allVars /\ [Next]_vars
         => HasRoom' /\ (Together => Progress /\ Leftover)'
  <2>1. [SuiteNext]_allVars => mask' = mask
    BY DEF SuiteNext, SuiteApp, SMonitor, SIterate, SEnd, SReturn, SAlloc, SStore, SExec, SFree, SPush, SFault,
           SAnswer, SReset, SQuiet, allVars, suiteVars
  <2> QED
    BY <2>1, SuiteProgresses, LeftoverStays, RoomStays DEF Together, XInv
<1>3. SuiteSpec => [][SuiteNext]_allVars /\ SuiteInit
  BY PTL DEF SuiteSpec
<1>4. Spec => []IInv /\ []XInv /\ []Exact /\ [][Next]_vars
  BY Invariance, XInvAlways, ExactAlways, PTL DEF Spec
<1> QED
  BY <1>1, <1>2, <1>3, <1>4, SuiteIsAnApplication, PTL

(* The tables of README.md are right: every selected test ends as they     *)
(* say, for any mask that selects tests 5 and 6 together, any heap and any *)
(* table with room (app.c loop, test.c test1 to test9, trap.c).            *)
THEOREM OutcomesAsExpected == SuiteSpec => []ExpectedOutcomes
<1>1. (Together => Progress /\ Leftover) => ExpectedOutcomes
  <2> SUFFICES ASSUME Together => Progress, apc = "end", Together, NEW n \in Tests
               PROVE  log[n] = IF n \in mask THEN Documented(n) ELSE << >>
    BY DEF ExpectedOutcomes, Together
  <2>1. i = 33
    BY DEF Progress, Position
  <2> QED
    BY <2>1 DEF Progress, Logged, SoFar, Tests
<1> QED
  BY <1>1, SuiteKnown, PTL

(* No chunk is lost but the two that tests 7 and 9 keep, and none that     *)
(* test 5 hands on is freed before test 6 has run it, for any mask with    *)
(* tests 5 and 6 together, any heap and any table with room (test5 to      *)
(* test9, the trap handler and the resets).                                *)
THEOREM HeapIsAccounted == SuiteSpec => []HeapBetweenTests
<1>1. (Together => Progress /\ Leftover) => HeapBetweenTests
  <2> SUFFICES ASSUME Together, Progress, Leftover, pos = 0
               PROVE  {c \in Chunk : occupied[c]} =
                        {c \in {ptr} : i = 5} \union {c \in {0} : 7 \in mask /\ i >= 7}
                            \union {c \in {Below} : 9 \in mask /\ i >= 9}
    BY DEF HeapBetweenTests, Together
  <2>1. mask \subseteq 1 .. 9 /\ (i \in {0, 33} \/ i \in mask) /\ (i = 9 => apc = "run")
        /\ 0 \in Chunk /\ Below \in Chunk /\ 0 # Below
    BY Heap DEF Progress, Position, Tests
  <2>1a. i \in {0, 1, 2, 3, 4, 5, 6, 7} \/ i = 8 \/ i \in {9, 33}
    <3>1. \A n \in mask : n \in {1, 2, 3, 4, 5, 6, 7} \/ n = 8 \/ n = 9
      BY <2>1
    <3> QED
      BY <2>1, <3>1
  <2>2. CASE i \in {0, 1, 2, 3, 4, 5, 6, 7}
    <3>1. \A c \in Chunk : occupied[c] => c = 0
      BY <2>2 DEF Progress, Pool
    <3>2. CASE i \in {0, 1, 2, 3, 4} \/ i = 6
      <4>1. ~ occupied[0]
        BY <3>2 DEF Progress, Pool
      <4> QED
        BY <3>1, <3>2, <4>1
    <3>3. CASE i = 5
      <4>1. occupied[0] /\ ptr = 0
        BY <3>3 DEF Progress, Pool, Held
      <4> QED
        BY <2>1, <3>1, <3>3, <4>1
    <3>4. CASE i = 7
      <4>1. occupied[0] /\ 7 \in mask
        BY <2>1, <3>4 DEF Progress, Pool
      <4> QED
        BY <2>1, <3>1, <3>4, <4>1
    <3> QED
      BY <2>2, <3>2, <3>3, <3>4
  <2>3. CASE i = 8
    <3>1. \A c \in Chunk : occupied[c] <=> c = 0 /\ 7 \in mask
      BY <2>1, <2>3 DEF Progress, Pool, Leftover
    <3> QED
      BY <2>1, <2>3, <3>1
  <2>4. CASE i \in {9, 33}
    <3>1. occupied[Below] <=> 9 \in mask
      BY <2>1, <2>4 DEF Progress, RightsNow, Leftover
    <3>2. \A c \in Chunk : occupied[c] <=> (c = 0 /\ 7 \in mask) \/ (c = Below /\ 9 \in mask)
      BY <2>1, <2>4, <3>1 DEF Leftover
    <3> QED
      BY <2>1, <2>4, <3>2
  <2> QED
    BY <2>1a, <2>2, <2>3, <2>4
<1> QED
  BY <1>1, SuiteKnown, PTL

=============================================================================
