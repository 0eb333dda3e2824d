----------------------------- MODULE TestSuite -----------------------------
(***************************************************************************)
(* The application code that this repository ships: loop() and test() of   *)
(* app/app.c over the tests of app/test.c, in place of the free input of   *)
(* module App.  A test is a short program of accesses.  An access that the *)
(* app's capabilities deny traps, and is tried again if the trap handler   *)
(* returns; a soft reset enters loop() anew, with i and ptr as they were.  *)
(***************************************************************************)
EXTENDS MonitorApp, Sequences

CONSTANTS
    Masks,        \* the sets of tests that TEST_MASK may select
    SignedCode,   \* code_new_code, which carries its signature
    BrokenCode    \* code_broken_sig, whose signature does not match

Tests == 1 .. 9

ASSUME SuiteAssumption ==
    /\ \A m \in Masks : m \subseteq Tests
    /\ SignedCode \in Signed
    /\ BrokenCode \in Content \ Signed

(* The monitor can replace a capability: its table is not full when it     *)
(* starts to serve.                                                        *)
ASSUME RoomAssumption ==
    \A taken \in Takens : \E s \in Slot \ {RecvSlot, MemSlot} : s \notin taken

VARIABLES
    mask,   \* the tests selected by TEST_MASK
    i,      \* loop: the test that runs or ran last
    pos,    \* 0: in loop(); otherwise the next access of test i
    ptr,    \* app.c: the chunk test5 returned, or NULL
    new,    \* the pointer altmem_alloc gave to the test that runs
    log     \* log[n]: what became of test n

suiteVars == <<mask, i, pos, ptr, new, log>>
allVars == <<vars, suiteVars>>

(* What the sections of the app's own image allow (getsections.py); past   *)
(* the end of its memory the app has nothing.                              *)
SectionRightsAll == [text |-> RX \union RW, rodata |-> R, beyond |-> {}]
SectionRights == [text |-> RX, rodata |-> R, beyond |-> {}]

Alloc == [kind |-> "alloc"]
Store(at) == [kind |-> "store", at |-> at]
Exec(at) == [kind |-> "exec", at |-> at]
Free(at) == [kind |-> "free", at |-> at]
Push == [kind |-> "push"]

Program(n) ==
    CASE n = 1 -> << Store("beyond") >>
      [] n = 2 -> << Exec("beyond") >>
      [] n = 3 -> << Store("text") >>
      [] n = 4 -> << Exec("rodata") >>
      [] n = 5 -> << Alloc, Store("new") >>
      [] n = 6 -> << Exec("ptr"), Free("ptr") >>
      [] n = 7 -> << Alloc, Store("new"), Exec("new"), Free("new") >>
      [] n = 8 -> << Store("rodata") >>
      [] n = 9 -> << Push >>

(* What a test copies: of code, only whether its signature matches counts. *)
Code == IF i = 5 THEN SignedCode ELSE BrokenCode

(* The chunk an access goes to.  A pointer that is NULL, like a section,   *)
(* is outside the heap.                                                    *)
At(at) == CASE at = "ptr" -> ptr [] at = "new" -> new [] OTHER -> Outside
Allowed(r, at) ==
    IF at \in DOMAIN SectionRights THEN r \in SectionRights[at]
    ELSE At(at) \in Chunk /\ r \in Rights("app", At(at))
Note(event) == log' = [log EXCEPT ![i] = Append(@, event)]

SuiteInit ==
    /\ Init
    /\ mask \in Masks
    /\ i = 0 /\ pos = 0
    /\ ptr = NoChunk /\ new = NoChunk
    /\ log = [n \in Tests |-> << >>]

(* Mutant: i is incremented when the test is over. *)
SIterateLate ==
    /\ apc = "run" /\ pos = 0
    /\ \E n \in mask : n >= i /\ (\A m \in mask : m >= i => n <= m) /\ i' = n
    /\ pos' = 1
    /\ UNCHANGED <<vars, mask, ptr, new, log>>

(* while (i++ < 32): on to the next test of the mask.  i is incremented    *)
(* before the test, so a test that ends in a reset is not repeated.        *)
(* test(32), which 1 << 32 may select, has no case.                        *)
SIterate ==
    /\ apc = "run" /\ pos = 0
    /\ \E n \in mask : n > i /\ (\A m \in mask : m > i => n <= m) /\ i' = n
    /\ pos' = 1
    /\ UNCHANGED <<vars, mask, ptr, new, log>>

SEnd ==
    /\ pos = 0 /\ \A n \in mask : n <= i
    /\ AFinish /\ UNCHANGED monVars
    /\ i' = 33
    /\ UNCHANGED <<mask, pos, ptr, new, log>>

Running == apc = "run" /\ pos > 0
Access(kind) == Running /\ pos <= Len(Program(i)) /\ Program(i)[pos].kind = kind
Operand == Program(i)[pos]
Advance == pos' = pos + 1

(* The test returns to loop(); test() keeps what test5 returns. *)
SReturn ==
    /\ Running /\ pos > Len(Program(i)) /\ pos' = 0
    /\ ptr' = IF i = 5 THEN new ELSE ptr
    /\ UNCHANGED <<vars, mask, i, new, log>>

SAlloc ==
    /\ Access("alloc") /\ Advance
    /\ \/ \E c \in Chunk : AllocAt(c) /\ UNCHANGED monVars /\ new' = c
       \/ (\A c \in Chunk : occupied[c]) /\ new' = NoChunk /\ UNCHANGED vars
    /\ UNCHANGED <<mask, i, ptr, log>>

(* The copy, after the access it begins with has been allowed. *)
SStore ==
    /\ Access("store") /\ Advance
    /\ Allowed("W", Operand.at)
    /\ \/ At(Operand.at) \in Chunk /\ WriteAt(At(Operand.at), Code) /\ UNCHANGED monVars
       \/ At(Operand.at) = Outside /\ UNCHANGED vars
    /\ UNCHANGED <<mask, i, ptr, new, log>>

(* The code prints and returns. *)
SExec ==
    /\ Access("exec") /\ Advance
    /\ Allowed("X", Operand.at)
    /\ Note("executed")
    /\ UNCHANGED <<vars, mask, i, ptr, new>>

(* altmem_free: nothing is at NULL. *)
SFree ==
    /\ Access("free") /\ Advance
    /\ \/ At(Operand.at) \in Chunk /\ FreeAt(At(Operand.at)) /\ UNCHANGED monVars
       \/ At(Operand.at) = Outside /\ UNCHANGED vars
    /\ UNCHANGED <<mask, i, ptr, new, log>>

(* test9 moves sp by more than the stack's size, so it pushes into the     *)
(* last chunk of the heap.                                                 *)
Below == NChunks - 1
SPush ==
    /\ Access("push") /\ Advance
    /\ "W" \in Rights("app", Below)
    /\ UNCHANGED <<vars, mask, i, ptr, new, log>>

(* A denied access traps with its address; pos stays. *)
SFault ==
    /\ \/ Access("store") /\ ~ Allowed("W", Operand.at) /\ StoreFault(At(Operand.at))
       \/ Access("exec") /\ ~ Allowed("X", Operand.at) /\ FetchFault(At(Operand.at))
       \/ Access("push") /\ StackFault(Below, Below)
    /\ UNCHANGED <<monVars, suiteVars>>

(* The trap handler's steps.  The tests cause no exceptions but 1 and 7,   *)
(* so there is no hard reset.                                              *)
SAnswer ==
    /\ AReqGot /\ UNCHANGED monVars
    /\ Note(IF buf'.op # 0 THEN "refused" ELSE IF buf'.rwx = RX THEN "RX" ELSE "RW")
    /\ UNCHANGED <<mask, i, pos, ptr, new>>

SReset ==
    /\ ASoftSend /\ UNCHANGED monVars
    /\ Note("soft-reset")
    /\ pos' = 0 /\ new' = NoChunk
    /\ UNCHANGED <<mask, i, ptr>>

SQuiet ==
    /\ ASetup \/ ASetupSend \/ AOkSend \/ AEndSend \/ AReqSend \/ AReqRecv \/ AYield
    /\ UNCHANGED <<monVars, suiteVars>>

SuiteApp ==
    \/ SIterate \/ SEnd \/ SReturn \/ SAlloc \/ SStore \/ SExec \/ SFree \/ SPush
    \/ SFault \/ SAnswer \/ SReset \/ SQuiet

SMonitor == MonNext /\ UNCHANGED <<appVars, suiteVars>>

SuiteNext == SuiteApp \/ SMonitor

(* Both processes own slices of every frame, and the tests never wait. *)
SuiteSpec ==
    /\ SuiteInit /\ [][SuiteNext]_allVars
    /\ WF_allVars(SuiteApp) /\ WF_allVars(SMonitor)
-----------------------------------------------------------------------------
(* The tables of README.md, "Tests 1-4", "Tests 5-7" and "Tests 8-9", with *)
(* SECURITY on.                                                            *)
Documented(n) ==
    CASE n \in {1, 2, 3, 4, 8} -> << "soft-reset" >>
      [] n \in {5, 9} -> << "RW" >>
      [] n = 6 -> << "RX", "executed" >>
      [] n = 7 -> << "RW", "refused", "soft-reset" >>

(* When the app has finished, each selected test, and no other, has had    *)
(* exactly the outcome the tables of README.md give it, whatever the       *)
(* earlier tests and their resets left behind in capabilities, chunks and  *)
(* pointers.  Test 6 runs what test 5 has written and frees it, so the two *)
(* must be selected together (loop, test, test1 to test9).                 *)
ExpectedOutcomes ==
    apc = "end" /\ (5 \in mask <=> 6 \in mask) =>
        \A n \in Tests : log[n] = IF n \in mask THEN Documented(n) ELSE << >>

(* Between two tests, and at the end, the heap is the free one but for     *)
(* what a test was meant to leave: the chunk that test 5 hands to test 6   *)
(* by way of ptr, that of test 7, whose free the reset has cut off, and    *)
(* the one the stack took in test 9.  No reset costs another chunk, and    *)
(* nothing frees a chunk that is still in use (test5 to test9, th_softreset, *)
(* altmem_alloc, altmem_free, trap_handler 144-159).                       *)
HeapBetweenTests ==
    pos = 0 /\ (5 \in mask <=> 6 \in mask) =>
        {c \in Chunk : occupied[c]} =
            {c \in {ptr} : i = 5} \union {c \in {0} : 7 \in mask /\ i >= 7} \union {c \in {Below} : 9 \in mask /\ i >= 9}

(* Whatever is selected, the app gets through its tests: no access traps   *)
(* again and again, and no reset starts a test anew (loop, trap_handler).  *)
SuiteEnds == <> (apc = "end")
=============================================================================
