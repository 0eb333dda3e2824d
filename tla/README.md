# Verification of s3k-monitor

s3k-monitor runs two programs on the separation kernel s3k. The *monitor* authenticates an *app*, loads it, gives it
capabilities to memory, time and channels, and then serves its requests to change the permissions of heap chunks. The
*app* has a trap handler that turns access faults into such requests. The project claims two policies
(`project-report.md`): memory is never writable and executable at once, and only signed code is executed.

This directory holds a TLA+ model of both programs, their capability bookkeeping, the boot sequence, the chunk
allocator, the tests the app ships, the tools that build and sign the app's file, and the cipher behind the signatures; TLC
runs over small instances; and TLAPS proofs of the safety properties for every value of the constants.

## 1. The system

| Component | Source | State | Operations |
| --- | --- | --- | --- |
| Monitor, boot | `monitor/monitor.c` `setup` 171-250 | `pmpcaps`, `soccaps`, `app_running`, the app's header | authenticate, load, derive and give capabilities, set the PMP mask, wire channels, resume |
| Monitor, service loop | `monitor/monitor.c` `loop` 252-347 | `recv_buf`, `app_running` | receive; on `0x02` refresh, check type, W^X and signature, replace the capability, answer |
| Capability manager | `common/capman.c` | `caps`, a copy of the process's capability table | update, find, derive, delete, move, give |
| App | `app/app.c` | `buf`, `soccaps` | `setup`, `loop` |
| Trap handler | `app/trap.c` | `buf`, the saved registers | dispatch on the cause; request RW or RX; soft and hard reset |
| Chunk allocator | `app/altmem.c` | `chunks`, `nchunks` | init, alloc, free, find, stack expansion |
| Test programs | `app/test.c`, `app/app.c` `test`, `loop` | `i`, `ptr` | tests 1 to 9, selected by a mask, each once |
| Signatures | `monitor/codeauth.c`, `monitor/aes128.c` | none | key expansion, AES-128, CBC mode, CBC-MAC, comparison |
| File format | `tools/getsections.py`, `tools/app_format.c`, `load_app`, `parse_executable` | the image | write, sign, read, verify, copy |
| Code signing | `tools/app_format_sig.c` | the code | sign, write |
| Kernel s3k | not in this repository | capability tables, channels | send, receive, derive, delete, move, give, resume |

How they interact. The monitor gives the app one PMP capability (a range of physical memory with rights) per section,
and one for the first and one for the last chunk of the heap, through the monitor capability. After that the two
processes share two channels: the app sends on channel 0 and receives on channel 1. A message can carry one capability.
A request for new rights carries the chunk's capability to the monitor's slot `0x30`; the answer carries it, or its
replacement, back to the slot it came from. While it is away the app cannot use the chunk. Both processes read
capability tables only through their own copies, which IPC makes stale. The heap's memory is shared: the app writes it,
the monitor reads it to verify a signature. Both run on hart 0, the app in slices 0-32 of a frame, the monitor in the rest,
so each can be preempted between any two kernel calls.

What is hard here:

* send and receive of a request are two kernel calls, and so are resume and receive at boot;
* a capability is replaced by derive, delete and move, each of which may fail, from a copy that IPC makes stale;
* content is verified long before it becomes executable, and a chunk is checked long before it is granted;
* a reset abandons whatever the app was doing, and a hard reset repeats the message the monitor takes for the end;
* a refusal gives an old right back, perhaps for a chunk that has been freed since;
* the tests run in one `loop` that a soft reset enters anew, with pointers and rights left behind by the tests before;
* nobody looks at the result of a boot step; the order of the steps and the numbers of the slots must fit;
* three programs agree on the layout of one image only by constants of their own;
* tables and offsets of a cipher, where an error still decrypts what it encrypted;
* address arithmetic at the ends of the heap, and eight bytes of PMP slots in one register.

`PROJECT.json` lists each of these hazards at its line with the properties that would catch it.

What makes each component correct: the monitor grants execution of signed content only, never W with X, answers
truthfully and loses no capability ('signed' as in section 2, HeapPolicy); capman's copy is the table whenever something is decided from it; a trap ends with the
app running again; the allocator's chunks tile the heap and have one owner; boot hands over what the header
says of every section the PMP can describe, to a system that is ready to serve, and nothing to an app that is not signed; every test ends as documented; what starts
is what was linked and signed; the cipher is AES-128 and the MAC its CBC-MAC.

## 2. The modules

```
S3k <- Capman <- Monitor <-- MonitorApp <- MCMonitorApp     (MonitorApp implements HeapPolicy)
             \<- App <-----/          \<- TestSuite <- MCTestSuite
Boot <- BootToApp <- MCBoot                                 (Boot ends where MonitorApp starts)
AltMem <- MCAltMem                                          (AltMem implements ChunkPool)
AppHeader <- MCAppHeader
AesTables, Fips197 <- Aes <- MCAes                          CbcMac <- MCCbcMac
```

**S3k** is the kernel as the code uses it, and external: tables `kcap`, endpoints `chan`, heap content `mem`. `Recv`
waits, `Send` hands a message to a waiting receiver and moves one capability if source and destination allow it. What
`s3k_send` does when nobody waits cannot be read in this repository, so it is the constant `Waits`: `TRUE`, the sender
waits; `FALSE`, the message is lost and the call returns (no caller looks at the result). Safety is proved for both.

**Capman** is `common/capman.c` over a copy `caps` of each table. Searches are relations with the code's direction:
`capman_find_free` the highest free slot, `capman_find_existing_pmp` the lowest that shares an end (with the `&&` of line 230).

**Monitor** is the end of `setup` and `loop`. One action per kernel call: `MResume`, `MSetupRecv`, `MSetupGot`, then
`MLoopRecv`, `MLoopGot` (the switch), `MRequest` (refresh, type, W^X), `MVerify`, the four steps of `capman_update_pmp`
`MFind`, `MDerive`, `MDelete`, `MMove`, and `MReply`, `MUpdate`. `reply_err` is the path of line 331-335, which does not
refresh. Reading the content to verify is one step: the app waits in a receive at that time and cannot write.

**App** is `app.c` and `trap.c`, with the allocator reduced to which chunks are `occupied`. `AAlloc`, `AFree`, `AWrite`,
`AFinish` and the faults are what application code may do at any moment, each fault with any address that the app's
capabilities deny. `AStackFault` and `AStoreFault` are the two ways through cause 7. `AReqSend`, `AReqRecv`, `AReqGot`
are lines 45-47. A hard reset sends twice (1, then 0 by falling through to line 201) and starts again in `setup`.

**MonitorApp** puts both on one hart: every step is a step of one of them. It begins at `monitor.c:236`, where Boot ends.
`Takens` is a set of sets of monitor slots filled with other capabilities; one of them makes the table full.

**HeapPolicy** is the abstract promise: each guarded chunk's capability is with the app or the monitor; the app hands over one
at a time and gets it back unchanged, or for writing, or for execution if the content is signed. MonitorApp implements it: an
absent capability is with the monitor and carries the rights the app's copy still shows, so losses and refusals map to
stuttering or to an unchanged return.

*Signed* is a predicate on the whole content of a chunk throughout, with the meaning "passes the monitor's verification". It says
less than "all of it is signed": `monitor.c:314-316` verifies the `code_size` bytes from `+0x20`, a size that the chunk itself holds at `+0x10`,
and line 331 makes the whole chunk executable. What `CodeIntegrity`, `WxorX` and `ImplementsPolicy` show is that executable
content is content that was verified, and has not changed since; that the bytes behind `code_size` are signed is not shown, and not so.

**TestSuite** is the application code that the repository ships, in place of App's free input. A test of `test.c` is a short
program: allocate, store, execute, free, push below the stack. `loop` picks the tests of the mask in order; a denied access
traps with its address and is tried again when the handler returns; a soft reset enters `loop` with `i` and `ptr` as they are.
Each action names the action of App it is an instance of, so that what is proved for every application holds of this one; that much is
by construction and not counted as a result. `HeapBetweenTests` is about what the tests leave to each other: which chunks are taken.

**Boot** is `setup` from its first line to the resume, with `capman_derive_*` and `capman_mgivecap` on the real slot numbers
(9, 12, 24, 32, 10, 11, 15). Straight-line functions are sequences of operations performed one per step. The kernel's derivation
rules and the capabilities it starts with are external. `security` is the `#ifdef SECURITY` of the build. A section has an offset
and a size, and `capman_derive_pmp` first tests whether the region comes back from its encoding (`Napot`: a power of two of eight bytes or
more, at a multiple of itself). The ASSERTs of `pmp_compatible.lds` see to that, but an app may be linked otherwise, so nothing is assumed
of the alignment. For a section that is not compatible the derivation fails and so does the gift, `npmp` counts on, and the
mask names an empty slot; `OnlyUnalignedFails` says that nothing else ever fails, `SectionsActive` that no other section
suffers. **BootToApp** reads Boot's final tables as MonitorApp reads tables, and asks whether they are an initial state of it
if the heap's two chunks are compatible.

**AltMem** is `altmem.c` with addresses. `allocs` and `grown` are bookkeeping of who holds a chunk; callers give back only
what they hold. **ChunkPool** is what it promises: a pool from which callers take the lowest free chunk and the stack the one
it grows into. AltMem implements it; `occupied` in App is the pool's view.

**AppHeader** follows the image: `getsections.py` and `app_format.c` write signature, header and binary, the monitor parses,
verifies and copies; `app_format_sig.c` signs new code in the same way, which the app copies to a chunk. A signature is
abstracted to what `aes128_cbc_mac` mixes in: the number of blocks, the first and all others but the last. `MacDetermined` (section 5)
says that nothing else matters to the MAC.

**Aes** is `aes128.c`: key expansion, encryption and decryption with its tables and byte offsets (**AesTables**), the
CBC mode in place, and the MAC as `calc_sig` calls it. **Fips197** says what each step should be by the arithmetic of the field; it
names a bit of a byte by its weight, so that an exclusive or is a sum over the weights and can be reasoned about.
**CbcMac** is the loop of `aes128_cbc_mac` alone, over an arbitrary block cipher.

Operators called *Mutant* in the modules are deliberate errors; no specification uses them.

## 3. The runs

| Run | Question | Properties |
| --- | --- | --- |
| `app_waits` | Is the protocol safe under every interleaving, every fault, every reset, with a free slot and with a full table? Is a request refused for no other reason than those the code names? Is whoever waits answered for as long as the monitor serves? | `TypeOK CodeIntegrity WxorX CapConserved CopyFresh AnswerTrue AnswerExact SlotReady ExecOnlyAllocated ServedWhileRunning` |
| `app_drops` | And if messages nobody waits for are lost? Is it the policy in both respects? | `CapConserved AnswerTrue ImplementsPolicy` |
| `app_live` | Do setup, exceptions and the app's end come to their conclusion? | `TrapEnds BootEnds EndNoticed StopsOnlyAtEnd` |
| `suite` | Do the shipped tests end, each as the README's tables say, whatever was selected? Which chunks do they leave taken? | `ExpectedOutcomes HeapBetweenTests SuiteEnds` |
| `boot` | What does the app start with, for any sections, aligned or not, signed or not, both builds? Does the service loop start in a state it can serve from? | `TypeOK SignedOnly CopyFresh SectionsActive Wired StartsSystem OnlyUnalignedFails` |
| `altmem` | May chunks be treated as units with one owner? | `TypeOK ChunksFit Tiling FindUnique Exclusive ImplementsPool` |
| `header` | From the linked file to the running app: does the monitor read, accept and copy what the tools wrote? | `RoundTrip StartsIfSigned LoadedAsLinked` |
| `aes` | Is it AES-128 in CBC mode, and are the signatures in `test.c` right? | `KnownAnswer DecryptsBack PayloadsAsLabelled StepsAsFips` |
| `lost_answer` | violation | `RequestAnswered` |
| `reset_stops` | violation | `StopsOnlyAtEnd` |
| `write_free` | violation | `WriteOnlyAllocated` |
| `mac` | violation | `IsCbcMac` |

`app_drops` and `lost_answer` switch the deadlock check off because an app whose answer is lost waits for ever in a monitor
that waits too; `header`, `aes` and `mac` because a program that has started or refused its code, or returned its
result, has stopped. In every other passing run TLC also shows that nothing gets stuck.

### Bounds

* MonitorApp: 4 slots, 3 chunks, 2 contents. Slots: the monitor needs its RAM capability, the receive slot, one temporary slot
  and one that is taken; `Takens = {{0}, {0, 3}}` gives a table with one free slot and a full one, which is the case
  `capman_find_free` fails in. Chunks: the first and the last have a capability, the middle one stands for the five that have
  none and whose requests go out with index -1. Contents: signed or not is all the monitor asks.
* TestSuite: the masks of `config.h`, all tests, and every choice of the tests that use the heap (5, 6, 7, 9), over the same system.
  `ExpectedOutcomes` asks for 5 and 6 together, since 6 runs what 5 has written.
* Boot: the real 64 slots, 7 chunks, and all 64 subsets of the six sections the tool writes, with the addresses of `pmp_compatible.lds`;
  and the same sections as they may come without that script, of a size that is no power of two, away from a multiple of it, or
  empty: any mix of the two if all six are there, at most one such section if not; signed or not, both builds. `NapotIsRoundTrip`
  compares `Napot` with the formulas of `tools/riscvpmp.py` and `riscvpmpinv.py`, which are the kernel's. The
  heap needs at least two chunks (`BootAssumption`): with one, the step `nchunks-1` of line 133 is 0 and the loop never ends.
* AltMem: a heap of five chunks of three addresses that fills the array exactly, pointers from 0 to past the stack.
* AppHeader: the six sections with the addresses of `pmp_compatible.lds`, all subsets, binaries of none, two, three and four words (one
  block and two, with and without a last block that is complete; code of one word is assumed away, since `aes128_cbc_mac` would read
  past its end), security on and off, signatures broken and not. More sections than six are
  not written by the tool; the eighth entry, which would get no name (line 68), is in the model but out of its reach.
* Aes: the example of NIST SP 800-38A (whose key is that of `calc_sig`), three more keys and messages chosen so that entries of
  every table are used, and the two payloads of `test.c` with their signatures.
* CbcMac: all 24 permutations of four blocks and all messages of up to three.
* `MemSlot`, `RecvSlot` and `HeapSlot0` are numbers that fit the small table; the proofs take any.

### Fairness

`app_waits`, `app_live` and `lost_answer` assume weak fairness of the monitor, and of the app's own steps (those of `setup`, the
trap handler and the last message). `setup_time_slices` gives the app slices 0-32 of hart 0's frame and keeps the rest, and s3k runs
frames round robin, so neither process is kept from its next step for ever. Nothing is assumed of the application code: it need
never fault, finish or stop computing. Only `suite`, where that code is known and never waits, asks that it proceeds. `BootEnds`, `TrapEnds` and
`EndNoticed` also need `Waits = TRUE`, so they say nothing of a send that is lost: with `FALSE` a lost first message (`monitor.c:240`)
leaves `setup` waiting, a lost last one (`app.c:126`) leaves the monitor in `loop`, and nothing in the code repeats either.
`app_live` has no exceptions other than 1, 5 and 7, and so no hard resets: `TrapEnds` and `StopsOnlyAtEnd` fail with them, see the
second finding.

## 4. Findings

1. **A lost answer** (`lost_answer`, `trap.c:45-46`, `58-59`). If the app is preempted between send and receive and sends do not
   wait, the monitor's answer finds no receiver; the app waits for ever and its capability stays with the monitor. The window between
   `capman_mresume` and `s3k_recv` (`monitor.c:240-243`) can lose the first message of the app in the same way. If the
   kernel's send waits, neither happens (`app_live`).
2. **A hard reset ends the service** (`reset_stops`, `trap.c:28`, `monitor.c:268`). The restarted `setup` sends -1, which `loop`
   takes for the end. Later requests of the app are never answered; `ServedWhileRunning` is what remains true.
3. **Writing to a free chunk is granted** (`write_free`, `trap.c:171`). The comment says "allocated", the test only rejects chunks that do not
   exist. Code integrity and W^X do not depend on it.
4. **The MAC is not CBC-MAC** (`mac`, `aes128.c:319`). The loop uses the block before the current one. Tools and monitor share the code,
   so signatures still match each other.

Smaller differences, without a run: `project-report.md` says that every heap chunk gets an initial capability, `setup_app` creates two
(its comment says so); the report calls a hard reset the answer to a refused request, the code hard-resets on unexpected causes only;
error codes 1 to 4 of `capman_update_pmp` coincide with the monitor's own 1 to 3, which the app does not tell apart; the monitor's W^X
refusal (`monitor.c:301`) cannot be reached by this app, which asks for RW or RX only.

## 5. What is proved

TLAPS checks these for every value of the constants that satisfies the named assumptions.

| Module | Theorems | Argument |
| --- | --- | --- |
| `MonitorAppSafety_proofs` | `TypeCorrect`, `CodeIsSigned`, `WriteXorExecute`, `CapabilitiesConserved`, `CopiesFresh`, `AnswersTrue`, `SlotAlwaysReady`, `ExecutionNeedsAllocation`, `AnswersExact`, `OnlyTheEndStops` | Types by induction, one lemma per kernel operation and one step per action; the others from the inductive invariant `IInv`, to which the last four add `Returned`, `XInv`, `Exact` and `Ending`. |
| `MonitorAppRefinement_proofs` | `MonitorImplementsPolicy` | Under `IInv` each step is a write, surrender or return of the policy, or leaves its state alone. |
| `HeapPolicy_proofs` | `PolicyIsSafe` | Induction on `PolicySafe` with typing. |
| `TestSuite_proofs` | `SuiteCannotBreakPolicy`, `OutcomesAsExpected`, `HeapIsAccounted` | The policy follows from the theorems above, since each step of a test is an input of App, a trap or invisible; the outcomes from `Progress`, the heap from it and `Leftover`. |
| `Boot_proofs` | `CopyIsExact`, `OnlySignedAppsStart`, `BootTypes`, `FailuresAreConfined`, `SectionsAreActive`, `ChannelsWired`, `BootStartsSystem` | The first two by induction on `BInv`, the others from `Handover`, which writes both tables down for every step of `setup`. |
| `AppHeader_proofs` | `HeaderRoundTrip`, `StartsExactlyIfSigned`, `StartsWhatWasLinked` | Induction on `HInv`: what was given, what the tools have written of it, what the monitor has read of that. |
| `AltMem_proofs` | `OneOwner`, `InitInArray`, `ChunksTileHeap`, `FindIsUnique`, `PoolImplemented`, `AltMemTypes` | From `AInv`; the least chunk of a set exists by well-foundedness of the naturals. |
| `Aes_proofs` | `AesDecryptsBack`, `AesStepsAsFips`, `AesSigns`, `MacDetermined`, `MacNoticesDamage` | Bytes as a group, tables as the sums they stand for, each step of a round taken back, then the invariant `CipherInv`. |

Assumptions: a positive number of slots and at least two chunks; the receive slot, the RAM slot and the app's heap slots are
slots of the table, taken slots are neither of the first two; signed contents are contents; for TestSuite that one payload is
signed and the other is not, and that the monitor starts with a slot to spare (`RoomAssumption`; with a full table every
request is refused and the README's tables are wrong; `BootStartsSystem` shows that the slots boot chooses meet all of these); for Boot more than 48 slots, two chunks, and headers of at most six sections with different names
out of those `getsections.py` looks for, in the app's 64K, at any offset and of any size but for the heap's number of chunks, the heap
readable only (`HeadersAssumption`); for AppHeader names of one to eight bytes, sizes, addresses and
binaries below the three bytes that a number of a 64K app needs, permissions that fit a byte, no code of one word, and fewer sections than the monitor has entries for (`HeaderAssumption`); for AltMem `CHUNK <= Stack` (otherwise line 20 underflows) and
an array as long as the heap; for Aes keys of four words, messages of whole blocks and one block at least, as the asserts of
`aes128.c` ask (`CaseAssumption`). `SubstitutionAssumption`, that `SBOX` is SubBytes of the standard, has no parameters: TLC decides it
by going through the 256 entries; only `AesStepsAsFips` uses it. Nothing is assumed of `Waits`; `OnlyTheEndStops` assumes that there are no hard resets.

Why `IInv` is needed. That executable content is signed is not inductive: it holds because the capability being replaced is with the
monitor, the app is waiting and cannot write, and the message worked on is the one the app sent. `IInv` says this in parts:

* `Channels`: who waits on which endpoint and with which slot follows from the two program counters.
* `AppSlots`, `MonSlots`: where heap capabilities can be in each table.
* `RequestForm`: a request is for RW, or for RX with the address of the chunk whose capability it carries.
* `AppCopy`, `MonCopy`: what each copy shows, up to the capability that is out.
* `Custody`: a capability the app lacks is the one it asked about and is with the monitor; what the monitor has, the app waits for.
* `Work`: the request in the monitor's buffer is the app's, and the capability is the old one until `delete` and the new one after.
* `Policed`: rights are R, RW or RX, and X comes with signed content, wherever the capability is.
* `AnswerTrue`.

`Returned` adds that, with waiting sends, the monitor has a heap capability only while a request is with it. `XInv` is what keeps
freed chunks from becoming executable. A grant is about a chunk that the handler found allocated, and the app does not run
until the answer comes (`Checked`). But a refusal returns the old capability, and the chunk of an executable one may have
been freed. `Replaceable` closes this: where one executable capability was derived there was a free slot, that slot is free
again after every replacement, and so no later request is refused for want of one; what remains to be refused are requests for
execution (`Refused`). `Exact` records at each step of the decision on what ground it was taken: the type check on line 293 sees a
capability exactly when the app sent one, the content is justified once `verify` is passed, there was room once `find`
is, and after that no step of the replacement fails (`ReplaceSucceeds`). The grounds still hold when the answer arrives: the app waits, and
the reply gives back no less room than there was. `Ending` says that a -1 the service loop receives is the app's last message.

`BInv` is the exactness of the copy, the shape of both tables, and where `setup` can be for an unsigned app. `Handover` has four
parts: `Progress` ties slot number, section and step together (section `j` has slot `j - 1`, one later behind the heap);
`MonTable` is the monitor's table slot by slot, `AppTable` says that the app's slots below `npmp` hold each
capability given so far exactly once and that nothing else is there, `HeapSlots` where the heap's two are. Every step that could fail,
but for the derivation of an incompatible section and the gift after it, finds its source and its free destination in them, and so does the service loop: `BootStartsSystem` reads the two tables of the last
step as MonitorApp reads tables and finds one of its initial states, with `Takens` the one set of slots that boot fills; `Suitable`
adds what MonitorApp and TestSuite assume of the slots, a free one among them.

`Progress` says of the test suite, as a function of the test that runs and of its next access, what rights the two heap capabilities carry
(`RightsNow`), which chunks are taken (`Pool`), where the pointers point and what chunk 0 holds (`Held`), which request is out (`Trap`)
and what has become of every test (`Logged`); `Leftover` adds what tests 8 and 9 and the end find of the chunks that 7 and 9 keep. It is inductive only because of what is proved of the system below: that a
request reaches the capability it is about, that the answer is as `AnswerExact` and `AnswerTrue` say, and that a monitor with room keeps it (`RoomStays`).

`HInv` has three parts. `Input` is what the linker gave. `Tools` says what the image holds after each step of the tools: the
entries so far, the empty one that ends them, header before binary, and a signature over exactly what follows it. `Reading` says what the
monitor has parsed, checked and copied of that image. `AInv` says where the first `i` chunks lie, and that nobody holds
a chunk during init.

`Aes_proofs` goes from bits to messages. Bytes under exclusive or are a commutative group in which each element is its own inverse
(`SameBits`: a byte is its eight bits). `Double` is linear, the entries of `GF2` are doubles and those of `GF3`, `GF9`, `GF11`, `GF13` and
`GF14` sums of doubles (`TableOfTwo` and its successors go through each table), so all six tables are linear (`Tables`). `ColumnInverse` multiplies
the matrices of `mixcolumns` and `mixcolumns_inv`: with `SubShiftRows` and `XorBlock`, each step of a round can be taken back (`Rounds`), and
encrypting a block is a one-to-one relation (`EncryptsFunctional`, `EncryptsInjective`), stated by the trail of ten blocks that
the rounds leave. In `CipherInv` the trail of the block at work is known as far as the round has come. `Encrypting` says that the blocks before
`b` are encrypted, each mixed with what *then* stood before it; `Decrypting` that those up to `b` still are, which is why the loop
goes backwards and why `DecryptsBack` alone is not inductive; `Signing` that the MAC so far is a chain of encryptions. `AesStepsAsFips`
compares offsets and tables with the rows and columns of the standard, and gets from `CipherInv` that its blocks are blocks. Two more theorems
are about the chain. `MacDetermined` is what lets tools and monitor agree and what AppHeader abstracts from. `MacNoticesDamage` says which damage
the signature shows: that of one block, unless it is the first (mixed in twice) or the last (never mixed in, see finding 4). That damage
to several blocks shows is a matter of collisions and not claimed.

Only model-checked: the liveness properties `ServedWhileRunning`, `TrapEnds`, `BootEnds`, `EndNoticed` and `SuiteEnds` (fairness and ENABLED
are out of the prover's reach); `KnownAnswer` and `PayloadsAsLabelled`, which are about published examples and the bytes in `test.c`, and so
are a matter of computing; `SubstitutionAssumption`. A counterexample, as in the runs that expect a violation, is TLC's by nature.

## 6. Not modelled

* The kernel beyond the calls used, its scheduler, the hardware's memory protection (`Denied` is its answer), instruction effects: of
  machine code, the tests carry only what it does to memory and how it ends.
* Collision resistance of the MAC: for the protocol, content is signed or not, in the sense of section 2. A signed code's `code_size` is taken to stay within its chunk.
* `loop` without `SECURITY`, in which the checks are absent by design (Boot and AppHeader cover both builds).
* In `capman.c`: `capman_derive_mem`, `capman_msuspend`, `capman_mtakecap` and `capman_mgetreg`, which nobody calls; `capman_setpmp` and
  `capman_getpmp`, which copy a register; the dump functions.
* `alt_printf` and the UART (`altio.c`), on which no state of the protocol depends; assembly start-up; build, container and debugger scripts; of
  the tools' file handling everything but a missing input.
* What a hard reset returns to: `setup` is entered by EPC and returns to the address in `ra`. The model lets the application do anything
  afterwards, which includes it.

## 7. Plan

1. Done: the request protocol, its policy and its proofs; boot, its hand-over and the link to the protocol; the allocator as
   a pool; the shipped tests; the image from linker to memory; the cipher.
2. Done: every safety property of a passing run holds for every value of the constants, but for the two that are about
   published or shipped bytes; the cipher undoes itself and follows the standard for every key and message.
3. Left to prove: that `CbcMac`, over any block cipher, is the abstraction of the MAC loop of Aes (its module computes with
   library operators that the prover cannot reach); the substitution table from the field inverse, instead of entry by entry.
4. Extend when the code does: a kernel model with s3k's own scheduler, once its source is part of the repository, would settle `Waits`.
