---------------------- MODULE MonitorAppSafety_proofs ----------------------
(***************************************************************************)
(* Type correctness of the monitor and the app and the safety of the       *)
(* request protocol, for every heap, table size and set of contents,       *)
(* whether sends wait or lose their message.  IInv is the inductive        *)
(* invariant; its heart is Custody: a capability the app lacks is the one  *)
(* it asked about and is with the monitor, and the app waits.              *)
(***************************************************************************)
EXTENDS MonitorApp, TLAPS


LEMMA PutTyped ==
    ASSUME NEW t \in Table, NEW p \in Proc, NEW i, NEW cap \in Cap
    PROVE  Put(t, p, i, cap) \in Table
BY DEF Table, Put

LEMMA PutRead ==
    ASSUME NEW t \in Table, NEW p \in Proc, NEW i \in Slot, NEW cap \in Cap,
           NEW q \in Proc, NEW j \in Slot
    PROVE  Put(t, p, i, cap)[q][j] = IF q = p /\ j = i THEN cap ELSE t[q][j]
<1>1. t[p] \in [Slot -> Cap] /\ t[q] \in [Slot -> Cap]
  BY DEF Table
<1>2. CASE q = p
  <2>1. Put(t, p, i, cap)[q] = [t[p] EXCEPT ![i] = cap]
    BY <1>2 DEF Put, Table
  <2> QED BY <1>1, <1>2, <2>1
<1>3. CASE q # p
  BY <1>3 DEF Put, Table
<1> QED BY <1>2, <1>3

LEMMA CapTyped ==
    /\ NoCap \in Cap /\ MemoryCap \in Cap /\ OtherCap \in Cap
    /\ \A c \in Chunk \union {NoChunk}, rwx \in SUBSET Right : Pmp(c, rwx) \in Cap
BY DEF Cap, NoCap, MemoryCap, OtherCap, Pmp, NoChunk, Right

LEMMA TransferTyped ==
    ASSUME kcap \in Table, NEW p \in Proc, NEW q \in Proc, NEW i, NEW j
    PROVE  Transfer(p, i, q, j) \in Table
<1>1. CASE i \in Slot /\ j \in Slot
  <2>1. kcap[p][i] \in Cap
    BY <1>1 DEF Table
  <2>2. Put(kcap, p, i, NoCap) \in Table
    BY CapTyped, PutTyped
  <2> QED
    BY <2>1, <2>2, PutTyped DEF Transfer
<1> QED
  BY <1>1 DEF Transfer

LEMMA MsgTyped ==
    /\ \A op \in -1 .. 4 : Status(op) \in Msg
    /\ Idle \in Endpoint
    /\ \A i \in Slot \union {NoSlot}, m \in Msg, st \in {"idle", "wait", "got"} :
          [st |-> st, slot |-> i, msg |-> m] \in Endpoint
BY DEF Status, Msg, Idle, Endpoint, NoSlot, NoChunk

LEMMA SendTyped ==
    ASSUME TypeOK, NEW p \in Proc, NEW q \in Proc, NEW m \in Msg, NEW i \in Slot \union {NoSlot},
           Send(p, q, m, i)
    PROVE  kcap' \in Table /\ chan' \in [Proc -> Endpoint]
<1>1. chan[q].slot \in Slot \union {NoSlot}
  BY DEF TypeOK, Endpoint
<1>2. [st |-> "got", slot |-> chan[q].slot, msg |-> m] \in Endpoint
  BY <1>1, MsgTyped
<1>3. \A j : Transfer(p, i, q, j) \in Table
  BY TransferTyped DEF TypeOK
<1> QED
  BY <1>2, <1>3 DEF TypeOK, Send

LEMMA RecvTyped ==
    ASSUME TypeOK, NEW p \in Proc, NEW i \in Slot \union {NoSlot}, Recv(p, i)
    PROVE  kcap' \in Table /\ chan' \in [Proc -> Endpoint]
<1>1. Status(0) \in Msg
  BY MsgTyped
<1>2. [st |-> "wait", slot |-> i, msg |-> Status(0)] \in Endpoint
  BY <1>1, MsgTyped
<1> QED
  BY <1>2 DEF TypeOK, Recv

LEMMA ReceivedTyped ==
    ASSUME TypeOK, NEW p \in Proc, Received(p)
    PROVE  kcap' \in Table /\ chan' \in [Proc -> Endpoint] /\ chan[p].msg \in Msg
BY MsgTyped DEF TypeOK, Received, Endpoint

LEMMA UpdateTyped ==
    ASSUME TypeOK, NEW p \in Proc, capman_update(p)
    PROVE  caps' \in Table
BY DEF TypeOK, capman_update, Table

LEMMA DeriveTyped ==
    ASSUME TypeOK, NEW p \in Proc, NEW i, NEW c \in Chunk \union {NoChunk},
           NEW rwx \in SUBSET Right, capman_derive_pmp(p, i, c, rwx)
    PROVE  kcap' \in Table /\ caps' \in Table
<1>1. Pmp(c, rwx) \in Cap
  BY CapTyped
<1>2. \A s \in Slot : kcap[p][s] \in Cap
  BY DEF TypeOK, Table
<1> QED
  BY <1>1, <1>2, PutTyped DEF TypeOK, capman_derive_pmp

LEMMA DelcapTyped ==
    ASSUME TypeOK, NEW p \in Proc, NEW i \in Slot, capman_delcap(p, i)
    PROVE  kcap' \in Table /\ caps' \in Table
BY CapTyped, PutTyped DEF TypeOK, capman_delcap

LEMMA MoveTyped ==
    ASSUME TypeOK, NEW p \in Proc, NEW i, NEW j \in Slot, i \in Slot, capman_move(p, i, j)
    PROVE  kcap' \in Table /\ caps' \in Table
<1>1. kcap[p][i] \in Cap /\ caps[p][i] \in Cap
  BY DEF TypeOK, Table
<1>2. Put(kcap, p, j, kcap[p][i]) \in Table /\ Put(caps, p, j, caps[p][i]) \in Table
  BY <1>1, PutTyped DEF TypeOK
<1> QED
  BY <1>2, CapTyped, PutTyped DEF capman_move

-----------------------------------------------------------------------------
LEMMA MonTyped == TypeOK /\ MonNext /\ UNCHANGED appVars => TypeOK'
<1> SUFFICES ASSUME TypeOK, MonNext, UNCHANGED appVars PROVE TypeOK'
  OBVIOUS
<1> USE DEF appVars, MonGoto
<1>0. "mon" \in Proc /\ "app" \in Proc /\ Status(0) \in Msg
  BY MsgTyped DEF Proc
<1>1. CASE MResume
  BY <1>1 DEF MResume, TypeOK, MonPc
<1>2. CASE MSetupRecv
  BY <1>0, <1>2, RecvTyped DEF MSetupRecv, TypeOK, MonPc
<1>3. CASE MSetupGot
  <2>1. kcap' \in Table /\ chan' \in [Proc -> Endpoint] /\ recv_buf' \in Msg
    BY <1>0, <1>3, ReceivedTyped DEF MSetupGot
  <2> QED
    BY <1>3, <2>1 DEF MSetupGot, TypeOK, MonPc
<1>4. CASE MYield
  BY <1>4 DEF MYield, kernelVars, monVars, TypeOK
<1>5. CASE MLoopRecv
  <2>1. kcap' \in Table /\ chan' \in [Proc -> Endpoint]
    BY <1>0, <1>5, RecvTyped, MonitorAssumption DEF MLoopRecv
  <2> QED
    BY <1>5, <2>1 DEF MLoopRecv, TypeOK, MonPc
<1>6. CASE MLoopGot
  <2>1. kcap' \in Table /\ chan' \in [Proc -> Endpoint] /\ recv_buf' \in Msg
    BY <1>0, <1>6, ReceivedTyped DEF MLoopGot
  <2>2. app_running' \in BOOLEAN /\ mpc' \in MonPc
    BY <1>6 DEF MLoopGot, TypeOK, MonPc
  <2> QED
    BY <1>6, <2>1, <2>2 DEF MLoopGot, TypeOK
<1>7. CASE MRequest
  <2>1. caps' \in Table
    BY <1>0, <1>7, UpdateTyped DEF MRequest
  <2>2. recv_buf' \in Msg /\ mpc' \in {"reply", "verify", "find"}
    BY <1>7 DEF MRequest, Answer, TypeOK, Msg
  <2> QED
    BY <1>7, <2>1, <2>2 DEF MRequest, TypeOK, MonPc
<1>8. CASE MVerify
  <2>1. recv_buf' \in Msg /\ mpc' \in {"reply", "find"}
    BY <1>8 DEF MVerify, Answer, TypeOK, Msg
  <2> QED
    BY <1>8, <2>1 DEF MVerify, kernelVars, TypeOK, MonPc
<1>9. CASE MFind
  <2>1. /\ recv_buf' \in Msg /\ mpc' \in {"reply_err", "derive"}
        /\ tidx' \in Slot \union {NoSlot} /\ (mpc' = "derive" => tidx' \in Slot)
    BY <1>9 DEF MFind, Answer, TypeOK, Msg
  <2> QED
    BY <1>9, <2>1 DEF MFind, kernelVars, TypeOK, MonPc
<1>10. CASE MDerive
  <2>1. caps["mon"][RecvSlot].chunk \in Chunk \union {NoChunk} /\ recv_buf.rwx \in SUBSET Right
    BY <1>0, MonitorAssumption DEF TypeOK, Table, Cap, Msg
  <2>2. kcap' \in Table /\ caps' \in Table
    <3>1. CASE capman_derive_pmp("mon", tidx, caps["mon"][RecvSlot].chunk, recv_buf.rwx)
      BY <1>0, <2>1, <3>1, DeriveTyped
    <3> QED
      BY <1>10, <3>1 DEF MDerive, TypeOK
  <2>3. recv_buf' \in Msg /\ mpc' \in {"reply_err", "delete"} /\ tidx \in Slot
    BY <1>10 DEF MDerive, Answer, TypeOK, Msg
  <2> QED
    BY <1>10, <2>2, <2>3 DEF MDerive, TypeOK, MonPc
<1>11. CASE MDelete
  <2>2. kcap' \in Table /\ caps' \in Table
    <3>1. CASE capman_delcap("mon", RecvSlot)
      BY <1>0, <3>1, DelcapTyped, MonitorAssumption
    <3> QED
      BY <1>11, <3>1 DEF MDelete, TypeOK
  <2>3. recv_buf' \in Msg /\ mpc' \in {"reply_err", "move"} /\ tidx \in Slot
    BY <1>11 DEF MDelete, Answer, TypeOK, Msg
  <2> QED
    BY <1>11, <2>2, <2>3 DEF MDelete, TypeOK, MonPc
<1>12. CASE MMove
  <2>2. kcap' \in Table /\ caps' \in Table
    <3>0. tidx \in Slot
      BY <1>12 DEF MMove, TypeOK
    <3>1. CASE capman_move("mon", tidx, RecvSlot)
      BY <1>0, <3>0, <3>1, MoveTyped, MonitorAssumption
    <3> QED
      BY <1>12, <3>1 DEF MMove, TypeOK
  <2>3. recv_buf' \in Msg /\ mpc' \in {"reply_err", "reply"} /\ tidx \in Slot
    BY <1>12 DEF MMove, Answer, TypeOK, Msg
  <2> QED
    BY <1>12, <2>2, <2>3 DEF MMove, TypeOK, MonPc
<1>13. CASE MReply
  <2>1. recv_buf \in Msg
    BY DEF TypeOK
  <2>2. kcap' \in Table /\ chan' \in [Proc -> Endpoint]
    BY <1>0, <1>13, <2>1, SendTyped, MonitorAssumption DEF MReply
  <2> QED
    BY <1>13, <2>2 DEF MReply, TypeOK, MonPc
<1>14. CASE MUpdate
  <2>1. caps' \in Table
    BY <1>0, <1>14, UpdateTyped DEF MUpdate
  <2> QED
    BY <1>14, <2>1 DEF MUpdate, kernelVars, TypeOK, MonPc
<1> QED
  BY <1>1, <1>2, <1>3, <1>4, <1>5, <1>6, <1>7, <1>8, <1>9, <1>10, <1>11, <1>12, <1>13, <1>14
     DEF MonNext

LEMMA PrepareTyped ==
    ASSUME TypeOK, NEW c \in Chunk, NEW sig \in Chunk \union {NoChunk}, NEW rwx \in SUBSET Right,
           PrepareRequest(c, sig, rwx)
    PROVE  idx' \in Slot \union {NoSlot} /\ buf' \in Msg /\ apc' \in AppPc
BY DEF PrepareRequest, Msg, AppGoto, AppPc

LEMMA AppTyped == TypeOK /\ AppNext /\ UNCHANGED monVars => TypeOK'
<1> SUFFICES ASSUME TypeOK, AppNext, UNCHANGED monVars PROVE TypeOK'
  OBVIOUS
<1> USE DEF monVars, AppGoto
<1>0. /\ "mon" \in Proc /\ "app" \in Proc
      /\ Status(-1) \in Msg /\ Status(0) \in Msg /\ Status(1) \in Msg
      /\ RW \in SUBSET Right /\ RX \in SUBSET Right
  BY MsgTyped DEF Proc, Right, RW, RX
<1>1. ASSUME NEW from, NEW op \in {-1, 0, 1}, NEW to \in AppPc, SendStatus(from, op, to)
      PROVE TypeOK'
  <2>1. Status(op) \in Msg
    BY <1>0
  <2>2. kcap' \in Table /\ chan' \in [Proc -> Endpoint]
    BY <1>0, <1>1, <2>1, SendTyped DEF SendStatus
  <2> QED
    BY <1>1, <2>2 DEF SendStatus, TypeOK
<1>2. CASE \/ ASetupSend \/ AOkSend \/ ASoftSend \/ AHardSend \/ AHardOkSend \/ AEndSend
  BY <1>1, <1>2 DEF ASetupSend, AOkSend, ASoftSend, AHardSend, AHardOkSend, AEndSend, AppPc
<1>3. CASE ASetup
  <2>1. caps' \in Table
    BY <1>0, <1>3, UpdateTyped DEF ASetup
  <2> QED
    BY <1>3, <2>1 DEF ASetup, kernelVars, TypeOK, AppPc
<1>4. CASE AAlloc \/ AFree
  BY <1>4 DEF AAlloc, AllocAt, AFree, FreeAt, kernelVars, TypeOK
<1>5. CASE AWrite
  BY <1>5 DEF AWrite, WriteAt, appVars, TypeOK
<1>6. CASE AFinish \/ AYield \/ AOtherFault
  BY <1>6 DEF AFinish, AYield, AOtherFault, kernelVars, appVars, TypeOK, AppPc
<1>7. CASE AFetchFault
  <2>1. idx' \in Slot \union {NoSlot} /\ buf' \in Msg /\ apc' \in AppPc
    BY <1>0, <1>7, PrepareTyped DEF AFetchFault, FetchFault, SoftReset, TypeOK, AppPc
  <2> QED
    BY <1>7, <2>1 DEF AFetchFault, FetchFault, kernelVars, TypeOK
<1>8. CASE ALoadFault
  BY <1>8 DEF ALoadFault, SoftReset, kernelVars, TypeOK, AppPc
<1>9. CASE AStackFault
  <2>1. idx' \in Slot \union {NoSlot} /\ buf' \in Msg /\ apc' \in AppPc
    BY <1>0, <1>9, PrepareTyped DEF AStackFault, StackFault, SoftReset, TypeOK, AppPc
  <2>2. occupied' \in [Chunk -> BOOLEAN]
    BY <1>9 DEF AStackFault, StackFault, TypeOK
  <2> QED
    BY <1>9, <2>1, <2>2 DEF AStackFault, StackFault, kernelVars, TypeOK
<1>10. CASE AStoreFault
  <2>1. idx' \in Slot \union {NoSlot} /\ buf' \in Msg /\ apc' \in AppPc
    BY <1>0, <1>10, PrepareTyped DEF AStoreFault, StoreFault, SoftReset, TypeOK, AppPc
  <2> QED
    BY <1>10, <2>1 DEF AStoreFault, StoreFault, kernelVars, TypeOK
<1>11. CASE AReqSend
  <2>1. kcap' \in Table /\ chan' \in [Proc -> Endpoint]
    BY <1>0, <1>11, SendTyped DEF AReqSend, TypeOK
  <2> QED
    BY <1>11, <2>1 DEF AReqSend, TypeOK, AppPc
<1>12. CASE AReqRecv
  <2>1. kcap' \in Table /\ chan' \in [Proc -> Endpoint]
    BY <1>0, <1>12, RecvTyped DEF AReqRecv, TypeOK
  <2> QED
    BY <1>12, <2>1 DEF AReqRecv, TypeOK, AppPc
<1>13. CASE AReqGot
  <2>1. kcap' \in Table /\ chan' \in [Proc -> Endpoint] /\ buf' \in Msg
    BY <1>0, <1>13, ReceivedTyped DEF AReqGot
  <2>2. caps' \in Table
    BY <1>0, <1>13, UpdateTyped DEF AReqGot
  <2> QED
    BY <1>13, <2>1, <2>2 DEF AReqGot, TypeOK, AppPc
<1> QED
  BY <1>2, <1>3, <1>4, <1>5, <1>6, <1>7, <1>8, <1>9, <1>10, <1>11, <1>12, <1>13
     DEF AppNext, AppInput, AppFault, AppStep

LEMMA InitTyped == Init => TypeOK
<1> SUFFICES ASSUME Init PROVE TypeOK
  OBVIOUS
<1>1. \A c \in PmpChunk : c \in Chunk
  BY S3kAssumption DEF PmpChunk, Chunk
<1>2. /\ AppTable \in [Slot -> Cap] /\ [i \in Slot |-> NoCap] \in [Slot -> Cap]
      /\ \A taken \in Takens : MonTable(taken) \in [Slot -> Cap]
  <2>1. ASSUME NEW i \in {HeapSlot(c) : c \in PmpChunk}
        PROVE  Pmp(CHOOSE c \in PmpChunk : HeapSlot(c) = i, R) \in Cap
    BY <1>1, CapTyped DEF R, Right
  <2> QED
    BY <2>1, CapTyped DEF AppTable, MonTable
<1>3. Idle \in Endpoint /\ Status(0) \in Msg
  BY MsgTyped
<1>4. kcap \in Table /\ caps \in Table
  BY <1>2 DEF Init, Table
<1> QED
  BY <1>2, <1>3, <1>4 DEF Init, MonInit, AppInit, TypeOK, Table, MonPc, AppPc

LEMMA StepTyped == TypeOK /\ [Next]_vars => TypeOK'
<1>1. TypeOK /\ UNCHANGED vars => TypeOK'
  BY DEF vars, kernelVars, monVars, appVars, TypeOK
<1> QED
  BY <1>1, MonTyped, AppTyped DEF Next

(* Every capability, message and program counter stays well formed, and    *)
(* every index the searches of capman.c return is a slot or -1.            *)
THEOREM TypeCorrect == Spec => []TypeOK
BY InitTyped, StepTyped, PTL DEF Spec
-----------------------------------------------------------------------------

(* The app has a request out and no answer yet. *)
Waiting == apc \in {"req_recv", "req_got"} /\ chan["app"].st # "got"

(* A request is on its way to the monitor, or with it. *)
Delivered == mpc = "loop_got" /\ chan["mon"].st = "got" /\ chan["mon"].msg.op = 2
Handled == mpc \in {"request", "verify", "find", "derive", "delete", "move", "reply", "reply_err"}
Asked == Delivered \/ Handled

(* Who waits on which endpoint, with which slot. *)
Channels ==
    /\ chan["mon"].st # "idle" <=> mpc \in {"setup_got", "loop_got"}
    /\ mpc = "setup_got" => chan["mon"].slot = NoSlot
    /\ mpc = "loop_got" => chan["mon"].slot = RecvSlot
    /\ chan["app"].st # "idle" <=> apc = "req_got"
    /\ apc = "req_got" => chan["app"].slot = idx

(* Each heap capability has its slot in the app's table. *)
AppSlots ==
    /\ \A i \in Slot : kcap["app"][i].type = "pmp" =>
          \E c \in PmpChunk : i = HeapSlot(c) /\ kcap["app"][i].chunk = c
    /\ \A c \in PmpChunk :
          kcap["app"][HeapSlot(c)] # NoCap => IsPmpOf(kcap["app"][HeapSlot(c)], c)

(* The monitor has heap capabilities in RecvSlot and, while it replaces    *)
(* one, in the temporary slot.                                             *)
MonSlots ==
    /\ \A i \in Slot : kcap["mon"][i].type = "none" => kcap["mon"][i] = NoCap
    /\ \A i \in Slot : kcap["mon"][i].type = "pmp" =>
          i = RecvSlot \/ (mpc \in {"delete", "move"} /\ i = tidx)
    /\ kcap["mon"][RecvSlot] # NoCap => kcap["mon"][RecvSlot].type = "pmp"
    /\ mpc \in {"verify", "find", "derive", "delete"} => kcap["mon"][RecvSlot].type = "pmp"
    /\ mpc = "move" => kcap["mon"][RecvSlot] = NoCap
    /\ mpc \in {"derive", "delete", "move"} => tidx # RecvSlot
    /\ mpc = "derive" => kcap["mon"][tidx] = NoCap
    /\ mpc \in {"delete", "move"} => kcap["mon"][tidx].type = "pmp"

(* A request is one of the two the trap handler makes. *)
RequestForm ==
    apc \in {"req_send", "req_recv", "req_got"} =>
        /\ buf.op = 2
        /\ buf.rwx = RW \/ (buf.rwx = RX /\ buf.sig \in Chunk)
        /\ idx # NoSlot => \E c \in PmpChunk : idx = HeapSlot(c) /\ (buf.rwx = RX => buf.sig = c)

(* The app's copy shows its table, but for the capability it has out. *)
AppCopy ==
    /\ apc \notin {"setup", "req_recv", "req_got"} => caps["app"] = kcap["app"]
    /\ apc \in {"req_recv", "req_got"} =>
          /\ \A i \in Slot : i # idx => caps["app"][i] = kcap["app"][i]
          /\ \A c \in PmpChunk : idx = HeapSlot(c) => IsPmpOf(caps["app"][idx], c)
    /\ Waiting /\ idx \in Slot /\ kcap["app"][idx] # NoCap => caps["app"][idx] = kcap["app"][idx]

(* Custody: what is missing in the app's table is what it asked about, and *)
(* it is with the monitor; what the monitor has, the app is waiting for.   *)
MonPmp == IF mpc = "move" THEN kcap["mon"][tidx] ELSE kcap["mon"][RecvSlot]
Custody ==
    /\ \A c \in PmpChunk : kcap["app"][HeapSlot(c)] = NoCap =>
          Waiting /\ idx = HeapSlot(c) /\ IsPmpOf(MonPmp, c)
    /\ \A i \in Slot : kcap["mon"][i].type = "pmp" =>
          /\ Waiting
          /\ \E c \in PmpChunk :
                idx = HeapSlot(c) /\ kcap["mon"][i].chunk = c /\ kcap["app"][HeapSlot(c)] = NoCap

(* What the monitor works on is the request the app waits for, with the    *)
(* capability as the app had it or, at the end, as it asked for it.        *)
Work ==
    /\ Asked => Waiting /\ (idx \in Slot => kcap["app"][idx] = NoCap)
    /\ Delivered => chan["mon"].msg = buf
    /\ Handled => recv_buf.rwx = buf.rwx /\ recv_buf.sig = buf.sig
    /\ Asked /\ mpc # "move" /\ ~ (mpc \in {"reply", "reply_err"} /\ recv_buf.op = 0)
          => (kcap["mon"][RecvSlot].type = "pmp" => kcap["mon"][RecvSlot] = caps["app"][idx])
    /\ mpc \in {"delete", "move"} => kcap["mon"][tidx].rwx = buf.rwx
    /\ mpc = "reply" /\ recv_buf.op = 0 =>
          kcap["mon"][RecvSlot].type = "pmp" /\ kcap["mon"][RecvSlot].rwx = buf.rwx
    /\ mpc = "reply_err" => recv_buf.op # 0

MonCopy == mpc \in {"verify", "find", "derive", "delete", "move", "reply"} => caps["mon"] = kcap["mon"]

(* Every heap capability carries rights the policy knows, and the content  *)
(* below an executable one is signed, wherever the capability is.          *)
Policed ==
    /\ \A p \in Proc, i \in Slot : kcap[p][i].type = "pmp" =>
          /\ kcap[p][i].rwx \in {R, RW, RX}
          /\ "X" \in kcap[p][i].rwx => mem[kcap[p][i].chunk] \in Signed
    /\ mpc \in {"find", "derive"} /\ recv_buf.rwx = RX => mem[recv_buf.sig] \in Signed

IInv ==
    /\ TypeOK /\ Channels /\ AppSlots /\ MonSlots /\ RequestForm /\ AppCopy
    /\ Custody /\ Work /\ MonCopy /\ Policed /\ AnswerTrue
-----------------------------------------------------------------------------
(* What the kernel operations do, slot by slot.                            *)
LEMMA HeapSlots ==
    /\ \A c \in PmpChunk : c \in Chunk /\ HeapSlot(c) \in Slot
    /\ \A c, d \in PmpChunk : HeapSlot(c) = HeapSlot(d) => c = d
BY S3kAssumption, AppAssumption DEF PmpChunk, Chunk, HeapSlot, Slot

LEMMA Slots == RecvSlot \in Slot /\ NoSlot \notin Slot /\ NoChunk \notin Chunk
BY MonitorAssumption DEF Slot, NoSlot, Chunk, NoChunk

LEMMA Read == TypeOK => \A p \in Proc, i \in Slot : kcap[p][i] \in Cap /\ caps[p][i] \in Cap
BY DEF TypeOK, Table

LEMMA SameTable ==
    ASSUME NEW s \in Table, NEW t \in Table, NEW p \in Proc, \A i \in Slot : s[p][i] = t[p][i]
    PROVE  s[p] = t[p]
BY DEF Table

LEMMA StatusSent ==
    ASSUME TypeOK, NEW m, Send("app", "mon", m, NoSlot)
    PROVE  /\ kcap' = kcap
           /\ chan'["app"] = chan["app"]
           /\ \/ chan'["mon"] = chan["mon"]
              \/ /\ chan["mon"].st = "wait"
                 /\ chan'["mon"] = [st |-> "got", slot |-> chan["mon"].slot, msg |-> m]
BY Slots DEF Send, Transfer, TypeOK, Proc

LEMMA Transferred ==
    ASSUME TypeOK, NEW p \in Proc, NEW q \in Proc, p # q, NEW i \in Slot, NEW j \in Slot,
           kcap[p][i] # NoCap, kcap[q][j] = NoCap, kcap' = Transfer(p, i, q, j)
    PROVE  /\ \A s \in Slot : kcap'[p][s] = IF s = i THEN NoCap ELSE kcap[p][s]
           /\ \A s \in Slot : kcap'[q][s] = IF s = j THEN kcap[p][i] ELSE kcap[q][s]
<1>1. kcap[p][i] \in Cap /\ NoCap \in Cap
  BY CapTyped, Read
<1>2. Put(kcap, p, i, NoCap) \in Table
  BY <1>1, PutTyped DEF TypeOK
<1>3. kcap' = Put(Put(kcap, p, i, NoCap), q, j, kcap[p][i])
  BY DEF Transfer
<1>4. kcap \in Table
  BY DEF TypeOK
<1> QED
  BY <1>1, <1>2, <1>3, <1>4, PutRead

LEMMA Derived ==
    ASSUME TypeOK, NEW c, NEW rwx, Pmp(c, rwx) \in Cap, tidx \in Slot, caps["mon"] = kcap["mon"],
           capman_derive_pmp("mon", tidx, c, rwx)
    PROVE  /\ kcap'["app"] = kcap["app"] /\ caps'["app"] = caps["app"]
           /\ \A s \in Slot : kcap'["mon"][s] = IF s = tidx THEN Pmp(c, rwx) ELSE kcap["mon"][s]
           /\ caps'["mon"] = kcap'["mon"]
<1>0. "mon" \in Proc /\ "app" \in Proc /\ kcap \in Table /\ caps \in Table
  BY DEF Proc, TypeOK
<1>1. PICK m \in Slot : caps' = Put(Put(caps, "mon", m, kcap["mon"][m]), "mon", tidx, Pmp(c, rwx))
  BY DEF capman_derive_pmp
<1>2. kcap' = Put(kcap, "mon", tidx, Pmp(c, rwx))
  BY DEF capman_derive_pmp
<1>3. kcap["mon"][m] \in Cap
  BY <1>0, Read
<1>4. Put(caps, "mon", m, kcap["mon"][m]) \in Table
  BY <1>0, <1>3, PutTyped
<1>5. kcap' \in Table /\ caps' \in Table
  BY <1>0, <1>1, <1>2, <1>4, PutTyped
<1>6. \A p \in Proc, s \in Slot :
         kcap'[p][s] = IF p = "mon" /\ s = tidx THEN Pmp(c, rwx) ELSE kcap[p][s]
  BY <1>0, <1>2, PutRead
<1>7. \A p \in Proc, s \in Slot :
         caps'[p][s] = IF p = "mon" /\ s = tidx THEN Pmp(c, rwx) ELSE caps[p][s]
  <2>1. \A p \in Proc, s \in Slot :
           Put(caps, "mon", m, kcap["mon"][m])[p][s]
             = IF p = "mon" /\ s = m THEN kcap["mon"][m] ELSE caps[p][s]
    BY <1>0, <1>3, PutRead
  <2>2. \A p \in Proc, s \in Slot :
           caps'[p][s] = IF p = "mon" /\ s = tidx THEN Pmp(c, rwx)
                         ELSE Put(caps, "mon", m, kcap["mon"][m])[p][s]
    BY <1>0, <1>1, <1>4, PutRead
  <2> QED
    BY <1>0, <2>1, <2>2
<1>8. kcap'["app"] = kcap["app"] /\ caps'["app"] = caps["app"]
  BY <1>0, <1>5, <1>6, <1>7, SameTable
<1>9. caps'["mon"] = kcap'["mon"]
  BY <1>0, <1>5, <1>6, <1>7, SameTable
<1> QED
  BY <1>0, <1>6, <1>8, <1>9

LEMMA Deleted ==
    ASSUME TypeOK, caps["mon"] = kcap["mon"], capman_delcap("mon", RecvSlot)
    PROVE  /\ kcap'["app"] = kcap["app"] /\ caps'["app"] = caps["app"]
           /\ \A s \in Slot : kcap'["mon"][s] = IF s = RecvSlot THEN NoCap ELSE kcap["mon"][s]
           /\ caps'["mon"] = kcap'["mon"]
<1>0. "mon" \in Proc /\ "app" \in Proc /\ kcap \in Table /\ caps \in Table /\ NoCap \in Cap
  BY CapTyped DEF Proc, TypeOK
<1>1. kcap' = Put(kcap, "mon", RecvSlot, NoCap) /\ caps' = Put(caps, "mon", RecvSlot, NoCap)
  BY DEF capman_delcap
<1>2. kcap' \in Table /\ caps' \in Table
  BY <1>0, <1>1, PutTyped
<1>3. \A p \in Proc, s \in Slot :
         /\ kcap'[p][s] = IF p = "mon" /\ s = RecvSlot THEN NoCap ELSE kcap[p][s]
         /\ caps'[p][s] = IF p = "mon" /\ s = RecvSlot THEN NoCap ELSE caps[p][s]
  BY <1>0, <1>1, Slots, PutRead
<1>4. kcap'["app"] = kcap["app"] /\ caps'["app"] = caps["app"] /\ caps'["mon"] = kcap'["mon"]
  BY <1>0, <1>2, <1>3, SameTable
<1> QED
  BY <1>0, <1>3, <1>4

LEMMA Moved ==
    ASSUME TypeOK, tidx \in Slot, caps["mon"] = kcap["mon"], capman_move("mon", tidx, RecvSlot)
    PROVE  /\ kcap'["app"] = kcap["app"] /\ caps'["app"] = caps["app"]
           /\ \A s \in Slot : kcap'["mon"][s] = IF s = tidx THEN NoCap
                                                ELSE IF s = RecvSlot THEN kcap["mon"][tidx]
                                                ELSE kcap["mon"][s]
           /\ caps'["mon"] = kcap'["mon"]
<1>0. "mon" \in Proc /\ "app" \in Proc /\ kcap \in Table /\ caps \in Table /\ NoCap \in Cap
  BY CapTyped DEF Proc, TypeOK
<1>1. kcap["mon"][tidx] \in Cap
  BY <1>0, Read
<1> DEFINE k == Put(kcap, "mon", RecvSlot, kcap["mon"][tidx])
           c == Put(caps, "mon", RecvSlot, caps["mon"][tidx])
<1>2. k \in Table /\ c \in Table
  BY <1>0, <1>1, Slots, PutTyped
<1>3. \A p \in Proc, s \in Slot :
         /\ k[p][s] = IF p = "mon" /\ s = RecvSlot THEN kcap["mon"][tidx] ELSE kcap[p][s]
         /\ c[p][s] = IF p = "mon" /\ s = RecvSlot THEN kcap["mon"][tidx] ELSE caps[p][s]
  BY <1>0, <1>1, Slots, PutRead
<1>4. kcap' = Put(k, "mon", tidx, NoCap) /\ caps' = Put(c, "mon", tidx, NoCap)
  BY DEF capman_move
<1> HIDE DEF k, c
<1>5. kcap' \in Table /\ caps' \in Table
  BY <1>0, <1>2, <1>4, PutTyped
<1>6. \A p \in Proc, s \in Slot :
         /\ kcap'[p][s] = IF p = "mon" /\ s = tidx THEN NoCap ELSE k[p][s]
         /\ caps'[p][s] = IF p = "mon" /\ s = tidx THEN NoCap ELSE c[p][s]
  BY <1>0, <1>2, <1>4, PutRead
<1>7. kcap'["app"] = kcap["app"] /\ caps'["app"] = caps["app"]
  BY <1>0, <1>3, <1>5, <1>6, SameTable
<1>8. caps'["mon"] = kcap'["mon"]
  BY <1>0, <1>3, <1>5, <1>6, SameTable
<1> QED
  BY <1>0, <1>3, <1>6, <1>7, <1>8
-----------------------------------------------------------------------------
(* Steps that leave the tables alone. *)
LEMMA MonQuiet ==
    IInv /\ TypeOK' /\ (MResume \/ MYield \/ MUpdate) /\ UNCHANGED appVars => IInv'
<1> SUFFICES ASSUME IInv, TypeOK', MResume \/ MYield \/ MUpdate, UNCHANGED appVars PROVE IInv'
  OBVIOUS
<1> USE DEF MResume, MYield, MUpdate, MonGoto, appVars, kernelVars, monVars, Waiting, Asked,
            Delivered, Handled
<1>1. kcap' = kcap /\ chan' = chan /\ mem' = mem /\ caps'["app"] = caps["app"]
  BY DEF capman_update, IInv, TypeOK, Table, Proc
<1>2. Channels' /\ AppSlots' /\ RequestForm' /\ AppCopy' /\ AnswerTrue'
  BY <1>1 DEF IInv, Channels, AppSlots, RequestForm, AppCopy, AnswerTrue
<1>3. MonSlots' /\ Custody' /\ Work'
  BY <1>1 DEF IInv, MonSlots, Custody, MonPmp, Work
<1>4. MonCopy' /\ Policed'
  BY <1>1 DEF IInv, MonCopy, Policed
<1> QED
  BY <1>2, <1>3, <1>4 DEF IInv

LEMMA MonReceive ==
    IInv /\ TypeOK' /\ (MSetupRecv \/ MSetupGot \/ MLoopRecv \/ MLoopGot) /\ UNCHANGED appVars
        => IInv'
<1> SUFFICES ASSUME IInv, TypeOK', MSetupRecv \/ MSetupGot \/ MLoopRecv \/ MLoopGot,
                    UNCHANGED appVars
             PROVE  IInv'
  OBVIOUS
<1> USE DEF MSetupRecv, MSetupGot, MLoopRecv, MLoopGot, MonGoto, appVars, Recv, Received, Idle,
            Status, Waiting, Asked, Delivered, Handled
<1>1. kcap' = kcap /\ caps' = caps /\ mem' = mem /\ chan'["app"] = chan["app"]
  BY DEF IInv, TypeOK, Proc
<1>2. Channels'
  BY DEF IInv, TypeOK, Proc, Channels
<1>3. AppSlots' /\ RequestForm' /\ AppCopy' /\ AnswerTrue'
  BY <1>1 DEF IInv, AppSlots, RequestForm, AppCopy, AnswerTrue
<1>4. MonSlots' /\ Custody'
  BY <1>1 DEF IInv, MonSlots, Custody, MonPmp
<1>5. Work'
  BY <1>1 DEF IInv, TypeOK, Proc, Channels, Work
<1>6. MonCopy' /\ Policed'
  BY <1>1 DEF IInv, MonCopy, Policed
<1> QED
  BY <1>2, <1>3, <1>4, <1>5, <1>6 DEF IInv

(* The refresh makes the type the monitor sees the type of the capability. *)
LEMMA MonRequest == IInv /\ TypeOK' /\ MRequest /\ UNCHANGED appVars => IInv'
<1> SUFFICES ASSUME IInv, TypeOK', MRequest, UNCHANGED appVars PROVE IInv'
  OBVIOUS
<1> USE DEF MRequest, MonGoto, Answer, appVars, Waiting, Asked, Delivered, Handled
<1>1. caps'["mon"] = kcap["mon"] /\ caps'["app"] = caps["app"] /\ kcap' = kcap
  BY DEF capman_update, IInv, TypeOK, Table, Proc
<1>2. Channels' /\ AppSlots' /\ RequestForm' /\ AppCopy' /\ Custody' /\ AnswerTrue'
  BY <1>1 DEF IInv, Channels, AppSlots, RequestForm, AppCopy, Custody, MonPmp, AnswerTrue
<1>3. MonSlots' /\ MonCopy'
  BY <1>1 DEF IInv, MonSlots, MonCopy
<1>4. Work'
  BY <1>1, Slots DEF IInv, TypeOK, Msg, Work
<1>5. Policed'
  BY <1>1 DEF IInv, Policed, Work, RequestForm, RX, RW
<1> QED
  BY <1>2, <1>3, <1>4, <1>5 DEF IInv

(* From here on a request for execution is about signed content.           *)
LEMMA MonVerify == IInv /\ TypeOK' /\ MVerify /\ UNCHANGED appVars => IInv'
<1> SUFFICES ASSUME IInv, TypeOK', MVerify, UNCHANGED appVars PROVE IInv'
  OBVIOUS
<1> USE DEF MVerify, MonGoto, Answer, appVars, kernelVars, Waiting, Asked, Delivered, Handled
<1>1. Channels' /\ AppSlots' /\ RequestForm' /\ AppCopy' /\ Custody' /\ AnswerTrue'
  BY DEF IInv, Channels, AppSlots, RequestForm, AppCopy, Custody, MonPmp, AnswerTrue
<1>2. MonSlots' /\ MonCopy' /\ Policed'
  BY DEF IInv, MonSlots, MonCopy, Policed
<1>3. Work'
  BY DEF IInv, TypeOK, Msg, Work
<1> QED
  BY <1>1, <1>2, <1>3 DEF IInv

LEMMA MonFind == IInv /\ TypeOK' /\ MFind /\ UNCHANGED appVars => IInv'
<1> SUFFICES ASSUME IInv, TypeOK', MFind, UNCHANGED appVars PROVE IInv'
  OBVIOUS
<1> USE DEF MFind, MonGoto, Answer, appVars, kernelVars, Waiting, Asked, Delivered, Handled
<1>1. Channels' /\ AppSlots' /\ RequestForm' /\ AppCopy' /\ Custody' /\ AnswerTrue'
  BY DEF IInv, Channels, AppSlots, RequestForm, AppCopy, Custody, MonPmp, AnswerTrue
<1>2. MonSlots'
  <2>1. CASE mpc' = "derive"
    <3>1. tidx' \in Slot /\ caps["mon"][tidx'].type = "none"
      BY <2>1, Slots DEF capman_find_free, NoSlot
    <3> QED
      BY <2>1, <3>1 DEF IInv, MonSlots, MonCopy
  <2>2. CASE mpc' # "derive"
    BY <2>2 DEF IInv, MonSlots
  <2> QED
    BY <2>1, <2>2
<1>3. MonCopy' /\ Policed'
  BY DEF IInv, MonCopy, Policed
<1>4. Work'
  BY DEF IInv, TypeOK, Msg, Work
<1> QED
  BY <1>1, <1>2, <1>3, <1>4 DEF IInv

(* The replacement carries the rights asked for; those of a request for    *)
(* execution are about a chunk whose content was found signed.             *)
LEMMA MonDerive == IInv /\ TypeOK' /\ MDerive /\ UNCHANGED appVars => IInv'
<1> SUFFICES ASSUME IInv, TypeOK', MDerive, UNCHANGED appVars PROVE IInv'
  OBVIOUS
<1> USE DEF appVars, MonGoto, Waiting, Asked, Delivered, Handled
<1> DEFINE old == kcap["mon"][RecvSlot]
           new == Pmp(old.chunk, recv_buf.rwx)
<1>0. /\ "mon" \in Proc /\ RecvSlot \in Slot /\ tidx \in Slot /\ tidx # RecvSlot
      /\ mpc = "derive" /\ old.type = "pmp" /\ kcap["mon"][tidx] = NoCap
      /\ caps["mon"] = kcap["mon"] /\ old \in Cap
  BY Slots, Read DEF MDerive, IInv, TypeOK, MonSlots, MonCopy, Proc
<1>1. CASE ~ CanDerive("mon", tidx) /\ Answer(2, "reply_err") /\ UNCHANGED <<kcap, caps>>
  <2> USE <1>0, <1>1 DEF MDerive, Answer
  <2>1. Channels' /\ AppSlots' /\ RequestForm' /\ AppCopy' /\ AnswerTrue' /\ MonSlots'
    BY DEF IInv, Channels, AppSlots, RequestForm, AppCopy, AnswerTrue, MonSlots
  <2>2. Custody' /\ MonCopy' /\ Policed'
    BY DEF IInv, Custody, MonPmp, MonCopy, Policed
  <2>3. Work'
    BY DEF IInv, TypeOK, Msg, Work
  <2> QED
    BY <2>1, <2>2, <2>3 DEF IInv
<1>2. CASE /\ capman_derive_pmp("mon", tidx, old.chunk, recv_buf.rwx)
           /\ mpc' = "delete" /\ UNCHANGED recv_buf
  <2>1. PICK c \in PmpChunk : /\ Waiting /\ idx = HeapSlot(c) /\ old.chunk = c
                              /\ kcap["app"][HeapSlot(c)] = NoCap /\ c \in Chunk
    BY <1>0, HeapSlots DEF IInv, Custody
  <2>2. recv_buf.rwx = buf.rwx /\ buf.rwx \in {RW, RX} /\ (buf.rwx = RX => buf.sig = c /\ recv_buf.sig = c)
    BY <1>0, <2>1, HeapSlots, Slots DEF IInv, Work, RequestForm
  <2>3. new \in Cap
    BY <2>1, <2>2, CapTyped DEF RW, RX, Right
  <2>4. /\ kcap'["app"] = kcap["app"] /\ caps'["app"] = caps["app"]
        /\ \A s \in Slot : kcap'["mon"][s] = IF s = tidx THEN new ELSE kcap["mon"][s]
        /\ caps'["mon"] = kcap'["mon"]
    BY <1>0, <1>2, <2>3, Derived DEF IInv
  <2>5. chan' = chan /\ mem' = mem /\ tidx' = tidx /\ mpc' = "delete" /\ recv_buf' = recv_buf
    BY <1>2 DEF MDerive
  <2>6. new.type = "pmp" /\ new.chunk = c /\ new.rwx = buf.rwx /\ NoCap.type = "none"
    BY <2>1, <2>2 DEF Pmp, NoCap
  <2> HIDE DEF new, old
  <2>7. kcap'["mon"][tidx] = new /\ kcap'["mon"][RecvSlot] = old
    BY <1>0, <2>4 DEF old
  <2>8. Channels' /\ AppSlots' /\ RequestForm' /\ AppCopy' /\ AnswerTrue'
    BY <1>0, <2>4, <2>5 DEF IInv, Channels, AppSlots, RequestForm, AppCopy, AnswerTrue
  <2>9. MonSlots' /\ MonCopy'
    BY <1>0, <2>4, <2>5, <2>6, <2>7 DEF IInv, MonSlots, MonCopy, old
  <2>10. Custody'
    BY <1>0, <2>1, <2>4, <2>5, <2>6, <2>7 DEF IInv, Custody, MonPmp, old
  <2>11. Work'
    BY <1>0, <2>1, <2>4, <2>5, <2>6, <2>7 DEF IInv, Work, old
  <2>12. Policed'
    <3>1. "X" \in new.rwx => mem[c] \in Signed
      BY <1>0, <2>2, <2>6 DEF IInv, Policed, RW, RX
    <3> QED
      BY <1>0, <2>2, <2>4, <2>5, <2>6, <3>1 DEF IInv, Policed, Proc
  <2> QED
    BY <2>8, <2>9, <2>10, <2>11, <2>12 DEF IInv
<1> QED
  BY <1>0, <1>1, <1>2 DEF MDerive

(* For a moment the monitor has only the replacement.                      *)
LEMMA MonDelete == IInv /\ TypeOK' /\ MDelete /\ UNCHANGED appVars => IInv'
<1> SUFFICES ASSUME IInv, TypeOK', MDelete, UNCHANGED appVars PROVE IInv'
  OBVIOUS
<1> USE DEF appVars, MonGoto, Waiting, Asked, Delivered, Handled
<1>0. /\ "mon" \in Proc /\ RecvSlot \in Slot /\ tidx \in Slot /\ tidx # RecvSlot
      /\ mpc = "delete" /\ kcap["mon"][RecvSlot].type = "pmp" /\ kcap["mon"][tidx].type = "pmp"
      /\ caps["mon"] = kcap["mon"] /\ NoCap.type = "none"
  BY Slots DEF MDelete, IInv, TypeOK, MonSlots, MonCopy, Proc, NoCap
<1>1. capman_delcap("mon", RecvSlot) /\ mpc' = "move" /\ UNCHANGED recv_buf
  BY <1>0 DEF MDelete
<1>2. /\ kcap'["app"] = kcap["app"] /\ caps'["app"] = caps["app"]
      /\ \A s \in Slot : kcap'["mon"][s] = IF s = RecvSlot THEN NoCap ELSE kcap["mon"][s]
      /\ caps'["mon"] = kcap'["mon"]
  BY <1>0, <1>1, Deleted DEF IInv
<1>3. chan' = chan /\ mem' = mem /\ tidx' = tidx /\ mpc' = "move" /\ recv_buf' = recv_buf
  BY <1>1 DEF MDelete
<1>4. kcap'["mon"][tidx] = kcap["mon"][tidx] /\ kcap'["mon"][RecvSlot] = NoCap
  BY <1>0, <1>2
<1>5. Channels' /\ AppSlots' /\ RequestForm' /\ AppCopy' /\ AnswerTrue'
  BY <1>0, <1>2, <1>3 DEF IInv, Channels, AppSlots, RequestForm, AppCopy, AnswerTrue
<1>6. MonSlots' /\ MonCopy'
  BY <1>0, <1>2, <1>3, <1>4 DEF IInv, MonSlots, MonCopy
<1>7. Custody'
  <2>1. PICK c \in PmpChunk : idx = HeapSlot(c) /\ kcap["mon"][tidx].chunk = c
    BY <1>0 DEF IInv, Custody
  <2> QED
    BY <1>0, <1>2, <1>3, <1>4, <2>1, HeapSlots DEF IInv, Custody, MonPmp, IsPmpOf
<1>8. Work'
  BY <1>0, <1>2, <1>3, <1>4 DEF IInv, Work
<1>9. Policed'
  BY <1>0, <1>2, <1>3 DEF IInv, Policed, Proc
<1> QED
  BY <1>5, <1>6, <1>7, <1>8, <1>9 DEF IInv

(* The replacement takes the place of the old capability.                  *)
LEMMA MonMove == IInv /\ TypeOK' /\ MMove /\ UNCHANGED appVars => IInv'
<1> SUFFICES ASSUME IInv, TypeOK', MMove, UNCHANGED appVars PROVE IInv'
  OBVIOUS
<1> USE DEF appVars, MonGoto, Waiting, Asked, Delivered, Handled
<1>0. /\ "mon" \in Proc /\ RecvSlot \in Slot /\ tidx \in Slot /\ tidx # RecvSlot
      /\ mpc = "move" /\ kcap["mon"][RecvSlot] = NoCap /\ kcap["mon"][tidx].type = "pmp"
      /\ caps["mon"] = kcap["mon"] /\ NoCap.type = "none"
  BY Slots DEF MMove, IInv, TypeOK, MonSlots, MonCopy, Proc, NoCap
<1>1. capman_move("mon", tidx, RecvSlot) /\ Answer(0, "reply")
  BY <1>0 DEF MMove, CanMove
<1>2. /\ kcap'["app"] = kcap["app"] /\ caps'["app"] = caps["app"]
      /\ \A s \in Slot : kcap'["mon"][s] = IF s = tidx THEN NoCap
                                           ELSE IF s = RecvSlot THEN kcap["mon"][tidx]
                                           ELSE kcap["mon"][s]
      /\ caps'["mon"] = kcap'["mon"]
  BY <1>0, <1>1, Moved DEF IInv
<1>3. /\ chan' = chan /\ mem' = mem /\ tidx' = tidx /\ mpc' = "reply"
      /\ recv_buf'.op = 0 /\ recv_buf'.rwx = recv_buf.rwx /\ recv_buf'.sig = recv_buf.sig
  BY <1>1 DEF MMove, Answer, IInv, TypeOK, Msg
<1>4. kcap'["mon"][RecvSlot] = kcap["mon"][tidx]
  BY <1>0, <1>2
<1>5. Channels' /\ AppSlots' /\ RequestForm' /\ AppCopy' /\ AnswerTrue'
  BY <1>0, <1>2, <1>3 DEF IInv, Channels, AppSlots, RequestForm, AppCopy, AnswerTrue
<1>6. MonSlots' /\ MonCopy'
  BY <1>0, <1>2, <1>3, <1>4 DEF IInv, MonSlots, MonCopy
<1>7. Custody'
  BY <1>0, <1>2, <1>3, <1>4 DEF IInv, Custody, MonPmp
<1>8. Work'
  BY <1>0, <1>2, <1>3, <1>4 DEF IInv, Work
<1>9. Policed'
  BY <1>0, <1>2, <1>3 DEF IInv, Policed, Proc
<1> QED
  BY <1>5, <1>6, <1>7, <1>8, <1>9 DEF IInv

(* The answer takes back what the monitor has, if it is delivered.         *)
LEMMA MonReply == IInv /\ TypeOK' /\ MReply /\ UNCHANGED appVars => IInv'
<1> SUFFICES ASSUME IInv, TypeOK', MReply, UNCHANGED appVars PROVE IInv'
  OBVIOUS
<1> USE DEF appVars, MonGoto
<1> DEFINE cap == kcap["mon"][RecvSlot]
<1>0. /\ "mon" \in Proc /\ "app" \in Proc /\ RecvSlot \in Slot /\ Handled /\ Waiting
      /\ mpc \in {"reply", "reply_err"} /\ mpc' \in {"update", "loop"}
      /\ mem' = mem /\ caps' = caps /\ recv_buf' = recv_buf /\ tidx' = tidx
  BY Slots DEF MReply, IInv, Work, Asked, Handled, Proc
<1>1. Send("mon", "app", recv_buf, RecvSlot)
  BY DEF MReply
<1>2. CASE chan["app"].st # "wait" /\ UNCHANGED <<chan, kcap>>
  <2> USE <1>0, <1>2 DEF Waiting, Asked, Delivered, Handled
  <2>1. Channels' /\ AppSlots' /\ RequestForm' /\ AppCopy' /\ AnswerTrue' /\ MonSlots'
    BY DEF IInv, Channels, AppSlots, RequestForm, AppCopy, AnswerTrue, MonSlots
  <2>2. Custody' /\ MonCopy' /\ Policed' /\ Work'
    BY DEF IInv, Custody, MonPmp, MonCopy, Policed, Work
  <2> QED
    BY <2>1, <2>2 DEF IInv
<1>3. CASE /\ chan["app"].st = "wait"
           /\ chan' = [chan EXCEPT !["app"] = [st |-> "got", slot |-> chan["app"].slot, msg |-> recv_buf]]
           /\ kcap' = Transfer("mon", RecvSlot, "app", chan["app"].slot)
  <2>1. /\ apc = "req_got" /\ chan["app"].slot = idx
        /\ chan'["mon"] = chan["mon"] /\ chan'["app"].st = "got" /\ chan'["app"].slot = idx
        /\ chan'["app"].msg = recv_buf
    BY <1>0, <1>3 DEF IInv, Channels, TypeOK, Waiting
  <2>2. ~ Waiting' /\ ~ Asked'
    BY <1>0, <2>1 DEF Waiting, Asked, Delivered, Handled, IInv, Channels
  <2>3. Channels' /\ RequestForm' /\ MonCopy'
    BY <1>0, <2>1 DEF IInv, Channels, RequestForm, MonCopy
  <2>4. NoCap.type = "none" /\ NoCap \in Cap
    BY CapTyped DEF NoCap
  <2>5. CASE idx \in Slot
    <3>1. PICK c \in PmpChunk : idx = HeapSlot(c) /\ IsPmpOf(caps["app"][idx], c)
      BY <2>1, <2>5, Slots DEF IInv, RequestForm, AppCopy
    <3>2. kcap["app"][idx] = NoCap /\ IsPmpOf(cap, c) /\ cap # NoCap
      BY <1>0, <2>4, <2>5, <3>1 DEF IInv, Work, Asked, Custody, MonPmp, IsPmpOf
    <3>3. /\ \A s \in Slot : kcap'["mon"][s] = IF s = RecvSlot THEN NoCap ELSE kcap["mon"][s]
          /\ \A s \in Slot : kcap'["app"][s] = IF s = idx THEN cap ELSE kcap["app"][s]
      BY <1>0, <1>3, <2>1, <2>5, <3>2, Transferred DEF IInv
    <3> HIDE DEF cap
    <3>4. \A s \in Slot : s # idx => kcap'["app"][s] = caps["app"][s]
      BY <2>1, <3>3 DEF IInv, AppCopy
    <3>5. AppSlots'
      BY <3>1, <3>2, <3>3, HeapSlots DEF IInv, AppSlots, IsPmpOf
    <3>6. MonSlots'
      BY <1>0, <2>4, <3>3 DEF IInv, MonSlots
    <3>7. AppCopy'
      BY <1>0, <2>1, <2>2, <3>4 DEF IInv, AppCopy
    <3>8. Custody'
      BY <1>0, <2>4, <3>1, <3>2, <3>3, HeapSlots DEF IInv, Custody, MonSlots
    <3>9. Work'
      BY <1>0, <2>2 DEF Work, Asked, Handled
    <3>10. Policed'
      <4>1. \A p \in Proc, s \in Slot :
               kcap'[p][s].type = "pmp" => \E q \in Proc, t \in Slot : kcap'[p][s] = kcap[q][t]
        BY <1>0, <2>4, <3>3 DEF Proc, cap
      <4> QED
        BY <1>0, <4>1 DEF IInv, Policed
    <3>11. AnswerTrue'
      <4>1. kcap' \in Table /\ caps \in Table /\ cap \in Cap
        BY <1>0, Read DEF IInv, TypeOK, cap
      <4>2. kcap'["app"] \in [Slot -> Cap] /\ caps["app"] \in [Slot -> Cap]
        BY <1>0, <4>1 DEF Table
      <4>3. CASE recv_buf.op = 0
        <5>1. cap.type = "pmp" /\ cap.rwx = buf.rwx /\ cap.chunk = caps["app"][idx].chunk
          BY <1>0, <3>1, <3>2, <4>3 DEF IInv, Work, IsPmpOf, cap
        <5>2. cap = Pmp(caps["app"][idx].chunk, buf.rwx)
          BY <4>1, <5>1 DEF Cap, Pmp
        <5>3. kcap'["app"] = [caps["app"] EXCEPT ![idx] = Pmp(@.chunk, buf.rwx)]
          BY <2>5, <3>3, <3>4, <4>2, <5>2
        <5> QED
          BY <1>0, <2>1, <4>3, <5>3 DEF AnswerTrue
      <4>4. CASE recv_buf.op # 0
        <5>1. cap = caps["app"][idx]
          BY <1>0, <3>2, <4>4 DEF IInv, Work, Asked, IsPmpOf, cap
        <5>2. kcap'["app"] = caps["app"]
          BY <2>5, <3>3, <3>4, <4>2, <5>1
        <5> QED
          BY <1>0, <2>1, <4>4, <5>2 DEF AnswerTrue
      <4> QED
        BY <4>3, <4>4
    <3> QED
      BY <2>3, <3>5, <3>6, <3>7, <3>8, <3>9, <3>10, <3>11 DEF IInv
  <2>6. CASE idx \notin Slot
    <3>1. kcap' = kcap
      BY <1>3, <2>1, <2>6 DEF Transfer
    <3>2. \A c \in PmpChunk : idx # HeapSlot(c)
      BY <2>6, HeapSlots
    <3>3. AppSlots' /\ MonSlots' /\ AppCopy'
      BY <1>0, <2>1, <2>2, <3>1, <3>2 DEF IInv, AppSlots, MonSlots, AppCopy
    <3>4. Custody' /\ Policed' /\ Work'
      BY <1>0, <2>2, <3>1, <3>2 DEF IInv, Custody, Policed, Work, Asked, Handled
    <3>5. AnswerTrue'
      <4>1. kcap["app"] = caps["app"]
        <5>1. \A s \in Slot : kcap["app"][s] = caps["app"][s]
          BY <2>1, <2>6 DEF IInv, AppCopy
        <5> QED
          BY <1>0, <5>1, SameTable DEF IInv, TypeOK
      <4>2. caps["app"] = [caps["app"] EXCEPT ![idx] = Pmp(@.chunk, buf.rwx)]
        BY <1>0, <2>6 DEF IInv, TypeOK, Table
      <4> QED
        BY <1>0, <3>1, <4>1, <4>2 DEF AnswerTrue
    <3> QED
      BY <2>3, <3>3, <3>4, <3>5 DEF IInv
  <2> QED
    BY <2>5, <2>6
<1> QED
  BY <1>1, <1>2, <1>3 DEF Send

-----------------------------------------------------------------------------
(* A status carries no capability and is no request. *)
LEMMA AppStatus ==
    ASSUME NEW from \in AppPc \ {"req_recv", "req_got"}, NEW op \in {-1, 0, 1},
           NEW to \in {"run", "hard_ok_send", "setup", "end"}, from # "setup",
           IInv, TypeOK', SendStatus(from, op, to), UNCHANGED monVars
    PROVE  IInv'
<1> USE DEF monVars, AppGoto
<1>1. /\ apc = from /\ apc' = to /\ mem' = mem /\ caps' = caps /\ buf' = buf /\ idx' = idx
      /\ Send("app", "mon", Status(op), NoSlot) /\ ~ Waiting /\ ~ Asked
  BY DEF SendStatus, IInv, Work, Waiting
<1>2. /\ kcap' = kcap /\ chan'["app"] = chan["app"]
      /\ \/ chan'["mon"] = chan["mon"]
         \/ /\ chan["mon"].st = "wait"
            /\ chan'["mon"] = [st |-> "got", slot |-> chan["mon"].slot, msg |-> Status(op)]
  BY <1>1, StatusSent DEF IInv
<1>3. ~ Waiting' /\ ~ Asked'
  BY <1>1, <1>2 DEF Waiting, Asked, Delivered, Handled, Status
<1>4. Channels' /\ AppSlots' /\ MonSlots' /\ RequestForm'
  BY <1>1, <1>2 DEF IInv, Channels, AppSlots, MonSlots, RequestForm
<1>5. AppCopy' /\ Custody' /\ Policed'
  BY <1>1, <1>2, <1>3 DEF IInv, AppCopy, Custody, MonPmp, Policed
<1>6. Work' /\ MonCopy' /\ AnswerTrue'
  BY <1>1, <1>2, <1>3 DEF IInv, Work, MonCopy, AnswerTrue, Asked, Handled
<1> QED
  BY <1>4, <1>5, <1>6 DEF IInv

(* Steps of the application that neither write nor make a request. *)
LEMMA AppQuiet ==
    ASSUME IInv, TypeOK', UNCHANGED monVars, UNCHANGED <<kcap, chan, mem>>,
           caps'["mon"] = caps["mon"], caps'["app"] = caps["app"] \/ caps'["app"] = kcap["app"],
           apc \notin {"req_send", "req_recv", "req_got"},
           apc' \notin {"req_send", "req_recv", "req_got"},
           apc = "setup" /\ apc' # "setup" => caps'["app"] = kcap["app"]
    PROVE  IInv'
<1> USE DEF monVars, Waiting, Asked, Delivered, Handled
<1>1. Channels' /\ AppSlots' /\ MonSlots' /\ RequestForm'
  BY DEF IInv, Channels, AppSlots, MonSlots, RequestForm
<1>2. AppCopy' /\ Custody' /\ Policed'
  BY DEF IInv, AppCopy, Custody, MonPmp, Policed
<1>3. Work' /\ MonCopy' /\ AnswerTrue'
  BY DEF IInv, Work, MonCopy, AnswerTrue
<1> QED
  BY <1>1, <1>2, <1>3 DEF IInv

(* The chunk written to is not executable: its only capability is one the  *)
(* app has, with W and therefore without X, and no decision about it is    *)
(* pending, for then the app would be waiting.                             *)
LEMMA AppWrite == IInv /\ TypeOK' /\ AWrite /\ UNCHANGED monVars => IInv'
<1> SUFFICES ASSUME IInv, TypeOK', AWrite, UNCHANGED monVars PROVE IInv'
  OBVIOUS
<1> USE DEF AWrite, WriteAt, appVars, monVars
<1>1. PICK c \in Chunk, v \in Content : "W" \in Rights("app", c) /\ mem' = [mem EXCEPT ![c] = v]
  OBVIOUS
<1>2. PICK j \in Slot : IsPmpOf(kcap["app"][j], c) /\ "W" \in kcap["app"][j].rwx
  BY <1>1 DEF Rights, IsPmpOf
<1>3. ~ Waiting /\ ~ Asked
  BY DEF IInv, Work, Waiting
<1>4. Channels' /\ AppSlots' /\ MonSlots' /\ RequestForm'
  BY DEF IInv, Channels, AppSlots, MonSlots, RequestForm
<1>5. AppCopy' /\ Custody'
  BY DEF IInv, AppCopy, Custody, MonPmp, Waiting
<1>6. Work' /\ MonCopy' /\ AnswerTrue'
  BY DEF IInv, Work, MonCopy, AnswerTrue, Asked, Delivered, Handled, Waiting
<1>7. Policed'
  <2>1. ASSUME NEW p \in Proc, NEW i \in Slot, kcap[p][i].type = "pmp", "X" \in kcap[p][i].rwx
        PROVE  mem'[kcap[p][i].chunk] \in Signed
    <3>1. p = "app"
      BY <1>3, <2>1 DEF IInv, Custody, Proc
    <3>2. kcap[p][i].chunk # c
      <4>1. kcap[p][i].chunk = c => i = j
        BY <1>2, <2>1, <3>1, HeapSlots DEF IInv, AppSlots, IsPmpOf
      <4> QED
        BY <1>2, <2>1, <3>1, <4>1 DEF IInv, Policed, IsPmpOf, R, RW, RX
    <3>3. kcap[p][i].chunk \in Chunk
      BY <2>1, <3>1, HeapSlots DEF IInv, AppSlots
    <3> QED
      BY <1>1, <2>1, <3>2, <3>3 DEF IInv, Policed, TypeOK
  <2>2. mpc \notin {"find", "derive"}
    BY <1>3 DEF Asked, Handled
  <2> QED
    BY <2>1, <2>2 DEF IInv, Policed
<1> QED
  BY <1>4, <1>5, <1>6, <1>7 DEF IInv

(* What the search in the copy finds is the capability of the chunk, and   *)
(* it finds it if there is one.                                            *)
LEMMA Found ==
    ASSUME IInv, apc = "run", NEW c \in Chunk, NEW i \in Slot \union {NoSlot},
           capman_find_existing_pmp("app", c, i)
    PROVE  /\ i # NoSlot => c \in PmpChunk /\ i = HeapSlot(c)
           /\ c \in PmpChunk => i = HeapSlot(c)
<1>1. caps["app"] = kcap["app"] /\ ~ Waiting
  BY DEF IInv, AppCopy, Waiting
<1>2. ASSUME i # NoSlot PROVE c \in PmpChunk /\ i = HeapSlot(c)
  <2>1. i \in Slot /\ kcap["app"][i].type = "pmp" /\ SharesEnd(kcap["app"][i], c)
    BY <1>1, <1>2 DEF capman_find_existing_pmp, SharesEnd
  <2>2. PICK d \in PmpChunk : i = HeapSlot(d) /\ kcap["app"][i].chunk = d /\ d \in Chunk
    BY <2>1, HeapSlots DEF IInv, AppSlots
  <2>3. c = d
    BY <2>1, <2>2, S3kAssumption DEF SharesEnd, Chunk
  <2> QED
    BY <2>2, <2>3
<1>3. ASSUME c \in PmpChunk PROVE i # NoSlot
  <2>1. IsPmpOf(kcap["app"][HeapSlot(c)], c) /\ HeapSlot(c) \in Slot
    BY <1>1, <1>3, HeapSlots DEF IInv, Custody, AppSlots
  <2>2. SharesEnd(caps["app"][HeapSlot(c)], c)
    BY <1>1, <2>1 DEF SharesEnd, IsPmpOf
  <2> QED
    BY <2>1, <2>2, Slots DEF capman_find_existing_pmp
<1> QED
  BY <1>2, <1>3

LEMMA Prepared ==
    ASSUME IInv, apc = "run", NEW c \in Chunk, NEW sig, NEW rwx, PrepareRequest(c, sig, rwx),
           (rwx = RX /\ sig = c) \/ rwx = RW
    PROVE  RequestForm'
<1>1. idx' # NoSlot => c \in PmpChunk /\ idx' = HeapSlot(c)
  BY Found DEF PrepareRequest
<1>2. buf'.op = 2 /\ buf'.rwx = rwx /\ buf'.sig = sig
  BY DEF PrepareRequest
<1>3. RW # RX
  BY DEF RW, RX
<1> QED
  BY <1>1, <1>2, <1>3 DEF RequestForm

LEMMA AppFaults ==
    IInv /\ TypeOK' /\ (AFetchFault \/ ALoadFault \/ AStackFault \/ AStoreFault)
        /\ UNCHANGED monVars => IInv'
<1> SUFFICES ASSUME IInv, TypeOK', AFetchFault \/ ALoadFault \/ AStackFault \/ AStoreFault,
                    UNCHANGED monVars
             PROVE  IInv'
  OBVIOUS
<1> USE DEF monVars, kernelVars, AppGoto
<1>1. /\ apc = "run" /\ UNCHANGED <<kcap, chan, mem, caps>>
      /\ \/ apc' = "soft_send"
         \/ /\ apc' = "req_send"
            /\ \E c \in Chunk : PrepareRequest(c, c, RX) \/ PrepareRequest(c, NoChunk, RW)
  BY DEF AFetchFault, FetchFault, ALoadFault, AStackFault, StackFault, AStoreFault, StoreFault, SoftReset, PrepareRequest
<1>2. CASE apc' = "soft_send"
  BY <1>1, <1>2, AppQuiet
<1>3. CASE /\ apc' = "req_send"
           /\ \E c \in Chunk : PrepareRequest(c, c, RX) \/ PrepareRequest(c, NoChunk, RW)
  <2>1. RequestForm'
    BY <1>1, <1>3, Prepared
  <2> USE <1>1, <1>3 DEF Waiting, Asked, Delivered, Handled
  <2>2. Channels' /\ AppSlots' /\ MonSlots'
    BY DEF IInv, Channels, AppSlots, MonSlots
  <2>3. AppCopy' /\ Custody' /\ Policed'
    BY DEF IInv, AppCopy, Custody, MonPmp, Policed
  <2>4. Work' /\ MonCopy' /\ AnswerTrue'
    BY DEF IInv, Work, MonCopy, AnswerTrue
  <2> QED
    BY <2>1, <2>2, <2>3, <2>4 DEF IInv
<1> QED
  BY <1>1, <1>2, <1>3

(* The request reaches the monitor with the capability or not at all. *)
LEMMA AppRequest == IInv /\ TypeOK' /\ AReqSend /\ UNCHANGED monVars => IInv'
<1> SUFFICES ASSUME IInv, TypeOK', AReqSend, UNCHANGED monVars PROVE IInv'
  OBVIOUS
<1> USE DEF monVars, AppGoto
<1>0. /\ "mon" \in Proc /\ "app" \in Proc /\ RecvSlot \in Slot
      /\ apc = "req_send" /\ apc' = "req_recv" /\ buf.op = 2 /\ Send("app", "mon", buf, idx)
      /\ mem' = mem /\ caps' = caps /\ buf' = buf /\ idx' = idx
      /\ caps["app"] = kcap["app"] /\ chan["app"].st = "idle" /\ idx \in Slot \union {NoSlot}
  BY Slots DEF AReqSend, IInv, TypeOK, Endpoint, Channels, RequestForm, AppCopy, Proc
<1>1. /\ ~ Waiting /\ ~ Asked /\ ~ Handled
      /\ \A i \in Slot : kcap["mon"][i].type # "pmp"
      /\ \A c \in PmpChunk : IsPmpOf(kcap["app"][HeapSlot(c)], c)
      /\ idx \in Slot => \E c \in PmpChunk : idx = HeapSlot(c)
  BY <1>0, Slots DEF IInv, Work, Waiting, Asked, Custody, AppSlots, RequestForm
<1>2. kcap["mon"][RecvSlot] = NoCap /\ NoCap.type = "none" /\ NoCap \in Cap
  BY <1>0, <1>1, CapTyped DEF IInv, MonSlots, NoCap
<1>3. RequestForm'
  BY <1>0 DEF IInv, RequestForm
<1>4. CASE chan["mon"].st # "wait" /\ UNCHANGED <<chan, kcap>>
  <2> USE <1>0, <1>1, <1>4 DEF Waiting, Asked, Delivered, Handled
  <2>1. Channels' /\ AppSlots' /\ MonSlots'
    BY DEF IInv, Channels, AppSlots, MonSlots
  <2>2. AppCopy' /\ Custody' /\ Policed'
    BY DEF IInv, AppCopy, AppSlots, Custody, MonPmp, Policed, IsPmpOf
  <2>3. Work' /\ MonCopy' /\ AnswerTrue'
    BY DEF IInv, Work, MonCopy, AnswerTrue
  <2> QED
    BY <1>3, <2>1, <2>2, <2>3 DEF IInv
<1>5. CASE /\ chan["mon"].st = "wait"
           /\ chan' = [chan EXCEPT !["mon"] = [st |-> "got", slot |-> chan["mon"].slot, msg |-> buf]]
           /\ kcap' = Transfer("app", idx, "mon", chan["mon"].slot)
  <2>1. /\ chan'["app"] = chan["app"] /\ chan'["mon"].st = "got" /\ chan'["mon"].msg = buf
        /\ chan'["mon"].slot = chan["mon"].slot
        /\ mpc \in {"setup_got", "loop_got"}
        /\ chan["mon"].slot = IF mpc = "loop_got" THEN RecvSlot ELSE NoSlot
    BY <1>0, <1>5 DEF IInv, Channels, TypeOK
  <2>2. Waiting' /\ ~ Handled' /\ (Asked' => mpc = "loop_got")
    BY <1>0, <2>1 DEF Waiting, Asked, Delivered, Handled
  <2>3. Channels'
    BY <1>0, <2>1 DEF IInv, Channels
  <2>4. MonCopy' /\ AnswerTrue'
    BY <1>0, <2>1 DEF MonCopy, AnswerTrue
  <2>5. CASE idx \in Slot /\ mpc = "loop_got"
    <3>1. PICK c \in PmpChunk : idx = HeapSlot(c)
      BY <1>1, <2>5
    <3> DEFINE cap == kcap["app"][idx]
    <3>2. IsPmpOf(cap, c) /\ cap # NoCap /\ cap = caps["app"][idx]
      BY <1>0, <1>1, <1>2, <3>1 DEF IsPmpOf
    <3>3. /\ \A s \in Slot : kcap'["app"][s] = IF s = idx THEN NoCap ELSE kcap["app"][s]
          /\ \A s \in Slot : kcap'["mon"][s] = IF s = RecvSlot THEN cap ELSE kcap["mon"][s]
      BY <1>0, <1>2, <1>5, <2>1, <2>5, <3>2, Transferred DEF IInv
    <3> HIDE DEF cap
    <3>4. kcap'["app"][idx] = NoCap /\ kcap'["mon"][RecvSlot] = cap
      BY <1>0, <2>5, <3>3
    <3>5. AppSlots'
      BY <1>2, <3>1, <3>2, <3>3, HeapSlots DEF IInv, AppSlots
    <3>6. MonSlots'
      BY <1>0, <1>1, <2>1, <2>5, <3>2, <3>3, <3>4 DEF IInv, MonSlots, IsPmpOf
    <3>7. AppCopy'
      BY <1>0, <2>5, <3>1, <3>2, <3>3, HeapSlots DEF AppCopy
    <3>8. Custody'
      BY <1>0, <1>1, <1>2, <2>1, <2>2, <2>5, <3>1, <3>2, <3>3, <3>4, HeapSlots
         DEF Custody, MonPmp, IsPmpOf
    <3>9. Work'
      BY <1>0, <2>1, <2>2, <2>5, <3>2, <3>4 DEF Work, Asked, Handled
    <3>10. Policed'
      <4>1. \A p \in Proc, s \in Slot :
               kcap'[p][s].type = "pmp" => \E q \in Proc, t \in Slot : kcap'[p][s] = kcap[q][t]
        BY <1>0, <1>2, <2>5, <3>3 DEF Proc, cap
      <4> QED
        BY <1>0, <2>1, <4>1 DEF IInv, Policed
    <3> QED
      BY <1>3, <2>3, <2>4, <3>5, <3>6, <3>7, <3>8, <3>9, <3>10 DEF IInv
  <2>6. CASE ~ (idx \in Slot /\ mpc = "loop_got")
    <3>1. kcap' = kcap
      BY <1>5, <2>1, <2>6, Slots DEF Transfer
    <3> USE <1>0, <1>1, <2>1, <2>2, <2>6, <3>1
    <3>2. AppSlots' /\ MonSlots' /\ AppCopy'
      BY DEF IInv, AppSlots, MonSlots, AppCopy
    <3>3. Custody' /\ Policed'
      BY <1>2 DEF Custody, IInv, Policed, IsPmpOf
    <3>4. Work'
      BY DEF Work, Asked, Handled
    <3> QED
      BY <1>3, <2>3, <2>4, <3>2, <3>3, <3>4 DEF IInv
  <2> QED
    BY <2>5, <2>6
<1> QED
  BY <1>0, <1>4, <1>5 DEF Send

LEMMA AppRequestRecv == IInv /\ TypeOK' /\ AReqRecv /\ UNCHANGED monVars => IInv'
<1> SUFFICES ASSUME IInv, TypeOK', AReqRecv, UNCHANGED monVars PROVE IInv'
  OBVIOUS
<1> USE DEF AReqRecv, Recv, Status, monVars, AppGoto, Waiting, Asked, Delivered, Handled
<1>1. Channels'
  BY DEF IInv, TypeOK, Proc, Channels
<1>2. chan'["mon"] = chan["mon"] /\ chan'["app"].st = "wait"
  BY DEF IInv, TypeOK, Proc
<1>3. AppSlots' /\ MonSlots' /\ RequestForm' /\ AppCopy'
  BY <1>2 DEF IInv, AppSlots, MonSlots, RequestForm, AppCopy
<1>4. Custody' /\ Work'
  BY <1>2 DEF IInv, Custody, MonPmp, Work
<1>5. MonCopy' /\ Policed' /\ AnswerTrue'
  BY <1>2 DEF IInv, MonCopy, Policed, AnswerTrue
<1> QED
  BY <1>1, <1>3, <1>4, <1>5 DEF IInv

(* With the answer the app no longer waits: its table is complete again.   *)
LEMMA AppAnswered == IInv /\ TypeOK' /\ AReqGot /\ UNCHANGED monVars => IInv'
<1> SUFFICES ASSUME IInv, TypeOK', AReqGot, UNCHANGED monVars PROVE IInv'
  OBVIOUS
<1> USE DEF AReqGot, Received, capman_update, monVars, AppGoto, Waiting, Asked, Delivered, Handled
<1>1. /\ chan'["mon"] = chan["mon"] /\ chan'["app"] = Idle /\ kcap' = kcap
      /\ caps'["mon"] = caps["mon"] /\ caps'["app"] = kcap["app"] /\ Idle.st = "idle"
      /\ apc = "req_got" /\ apc' \in {"ok_send", "soft_send"} /\ chan["app"].st = "got"
  BY DEF IInv, TypeOK, Table, Proc, Idle
<1>2. Channels' /\ AppSlots' /\ MonSlots' /\ RequestForm' /\ AppCopy'
  BY <1>1 DEF IInv, Channels, AppSlots, MonSlots, RequestForm, AppCopy
<1>3. Custody' /\ Work'
  BY <1>1 DEF IInv, Custody, MonPmp, Work
<1>4. MonCopy' /\ Policed' /\ AnswerTrue'
  BY <1>1 DEF IInv, MonCopy, Policed, AnswerTrue
<1> QED
  BY <1>2, <1>3, <1>4 DEF IInv

-----------------------------------------------------------------------------
LEMMA AppStepSafe == IInv /\ TypeOK' /\ AppNext /\ UNCHANGED monVars => IInv'
<1> SUFFICES ASSUME IInv, TypeOK', AppNext, UNCHANGED monVars PROVE IInv'
  OBVIOUS
<1>1. CASE \/ ASetupSend \/ AOkSend \/ ASoftSend \/ AHardSend \/ AHardOkSend \/ AEndSend
  BY <1>1, AppStatus
     DEF ASetupSend, AOkSend, ASoftSend, AHardSend, AHardOkSend, AEndSend, AppPc
<1>2. CASE ASetup
  <2>1. caps'["mon"] = caps["mon"] /\ caps'["app"] = kcap["app"]
    BY <1>2 DEF ASetup, capman_update, IInv, TypeOK, Table, Proc
  <2> QED
    BY <1>2, <2>1, AppQuiet DEF ASetup, kernelVars, AppGoto
<1>3. CASE AAlloc \/ AFree \/ AFinish \/ AOtherFault \/ AYield
  BY <1>3, AppQuiet DEF AAlloc, AllocAt, AFree, FreeAt, AFinish, AOtherFault, AYield, kernelVars, appVars, AppGoto
<1> QED
  BY <1>1, <1>2, <1>3, AppWrite, AppFaults, AppRequest, AppRequestRecv, AppAnswered
     DEF AppNext, AppInput, AppFault, AppStep

LEMMA MonStepSafe == IInv /\ TypeOK' /\ MonNext /\ UNCHANGED appVars => IInv'
BY MonQuiet, MonReceive, MonRequest, MonVerify, MonFind, MonDerive, MonDelete, MonMove, MonReply
   DEF MonNext

LEMMA InitSafe == Init => IInv
<1> SUFFICES ASSUME Init PROVE IInv
  OBVIOUS
<1>1. TypeOK
  BY InitTyped
<1>0. PICK taken \in Takens :
         /\ kcap = [p \in Proc |-> IF p = "mon" THEN MonTable(taken) ELSE AppTable]
         /\ caps = [p \in Proc |-> IF p = "mon" THEN MonTable(taken) ELSE [i \in Slot |-> NoCap]]
  BY DEF Init
<1> DEFINE First == MonTable(taken)
<1>2. /\ kcap["mon"] = First /\ caps["mon"] = First /\ kcap["app"] = AppTable
      /\ mpc = "resume" /\ apc = "setup" /\ chan["mon"].st = "idle" /\ chan["app"].st = "idle"
  BY <1>0 DEF Init, MonInit, AppInit, Proc, Idle
<1>3. ASSUME NEW i \in Slot
      PROVE  /\ AppTable[i].type = "pmp" =>
                  \E c \in PmpChunk : i = HeapSlot(c) /\ AppTable[i] = Pmp(c, R)
             /\ First[i].type # "pmp" /\ (First[i].type = "none" => First[i] = NoCap)
  BY DEF AppTable, MonTable, OtherCap, MemoryCap, NoCap
<1>4. ASSUME NEW c \in PmpChunk PROVE AppTable[HeapSlot(c)] = Pmp(c, R)
  <2>1. (CHOOSE d \in PmpChunk : HeapSlot(d) = HeapSlot(c)) = c
    BY HeapSlots
  <2> QED
    BY <2>1, HeapSlots DEF AppTable
<1>5. First[RecvSlot] = NoCap
  BY Slots, SystemAssumption DEF MonTable
<1> HIDE DEF First
<1>6. \A c \in PmpChunk : Pmp(c, R).type = "pmp" /\ Pmp(c, R).chunk = c /\ Pmp(c, R).rwx = R
  BY DEF Pmp
<1>7. "X" \notin R /\ NoCap.type = "none"
  BY DEF R, NoCap
<1>8. Channels /\ RequestForm /\ AppCopy /\ MonCopy /\ AnswerTrue
  BY <1>2 DEF Channels, RequestForm, AppCopy, MonCopy, AnswerTrue, Waiting
<1>9. AppSlots /\ MonSlots
  BY <1>2, <1>3, <1>4, <1>5, <1>6 DEF AppSlots, MonSlots, IsPmpOf
<1>10. Custody /\ Work
  BY <1>2, <1>3, <1>4, <1>6, <1>7 DEF Custody, Work, Asked, Delivered, Handled
<1>11. Policed
  BY <1>2, <1>3, <1>6, <1>7 DEF Policed, Proc
<1> QED
  BY <1>1, <1>8, <1>9, <1>10, <1>11 DEF IInv

LEMMA StepSafe == IInv /\ [Next]_vars => IInv'
<1>1. IInv /\ [Next]_vars => TypeOK'
  BY StepTyped DEF IInv
<1>2. IInv /\ UNCHANGED vars => IInv'
  <2> SUFFICES ASSUME IInv, UNCHANGED vars PROVE IInv'
    OBVIOUS
  <2>1. TypeOK' /\ UNCHANGED monVars /\ UNCHANGED <<kernelVars, caps, appVars>>
    BY <1>1 DEF vars
  <2> USE <2>1 DEF kernelVars, monVars, appVars, Waiting, Asked, Delivered, Handled
  <2>2. Channels' /\ AppSlots' /\ MonSlots' /\ RequestForm'
    BY DEF IInv, Channels, AppSlots, MonSlots, RequestForm
  <2>3. AppCopy' /\ Custody' /\ Policed'
    BY DEF IInv, AppCopy, Custody, MonPmp, Policed
  <2>4. Work' /\ MonCopy' /\ AnswerTrue'
    BY DEF IInv, Work, MonCopy, AnswerTrue
  <2> QED
    BY <2>1, <2>2, <2>3, <2>4 DEF IInv
<1> QED
  BY <1>1, <1>2, MonStepSafe, AppStepSafe DEF Next

LEMMA Invariance == Spec => []IInv
BY InitSafe, StepSafe, PTL DEF Spec
-----------------------------------------------------------------------------
(* What the invariant says of the properties. *)
LEMMA AppRight ==
    ASSUME IInv, NEW c, NEW r, r \in Rights("app", c)
    PROVE  c \in PmpChunk /\ IsPmpOf(kcap["app"][HeapSlot(c)], c) /\ r \in kcap["app"][HeapSlot(c)].rwx
<1>1. PICK j \in Slot : IsPmpOf(kcap["app"][j], c) /\ r \in kcap["app"][j].rwx
  BY DEF Rights, IsPmpOf
<1> QED
  BY <1>1 DEF IInv, AppSlots, IsPmpOf

LEMMA CodeIntegrityHolds == IInv => CodeIntegrity
<1> SUFFICES ASSUME IInv, NEW c \in Chunk, "X" \in Rights("app", c) PROVE mem[c] \in Signed
  BY DEF CodeIntegrity
<1> QED
  BY AppRight, HeapSlots DEF IInv, Policed, IsPmpOf, Proc

LEMMA WxorXHolds == IInv => WxorX
<1> SUFFICES ASSUME IInv, NEW c \in Chunk, "W" \in Rights("app", c), "X" \in Rights("app", c)
             PROVE  FALSE
  BY DEF WxorX
<1>1. /\ c \in PmpChunk /\ IsPmpOf(kcap["app"][HeapSlot(c)], c)
      /\ {"W", "X"} \subseteq kcap["app"][HeapSlot(c)].rwx
  BY AppRight
<1>2. kcap["app"][HeapSlot(c)].rwx \in {R, RW, RX}
  BY <1>1, HeapSlots DEF IInv, Policed, IsPmpOf, Proc
<1> QED
  BY <1>1, <1>2 DEF R, RW, RX

LEMMA CopyFreshHolds == IInv => CopyFresh
BY DEF IInv, MonCopy, AppCopy, CopyFresh

LEMMA CapConservedHolds == IInv => CapConserved
<1> SUFFICES ASSUME IInv, NEW c \in PmpChunk
             PROVE  \/ \E h \in Holders(c) : Holders(c) = {h}
                    \/ mpc = "delete" /\ Holders(c) = {<<"mon", RecvSlot>>, <<"mon", tidx>>}
  BY DEF CapConserved
<1> DEFINE Held(p, i) == IsPmpOf(kcap[p][i], c)
<1>1. Holders(c) = {<<"app", i>> : i \in {s \in Slot : Held("app", s)}}
                   \union {<<"mon", i>> : i \in {s \in Slot : Held("mon", s)}}
  BY DEF Holders, Proc
<1>2. \A i \in Slot : Held("app", i) => i = HeapSlot(c)
  BY DEF IInv, AppSlots, IsPmpOf
<1>3. HeapSlot(c) \in Slot /\ RecvSlot \in Slot
  BY HeapSlots, Slots
<1>4. CASE kcap["app"][HeapSlot(c)] # NoCap
  <2>1. Held("app", HeapSlot(c))
    BY <1>4 DEF IInv, AppSlots
  <2>2. \A i \in Slot : ~ Held("mon", i)
    BY <1>4 DEF IInv, Custody, IsPmpOf
  <2> HIDE DEF Held
  <2>3. Holders(c) = {<<"app", HeapSlot(c)>>}
    BY <1>1, <1>2, <1>3, <2>1, <2>2
  <2> QED
    BY <2>3
<1>5. CASE kcap["app"][HeapSlot(c)] = NoCap
  <2>1. \A i \in Slot : ~ Held("app", i)
    BY <1>2, <1>5 DEF NoCap, IsPmpOf
  <2>2. IsPmpOf(MonPmp, c) /\ idx = HeapSlot(c)
    BY <1>5 DEF IInv, Custody
  <2>3. \A i \in Slot : Held("mon", i) => i = RecvSlot \/ (mpc \in {"delete", "move"} /\ i = tidx)
    BY DEF IInv, MonSlots, IsPmpOf
  <2>4. CASE mpc = "move"
    <3>1. tidx \in Slot /\ Held("mon", tidx) /\ ~ Held("mon", RecvSlot)
      BY <2>2, <2>4 DEF IInv, TypeOK, MonSlots, MonPmp, NoCap, IsPmpOf
    <3> HIDE DEF Held
    <3>2. Holders(c) = {<<"mon", tidx>>}
      BY <1>1, <2>1, <2>3, <3>1
    <3> QED
      BY <3>2
  <2>5. CASE mpc = "delete"
    <3>1. tidx \in Slot /\ Held("mon", RecvSlot)
      BY <2>2, <2>5 DEF IInv, TypeOK, MonPmp
    <3>2. Held("mon", tidx)
      BY <2>2, <2>5, <3>1, HeapSlots DEF IInv, MonSlots, Custody, IsPmpOf
    <3> HIDE DEF Held
    <3> QED
      BY <1>1, <1>3, <2>1, <2>3, <2>5, <3>1, <3>2
  <2>6. CASE mpc \notin {"delete", "move"}
    <3>1. Held("mon", RecvSlot)
      BY <2>2, <2>6 DEF MonPmp
    <3> HIDE DEF Held
    <3>2. Holders(c) = {<<"mon", RecvSlot>>}
      BY <1>1, <1>3, <2>1, <2>3, <2>6, <3>1
    <3> QED
      BY <3>2
  <2> QED
    BY <2>4, <2>5, <2>6
<1> QED
  BY <1>4, <1>5

(* Whatever the app can execute in the heap has a valid signature: nobody  *)
(* writes to it after the check of monitor.c:310-331.                      *)
THEOREM CodeIsSigned == Spec => []CodeIntegrity
BY Invariance, CodeIntegrityHolds, PTL

(* The heap is never writable and executable at once (monitor.c:301).      *)
THEOREM WriteXorExecute == Spec => []WxorX
BY Invariance, WxorXHolds, PTL

(* No message, lost or delivered, loses or duplicates a capability of the  *)
(* heap, and neither does a replacement that fails halfway.                *)
THEOREM CapabilitiesConserved == Spec => []CapConserved
BY Invariance, CapConservedHolds, PTL

(* The decisions of both processes are made from a fresh copy.             *)
THEOREM CopiesFresh == Spec => []CopyFresh
BY Invariance, CopyFreshHolds, PTL

(* An answer tells the app what has happened to its capability.            *)
THEOREM AnswersTrue == Spec => []AnswerTrue
BY Invariance, PTL DEF IInv

-----------------------------------------------------------------------------
(* When sends wait for their receiver, the monitor keeps a capability only *)
(* as long as it works on the request it came with.                        *)
Returned == Waits /\ (\E i \in Slot : kcap["mon"][i].type = "pmp") => Asked

LEMMA ReturnedMon == IInv /\ IInv' /\ Returned /\ MonNext /\ UNCHANGED appVars => Returned'
<1> SUFFICES ASSUME IInv, IInv', Returned, MonNext, UNCHANGED appVars, Waits,
                    NEW i \in Slot, kcap'["mon"][i].type = "pmp"
             PROVE  Asked'
  BY DEF Returned
<1> USE DEF MonGoto, Answer, appVars
<1>1. CASE MRequest \/ MVerify \/ MFind \/ MDerive \/ MDelete \/ MMove
  BY <1>1 DEF MRequest, MVerify, MFind, MDerive, MDelete, MMove, Asked, Handled
<1>2. CASE MReply
  <2>1. i = RecvSlot
    BY <1>2, Slots DEF MReply, IInv, MonSlots
  <2>2. PICK c \in PmpChunk : idx = HeapSlot(c) /\ kcap'["app"][HeapSlot(c)] = NoCap
    BY Slots DEF IInv, Custody
  <2>3. ~ Waiting'
    BY <1>2 DEF MReply, Send, Waiting, IInv, TypeOK, Proc
  <2> QED
    BY <2>3 DEF IInv, Custody
<1>3. CASE MResume \/ MSetupRecv \/ MSetupGot \/ MYield \/ MLoopRecv \/ MLoopGot \/ MUpdate
  <2>1. kcap' = kcap
    BY <1>3 DEF MResume, MSetupRecv, MSetupGot, MYield, MLoopRecv, MLoopGot, MUpdate, Recv, Received,
                kernelVars
  <2>2. Asked
    BY <2>1 DEF Returned
  <2>3. mpc = "loop_got" /\ chan["mon"].msg.op = 2 /\ MLoopGot
    BY <1>3, <2>2 DEF MResume, MSetupRecv, MSetupGot, MYield, MLoopRecv, MLoopGot, MUpdate, Asked, Delivered,
                     Handled
  <2> QED
    BY <2>3 DEF MLoopGot, Asked, Handled
<1> QED
  BY <1>1, <1>2, <1>3 DEF MonNext

LEMMA ReturnedApp == IInv /\ IInv' /\ Returned /\ AppNext /\ UNCHANGED monVars => Returned'
<1> SUFFICES ASSUME IInv, IInv', Returned, AppNext, UNCHANGED monVars, Waits,
                    NEW i \in Slot, kcap'["mon"][i].type = "pmp"
             PROVE  Asked'
  BY DEF Returned
<1> USE DEF monVars, AppGoto
<1>0. Waiting'
  BY DEF IInv, Custody
<1>1. CASE AReqSend
  <2>1. ~ Waiting /\ kcap["mon"][i].type # "pmp"
    BY <1>1 DEF AReqSend, Waiting, IInv, Custody
  <2>2. /\ chan["mon"].st = "wait" /\ chan["mon"].slot \in Slot
        /\ chan' = [chan EXCEPT !["mon"] = [st |-> "got", slot |-> chan["mon"].slot, msg |-> buf]]
    BY <1>1, <2>1 DEF AReqSend, Send, Transfer
  <2>3. mpc = "loop_got" /\ buf.op = 2
    BY <1>1, <2>2, Slots DEF AReqSend, IInv, Channels, RequestForm
  <2> QED
    BY <2>2, <2>3 DEF Asked, Delivered, IInv, TypeOK, Proc
<1>2. CASE AReqRecv
  <2>1. kcap' = kcap /\ chan'["mon"] = chan["mon"]
    BY <1>2 DEF AReqRecv, Recv, IInv, TypeOK, Proc
  <2> QED
    BY <2>1 DEF Returned, Asked, Delivered, Handled
<1>3. CASE ~ AReqSend /\ ~ AReqRecv
  <2>1. CASE ASetupSend \/ AOkSend \/ ASoftSend \/ AHardSend \/ AHardOkSend \/ AEndSend \/ AReqGot
    BY <1>0, <2>1 DEF ASetupSend, AOkSend, ASoftSend, AHardSend, AHardOkSend, AEndSend, AReqGot,
                      SendStatus, Waiting
  <2>2. CASE ASetup \/ AAlloc \/ AFree \/ AWrite \/ AFinish \/ AYield \/ AOtherFault
    BY <1>0, <2>2 DEF ASetup, AAlloc, AllocAt, AFree, FreeAt, AWrite, WriteAt, AFinish, AYield, AOtherFault, kernelVars,
                      appVars, Waiting
  <2>3. CASE AFetchFault \/ ALoadFault \/ AStackFault \/ AStoreFault
    BY <1>0, <2>3 DEF AFetchFault, FetchFault, ALoadFault, AStackFault, StackFault, AStoreFault,
                      StoreFault, SoftReset, PrepareRequest, Waiting
  <2> QED
    BY <1>3, <2>1, <2>2, <2>3 DEF AppNext, AppInput, AppFault, AppStep
<1> QED
  BY <1>1, <1>2, <1>3

LEMMA ReturnedAlways == Spec => []Returned
<1>1. Init => Returned
  <2> SUFFICES ASSUME Init PROVE Returned
    OBVIOUS
  <2>1. IInv /\ ~ Waiting
    BY InitSafe DEF Init, AppInit, Waiting
  <2> QED
    BY <2>1 DEF Returned, IInv, Custody
<1>2. IInv /\ IInv' /\ Returned /\ [Next]_vars => Returned'
  <2>1. Returned /\ UNCHANGED vars => Returned'
    BY DEF vars, kernelVars, monVars, Returned, Asked, Delivered, Handled
  <2> QED
    BY <2>1, ReturnedMon, ReturnedApp DEF Next
<1> QED
  BY <1>1, <1>2, Invariance, PTL DEF Spec

(* With sends that wait, nothing is left in RecvSlot that would refuse the *)
(* capability of the next request (monitor.c:265).                         *)
THEOREM SlotAlwaysReady == Spec => []SlotReady
<1>1. IInv /\ Returned => SlotReady
  <2> SUFFICES ASSUME IInv, Returned, Waits, chan["mon"].st = "wait"
               PROVE  kcap["mon"][RecvSlot] = NoCap
    BY DEF SlotReady
  <2>1. ~ Asked
    BY DEF IInv, Channels, Asked, Delivered, Handled
  <2> QED
    BY <2>1, Slots DEF IInv, Returned, MonSlots
<1> QED
  BY <1>1, ReturnedAlways, Invariance, PTL

-----------------------------------------------------------------------------
(* From the check of trap.c:116 to the grant the chunk stays allocated.    *)
Checked == apc \in {"req_send", "req_recv", "req_got"} /\ buf.rwx = RX => occupied[buf.sig]

(* A refusal returns the old capability, which may be executable while its *)
(* chunk has been freed.  So only requests for execution may be refused    *)
(* then: who replaced one capability by an executable one had room for the *)
(* replacement, and has it for every other.                                *)
ExecCap(cap) == cap.type = "pmp" /\ "X" \in cap.rwx
HasRoom ==
    \E s \in Slot \ {RecvSlot} :
       kcap["mon"][s] = NoCap \/ (mpc \in {"delete", "move"} /\ s = tidx)
Replaceable == (\E p \in Proc, s \in Slot : ExecCap(kcap[p][s])) => HasRoom
Source == \A s \in Slot : kcap["mon"][s].type = "memory" <=> s = MemSlot
Refused ==
    /\ mpc = "verify" => recv_buf.rwx # RW
    /\ mpc \in {"reply", "reply_err"} /\ recv_buf.op # 0 /\ ExecCap(kcap["mon"][RecvSlot])
          => recv_buf.rwx # RW

XInv == Checked /\ Source /\ Replaceable /\ Refused

LEMMA NothingNew ==
    ASSUME TypeOK, NEW p \in Proc, NEW q \in Proc, p # q, NEW m, NEW i \in Slot \union {NoSlot},
           Send(p, q, m, i)
    PROVE  /\ \A r \in Proc, s \in Slot :
                 ExecCap(kcap'[r][s]) => \E o \in Proc, t \in Slot : ExecCap(kcap[o][t])
           /\ \A s \in Slot : s # (IF p = "mon" THEN i ELSE chan["mon"].slot)
                 => kcap'["mon"][s] = kcap["mon"][s]
<1>1. CASE kcap' = kcap
  BY <1>1
<1>2. CASE kcap' # kcap
  <2>1. /\ i \in Slot /\ chan[q].slot \in Slot /\ kcap[p][i] # NoCap
        /\ kcap[q][chan[q].slot] = NoCap /\ kcap' = Transfer(p, i, q, chan[q].slot)
    BY <1>2 DEF Send, Transfer
  <2>2. /\ \A s \in Slot : kcap'[p][s] = IF s = i THEN NoCap ELSE kcap[p][s]
        /\ \A s \in Slot : kcap'[q][s] = IF s = chan[q].slot THEN kcap[p][i] ELSE kcap[q][s]
    BY <2>1, Transferred
  <2>3. ~ ExecCap(NoCap)
    BY DEF ExecCap, NoCap
  <2> QED
    BY <2>1, <2>2, <2>3 DEF Proc
<1> QED
  BY <1>1, <1>2

LEMMA RoomKept ==
    ASSUME IInv', Source, Replaceable,
           \A s \in Slot \ {RecvSlot} : kcap'["mon"][s] = kcap["mon"][s],
           \A r \in Proc, s \in Slot :
              ExecCap(kcap'[r][s]) => \E o \in Proc, t \in Slot : ExecCap(kcap[o][t]),
           mpc \in {"delete", "move"} => mpc' \in {"delete", "move"} /\ tidx' = tidx
    PROVE  Source' /\ Replaceable'
<1>1. kcap'["mon"][RecvSlot].type # "memory" /\ RecvSlot # MemSlot
  BY Slots, SystemAssumption DEF IInv, MonSlots, NoCap
<1>2. Source'
  BY <1>1 DEF Source
<1>3. HasRoom => HasRoom'
  BY DEF HasRoom
<1> QED
  BY <1>2, <1>3 DEF Replaceable

LEMMA XMonQuiet ==
    ASSUME IInv, IInv', XInv, UNCHANGED appVars,
           MResume \/ MSetupRecv \/ MSetupGot \/ MYield \/ MLoopRecv \/ MLoopGot \/ MRequest
              \/ MVerify \/ MUpdate
    PROVE  XInv'
<1> USE DEF MResume, MSetupRecv, MSetupGot, MYield, MLoopRecv, MLoopGot, MRequest, MVerify, MUpdate,
            MonGoto, Answer
<1>1. kcap' = kcap /\ mpc \notin {"delete", "move"}
  BY DEF Recv, Received, kernelVars
<1>2. Source' /\ Replaceable'
  BY <1>1, RoomKept DEF XInv
<1>3. Checked'
  BY DEF XInv, Checked, appVars
<1>4. Refused'
  <2>1. CASE MRequest
    <3>1. caps'["mon"] = kcap["mon"]
      BY <2>1 DEF capman_update, IInv, TypeOK, Table, Proc
    <3>2. recv_buf'.rwx = recv_buf.rwx
      BY <2>1 DEF IInv, TypeOK, Msg
    <3>3. mpc' = "reply" /\ ExecCap(kcap["mon"][RecvSlot]) => {"W", "X"} \subseteq recv_buf.rwx
      BY <2>1, <3>1 DEF ExecCap
    <3>4. mpc' = "verify" => "X" \in recv_buf.rwx
      BY <2>1
    <3> QED
      BY <1>1, <2>1, <3>2, <3>3, <3>4 DEF Refused, RW
  <2>2. CASE MVerify
    BY <1>1, <2>2 DEF XInv, Refused, IInv, TypeOK, Msg
  <2>3. CASE MYield
    BY <1>1, <2>3 DEF XInv, Refused, monVars
  <2>4. CASE MResume \/ MSetupRecv \/ MSetupGot \/ MLoopRecv \/ MLoopGot \/ MUpdate
    BY <2>4 DEF Refused
  <2> QED
    BY <2>1, <2>2, <2>3, <2>4
<1> QED
  BY <1>2, <1>3, <1>4 DEF XInv

(* Once a slot is found, no step of the replacement fails. *)
LEMMA ReplaceSucceeds ==
    ASSUME IInv, Source
    PROVE  /\ MDerive => mpc' = "delete" /\ recv_buf' = recv_buf /\ Source' /\ HasRoom'
           /\ MDelete => mpc' = "move" /\ recv_buf' = recv_buf /\ Source' /\ HasRoom'
           /\ MMove => mpc' = "reply" /\ recv_buf'.op = 0 /\ Source' /\ HasRoom'
<1> USE DEF MonGoto, Answer
<1>0. /\ "mon" \in Proc /\ RecvSlot \in Slot /\ kcap \in Table /\ caps \in Table
      /\ mpc \in {"derive", "delete", "move"} =>
            tidx \in Slot /\ tidx # RecvSlot /\ caps["mon"] = kcap["mon"]
  BY Slots DEF IInv, TypeOK, MonSlots, MonCopy, Proc
<1>1. ASSUME MDerive PROVE mpc' = "delete" /\ recv_buf' = recv_buf /\ Source' /\ HasRoom'
  <2> DEFINE old == kcap["mon"][RecvSlot]
             new == Pmp(old.chunk, recv_buf.rwx)
  <2>1. mpc = "derive" /\ kcap["mon"][tidx] = NoCap /\ old.type = "pmp" /\ NoCap.type = "none"
    BY <1>1 DEF MDerive, IInv, MonSlots, NoCap
  <2>2. CanDerive("mon", tidx)
    <3>1. find_memory_derive("mon", MemSlot) /\ MemSlot \in Slot /\ kcap["mon"][MemSlot].type = "memory"
      BY <1>0, <2>1, SystemAssumption DEF Source, find_memory_derive, Slot
    <3> QED
      BY <2>1, <3>1 DEF CanDerive
  <2>3. /\ capman_derive_pmp("mon", tidx, old.chunk, recv_buf.rwx)
        /\ mpc' = "delete" /\ tidx' = tidx /\ recv_buf' = recv_buf
    BY <1>0, <1>1, <2>1, <2>2 DEF MDerive
  <2>4. new \in Cap
    <3>1. old \in Cap /\ recv_buf.rwx \in SUBSET Right
      BY <1>0, Read DEF IInv, TypeOK, Msg
    <3> QED
      BY <3>1, CapTyped DEF Cap
  <2>5. \A s \in Slot : kcap'["mon"][s] = IF s = tidx THEN new ELSE kcap["mon"][s]
    BY <1>0, <2>1, <2>3, <2>4, Derived DEF IInv
  <2>6. HasRoom'
    BY <1>0, <2>1, <2>3 DEF HasRoom
  <2>7. Source'
    <3>1. new.type = "pmp" /\ tidx # MemSlot
      BY <1>0, <2>1 DEF Source, Pmp
    <3> QED
      BY <2>5, <3>1 DEF Source
  <2> QED
    BY <2>3, <2>6, <2>7
<1>2. ASSUME MDelete PROVE mpc' = "move" /\ recv_buf' = recv_buf /\ Source' /\ HasRoom'
  <2>1. mpc = "delete" /\ caps["mon"][RecvSlot] # NoCap
    BY <1>0, <1>2 DEF MDelete, IInv, MonSlots, NoCap
  <2>2. capman_delcap("mon", RecvSlot) /\ mpc' = "move" /\ tidx' = tidx /\ recv_buf' = recv_buf
    BY <1>2, <2>1 DEF MDelete
  <2>3. \A s \in Slot : kcap'["mon"][s] = IF s = RecvSlot THEN NoCap ELSE kcap["mon"][s]
    BY <1>0, <2>1, <2>2, Deleted DEF IInv
  <2>4. Source'
    BY <2>3, SystemAssumption DEF Source, NoCap
  <2>5. HasRoom'
    BY <1>0, <2>1, <2>2 DEF HasRoom
  <2> QED
    BY <2>2, <2>4, <2>5
<1>3. ASSUME MMove PROVE mpc' = "reply" /\ recv_buf'.op = 0 /\ Source' /\ HasRoom'
  <2>1. /\ mpc = "move" /\ kcap["mon"][tidx].type = "pmp" /\ kcap["mon"][RecvSlot] = NoCap
        /\ kcap["mon"][tidx] # NoCap
    BY <1>3 DEF MMove, IInv, MonSlots, NoCap
  <2>2. capman_move("mon", tidx, RecvSlot) /\ mpc' = "reply" /\ recv_buf'.op = 0
    BY <1>0, <1>3, <2>1 DEF MMove, CanMove, IInv, TypeOK, Msg
  <2>3. \A s \in Slot : kcap'["mon"][s] = IF s = tidx THEN NoCap
                                         ELSE IF s = RecvSlot THEN kcap["mon"][tidx]
                                         ELSE kcap["mon"][s]
    BY <1>0, <2>1, <2>2, Moved DEF IInv
  <2>4. Source'
    BY <1>0, <2>1, <2>3, SystemAssumption DEF Source, NoCap
  <2>5. HasRoom'
    BY <1>0, <2>1, <2>3 DEF HasRoom
  <2> QED
    BY <2>2, <2>4, <2>5
<1> QED
  BY <1>1, <1>2, <1>3

(* Where there is room for the replacement, a slot is found. *)
LEMMA XMonReplace ==
    ASSUME IInv, IInv', XInv, UNCHANGED appVars, MFind \/ MDerive \/ MDelete \/ MMove
    PROVE  XInv'
<1> USE DEF MonGoto, Answer
<1>0. /\ "mon" \in Proc /\ RecvSlot \in Slot /\ caps["mon"] = kcap["mon"]
      /\ tidx' \in Slot \union {NoSlot}
  BY Slots DEF MFind, MDerive, MDelete, MMove, IInv, TypeOK, MonCopy, Proc
<1>1. Checked'
  BY DEF XInv, Checked, appVars
<1>2. CASE MFind
  <2>1. kcap' = kcap /\ mpc = "find"
    BY <1>2 DEF MFind, kernelVars
  <2>2. Source' /\ Replaceable'
    BY <2>1, RoomKept DEF XInv
  <2>3. ASSUME ExecCap(kcap["mon"][RecvSlot]) PROVE mpc' = "derive"
    <3>1. PICK s \in Slot : kcap["mon"][s] = NoCap
      BY <1>0, <2>1, <2>3 DEF XInv, Replaceable, HasRoom
    <3>2. caps["mon"][s].type = "none"
      BY <1>0, <3>1 DEF NoCap
    <3>3. ~ capman_find_free("mon", NoSlot)
      BY <3>2, Slots DEF capman_find_free
    <3> QED
      BY <1>2, <3>3 DEF MFind
  <2>4. Refused'
    BY <1>2, <2>1, <2>3 DEF MFind, Refused
  <2> QED
    BY <1>1, <2>2, <2>4 DEF XInv
<1>3. CASE MDerive \/ MDelete \/ MMove
  <2>1. Source' /\ HasRoom' /\ (mpc' \in {"delete", "move"} \/ (mpc' = "reply" /\ recv_buf'.op = 0))
    BY <1>3, ReplaceSucceeds DEF XInv
  <2> QED
    BY <1>1, <2>1 DEF XInv, Replaceable, Refused
<1> QED
  BY <1>2, <1>3

LEMMA XMonReply == ASSUME IInv, IInv', XInv, UNCHANGED appVars, MReply PROVE XInv'
<1>1. Send("mon", "app", recv_buf, RecvSlot) /\ mpc \in {"reply", "reply_err"} /\ mpc' \in {"update", "loop"}
  BY DEF MReply, MonGoto
<1>2. /\ \A s \in Slot \ {RecvSlot} : kcap'["mon"][s] = kcap["mon"][s]
      /\ \A r \in Proc, s \in Slot :
            ExecCap(kcap'[r][s]) => \E o \in Proc, t \in Slot : ExecCap(kcap[o][t])
  BY <1>1, NothingNew, Slots DEF IInv, Proc
<1>3. Source' /\ Replaceable'
  BY <1>1, <1>2, RoomKept DEF XInv
<1>4. Checked' /\ Refused'
  BY <1>1 DEF XInv, Checked, Refused, appVars
<1> QED
  BY <1>3, <1>4 DEF XInv

(* Only a request takes a capability from the app, only an answer gives it *)
(* one.                                                                    *)
LEMMA AppTables == ASSUME IInv, AppNext, ~ AReqSend PROVE kcap' = kcap
<1>1. CASE ASetupSend \/ AOkSend \/ ASoftSend \/ AHardSend \/ AHardOkSend \/ AEndSend
  BY <1>1, StatusSent DEF ASetupSend, AOkSend, ASoftSend, AHardSend, AHardOkSend, AEndSend, SendStatus, IInv
<1>2. CASE ~ (ASetupSend \/ AOkSend \/ ASoftSend \/ AHardSend \/ AHardOkSend \/ AEndSend)
  BY <1>2 DEF AppNext, AppInput, AppFault, AppStep, ASetup, AReqRecv, AReqGot, AAlloc, AllocAt, AFree, FreeAt,
              AWrite, WriteAt, AFinish, AYield, AOtherFault, AFetchFault, FetchFault, ALoadFault, AStackFault,
              StackFault, AStoreFault, StoreFault, Recv, Received, kernelVars
<1> QED
  BY <1>1, <1>2

LEMMA MonTables == ASSUME IInv, MonNext, ~ MReply PROVE kcap'["app"] = kcap["app"]
<1>1. \A i, j, c, d : LET k == Put(kcap, "mon", i, c)
                      IN k["app"] = kcap["app"] /\ Put(k, "mon", j, d)["app"] = kcap["app"]
  BY DEF IInv, TypeOK, Table, Proc, Put
<1> QED
  BY <1>1 DEF MonNext, MResume, MSetupRecv, MSetupGot, MYield, MLoopRecv, MLoopGot, MRequest, MVerify, MFind,
              MDerive, MDelete, MMove, MUpdate, Recv, Received, kernelVars, capman_derive_pmp, capman_delcap,
              capman_move

(* A request for execution is made for an allocated chunk, and while it is *)
(* out the application does not run.                                       *)
LEMMA XApp == ASSUME IInv, IInv', XInv, AppNext, UNCHANGED monVars PROVE XInv'
<1> USE DEF AppGoto, appVars
<1>1. /\ \A s \in Slot \ {RecvSlot} : kcap'["mon"][s] = kcap["mon"][s]
      /\ \A r \in Proc, s \in Slot :
            ExecCap(kcap'[r][s]) => \E o \in Proc, t \in Slot : ExecCap(kcap[o][t])
      /\ kcap'["mon"][RecvSlot] = kcap["mon"][RecvSlot] \/ apc = "req_send"
  <2>1. CASE AReqSend
    <3>1. Send("app", "mon", buf, idx) /\ idx \in Slot \union {NoSlot} /\ apc = "req_send"
      BY <2>1 DEF AReqSend, IInv, TypeOK
    <3>2. CASE kcap' = kcap
      BY <3>1, <3>2
    <3>3. CASE kcap' # kcap
      <4>1. chan["mon"].st = "wait" /\ chan["mon"].slot \in Slot
        BY <3>1, <3>3 DEF Send, Transfer
      <4>2. chan["mon"].slot = RecvSlot
        BY <4>1, Slots DEF IInv, Channels
      <4> QED
        BY <3>1, <4>2, NothingNew DEF IInv, Proc
    <3> QED
      BY <3>2, <3>3
  <2>2. CASE ~ AReqSend
    BY <2>2, AppTables
  <2> QED
    BY <2>1, <2>2
<1>2. Source' /\ Replaceable'
  BY <1>1, RoomKept DEF XInv, monVars
<1>3. Refused'
  <2>1. apc = "req_send" => ~ (mpc \in {"verify", "reply", "reply_err"})
    BY DEF IInv, Work, Asked, Handled, Waiting
  <2> QED
    BY <1>1, <2>1 DEF XInv, Refused, monVars
<1>4. Checked'
  <2>1. CASE AFetchFault
    <3>1. PICK c \in Chunk \union {Outside} : FetchFault(c)
      BY <2>1 DEF AFetchFault
    <3>2. CASE c \in Chunk /\ occupied[c]
      BY <3>1, <3>2 DEF FetchFault, PrepareRequest, Checked
    <3>3. CASE ~ (c \in Chunk /\ occupied[c])
      BY <3>1, <3>3 DEF FetchFault, SoftReset, Checked
    <3> QED
      BY <3>2, <3>3
  <2>2. CASE AStackFault \/ AStoreFault
    <3>1. apc' = "soft_send" \/ buf'.rwx = RW
      BY <2>2 DEF AStackFault, StackFault, AStoreFault, StoreFault, SoftReset, PrepareRequest
    <3> QED
      BY <3>1 DEF Checked, RW, RX
  <2>3. CASE AReqSend \/ AReqRecv
    BY <2>3 DEF AReqSend, AReqRecv, XInv, Checked
  <2>4. CASE ~ (AFetchFault \/ AStackFault \/ AStoreFault \/ AReqSend \/ AReqRecv)
    <3>1. apc' \notin {"req_send", "req_recv", "req_got"}
      BY <2>4 DEF AppNext, AppInput, AppFault, AppStep, ASetup, ASetupSend, AOkSend, ASoftSend, AHardSend,
                  AHardOkSend, AEndSend, SendStatus, AReqGot, AAlloc, AllocAt, AFree, FreeAt,
                  AWrite, WriteAt, AFinish, AYield, AOtherFault, ALoadFault, SoftReset
    <3> QED
      BY <3>1 DEF Checked
  <2> QED
    BY <2>1, <2>2, <2>3, <2>4
<1> QED
  BY <1>2, <1>3, <1>4 DEF XInv

LEMMA XInvAlways == Spec => []XInv
<1>1. Init => XInv
  <2> SUFFICES ASSUME Init PROVE XInv
    OBVIOUS
  <2>1. PICK taken \in Takens :
           kcap = [p \in Proc |-> IF p = "mon" THEN MonTable(taken) ELSE AppTable]
    BY DEF Init
  <2>2. kcap["mon"] = MonTable(taken) /\ kcap["app"] = AppTable /\ mpc = "resume" /\ apc = "setup"
    BY <2>1 DEF Init, MonInit, AppInit, Proc
  <2>3. Source
    BY <2>2, SystemAssumption DEF Source, MonTable, MemoryCap, OtherCap, NoCap
  <2>4. \A p \in Proc, s \in Slot : ~ ExecCap(kcap[p][s])
    BY <2>2 DEF ExecCap, MonTable, AppTable, MemoryCap, OtherCap, NoCap, Pmp, R, Proc
  <2> QED
    BY <2>2, <2>3, <2>4 DEF XInv, Checked, Replaceable, Refused
<1>2. IInv /\ IInv' /\ XInv /\ [Next]_vars => XInv'
  <2>1. XInv /\ UNCHANGED vars => XInv'
    BY DEF vars, kernelVars, monVars, appVars, XInv, Checked, Source, Replaceable, HasRoom, Refused
  <2> QED
    BY <2>1, XMonQuiet, XMonReplace, XMonReply, XApp DEF Next, MonNext
<1> QED
  BY <1>1, <1>2, Invariance, PTL DEF Spec

(* What an answer makes executable is what the app has asked for, or was   *)
(* executable already and is returned by a refusal.                        *)
LEMMA GrantIsForAllocated ==
    ASSUME IInv, IInv', XInv, Next, NEW c \in Chunk,
           "X" \notin Rights("app", c), "X" \in Rights("app", c)'
    PROVE  occupied[c]
<1>1. PICK s \in Slot : kcap'["app"][s].type = "pmp" /\ kcap'["app"][s].chunk = c /\ "X" \in kcap'["app"][s].rwx
  BY DEF Rights
<1>2. c \in PmpChunk /\ s = HeapSlot(c)
  BY <1>1 DEF IInv, AppSlots
<1>3. kcap'["app"][s] # kcap["app"][s]
  BY <1>1 DEF Rights
<1>4. MReply /\ UNCHANGED appVars
  <2>1. CASE AReqSend
    <3>1. \A t \in Slot : kcap'["app"][t] = kcap["app"][t] \/ kcap'["app"][t] = NoCap
      <4>1. CASE kcap' = kcap
        BY <4>1
      <4>2. CASE kcap' # kcap
        BY <2>1, <4>2, Transferred DEF AReqSend, Send, Transfer, IInv, Proc
      <4> QED
        BY <4>1, <4>2
    <3> QED
      BY <1>1, <1>3, <3>1 DEF NoCap
  <2> QED
    BY <1>3, <2>1, AppTables, MonTables DEF Next
<1>5. /\ apc = "req_got" /\ chan'["app"].st = "got" /\ chan'["app"].msg = recv_buf
      /\ Handled /\ Waiting /\ Asked /\ mpc \in {"reply", "reply_err"}
  <2>1. Handled /\ Asked /\ mpc \in {"reply", "reply_err"} /\ Send("mon", "app", recv_buf, RecvSlot)
    BY <1>4 DEF MReply, Handled, Asked
  <2>2. chan["app"].st = "wait" /\ chan'["app"].st = "got" /\ chan'["app"].msg = recv_buf
    BY <1>3, <2>1 DEF Send, IInv, TypeOK, Proc
  <2> QED
    BY <2>1, <2>2 DEF IInv, Channels, Work
<1>6. kcap'["app"] = IF recv_buf.op = 0 THEN [caps["app"] EXCEPT ![idx] = Pmp(@.chunk, buf.rwx)] ELSE caps["app"]
  BY <1>4, <1>5 DEF IInv, AnswerTrue, MReply, appVars
<1>7. idx = s
  <2>1. idx # s => caps["app"][s] = kcap["app"][s]
    BY <1>5 DEF IInv, AppCopy
  <2> QED
    BY <1>3, <1>6, <2>1 DEF IInv, TypeOK, Table, Proc
<1>8. buf.rwx = RX => occupied[c]
  <2>1. buf.rwx = RX => buf.sig = c
    BY <1>2, <1>5, <1>7, HeapSlots, Slots DEF IInv, RequestForm
  <2> QED
    BY <1>5, <2>1 DEF XInv, Checked
<1>9. CASE recv_buf.op = 0
  <2>1. kcap'["app"][s] = Pmp(caps["app"][s].chunk, buf.rwx)
    BY <1>6, <1>7, <1>9 DEF IInv, TypeOK, Table, Proc
  <2>2. "X" \in buf.rwx
    BY <1>1, <2>1 DEF Pmp
  <2> QED
    BY <1>5, <1>8, <2>2 DEF IInv, RequestForm, RW
<1>10. CASE recv_buf.op # 0
  <2>1. kcap'["app"][s] = caps["app"][s]
    BY <1>6, <1>10
  <2>2. kcap["app"][s] = NoCap
    BY <1>3, <1>5, <1>7, <2>1 DEF IInv, AppCopy
  <2>3. IsPmpOf(kcap["mon"][RecvSlot], c)
    BY <1>2, <1>5, <2>2 DEF IInv, Custody, MonPmp
  <2>4. kcap["mon"][RecvSlot] = caps["app"][idx]
    BY <1>5, <1>10, <2>3 DEF IInv, Work, IsPmpOf
  <2>5. recv_buf.rwx # RW
    BY <1>1, <1>5, <1>7, <1>10, <2>1, <2>3, <2>4 DEF XInv, Refused, ExecCap, IsPmpOf
  <2>6. buf.rwx = RX
    BY <1>5, <2>5 DEF IInv, Work, RequestForm
  <2> QED
    BY <1>8, <2>6
<1> QED
  BY <1>9, <1>10

(* No chunk becomes executable after it has been freed: the check of       *)
(* trap.c:116 still holds when the answer arrives, and a refused request   *)
(* does not bring an old right back.                                       *)
THEOREM ExecutionNeedsAllocation == Spec => ExecOnlyAllocated
<1>1. IInv /\ IInv' /\ XInv /\ [Next]_vars =>
         [\A c \in Chunk :
             "X" \notin Rights("app", c) /\ "X" \in Rights("app", c)' => occupied[c]]_vars
  BY GrantIsForAllocated
<1> QED
  BY <1>1, XInvAlways, Invariance, PTL DEF Spec, ExecOnlyAllocated

-----------------------------------------------------------------------------
(* What the monitor has found out about a request so far is so.            *)
Justified == buf.rwx = RW \/ mem[buf.sig] \in Signed
Grantable == idx # NoSlot /\ Justified /\ HasRoom
Exact ==
    /\ mpc \in {"verify", "find", "derive", "delete", "move"} => idx # NoSlot
    /\ mpc \in {"find", "derive", "delete", "move"} => Justified
    /\ mpc \in {"derive", "delete", "move"} => HasRoom
    /\ mpc \in {"reply", "reply_err"} => (recv_buf.op = 0 <=> Grantable)
    /\ apc = "req_got" /\ chan["app"].st = "got" =>
          chan["app"].msg.rwx = buf.rwx /\ (chan["app"].msg.op = 0 <=> Grantable)

(* The request at work is the one that the app waits for.                  *)
LEMMA AtWork ==
    ASSUME IInv, Handled
    PROVE  /\ Waiting /\ recv_buf.rwx = buf.rwx /\ recv_buf.sig = buf.sig
           /\ buf.rwx \in {RW, RX} /\ (apc = "req_got" => chan["app"].st = "wait")
           /\ mpc = "request" => (kcap["mon"][RecvSlot].type = "pmp" <=> idx # NoSlot)
<1>1. Asked /\ Waiting /\ recv_buf.rwx = buf.rwx /\ recv_buf.sig = buf.sig
  BY DEF IInv, Work, Asked
<1>2. apc \in {"req_recv", "req_got"} /\ buf.rwx \in {RW, RX}
  BY <1>1 DEF Waiting, IInv, RequestForm
<1>3. apc = "req_got" => chan["app"].st = "wait"
  BY <1>1 DEF Waiting, IInv, Channels, TypeOK, Endpoint, Proc
<1>4. ASSUME kcap["mon"][RecvSlot].type = "pmp" PROVE idx # NoSlot
  BY <1>4, HeapSlots, Slots DEF IInv, Custody
<1>5. ASSUME mpc = "request", idx # NoSlot PROVE kcap["mon"][RecvSlot].type = "pmp"
  <2>1. PICK c \in PmpChunk : idx = HeapSlot(c)
    BY <1>2, <1>5 DEF IInv, RequestForm
  <2>2. kcap["app"][HeapSlot(c)] = NoCap
    BY <1>1, <2>1, HeapSlots DEF IInv, Work
  <2> QED
    BY <1>5, <2>2 DEF IInv, Custody, MonPmp, IsPmpOf
<1> QED
  BY <1>1, <1>2, <1>3, <1>4, <1>5

LEMMA ExactMonQuiet ==
    ASSUME IInv, Exact, UNCHANGED appVars,
           MResume \/ MSetupRecv \/ MSetupGot \/ MYield \/ MLoopRecv \/ MLoopGot \/ MUpdate
    PROVE  Exact'
<1>1. /\ kcap' = kcap /\ mem' = mem /\ chan'["app"] = chan["app"]
      /\ mpc' \in {"setup_recv", "setup_got", "loop", "loop_got", "request"}
      /\ mpc \notin {"delete", "move"}
  BY DEF MResume, MSetupRecv, MSetupGot, MYield, MLoopRecv, MLoopGot, MUpdate, MonGoto, Recv, Received, kernelVars,
         monVars, IInv, TypeOK, Proc
<1>2. HasRoom' <=> HasRoom
  BY <1>1 DEF HasRoom
<1> QED
  BY <1>1, <1>2 DEF Exact, Grantable, Justified, appVars

(* Each decision is taken on the ground that AnswerExact names for it.     *)
LEMMA ExactMonDecide ==
    ASSUME IInv, XInv, Exact, UNCHANGED appVars, MRequest \/ MVerify \/ MFind
    PROVE  Exact'
<1> USE DEF MonGoto, Answer
<1>1. Handled /\ UNCHANGED <<kcap, chan, mem, apc, buf, idx>>
  BY DEF MRequest, MVerify, MFind, Handled, kernelVars, appVars
<1>2. /\ recv_buf.rwx = buf.rwx /\ recv_buf.sig = buf.sig /\ buf.rwx \in {RW, RX}
      /\ ~ (apc = "req_got" /\ chan["app"].st = "got") /\ recv_buf \in Msg
      /\ mpc = "request" => (kcap["mon"][RecvSlot].type = "pmp" <=> idx # NoSlot)
  BY <1>1, AtWork DEF Waiting, IInv, TypeOK
<1>3. CASE MRequest
  <2>1. caps'["mon"] = kcap["mon"] /\ mpc = "request"
    BY <1>3 DEF MRequest, capman_update, IInv, TypeOK, Table, Proc
  <2>2. ~ ({"W", "X"} \subseteq recv_buf.rwx) /\ ("X" \notin recv_buf.rwx => buf.rwx = RW)
    BY <1>2 DEF RW, RX
  <2>3. \/ (idx = NoSlot /\ mpc' = "reply" /\ recv_buf'.op # 0)
        \/ idx # NoSlot /\ (mpc' = "verify" \/ (mpc' = "find" /\ buf.rwx = RW))
    BY <1>2, <1>3, <2>1, <2>2 DEF MRequest, Msg
  <2> QED
    BY <1>1, <1>2, <2>3 DEF Exact, Grantable, Justified
<1>4. CASE MVerify
  <2>1. mpc = "verify" /\ idx # NoSlot /\ buf.rwx # RW
    BY <1>2, <1>4 DEF MVerify, Exact, XInv, Refused
  <2>2. \/ (Justified /\ mpc' = "find")
        \/ (~ Justified /\ mpc' = "reply" /\ recv_buf'.op # 0)
    BY <1>2, <1>4, <2>1 DEF MVerify, Justified, Msg
  <2>3. Justified' <=> Justified
    BY <1>1 DEF Justified
  <2> QED
    BY <1>1, <1>2, <2>1, <2>2, <2>3 DEF Exact, Grantable
<1>5. CASE MFind
  <2>1. mpc = "find" /\ idx # NoSlot /\ Justified /\ caps["mon"] = kcap["mon"]
    BY <1>5 DEF MFind, Exact, IInv, MonCopy
  <2>2. Justified'
    BY <1>1, <2>1 DEF Justified
  <2>3. CASE mpc' = "derive"
    <3>1. tidx' \in Slot /\ caps["mon"][tidx'].type = "none"
      BY <1>5, <2>3, Slots DEF MFind, capman_find_free, NoSlot
    <3>2. kcap["mon"][tidx'] = NoCap /\ tidx' # RecvSlot
      BY <2>1, <3>1 DEF IInv, MonSlots
    <3>3. HasRoom'
      BY <1>1, <3>1, <3>2 DEF HasRoom
    <3> QED
      BY <1>1, <1>2, <2>1, <2>2, <2>3, <3>3 DEF Exact
  <2>4. CASE mpc' # "derive"
    <3>1. mpc' = "reply_err" /\ recv_buf'.op # 0 /\ capman_find_free("mon", NoSlot)
      BY <1>2, <1>5, <2>4 DEF MFind, Msg
    <3>2. \A s \in Slot : kcap["mon"][s] # NoCap
      BY <2>1, <3>1, Slots DEF capman_find_free, NoCap
    <3>3. ~ HasRoom'
      BY <1>1, <3>1, <3>2 DEF HasRoom
    <3> QED
      BY <1>1, <1>2, <3>1, <3>3 DEF Exact, Grantable
  <2> QED
    BY <2>3, <2>4
<1> QED
  BY <1>3, <1>4, <1>5

LEMMA ExactMonReplace ==
    ASSUME IInv, XInv, Exact, UNCHANGED appVars, MDerive \/ MDelete \/ MMove
    PROVE  Exact'
<1>1. /\ Handled /\ UNCHANGED <<chan, mem, apc, buf, idx>> /\ mpc \in {"derive", "delete", "move"}
  BY DEF MDerive, MDelete, MMove, Handled, appVars
<1>2. ~ (apc = "req_got" /\ chan["app"].st = "got")
  BY <1>1, AtWork DEF Waiting
<1>3. HasRoom' /\ (mpc' \in {"delete", "move"} \/ (mpc' = "reply" /\ recv_buf'.op = 0))
  BY ReplaceSucceeds DEF XInv
<1>4. idx # NoSlot /\ Justified
  BY <1>1 DEF Exact
<1>5. Justified'
  BY <1>1, <1>4 DEF Justified
<1> QED
  BY <1>1, <1>2, <1>3, <1>4, <1>5 DEF Exact, Grantable

(* The room is still there when the answer has arrived.                    *)
LEMMA ExactMonReply == ASSUME IInv, Exact, UNCHANGED appVars, MReply PROVE Exact'
<1>1. /\ Send("mon", "app", recv_buf, RecvSlot) /\ mpc \in {"reply", "reply_err"} /\ mpc' \in {"update", "loop"}
      /\ UNCHANGED <<mem, apc, buf, idx>> /\ Handled
  BY DEF MReply, MonGoto, Handled, appVars
<1>2. \A s \in Slot \ {RecvSlot} : kcap'["mon"][s] = kcap["mon"][s]
  BY <1>1, NothingNew, Slots DEF IInv, Proc
<1>3. HasRoom' <=> HasRoom
  BY <1>1, <1>2 DEF HasRoom
<1>4. apc = "req_got" => chan'["app"].msg = recv_buf
  <2>1. apc = "req_got" => chan["app"].st = "wait"
    BY <1>1, AtWork
  <2> QED
    BY <1>1, <2>1 DEF Send, IInv, TypeOK, Proc
<1>5. (recv_buf.op = 0 <=> Grantable) /\ recv_buf.rwx = buf.rwx
  BY <1>1, AtWork DEF Exact
<1>6. Grantable' <=> Grantable
  BY <1>1, <1>3 DEF Grantable, Justified
<1> QED
  BY <1>1, <1>4, <1>5, <1>6 DEF Exact

(* The application is stopped as long as its request is decided on.        *)
LEMMA ExactApp == ASSUME IInv, Exact, AppNext, UNCHANGED monVars PROVE Exact'
<1>1. CASE AReqRecv
  <2>1. kcap' = kcap /\ mem' = mem /\ buf' = buf /\ idx' = idx /\ chan'["app"].st = "wait" /\ UNCHANGED monVars
    BY <1>1 DEF AReqRecv, Recv, IInv, TypeOK, Proc
  <2>2. HasRoom' <=> HasRoom
    BY <2>1 DEF HasRoom, monVars
  <2> QED
    BY <2>1, <2>2 DEF Exact, Grantable, Justified, monVars
<1>2. CASE ~ AReqRecv
  <2>1. ~ Waiting /\ apc' # "req_got"
    BY <1>2 DEF AppNext, AppInput, AppFault, AppStep, ASetup, ASetupSend, AOkSend, ASoftSend, AHardSend, AHardOkSend,
                AEndSend, SendStatus, AReqSend, AReqGot, AAlloc, AllocAt, AFree, FreeAt, AWrite, WriteAt, AFinish,
                AYield, AOtherFault, AFetchFault, FetchFault, ALoadFault, AStackFault, StackFault, AStoreFault,
                StoreFault, PrepareRequest, SoftReset, AppGoto, Received, Waiting, appVars
  <2>2. mpc \notin {"verify", "find", "derive", "delete", "move", "reply", "reply_err"}
    BY <2>1, AtWork DEF Handled
  <2> QED
    BY <2>1, <2>2 DEF Exact, monVars
<1> QED
  BY <1>1, <1>2

LEMMA ExactAlways == Spec => []Exact
<1>1. Init => Exact
  BY DEF Init, MonInit, AppInit, Exact
<1>2. IInv /\ XInv /\ Exact /\ [Next]_vars => Exact'
  <2>1. Exact /\ UNCHANGED vars => Exact'
    BY DEF vars, kernelVars, monVars, appVars, Exact, Grantable, Justified, HasRoom
  <2> QED
    BY <2>1, ExactMonQuiet, ExactMonDecide, ExactMonReplace, ExactMonReply, ExactApp DEF Next, MonNext
<1> QED
  BY <1>1, <1>2, Invariance, XInvAlways, PTL DEF Spec

(* A request is refused for one of three reasons and for no other: no      *)
(* capability comes with it, the code is not signed, the table is full     *)
(* (monitor.c 293-345, capman_update_pmp).                                 *)
THEOREM AnswersExact == Spec => []AnswerExact
<1>1. IInv /\ Exact => AnswerExact
  <2> SUFFICES ASSUME IInv, Exact, apc = "req_got", chan["app"].st = "got"
               PROVE  chan["app"].msg.op = 0 <=>
                        /\ idx # NoSlot
                        /\ buf.rwx = RW \/ mem[buf.sig] \in Signed
                        /\ \E s \in Slot \ {RecvSlot} : kcap["mon"][s] = NoCap
    BY DEF AnswerExact
  <2>1. ~ Handled
    BY AtWork DEF Waiting
  <2> QED
    BY <2>1 DEF Handled, Exact, Grantable, Justified, HasRoom
<1> QED
  BY <1>1, Invariance, ExactAlways, PTL

(* A monitor that has room for a replacement never runs out of it: what    *)
(* comes with a request goes back with the answer.                         *)
LEMMA RoomStays == ASSUME IInv, Source, HasRoom, [Next]_vars PROVE HasRoom'
<1>1. CASE MDerive \/ MDelete \/ MMove
  BY <1>1, ReplaceSucceeds
<1>2. CASE kcap'["mon"] = kcap["mon"] /\ mpc \notin {"delete", "move"}
  BY <1>2 DEF HasRoom
<1>3. CASE MReply
  <2>1. \A s \in Slot \ {RecvSlot} : kcap'["mon"][s] = kcap["mon"][s]
    BY <1>3, NothingNew, Slots DEF MReply, IInv, Proc
  <2> QED
    BY <1>3, <2>1 DEF HasRoom, MReply
<1>4. CASE AReqSend /\ UNCHANGED monVars
  <2>1. \A s \in Slot \ {RecvSlot} : kcap'["mon"][s] = kcap["mon"][s]
    BY <1>4, NothingNew, Slots DEF AReqSend, IInv, Channels, TypeOK, Proc, Endpoint, Send
  <2> QED
    BY <1>4, <2>1 DEF HasRoom, monVars
<1>5. CASE AppNext /\ ~ AReqSend /\ UNCHANGED monVars
  BY <1>5, AppTables DEF HasRoom, monVars
<1>6. CASE MonNext /\ ~ (MDerive \/ MDelete \/ MMove \/ MReply)
  <2>1. kcap' = kcap /\ mpc \notin {"delete", "move"}
    BY <1>6 DEF MonNext, MResume, MSetupRecv, MSetupGot, MYield, MLoopRecv, MLoopGot, MRequest, MVerify, MFind,
                MUpdate, Recv, Received, kernelVars, IInv, TypeOK
  <2> QED
    BY <1>2, <2>1
<1>7. CASE UNCHANGED vars
  BY <1>7 DEF HasRoom, vars, kernelVars, monVars
<1> QED
  BY <1>1, <1>3, <1>4, <1>5, <1>6, <1>7 DEF Next

-----------------------------------------------------------------------------
(* -1 means the end once the app's setup is over, and setup is not entered *)
(* again without a hard reset.                                             *)
Ending ==
    /\ apc \notin {"hard_send", "hard_ok_send"}
    /\ mpc \in {"resume", "setup_recv", "setup_got"} => ~ app_running
    /\ apc \in {"setup", "setup_send"} =>
          mpc \in {"resume", "setup_recv", "setup_got"} /\ chan["mon"].st # "got"
    /\ mpc = "loop_got" /\ chan["mon"].st = "got" /\ chan["mon"].msg.op = -1 => apc = "end"

LEMMA EndingMon == ASSUME IInv, Ending, MonNext, UNCHANGED appVars PROVE Ending'
<1> USE DEF MonGoto, Answer, appVars
<1>1. CASE MResume \/ MSetupRecv \/ MSetupGot \/ MYield \/ MLoopRecv \/ MLoopGot
  BY <1>1 DEF MResume, MSetupRecv, MSetupGot, MYield, MLoopRecv, MLoopGot, Recv, Received, Ending, IInv, TypeOK,
              Proc, kernelVars, monVars, Idle
<1>2. CASE MRequest \/ MVerify \/ MFind \/ MDerive \/ MDelete \/ MMove \/ MReply \/ MUpdate
  BY <1>2 DEF MRequest, MVerify, MFind, MDerive, MDelete, MMove, MReply, MUpdate, Ending
<1> QED
  BY <1>1, <1>2 DEF MonNext

LEMMA EndingApp == ASSUME ~ OtherFaults, IInv, Ending, AppNext, UNCHANGED monVars PROVE Ending'
<1> USE DEF AppGoto, monVars
<1>1. CASE AHardSend \/ AHardOkSend \/ AOtherFault
  BY <1>1 DEF AHardSend, AHardOkSend, AOtherFault, SendStatus, Ending
<1>2. CASE ASetupSend \/ AOkSend \/ ASoftSend \/ AEndSend
  <2>1. PICK op \in {-1, 0, 1} : /\ Send("app", "mon", Status(op), NoSlot)
                                 /\ op = -1 /\ apc' # "end" => apc = "setup_send"
                                 /\ apc' \in {"run", "end"}
    BY <1>2 DEF ASetupSend, AOkSend, ASoftSend, AEndSend, SendStatus
  <2>2. \/ chan'["mon"] = chan["mon"]
        \/ chan'["mon"] = [st |-> "got", slot |-> chan["mon"].slot, msg |-> Status(op)]
    BY <2>1, StatusSent DEF IInv
  <2>3. apc # "end"
    BY <1>2 DEF ASetupSend, AOkSend, ASoftSend, AEndSend, SendStatus
  <2> QED
    BY <2>1, <2>2, <2>3 DEF Ending, Status
<1>3. CASE AReqSend
  <2>1. /\ apc = "req_send" /\ apc' = "req_recv" /\ buf.op = 2
        /\ chan'["mon"] = chan["mon"] \/ chan'["mon"].msg = buf
    BY <1>3 DEF AReqSend, Send, IInv, TypeOK, Proc, RequestForm
  <2> QED
    BY <2>1 DEF Ending
<1>4. CASE AReqRecv \/ AReqGot
  <2>1. chan'["mon"] = chan["mon"] /\ apc \in {"req_recv", "req_got"} /\ apc' \in {"req_got", "ok_send", "soft_send"}
    BY <1>4 DEF AReqRecv, AReqGot, Recv, Received, IInv, TypeOK, Proc
  <2> QED
    BY <2>1 DEF Ending
<1>5. CASE ASetup \/ AYield
  BY <1>5 DEF ASetup, AYield, Ending, kernelVars, appVars
<1>6. CASE AAlloc \/ AFree \/ AWrite \/ AFinish \/ AFetchFault \/ ALoadFault \/ AStackFault \/ AStoreFault
  <2>1. chan' = chan /\ apc = "run" /\ apc' \in {"run", "end_send", "req_send", "soft_send"}
    BY <1>6 DEF AAlloc, AllocAt, AFree, FreeAt, AWrite, WriteAt, AFinish, AFetchFault, FetchFault, ALoadFault,
                AStackFault, StackFault, AStoreFault, StoreFault, SoftReset, PrepareRequest, kernelVars, appVars
  <2> QED
    BY <2>1 DEF Ending
<1> QED
  BY <1>1, <1>2, <1>3, <1>4, <1>5, <1>6 DEF AppNext, AppInput, AppFault, AppStep

(* As long as nothing but exceptions 1, 5 and 7 occurs, the monitor stops  *)
(* serving only when the app has come to its end: no status and no request *)
(* is taken for the end, and neither is the -1 of setup (monitor.c:268).   *)
THEOREM OnlyTheEndStops == ~ OtherFaults /\ Spec => StopsOnlyAtEnd
<1> SUFFICES ASSUME ~ OtherFaults PROVE Spec => StopsOnlyAtEnd
  OBVIOUS
<1>1. Init => Ending
  BY DEF Init, MonInit, AppInit, Ending, Proc, Idle
<1>2. IInv /\ Ending /\ [Next]_vars => Ending'
  <2>1. Ending /\ UNCHANGED vars => Ending'
    BY DEF vars, kernelVars, monVars, appVars, Ending
  <2> QED
    BY <2>1, EndingMon, EndingApp DEF Next
<1>3. IInv /\ Ending /\ [Next]_vars => [app_running /\ ~ app_running' => apc = "end"]_vars
  <2> SUFFICES ASSUME IInv, Ending, Next, app_running, ~ app_running' PROVE apc = "end"
    OBVIOUS
  <2>1. MSetupGot \/ MLoopGot
    BY DEF Next, MonNext, MResume, MSetupRecv, MYield, MLoopRecv, MRequest, MVerify, MFind, MDerive, MDelete,
           MMove, MReply, MUpdate, monVars
  <2> QED
    BY <2>1 DEF MSetupGot, MLoopGot, Received, Ending
<1> QED
  BY <1>1, <1>2, <1>3, Invariance, PTL DEF Spec, StopsOnlyAtEnd
=============================================================================
