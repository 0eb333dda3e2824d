------------------- MODULE MonitorAppRefinement_proofs -------------------
(***************************************************************************)
(* The monitor and the app implement the policy of HeapPolicy: every step  *)
(* is a step of the policy or changes nothing the policy speaks about.     *)
(***************************************************************************)
EXTENDS MonitorAppSafety_proofs

(* The policy's variables, as the mapping in MonitorApp gives them. *)
Holder == [c \in PmpChunk |-> IF WithApp(c) THEN "app" ELSE "mon"]
HeldRights == [c \in PmpChunk |-> IF WithApp(c) THEN kcap["app"][HeapSlot(c)].rwx
                                                ELSE caps["app"][HeapSlot(c)].rwx]

LEMMA WithAppMeans ==
    IInv => \A c \in PmpChunk :
               /\ WithApp(c) <=> kcap["app"][HeapSlot(c)] # NoCap
               /\ WithApp(c) => kcap["app"][HeapSlot(c)].chunk = c
               /\ ~ WithApp(c) => Waiting /\ idx = HeapSlot(c)
BY DEF IInv, AppSlots, Custody, WithApp, IsPmpOf, NoCap

LEMMA TransferCases ==
    ASSUME TypeOK, NEW p \in Proc, NEW q \in Proc, p # q, NEW i, NEW j, kcap' = Transfer(p, i, q, j)
    PROVE  \/ kcap' = kcap
           \/ /\ i \in Slot /\ j \in Slot /\ kcap[p][i] # NoCap /\ kcap[q][j] = NoCap
              /\ \A s \in Slot : kcap'[p][s] = IF s = i THEN NoCap ELSE kcap[p][s]
              /\ \A s \in Slot : kcap'[q][s] = IF s = j THEN kcap[p][i] ELSE kcap[q][s]
<1>1. CASE i \in Slot /\ j \in Slot /\ kcap[p][i] # NoCap /\ kcap[q][j] = NoCap
  BY <1>1, Transferred
<1>2. CASE ~ (i \in Slot /\ j \in Slot /\ kcap[p][i] # NoCap /\ kcap[q][j] = NoCap)
  BY <1>2 DEF Transfer
<1> QED
  BY <1>1, <1>2

(* A step that leaves the app's table alone is invisible, unless it writes; *)
(* a refresh of the copy is, when the app lacks nothing.                    *)
LEMMA Invisible ==
    ASSUME mem' = mem, kcap'["app"] = kcap["app"],
           caps'["app"] = caps["app"] \/ \A c \in PmpChunk : WithApp(c)
    PROVE  UNCHANGED Policy!policyVars
<1>1. \A c \in PmpChunk : WithApp(c)' = WithApp(c)
  BY DEF WithApp
<1>2. Holder' = Holder /\ HeldRights' = HeldRights
  BY <1>1 DEF Holder, HeldRights
<1> QED
  BY <1>2 DEF Policy!policyVars, Holder, HeldRights

LEMMA WriteAllowed ==
    IInv /\ AWrite => \E c \in PmpChunk, v \in Content : Policy!Write(c, v)
<1> SUFFICES ASSUME IInv, AWrite PROVE \E c \in PmpChunk, v \in Content : Policy!Write(c, v)
  OBVIOUS
<1>1. PICK c \in Chunk, v \in Content : "W" \in Rights("app", c) /\ mem' = [mem EXCEPT ![c] = v]
  BY DEF AWrite, WriteAt
<1>2. /\ c \in PmpChunk /\ IsPmpOf(kcap["app"][HeapSlot(c)], c)
      /\ "W" \in kcap["app"][HeapSlot(c)].rwx
  BY <1>1, AppRight
<1>3. Holder[c] = "app" /\ "W" \in HeldRights[c]
  BY <1>2 DEF Holder, HeldRights, WithApp, IsPmpOf
<1>4. kcap' = kcap /\ caps' = caps
  BY DEF AWrite, WriteAt
<1>5. Holder' = Holder /\ HeldRights' = HeldRights
  BY <1>4 DEF Holder, HeldRights, WithApp
<1>6. Policy!Write(c, v)
  BY <1>1, <1>3, <1>5 DEF Policy!Write, Holder, HeldRights
<1> QED
  BY <1>2, <1>6

LEMMA RequestAllowed ==
    IInv /\ IInv' /\ AReqSend =>
        UNCHANGED Policy!policyVars \/ \E c \in PmpChunk : Policy!Surrender(c)
<1> SUFFICES ASSUME IInv, IInv', AReqSend
             PROVE  UNCHANGED Policy!policyVars \/ \E c \in PmpChunk : Policy!Surrender(c)
  OBVIOUS
<1>1. mem' = mem /\ caps' = caps /\ idx' = idx /\ ~ Waiting /\ caps["app"] = kcap["app"]
  BY DEF AReqSend, IInv, AppCopy, Waiting
<1>2. CASE kcap' = kcap
  BY <1>1, <1>2, Invisible
<1>3. CASE kcap' # kcap
  <2>1. kcap' = Transfer("app", idx, "mon", chan["mon"].slot)
    BY <1>3 DEF AReqSend, Send
  <2>2. /\ idx \in Slot /\ kcap["app"][idx] # NoCap
        /\ \A s \in Slot : kcap'["app"][s] = IF s = idx THEN NoCap ELSE kcap["app"][s]
    BY <1>3, <2>1, TransferCases DEF IInv, Proc
  <2>3. PICK c \in PmpChunk : idx = HeapSlot(c)
    BY <2>2, Slots DEF IInv, RequestForm, AReqSend
  <2>4. \A d \in PmpChunk : WithApp(d) /\ (WithApp(d)' <=> d # c)
    BY <1>1, <2>2, <2>3, WithAppMeans, HeapSlots DEF WithApp, NoCap
  <2>5. /\ \A d \in PmpChunk : Holder[d] = "app"
        /\ Holder' = [Holder EXCEPT ![c] = "mon"]
    BY <2>4 DEF Holder
  <2>6. HeldRights' = HeldRights
    <3>1. \A d \in PmpChunk : d # c => kcap'["app"][HeapSlot(d)] = kcap["app"][HeapSlot(d)]
      BY <2>2, <2>3, HeapSlots
    <3> QED
      BY <1>1, <2>4, <3>1 DEF HeldRights
  <2>7. Policy!Surrender(c)
    BY <1>1, <2>5, <2>6 DEF Policy!Surrender, Holder, HeldRights
  <2> QED
    BY <2>7
<1> QED
  BY <1>2, <1>3

LEMMA AnswerAllowed ==
    IInv /\ IInv' /\ MReply /\ UNCHANGED appVars =>
        \/ UNCHANGED Policy!policyVars
        \/ \E c \in PmpChunk, rwx \in SUBSET {"R", "W", "X"} : Policy!Return(c, rwx)
<1> SUFFICES ASSUME IInv, IInv', MReply, UNCHANGED appVars
             PROVE  \/ UNCHANGED Policy!policyVars
                    \/ \E c \in PmpChunk, rwx \in SUBSET {"R", "W", "X"} : Policy!Return(c, rwx)
  OBVIOUS
<1> DEFINE cap == kcap["mon"][RecvSlot]
<1>1. /\ mem' = mem /\ caps' = caps /\ Asked /\ Waiting /\ mpc \in {"reply", "reply_err"}
      /\ RecvSlot \in Slot /\ "mon" \in Proc
  BY Slots DEF MReply, IInv, Work, Asked, Handled, Proc
<1>2. CASE kcap' = kcap
  BY <1>1, <1>2, Invisible
<1>3. CASE kcap' # kcap
  <2>1. kcap' = Transfer("mon", RecvSlot, "app", chan["app"].slot) /\ chan["app"].st = "wait"
    BY <1>3 DEF MReply, Send
  <2>2. chan["app"].slot = idx
    BY <2>1 DEF IInv, Channels
  <2>3. /\ idx \in Slot /\ cap # NoCap /\ kcap["app"][idx] = NoCap
        /\ \A s \in Slot : kcap'["app"][s] = IF s = idx THEN cap ELSE kcap["app"][s]
    BY <1>1, <1>3, <2>1, <2>2, TransferCases DEF IInv, Proc
  <2>4. cap.type = "pmp"
    BY <2>3 DEF IInv, MonSlots
  <2>5. PICK c \in PmpChunk : idx = HeapSlot(c) /\ cap.chunk = c
    BY <1>1, <2>4 DEF IInv, Custody
  <2>6. /\ cap.rwx \in {caps["app"][idx].rwx, {"R", "W"}, {"R", "X"}}
        /\ cap.rwx = caps["app"][idx].rwx \/ "X" \notin cap.rwx \/ mem[c] \in Signed
        /\ cap.rwx \in SUBSET {"R", "W", "X"}
    <3>1. CASE mpc = "reply" /\ recv_buf.op = 0
      <4>1. cap.rwx = buf.rwx /\ buf.rwx \in {RW, RX}
        BY <1>1, <3>1 DEF IInv, Work, RequestForm, Waiting
      <4>2. "X" \in cap.rwx => mem[c] \in Signed
        BY <1>1, <2>4, <2>5 DEF IInv, Policed
      <4> QED
        BY <4>1, <4>2 DEF RW, RX
    <3>2. CASE ~ (mpc = "reply" /\ recv_buf.op = 0)
      <4>1. cap = caps["app"][idx]
        BY <1>1, <2>4, <3>2 DEF IInv, Work
      <4>2. cap.rwx \in {R, RW, RX}
        BY <1>1, <2>4 DEF IInv, Policed
      <4> QED
        BY <4>1, <4>2 DEF R, RW, RX
    <3> QED
      BY <3>1, <3>2
  <2> HIDE DEF cap
  <2>7. /\ \A d \in PmpChunk : WithApp(d) <=> d # c
        /\ \A d \in PmpChunk : WithApp(d)'
        /\ \A d \in PmpChunk : kcap'["app"][HeapSlot(d)] = IF d = c THEN cap ELSE kcap["app"][HeapSlot(d)]
    BY <2>3, <2>4, <2>5, WithAppMeans, HeapSlots DEF WithApp, NoCap
  <2>8. Holder[c] = "mon" /\ Holder' = [Holder EXCEPT ![c] = "app"]
    BY <2>7 DEF Holder
  <2>9. HeldRights[c] = caps["app"][idx].rwx /\ HeldRights' = [HeldRights EXCEPT ![c] = cap.rwx]
    BY <2>5, <2>7 DEF HeldRights
  <2>10. Policy!Return(c, cap.rwx)
    <3>1. \/ cap.rwx = HeldRights[c]
          \/ cap.rwx = {"R", "W"}
          \/ cap.rwx = {"R", "X"} /\ mem[c] \in Signed
      BY <2>6, <2>9
    <3> QED
      BY <1>1, <2>8, <2>9, <3>1 DEF Policy!Return, Holder, HeldRights
  <2> QED
    BY <2>6, <2>10
<1> QED
  BY <1>2, <1>3

LEMMA MonAllowed == IInv /\ IInv' /\ MonNext /\ UNCHANGED appVars => [Policy!Next]_(Policy!policyVars)
<1> SUFFICES ASSUME IInv, IInv', MonNext, UNCHANGED appVars, ~ MReply
             PROVE  UNCHANGED Policy!policyVars
  BY AnswerAllowed DEF Policy!Next
<1>1. mem' = mem
  BY DEF MonNext, MResume, MSetupRecv, MSetupGot, MYield, MLoopRecv, MLoopGot, MRequest, MVerify,
         MFind, MDerive, MDelete, MMove, MUpdate, kernelVars
<1>2. kcap'["app"] = kcap["app"] /\ caps'["app"] = caps["app"]
  <2> USE DEF IInv, TypeOK, Table, Proc
  <2>1. CASE MResume \/ MSetupRecv \/ MSetupGot \/ MYield \/ MLoopRecv \/ MLoopGot \/ MVerify \/ MFind
    BY <2>1 DEF MResume, MSetupRecv, MSetupGot, MYield, MLoopRecv, MLoopGot, MVerify, MFind,
                Recv, Received, kernelVars
  <2>2. CASE MRequest \/ MUpdate
    BY <2>2 DEF MRequest, MUpdate, capman_update, kernelVars
  <2>3. CASE MDerive \/ MDelete \/ MMove
    BY <2>3 DEF MDerive, MDelete, MMove, capman_derive_pmp, capman_delcap, capman_move, Put
  <2> QED
    BY <2>1, <2>2, <2>3 DEF MonNext
<1> QED
  BY <1>1, <1>2, Invisible

LEMMA AppAllowed == IInv /\ IInv' /\ AppNext /\ UNCHANGED monVars => [Policy!Next]_(Policy!policyVars)
<1> SUFFICES ASSUME IInv, IInv', AppNext, UNCHANGED monVars, ~ AReqSend, ~ AWrite
             PROVE  UNCHANGED Policy!policyVars
  BY RequestAllowed, WriteAllowed DEF Policy!Next
<1>1. CASE ASetupSend \/ AOkSend \/ ASoftSend \/ AHardSend \/ AHardOkSend \/ AEndSend
  <2>1. mem' = mem /\ caps' = caps /\ \E m : Send("app", "mon", m, NoSlot)
    BY <1>1 DEF ASetupSend, AOkSend, ASoftSend, AHardSend, AHardOkSend, AEndSend, SendStatus
  <2>2. kcap' = kcap
    BY <2>1, StatusSent DEF IInv
  <2> QED
    BY <2>1, <2>2, Invisible
<1>2. CASE ASetup \/ AReqGot
  <2>1. mem' = mem /\ kcap' = kcap /\ ~ Waiting
    BY <1>2 DEF ASetup, AReqGot, Received, kernelVars, Waiting
  <2> QED
    BY <2>1, WithAppMeans, Invisible
<1>3. CASE AAlloc \/ AFree \/ AFinish \/ AYield \/ AppFault \/ AReqRecv
  <2>1. mem' = mem /\ kcap' = kcap /\ caps' = caps
    BY <1>3 DEF AAlloc, AllocAt, AFree, FreeAt, AFinish, AYield, AppFault, AFetchFault, FetchFault,
                ALoadFault, AStackFault, StackFault, AStoreFault, StoreFault, AOtherFault, AReqRecv, Recv, kernelVars
  <2> QED
    BY <2>1, Invisible
<1> QED
  BY <1>1, <1>2, <1>3 DEF AppNext, AppInput, AppStep

(* Requests, answers, copies and slots, with messages lost or not, do no   *)
(* more than the policy allows: the heap's capabilities change hands one   *)
(* at a time, and gain execution only over signed content.                 *)
THEOREM MonitorImplementsPolicy == Spec => ImplementsPolicy
<1>1. Init => Policy!Init
  <2> SUFFICES ASSUME Init PROVE Policy!Init
    OBVIOUS
  <2>1. IInv /\ ~ Waiting
    BY InitSafe DEF Init, AppInit, Waiting
  <2>2. \A c \in PmpChunk : WithApp(c) /\ kcap["app"][HeapSlot(c)].rwx = {"R"}
    <3>1. ASSUME NEW c \in PmpChunk PROVE kcap["app"][HeapSlot(c)] = Pmp(c, R)
      <4>1. (CHOOSE d \in PmpChunk : HeapSlot(d) = HeapSlot(c)) = c
        BY HeapSlots
      <4> QED
        BY <4>1, HeapSlots DEF Init, AppTable, Proc
    <3>2. R = {"R"} /\ \A c \in PmpChunk : Pmp(c, R).type = "pmp" /\ Pmp(c, R).rwx = R
      BY DEF R, Pmp
    <3> QED
      BY <3>1, <3>2 DEF WithApp
  <2> QED
    BY <2>2 DEF Policy!Init, Init
<1>2. IInv /\ IInv' /\ [Next]_vars => [Policy!Next]_(Policy!policyVars)
  <2>1. UNCHANGED vars => UNCHANGED Policy!policyVars
    BY Invisible DEF vars, kernelVars
  <2> QED
    BY <2>1, MonAllowed, AppAllowed DEF Next
<1> QED
  BY <1>1, <1>2, Invariance, PTL DEF Spec, ImplementsPolicy, Policy!Spec
=============================================================================
