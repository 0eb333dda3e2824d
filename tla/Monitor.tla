----------------------------- MODULE Monitor -----------------------------
(***************************************************************************)
(* monitor/monitor.c from the moment the app is ready to be resumed: the   *)
(* end of setup() and the service loop, one action per kernel call or      *)
(* memory read, because the app can be scheduled between any two of them.  *)
(***************************************************************************)
EXTENDS Capman

CONSTANTS
    Signed,    \* contents of a chunk that pass verification (codeauth.c)
    RecvSlot   \* the slot a capability is received in (0x30)

ASSUME MonitorAssumption == Signed \subseteq Content /\ RecvSlot \in Slot

VARIABLES
    mpc,          \* where the monitor is
    recv_buf,     \* the message it works on
    app_running,  \* does loop() serve requests?
    tidx          \* capman_update_pmp's temporary slot

monVars == <<mpc, recv_buf, app_running, tidx>>

MonPc == {"resume", "setup_recv", "setup_got", "loop", "loop_got", "request", "verify",
          "find", "derive", "delete", "move", "reply", "reply_err", "update"}

MonInit ==
    /\ mpc = "resume"
    /\ recv_buf = Status(0)
    /\ app_running = FALSE
    /\ tidx = NoSlot

MonGoto(pc) == mpc' = pc

(* capman_mresume(APP_PID) *)
MResume ==
    /\ mpc = "resume" /\ MonGoto("setup_recv")
    /\ started' = TRUE
    /\ UNCHANGED <<kcap, chan, mem, caps, recv_buf, app_running, tidx>>

(* setup() waits for the app's first message and takes no capability. *)
MSetupRecv ==
    /\ mpc = "setup_recv" /\ MonGoto("setup_got")
    /\ Recv("mon", NoSlot)
    /\ UNCHANGED <<mem, started, caps, recv_buf, app_running, tidx>>

(* Mutant: the comparison with -1 is inverted. *)
MSetupGotInverted ==
    /\ mpc = "setup_got" /\ MonGoto("loop")
    /\ Received("mon")
    /\ recv_buf' = chan["mon"].msg
    /\ app_running' = (recv_buf'.op # -1)
    /\ UNCHANGED <<mem, started, caps, tidx>>

(* Anything but -1 is "App setup failed": loop() will never serve. *)
MSetupGot ==
    /\ mpc = "setup_got" /\ MonGoto("loop")
    /\ Received("mon")
    /\ recv_buf' = chan["mon"].msg
    /\ app_running' = (recv_buf'.op = -1)
    /\ UNCHANGED <<mem, started, caps, tidx>>

(* loop() with nothing to serve yields its slice, again and again. *)
MYield ==
    /\ mpc = "loop" /\ ~ app_running
    /\ UNCHANGED <<kernelVars, caps, monVars>>

MLoopRecv ==
    /\ mpc = "loop" /\ app_running /\ MonGoto("loop_got")
    /\ Recv("mon", RecvSlot)
    /\ UNCHANGED <<mem, started, caps, recv_buf, app_running, tidx>>

(* Mutants: the end of the app is not recorded; a failure status falls     *)
(* through into the case of the end.                                       *)
MLoopGotStopping(ops) ==
    /\ mpc = "loop_got"
    /\ Received("mon")
    /\ recv_buf' = chan["mon"].msg
    /\ app_running' = (app_running /\ recv_buf'.op \notin ops)
    /\ MonGoto(IF recv_buf'.op = 2 THEN "request" ELSE "loop")
    /\ UNCHANGED <<mem, started, caps, tidx>>
MLoopGotForgets == MLoopGotStopping({})
MLoopGotFallsThrough == MLoopGotStopping({-1, 1})

(* switch (recv_buf[0]): only -1 and 0x02 change the monitor's state. *)
MLoopGot ==
    /\ mpc = "loop_got"
    /\ Received("mon")
    /\ recv_buf' = chan["mon"].msg
    /\ app_running' = (app_running /\ recv_buf'.op # -1)
    /\ MonGoto(IF recv_buf'.op = 2 THEN "request" ELSE "loop")
    /\ UNCHANGED <<mem, started, caps, tidx>>

Answer(code, pc) == recv_buf' = [recv_buf EXCEPT !.op = code] /\ MonGoto(pc)

(* Mutant: the refresh of the copy is missing. *)
MRequestStale ==
    /\ mpc = "request"
    /\ IF caps["mon"][RecvSlot].type # "pmp"
       THEN Answer(2, "reply")
       ELSE UNCHANGED recv_buf /\ MonGoto(IF "X" \in recv_buf.rwx THEN "verify" ELSE "find")
    /\ UNCHANGED <<kernelVars, caps, app_running, tidx>>

(* case 0x02 up to the decision: refresh, type check, W^X check. *)
MRequest ==
    /\ mpc = "request"
    /\ capman_update("mon")
    /\ LET pmp == caps'["mon"][RecvSlot] IN
         \/ /\ pmp.type # "pmp"
            /\ Answer(2, "reply")
         \/ /\ pmp.type = "pmp" /\ {"W", "X"} \subseteq recv_buf.rwx
            /\ Answer(3, "reply")
         \/ /\ pmp.type = "pmp" /\ ~ {"W", "X"} \subseteq recv_buf.rwx
            /\ MonGoto(IF "X" \in recv_buf.rwx THEN "verify" ELSE "find")
            /\ UNCHANGED recv_buf
    /\ UNCHANGED <<kcap, chan, mem, started, app_running, tidx>>

(* Mutants: what happens when the signature does not match. *)
MVerifyElse(Mismatch) ==
    /\ mpc = "verify"
    /\ IF mem[recv_buf.sig] \in Signed THEN UNCHANGED recv_buf /\ MonGoto("find") ELSE Mismatch
    /\ UNCHANGED <<kernelVars, caps, app_running, tidx>>
MVerifyUnchecked == MVerifyElse(UNCHANGED recv_buf /\ MonGoto("find"))
MVerifySaysOk == MVerifyElse(Answer(0, "reply"))
MVerifyWrongCode == MVerifyElse(Answer(5, "reply"))
MVerifySilent == MVerifyElse(UNCHANGED recv_buf /\ MonGoto("loop"))

(* calc_sig and comp_sig over the memory the request points at. *)
MVerify ==
    /\ mpc = "verify"
    /\ \/ /\ mem[recv_buf.sig] \in Signed
          /\ MonGoto("find")
          /\ UNCHANGED recv_buf
       \/ /\ mem[recv_buf.sig] \notin Signed
          /\ Answer(1, "reply")
    /\ UNCHANGED <<kernelVars, caps, app_running, tidx>>

(* Mutants: the old capability is deleted before a slot is found; the      *)
(* failure of the search is not reported.                                  *)
MFindOr(NoneFree) ==
    /\ mpc = "find"
    /\ \E i \in Slot \union {NoSlot} :
         /\ capman_find_free("mon", i)
         /\ IF i = NoSlot THEN NoneFree /\ UNCHANGED tidx
            ELSE tidx' = i /\ MonGoto("derive") /\ UNCHANGED <<recv_buf, kcap, caps>>
    /\ UNCHANGED <<chan, mem, started, app_running>>
MFindDeletesFirst == MFindOr(Answer(1, "reply_err") /\ capman_delcap("mon", RecvSlot))
MFindSaysOk == MFindOr(Answer(0, "reply_err") /\ UNCHANGED <<kcap, caps>>)

(* capman_update_pmp: find a slot, derive there, delete the old one, move. *)
(* A failing step answers its number and skips the final refresh.          *)
MFind ==
    /\ mpc = "find"
    /\ \E i \in Slot \union {NoSlot} :
         /\ capman_find_free("mon", i)
         /\ \/ i = NoSlot /\ Answer(1, "reply_err") /\ UNCHANGED tidx
            \/ i # NoSlot /\ tidx' = i /\ MonGoto("derive") /\ UNCHANGED recv_buf
    /\ UNCHANGED <<kernelVars, caps, app_running>>

(* Mutant: the new right is added to the old ones. *)
MDeriveAdds ==
    /\ mpc = "derive" /\ MonGoto("delete")
    /\ LET old == caps["mon"][RecvSlot] IN
         capman_derive_pmp("mon", tidx, old.chunk, old.rwx \union recv_buf.rwx)
    /\ UNCHANGED <<chan, mem, started, recv_buf, app_running, tidx>>


MDerive ==
    /\ mpc = "derive"
    /\ \/ /\ capman_derive_pmp("mon", tidx, caps["mon"][RecvSlot].chunk, recv_buf.rwx)
          /\ MonGoto("delete")
          /\ UNCHANGED recv_buf
       \/ /\ ~ CanDerive("mon", tidx)
          /\ Answer(2, "reply_err")
          /\ UNCHANGED <<kcap, caps>>
    /\ UNCHANGED <<chan, mem, started, app_running, tidx>>

(* Mutant: the old capability is not deleted. *)
MDeleteSkipped ==
    /\ mpc = "delete" /\ MonGoto("move")
    /\ UNCHANGED <<kernelVars, caps, recv_buf, app_running, tidx>>


MDelete ==
    /\ mpc = "delete"
    /\ \/ /\ capman_delcap("mon", RecvSlot)
          /\ MonGoto("move")
          /\ UNCHANGED recv_buf
       \/ /\ caps["mon"][RecvSlot] = NoCap
          /\ Answer(3, "reply_err")
          /\ UNCHANGED <<kcap, caps>>
    /\ UNCHANGED <<chan, mem, started, app_running, tidx>>

MMove ==
    /\ mpc = "move"
    /\ \/ /\ capman_move("mon", tidx, RecvSlot)
          /\ Answer(0, "reply")
       \/ /\ ~ CanMove("mon", tidx, RecvSlot)
          /\ Answer(4, "reply_err")
          /\ UNCHANGED <<kcap, caps>>
    /\ UNCHANGED <<chan, mem, started, app_running, tidx>>

(* Mutant: the answer goes out without the capability. *)
MReplyKeeps ==
    /\ mpc \in {"reply", "reply_err"}
    /\ Send("mon", "app", recv_buf, NoSlot)
    /\ MonGoto(IF mpc = "reply" THEN "update" ELSE "loop")
    /\ UNCHANGED <<mem, started, caps, recv_buf, app_running, tidx>>

(* The answer goes out with whatever RecvSlot holds. *)
MReply ==
    /\ mpc \in {"reply", "reply_err"}
    /\ Send("mon", "app", recv_buf, RecvSlot)
    /\ MonGoto(IF mpc = "reply" THEN "update" ELSE "loop")
    /\ UNCHANGED <<mem, started, caps, recv_buf, app_running, tidx>>

MUpdate ==
    /\ mpc = "update" /\ MonGoto("loop")
    /\ capman_update("mon")
    /\ UNCHANGED <<kernelVars, recv_buf, app_running, tidx>>

MonNext ==
    \/ MResume \/ MSetupRecv \/ MSetupGot \/ MYield \/ MLoopRecv \/ MLoopGot
    \/ MRequest \/ MVerify \/ MFind \/ MDerive \/ MDelete \/ MMove \/ MReply \/ MUpdate
=============================================================================
