------------------------------ MODULE SdmmcBus ------------------------------
(***************************************************************************)
(* The SD/MMC block driver on one i.MX6 uSDHC slot: how commands, the      *)
(* completion interrupt, command time-outs and the insertion and removal   *)
(* of cards run into each other.  Three threads of the driver and the      *)
(* controller:                                                             *)
(*   "drv"  sdmmc_driver_thread, serving one read at a time (sdmmc_rw);    *)
(*   "cd"   sdio_cd_thread, which identifies a card, attaches the block    *)
(*          driver to it and detaches it again (sdio_cd);                  *)
(*   hc     sdio_hc_thread, which turns interrupts into completions.       *)
(* Every sdio_cmd is taken from the list of free commands and given back   *)
(* before the next is taken, so all of them are the same object: cstat and *)
(* crsp.  The dozen commands that identify a card are one command, and so  *)
(* are those of sd_init_bus.  Data is moved by DMA: the fallback to moving *)
(* it by the processor, when a DMA list cannot be set up, is left out.     *)
(***************************************************************************)
EXTENDS Naturals, FiniteSets

CONSTANTS Card,         \* the cards there are, told apart by their CID
          NoCard,       \* an empty slot
          Boot,         \* what the slot may hold when the driver starts
          Clocks,       \* clock rates tried to identify a card
          ResetRetries, \* SDIO_RESET_RETRIES
          CmdRetries,   \* SDIO_CMD_RETRIES
          MaxQueued,    \* bound on the requests queued when a card goes
          MaxPulses,    \* bound on the pulses told apart in the cd queue
          MaxLate,      \* bound on the commands given up while under way
          MaxFaults     \* bound on those and the insertions and removals

ASSUME SlotAssumption ==
    /\ NoCard \notin Card /\ Boot \subseteq Card \cup {NoCard}
    /\ {Clocks, ResetRetries, MaxPulses} \subseteq Nat \ {0}
    /\ {CmdRetries, MaxQueued, MaxLate, MaxFaults} \subseteq Nat

Thread == {"drv", "cd"}

VARIABLES card,     \* the card in the slot
          mode,     \* its state: "off", "ident" (has sent its CID) or "tran"
          is,       \* interrupt status register
          ie,       \* interrupt status enable register
          resp,     \* response register: the card that answered last
          cmdLine,  \* the command the controller is sending
          datLine,  \* the data transfer the controller is making
          wspc,     \* hc->wspc.cmd points to the command (TRUE) or is NULL
          cstat,    \* cmd->status
          crsp,     \* cmd->rsp
          flags,    \* hc->device.flags
          cid,      \* hc->device.raw_cid
          dev,      \* the struct sdio_device of the block driver
          cdq,      \* pulses waiting for the cd thread
          cdins,    \* what hce->cd() said at the start of sdio_cd
          seen,     \* hc->device.flags as a thread loads it for a plain |= or &=
          quit,     \* the channel of the driver thread is destroyed
          queued,   \* requests it still finds in its queue then
          pc, stage, tries, retry, res,   \* of the threads drv and cd
          hpc, sts, hcs,                  \* of the hc thread
          changes,  \* insertions and removals so far
          done,     \* the controller has executed the command last issued
          held,     \* the card that was last identified and attached to
          late,     \* commands given up before they completed
          wiped     \* a recorded change of card was overwritten unread

slot == <<card, mode, changes>>
regs == <<is, ie, resp, cmdLine, datLine>>
cmd  == <<wspc, cstat, crsp>>
hc   == <<hpc, sts, hcs>>
thr  == <<pc, stage, tries, retry, res>>
cdv  == <<cdq, cdins, seen, quit, queued>>
ghost == <<done, held, late, wiped>>
vars == <<slot, regs, cmd, flags, cid, dev, cdv, thr, hc, ghost>>

NoLine == [on |-> FALSE]
NoDev  == [live |-> FALSE]

Init ==
    /\ card \in Boot /\ mode = "off" /\ changes = 0
    /\ is = {} /\ ie = {"cd"} /\ resp = NoCard
    /\ cmdLine = NoLine /\ datLine = NoLine
    /\ wspc = FALSE /\ cstat = "INPROG" /\ crsp = NoCard
    /\ flags = {} /\ cid = NoCard /\ dev = NoDev
    /\ cdq = 1 /\ cdins = FALSE /\ quit = FALSE /\ queued = 0
    /\ seen = [t \in Thread |-> {}]
    /\ pc = [drv |-> "none", cd |-> "idle"]
    /\ stage = [t \in Thread |-> "none"] /\ res = [t \in Thread |-> "ok"]
    /\ tries = [t \in Thread |-> 0] /\ retry = [t \in Thread |-> 0]
    /\ hpc = "idle" /\ sts = {} /\ hcs = "INPROG"
    /\ done = FALSE /\ held = NoCard /\ late = 0 /\ wiped = FALSE

Goto(t, l) == pc' = [pc EXCEPT ![t] = l]

\* The local variables of a call end with it, and what the command holds is
\* cleared before its next use (the memset of sdio_alloc_cmd).
Return(t) == /\ tries' = [tries EXCEPT ![t] = 0]
             /\ retry' = [retry EXCEPT ![t] = 0]
             /\ res' = [res EXCEPT ![t] = "ok"]
             /\ cstat' = "INPROG" /\ crsp' = NoCard /\ done' = FALSE

-----------------------------------------------------------------------------
(* The slot and the controller. *)

\* A status bit is recorded when it is enabled; errors and card changes
\* always are.
Raise(bits) == is' = is \cup (bits \cap (ie \cup {"cd", "err"}))

ChangeCard ==
    /\ changes + late < MaxFaults
    /\ changes' = changes + 1
    /\ card' \in IF card = NoCard THEN Card ELSE {NoCard}
    /\ mode' = "off"
    /\ Raise({"cd"})
    /\ UNCHANGED <<ie, resp, cmdLine, datLine, cmd, flags, cid, dev, cdv, thr,
                   hc, ghost>>

\* A card answers an identification always, other commands once selected.
Answers(c) == card # NoCard /\ (c.kind = "ident" \/ mode = "tran")

RespOk ==
    /\ cmdLine.on /\ Answers(cmdLine)
    /\ resp' = card
    /\ mode' = IF cmdLine.kind = "ident" THEN "ident" ELSE mode
    /\ cmdLine' = NoLine
    /\ Raise({"cc"})
    /\ IF cmdLine.kind = "data"
         THEN /\ datLine' = [on |-> TRUE, cur |-> cmdLine.cur, card |-> card,
                             for |-> cmdLine.for]
              /\ UNCHANGED done
         ELSE /\ datLine' = IF cmdLine.kind = "stop" THEN NoLine ELSE datLine
              /\ done' = (done \/ cmdLine.cur)
    /\ UNCHANGED <<card, changes, ie, cmd, flags, cid, dev, cdv, thr, hc, held,
                   late, wiped>>

RespError ==
    /\ cmdLine.on
    /\ Raise({"err"})
    /\ cmdLine' = NoLine
    /\ UNCHANGED <<slot, ie, resp, datLine, cmd, flags, cid, dev, cdv, thr, hc,
                   ghost>>

DataEnd ==
    /\ datLine.on /\ datLine.card = card
    /\ Raise({"tc"})
    /\ done' = (done \/ datLine.cur)
    /\ datLine' = NoLine
    /\ UNCHANGED <<slot, ie, resp, cmdLine, cmd, flags, cid, dev, cdv, thr, hc,
                   held, late, wiped>>

DataError ==
    /\ datLine.on
    /\ Raise({"err"})
    /\ datLine' = NoLine
    /\ UNCHANGED <<slot, ie, resp, cmdLine, cmd, flags, cid, dev, cdv, thr, hc,
                   ghost>>

Controller == RespOk \/ RespError \/ DataEnd \/ DataError

\* imx6_sdhcx_pwr: the controller is reset, the card loses its power.
PowerCycle ==
    /\ is' = {} /\ cmdLine' = NoLine /\ datLine' = NoLine
    /\ mode' = "off"
    /\ UNCHANGED <<ie, resp, card, changes>>

WipedBy(lost) == wiped' = (wiped \/ lost)

\* Fault: the cd thread is not woken.
EventNoPulse == flags' = flags \cup {"media"} /\ UNCHANGED cdq

\* sdio_hc_event( HC_EV_CD ): remember the change, wake the cd thread.  Each
\* pulse makes it look again, so more than MaxPulses waiting are as many.
sdio_hc_event ==
    /\ flags' = flags \cup {"media"}
    /\ cdq' = IF cdq < MaxPulses THEN cdq + 1 ELSE cdq

-----------------------------------------------------------------------------
(* The hc thread: imx6_sdhcx_intr_event. *)

IntrRead ==
    /\ hpc = "idle" /\ is # {}
    /\ sts' = is
    /\ is' = {}
    /\ IF "cd" \in is
         THEN sdio_hc_event
         ELSE UNCHANGED <<flags, cdq>>
    /\ hpc' = "fetch"
    /\ UNCHANGED <<slot, ie, resp, cmdLine, datLine, cmd, cid, dev, cdins, seen,
                   quit, queued, thr, hcs, ghost>>

\* A time-out error is reported as a removal when the slot is found empty.
ErrorStatus == {"ERR"} \cup {s \in {"REMOVED"} : card = NoCard}

\* The command under way is answered with a busy signal (SCF_RSP_BUSY).
BusyAnswer == \E t \in Thread : /\ pc[t] \in {"send", "wait", "abort"}
                                /\ stage[t] \in {"stop", "config"}

\* hc->wspc.cmd is read without the mutex; what the status bits say is then
\* taken for the outcome of that command.  A card that stays busy after its
\* answer is waited for, and in the end given up with an error.
IntrDecide ==
    /\ hpc = "fetch"
    /\ \/ /\ ~wspc \/ sts \subseteq {"cd"}
          /\ hpc' = "idle"
          /\ UNCHANGED <<cmdLine, datLine, crsp, hcs, done>>
       \/ /\ wspc /\ "err" \in sts
          /\ cmdLine' = NoLine /\ datLine' = NoLine
          /\ hcs' \in ErrorStatus
          /\ hpc' = "cmplt"
          /\ UNCHANGED <<crsp, done>>
       \/ /\ wspc /\ "err" \notin sts /\ sts \cap {"cc", "tc"} # {}
          /\ crsp' = resp
          /\ hcs' = "CMP"
          /\ hpc' = "cmplt"
          /\ UNCHANGED <<cmdLine, datLine, done>>
       \/ /\ wspc /\ sts \cap {"err", "tc"} = {} /\ "cc" \in sts /\ BusyAnswer
          /\ crsp' = resp
          /\ cmdLine' = NoLine /\ datLine' = NoLine
          /\ hcs' = IF card = NoCard THEN "REMOVED" ELSE "ERR"
          /\ hpc' = "cmplt"
          /\ UNCHANGED done
    /\ sts' = {}
    /\ UNCHANGED <<slot, is, ie, resp, wspc, cstat, flags, cid, dev, cdv, thr,
                   held, late, wiped>>

sdio_cmd_cmplt ==
    /\ hpc = "cmplt"
    /\ wspc' = FALSE
    /\ cstat' = hcs
    /\ hpc' = "idle" /\ hcs' = "INPROG"
    /\ UNCHANGED <<slot, regs, crsp, flags, cid, dev, cdv, thr, sts, ghost>>

HcThread == IntrRead \/ IntrDecide \/ sdio_cmd_cmplt

-----------------------------------------------------------------------------
(* Issuing a command: _sdio_send_cmd and sdio_issue_cmd. *)

Kind(s) == CASE s = "rw" -> "data"
             [] s \in {"ident", "reset"} -> "ident"
             [] s = "stop" -> "stop"
             [] OTHER -> "ac"

Retries(s) == IF s \in {"rw", "stop"} THEN 0 ELSE CmdRetries

Old(line) == IF line.on THEN [line EXCEPT !.cur = FALSE] ELSE line

\* cmd->status = CS_CMD_INPROG
CmdBegin(t) ==
    /\ pc[t] = "begin"
    /\ cstat' = "INPROG"
    /\ crsp' = NoCard
    /\ cmdLine' = Old(cmdLine) /\ datLine' = Old(datLine)
    /\ done' = FALSE
    /\ Goto(t, "point")
    /\ UNCHANGED <<slot, is, ie, resp, wspc, flags, cid, dev, cdv, stage, tries,
                   retry, res, hc, held, late, wiped>>

CmdPoint(t) ==
    /\ pc[t] = "point"
    /\ wspc' = TRUE
    /\ Goto(t, "send")
    /\ UNCHANGED <<slot, regs, cstat, crsp, flags, cid, dev, cdv, stage, tries,
                   retry, res, hc, ghost>>

LinesFree(k) == ~cmdLine.on /\ (k = "data" => ~datLine.on)

\* Fault: the end of the command is taken for the end of the transfer.
EnablesResponse(k) == {"cd", "cc"}

Enables(k) == IF k = "data" THEN {"cd", "tc"} ELSE {"cd", "cc"}

\* imx6_sdhcx_cmd: once the lines are free, clear every status bit, enable
\* those of this command and send it.
CmdSend(t) ==
    LET k == Kind(stage[t])
    IN  /\ pc[t] = "send" /\ LinesFree(k)
        /\ is' = {}
        /\ WipedBy("cd" \in is)
        /\ ie' = Enables(k)
        /\ cmdLine' = [on |-> TRUE, cur |-> TRUE, kind |-> k, for |-> held]
        /\ Goto(t, "wait")
        /\ UNCHANGED <<slot, resp, datLine, cmd, flags, cid, dev, cdv, stage,
                       tries, retry, res, hc, done, held, late>>

\* imx6_sdhcx_waitmask gives up on a line that stays busy.
CmdInhibited(t) ==
    /\ pc[t] = "send" /\ ~LinesFree(Kind(stage[t]))
    /\ Goto(t, "abort")
    /\ UNCHANGED <<slot, regs, cmd, flags, cid, dev, cdv, stage, tries, retry,
                   res, hc, ghost>>

\* sdio_wait_cmd: the status has been set.  A command that failed is tried
\* again, unless its response says that it is illegal.
CmdDone(t) ==
    /\ pc[t] = "wait" /\ cstat # "INPROG"
    /\ \/ /\ cstat = "ERR" /\ retry[t] > 0
          /\ retry' = [retry EXCEPT ![t] = @ - 1]
          /\ Goto(t, "begin")
          /\ UNCHANGED res
       \/ /\ cstat # "ERR" \/ retry[t] = 0 \/ crsp # NoCard
          /\ res' = [res EXCEPT ![t] = CASE cstat = "CMP" -> "ok"
                                         [] cstat = "REMOVED" -> "enxio"
                                         [] OTHER -> "err"]
          /\ Goto(t, "ret")
          /\ UNCHANGED retry
    /\ UNCHANGED <<slot, regs, cmd, flags, cid, dev, cdv, stage, tries, hc, ghost>>

\* Its time runs out: the command is still under way, or its completion is
\* lost because an earlier one was taken for it.
UnderWay == cmdLine.on \/ datLine.on \/ is # {} \/ hpc # "idle"

CmdTimeOut(t) ==
    /\ pc[t] = "wait" /\ cstat = "INPROG"
    /\ IF UnderWay
         THEN late < MaxLate /\ changes + late < MaxFaults /\ late' = late + 1
         ELSE UNCHANGED late
    /\ Goto(t, "abort")
    /\ UNCHANGED <<slot, regs, cmd, flags, cid, dev, cdv, stage, tries, retry,
                   res, hc, done, held, wiped>>

\* hc->entry.abort does nothing on this controller.
CmdAbort(t) ==
    /\ pc[t] = "abort"
    /\ wspc' = FALSE
    /\ cstat' = "ERR"
    /\ res' = [res EXCEPT ![t] = "err"]
    /\ Goto(t, "ret")
    /\ UNCHANGED <<slot, regs, crsp, flags, cid, dev, cdv, stage, tries, retry,
                   hc, ghost>>

Issue(t) == CmdBegin(t) \/ CmdPoint(t) \/ CmdSend(t) \/ CmdInhibited(t)
              \/ CmdDone(t) \/ CmdTimeOut(t) \/ CmdAbort(t)

-----------------------------------------------------------------------------
(* The block driver's calls: each is counted in and out of the device. *)

\* What a call does first: _sdio_reset loads the flags to clear one of them;
\* _sdio_bus_error only counts the first errors (SDIO_MAX_BUS_ERRS), then
\* sd_bus_error slows the bus down, clearing a flag if a fast mode is on, and
\* sets it up again; the others send their command.
First(s) == CASE s = "reset" -> {"clear"}
              [] s = "buserr" -> {"out", "clear", "begin"}
              [] OTHER -> {"begin"}

Enter(t) ==
    \E l \in First(stage[t]) :
        /\ Goto(t, l)
        /\ seen' = [seen EXCEPT ![t] = IF l = "clear" THEN flags ELSE @]

\* _sdio_synchronize( device, !0, 1 )
SyncIn(t) ==
    /\ pc[t] = "sync"
    /\ IF dev.rmv \/ "media" \in flags
         THEN /\ res' = [res EXCEPT ![t] = "enxio"]
              /\ Goto(t, "next")
              /\ UNCHANGED <<dev, tries, retry, seen>>
         ELSE /\ dev' = [dev EXCEPT !.usage = @ + 1]
              /\ retry' = [retry EXCEPT ![t] = Retries(stage[t])]
              /\ tries' = [tries EXCEPT ![t] = ResetRetries]
              /\ Enter(t)
              /\ UNCHANGED res
    /\ UNCHANGED <<slot, regs, cmd, flags, cid, cdq, cdins, quit, queued, stage, hc,
                   ghost>>

\* Fault: the last one out does not signal.
SyncOutSilent(t) ==
    /\ pc[t] = "out" \/ (pc[t] = "ret" /\ stage[t] \notin {"ident", "reset"})
    /\ dev' = [dev EXCEPT !.usage = @ - 1]
    /\ Goto(t, "next")
    /\ UNCHANGED <<slot, regs, cmd, flags, cid, cdv, stage, tries, retry, res, hc,
                   ghost>>

\* _sdio_synchronize( device, !0, -1 ): the last one out wakes the removal.
SyncOut(t) ==
    /\ pc[t] = "out" \/ (pc[t] = "ret" /\ stage[t] \notin {"ident", "reset"})
    /\ dev' = [dev EXCEPT !.usage = @ - 1]
    /\ pc' = [pc EXCEPT ![t] = "next",
                        !["cd"] = IF t = "cd" THEN "next"
                                  ELSE IF @ = "rmwait" /\ dev'.usage = 0 /\ dev.rmv
                                       THEN "rmtest" ELSE @]
    /\ UNCHANGED <<slot, regs, cmd, flags, cid, cdv, stage, tries, retry, res, hc,
                   ghost>>

\* dev->flags &= ~DEV_FLAG_WCE stores what was loaded, whatever the other
\* threads have made of the flags; then the card is powered off and on.
ResetBegin ==
    /\ pc["drv"] = "clear" /\ stage["drv"] = "reset"
    /\ flags' = seen["drv"] /\ seen' = [seen EXCEPT !["drv"] = {}]
    /\ PowerCycle
    /\ WipedBy("cd" \in is \/ flags # seen["drv"])
    /\ Goto("drv", "begin")
    /\ UNCHANGED <<cmd, cid, dev, cdq, cdins, quit, queued, stage, tries, retry,
                   res, hc, done, held, late>>

\* dev->flags &= ~DEV_FLAG_UHS or ~DEV_FLAG_HS, stored the same way.
BusErrorClear ==
    /\ pc["drv"] = "clear" /\ stage["drv"] = "buserr"
    /\ flags' = seen["drv"] /\ seen' = [seen EXCEPT !["drv"] = {}]
    /\ WipedBy(flags # seen["drv"])
    /\ Goto("drv", "begin")
    /\ UNCHANGED <<slot, regs, cmd, cid, dev, cdq, cdins, quit, queued, stage,
                   tries, retry, res, hc, done, held, late>>

\* The rest of an identification: a card that has sent its CID is addressed
\* and selected.
Identified == mode = "ident"
Select == mode' = "tran" /\ UNCHANGED <<card, changes>>

\* Fault: whatever card answers is taken for the one attached to.
CidAny == crsp # NoCard

\* The CID just read is that of the card attached to.
SameCid == crsp = cid

\* _sdio_reset, after the card has been asked for its CID.
ResetVerdict ==
    LET t == "drv"
    IN  /\ pc[t] = "ret" /\ stage[t] = "reset"
        /\ \/ /\ res[t] = "ok" /\ SameCid /\ Identified
              /\ Select
              /\ Goto(t, "out")
              /\ UNCHANGED <<regs, flags, cdq, tries, retry, wiped>>
           \/ /\ res[t] = "enxio" \/ (res[t] = "ok" /\ ~SameCid)
              /\ sdio_hc_event
              /\ Goto(t, "out")
              /\ UNCHANGED <<slot, regs, tries, retry, wiped>>
           \/ /\ res[t] = "err" \/ (res[t] = "ok" /\ SameCid /\ ~Identified)
              /\ tries' = [tries EXCEPT ![t] = @ - 1]
              /\ IF tries[t] > 1
                   THEN /\ PowerCycle /\ WipedBy("cd" \in is)
                        /\ retry' = [retry EXCEPT ![t] = CmdRetries]
                        /\ Goto(t, "begin")
                   ELSE Goto(t, "out") /\ UNCHANGED <<slot, regs, retry, wiped>>
              /\ UNCHANGED <<flags, cdq>>
        /\ UNCHANGED <<cmd, cid, dev, cdins, seen, quit, queued, stage, res, hc, done,
                       held, late>>

\* sdmmc_rw: what follows a read, or one of the calls made after a failed
\* one.  What the card status says is either answer, and so is whether the
\* failure was a bus error of an SD card, which sdio_bus_error is told of.
After(s, r) ==
    CASE s = "rw" -> CASE r = "err" -> {"status1"}
                       [] r = "ok" -> {"idle", "status2"}
                       [] OTHER -> {"idle"}
      [] s = "status1" -> IF r = "ok" THEN {"status2", "stop"} ELSE {"stop"}
      [] s = "stop" -> {"status2"}
      [] s = "status2" -> {"reset"} \cup {n \in {"idle", "buserr"} : r = "ok"}
      [] s = "reset" -> {"idle", "buserr"}
      [] OTHER -> {"idle"}

DrvNext ==
    /\ pc["drv"] = "next"
    /\ \E s \in After(stage["drv"], res["drv"]) :
         /\ stage' = [stage EXCEPT !["drv"] = IF s = "idle" THEN "none" ELSE s]
         /\ Goto("drv", IF s = "idle" THEN "idle" ELSE "sync")
    /\ Return("drv")
    /\ UNCHANGED <<slot, regs, wspc, flags, cid, dev, cdv, hc, held, late, wiped>>

\* A request is taken from the queue.
TakeRequest ==
    /\ pc["drv"] = "idle"
    /\ stage' = [stage EXCEPT !["drv"] = "rw"]
    /\ Goto("drv", "sync")
    /\ UNCHANGED <<slot, regs, cmd, flags, cid, dev, cdq, cdins, seen, quit, tries,
                   retry, res, hc, ghost>>

DrvRequest == ~quit /\ TakeRequest /\ UNCHANGED queued

\* What is still queued when the channel is destroyed is served before the
\* thread receives again.
DrvDrain == quit /\ queued > 0 /\ TakeRequest /\ queued' = queued - 1

\* The queue is empty; the receive on the destroyed channel fails and the
\* thread ends.
DrvExit ==
    /\ pc["drv"] = "idle" /\ quit /\ queued = 0
    /\ Goto("drv", "none")
    /\ UNCHANGED <<slot, regs, cmd, flags, cid, dev, cdv, stage, tries, retry, res,
                   hc, ghost>>

DrvThread == Issue("drv") \/ SyncIn("drv") \/ SyncOut("drv") \/ ResetBegin
               \/ BusErrorClear \/ ResetVerdict \/ DrvNext \/ DrvDrain \/ DrvExit

-----------------------------------------------------------------------------
(* The cd thread: sdio_cd. *)

CdPulse ==
    /\ pc["cd"] = "idle" /\ cdq > 0
    /\ cdq' = cdq - 1
    /\ cdins' = (card # NoCard)
    /\ Goto("cd", "change")
    /\ UNCHANGED <<slot, regs, cmd, flags, cid, dev, seen, quit, queued, stage, tries,
                   retry, res, hc, ghost>>

CdChange ==
    /\ pc["cd"] = "change"
    /\ IF "media" \in flags \/ ~cdins
         THEN /\ flags' = flags \ {"media", "invalid"}
              /\ Goto("cd", IF "present" \in flags THEN "gone" ELSE "insert")
         ELSE /\ Goto("cd", "insert")
              /\ UNCHANGED flags
    /\ UNCHANGED <<slot, regs, cmd, cid, dev, cdv, stage, tries, retry, res, hc, ghost>>

\* Fault: a device in use is left alone.
CdGoneNotIfBusy ==
    /\ pc["cd"] = "gone"
    /\ flags' = flags \ {"present"}
    /\ IF dev.live /\ dev.usage = 0
         THEN dev' = [dev EXCEPT !.rmv = TRUE] /\ Goto("cd", "remove")
         ELSE Goto("cd", "poweroff") /\ UNCHANGED dev
    /\ UNCHANGED <<slot, regs, cmd, cid, cdv, stage, tries, retry, res, hc, ghost>>

\* No new call gets in; those inside are waited for.
CdGone ==
    /\ pc["cd"] = "gone"
    /\ flags' = flags \ {"present"}
    /\ IF dev.live
         THEN /\ dev' = [dev EXCEPT !.rmv = TRUE]
              /\ Goto("cd", IF dev.usage = 0 THEN "remove" ELSE "rmwait")
         ELSE Goto("cd", "poweroff") /\ UNCHANGED dev
    /\ UNCHANGED <<slot, regs, cmd, cid, cdv, stage, tries, retry, res, hc, ghost>>

CdWoken ==
    /\ pc["cd"] = "rmtest"
    /\ Goto("cd", IF dev.usage = 0 THEN "remove" ELSE "rmwait")
    /\ UNCHANGED <<slot, regs, cmd, flags, cid, dev, cdv, stage, tries, retry, res, hc,
                   ghost>>

\* sdmmc_sdio_removal, sdmmc_detach: destroy the channel, join the thread ...
CdRemove ==
    /\ pc["cd"] = "remove"
    /\ quit' = TRUE /\ queued' \in 0..MaxQueued
    /\ Goto("cd", "join")
    /\ UNCHANGED <<slot, regs, cmd, flags, cid, dev, cdq, cdins, seen, stage, tries,
                   retry, res, hc, ghost>>

\* Fault: the thread is not waited for.
CdJoinAtOnce ==
    /\ pc["cd"] = "join"
    /\ dev' = IF dev.usage = 0 THEN NoDev ELSE dev
    /\ Goto("cd", "poweroff")
    /\ UNCHANGED <<slot, regs, cmd, flags, cid, cdv, stage, tries, retry, res, hc,
                   ghost>>

\* ... and detach from the device, unless it is in use.
CdJoin ==
    /\ pc["cd"] = "join" /\ pc["drv"] = "none"
    /\ dev' = IF dev.usage = 0 THEN NoDev ELSE dev
    /\ Goto("cd", "poweroff")
    /\ UNCHANGED <<slot, regs, cmd, flags, cid, cdv, stage, tries, retry, res, hc,
                   ghost>>

CdPowerOff ==
    /\ pc["cd"] = "poweroff"
    /\ IF cdins THEN UNCHANGED <<slot, regs, wiped>>
                ELSE PowerCycle /\ WipedBy("cd" \in is)
    /\ Goto("cd", "insert")
    /\ UNCHANGED <<cmd, flags, cid, dev, cdv, stage, tries, retry, res, hc, done, held, late>>

\* _sdio_attach begins by clearing all that is known of the device.
CdInsert ==
    /\ pc["cd"] = "insert"
    /\ IF cdins /\ flags \cap {"present", "invalid"} = {}
         THEN /\ flags' = {} /\ cid' = NoCard /\ held' = NoCard
              /\ PowerCycle
              /\ WipedBy("cd" \in is \/ "media" \in flags)
              /\ stage' = [stage EXCEPT !["cd"] = "ident"]
              /\ tries' = [tries EXCEPT !["cd"] = Clocks]
              /\ retry' = [retry EXCEPT !["cd"] = CmdRetries]
              /\ Goto("cd", "begin")
         ELSE /\ Goto("cd", "idle")
              /\ UNCHANGED <<slot, regs, flags, cid, stage, tries, retry, held,
                             wiped>>
    /\ UNCHANGED <<cmd, dev, cdv, res, hc, done, late>>

IdentVerdict ==
    /\ pc["cd"] = "ret" /\ stage["cd"] = "ident"
    /\ IF res["cd"] = "ok" /\ Identified
         THEN /\ cid' = crsp /\ held' = card
              /\ Select
              /\ seen' = [seen EXCEPT !["cd"] = flags]
              /\ Goto("cd", "mark")
              /\ UNCHANGED <<regs, flags, tries, retry, wiped>>
         ELSE /\ tries' = [tries EXCEPT !["cd"] = @ - 1]
              /\ PowerCycle
              /\ WipedBy("cd" \in is)
              /\ IF tries["cd"] > 1
                   THEN /\ retry' = [retry EXCEPT !["cd"] = CmdRetries]
                        /\ Goto("cd", "begin")
                        /\ UNCHANGED flags
                   ELSE /\ flags' = flags \cup {"invalid"}
                        /\ Goto("cd", "idle")
                        /\ UNCHANGED retry
              /\ UNCHANGED <<cid, held, seen>>
    /\ UNCHANGED <<cmd, dev, cdq, cdins, quit, queued, stage, res, hc, done, late>>

\* dev->flags |= DEV_FLAG_PRESENT, a plain load and store; then sdmmc_attach
\* takes the device and sets the card up.
CdMark ==
    /\ pc["cd"] = "mark"
    /\ flags' = seen["cd"] \cup {"present"}
    /\ WipedBy(flags # seen["cd"])
    /\ dev' = [live |-> TRUE, rmv |-> FALSE, usage |-> 0]
    /\ stage' = [stage EXCEPT !["cd"] = "config"]
    /\ Goto("cd", "sync")
    /\ UNCHANGED <<slot, regs, cmd, cid, cdv, tries, retry, res, hc, done, held, late>>

\* sdmmc_reg: start the driver thread.
CdRegister ==
    /\ pc["cd"] = "next"
    /\ pc' = [drv |-> "idle", cd |-> "idle"]
    /\ stage' = [drv |-> "none", cd |-> "none"]
    /\ quit' = FALSE /\ cdins' = FALSE /\ seen' = [seen EXCEPT !["cd"] = {}]
    /\ Return("cd")
    /\ UNCHANGED <<slot, regs, wspc, flags, cid, dev, cdq, queued, hc, held, late,
                   wiped>>

CdThread == Issue("cd") \/ SyncIn("cd") \/ SyncOut("cd") \/ CdPulse \/ CdChange
              \/ CdGone \/ CdWoken \/ CdRemove \/ CdJoin \/ CdPowerOff \/ CdInsert
              \/ IdentVerdict \/ CdMark \/ CdRegister

-----------------------------------------------------------------------------
Next == ChangeCard \/ Controller \/ HcThread \/ DrvThread \/ DrvRequest \/ CdThread

Fairness == WF_vars(Controller) /\ WF_vars(HcThread)
              /\ WF_vars(DrvThread) /\ WF_vars(CdThread)

Spec == Init /\ [][Next]_vars /\ Fairness

-----------------------------------------------------------------------------
(* Properties. *)

Slot == Card \cup {NoCard}
Status == {"INPROG", "CMP", "ERR", "REMOVED"}
DevFlags == {"media", "present", "invalid"}
Issuing == {"begin", "point", "send", "wait", "abort", "ret", "out", "clear"}
Pcs == Issuing \cup {"none", "idle", "sync", "next", "change", "gone", "rmwait",
                     "rmtest", "remove", "join", "poweroff", "insert", "mark"}
Stages == {"none", "rw", "status1", "status2", "stop", "reset", "buserr",
           "ident", "config"}

Bits == {"cd", "cc", "tc", "err"}
CmdLines == {NoLine} \cup [on : {TRUE}, cur : BOOLEAN,
                           kind : {"data", "ident", "stop", "ac"}, for : Slot]
DatLines == {NoLine} \cup [on : {TRUE}, cur : BOOLEAN, card : Slot, for : Slot]
Devices == {NoDev} \cup [live : {TRUE}, rmv : BOOLEAN, usage : 0..1]

BusType ==
    /\ card \in Slot /\ mode \in {"off", "ident", "tran"} /\ changes \in Nat
    /\ is \in SUBSET Bits /\ ie \in SUBSET Bits /\ resp \in Slot
LineType == cmdLine \in CmdLines /\ datLine \in DatLines
CmdType ==
    /\ wspc \in BOOLEAN /\ cstat \in Status /\ crsp \in Slot
    /\ hpc \in {"idle", "fetch", "cmplt"} /\ hcs \in Status /\ sts \in SUBSET Bits
    /\ done \in BOOLEAN /\ late \in Nat
FlagType ==
    /\ flags \in SUBSET DevFlags /\ seen \in [Thread -> SUBSET DevFlags]
    /\ cid \in Slot /\ held \in Slot /\ wiped \in BOOLEAN
    /\ cdins \in BOOLEAN /\ quit \in BOOLEAN
    /\ cdq \in 0..MaxPulses /\ queued \in 0..MaxQueued
DevType == dev \in Devices
ThreadType ==
    /\ pc \in [Thread -> Pcs] /\ stage \in [Thread -> Stages]
    /\ tries \in [Thread -> Nat] /\ retry \in [Thread -> Nat]
    /\ res \in [Thread -> {"ok", "err", "enxio"}]

\* The types of the state.
TypeOK == BusType /\ LineType /\ CmdType /\ FlagType /\ DevType /\ ThreadType

\* One command at a time.  Nothing in sdio_issue_cmd keeps two threads from
\* issuing at once (wspc.cmd and the controller are shared and there is no
\* lock around them); it is the counting of calls, the pending flag and the
\* order of the removal that keep the cd thread's identification away from
\* the commands of the driver thread.
OneIssuer == ~(pc["drv"] \in Issuing /\ pc["cd"] \in Issuing)

\* A device is not freed under a caller: while a thread is inside a call on
\* the device or about to make one, sdio_detach has not freed it, and the
\* driver thread never outlives the device it was started for.
DeviceOutlivesUsers ==
    \/ dev.live
    \/ pc["drv"] = "none" /\ pc["cd"] \notin {"sync", "next"}

\* A read is only ever served by the card the block driver was attached to:
\* a card swapped in before the change is noticed is not identified, and a
\* reset that would identify it compares its CID.  Once a command has been
\* given up with its completion still to come nothing is claimed, as that
\* completion can pass for the answer to the request for the CID.
RightCard == datLine.on /\ late = 0 => datLine.for = datLine.card

\* A command is reported complete only after the controller has executed it.
RightCompletion ==
    \A t \in Thread : pc[t] = "ret" /\ res[t] = "ok" => done

\* The same for as long as no command has been given up: imx6_sdhcx_abort
\* leaves the controller at work on it, and its late interrupt is taken for
\* that of the next command.
RightUnlessLate == late = 0 => RightCompletion

\* Nothing is left to be done about a change of the card.
Quiet ==
    pc["cd"] = "idle" /\ cdq = 0 /\ hpc = "idle" /\ is = {} /\ "media" \notin flags

\* Once all is quiet the driver is attached to the card that is in the slot,
\* to no card when it is empty, and a card that is not attached was refused.
ChangeNoticed ==
    Quiet => /\ "present" \in flags => card = held
             /\ card # NoCard => flags \cap {"present", "invalid"} # {}

\* A change of card goes unnoticed only when its record was overwritten: the
\* status register cleared for a command or by a reset, or the flags of the
\* device cleared by _sdio_attach, or stored by an unlocked update of another
\* bit while a thread was changing them.
NoticedUnlessWiped == ~wiped => ChangeNoticed

\* Once a removal has begun the block driver is detached: commands end, by
\* their time limit if nothing else, the last caller out wakes the waiting
\* cd thread, and the driver thread ends.
RemovalCompletes == (dev.live /\ pc["cd"] \in {"rmwait", "remove"}) ~> ~dev.live

=============================================================================
