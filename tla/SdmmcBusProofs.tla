--------------------------- MODULE SdmmcBusProofs ---------------------------
(***************************************************************************)
(* Theorems about SdmmcBus, for any set of cards, any numbers of retries   *)
(* and pulses, and any number of insertions, removals and late commands.   *)
(***************************************************************************)
EXTENDS SdmmcBus, TLAPS

-----------------------------------------------------------------------------
(* The inductive invariant: where the threads are and whose the device is. *)

\* Where a thread is tells at which of its commands it is.
StageOK ==
    /\ stage["cd"] \in {"none", "ident", "config"}
    /\ pc["cd"] \in Pcs \ {"none", "clear", "out"}
    /\ pc["cd"] = "mark" => stage["cd"] = "ident"
    /\ pc["cd"] \in {"sync", "next"} => stage["cd"] = "config"
    /\ pc["cd"] \in Issuing => stage["cd"] \in {"ident", "config"}
    /\ stage["drv"] \in Stages \ {"ident", "config"}
    /\ pc["drv"] \in Issuing \cup {"none", "idle", "sync", "next"}
    /\ pc["drv"] \in {"clear", "out"} => stage["drv"] \in {"reset", "buserr"}
    /\ \A t \in Thread : pc[t] \in Issuing \ {"out"} => tries[t] > 0

Removing == {"rmwait", "rmtest", "remove", "join"}

\* The count of the device is of the one thread inside; a device that is not
\* being removed is marked present; the cd thread identifies a card and sets
\* it up only when there is no driver thread.
DevOK ==
    /\ dev.live =>
         /\ ~dev.rmv => "present" \in flags
         /\ dev.rmv <=> pc["cd"] \in Removing
         /\ dev.usage = IF pc["drv"] \in Issuing \/ pc["cd"] \in Issuing THEN 1 ELSE 0
    /\ ~dev.live => pc["drv"] = "none" /\ pc["cd"] \notin {"sync", "next"} \cup Removing
    /\ pc["cd"] \in Issuing \cup {"sync", "next"} => pc["drv"] = "none"
    /\ pc["cd"] \in Issuing => (stage["cd"] = "config" <=> dev.live)
    /\ pc["cd"] \in {"mark", "poweroff"} => ~dev.live
    /\ pc["drv"] = "clear" => "present" \in seen["drv"]

SlotInv == TypeOK /\ StageOK /\ DevOK

-----------------------------------------------------------------------------
\* A line in use, and a device there is, have the fields of one.
LEMMA CmdOn ==
    ASSUME NEW c \in CmdLines, c.on
    PROVE  c \in [on : {TRUE}, cur : BOOLEAN, kind : {"data", "ident", "stop", "ac"},
                  for : Slot]
<1>1. NoLine.on = FALSE
  BY DEF NoLine
<1>2. c # NoLine
  BY <1>1
<1> QED BY <1>2 DEF CmdLines

LEMMA DatOn ==
    ASSUME NEW d \in DatLines, d.on
    PROVE  d \in [on : {TRUE}, cur : BOOLEAN, card : Slot, for : Slot]
<1>1. NoLine.on = FALSE
  BY DEF NoLine
<1>2. d # NoLine
  BY <1>1
<1> QED BY <1>2 DEF DatLines

LEMMA DevOn ==
    ASSUME NEW d \in Devices, d.live
    PROVE  d \in [live : {TRUE}, rmv : BOOLEAN, usage : 0..1]
<1>1. NoDev.live = FALSE
  BY DEF NoDev
<1>2. d # NoDev
  BY <1>1
<1> QED BY <1>2 DEF Devices

\* The controller, the card and the hc thread touch neither the device nor
\* the threads: they only record a change.
HwStep == ChangeCard \/ Controller \/ HcThread
LEMMA HwLocal ==
    ASSUME HwStep
    PROVE  /\ UNCHANGED <<dev, pc, stage, tries, retry, res, seen, cid, held, late,
                          wiped, quit, queued, cdins>>
           /\ flags' = flags \/ flags' = flags \cup {"media"}
BY DEF HwStep, ChangeCard, Controller, RespOk, RespError, DataEnd,
       DataError, HcThread, IntrRead, IntrDecide, sdio_cmd_cmplt, sdio_hc_event,
       thr, cdv, ghost

\* The steps of issuing a command keep the thread inside.
LEMMA IssueLocal ==
    ASSUME NEW t \in Thread, Issue(t), ThreadType
    PROVE  /\ UNCHANGED <<dev, stage, tries, seen, flags, cid, held, quit, queued,
                          cdins, cdq>>
           /\ pc[t] \in Issuing \ {"clear", "out"} /\ pc'[t] \in Issuing \ {"clear", "out"}
           /\ \A u \in Thread : u # t => pc'[u] = pc[u]
<1> USE DEF ThreadType, Issue, Goto, cdv, ghost, Issuing
<1>1. CASE CmdBegin(t) \/ CmdPoint(t) \/ CmdSend(t) \/ CmdInhibited(t)
  BY <1>1 DEF CmdBegin, CmdPoint, CmdSend, CmdInhibited
<1>2. CASE CmdDone(t) \/ CmdTimeOut(t) \/ CmdAbort(t)
  BY <1>2 DEF CmdDone, CmdTimeOut, CmdAbort
<1> QED BY <1>1, <1>2

-----------------------------------------------------------------------------
LEMMA StageStep ==
    ASSUME TypeOK, StageOK, [Next]_vars
    PROVE  StageOK'
<1> USE SlotAssumption DEF TypeOK, ThreadType, StageOK, Thread, Issuing, Pcs, Stages, Goto
<1>1. CASE HwStep
  BY <1>1, HwLocal
<1>2. ASSUME NEW t \in Thread, Issue(t) PROVE StageOK'
  BY <1>2, IssueLocal
<1>3. ASSUME NEW t \in Thread, SyncIn(t) PROVE StageOK'
  BY <1>3 DEF SyncIn, Enter, First
<1>4. ASSUME NEW t \in Thread, SyncOut(t) PROVE StageOK'
  BY <1>4 DEF SyncOut
<1>5. CASE ResetBegin \/ BusErrorClear
  BY <1>5 DEF ResetBegin, BusErrorClear
<1>6. CASE ResetVerdict
  BY <1>6 DEF ResetVerdict
<1>7. CASE DrvNext
  BY <1>7 DEF DrvNext, After, Return
<1>8. CASE DrvRequest \/ DrvDrain \/ DrvExit
  BY <1>8 DEF DrvRequest, DrvDrain, TakeRequest, DrvExit
<1>9. CASE CdPulse \/ CdChange \/ CdGone \/ CdWoken
  BY <1>9 DEF CdPulse, CdChange, CdGone, CdWoken, thr
<1>10. CASE CdRemove \/ CdJoin \/ CdPowerOff
  BY <1>10 DEF CdRemove, CdJoin, CdPowerOff
<1>11. CASE CdInsert
  BY <1>11 DEF CdInsert
<1>12. CASE IdentVerdict
  BY <1>12 DEF IdentVerdict
<1>13. CASE CdMark
  BY <1>13 DEF CdMark
<1>14. CASE CdRegister
  BY <1>14 DEF CdRegister, Return
<1>15. CASE UNCHANGED vars
  BY <1>15 DEF vars, thr
<1> QED BY <1>1, <1>2, <1>3, <1>4, <1>5, <1>6, <1>7, <1>8, <1>9, <1>10, <1>11, <1>12,
           <1>13, <1>14, <1>15
        DEF Next, HwStep, DrvThread, CdThread

LEMMA DevStep ==
    ASSUME TypeOK, StageOK, DevOK, [Next]_vars
    PROVE  DevOK'
<1> USE DEF TypeOK, ThreadType, FlagType, DevType, Devices, StageOK, DevOK, Thread,
        Issuing, Removing, NoDev, Goto
<1>1. CASE HwStep
  BY <1>1, HwLocal
<1>2. ASSUME NEW t \in Thread, Issue(t) PROVE DevOK'
  BY <1>2, IssueLocal
<1>3. ASSUME NEW t \in Thread, SyncIn(t) PROVE DevOK'
  <2>0. /\ pc[t] = "sync" /\ UNCHANGED <<flags, stage>>
        /\ dev.live /\ (t = "cd" => stage["cd"] = "config")
    BY <1>3 DEF SyncIn
  <2>1. /\ pc[t] = "sync" /\ UNCHANGED <<flags, stage>>
        /\ dev.live /\ dev \in [live : {TRUE}, rmv : BOOLEAN, usage : 0..1]
        /\ t = "cd" => stage["cd"] = "config"
    BY <2>0, DevOn
  <2>2. CASE pc'[t] = "next"
    <3>1. dev' = dev /\ seen' = seen /\ pc' = [pc EXCEPT ![t] = "next"]
      BY <1>3, <2>2 DEF SyncIn, Enter, First
    <3> QED BY <2>1, <3>1
  <2>3. CASE pc'[t] # "next"
    <3>1. /\ ~dev.rmv /\ dev' = [dev EXCEPT !.usage = @ + 1]
          /\ \E l \in First(stage[t]) :
               /\ pc' = [pc EXCEPT ![t] = l]
               /\ seen' = [seen EXCEPT ![t] = IF l = "clear" THEN flags ELSE @]
      BY <1>3, <2>3 DEF SyncIn, Enter
    <3>2. dev'.live /\ dev'.rmv = dev.rmv /\ dev'.usage = dev.usage + 1
      BY <2>1, <3>1
    <3>3. CASE t = "drv"
      BY <2>1, <3>1, <3>2, <3>3 DEF First
    <3>4. CASE t = "cd"
      BY <2>1, <3>1, <3>2, <3>4 DEF First
    <3> QED BY <3>3, <3>4
  <2> QED BY <2>2, <2>3
<1>4. ASSUME NEW t \in Thread, SyncOut(t) PROVE DevOK'
  BY <1>4 DEF SyncOut, cdv
<1>5. CASE ResetBegin \/ BusErrorClear
  BY <1>5 DEF ResetBegin, BusErrorClear
<1>6. CASE ResetVerdict
  BY <1>6 DEF ResetVerdict, sdio_hc_event
<1>7. CASE DrvNext
  BY <1>7 DEF DrvNext, After, Return, cdv
<1>8. CASE DrvRequest \/ DrvDrain \/ DrvExit
  BY <1>8 DEF DrvRequest, DrvDrain, TakeRequest, DrvExit, cdv
<1>9. CASE CdPulse \/ CdChange
  BY <1>9 DEF CdPulse, CdChange, cdv
<1>10. CASE CdGone \/ CdWoken
  <2>1. CASE CdGone /\ dev.live
    <3>1. /\ UNCHANGED <<seen, stage>> /\ dev' = [dev EXCEPT !.rmv = TRUE]
          /\ pc' = [pc EXCEPT !["cd"] = IF dev.usage = 0 THEN "remove" ELSE "rmwait"]
      BY <2>1 DEF CdGone, cdv
    <3>2. dev'.live /\ dev'.rmv /\ dev'.usage = dev.usage
      BY <2>1, <3>1
    <3> QED BY <2>1, <3>1, <3>2 DEF CdGone
  <2>2. CASE CdGone /\ ~dev.live
    BY <2>2 DEF CdGone, cdv
  <2>3. CASE CdWoken
    BY <2>3 DEF CdWoken, cdv
  <2> QED BY <1>10, <2>1, <2>2, <2>3
<1>11. CASE CdRemove \/ CdJoin \/ CdPowerOff
  BY <1>11 DEF CdRemove, CdJoin, CdPowerOff, cdv
<1>12. CASE CdInsert
  BY <1>12 DEF CdInsert, cdv
<1>13. CASE IdentVerdict
  BY <1>13 DEF IdentVerdict
<1>14. CASE CdMark
  BY <1>14 DEF CdMark, cdv
<1>15. CASE CdRegister
  BY <1>15 DEF CdRegister, Return
<1>16. CASE UNCHANGED vars
  BY <1>16 DEF vars, thr, cdv
<1> QED BY <1>1, <1>2, <1>3, <1>4, <1>5, <1>6, <1>7, <1>8, <1>9, <1>10, <1>11, <1>12,
           <1>13, <1>14, <1>15, <1>16
        DEF Next, HwStep, DrvThread, CdThread

-----------------------------------------------------------------------------
\* Every step keeps the types of the slot and the controller's registers ...
LEMMA BusTypeStep ==
    ASSUME TypeOK, [Next]_vars
    PROVE  BusType'
<1>0. BusType /\ NoCard \in Slot /\ Card \subseteq Slot
  BY DEF TypeOK, Slot
<1> USE DEF BusType, slot, regs
<1>1. CASE ChangeCard
  <2>1. is' \in SUBSET Bits
    BY <1>0, <1>1 DEF ChangeCard, Raise, Bits
  <2>2. /\ UNCHANGED <<ie, resp>> /\ mode' = "off" /\ changes' = changes + 1
        /\ card' \in Card \/ card' = NoCard
    BY <1>1 DEF ChangeCard
  <2> QED BY <1>0, <2>1, <2>2
<1>2. CASE RespOk
  <2>1. is' \in SUBSET Bits
    BY <1>0, <1>2 DEF RespOk, Raise, Bits
  <2>2. /\ UNCHANGED <<ie, card, changes>> /\ resp' = card
        /\ mode' = "ident" \/ mode' = mode
    BY <1>2 DEF RespOk
  <2> QED BY <1>0, <2>1, <2>2
<1>3. CASE RespError \/ DataEnd \/ DataError
  <2>1. is' \in SUBSET Bits
    BY <1>0, <1>3 DEF RespError, DataEnd, DataError, Raise, Bits
  <2>2. UNCHANGED <<slot, ie, resp>>
    BY <1>3 DEF RespError, DataEnd, DataError
  <2> QED BY <1>0, <2>1, <2>2
<1>4. CASE HcThread
  BY <1>0, <1>4 DEF HcThread, IntrRead, IntrDecide, sdio_cmd_cmplt
<1>5. ASSUME NEW t \in Thread, Issue(t) \/ SyncIn(t) \/ SyncOut(t) PROVE BusType'
  <2>1. Enables(Kind(stage[t])) \in SUBSET Bits
    BY DEF Kind, Enables, Bits
  <2>2. is' = is \/ is' = {}
    BY <1>5 DEF Issue, CmdBegin, CmdPoint, CmdSend, CmdInhibited, CmdDone, CmdTimeOut,
                CmdAbort, SyncIn, SyncOut
  <2>3. ie' = ie \/ ie' = Enables(Kind(stage[t]))
    BY <1>5 DEF Issue, CmdBegin, CmdPoint, CmdSend, CmdInhibited, CmdDone, CmdTimeOut,
                CmdAbort, SyncIn, SyncOut
  <2>4. UNCHANGED <<slot, resp>>
    BY <1>5 DEF Issue, CmdBegin, CmdPoint, CmdSend, CmdInhibited, CmdDone, CmdTimeOut,
                CmdAbort, SyncIn, SyncOut
  <2> QED BY <1>0, <2>1, <2>2, <2>3, <2>4
<1>6. CASE ResetBegin \/ BusErrorClear \/ ResetVerdict
  BY <1>0, <1>6 DEF ResetBegin, BusErrorClear, ResetVerdict, PowerCycle, Select
<1>7. CASE DrvNext \/ DrvRequest \/ DrvDrain \/ DrvExit
  BY <1>0, <1>7 DEF DrvNext, DrvRequest, DrvDrain, TakeRequest, DrvExit
<1>8. CASE CdPulse \/ CdChange \/ CdGone \/ CdWoken \/ CdRemove \/ CdJoin
  BY <1>0, <1>8 DEF CdPulse, CdChange, CdGone, CdWoken, CdRemove, CdJoin
<1>9. CASE CdPowerOff \/ CdInsert \/ IdentVerdict
  BY <1>0, <1>9 DEF CdPowerOff, CdInsert, IdentVerdict, PowerCycle, Select
<1>10. CASE CdMark \/ CdRegister \/ UNCHANGED vars
  BY <1>0, <1>10 DEF CdMark, CdRegister, vars
<1> HIDE DEF BusType, slot, regs
<1> QED BY <1>1, <1>2, <1>3, <1>4, <1>5, <1>6, <1>7, <1>8, <1>9, <1>10
        DEF Next, Controller, DrvThread, CdThread, Thread

\* ... of the command and the transfer under way ...
LEMMA LineTypeStep ==
    ASSUME TypeOK, [Next]_vars
    PROVE  LineType'
<1>0. /\ cmdLine \in CmdLines /\ datLine \in DatLines
      /\ NoLine \in CmdLines /\ NoLine \in DatLines
  BY DEF TypeOK, LineType, CmdLines, DatLines
<1> USE DEF LineType, regs
<1>1. CASE ChangeCard
  BY <1>0, <1>1 DEF ChangeCard
<1>2. CASE RespOk
  <2>1. cmdLine.on => cmdLine.cur \in BOOLEAN /\ cmdLine.for \in Slot
    BY <1>0, CmdOn
  <2>2. cmdLine.on => [on |-> TRUE, cur |-> cmdLine.cur, card |-> card,
                       for |-> cmdLine.for] \in DatLines
    BY <2>1 DEF DatLines, TypeOK, BusType
  <2> QED BY <1>0, <1>2, <2>2 DEF RespOk
<1>3. CASE RespError \/ DataEnd \/ DataError
  BY <1>0, <1>3 DEF RespError, DataEnd, DataError
<1>4. datLine.on => [datLine EXCEPT !.cur = FALSE] \in DatLines
  BY <1>0 DEF DatLines, NoLine
<1>6. CASE HcThread
  BY <1>0, <1>4, <1>6 DEF HcThread, IntrRead, IntrDecide, sdio_cmd_cmplt
<1>7. ASSUME NEW t \in Thread, CmdBegin(t) PROVE LineType'
  <2>1. cmdLine.on => [cmdLine EXCEPT !.cur = FALSE] \in CmdLines
    BY <1>0 DEF CmdLines, NoLine
  <2> QED BY <1>0, <1>4, <1>7, <2>1 DEF CmdBegin, Old
<1>8. ASSUME NEW t \in Thread, CmdSend(t) PROVE LineType'
  <2>1. Kind(stage[t]) \in {"data", "ident", "stop", "ac"} /\ held \in Slot
    BY DEF Kind, TypeOK, FlagType
  <2>2. [on |-> TRUE, cur |-> TRUE, kind |-> Kind(stage[t]), for |-> held] \in CmdLines
    BY <2>1 DEF CmdLines
  <2> QED BY <1>0, <1>8, <2>2 DEF CmdSend
<1>9. ASSUME NEW t \in Thread, \/ CmdPoint(t) \/ CmdInhibited(t) \/ CmdDone(t)
                               \/ CmdTimeOut(t) \/ CmdAbort(t) \/ SyncIn(t) \/ SyncOut(t)
      PROVE  LineType'
  BY <1>0, <1>9 DEF CmdPoint, CmdInhibited, CmdDone, CmdTimeOut, CmdAbort, SyncIn, SyncOut
<1>10. CASE ResetBegin \/ BusErrorClear \/ ResetVerdict
  BY <1>0, <1>10 DEF ResetBegin, BusErrorClear, ResetVerdict, PowerCycle
<1>11. CASE DrvNext \/ DrvRequest \/ DrvDrain \/ DrvExit
  BY <1>0, <1>11 DEF DrvNext, DrvRequest, DrvDrain, TakeRequest, DrvExit
<1>12. CASE CdPulse \/ CdChange \/ CdGone \/ CdWoken \/ CdRemove \/ CdJoin
  BY <1>0, <1>12 DEF CdPulse, CdChange, CdGone, CdWoken, CdRemove, CdJoin
<1>13. CASE CdPowerOff \/ CdInsert \/ IdentVerdict
  BY <1>0, <1>13 DEF CdPowerOff, CdInsert, IdentVerdict, PowerCycle
<1>14. CASE CdMark \/ CdRegister \/ UNCHANGED vars
  BY <1>0, <1>14 DEF CdMark, CdRegister, vars
<1> HIDE DEF LineType, regs
<1> QED BY <1>1, <1>2, <1>3, <1>6, <1>7, <1>8, <1>9, <1>10, <1>11, <1>12,
           <1>13, <1>14
        DEF Next, Controller, DrvThread, CdThread, Issue, Thread

\* ... of what is known of the command and of the hc thread ...
LEMMA CmdTypeStep ==
    ASSUME TypeOK, [Next]_vars
    PROVE  CmdType'
<1>0. /\ CmdType /\ NoCard \in Slot /\ resp \in Slot /\ is \in SUBSET Bits
      /\ cmdLine.on => cmdLine.cur \in BOOLEAN
      /\ datLine.on => datLine.cur \in BOOLEAN
  BY CmdOn, DatOn DEF TypeOK, BusType, Slot, LineType
<1> USE DEF CmdType, Status, cmd, hc, ghost
<1>1. CASE ChangeCard \/ RespError \/ DataError
  BY <1>0, <1>1 DEF ChangeCard, RespError, DataError
<1>2. CASE RespOk \/ DataEnd
  <2>1. done' \in BOOLEAN
    BY <1>0, <1>2, Zenon DEF RespOk, DataEnd
  <2> QED BY <1>0, <1>2, <2>1 DEF RespOk, DataEnd
<1>4. CASE IntrRead \/ sdio_cmd_cmplt
  BY <1>0, <1>4 DEF IntrRead, sdio_cmd_cmplt
<1>5. CASE IntrDecide
  <2>1. done' \in BOOLEAN
    BY <1>0, <1>5 DEF IntrDecide
  <2>2. hcs' \in Status /\ hpc' \in {"idle", "cmplt"} /\ sts' = {} /\ UNCHANGED <<wspc, cstat, late>>
    BY <1>0, <1>5 DEF IntrDecide, ErrorStatus
  <2>3. crsp' = crsp \/ crsp' = resp
    BY <1>5 DEF IntrDecide
  <2> QED BY <1>0, <2>1, <2>2, <2>3
<1>6. ASSUME NEW t \in Thread, CmdBegin(t) \/ CmdPoint(t) \/ CmdSend(t) \/ CmdInhibited(t)
      PROVE  CmdType'
  BY <1>0, <1>6 DEF CmdBegin, CmdPoint, CmdSend, CmdInhibited
<1>7. ASSUME NEW t \in Thread, CmdDone(t) \/ CmdAbort(t) \/ SyncIn(t) \/ SyncOut(t)
      PROVE  CmdType'
  BY <1>0, <1>7 DEF CmdDone, CmdAbort, SyncIn, SyncOut
<1>8. ASSUME NEW t \in Thread, CmdTimeOut(t) PROVE CmdType'
  BY <1>0, <1>8 DEF CmdTimeOut
<1>9. CASE ResetBegin \/ BusErrorClear \/ ResetVerdict
  BY <1>0, <1>9 DEF ResetBegin, BusErrorClear, ResetVerdict
<1>10. CASE DrvNext \/ DrvRequest \/ DrvDrain \/ DrvExit
  BY <1>0, <1>10 DEF DrvNext, Return, DrvRequest, DrvDrain, TakeRequest, DrvExit
<1>11. CASE CdPulse \/ CdChange \/ CdGone \/ CdWoken \/ CdRemove \/ CdJoin
  BY <1>0, <1>11 DEF CdPulse, CdChange, CdGone, CdWoken, CdRemove, CdJoin
<1>12. CASE CdPowerOff \/ CdInsert \/ IdentVerdict
  BY <1>0, <1>12 DEF CdPowerOff, CdInsert, IdentVerdict
<1>13. CASE CdMark \/ CdRegister \/ UNCHANGED vars
  BY <1>0, <1>13 DEF CdMark, CdRegister, Return, vars
<1> HIDE DEF CmdType, Status, cmd, hc, ghost
<1> QED BY <1>1, <1>2, <1>4, <1>5, <1>6, <1>7, <1>8, <1>9, <1>10, <1>11, <1>12, <1>13
        DEF Next, Controller, HcThread, DrvThread, CdThread, Issue, Thread

\* ... of the flags and of what the cd thread knows ...
LEMMA FlagTypeStep ==
    ASSUME TypeOK, [Next]_vars
    PROVE  FlagType'
<1>0. /\ FlagType /\ NoCard \in Slot /\ crsp \in Slot /\ card \in Slot
      /\ MaxPulses \in Nat \ {0} /\ MaxQueued \in Nat
  BY SlotAssumption DEF TypeOK, BusType, CmdType, Slot
<1> USE DEF FlagType, DevFlags, cdv, ghost
<1>1. CASE ChangeCard \/ Controller
  BY <1>0, <1>1 DEF ChangeCard, Controller, RespOk, RespError, DataEnd,
     DataError
<1>2. CASE IntrRead
  <2>1. UNCHANGED <<cid, held, wiped, cdins, seen, quit, queued>>
    BY <1>2 DEF IntrRead
  <2>2. flags' \in SUBSET DevFlags
    BY <1>0, <1>2 DEF IntrRead, sdio_hc_event
  <2>3. cdq' \in 0..MaxPulses
    BY <1>0, <1>2 DEF IntrRead, sdio_hc_event
  <2> QED BY <1>0, <2>1, <2>2, <2>3
<1>3. CASE IntrDecide \/ sdio_cmd_cmplt
  BY <1>0, <1>3 DEF IntrDecide, sdio_cmd_cmplt
<1>4. ASSUME NEW t \in Thread, CmdSend(t) PROVE FlagType'
  BY <1>0, <1>4 DEF CmdSend, WipedBy
<1>5. ASSUME NEW t \in Thread, \/ CmdBegin(t) \/ CmdPoint(t) \/ CmdInhibited(t) \/ CmdDone(t)
                               \/ CmdTimeOut(t) \/ CmdAbort(t) \/ SyncOut(t)
      PROVE  FlagType'
  BY <1>0, <1>5 DEF CmdBegin, CmdPoint, CmdInhibited, CmdDone, CmdTimeOut, CmdAbort, SyncOut
<1>6. ASSUME NEW t \in Thread, SyncIn(t) PROVE FlagType'
  <2>1. UNCHANGED <<flags, cid, held, wiped, cdins, quit, cdq, queued>>
    BY <1>6 DEF SyncIn
  <2>2. seen' \in [Thread -> SUBSET DevFlags]
    BY <1>0, <1>6 DEF SyncIn, Enter, First
  <2> QED BY <1>0, <2>1, <2>2
<1>7. CASE ResetBegin \/ BusErrorClear
  BY <1>0, <1>7 DEF ResetBegin, BusErrorClear, WipedBy, Thread
<1>8. CASE ResetVerdict
  <2>1. UNCHANGED <<seen, cid, held, cdins, quit, queued>>
    BY <1>8 DEF ResetVerdict
  <2>2. flags' \in SUBSET DevFlags
    BY <1>0, <1>8 DEF ResetVerdict, sdio_hc_event
  <2>3. wiped' \in BOOLEAN
    BY <1>0, <1>8, Zenon DEF ResetVerdict, WipedBy
  <2>4. cdq' \in 0..MaxPulses
    BY <1>0, <1>8 DEF ResetVerdict, sdio_hc_event
  <2> QED BY <1>0, <2>1, <2>2, <2>3, <2>4
<1>9. CASE DrvNext \/ DrvRequest \/ DrvExit
  BY <1>0, <1>9 DEF DrvNext, Return, DrvRequest, TakeRequest, DrvExit
<1>10. CASE DrvDrain
  BY <1>0, <1>10 DEF DrvDrain, TakeRequest
<1>11. CASE CdPulse
  BY <1>0, <1>11 DEF CdPulse
<1>12. CASE CdChange \/ CdGone \/ CdWoken \/ CdJoin
  BY <1>0, <1>12 DEF CdChange, CdGone, CdWoken, CdJoin
<1>13. CASE CdRemove
  BY <1>0, <1>13 DEF CdRemove
<1>14. CASE CdPowerOff \/ CdInsert
  BY <1>0, <1>14 DEF CdPowerOff, CdInsert, WipedBy
<1>15. CASE IdentVerdict
  <2>1. UNCHANGED <<cdins, quit, cdq, queued>>
    BY <1>15 DEF IdentVerdict
  <2>2. flags' \in SUBSET DevFlags /\ cid' \in Slot /\ held' \in Slot
    BY <1>0, <1>15 DEF IdentVerdict
  <2>3. seen' \in [Thread -> SUBSET DevFlags]
    BY <1>0, <1>15 DEF IdentVerdict
  <2>4. wiped' \in BOOLEAN
    BY <1>0, <1>15, Zenon DEF IdentVerdict, WipedBy
  <2> QED BY <2>1, <2>2, <2>3, <2>4, <1>0
<1>16. CASE CdMark
  BY <1>0, <1>16 DEF CdMark, WipedBy, Thread
<1>17. CASE CdRegister
  BY <1>0, <1>17 DEF CdRegister, Return
<1>18. CASE UNCHANGED vars
  BY <1>0, <1>18 DEF vars
<1> HIDE DEF FlagType, DevFlags, cdv, ghost
<1> QED BY <1>1, <1>2, <1>3, <1>4, <1>5, <1>6, <1>7, <1>8, <1>9, <1>10, <1>11, <1>12,
           <1>13, <1>14, <1>15, <1>16, <1>17, <1>18
        DEF Next, HcThread, DrvThread, CdThread, Issue, Thread

\* ... of the device, whose count never exceeds one ...
LEMMA DevTypeStep ==
    ASSUME TypeOK, StageOK, DevOK, [Next]_vars
    PROVE  DevType'
<1>0. dev \in Devices /\ NoDev \in Devices
  BY DEF TypeOK, DevType, Devices
<1>1. \A n \in 0..1 : dev.live => [dev EXCEPT !.usage = n] \in Devices
  BY <1>0 DEF Devices, NoDev
<1>2. dev.live => [dev EXCEPT !.rmv = TRUE] \in Devices
  BY <1>0 DEF Devices, NoDev
<1> USE DEF DevType
<1>3. CASE HwStep
  BY <1>0, <1>3, HwLocal
<1>4. ASSUME NEW t \in Thread, Issue(t) PROVE DevType'
  BY <1>0, <1>4, IssueLocal DEF TypeOK
<1>5. ASSUME NEW t \in Thread, SyncIn(t) PROVE DevType'
  <2>1. dev.live /\ dev.usage = 0
    BY <1>5 DEF SyncIn, DevOK, Issuing, Thread
  <2>2. dev' = dev \/ dev' = [dev EXCEPT !.usage = 1]
    BY <1>5, <2>1 DEF SyncIn
  <2> QED BY <1>0, <1>1, <2>1, <2>2
<1>6. ASSUME NEW t \in Thread, SyncOut(t) PROVE DevType'
  <2>1. dev.live /\ dev.usage = 1
    BY <1>6 DEF SyncOut, DevOK, StageOK, Issuing, Thread
  <2>2. dev' = [dev EXCEPT !.usage = 0]
    BY <1>6, <2>1 DEF SyncOut
  <2> QED BY <1>1, <2>1, <2>2
<1>7. CASE ResetBegin \/ BusErrorClear \/ ResetVerdict \/ DrvNext \/ DrvRequest \/ DrvDrain
          \/ DrvExit
  BY <1>0, <1>7 DEF ResetBegin, BusErrorClear, ResetVerdict, DrvNext, DrvRequest, DrvDrain,
     TakeRequest, DrvExit
<1>8. CASE CdPulse \/ CdChange \/ CdGone \/ CdWoken \/ CdRemove \/ CdJoin
  BY <1>0, <1>2, <1>8 DEF CdPulse, CdChange, CdGone, CdWoken, CdRemove, CdJoin
<1>9. CASE CdPowerOff \/ CdInsert \/ IdentVerdict \/ CdRegister \/ UNCHANGED vars
  BY <1>0, <1>9 DEF CdPowerOff, CdInsert, IdentVerdict, CdRegister, vars
<1>10. CASE CdMark
  BY <1>10 DEF CdMark, Devices
<1> HIDE DEF DevType
<1> QED BY <1>3, <1>4, <1>5, <1>6, <1>7, <1>8, <1>9, <1>10
        DEF Next, HwStep, DrvThread, CdThread, Thread

\* ... and of the threads.
LEMMA ThreadTypeStep ==
    ASSUME TypeOK, StageOK, [Next]_vars
    PROVE  ThreadType'
<1> USE SlotAssumption DEF TypeOK, ThreadType, Pcs, Issuing, Stages, Thread, Goto, thr
<1>1. CASE HwStep
  BY <1>1, HwLocal
<1>2. ASSUME NEW t \in Thread, CmdBegin(t) \/ CmdPoint(t) \/ CmdSend(t) \/ CmdInhibited(t)
      PROVE  ThreadType'
  BY <1>2 DEF CmdBegin, CmdPoint, CmdSend, CmdInhibited
<1>3. ASSUME NEW t \in Thread, CmdDone(t) \/ CmdTimeOut(t) \/ CmdAbort(t)
      PROVE  ThreadType'
  BY <1>3 DEF CmdDone, CmdTimeOut, CmdAbort
<1>4. ASSUME NEW t \in Thread, SyncIn(t) PROVE ThreadType'
  BY <1>4 DEF SyncIn, Enter, First, Retries
<1>5. ASSUME NEW t \in Thread, SyncOut(t) PROVE ThreadType'
  BY <1>5 DEF SyncOut
<1>6. CASE ResetBegin \/ BusErrorClear
  BY <1>6 DEF ResetBegin, BusErrorClear
<1>7. CASE ResetVerdict
  BY <1>7 DEF ResetVerdict, StageOK
<1>8. CASE DrvNext
  BY <1>8 DEF DrvNext, After, Return
<1>9. CASE DrvRequest \/ DrvDrain \/ DrvExit
  BY <1>9 DEF DrvRequest, DrvDrain, TakeRequest, DrvExit
<1>10. CASE CdPulse \/ CdChange \/ CdGone \/ CdWoken
  BY <1>10 DEF CdPulse, CdChange, CdGone, CdWoken
<1>11. CASE CdRemove \/ CdJoin \/ CdPowerOff
  BY <1>11 DEF CdRemove, CdJoin, CdPowerOff
<1>12. CASE CdInsert
  BY <1>12 DEF CdInsert
<1>13. CASE IdentVerdict
  BY <1>13 DEF IdentVerdict, StageOK
<1>14. CASE CdMark
  BY <1>14 DEF CdMark
<1>15. CASE CdRegister
  BY <1>15 DEF CdRegister, Return
<1>16. CASE UNCHANGED vars
  BY <1>16 DEF vars
<1> QED BY <1>1, <1>2, <1>3, <1>4, <1>5, <1>6, <1>7, <1>8, <1>9, <1>10, <1>11, <1>12,
           <1>13, <1>14, <1>15, <1>16
        DEF Next, HwStep, DrvThread, CdThread, Issue

-----------------------------------------------------------------------------
\* The threads, the device and the types stay in order.
THEOREM SlotInvariant == Spec => []SlotInv
<1>1. Init => SlotInv
  <2> SUFFICES ASSUME Init PROVE SlotInv
    OBVIOUS
  <2> USE SlotAssumption DEF Init, NoDev, NoLine, Thread, Issuing, Pcs, Stages
  <2>1. BusType /\ LineType /\ CmdType
    BY DEF BusType, Bits, LineType, CmdLines, DatLines, CmdType, Slot, Status
  <2>2. FlagType
    <3>1. 1 \in 0..MaxPulses /\ 0 \in 0..MaxQueued /\ NoCard \in Slot
      BY DEF Slot
    <3>2. seen \in [Thread -> SUBSET DevFlags]
      BY DEF DevFlags
    <3> QED BY <3>1, <3>2 DEF FlagType
  <2>4. DevType /\ ThreadType
    BY DEF DevType, Devices, ThreadType
  <2>3. StageOK /\ DevOK
    BY DEF StageOK, DevOK, Removing
  <2> QED BY <2>1, <2>2, <2>3, <2>4 DEF SlotInv, TypeOK
<1>2. SlotInv /\ [Next]_vars => SlotInv'
  BY BusTypeStep, LineTypeStep, CmdTypeStep, FlagTypeStep, DevTypeStep, ThreadTypeStep, StageStep, DevStep
     DEF SlotInv, TypeOK
<1> QED BY <1>1, <1>2, PTL DEF Spec

\* Every variable has its type.
THEOREM SlotTypeCorrect == Spec => []TypeOK
<1>1. SlotInv => TypeOK
  BY DEF SlotInv
<1> QED BY <1>1, SlotInvariant, PTL

\* Two threads never issue commands at once: the cd thread identifies a card
\* and sets it up only when there is no driver thread.
THEOREM SlotOneIssuer == Spec => []OneIssuer
<1>1. SlotInv => OneIssuer
  BY DEF SlotInv, DevOK, OneIssuer, Issuing
<1> QED BY <1>1, SlotInvariant, PTL

\* sdio_detach frees the device only when no thread is inside a call on it or
\* will make one.
THEOREM SlotDeviceOutlivesUsers == Spec => []DeviceOutlivesUsers
<1>1. SlotInv => DeviceOutlivesUsers
  BY DEF SlotInv, DevOK, DeviceOutlivesUsers
<1> QED BY <1>1, SlotInvariant, PTL

-----------------------------------------------------------------------------
(* The controller works on one command at a time, the one being waited for, *)
(* as long as no command is given up before its time.                        *)

\* The controller is at no command and has no outcome of one to report.
Idle == /\ ~cmdLine.on /\ ~datLine.on /\ is \subseteq {"cd"} /\ sts \subseteq {"cd"}
        /\ hpc # "cmplt"

\* A thread waits for a command that is still in progress.
Awaited == cstat = "INPROG" /\ \E t \in Thread : pc[t] = "wait"

\* A command is in one place: on its way to the card, moving data, in the
\* status register, or in the hands of the hc thread.
BusOK ==
    /\ ~Awaited => Idle
    /\ cmdLine.on => ~datLine.on
    /\ cmdLine.on \/ datLine.on => is \subseteq {"cd"}
    /\ cmdLine.on \/ datLine.on \/ ~(is \subseteq {"cd"})
         => sts \subseteq {"cd"} /\ hpc # "cmplt"
    /\ hpc # "fetch" => sts = {}
    /\ hpc = "cmplt" => hcs # "INPROG"

\* Something says that the command is complete.
Success == \/ {"cc", "tc"} \cap (is \cup sts) # {}
           \/ hpc = "cmplt" /\ hcs = "CMP"
           \/ cstat = "CMP"

DoneOK ==
    /\ cmdLine.on => cmdLine.cur /\ (cmdLine.kind = "data" => "cc" \notin ie)
    /\ datLine.on => datLine.cur
    /\ Success => done
    /\ \A t \in Thread : pc[t] = "ret" /\ res[t] = "ok" => cstat = "CMP"
    /\ \A t \in Thread : pc[t] \in {"point", "send"} => cstat = "INPROG"

\* A card that is selected is the one attached to: its CID was read since
\* its power came on, and is the one the device was attached with.
CardOK ==
    /\ mode # "off" => resp = card
    /\ (hpc = "cmplt" /\ hcs = "CMP") \/ cstat = "CMP" => crsp = resp
    /\ cid = held
    /\ mode = "tran" => card = held
    /\ cmdLine.on => cmdLine.for = held
    /\ datLine.on => datLine.for = datLine.card

OnTime == late = 0 => BusOK /\ DoneOK /\ CardOK

\* A thread that is in a call is alone, and no thread waits but for it.
LEMMA Alone ==
    ASSUME SlotInv, NEW t \in Thread,
           pc[t] \in (Issuing \cup {"sync", "next", "mark"}) \ {"wait"}
             \/ (t = "cd" /\ pc[t] = "poweroff")
             \/ (t = "cd" /\ pc[t] = "insert" /\ "present" \notin flags)
    PROVE  ~Awaited
BY DEF SlotInv, DevOK, StageOK, Awaited, Thread, Issuing, Removing

LEMMA BusStep ==
    ASSUME SlotInv, BusOK, DoneOK, late = 0, late' = 0, [Next]_vars
    PROVE  BusOK'
<1> USE DEF BusOK, Idle
<1>1. CASE ChangeCard
  BY <1>1 DEF ChangeCard, Raise, Awaited, cmd, hc, thr
<1>2. CASE RespOk
  BY <1>2 DEF RespOk, Raise, Awaited, DoneOK, NoLine, cmd, hc, thr
<1>3. CASE RespError \/ DataEnd \/ DataError
  BY <1>3 DEF RespError, DataEnd, DataError, Raise, Awaited, NoLine, cmd, hc, thr
<1>5. CASE IntrRead
  BY <1>5 DEF IntrRead, Awaited, cmd, hc, thr
<1>6. CASE IntrDecide
  BY <1>6 DEF IntrDecide, Awaited, DoneOK, NoLine, ErrorStatus, cmd, hc, thr
<1>7. CASE sdio_cmd_cmplt
  BY <1>7 DEF sdio_cmd_cmplt, Awaited, thr, regs
<1>8. ASSUME NEW t \in Thread, CmdBegin(t) PROVE BusOK'
  BY <1>8, Alone DEF CmdBegin, Old, Issuing, hc
<1>9. ASSUME NEW t \in Thread, CmdPoint(t) \/ CmdInhibited(t) PROVE BusOK'
  BY <1>9, Alone DEF CmdPoint, CmdInhibited, Issuing, hc, regs
<1>10. ASSUME NEW t \in Thread, CmdSend(t) PROVE BusOK'
  <2>1. Idle /\ cstat = cstat' /\ UNCHANGED <<datLine, hpc, sts, hcs>> /\ is' = {}
    BY <1>10, Alone DEF CmdSend, Issuing, hc, cmd
  <2>2. pc'[t] = "wait"
    BY <1>10 DEF CmdSend, Goto, SlotInv, TypeOK, ThreadType
  <2>3. cstat = "INPROG"
    BY <1>10 DEF CmdSend, DoneOK
  <2> QED BY <2>1, <2>2, <2>3 DEF Awaited
<1>11. ASSUME NEW t \in Thread, CmdDone(t) PROVE BusOK'
  BY <1>11 DEF CmdDone, Awaited, regs, cmd, hc
<1>12. ASSUME NEW t \in Thread, CmdTimeOut(t) PROVE BusOK'
  BY <1>12 DEF CmdTimeOut, UnderWay, regs, cmd, hc
<1>13. ASSUME NEW t \in Thread, CmdAbort(t) PROVE BusOK'
  BY <1>13, Alone DEF CmdAbort, Issuing, regs, hc
<1>14. ASSUME NEW t \in Thread, SyncIn(t) \/ SyncOut(t) PROVE BusOK'
  BY <1>14, Alone DEF SyncIn, SyncOut, Issuing, regs, hc
<1>15. CASE ResetBegin \/ BusErrorClear
  BY <1>15, Alone DEF ResetBegin, BusErrorClear, slot, regs, PowerCycle, Issuing,
     Thread, NoLine, hc
<1>16. CASE ResetVerdict
  BY <1>16, Alone DEF ResetVerdict, PowerCycle, Issuing, Thread, NoLine, regs, hc
<1>17. CASE DrvNext
  BY <1>17, Alone DEF DrvNext, Thread, regs, hc
<1>18. CASE DrvRequest \/ DrvDrain \/ DrvExit
  BY <1>18 DEF DrvRequest, DrvDrain, TakeRequest, DrvExit, Goto, Awaited, Thread, regs,
     cmd, hc, SlotInv, TypeOK, ThreadType
<1>19. CASE CdPulse \/ CdChange \/ CdGone \/ CdWoken \/ CdRemove \/ CdJoin
  BY <1>19 DEF CdPulse, CdChange, CdGone, CdWoken, CdRemove, CdJoin, Goto, Awaited, Thread,
     regs, cmd, hc, SlotInv, TypeOK, ThreadType
<1>20. CASE CdPowerOff
  <2>0. pc["cd"] = "poweroff" /\ "cd" \in Thread /\ NoLine.on = FALSE
    BY <1>20 DEF CdPowerOff, Thread, NoLine
  <2>a. ~Awaited
    BY <2>0 DEF SlotInv, DevOK, StageOK, Awaited, Thread
  <2>1. Idle
    BY <2>a
  <2>2. UNCHANGED <<hpc, sts, hcs>>
    BY <1>20 DEF CdPowerOff, hc
  <2>3. \/ is' = {} /\ cmdLine' = NoLine /\ datLine' = NoLine
        \/ UNCHANGED <<is, cmdLine, datLine>>
    BY <1>20 DEF CdPowerOff, PowerCycle, regs
  <2>4. Idle'
    BY <2>0, <2>1, <2>2, <2>3
  <2>5. (hpc # "fetch" => sts = {})' /\ (hpc = "cmplt" => hcs # "INPROG")'
    BY <2>2
  <2> QED BY <2>4, <2>5
<1>21. CASE CdInsert
  <2>1. CASE "present" \in flags
    BY <1>21, <2>1 DEF CdInsert, Goto, Awaited, Thread, regs, cmd, hc, SlotInv, TypeOK,
       ThreadType
  <2>2. CASE "present" \notin flags
    BY <1>21, <2>2, Alone DEF CdInsert, PowerCycle, Thread, NoLine, regs, hc
  <2> QED BY <2>1, <2>2
<1>22. CASE IdentVerdict
  BY <1>22, Alone DEF IdentVerdict, PowerCycle, Issuing, Thread, NoLine, regs, hc
<1>23. CASE CdMark \/ CdRegister
  BY <1>23, Alone DEF CdMark, CdRegister, Thread, regs, hc
<1>24. CASE UNCHANGED vars
  BY <1>24 DEF vars, thr, regs, cmd, hc, Awaited
<1> HIDE DEF BusOK, Idle
<1> QED BY <1>1, <1>2, <1>3, <1>5, <1>6, <1>7, <1>8, <1>9, <1>10, <1>11, <1>12, <1>13,
           <1>14, <1>15, <1>16, <1>17, <1>18, <1>19, <1>20, <1>21, <1>22, <1>23, <1>24
        DEF Next, Controller, HcThread, DrvThread, CdThread, Issue, Thread

LEMMA DoneStep ==
    ASSUME SlotInv, BusOK, DoneOK, late = 0, late' = 0, [Next]_vars
    PROVE  DoneOK'
<1> USE DEF DoneOK, Success
<1>1. CASE ChangeCard
  BY <1>1 DEF ChangeCard, Raise, cmd, hc, thr, ghost
<1>0. NoLine.on = FALSE /\ done \in BOOLEAN
  BY DEF NoLine, SlotInv, TypeOK, CmdType
<1>2. CASE RespOk
  <2>1. UNCHANGED <<ie, wspc, cstat, crsp, hpc, sts, hcs, pc, res>> /\ cmdLine' = NoLine
    BY <1>2 DEF RespOk, cmd, hc, thr
  <2>2. /\ cmdLine.kind = "data" => done' = done
        /\ cmdLine.kind # "data" => done'
    BY <1>2 DEF RespOk
  <2>3. is' = is \/ (is' = is \cup {"cc"} /\ cmdLine.kind # "data")
    BY <1>2 DEF RespOk, Raise
  <2>4. datLine'.on => datLine'.cur
    BY <1>0, <1>2 DEF RespOk
  <2> QED BY <1>0, <2>1, <2>2, <2>3, <2>4
<1>3. CASE RespError \/ DataEnd \/ DataError
  <2>1. /\ UNCHANGED <<ie, wspc, cstat, crsp, hpc, sts, hcs, pc, res>>
        /\ cmdLine' \in {cmdLine, NoLine} /\ datLine' \in {datLine, NoLine}
    BY <1>3 DEF RespError, DataEnd, DataError, cmd, hc, thr
  <2>2. done' \/ (done' = done /\ is' \subseteq is \cup {"err"})
    BY <1>3 DEF RespError, DataEnd, DataError, Raise, ghost
  <2>3. is' \subseteq is \cup {"err", "tc"}
    BY <1>3 DEF RespError, DataEnd, DataError, Raise
  <2> QED BY <1>0, <2>1, <2>2, <2>3
<1>5. CASE IntrRead
  BY <1>5 DEF IntrRead, cmd, hc, thr, ghost
<1>6. CASE IntrDecide
  BY <1>6 DEF IntrDecide, NoLine, ErrorStatus, cmd, hc, thr
<1>7. CASE sdio_cmd_cmplt
  <2>1. \A t \in Thread : pc[t] \notin {"ret", "point", "send"}
    BY <1>7, Alone DEF sdio_cmd_cmplt, BusOK, Idle, Issuing
  <2> QED BY <1>7, <2>1 DEF sdio_cmd_cmplt, thr, regs, ghost
<1> USE DEF SlotInv, TypeOK, ThreadType, Goto
<1>8. ASSUME NEW t \in Thread, CmdBegin(t) PROVE DoneOK'
  <2>1. Idle /\ \A u \in Thread : u # t => pc[u] \notin Issuing
    BY <1>8, Alone DEF CmdBegin, Issuing, BusOK, DevOK, Thread
  <2> QED BY <1>8, <2>1 DEF CmdBegin, Old, Idle, Issuing, hc
<1>9. ASSUME NEW t \in Thread, CmdPoint(t) \/ CmdInhibited(t) PROVE DoneOK'
  BY <1>9 DEF CmdPoint, CmdInhibited, regs, hc, cmd, ghost
<1>10. ASSUME NEW t \in Thread, CmdSend(t) PROVE DoneOK'
  BY <1>10 DEF CmdSend, Enables, hc, cmd
<1>11. ASSUME NEW t \in Thread, CmdDone(t) PROVE DoneOK'
  BY <1>11 DEF CmdDone, regs, cmd, hc, ghost
<1>12. ASSUME NEW t \in Thread, CmdTimeOut(t) PROVE DoneOK'
  BY <1>12 DEF CmdTimeOut, regs, cmd, hc
<1>13. ASSUME NEW t \in Thread, CmdAbort(t) PROVE DoneOK'
  <2>1. \A u \in Thread : u # t => pc[u] \notin Issuing
    BY <1>13 DEF CmdAbort, Issuing, DevOK, Thread
  <2> QED BY <1>13, <2>1 DEF CmdAbort, Issuing, regs, hc, ghost
<1>14. ASSUME NEW t \in Thread, SyncIn(t) \/ SyncOut(t) PROVE DoneOK'
  BY <1>14 DEF SyncIn, Enter, First, SyncOut, Thread, regs, cmd, hc, ghost
<1>15. CASE ResetBegin \/ BusErrorClear
  BY <1>15 DEF ResetBegin, BusErrorClear, slot, regs, PowerCycle, NoLine, cmd, hc
<1>16. CASE ResetVerdict
  BY <1>16 DEF ResetVerdict, PowerCycle, NoLine, cmd, regs, hc
<1>17. CASE DrvNext
  <2>1. Idle /\ pc["cd"] \notin Issuing
    BY <1>17, Alone DEF DrvNext, Issuing, BusOK, DevOK, Thread
  <2> QED BY <1>17, <2>1 DEF DrvNext, Return, Idle, Issuing, Thread, regs, hc
<1>18. CASE DrvRequest \/ DrvDrain \/ DrvExit
  BY <1>18 DEF DrvRequest, DrvDrain, TakeRequest, DrvExit, Thread, regs, cmd, hc, ghost
<1>19. CASE CdPulse \/ CdChange \/ CdGone \/ CdWoken \/ CdRemove \/ CdJoin
  BY <1>19 DEF CdPulse, CdChange, CdGone, CdWoken, CdRemove, CdJoin, Thread,
     regs, cmd, hc, ghost
<1>20. CASE CdPowerOff \/ CdMark
  BY <1>20 DEF CdPowerOff, CdMark, PowerCycle, NoLine, regs, cmd, hc
<1>21. CASE CdInsert
  BY <1>21 DEF CdInsert, PowerCycle, NoLine, regs, cmd, hc
<1>22. CASE IdentVerdict
  BY <1>22 DEF IdentVerdict, PowerCycle, NoLine, regs, cmd, hc
<1>23. CASE CdRegister
  <2>1. Idle
    BY <1>23, Alone DEF CdRegister, BusOK, Thread
  <2> QED BY <1>23, <2>1 DEF CdRegister, Return, Idle, Thread, regs, hc
<1>24. CASE UNCHANGED vars
  BY <1>24 DEF vars, thr, regs, cmd, hc, ghost
<1> HIDE DEF DoneOK, Success, SlotInv, TypeOK, ThreadType, Goto
<1> QED BY <1>1, <1>2, <1>3, <1>5, <1>6, <1>7, <1>8, <1>9, <1>10, <1>11, <1>12, <1>13,
           <1>14, <1>15, <1>16, <1>17, <1>18, <1>19, <1>20, <1>21, <1>22, <1>23, <1>24
        DEF Next, Controller, HcThread, DrvThread, CdThread, Issue, Thread

LEMMA CardStep ==
    ASSUME SlotInv, BusOK, DoneOK, CardOK, late = 0, late' = 0, [Next]_vars
    PROVE  CardOK'
<1> USE DEF CardOK
<1>0. NoLine.on = FALSE
  BY DEF NoLine
<1>1. CASE ChangeCard
  BY <1>1 DEF ChangeCard, cmd, hc, ghost
<1>2. CASE RespOk
  <2>1. UNCHANGED <<card, cstat, crsp, hpc, hcs, cid, held>> /\ cmdLine' = NoLine /\ resp' = card
    BY <1>2 DEF RespOk, cmd, hc
  <2>2. hpc # "cmplt" /\ cstat # "CMP"
    BY <1>2 DEF RespOk, BusOK, Idle, Awaited
  <2>3. mode' = "tran" => mode = "tran"
    BY <1>2 DEF RespOk
  <2>4. datLine'.on => datLine'.for = datLine'.card
    BY <1>0, <1>2 DEF RespOk, Answers
  <2> QED BY <1>0, <2>1, <2>2, <2>3, <2>4
<1>3. CASE RespError \/ DataEnd \/ DataError
  BY <1>0, <1>3 DEF RespError, DataEnd, DataError, cmd, hc, slot, ghost
<1>5. CASE IntrRead
  BY <1>5 DEF IntrRead, cmd, slot, ghost
<1>6. CASE IntrDecide
  <2>1. /\ UNCHANGED <<slot, resp, cstat, cid, held>>
        /\ cstat # "CMP" \/ crsp' = crsp
    BY <1>6 DEF IntrDecide, BusOK, Idle, Awaited
  <2> QED BY <1>0, <1>6, <2>1 DEF IntrDecide, ErrorStatus, DoneOK, slot
<1>7. CASE sdio_cmd_cmplt
  BY <1>7 DEF sdio_cmd_cmplt, slot, regs, ghost
<1>8. ASSUME NEW t \in Thread, CmdBegin(t) PROVE CardOK'
  <2>1. Idle
    BY <1>8, Alone DEF CmdBegin, Issuing, BusOK
  <2> QED BY <1>8, <2>1 DEF CmdBegin, Old, Idle, hc, slot
<1>9. ASSUME NEW t \in Thread, CmdPoint(t) \/ CmdInhibited(t) \/ CmdDone(t) \/ CmdTimeOut(t)
                               \/ CmdAbort(t)
      PROVE  CardOK'
  BY <1>9 DEF CmdPoint, CmdInhibited, CmdDone, CmdTimeOut, CmdAbort, slot, regs, cmd, hc, ghost
<1>10. ASSUME NEW t \in Thread, CmdSend(t) PROVE CardOK'
  BY <1>10 DEF CmdSend, slot, hc, cmd
<1>14. ASSUME NEW t \in Thread, SyncIn(t) \/ SyncOut(t) PROVE CardOK'
  BY <1>14 DEF SyncIn, SyncOut, slot, regs, cmd, hc, ghost
<1>15. CASE ResetBegin \/ BusErrorClear
  BY <1>0, <1>15 DEF ResetBegin, BusErrorClear, slot, regs, PowerCycle, cmd, hc
<1>16. CASE ResetVerdict
  <2>1. UNCHANGED <<cstat, crsp, hpc, hcs, cid, held, resp, card>>
    BY <1>16 DEF ResetVerdict, PowerCycle, Select, cmd, hc, slot, regs
  <2>2. \/ UNCHANGED <<cmdLine, datLine>>
        \/ cmdLine' = NoLine /\ datLine' = NoLine
    BY <1>16 DEF ResetVerdict, PowerCycle, regs
  <2>3. \/ mode' = "off" \/ mode' = mode
        \/ mode' = "tran" /\ mode = "ident" /\ crsp = cid /\ cstat = "CMP"
    BY <1>16 DEF ResetVerdict, PowerCycle, Select, Identified, SameCid, slot, DoneOK, Thread
  <2> QED BY <1>0, <2>1, <2>2, <2>3
<1>17. CASE DrvNext
  <2>1. Idle
    BY <1>17, Alone DEF DrvNext, BusOK, Thread
  <2> QED BY <1>17, <2>1 DEF DrvNext, Return, Idle, regs, slot, hc
<1>18. CASE DrvRequest \/ DrvDrain \/ DrvExit
  BY <1>18 DEF DrvRequest, DrvDrain, TakeRequest, DrvExit, slot, regs, cmd, hc, ghost
<1>19. CASE CdPulse \/ CdChange \/ CdGone \/ CdWoken \/ CdRemove \/ CdJoin
  BY <1>19 DEF CdPulse, CdChange, CdGone, CdWoken, CdRemove, CdJoin, slot, regs, cmd, hc,
     ghost
<1>20. CASE CdPowerOff \/ CdMark
  BY <1>0, <1>20 DEF CdPowerOff, CdMark, PowerCycle, slot, regs, cmd, hc
<1>21. CASE CdInsert
  BY <1>0, <1>21 DEF CdInsert, PowerCycle, slot, regs, cmd, hc
<1>22. CASE IdentVerdict
  <2>1. Idle /\ UNCHANGED <<cstat, crsp, hpc, hcs, resp, card>>
    BY <1>22, Alone DEF IdentVerdict, PowerCycle, Select, Issuing, Thread, BusOK, cmd, hc, regs
  <2>2. CASE res["cd"] = "ok" /\ Identified
    <3>1. cid' = crsp /\ held' = card /\ mode' = "tran" /\ UNCHANGED <<cmdLine, datLine>>
      BY <1>22, <2>2 DEF IdentVerdict, Select, regs
    <3>2. crsp = card /\ resp = card
      BY <1>22, <2>2 DEF IdentVerdict, Identified, DoneOK, Thread
    <3> QED BY <2>1, <3>1, <3>2 DEF Idle
  <2>3. CASE ~(res["cd"] = "ok" /\ Identified)
    <3>1. UNCHANGED <<cid, held>> /\ cmdLine' = NoLine /\ datLine' = NoLine /\ mode' = "off"
      BY <1>22, <2>3 DEF IdentVerdict, PowerCycle
    <3> QED BY <1>0, <2>1, <3>1
  <2> QED BY <2>2, <2>3
<1>23. CASE CdRegister
  <2>1. Idle
    BY <1>23, Alone DEF CdRegister, BusOK, Thread
  <2> QED BY <1>23, <2>1 DEF CdRegister, Return, Idle, regs, slot, hc
<1>24. CASE UNCHANGED vars
  BY <1>24 DEF vars, slot, regs, cmd, hc, ghost
<1> HIDE DEF CardOK
<1> QED BY <1>1, <1>2, <1>3, <1>5, <1>6, <1>7, <1>8, <1>9, <1>10,
           <1>14, <1>15, <1>16, <1>17, <1>18, <1>19, <1>20, <1>21, <1>22, <1>23, <1>24
        DEF Next, Controller, HcThread, DrvThread, CdThread, Issue, Thread

\* The commands given up while under way are never forgotten.
LEMMA LateGrows ==
    ASSUME SlotInv, [Next]_vars, late' = 0
    PROVE  late = 0
<1> USE DEF SlotInv, TypeOK, CmdType, ghost
<1>1. CASE HwStep
  BY <1>1, HwLocal
<1>2. ASSUME NEW t \in Thread, Issue(t) PROVE late = 0
  BY <1>2 DEF Issue, CmdBegin, CmdPoint, CmdSend, CmdInhibited, CmdDone, CmdTimeOut, CmdAbort
<1>3. ASSUME NEW t \in Thread, SyncIn(t) \/ SyncOut(t) PROVE late = 0
  BY <1>3 DEF SyncIn, SyncOut
<1>4. CASE ResetBegin \/ BusErrorClear \/ ResetVerdict \/ DrvNext \/ DrvRequest \/ DrvDrain
          \/ DrvExit
  BY <1>4 DEF ResetBegin, BusErrorClear, ResetVerdict, DrvNext, DrvRequest, DrvDrain,
     TakeRequest, DrvExit
<1>5. CASE CdPulse \/ CdChange \/ CdGone \/ CdWoken \/ CdRemove \/ CdJoin
  BY <1>5 DEF CdPulse, CdChange, CdGone, CdWoken, CdRemove, CdJoin
<1>6. CASE CdPowerOff \/ CdInsert \/ IdentVerdict \/ CdMark \/ CdRegister \/ UNCHANGED vars
  BY <1>6 DEF CdPowerOff, CdInsert, IdentVerdict, CdMark, CdRegister, vars
<1> QED BY <1>1, <1>2, <1>3, <1>4, <1>5, <1>6 DEF Next, HwStep, DrvThread, CdThread, Thread

\* For as long as no command is given up before its time, the controller is at
\* the command being waited for or at none.
THEOREM SlotOnTime == Spec => []OnTime
<1>1. Init => OnTime
  BY DEF Init, OnTime, BusOK, Idle, DoneOK, Success, CardOK, NoLine, Thread
<1>2. SlotInv /\ OnTime /\ [Next]_vars => OnTime'
  BY LateGrows, BusStep, DoneStep, CardStep DEF OnTime
<1> QED BY <1>1, <1>2, SlotInvariant, PTL DEF Spec

\* A command is reported complete only after the controller has executed it,
\* for as long as none was given up before its time.
THEOREM SlotRightUnlessLate == Spec => []RightUnlessLate
<1>1. OnTime => RightUnlessLate
  BY DEF OnTime, DoneOK, Success, RightUnlessLate, RightCompletion
<1>2. Spec => []OnTime
  BY SlotOnTime
<1> QED BY <1>1, <1>2, PTL

\* A read is only ever served by the card the block driver was
\* attached to, for as long as no command was given up before its time.
THEOREM SlotRightCard == Spec => []RightCard
<1>1. OnTime => RightCard
  BY DEF OnTime, CardOK, RightCard
<1>2. Spec => []OnTime
  BY SlotOnTime
<1> QED BY <1>1, <1>2, PTL

-----------------------------------------------------------------------------
(* A change of the card is noticed unless its record is overwritten. *)

\* The cd thread will look at the slot again.
Pending == "cd" \in is \/ cdq > 0

\* A device that is marked present is of the card in the slot, or the change
\* is recorded; a card that is neither attached nor refused is about to be
\* looked at; what the cd thread saw when it began still holds or it will
\* look again; and a recorded change comes with a pulse.
ChgOK ==
    /\ "present" \in flags /\ card # held
         => "cd" \in is \/ "media" \in flags \/ pc["cd"] = "gone"
    /\ pc["cd"] = "mark" /\ card # held => "cd" \in is \/ "media" \in flags
    /\ card # NoCard /\ flags \cap {"present", "invalid"} = {} => Pending \/ pc["cd"] # "idle"
    /\ pc["cd"] # "idle" /\ cdins # (card # NoCard) => Pending
    /\ "media" \in flags => cdq > 0 \/ pc["cd"] = "change"

Noticed == ~wiped => ChgOK

LEMMA ChgStep ==
    ASSUME SlotInv, Noticed, [Next]_vars
    PROVE  Noticed'
<1> USE SlotAssumption DEF Noticed, ChgOK, Pending, SlotInv, TypeOK, FlagType
<1>1. CASE ChangeCard
  BY <1>1 DEF ChangeCard, Raise, thr, cdv, ghost
<1>2. CASE Controller
  <2>1. UNCHANGED <<card, flags, pc, cdq, cdins, held, wiped>> /\ is \subseteq is'
    BY <1>2 DEF Controller, RespOk, RespError, DataEnd, DataError, Raise, slot,
       thr, cdv, ghost
  <2> QED BY <2>1
<1>3. CASE IntrRead
  <2>1. UNCHANGED <<card, pc, cdins, held, wiped>> /\ is' = {}
    BY <1>3 DEF IntrRead, slot, thr, ghost
  <2>2. /\ "cd" \in is => flags' = flags \cup {"media"} /\ cdq' > 0
        /\ "cd" \notin is => UNCHANGED <<flags, cdq>>
    BY <1>3 DEF IntrRead, sdio_hc_event
  <2> QED BY <2>1, <2>2
<1>4. CASE IntrDecide \/ sdio_cmd_cmplt
  BY <1>4 DEF IntrDecide, sdio_cmd_cmplt, slot, regs, thr, cdv, ghost
<1>5. ASSUME NEW t \in Thread, Issue(t) PROVE Noticed'
  <2>1. /\ UNCHANGED <<card, flags, cdq, cdins, held>>
        /\ (wiped' = wiped /\ is' = is) \/ wiped' = (wiped \/ "cd" \in is)
    BY <1>5 DEF Issue, CmdBegin, CmdPoint, CmdSend, CmdInhibited, CmdDone, CmdTimeOut,
       CmdAbort, WipedBy, slot, regs, cdv, ghost
  <2>2. (pc'["cd"] = pc["cd"]) \/ ({pc["cd"], pc'["cd"]} \subseteq Issuing)
    BY <1>5, IssueLocal DEF Thread
  <2> QED BY <2>1, <2>2 DEF Issuing
<1>6. ASSUME NEW t \in Thread, SyncIn(t) \/ SyncOut(t) PROVE Noticed'
  <2>1. UNCHANGED <<card, flags, is, cdq, cdins, held, wiped>>
    BY <1>6 DEF SyncIn, SyncOut, slot, regs, cdv, ghost
  <2>2. pc'["cd"] = pc["cd"] \/ {pc["cd"], pc'["cd"]} \subseteq Pcs \ {"idle", "mark", "gone", "change"}
    BY <1>6 DEF SyncIn, SyncOut, Enter, First, Goto, ThreadType, Pcs, Issuing, Thread
  <2> QED BY <2>1, <2>2
<1>7. CASE ResetBegin \/ BusErrorClear
  BY <1>7 DEF ResetBegin, BusErrorClear, slot, regs, PowerCycle, WipedBy, Goto, ThreadType, Thread
<1>8. CASE ResetVerdict
  <2>1. UNCHANGED <<card, cdins, held>> /\ pc'["cd"] = pc["cd"]
    BY <1>8 DEF ResetVerdict, Select, PowerCycle, Goto, ThreadType, Thread, slot
  <2>2. \/ flags' = flags /\ cdq' = cdq
        \/ flags' = flags \cup {"media"} /\ cdq' > 0
    <3>1. UNCHANGED <<flags, cdq>> \/ sdio_hc_event
      BY <1>8 DEF ResetVerdict
    <3> QED BY <3>1 DEF sdio_hc_event
  <2>3. (wiped' = wiped /\ is' = is) \/ wiped' = (wiped \/ "cd" \in is)
    BY <1>8 DEF ResetVerdict, WipedBy, regs
  <2> QED BY <2>1, <2>2, <2>3
<1>9. CASE DrvNext \/ DrvRequest \/ DrvDrain \/ DrvExit
  BY <1>9 DEF DrvNext, DrvRequest, DrvDrain, TakeRequest, DrvExit, Goto, ThreadType, Thread,
     slot, regs, cdv, ghost
<1>10. CASE CdPulse
  BY <1>10 DEF CdPulse, Goto, ThreadType, Thread, slot, regs, ghost
<1>11. CASE CdChange
  BY <1>11 DEF CdChange, Goto, ThreadType, Thread, slot, regs, cdv, ghost
<1>12. CASE CdGone
  BY <1>12 DEF CdGone, Goto, ThreadType, Thread, slot, regs, cdv, ghost
<1>13. CASE CdWoken \/ CdRemove \/ CdJoin
  BY <1>13 DEF CdWoken, CdRemove, CdJoin, Goto, ThreadType, Thread, slot, regs, cdv, ghost
<1>14. CASE CdPowerOff
  BY <1>14 DEF CdPowerOff, PowerCycle, WipedBy, Goto, ThreadType, Thread, slot, regs, cdv
<1>15. CASE CdInsert
  BY <1>15 DEF CdInsert, PowerCycle, WipedBy, Goto, ThreadType, Thread, slot, regs, cdv
<1>16. CASE IdentVerdict
  <2>1. UNCHANGED <<card, cdq, cdins>> /\ pc["cd"] = "ret"
    BY <1>16 DEF IdentVerdict, PowerCycle, Select
  <2>2. CASE res["cd"] = "ok" /\ Identified
    BY <1>16, <2>1, <2>2 DEF IdentVerdict, Goto, ThreadType, Thread, regs
  <2>3. CASE ~(res["cd"] = "ok" /\ Identified)
    <3>1. is' = {} /\ held' = held /\ (~wiped' => ~wiped /\ "cd" \notin is)
      BY <1>16, <2>3 DEF IdentVerdict, PowerCycle, WipedBy
    <3>2. \/ pc'["cd"] = "begin" /\ flags' = flags
          \/ pc'["cd"] = "idle" /\ flags' = flags \cup {"invalid"}
      BY <1>16, <2>3 DEF IdentVerdict, Goto, ThreadType, Thread
    <3> QED BY <2>1, <3>1, <3>2
  <2> QED BY <2>2, <2>3
<1>17. CASE CdMark
  BY <1>17 DEF CdMark, WipedBy, Goto, ThreadType, Thread, slot, regs, cdv
<1>18. CASE CdRegister
  BY <1>18 DEF CdRegister, DevOK, Removing, slot, regs
<1>19. CASE UNCHANGED vars
  BY <1>19 DEF vars, slot, regs, thr, cdv, ghost
<1> HIDE DEF Noticed, ChgOK, Pending, SlotInv, TypeOK, FlagType
<1> QED BY <1>1, <1>2, <1>3, <1>4, <1>5, <1>6, <1>7, <1>8, <1>9, <1>10, <1>11, <1>12, <1>13,
           <1>14, <1>15, <1>16, <1>17, <1>18, <1>19
        DEF Next, HcThread, DrvThread, CdThread, Thread

\* A change of the card is noticed unless the record of it is overwritten: in
\* the status register by a command or a reset, or in the flags of the device.
THEOREM SlotNoticedUnlessWiped == Spec => []NoticedUnlessWiped
<1>1. Init => Noticed
  BY DEF Init, Noticed, ChgOK, Pending
<1>2. SlotInv /\ Noticed /\ [Next]_vars => Noticed'
  BY ChgStep
<1>3. Noticed => NoticedUnlessWiped
  BY DEF Noticed, ChgOK, Pending, NoticedUnlessWiped, ChangeNoticed, Quiet
<1> QED BY <1>1, <1>2, <1>3, SlotInvariant, PTL DEF Spec
=============================================================================
