---------------------------- MODULE SdmaLibProofs ----------------------------
(***************************************************************************)
(* Theorems about SdmaLib, for every number of processes, channels and     *)
(* events, and with any number of time-outs and deaths: what the library   *)
(* promises the drivers, and that it implements DmaChannels.               *)
(***************************************************************************)
EXTENDS SdmaLib, FiniteSetTheorems, TLAPS

\* The steps of process p, its thread and its interrupt handler.
ProcStep(p) == \/ Calls(p) \/ InitLib(p) \/ CmdLock(p) \/ RegLock(p)
               \/ Run(p) \/ IrqTake(p) \/ IrqReturn(p) \/ Crash(p)

-----------------------------------------------------------------------------
(* The inductive invariant.                                                *)

CmdPcs == {"cmdevent", "cmdwait", "cmdok", "cmdfail"}
AttachPcs == {"evtread", "evtwrite", "enbread", "enbwrite", "maskadd", "eventadd"}
HostPcs == {"reglock", "hostread", "hostwrite"}
RelPcs == {"relevtread", "relevtwrite", "relenbread", "relenbwrite", "relmask",
           "relevent", "reldetach"}
RegPcs == {"hostread", "hostwrite", "relevtread", "relevtwrite", "relenbread",
           "relenbwrite"}
ChanJobs == Jobs \ {"none", "init"}

\* Where a thread is tells what it is doing, and to a channel of its own.
ThreadOK(p) ==
    /\ job[p] = "none" <=> pc[p] = "idle"
    /\ pc[p] = "libinit" => job[p] = "init"
    /\ pc[p] \in CmdPcs \cup {"cmdlock"} => job[p] \in {"init", "attach", "contabort"}
    /\ pc[p] \in AttachPcs => job[p] = "attach"
    /\ pc[p] \in HostPcs => job[p] \in ChanJobs \ {"attach"}
    /\ pc[p] \in RelPcs => job[p] = "release"
    /\ job[p] = "init" => n_users[p] = 1
    /\ n_users[p] = 0 => pc[p] = "idle"
    /\ n_users[p] = 0 \/ job[p] = "init" => held[p] = {}
    /\ job[p] = "none" => cur[p] = 0
    /\ job[p] \in ChanJobs => cur[p] \in Chan /\ lease[cur[p]] = p
    /\ job[p] \in {"start", "stop", "contabort"} => cur[p] \in held[p]
    /\ job[p] = "release" => (cur[p] \in held[p] <=> pc[p] # "reldetach")
    /\ job[p] = "attach" => cur[p] \notin held[p]
    /\ job[p] = "start" => Driven(cur[p])
    /\ \A c \in held[p] : lease[c] = p
ThreadsOK == \A p \in Proc : ThreadOK(p)

\* What a thread does under a mutex it does holding it, and nobody has written
\* HOSTOVR since it was read.
LockOK(p) ==
    /\ pc[p] \in RegPcs => register_mutex = p
    /\ pc[p] = "hostwrite" => reg[p] = hostovr
    /\ pc[p] \in CmdPcs => command_mutex = p
LocksOK == \A p \in Proc : LockOK(p)

\* process_cnt counts the processes inside the library and those that died
\* there; while the first one initialises it is alone.
Inside == {p \in Proc : InLib(p)}
CountOK ==
    /\ process_cnt = Cardinality(Inside) + dead
    /\ dead > 0 => crashes > 0
    /\ libinit_mutex # NoProc =>
         /\ process_cnt = 1
         /\ \A p \in Proc : InLib(p) => p = libinit_mutex /\ job[p] = "init"
    /\ \A p \in Proc : InLib(p) /\ job[p] = "init" => libinit_mutex = p

\* The handler is attached while there are users.  The pulse that ends the
\* first process's wait is of the command that has loaded the script.
InitOK(p) ==
    /\ irq_on[p] <=> n_users[p] > 0
    /\ n_users[p] = 0 => isr[p] = NoIrq
    /\ pc[p] = "libinit" => isr[p] = NoIrq /\ channel_mask[p] = {}
    /\ job[p] = "init" =>
         /\ pc[p] = "cmdok" => script
         /\ pc[p] = "cmdwait" =>
              /\ pulses[p] > 0 \/ isr[p] = 0 \/ 0 \in intr => script
              /\ 0 \in hstart => cmd_bd.op = "script"
         /\ pc[p] \in {"cmdlock", "cmdevent"} =>
              pulses[p] = 0 /\ isr[p] # 0 /\ 0 \notin intr /\ 0 \notin hstart
InitsOK == \A p \in Proc : InitOK(p)
ScriptOK == process_cnt > 0 /\ libinit_mutex = NoProc => script

\* The handler's mask and events are those of the channels the thread holds,
\* and of channel 0 during a command.
MaskOK(p) ==
    /\ 0 \in channel_mask[p] <=> pc[p] \in CmdPcs
    /\ pc[p] = "eventadd" => cur[p] \in channel_mask[p]
    /\ pc[p] = "relevent" => cur[p] \notin channel_mask[p]
    /\ \A c \in Chan :
         /\ c \in channel_mask[p] => c \in held[p] \/ (pc[p] = "eventadd" /\ cur[p] = c)
         /\ c \in held[p] /\ ~(cur[p] = c /\ pc[p] = "relevent") => c \in channel_mask[p]
         /\ c \in held[p] => c \in event_array[p]
MasksOK == \A p \in Proc : MaskOK(p)

\* As long as no command has timed out, a command is in one place: given to
\* the engine, executed and its interrupt pending, in the handler, or a pulse.
Loaded(p) == job[p] # "init" => ctx[cur[p]] = p
TokenOK(p) ==
    /\ isr[p] = 0 \/ pulses[p] > 0 =>
         pc[p] = "cmdwait" /\ 0 \notin intr \cup hstart /\ Loaded(p)
    /\ pulses[p] > 0 => pulses[p] = 1 /\ isr[p] # 0
    /\ pc[p] = "cmdwait" /\ 0 \in intr => 0 \notin hstart /\ Loaded(p)
    /\ pc[p] = "cmdwait" /\ 0 \in hstart =>
         /\ cmd_bd.image = p /\ cmd_bd.ch = cur[p]
         /\ cmd_bd.op = IF job[p] = "init" THEN "script" ELSE "ctx"
    /\ pc[p] \in {"cmdevent", "cmdok"} => 0 \notin intr \cup hstart
    /\ pc[p] = "cmdok" => Loaded(p)
    /\ pc[p] # "cmdfail"
    /\ pc[p] \in AttachPcs => ctx[cur[p]] = p
    /\ \A c \in held[p] : ctx[c] = p
    /\ 0 \in hstart /\ cmd_bd.op = "ctx"
         /\ (cmd_bd.ch \in held[p] \/ (pc[p] \in AttachPcs /\ cur[p] = cmd_bd.ch))
         => cmd_bd.image = p
CommandOK ==
    timeouts = 0 =>
      /\ \A p \in Proc : TokenOK(p)
      /\ 0 \in intr \cup hstart => command_mutex # NoProc
      /\ 0 \in hstart => cmd_bd.op # "none"
HolderOK ==
    crashes = 0 => \A p \in Proc : command_mutex = p => pc[p] \in CmdPcs

\* As long as no process has died inside, a channel that can run, that has
\* completed or is armed is held by a process and not being released.
Using(p, c) == c \in held[p] /\ ~(job[p] = "release" /\ cur[p] = c)
FlowOK ==
    dead = 0 =>
      /\ \A c \in Chan : c \in hstart \cup intr \cup owed \cup hostovr =>
                           \E p \in Proc : Using(p, c)
      /\ \A c \in hostovr : Driven(c)
      /\ \A c \in owed : c \in intr \/ \E p \in Proc : isr[p] = c /\ c \in event_array[p]

SdmaInv == /\ TypeOK /\ ThreadsOK /\ LocksOK /\ CountOK /\ InitsOK /\ ScriptOK
           /\ MasksOK /\ CommandOK /\ HolderOK /\ FlowOK

-----------------------------------------------------------------------------
\* A step of one process changes nothing that belongs to another.
LEMMA LocalStep ==
    ASSUME TypeOK, NEW p \in Proc, ProcStep(p), NEW q \in Proc, q # p
    PROVE  /\ pc'[q] = pc[q] /\ job'[q] = job[q] /\ cur'[q] = cur[q]
           /\ reg'[q] = reg[q] /\ n_users'[q] = n_users[q] /\ held'[q] = held[q]
           /\ channel_mask'[q] = channel_mask[q]
           /\ event_array'[q] = event_array[q] /\ irq_on'[q] = irq_on[q]
           /\ pulses'[q] = pulses[q] /\ isr'[q] = isr[q]
<1> USE DEF TypeOK, ChanType, IrqType, ThreadType, shmem, locks, cmd, regs, ram,
            irq, chans, thr, hist, Go, Step, Forget, Return, Call, Detach
<1>1. CASE Calls(p)
  BY <1>1 DEF Calls, SdmaInit, SdmaFini, Attach, Release, Xfer
<1>2. CASE InitLib(p) \/ CmdLock(p) \/ RegLock(p)
  BY <1>2 DEF InitLib, LibInit, LibInitFails, CmdLock, RegLock
<1>3. CASE CmdStep(p)
  BY <1>3 DEF CmdStep, CmdPost, CmdPulse, CmdTimeout, CmdOk, CmdFail, CmdRemove,
              GiveUpInit
<1>4. CASE AttachStep(p)
  BY <1>4 DEF AttachStep, AttachEvents, Read, WriteEvtovr, AttachMask, AttachEvent
<1>5. CASE ReleaseStep(p)
  BY <1>5 DEF ReleaseStep, ReleaseEvents, Read, WriteEvtovr, ReleaseMask,
              ReleaseEvent, ReleaseDetach
<1>6. CASE HostRead(p) \/ HostWrite(p)
  BY <1>6 DEF HostRead, Read, HostWrite
<1>7. CASE IrqTake(p) \/ IrqReturn(p) \/ Crash(p)
  BY <1>7 DEF IrqTake, IrqReturn, Crash
<1> QED BY <1>1, <1>2, <1>3, <1>4, <1>5, <1>6, <1>7 DEF ProcStep, Run

\* Nor does it change who owns another process's channel, the request that
\* drives it or the context it runs with, unless that is what it loads.
LEMMA LeaseKept ==
    ASSUME TypeOK, ThreadsOK, NEW p \in Proc, ProcStep(p),
           NEW q \in Proc, q # p, NEW c \in Chan, lease[c] = q
    PROVE  lease'[c] = q /\ eventnum'[c] = eventnum[c]
<1> USE SdmaAssumption DEF TypeOK, ChanType, ThreadsOK, ThreadOK, ChanJobs, Jobs, CmdPcs, RelPcs,
            chans, Users
<1>1. CASE Calls(p)
  BY <1>1 DEF Calls, SdmaInit, SdmaFini, Attach, Release, Xfer
<1>2. CASE InitLib(p) \/ CmdLock(p) \/ RegLock(p)
  BY <1>2 DEF InitLib, LibInit, LibInitFails, CmdLock, RegLock
<1>3. CASE CmdStep(p)
  BY <1>3 DEF CmdStep, CmdPost, CmdPulse, CmdTimeout, CmdOk, CmdFail
<1>4. CASE AttachStep(p)
  BY <1>4 DEF AttachStep, AttachEvents, Read, WriteEvtovr, AttachMask, AttachEvent
<1>5. CASE ReleaseStep(p)
  BY <1>5 DEF ReleaseStep, ReleaseEvents, Read, WriteEvtovr, ReleaseMask,
              ReleaseEvent, ReleaseDetach
<1>6. CASE HostRead(p) \/ HostWrite(p)
  BY <1>6 DEF HostRead, Read, HostWrite
<1>7. CASE IrqTake(p) \/ IrqReturn(p) \/ Crash(p)
  BY <1>7 DEF IrqTake, IrqReturn, Crash
<1> QED BY <1>1, <1>2, <1>3, <1>4, <1>5, <1>6, <1>7 DEF ProcStep, Run

-----------------------------------------------------------------------------
\* ThreadOK is kept for the process that makes the step.
LEMMA ThreadSelf ==
    ASSUME TypeOK, ThreadsOK, NEW p \in Proc, ProcStep(p)
    PROVE  ThreadOK(p)'
<1> USE SdmaAssumption DEF TypeOK, ChanType, IrqType, ThreadType, ThreadsOK,
        ThreadOK, ChanJobs, Jobs, CmdPcs, AttachPcs, HostPcs, RelPcs, chans, thr,
        Go, Step, Return, Call, Driven, AllChan, SDMA_CMD_CH
<1>1. CASE SdmaInit(p)
  BY <1>1 DEF SdmaInit
<1>2. CASE SdmaFini(p)
  BY <1>2 DEF SdmaFini
<1>3. CASE Attach(p)
  BY <1>3 DEF Attach
<1>4. CASE Release(p)
  BY <1>4 DEF Release
<1>5. CASE Xfer(p)
  <2>1. PICK c \in held[p], j \in {"start", "stop", "contabort"} :
          /\ pc[p] = "idle"
          /\ \/ UNCHANGED <<pc, job, cur>>
             \/ /\ Driven(c) /\ pc' = [pc EXCEPT ![p] = "reglock"]
                /\ job' = [job EXCEPT ![p] = j] /\ cur' = [cur EXCEPT ![p] = c]
    BY <1>5 DEF Xfer
  <2>2. UNCHANGED <<n_users, held, lease, eventnum>>
    BY <1>5 DEF Xfer
  <2>3. CASE UNCHANGED <<pc, job, cur>>
    BY <2>2, <2>3
  <2>4. CASE ~UNCHANGED <<pc, job, cur>>
    <3>1. /\ Driven(c) /\ pc'[p] = "reglock" /\ job'[p] = j /\ cur'[p] = c
          /\ c \in held[p] /\ held[p] \subseteq Chan /\ n_users[p] # 0
      BY <2>1, <2>4
    <3> QED BY <2>2, <3>1
  <2> QED BY <2>3, <2>4
<1>6. CASE InitLib(p)
  BY <1>6 DEF InitLib, LibInit, LibInitFails
<1>7. CASE CmdLock(p) \/ RegLock(p) \/ CmdPost(p) \/ CmdPulse(p) \/ CmdTimeout(p)
  <2>1. UNCHANGED <<job, cur, n_users, held, lease, eventnum>>
    BY <1>7 DEF CmdLock, RegLock, CmdPost, CmdPulse, CmdTimeout
  <2>2. \/ pc[p] \in {"cmdlock", "cmdevent", "cmdwait"} /\ pc'[p] \in CmdPcs
        \/ /\ pc[p] = "reglock"
           /\ pc'[p] = IF job[p] = "release" THEN "relevtread" ELSE "hostread"
    BY <1>7 DEF CmdLock, RegLock, CmdPost, CmdPulse, CmdTimeout
  <2> QED BY <2>1, <2>2
<1>8. CASE CmdOk(p)
  BY <1>8 DEF CmdOk
<1>9. CASE CmdFail(p)
  <2>1. /\ pc[p] = "cmdfail" /\ pc'[p] = "idle" /\ job'[p] = "none" /\ cur'[p] = 0
        /\ held' = held
    BY <1>9 DEF CmdFail, GiveUpInit
  <2>2. n_users'[p] = IF job[p] = "init" THEN n_users[p] - 1 ELSE n_users[p]
    BY <1>9 DEF CmdFail, GiveUpInit
  <2>3. \A c \in held[p] : lease'[c] = p
    BY <1>9, <2>1 DEF CmdFail
  <2>4. n_users'[p] = 0 => held[p] = {}
    BY <2>1, <2>2
  <2> QED BY <2>1, <2>3, <2>4
<1>10. CASE AttachEvents(p) \/ AttachMask(p)
  <2>1. UNCHANGED <<job, cur, n_users, held, lease, eventnum>>
    BY <1>10 DEF AttachEvents, Read, WriteEvtovr, AttachMask
  <2>2. pc[p] \in AttachPcs /\ pc'[p] \in AttachPcs
    BY <1>10 DEF AttachEvents, Read, WriteEvtovr, AttachMask
  <2> QED BY <2>1, <2>2
<1>11. CASE AttachEvent(p)
  BY <1>11 DEF AttachEvent
<1>12. CASE ReleaseEvents(p) \/ ReleaseMask(p)
  <2>1. UNCHANGED <<job, cur, n_users, held, lease, eventnum>>
    BY <1>12 DEF ReleaseEvents, Read, WriteEvtovr, ReleaseMask
  <2>2. /\ pc[p] \in RelPcs \ {"reldetach"}
        /\ pc'[p] \in (RelPcs \ {"reldetach"}) \cup {"hostread"}
    BY <1>12 DEF ReleaseEvents, Read, WriteEvtovr, ReleaseMask
  <2> QED BY <2>1, <2>2
<1>13. CASE ReleaseEvent(p)
  BY <1>13 DEF ReleaseEvent
<1>14. CASE ReleaseDetach(p)
  BY <1>14 DEF ReleaseDetach
<1>15. CASE HostRead(p)
  BY <1>15 DEF HostRead, Read
<1>16. CASE HostWrite(p)
  BY <1>16 DEF HostWrite
<1>17. CASE IrqTake(p) \/ IrqReturn(p)
  <2>1. UNCHANGED <<pc, job, cur, n_users, held, lease, eventnum>>
    BY <1>17 DEF IrqTake, IrqReturn
  <2> QED BY <2>1
<1>18. CASE Crash(p)
  BY <1>18 DEF Crash
<1> QED BY <1>1, <1>2, <1>3, <1>4, <1>5, <1>6, <1>7, <1>8, <1>9, <1>10, <1>11,
           <1>12, <1>13, <1>14, <1>15, <1>16, <1>17, <1>18
        DEF ProcStep, Calls, Run, CmdStep, AttachStep, ReleaseStep

\* ... and for the others.
LEMMA ThreadStep ==
    ASSUME TypeOK, ThreadsOK, [Next]_vars
    PROVE  ThreadsOK'
<1> SUFFICES ASSUME NEW q \in Proc PROVE ThreadOK(q)'
  BY DEF ThreadsOK
<1>1. ThreadOK(q)
  BY DEF ThreadsOK
<1>2. ASSUME NEW p \in Proc, ProcStep(p) PROVE ThreadOK(q)'
  <2>1. CASE p = q
    BY <1>2, <2>1, ThreadSelf
  <2>2. CASE p # q
    <3>1. /\ pc'[q] = pc[q] /\ job'[q] = job[q] /\ cur'[q] = cur[q]
          /\ n_users'[q] = n_users[q] /\ held'[q] = held[q]
      BY <1>2, <2>2, LocalStep
    <3>2. \A c \in Chan : lease[c] = q => lease'[c] = q /\ eventnum'[c] = eventnum[c]
      BY <1>2, <2>2, LeaseKept
    <3>3. held[q] \subseteq Chan
      BY DEF TypeOK, ChanType
    <3> QED BY <1>1, <3>1, <3>2, <3>3 DEF ThreadOK, Driven, ChanJobs, Jobs
  <2> QED BY <2>1, <2>2
<1>3. CASE EngineCommand \/ EngineXfer \/ UNCHANGED vars
  BY <1>1, <1>3 DEF EngineCommand, EngineXfer, vars, chans, thr, ThreadOK, Driven
<1> QED BY <1>2, <1>3 DEF Next, ProcStep
-----------------------------------------------------------------------------
\* Every step keeps the types of the shared memory ...
LEMMA SharedTypeStep ==
    ASSUME TypeOK, [Next]_vars
    PROVE  SharedType'
<1> USE SdmaAssumption DEF TypeOK, SharedType, ThreadType, Users, AllChan,
        SDMA_CMD_CH, NoCmd, shmem, locks, cmd, Step
<1>1. ASSUME NEW p \in Proc, Calls(p) PROVE SharedType'
  BY <1>1 DEF Calls, SdmaInit, SdmaFini, Attach, Release, Xfer
<1>2. ASSUME NEW p \in Proc, InitLib(p) \/ CmdLock(p) \/ RegLock(p) PROVE SharedType'
  BY <1>2 DEF InitLib, LibInit, LibInitFails, CmdLock, RegLock
<1>3. ASSUME NEW p \in Proc, CmdStep(p) PROVE SharedType'
  BY <1>3 DEF CmdStep, CmdPost, CmdPulse, CmdTimeout, CmdOk, CmdFail, CmdRemove,
              GiveUpInit
<1>4. ASSUME NEW p \in Proc, AttachStep(p) PROVE SharedType'
  BY <1>4 DEF AttachStep, AttachEvents, Read, WriteEvtovr, AttachMask, AttachEvent
<1>5. ASSUME NEW p \in Proc, ReleaseStep(p) PROVE SharedType'
  BY <1>5 DEF ReleaseStep, ReleaseEvents, Read, WriteEvtovr, ReleaseMask,
              ReleaseEvent, ReleaseDetach
<1>6. ASSUME NEW p \in Proc, HostRead(p) \/ HostWrite(p) PROVE SharedType'
  BY <1>6 DEF HostRead, Read, HostWrite
<1>7. ASSUME NEW p \in Proc, IrqTake(p) \/ IrqReturn(p) \/ Crash(p) PROVE SharedType'
  BY <1>7 DEF IrqTake, IrqReturn, Crash
<1>8. CASE EngineCommand \/ EngineXfer \/ UNCHANGED vars
  BY <1>8 DEF EngineCommand, EngineXfer, vars
<1> QED BY <1>1, <1>2, <1>3, <1>4, <1>5, <1>6, <1>7, <1>8 DEF Next, Run

\* ... of the engine's registers ...
LEMMA EngineTypeStep ==
    ASSUME TypeOK, ThreadsOK, LocksOK, [Next]_vars
    PROVE  EngineType'
<1> USE SdmaAssumption DEF TypeOK, EngineType, AllChan, SDMA_CMD_CH, cmd, regs,
        ram, Step
<1>1. ASSUME NEW p \in Proc, SdmaInit(p) \/ SdmaFini(p) \/ Attach(p) \/ Release(p)
      PROVE  EngineType'
  BY <1>1 DEF SdmaInit, SdmaFini, Attach, Release
<1>2. ASSUME NEW p \in Proc, Xfer(p) PROVE EngineType'
  <2>1. PICK c \in held[p] : hstart' = hstart \/ hstart' = hstart \cup {c}
    BY <1>2 DEF Xfer
  <2>2. c \in Chan
    BY DEF ChanType
  <2>3. UNCHANGED <<evtovr, hostovr, chnenbl, intr, csm, script>>
    BY <1>2 DEF Xfer
  <2> QED BY <2>1, <2>2, <2>3
<1>3. ASSUME NEW p \in Proc, InitLib(p) \/ CmdLock(p) \/ RegLock(p) PROVE EngineType'
  BY <1>3 DEF InitLib, LibInit, LibInitFails, RegisterInit, CmdLock, RegLock
<1>4. ASSUME NEW p \in Proc, CmdStep(p) PROVE EngineType'
  BY <1>4 DEF CmdStep, CmdPost, CmdPulse, CmdTimeout, CmdOk, CmdFail
<1>5. ASSUME NEW p \in Proc, AttachEvents(p) \/ ReleaseEvents(p) PROVE EngineType'
  <2>1. cur[p] \in AllChan /\ reg[p] \in SUBSET AllChan
    BY DEF ThreadType
  <2>2. UNCHANGED <<hostovr, intr, hstart, csm, script>>
    BY <1>5 DEF AttachEvents, ReleaseEvents, Read, WriteEvtovr
  <2>3. evtovr' \in SUBSET AllChan
    BY <1>5, <2>1 DEF AttachEvents, ReleaseEvents, Read, WriteEvtovr
  <2>4. chnenbl' \in [Event -> SUBSET AllChan]
    BY <1>5, <2>1 DEF AttachEvents, ReleaseEvents, Read, WriteEvtovr
  <2> QED BY <2>2, <2>3, <2>4
<1>6. ASSUME NEW p \in Proc, \/ AttachMask(p) \/ AttachEvent(p) \/ ReleaseMask(p)
                             \/ ReleaseEvent(p) \/ ReleaseDetach(p) \/ HostRead(p)
      PROVE  EngineType'
  BY <1>6 DEF AttachMask, AttachEvent, ReleaseMask, ReleaseEvent, ReleaseDetach,
              HostRead, Read
<1>7. ASSUME NEW p \in Proc, HostWrite(p) PROVE EngineType'
  <2>1. pc[p] = "hostwrite"
    BY <1>7 DEF HostWrite
  <2>2. cur[p] \in Chan /\ reg[p] = hostovr
    BY <2>1 DEF ThreadsOK, ThreadOK, LocksOK, LockOK, HostPcs, ChanJobs, Jobs
  <2>3. UNCHANGED <<evtovr, chnenbl, intr, hstart, csm, script>>
    BY <1>7 DEF HostWrite
  <2> QED BY <1>7, <2>2, <2>3 DEF HostWrite
<1>8. ASSUME NEW p \in Proc, IrqTake(p) \/ IrqReturn(p) \/ Crash(p) PROVE EngineType'
  BY <1>8 DEF IrqTake, IrqClear, IrqReturn, Crash
<1>9. CASE EngineCommand \/ EngineXfer \/ UNCHANGED vars
  BY <1>9 DEF EngineCommand, EngineXfer, vars
<1> QED BY <1>1, <1>2, <1>3, <1>4, <1>5, <1>6, <1>7, <1>8, <1>9
        DEF Next, Calls, Run, AttachStep, ReleaseStep

\* ... of what is known of the channels ...
LEMMA ChanTypeStep ==
    ASSUME TypeOK, ThreadsOK, [Next]_vars
    PROVE  ChanType'
<1> USE SdmaAssumption DEF TypeOK, ChanType, AllChan, SDMA_CMD_CH, ram, chans,
        Users, Step, NoEvent
<1>1. ASSUME NEW p \in Proc, Calls(p) PROVE ChanType'
  BY <1>1 DEF Calls, SdmaInit, SdmaFini, Attach, Release, Xfer
<1>2. ASSUME NEW p \in Proc, InitLib(p) \/ CmdLock(p) \/ RegLock(p) PROVE ChanType'
  BY <1>2 DEF InitLib, LibInit, LibInitFails, RegisterInit, CmdLock, RegLock
<1>3. ASSUME NEW p \in Proc, CmdStep(p) PROVE ChanType'
  BY <1>3 DEF CmdStep, CmdPost, CmdPulse, CmdTimeout, CmdOk, CmdFail
<1>4. ASSUME NEW p \in Proc, AttachEvents(p) \/ AttachMask(p) PROVE ChanType'
  BY <1>4 DEF AttachEvents, Read, WriteEvtovr, AttachMask
<1>5. ASSUME NEW p \in Proc, AttachEvent(p) PROVE ChanType'
  <2>1. cur[p] \in Chan
    BY <1>5 DEF AttachEvent, ThreadsOK, ThreadOK, AttachPcs, ChanJobs, Jobs
  <2> QED BY <1>5, <2>1 DEF AttachEvent
<1>6. ASSUME NEW p \in Proc, ReleaseStep(p) PROVE ChanType'
  BY <1>6 DEF ReleaseStep, ReleaseEvents, Read, WriteEvtovr, ReleaseMask,
              ReleaseEvent, ReleaseDetach
<1>7. ASSUME NEW p \in Proc, HostRead(p) \/ HostWrite(p) PROVE ChanType'
  BY <1>7 DEF HostRead, Read, HostWrite
<1>8. ASSUME NEW p \in Proc, IrqTake(p) \/ IrqReturn(p) \/ Crash(p) PROVE ChanType'
  BY <1>8 DEF IrqTake, IrqReturn, Crash
<1>9. CASE EngineCommand
  <2>1. cmd_bd.image \in Users
    BY DEF SharedType
  <2> QED BY <1>9, <2>1 DEF EngineCommand
<1>10. CASE EngineXfer \/ UNCHANGED vars
  BY <1>10 DEF EngineXfer, vars
<1> QED BY <1>1, <1>2, <1>3, <1>4, <1>5, <1>6, <1>7, <1>8, <1>9, <1>10
        DEF Next, Run, AttachStep

\* ... of the users and interrupt handlers ...
LEMMA IrqOnStep ==
    ASSUME TypeOK, [Next]_vars
    PROVE  irq_on' \in [Proc -> BOOLEAN]
<1> USE DEF irq, Detach
<1>1. irq_on \in [Proc -> BOOLEAN]
  BY DEF TypeOK, IrqType
<1>2. ASSUME NEW p \in Proc, \/ irq_on' = irq_on
                             \/ irq_on' = [irq_on EXCEPT ![p] = TRUE]
                             \/ irq_on' = [irq_on EXCEPT ![p] = FALSE]
      PROVE  irq_on' \in [Proc -> BOOLEAN]
  BY <1>1, <1>2, Zenon
<1>3. ASSUME NEW p \in Proc, Calls(p) PROVE irq_on' \in [Proc -> BOOLEAN]
  BY <1>2, <1>3 DEF Calls, SdmaInit, SdmaFini, Attach, Release, Xfer
<1>4. ASSUME NEW p \in Proc, InitLib(p) \/ CmdLock(p) \/ RegLock(p) \/ CmdStep(p)
      PROVE  irq_on' \in [Proc -> BOOLEAN]
  BY <1>2, <1>4 DEF InitLib, LibInit, LibInitFails, CmdLock, RegLock, CmdStep,
     CmdPost, CmdPulse, CmdTimeout, CmdOk, CmdFail, GiveUpInit
<1>5. ASSUME NEW p \in Proc, AttachStep(p) \/ ReleaseStep(p)
      PROVE  irq_on' \in [Proc -> BOOLEAN]
  BY <1>2, <1>5 DEF AttachStep, AttachEvents, Read, WriteEvtovr, AttachMask,
     AttachEvent, ReleaseStep, ReleaseEvents, ReleaseMask, ReleaseEvent, ReleaseDetach
<1>6. ASSUME NEW p \in Proc, \/ HostRead(p) \/ HostWrite(p) \/ IrqTake(p)
                             \/ IrqReturn(p) \/ Crash(p)
      PROVE  irq_on' \in [Proc -> BOOLEAN]
  BY <1>2, <1>6 DEF HostRead, Read, HostWrite, IrqTake, IrqReturn, Crash
<1>7. CASE EngineCommand \/ EngineXfer \/ UNCHANGED vars
  BY <1>1, <1>7 DEF EngineCommand, EngineXfer, vars
<1> QED BY <1>3, <1>4, <1>5, <1>6, <1>7 DEF Next, Run

LEMMA IrqTypeStep ==
    ASSUME TypeOK, ThreadsOK, [Next]_vars
    PROVE  IrqType'
<1> DEFINE Others == /\ n_users \in [Proc -> Nat]
                     /\ channel_mask \in [Proc -> SUBSET AllChan]
                     /\ event_array \in [Proc -> SUBSET AllChan]
                     /\ pulses \in [Proc -> Nat]
                     /\ isr \in [Proc -> AllChan \cup {NoIrq}]
<1> USE SdmaAssumption DEF AllChan, SDMA_CMD_CH, irq, Step, NoIrq
<1>0. Others
  BY DEF TypeOK, IrqType
<1>1. ASSUME NEW p \in Proc, SdmaInit(p) \/ SdmaFini(p) PROVE Others'
  BY <1>0, <1>1 DEF SdmaInit, SdmaFini
<1>2. ASSUME NEW p \in Proc, Attach(p) \/ Release(p) \/ Xfer(p) PROVE Others'
  BY <1>0, <1>2 DEF Attach, Release, Xfer
<1>3. ASSUME NEW p \in Proc, InitLib(p) PROVE Others'
  <2>1. n_users[p] = 1
    BY <1>3 DEF InitLib, LibInit, LibInitFails, ThreadsOK, ThreadOK
  <2> QED BY <1>0, <1>3, <2>1 DEF InitLib, LibInit, LibInitFails
<1>4. ASSUME NEW p \in Proc, \/ CmdLock(p) \/ RegLock(p) \/ CmdPost(p) \/ CmdPulse(p)
                             \/ CmdTimeout(p) \/ CmdOk(p)
      PROVE  Others'
  BY <1>0, <1>4 DEF CmdLock, RegLock, CmdPost, CmdPulse, CmdTimeout, CmdOk, CmdRemove
<1>5. ASSUME NEW p \in Proc, CmdFail(p) PROVE Others'
  <2>1. job[p] = "init" => n_users[p] = 1
    BY DEF ThreadsOK, ThreadOK
  <2>2. /\ channel_mask' \in [Proc -> SUBSET AllChan]
        /\ event_array' \in [Proc -> SUBSET AllChan]
        /\ UNCHANGED <<pulses, isr>>
    BY <1>0, <1>5 DEF CmdFail, CmdRemove
  <2>3. n_users' \in [Proc -> Nat]
    BY <1>0, <1>5, <2>1 DEF CmdFail, GiveUpInit
  <2> QED BY <1>0, <2>2, <2>3
<1>6. ASSUME NEW p \in Proc, AttachStep(p) PROVE Others'
  <2>1. cur[p] \in AllChan
    BY DEF TypeOK, ThreadType
  <2> QED BY <1>0, <1>6, <2>1 DEF AttachStep, AttachEvents, Read, WriteEvtovr,
                                  AttachMask, AttachEvent
<1>7. ASSUME NEW p \in Proc, ReleaseStep(p) PROVE Others'
  BY <1>0, <1>7 DEF ReleaseStep, ReleaseEvents, Read, WriteEvtovr, ReleaseMask,
              ReleaseEvent, ReleaseDetach
<1>8. ASSUME NEW p \in Proc, HostRead(p) \/ HostWrite(p) PROVE Others'
  BY <1>0, <1>8 DEF HostRead, Read, HostWrite
<1>9. ASSUME NEW p \in Proc, IrqTake(p) \/ IrqReturn(p) \/ Crash(p) PROVE Others'
  BY <1>0, <1>9 DEF IrqTake, IrqReturn, Crash
<1>10. ASSUME EngineCommand \/ EngineXfer \/ UNCHANGED vars PROVE Others'
  BY <1>0, <1>10 DEF EngineCommand, EngineXfer, vars
<1>11. Others'
  BY <1>1, <1>2, <1>3, <1>4, <1>5, <1>6, <1>7, <1>8, <1>9, <1>10
     DEF Next, Calls, Run, CmdStep
<1> QED BY <1>11, IrqOnStep DEF IrqType

\* ... of the threads ...
LEMMA ThreadTypeStep ==
    ASSUME TypeOK, ThreadsOK, [Next]_vars
    PROVE  ThreadType'
<1> USE SdmaAssumption DEF TypeOK, ThreadType, AllChan, SDMA_CMD_CH, thr, Go,
        Step, Return, Call, Forget, Pcs, Jobs
<1>1. ASSUME NEW p \in Proc, SdmaInit(p) PROVE ThreadType'
  <2>1. CASE n_users[p] = 0
    BY <1>1, <2>1 DEF SdmaInit
  <2>2. CASE n_users[p] # 0
    BY <1>1, <2>2 DEF SdmaInit
  <2> QED BY <2>1, <2>2
<1>2. ASSUME NEW p \in Proc, SdmaFini(p) \/ Attach(p) PROVE ThreadType'
  BY <1>2 DEF SdmaFini, Attach
<1>3. ASSUME NEW p \in Proc, Release(p) \/ Xfer(p) PROVE ThreadType'
  <2>1. held[p] \subseteq AllChan
    BY DEF ChanType
  <2>2. CASE UNCHANGED <<pc, job, cur, reg>>
    BY <2>2
  <2>3. CASE \E c \in held[p], j \in Jobs :
               Call(p, "reglock", j, c) /\ UNCHANGED reg
    BY <2>1, <2>3
  <2> QED BY <1>3, <2>2, <2>3 DEF Release, Xfer
<1>4. ASSUME NEW p \in Proc, InitLib(p) PROVE ThreadType'
  <2>1. CASE Return(p) /\ UNCHANGED reg
    BY <2>1
  <2>2. CASE Go(p, "cmdlock") /\ UNCHANGED <<job, cur, reg>>
    BY <2>2
  <2> QED BY <1>4, <2>1, <2>2 DEF InitLib, LibInit, LibInitFails
<1>5. ASSUME NEW p \in Proc, \/ CmdLock(p) \/ RegLock(p) \/ CmdPost(p) \/ CmdPulse(p)
                             \/ CmdTimeout(p)
      PROVE  ThreadType'
  BY <1>5 DEF CmdLock, RegLock, CmdPost, CmdPulse, CmdTimeout
<1>6. ASSUME NEW p \in Proc, CmdOk(p) \/ CmdFail(p) PROVE ThreadType'
  <2>1. CASE Return(p) /\ UNCHANGED reg
    BY <2>1
  <2>2. CASE Go(p, IF Driven(cur[p]) THEN "evtread" ELSE "maskadd")
             /\ UNCHANGED <<job, cur, reg>>
    BY <2>2
  <2> QED BY <1>6, <2>1, <2>2 DEF CmdOk, CmdFail, GiveUpInit
<1>7. ASSUME NEW p \in Proc, AttachEvents(p) \/ ReleaseEvents(p) PROVE ThreadType'
  <2>1. UNCHANGED <<job, cur>> /\ \E l \in Pcs : Go(p, l)
    BY <1>7 DEF AttachEvents, ReleaseEvents, Read, WriteEvtovr
  <2>2. \E v \in SUBSET AllChan : reg' = [reg EXCEPT ![p] = v]
    <3>1. evtovr \in SUBSET AllChan /\ {} \in SUBSET AllChan
      BY DEF EngineType
    <3>2. chnenbl[EnblOf(cur[p])] \in SUBSET AllChan
      <4>1. pc[p] \in AttachPcs \cup RelPcs
        BY <1>7 DEF AttachEvents, ReleaseEvents, Read, WriteEvtovr, AttachPcs, RelPcs
      <4>2. cur[p] \in Chan
        BY <4>1 DEF ThreadsOK, ThreadOK, ChanJobs
      <4>3. EnblOf(cur[p]) \in Event
        BY <4>2 DEF ChanType, EnblOf, Driven, NoEvent
      <4> QED BY <4>3 DEF EngineType
    <3> QED BY <1>7, <3>1, <3>2 DEF AttachEvents, ReleaseEvents, Read, WriteEvtovr
  <2> QED BY <2>1, <2>2
<1>8. ASSUME NEW p \in Proc, \/ AttachMask(p) \/ AttachEvent(p) \/ ReleaseMask(p)
                             \/ ReleaseEvent(p) \/ ReleaseDetach(p)
      PROVE  ThreadType'
  BY <1>8 DEF AttachMask, AttachEvent, ReleaseMask, ReleaseEvent, ReleaseDetach
<1>9. ASSUME NEW p \in Proc, HostRead(p) \/ HostWrite(p) PROVE ThreadType'
  BY <1>9 DEF HostRead, Read, HostWrite, EngineType
<1>10. ASSUME NEW p \in Proc, IrqTake(p) \/ IrqReturn(p) \/ Crash(p) PROVE ThreadType'
  BY <1>10 DEF IrqTake, IrqReturn, Crash
<1>11. CASE EngineCommand \/ EngineXfer \/ UNCHANGED vars
  BY <1>11 DEF EngineCommand, EngineXfer, vars
<1> QED BY <1>1, <1>2, <1>3, <1>4, <1>5, <1>6, <1>7, <1>8, <1>9, <1>10, <1>11
        DEF Next, Calls, Run, CmdStep, AttachStep, ReleaseStep

\* ... and of the history.
LEMMA HistTypeStep ==
    ASSUME TypeOK, [Next]_vars
    PROVE  HistType'
<1> USE DEF TypeOK, HistType, hist
<1>1. ASSUME NEW p \in Proc, Calls(p) PROVE HistType'
  BY <1>1 DEF Calls, SdmaInit, SdmaFini, Attach, Release, Xfer
<1>2. ASSUME NEW p \in Proc, InitLib(p) \/ CmdLock(p) \/ RegLock(p) PROVE HistType'
  BY <1>2 DEF InitLib, LibInit, LibInitFails, CmdLock, RegLock
<1>3. ASSUME NEW p \in Proc, CmdStep(p) PROVE HistType'
  BY <1>3 DEF CmdStep, CmdPost, CmdPulse, CmdTimeout, CmdOk, CmdFail
<1>4. ASSUME NEW p \in Proc, AttachStep(p) PROVE HistType'
  BY <1>4 DEF AttachStep, AttachEvents, Read, WriteEvtovr, AttachMask, AttachEvent
<1>5. ASSUME NEW p \in Proc, ReleaseStep(p) PROVE HistType'
  BY <1>5 DEF ReleaseStep, ReleaseEvents, Read, WriteEvtovr, ReleaseMask,
              ReleaseEvent, ReleaseDetach
<1>6. ASSUME NEW p \in Proc, HostRead(p) \/ HostWrite(p) \/ IrqTake(p) PROVE HistType'
  BY <1>6 DEF HostRead, Read, HostWrite, IrqTake
<1>7. ASSUME NEW p \in Proc, IrqReturn(p) PROVE HistType'
  <2>1. owed' = owed \/ owed' = owed \ {isr[p]}
    BY <1>7 DEF IrqReturn
  <2>2. UNCHANGED <<timeouts, crashes, dead>>
    BY <1>7 DEF IrqReturn
  <2> QED BY <2>1, <2>2
<1>8. ASSUME NEW p \in Proc, Crash(p) PROVE HistType'
  <2>1. owed' = owed \ held[p] /\ timeouts' = timeouts /\ crashes' = crashes + 1
    BY <1>8 DEF Crash
  <2>2. dead' = dead \/ dead' = dead + 1
    BY <1>8 DEF Crash
  <2> QED BY <2>1, <2>2
<1>9. CASE EngineCommand \/ EngineXfer \/ UNCHANGED vars
  BY <1>9 DEF EngineCommand, EngineXfer, vars
<1> QED BY <1>1, <1>2, <1>3, <1>4, <1>5, <1>6, <1>7, <1>8, <1>9 DEF Next, Run

LEMMA TypeStep ==
    ASSUME TypeOK, ThreadsOK, LocksOK, [Next]_vars
    PROVE  TypeOK'
BY SharedTypeStep, EngineTypeStep, ChanTypeStep, IrqTypeStep, ThreadTypeStep,
   HistTypeStep DEF TypeOK

-----------------------------------------------------------------------------
\* The process that sdmasync_is_first_process calls the first finds nobody in
\* the library, and nobody has died there.
LEMMA FirstAlone ==
    ASSUME TypeOK, CountOK, sdmasync_is_first_process(process_cnt + 1)
    PROVE  dead = 0 /\ \A q \in Proc : ~InLib(q)
<1>1. IsFiniteSet(Inside) /\ Cardinality(Inside) \in Nat
  <2>1. IsFiniteSet(Inside)
    BY SdmaAssumption, FS_Subset DEF Inside
  <2> QED BY <2>1, FS_CardinalityType
<1>2. dead = 0 /\ Cardinality(Inside) = 0
  BY <1>1 DEF CountOK, sdmasync_is_first_process, TypeOK, SharedType, HistType
<1>3. Inside = {}
  BY <1>1, <1>2, FS_EmptySet
<1> QED BY <1>2, <1>3 DEF Inside

\* Someone inside the library is counted.
LEMMA InsideCounted ==
    ASSUME TypeOK, CountOK, NEW q \in Proc, InLib(q)
    PROVE  process_cnt > 0
<1>1. IsFiniteSet(Inside) /\ Cardinality(Inside) \in Nat
  <2>1. IsFiniteSet(Inside)
    BY SdmaAssumption, FS_Subset DEF Inside
  <2> QED BY <2>1, FS_CardinalityType
<1>2. Inside # {}
  BY DEF Inside
<1>3. Cardinality(Inside) # 0
  BY <1>1, <1>2, FS_EmptySet
<1> QED BY <1>1, <1>3 DEF CountOK, TypeOK, SharedType, HistType

\* A first process that resets the engine disarms no channel: none was armed.
LEMMA ResetDisarmsNone ==
    ASSUME TypeOK, ThreadsOK, CountOK, FlowOK,
           sdmasync_is_first_process(process_cnt + 1)
    PROVE  /\ \A c \in Chan : c \notin hstart \cup intr \cup owed \cup hostovr
           /\ hostovr = {}
<1>1. dead = 0 /\ \A q \in Proc : ~InLib(q)
  BY FirstAlone
<1>2. \A q \in Proc : held[q] = {}
  BY <1>1 DEF InLib, ThreadsOK, ThreadOK, TypeOK, IrqType
<1>3. \A c \in Chan : c \notin hstart \cup intr \cup owed \cup hostovr
  BY <1>1, <1>2 DEF FlowOK, Using
<1> QED BY <1>3 DEF TypeOK, EngineType

\* HOSTOVR and its mutex are left alone by all but the functions that lock it
\* and a first process's reset.
LEMMA HostovrKept ==
    ASSUME TypeOK, CountOK, NEW p \in Proc, ProcStep(p)
    PROVE  \/ HostWrite(p) \/ UNCHANGED hostovr
           \/ hostovr' = {} /\ \A q \in Proc : ~InLib(q)
<1> USE DEF cmd, regs, Step
<1>1. CASE Calls(p)
  BY <1>1 DEF Calls, SdmaInit, SdmaFini, Attach, Release, Xfer
<1>2. CASE InitLib(p)
  <2>1. UNCHANGED hostovr \/ (hostovr' = {} /\ sdmasync_is_first_process(process_cnt + 1))
    BY <1>2 DEF InitLib, LibInit, LibInitFails, RegisterInit
  <2> QED BY <2>1, FirstAlone
<1>3. CASE CmdLock(p) \/ RegLock(p) \/ CmdStep(p)
  BY <1>3 DEF CmdLock, RegLock, CmdStep, CmdPost, CmdPulse, CmdTimeout, CmdOk, CmdFail
<1>4. CASE AttachStep(p)
  BY <1>4 DEF AttachStep, AttachEvents, Read, WriteEvtovr, AttachMask, AttachEvent
<1>5. CASE ReleaseStep(p)
  BY <1>5 DEF ReleaseStep, ReleaseEvents, Read, WriteEvtovr, ReleaseMask,
              ReleaseEvent, ReleaseDetach
<1>6. CASE HostRead(p) \/ HostWrite(p)
  BY <1>6 DEF HostRead, Read
<1>7. CASE IrqTake(p) \/ IrqReturn(p) \/ Crash(p)
  BY <1>7 DEF IrqTake, IrqReturn, Crash
<1> QED BY <1>1, <1>2, <1>3, <1>4, <1>5, <1>6, <1>7 DEF ProcStep, Run

LEMMA RegMutexKept ==
    ASSUME TypeOK, NEW p \in Proc, ProcStep(p)
    PROVE  \/ UNCHANGED register_mutex
           \/ register_mutex = NoProc
           \/ pc[p] \in RegPcs
<1> USE DEF shmem, locks, Step, RegPcs
<1>1. CASE Calls(p)
  BY <1>1 DEF Calls, SdmaInit, SdmaFini, Attach, Release, Xfer
<1>2. CASE InitLib(p) \/ CmdLock(p) \/ RegLock(p)
  BY <1>2 DEF InitLib, LibInit, LibInitFails, CmdLock, RegLock
<1>3. CASE CmdStep(p)
  BY <1>3 DEF CmdStep, CmdPost, CmdPulse, CmdTimeout, CmdOk, CmdFail
<1>4. CASE AttachStep(p)
  BY <1>4 DEF AttachStep, AttachEvents, Read, WriteEvtovr, AttachMask, AttachEvent
<1>5. CASE ReleaseStep(p)
  BY <1>5 DEF ReleaseStep, ReleaseEvents, Read, WriteEvtovr, ReleaseMask,
              ReleaseEvent, ReleaseDetach
<1>6. CASE HostRead(p) \/ HostWrite(p)
  BY <1>6 DEF HostRead, Read, HostWrite
<1>7. CASE IrqTake(p) \/ IrqReturn(p) \/ Crash(p)
  BY <1>7 DEF IrqTake, IrqReturn, Crash
<1> QED BY <1>1, <1>2, <1>3, <1>4, <1>5, <1>6, <1>7 DEF ProcStep, Run

\* The command mutex is taken when free and given up by its holder.
LEMMA CmdMutexKept ==
    ASSUME TypeOK, NEW p \in Proc, ProcStep(p)
    PROVE  \/ /\ UNCHANGED command_mutex
              /\ pc[p] \in CmdPcs => pc'[p] \in CmdPcs \/ Crash(p)
           \/ command_mutex = NoProc /\ command_mutex' = p /\ pc'[p] \in CmdPcs
           \/ pc[p] \in CmdPcs /\ command_mutex' = NoProc
<1> USE DEF shmem, locks, thr, Step, Go, Call, CmdPcs, TypeOK, ThreadType
<1>1. CASE Calls(p)
  BY <1>1 DEF Calls, SdmaInit, SdmaFini, Attach, Release, Xfer
<1>2. CASE InitLib(p) \/ CmdLock(p) \/ RegLock(p)
  BY <1>2 DEF InitLib, LibInit, LibInitFails, CmdLock, RegLock
<1>3. CASE CmdStep(p)
  BY <1>3 DEF CmdStep, CmdPost, CmdPulse, CmdTimeout, CmdOk, CmdFail, CmdRemove
<1>4. CASE AttachStep(p)
  BY <1>4 DEF AttachStep, AttachEvents, Read, WriteEvtovr, AttachMask, AttachEvent
<1>5. CASE ReleaseStep(p)
  BY <1>5 DEF ReleaseStep, ReleaseEvents, Read, WriteEvtovr, ReleaseMask,
              ReleaseEvent, ReleaseDetach
<1>6. CASE HostRead(p) \/ HostWrite(p)
  BY <1>6 DEF HostRead, Read, HostWrite
<1>7. CASE IrqTake(p) \/ IrqReturn(p) \/ Crash(p)
  BY <1>7 DEF IrqTake, IrqReturn, Crash
<1> QED BY <1>1, <1>2, <1>3, <1>4, <1>5, <1>6, <1>7 DEF ProcStep, Run

\* LockOK is kept for the process that makes the step ...
LEMMA LockSelf ==
    ASSUME TypeOK, ThreadsOK, LocksOK, NEW p \in Proc, ProcStep(p)
    PROVE  LockOK(p)'
<1> USE SdmaAssumption DEF TypeOK, ThreadType, ThreadsOK, ThreadOK, LocksOK, LockOK,
        RegPcs, CmdPcs, shmem, locks, thr, regs, Go, Step, Return, Call, Forget
<1>1. CASE Calls(p)
  BY <1>1 DEF Calls, SdmaInit, SdmaFini, Attach, Release, Xfer
<1>2. CASE InitLib(p) \/ CmdLock(p) \/ RegLock(p)
  BY <1>2 DEF InitLib, LibInit, LibInitFails, CmdLock, RegLock
<1>3. CASE CmdStep(p)
  BY <1>3 DEF CmdStep, CmdPost, CmdPulse, CmdTimeout, CmdOk, CmdFail, CmdRemove,
              GiveUpInit
<1>4. CASE AttachStep(p)
  BY <1>4 DEF AttachStep, AttachEvents, Read, WriteEvtovr, AttachMask, AttachEvent
<1>5. CASE ReleaseStep(p)
  BY <1>5 DEF ReleaseStep, ReleaseEvents, Read, WriteEvtovr, ReleaseMask,
              ReleaseEvent, ReleaseDetach
<1>6. CASE HostRead(p) \/ HostWrite(p)
  BY <1>6 DEF HostRead, Read, HostWrite
<1>7. CASE IrqTake(p) \/ IrqReturn(p) \/ Crash(p)
  BY <1>7 DEF IrqTake, IrqReturn, Crash
<1> QED BY <1>1, <1>2, <1>3, <1>4, <1>5, <1>6, <1>7 DEF ProcStep, Run

\* ... and for the others.
LEMMA LockStep ==
    ASSUME TypeOK, ThreadsOK, LocksOK, CountOK, [Next]_vars
    PROVE  LocksOK'
<1> SUFFICES ASSUME NEW q \in Proc PROVE LockOK(q)'
  BY DEF LocksOK
<1>1. LockOK(q)
  BY DEF LocksOK
<1>2. ASSUME NEW p \in Proc, ProcStep(p) PROVE LockOK(q)'
  <2>1. CASE p = q
    BY <1>2, <2>1, LockSelf
  <2>2. CASE p # q
    <3>1. pc'[q] = pc[q] /\ reg'[q] = reg[q]
      BY <1>2, <2>2, LocalStep
    <3>2. LockOK(p) /\ p # NoProc /\ q # NoProc
      BY SdmaAssumption DEF LocksOK
    <3>3. pc[q] \in RegPcs => register_mutex' = q
      BY <1>1, <1>2, <2>2, <3>2, RegMutexKept DEF LockOK
    <3>4. pc[q] \in CmdPcs => command_mutex' = q
      BY <1>1, <1>2, <2>2, <3>2, CmdMutexKept DEF LockOK
    <3>5. pc[q] = "hostwrite" => hostovr' = hostovr
      <4>1. pc[q] = "hostwrite" => ~HostWrite(p)
        BY <1>1, <2>2, <3>2 DEF LockOK, HostWrite, RegPcs
      <4>2. pc[q] = "hostwrite" => InLib(q)
        BY DEF InLib, ThreadsOK, ThreadOK, TypeOK, IrqType
      <4> QED BY <1>2, <4>1, <4>2, HostovrKept
    <3> QED BY <1>1, <3>1, <3>3, <3>4, <3>5 DEF LockOK
  <2> QED BY <2>1, <2>2
<1>3. CASE EngineCommand \/ EngineXfer \/ UNCHANGED vars
  BY <1>1, <1>3 DEF EngineCommand, EngineXfer, vars, shmem, thr, LockOK
<1> QED BY <1>2, <1>3 DEF Next, ProcStep

-----------------------------------------------------------------------------
\* The ways into the library and out of it.
Stays(p) == /\ InLib(p)' <=> InLib(p)
            /\ UNCHANGED <<process_cnt, dead, libinit_mutex>>
            /\ crashes' \in Nat /\ crashes' >= crashes
            /\ InLib(p) => (job'[p] = "init" <=> job[p] = "init")
            /\ script' = script \/ sdmasync_is_first_process(process_cnt + 1)
Enters(p) == /\ ~InLib(p) /\ InLib(p)' /\ libinit_mutex = NoProc
             /\ process_cnt' = process_cnt + 1 /\ UNCHANGED <<dead, crashes>>
             /\ IF sdmasync_is_first_process(process_cnt + 1)
                  THEN libinit_mutex' = p /\ job'[p] = "init"
                  ELSE /\ libinit_mutex' = NoProc /\ job'[p] = "none"
                       /\ UNCHANGED script
Leaves(p) == /\ InLib(p) /\ ~InLib(p)'
             /\ libinit_mutex = NoProc \/ job[p] = "init"
             /\ process_cnt' = process_cnt - 1 /\ libinit_mutex' = NoProc
             /\ UNCHANGED <<dead, crashes, script>>
Dies(p) == /\ InLib(p) /\ ~InLib(p)' /\ dead' = dead + 1 /\ crashes' = crashes + 1
           /\ UNCHANGED <<process_cnt, libinit_mutex, script>>
Finishes(p) == /\ InLib(p) /\ InLib(p)' /\ job[p] = "init" /\ job'[p] = "none"
               /\ pc[p] = "cmdok" /\ libinit_mutex' = NoProc
               /\ UNCHANGED <<process_cnt, dead, crashes, script>>

LEMMA CountSelf ==
    ASSUME TypeOK, ThreadsOK, NEW p \in Proc, ProcStep(p)
    PROVE  Stays(p) \/ Enters(p) \/ Leaves(p) \/ Dies(p) \/ Finishes(p)
<1> USE SdmaAssumption DEF TypeOK, ThreadType, IrqType, HistType, ThreadsOK,
        ThreadOK, InLib, shmem, locks, ram, RegisterInit, thr, hist, Go, Step, Return, Call
<1>1. CASE SdmaInit(p)
  <2>1. Stays(p)
    BY <1>1 DEF SdmaInit, Stays
  <2> QED BY <2>1
<1>2. CASE SdmaFini(p)
  <2>1. CASE n_users[p] = 1
    <3>1. Leaves(p)
      BY <1>2, <2>1 DEF SdmaFini, Leaves
    <3> QED BY <3>1
  <2>2. CASE n_users[p] # 1
    <3>1. Stays(p)
      BY <1>2, <2>2 DEF SdmaFini, Stays
    <3> QED BY <3>1
  <2> QED BY <2>1, <2>2
<1>3. CASE Attach(p) \/ Release(p) \/ Xfer(p)
  <2>1. Stays(p)
    BY <1>3 DEF Attach, Release, Xfer, Stays
  <2> QED BY <2>1
<1>4. CASE LibInit(p)
  <2>1. Enters(p)
    BY <1>4 DEF LibInit, Enters
  <2> QED BY <2>1
<1>5. CASE LibInitFails(p)
  <2>1. Stays(p)
    BY <1>5 DEF LibInitFails, Stays
  <2> QED BY <2>1
<1>6. CASE CmdLock(p) \/ RegLock(p) \/ CmdPost(p) \/ CmdPulse(p) \/ CmdTimeout(p)
  <2>1. Stays(p)
    BY <1>6 DEF CmdLock, RegLock, CmdPost, CmdPulse, CmdTimeout, Stays
  <2> QED BY <2>1
<1>7. CASE CmdOk(p)
  <2>1. CASE job[p] = "init"
    <3>1. Finishes(p)
      BY <1>7, <2>1 DEF CmdOk, CmdRemove, Finishes
    <3> QED BY <3>1
  <2>2. CASE job[p] # "init"
    <3>1. Stays(p)
      BY <1>7, <2>2 DEF CmdOk, CmdRemove, Stays
    <3> QED BY <3>1
  <2> QED BY <2>1, <2>2
<1>8. CASE CmdFail(p)
  <2>1. CASE job[p] = "init"
    <3>1. Leaves(p)
      BY <1>8, <2>1 DEF CmdFail, GiveUpInit, CmdRemove, Leaves
    <3> QED BY <3>1
  <2>2. CASE job[p] # "init"
    <3>1. Stays(p)
      BY <1>8, <2>2 DEF CmdFail, CmdRemove, Stays
    <3> QED BY <3>1
  <2> QED BY <2>1, <2>2
<1>9. CASE AttachStep(p)
  <2>1. Stays(p)
    BY <1>9 DEF AttachStep, AttachEvents, Read, WriteEvtovr, AttachMask,
                AttachEvent, Stays, AttachPcs
  <2> QED BY <2>1
<1>10. CASE ReleaseStep(p)
  <2>1. Stays(p)
    BY <1>10 DEF ReleaseStep, ReleaseEvents, Read, WriteEvtovr, ReleaseMask,
                 ReleaseEvent, ReleaseDetach, Stays, RelPcs
  <2> QED BY <2>1
<1>11. CASE HostRead(p) \/ HostWrite(p) \/ IrqTake(p) \/ IrqReturn(p)
  <2>1. Stays(p)
    BY <1>11 DEF HostRead, Read, HostWrite, IrqTake, IrqReturn, Stays, HostPcs,
                 ChanJobs, Jobs
  <2> QED BY <2>1
<1>12. CASE Crash(p)
  <2>1. CASE pc[p] = "libinit"
    <3>1. Stays(p)
      BY <1>12, <2>1 DEF Crash, Stays
    <3> QED BY <3>1
  <2>2. CASE pc[p] # "libinit"
    <3>1. Dies(p)
      BY <1>12, <2>2 DEF Crash, Dies
    <3> QED BY <3>1
  <2> QED BY <2>1, <2>2
<1> QED BY <1>1, <1>2, <1>3, <1>4, <1>5, <1>6, <1>7, <1>8, <1>9, <1>10, <1>11, <1>12
        DEF ProcStep, Calls, InitLib, Run, CmdStep

\* The count stays right, across failed initialisations and deaths.
LEMMA CountStep ==
    ASSUME TypeOK, ThreadsOK, CountOK, [Next]_vars
    PROVE  CountOK'
<1>1. IsFiniteSet(Inside) /\ Cardinality(Inside) \in Nat
  <2>1. IsFiniteSet(Inside)
    BY SdmaAssumption, FS_Subset DEF Inside
  <2> QED BY <2>1, FS_CardinalityType
<1>2. ASSUME NEW p \in Proc, ProcStep(p) PROVE CountOK'
  <2>1. \A q \in Proc : q # p =>
          /\ InLib(q)' <=> InLib(q)
          /\ job'[q] = job[q]
    BY <1>2, LocalStep DEF InLib
  <2>2. process_cnt \in Int /\ dead \in Nat /\ crashes \in Nat /\ p # NoProc
    BY SdmaAssumption DEF TypeOK, SharedType, HistType
  <2>3. CASE Stays(p)
    <3>1. Inside' = Inside
      BY <2>1, <2>3 DEF Stays, Inside
    <3> QED BY <2>1, <2>2, <2>3, <3>1 DEF Stays, CountOK
  <2>4. CASE Enters(p)
    <3>1. Inside' = Inside \cup {p} /\ p \notin Inside
      BY <2>1, <2>4 DEF Enters, Inside
    <3>2. Cardinality(Inside') = Cardinality(Inside) + 1
      BY <1>1, <3>1, FS_AddElement
    <3>3. /\ process_cnt' = Cardinality(Inside') + dead'
          /\ dead' > 0 => crashes' > 0
      BY <1>1, <2>2, <2>4, <3>2 DEF Enters, CountOK
    <3>4. CASE sdmasync_is_first_process(process_cnt + 1)
      <4>1. \A q \in Proc : ~InLib(q)
        BY <3>4, FirstAlone
      <4> QED BY <2>1, <2>2, <2>4, <3>3, <3>4, <4>1
              DEF Enters, CountOK, sdmasync_is_first_process
    <3>5. CASE ~sdmasync_is_first_process(process_cnt + 1)
      BY <2>1, <2>2, <2>4, <3>3, <3>5 DEF Enters, CountOK
    <3> QED BY <3>4, <3>5
  <2>5. CASE Leaves(p)
    <3>1. Inside' = Inside \ {p} /\ p \in Inside
      BY <2>1, <2>5 DEF Leaves, Inside
    <3>2. Cardinality(Inside') = Cardinality(Inside) - 1
      BY <1>1, <3>1, FS_RemoveElement
    <3>3. /\ process_cnt' = Cardinality(Inside') + dead'
          /\ dead' > 0 => crashes' > 0
      BY <1>1, <2>2, <2>5, <3>2 DEF Leaves, CountOK
    <3>4. \A q \in Proc : InLib(q)' => job'[q] # "init"
      BY SdmaAssumption, <2>1, <2>5 DEF Leaves, CountOK
    <3> QED BY <2>5, <3>3, <3>4 DEF Leaves, CountOK
  <2>6. CASE Dies(p)
    <3>1. Inside' = Inside \ {p} /\ p \in Inside
      BY <2>1, <2>6 DEF Dies, Inside
    <3>2. Cardinality(Inside') = Cardinality(Inside) - 1
      BY <1>1, <3>1, FS_RemoveElement
    <3>3. /\ process_cnt' = Cardinality(Inside') + dead'
          /\ dead' > 0 => crashes' > 0
      BY <1>1, <2>2, <2>6, <3>2 DEF Dies, CountOK
    <3> QED BY <2>1, <2>6, <3>3 DEF Dies, CountOK
  <2>7. CASE Finishes(p)
    <3>1. Inside' = Inside
      BY <2>1, <2>7 DEF Finishes, Inside
    <3>2. \A q \in Proc : InLib(q)' => job'[q] # "init"
      BY SdmaAssumption, <2>1, <2>7 DEF Finishes, CountOK
    <3> QED BY <2>1, <2>2, <2>7, <3>1, <3>2 DEF Finishes, CountOK
  <2> QED BY <1>2, <2>3, <2>4, <2>5, <2>6, <2>7, CountSelf
<1>3. CASE EngineCommand \/ EngineXfer \/ UNCHANGED vars
  <2>1. UNCHANGED <<process_cnt, libinit_mutex, n_users, pc, job, dead, crashes>>
    BY <1>3 DEF EngineCommand, EngineXfer, vars, shmem, thr, hist
  <2>2. Inside' = Inside
    BY <2>1 DEF Inside, InLib
  <2> QED BY <2>1, <2>2 DEF CountOK, InLib
<1> QED BY <1>2, <1>3 DEF Next, ProcStep

-----------------------------------------------------------------------------
\* While the first process initialises, the processes that have not come into
\* the library touch neither the engine nor the command.
LEMMA OutsideStep ==
    ASSUME TypeOK, ThreadsOK, InitsOK, NEW p \in Proc, ProcStep(p), ~InLib(p),
           libinit_mutex # NoProc
    PROVE  UNCHANGED <<intr, hstart, script, cmd_bd>>
<1> USE DEF ThreadsOK, ThreadOK, InLib, TypeOK, IrqType
<1>1. SdmaInit(p) \/ Crash(p)
  <2>1. ~IrqTake(p) /\ ~IrqReturn(p)
    BY DEF IrqTake, IrqReturn, InitsOK, InitOK
  <2>2. pc[p] \in {"idle", "libinit"} /\ (pc[p] = "idle" => n_users[p] = 0)
    OBVIOUS
  <2>3. /\ ~SdmaFini(p) /\ ~Attach(p) /\ ~Release(p) /\ ~Xfer(p)
        /\ ~InitLib(p) /\ ~CmdLock(p) /\ ~RegLock(p)
    BY <2>2 DEF SdmaFini, Attach, Release, Xfer, Call, InitLib, LibInit,
                LibInitFails, CmdLock, RegLock, Step
  <2>4. ~Run(p)
    BY <2>2 DEF Run, CmdStep, CmdPost, CmdPulse, CmdTimeout, CmdOk, CmdFail,
       AttachStep, AttachEvents, Read, WriteEvtovr, AttachMask, AttachEvent,
       ReleaseStep, ReleaseEvents, ReleaseMask, ReleaseEvent, ReleaseDetach,
       HostRead, HostWrite, Step
  <2> QED BY <2>1, <2>3, <2>4 DEF ProcStep, Calls
<1> QED BY <1>1 DEF SdmaInit, Crash, cmd, regs, ram

\* InitOK is kept for the process that makes the step ...
LEMMA InitSelf ==
    ASSUME TypeOK, ThreadsOK, InitsOK, NEW p \in Proc, ProcStep(p)
    PROVE  InitOK(p)'
<1> USE SdmaAssumption DEF TypeOK, ThreadType, IrqType, ThreadsOK, ThreadOK,
        InitsOK, InitOK, NoIrq, SDMA_CMD_CH, cmd, regs, ram, irq, thr, Go, Step,
        Return, Call
<1>1. CASE SdmaInit(p)
  BY <1>1 DEF SdmaInit
<1>2. CASE SdmaFini(p)
  BY <1>2 DEF SdmaFini, Detach
<1>3. CASE Attach(p) \/ Release(p) \/ Xfer(p)
  BY <1>3 DEF Attach, Release, Xfer
<1>4. CASE InitLib(p)
  BY <1>4 DEF InitLib, LibInit, LibInitFails, RegisterInit, Detach
<1>5. CASE CmdLock(p) \/ RegLock(p) \/ CmdPost(p) \/ CmdPulse(p) \/ CmdTimeout(p)
  BY <1>5 DEF CmdLock, RegLock, CmdPost, CmdPulse, CmdTimeout, HostPcs
<1>6. CASE CmdOk(p) \/ CmdFail(p)
  BY <1>6 DEF CmdOk, CmdFail, CmdRemove, GiveUpInit, Detach
<1>7. CASE AttachStep(p)
  BY <1>7 DEF AttachStep, AttachEvents, Read, WriteEvtovr, AttachMask,
              AttachEvent, AttachPcs
<1>8. CASE ReleaseStep(p)
  BY <1>8 DEF ReleaseStep, ReleaseEvents, Read, WriteEvtovr, ReleaseMask,
              ReleaseEvent, ReleaseDetach, RelPcs
<1>9. CASE HostRead(p) \/ HostWrite(p)
  BY <1>9 DEF HostRead, Read, HostWrite, HostPcs, ChanJobs, Jobs
<1>10. CASE IrqTake(p)
  BY <1>10 DEF IrqTake, IrqClear
<1>11. CASE IrqReturn(p)
  BY <1>11 DEF IrqReturn
<1>12. CASE Crash(p)
  BY <1>12 DEF Crash
<1> QED BY <1>1, <1>2, <1>3, <1>4, <1>5, <1>6, <1>7, <1>8, <1>9, <1>10, <1>11, <1>12
        DEF ProcStep, Calls, Run, CmdStep

\* ... and for the others, to which it does not get.
LEMMA InitStep ==
    ASSUME TypeOK, ThreadsOK, CountOK, InitsOK, [Next]_vars
    PROVE  InitsOK'
<1> SUFFICES ASSUME NEW q \in Proc PROVE InitOK(q)'
  BY DEF InitsOK
<1>1. InitOK(q) /\ ThreadOK(q)
  BY DEF InitsOK, ThreadsOK
<1>2. ASSUME NEW p \in Proc, ProcStep(p) PROVE InitOK(q)'
  <2>1. CASE p = q
    BY <1>2, <2>1, InitSelf
  <2>2. CASE p # q
    <3>1. /\ pc'[q] = pc[q] /\ job'[q] = job[q] /\ n_users'[q] = n_users[q]
          /\ irq_on'[q] = irq_on[q] /\ pulses'[q] = pulses[q] /\ isr'[q] = isr[q]
          /\ channel_mask'[q] = channel_mask[q]
      BY <1>2, <2>2, LocalStep
    <3>2. CASE job[q] = "init" /\ pc[q] # "libinit"
      <4>1. InLib(q) /\ libinit_mutex = q /\ q # NoProc
        BY SdmaAssumption, <1>1, <3>2 DEF InLib, ThreadOK, CountOK
      <4>2. ~InLib(p)
        BY <2>2, <4>1 DEF CountOK
      <4>3. UNCHANGED <<intr, hstart, script, cmd_bd>>
        BY <1>2, <4>1, <4>2, OutsideStep
      <4> QED BY <1>1, <3>1, <4>3 DEF InitOK
    <3>3. CASE ~(job[q] = "init" /\ pc[q] # "libinit")
      BY <1>1, <3>1, <3>3 DEF InitOK
    <3> QED BY <3>2, <3>3
  <2> QED BY <2>1, <2>2
<1>3. CASE EngineCommand
  BY <1>1, <1>3 DEF EngineCommand, InitOK, irq, thr, SDMA_CMD_CH
<1>4. CASE EngineXfer
  BY SdmaAssumption, <1>1, <1>4 DEF EngineXfer, InitOK, irq, thr, ram
<1>5. CASE UNCHANGED vars
  BY <1>1, <1>5 DEF vars, InitOK
<1> QED BY <1>2, <1>3, <1>4, <1>5 DEF Next, ProcStep

\* Once somebody has come through sdma_init, the script is there.
LEMMA ScriptStep ==
    ASSUME TypeOK, ThreadsOK, CountOK, InitsOK, ScriptOK, [Next]_vars
    PROVE  ScriptOK'
<1>1. ASSUME NEW p \in Proc, ProcStep(p) PROVE ScriptOK'
  <2>1. process_cnt \in Nat
    <3>1. IsFiniteSet(Inside)
      BY SdmaAssumption, FS_Subset DEF Inside
    <3>2. Cardinality(Inside) \in Nat
      BY <3>1, FS_CardinalityType
    <3> QED BY <3>2 DEF CountOK, TypeOK, HistType
  <2>2. p # NoProc /\ InitOK(p)
    BY SdmaAssumption DEF InitsOK
  <2>3. CASE Stays(p)
    <3>1. UNCHANGED <<process_cnt, libinit_mutex>>
      BY <2>3 DEF Stays
    <3>2. UNCHANGED script \/ process_cnt + 1 = 1
      BY <2>3 DEF Stays, sdmasync_is_first_process
    <3>3. CASE UNCHANGED script
      BY <3>1, <3>3 DEF ScriptOK
    <3>4. CASE process_cnt + 1 = 1
      BY <2>1, <3>1, <3>4 DEF ScriptOK
    <3> QED BY <3>2, <3>3, <3>4
  <2>4. CASE Enters(p)
    BY <2>1, <2>2, <2>4 DEF Enters, ScriptOK, sdmasync_is_first_process
  <2>5. CASE Leaves(p)
    BY <2>1, <2>2, <2>5 DEF Leaves, ScriptOK, CountOK
  <2>6. CASE Dies(p)
    BY <2>6 DEF Dies, ScriptOK
  <2>7. CASE Finishes(p)
    BY <2>2, <2>7 DEF Finishes, ScriptOK, InitOK
  <2> QED BY <1>1, <2>3, <2>4, <2>5, <2>6, <2>7, CountSelf
<1>2. CASE EngineCommand \/ EngineXfer \/ UNCHANGED vars
  BY <1>2 DEF EngineCommand, EngineXfer, vars, shmem, ram, ScriptOK
<1> QED BY <1>1, <1>2 DEF Next, ProcStep

-----------------------------------------------------------------------------
\* The mask and the events follow the channels held.
LEMMA MaskSelf ==
    ASSUME TypeOK, ThreadsOK, MasksOK, InitsOK, NEW p \in Proc, ProcStep(p)
    PROVE  MaskOK(p)'
<1> USE SdmaAssumption DEF TypeOK, ThreadType, IrqType, ChanType, ThreadsOK,
        ThreadOK, MasksOK, MaskOK, SDMA_CMD_CH, irq, chans, thr, Go, Step,
        Return, Call, CmdPcs
<1>1. CASE SdmaInit(p)
  BY <1>1 DEF SdmaInit
<1>2. CASE SdmaFini(p)
  BY <1>2 DEF SdmaFini
<1>3. CASE Attach(p) \/ Release(p) \/ Xfer(p)
  BY <1>3 DEF Attach, Release, Xfer
<1>4. CASE InitLib(p)
  BY <1>4 DEF InitLib, LibInit, LibInitFails
<1>5. CASE CmdLock(p) \/ RegLock(p) \/ CmdPost(p) \/ CmdPulse(p) \/ CmdTimeout(p)
  BY <1>5 DEF CmdLock, RegLock, CmdPost, CmdPulse, CmdTimeout
<1>6. CASE CmdOk(p) \/ CmdFail(p)
  BY <1>6 DEF CmdOk, CmdFail, CmdRemove, GiveUpInit
<1>7. CASE AttachEvents(p) \/ ReleaseEvents(p)
  <2>1. UNCHANGED <<cur, held, channel_mask, event_array>>
    BY <1>7 DEF AttachEvents, ReleaseEvents, Read, WriteEvtovr
  <2>2. pc[p] \notin CmdPcs \cup {"eventadd", "relevent"}
        /\ pc'[p] \notin CmdPcs \cup {"eventadd", "relevent"}
    BY <1>7 DEF AttachEvents, ReleaseEvents, Read, WriteEvtovr
  <2> QED BY <2>1, <2>2
<1>8. CASE AttachMask(p) \/ AttachEvent(p)
  <2>1. cur[p] \in Chan
    BY <1>8 DEF AttachMask, AttachEvent, AttachPcs, ChanJobs, Jobs
  <2> QED BY <1>8, <2>1 DEF AttachMask, AttachEvent
<1>11. CASE ReleaseMask(p) \/ ReleaseEvent(p) \/ ReleaseDetach(p)
  <2>1. cur[p] \in Chan
    BY <1>11 DEF ReleaseMask, ReleaseEvent, ReleaseDetach, RelPcs, ChanJobs, Jobs
  <2>2. job[p] = "release"
    BY <1>11 DEF ReleaseMask, ReleaseEvent, ReleaseDetach, RelPcs
  <2>3. CASE ReleaseMask(p)
    BY <2>1, <2>2, <2>3 DEF ReleaseMask
  <2>4. CASE ReleaseEvent(p)
    BY <2>1, <2>2, <2>4 DEF ReleaseEvent
  <2>5. CASE ReleaseDetach(p)
    BY <2>1, <2>2, <2>5 DEF ReleaseDetach
  <2> QED BY <1>11, <2>3, <2>4, <2>5
<1>9. CASE HostRead(p) \/ HostWrite(p)
  BY <1>9 DEF HostRead, Read, HostWrite, HostPcs, ChanJobs, Jobs
<1>10. CASE IrqTake(p) \/ IrqReturn(p)
  BY <1>10 DEF IrqTake, IrqReturn
<1>12. CASE Crash(p)
  BY <1>12 DEF Crash
<1> QED BY <1>1, <1>2, <1>3, <1>4, <1>5, <1>6, <1>7, <1>8, <1>9, <1>10, <1>11, <1>12
        DEF ProcStep, Calls, Run, CmdStep, AttachStep, ReleaseStep

LEMMA MaskStep ==
    ASSUME TypeOK, ThreadsOK, MasksOK, InitsOK, [Next]_vars
    PROVE  MasksOK'
<1> SUFFICES ASSUME NEW q \in Proc PROVE MaskOK(q)'
  BY DEF MasksOK
<1>1. MaskOK(q)
  BY DEF MasksOK
<1>2. ASSUME NEW p \in Proc, ProcStep(p) PROVE MaskOK(q)'
  <2>1. CASE p = q
    BY <1>2, <2>1, MaskSelf
  <2>2. CASE p # q
    <3>1. /\ pc'[q] = pc[q] /\ cur'[q] = cur[q] /\ held'[q] = held[q]
          /\ channel_mask'[q] = channel_mask[q] /\ event_array'[q] = event_array[q]
      BY <1>2, <2>2, LocalStep
    <3> QED BY <1>1, <3>1 DEF MaskOK
  <2> QED BY <2>1, <2>2
<1>3. CASE EngineCommand \/ EngineXfer \/ UNCHANGED vars
  BY <1>1, <1>3 DEF EngineCommand, EngineXfer, vars, irq, chans, thr, MaskOK
<1> QED BY <1>2, <1>3 DEF Next, ProcStep

-----------------------------------------------------------------------------
\* What has happened stays happened.
LEMMA CrashesGrow ==
    ASSUME TypeOK, NEW p \in Proc, ProcStep(p)
    PROVE  /\ timeouts' = 0 => timeouts = 0
           /\ crashes' = 0 => crashes = 0 /\ ~Crash(p)
           /\ dead' = 0 => dead = 0
           /\ dead' # dead => Crash(p)
<1> USE DEF TypeOK, HistType, hist
<1>1. CASE Calls(p)
  BY <1>1 DEF Calls, SdmaInit, SdmaFini, Attach, Release, Xfer, Crash
<1>2. CASE InitLib(p) \/ CmdLock(p) \/ RegLock(p)
  BY <1>2 DEF InitLib, LibInit, LibInitFails, CmdLock, RegLock, Crash
<1>3. CASE CmdStep(p)
  BY <1>3 DEF CmdStep, CmdPost, CmdPulse, CmdTimeout, CmdOk, CmdFail, Crash
<1>4. CASE AttachStep(p)
  BY <1>4 DEF AttachStep, AttachEvents, Read, WriteEvtovr, AttachMask, AttachEvent,
     Crash
<1>5. CASE ReleaseStep(p)
  BY <1>5 DEF ReleaseStep, ReleaseEvents, Read, WriteEvtovr, ReleaseMask,
              ReleaseEvent, ReleaseDetach, Crash
<1>6. CASE HostRead(p) \/ HostWrite(p)
  BY <1>6 DEF HostRead, Read, HostWrite, Crash
<1>7. CASE IrqTake(p) \/ IrqReturn(p) \/ Crash(p)
  BY <1>7 DEF IrqTake, IrqReturn, Crash
<1> QED BY <1>1, <1>2, <1>3, <1>4, <1>5, <1>6, <1>7 DEF ProcStep, Run

-----------------------------------------------------------------------------
\* As long as no process has died, the command mutex is held by a process that
\* is at a command.
LEMMA HolderStep ==
    ASSUME TypeOK, LocksOK, HolderOK, [Next]_vars
    PROVE  HolderOK'
<1>1. ASSUME NEW p \in Proc, ProcStep(p), crashes' = 0, NEW q \in Proc,
             command_mutex' = q
      PROVE  pc'[q] \in CmdPcs
  <2>1. crashes = 0 /\ ~Crash(p)
    BY <1>1, CrashesGrow
  <2>2. q # NoProc
    BY SdmaAssumption
  <2>3. CASE q = p
    BY <1>1, <2>1, <2>2, <2>3, CmdMutexKept DEF HolderOK
  <2>4. CASE q # p
    <3>1. pc'[q] = pc[q]
      BY <1>1, <2>4, LocalStep
    <3> QED BY <1>1, <2>1, <2>2, <2>4, <3>1, CmdMutexKept DEF HolderOK
  <2> QED BY <2>3, <2>4
<1>2. CASE EngineCommand \/ EngineXfer \/ UNCHANGED vars
  BY <1>2 DEF EngineCommand, EngineXfer, vars, shmem, thr, hist, HolderOK
<1> QED BY <1>1, <1>2 DEF Next, ProcStep, HolderOK

-----------------------------------------------------------------------------
\* Only CmdPost starts the command channel, and only the engine ends it.
LEMMA CommandKept ==
    ASSUME TypeOK, NEW p \in Proc, ProcStep(p)
    PROVE  \/ CmdPost(p)
           \/ /\ 0 \in intr' => 0 \in intr
              /\ 0 \in hstart' => 0 \in hstart
              /\ UNCHANGED cmd_bd
<1> USE SdmaAssumption DEF cmd, regs, Step
<1>1. CASE SdmaInit(p) \/ SdmaFini(p) \/ Attach(p) \/ Release(p)
  BY <1>1 DEF SdmaInit, SdmaFini, Attach, Release
<1>2. CASE Xfer(p)
  <2>1. PICK c \in held[p] : hstart' = hstart \/ hstart' = hstart \cup {c}
    BY <1>2 DEF Xfer
  <2>2. c # 0
    BY DEF TypeOK, ChanType
  <2> QED BY <1>2, <2>1, <2>2 DEF Xfer
<1>3. CASE InitLib(p)
  BY <1>3 DEF InitLib, LibInit, LibInitFails, RegisterInit
<1>4. CASE CmdLock(p) \/ RegLock(p) \/ CmdStep(p)
  BY <1>4 DEF CmdLock, RegLock, CmdStep, CmdPulse, CmdTimeout, CmdOk, CmdFail
<1>5. CASE AttachStep(p)
  BY <1>5 DEF AttachStep, AttachEvents, Read, WriteEvtovr, AttachMask, AttachEvent
<1>6. CASE ReleaseStep(p)
  BY <1>6 DEF ReleaseStep, ReleaseEvents, Read, WriteEvtovr, ReleaseMask,
              ReleaseEvent, ReleaseDetach
<1>7. CASE HostRead(p) \/ HostWrite(p)
  BY <1>7 DEF HostRead, Read, HostWrite
<1>8. CASE IrqTake(p) \/ IrqReturn(p) \/ Crash(p)
  BY <1>8 DEF IrqTake, IrqClear, IrqReturn, Crash
<1> QED BY <1>1, <1>2, <1>3, <1>4, <1>5, <1>6, <1>7, <1>8 DEF ProcStep, Calls, Run

\* The context of another process's channel is lost only to a reset.
LEMMA ContextKept ==
    ASSUME TypeOK, ThreadsOK, CountOK, NEW p \in Proc, ProcStep(p),
           NEW q \in Proc, q # p, NEW c \in Chan, lease[c] = q
    PROVE  ctx'[c] = ctx[c] \/ ~InLib(q)
<1> USE DEF ram, Step, TypeOK, ChanType, ThreadsOK, ThreadOK, ChanJobs, Jobs
<1>1. CASE Calls(p)
  BY <1>1 DEF Calls, SdmaInit, SdmaFini, Attach, Release, Xfer
<1>2. CASE InitLib(p)
  <2>1. UNCHANGED ctx \/ sdmasync_is_first_process(process_cnt + 1)
    BY <1>2 DEF InitLib, LibInit, LibInitFails, RegisterInit
  <2> QED BY <2>1, FirstAlone
<1>3. CASE CmdLock(p) \/ RegLock(p) \/ CmdStep(p)
  BY <1>3 DEF CmdLock, RegLock, CmdStep, CmdPost, CmdPulse, CmdTimeout, CmdOk, CmdFail
<1>4. CASE AttachStep(p)
  BY <1>4 DEF AttachStep, AttachEvents, Read, WriteEvtovr, AttachMask, AttachEvent
<1>5. CASE ReleaseStep(p)
  BY <1>5 DEF ReleaseStep, ReleaseEvents, Read, WriteEvtovr, ReleaseMask,
              ReleaseEvent, ReleaseDetach, RelPcs
<1>6. CASE HostRead(p) \/ HostWrite(p)
  BY <1>6 DEF HostRead, Read, HostWrite
<1>7. CASE IrqTake(p) \/ IrqReturn(p) \/ Crash(p)
  BY <1>7 DEF IrqTake, IrqReturn, Crash
<1> QED BY <1>1, <1>2, <1>3, <1>4, <1>5, <1>6, <1>7 DEF ProcStep, Run

\* TokenOK is kept for the process that makes the step ...
LEMMA TokenSelf ==
    ASSUME TypeOK, ThreadsOK, LocksOK, InitsOK, MasksOK, CommandOK,
           NEW p \in Proc, ProcStep(p), timeouts = 0, timeouts' = 0
    PROVE  TokenOK(p)'
<1>0. TokenOK(p) /\ ThreadOK(p) /\ InitOK(p) /\ MaskOK(p)
  BY DEF CommandOK, ThreadsOK, InitsOK, MasksOK
<1> USE SdmaAssumption DEF TypeOK, ThreadType, IrqType, ChanType, ThreadOK, TokenOK,
        Loaded, CmdPcs, AttachPcs, ChanJobs, Jobs, NoIrq, SDMA_CMD_CH, cmd, regs,
        ram, irq, chans, thr, hist, Go, Step, Return, Call
<1>1. CASE SdmaInit(p) \/ SdmaFini(p)
  <2>1. /\ pc[p] = "idle" /\ pc'[p] \in {"idle", "libinit"}
        /\ UNCHANGED <<intr, hstart, held, isr, pulses, ctx, cmd_bd>>
    BY <1>1 DEF SdmaInit, SdmaFini
  <2> QED BY <1>0, <2>1
<1>2. CASE Attach(p)
  BY <1>0, <1>2 DEF Attach
<1>3. CASE Release(p)
  BY <1>0, <1>3 DEF Release
<1>4. CASE Xfer(p)
  <2>1. PICK c \in held[p] : hstart' = hstart \/ hstart' = hstart \cup {c}
    BY <1>4 DEF Xfer
  <2>2. c # 0
    OBVIOUS
  <2>3. /\ pc[p] = "idle" /\ pc'[p] \in {"idle", "reglock"}
        /\ UNCHANGED <<intr, held, isr, pulses, ctx, cmd_bd>>
    BY <1>4 DEF Xfer
  <2> QED BY <1>0, <2>1, <2>2, <2>3
<1>5. CASE InitLib(p)
  BY <1>0, <1>5 DEF InitLib, LibInit, LibInitFails, RegisterInit, InitOK
<1>6. CASE CmdLock(p)
  <2>1. 0 \notin intr \cup hstart
    BY <1>6 DEF CmdLock, CommandOK
  <2> QED BY <1>0, <1>6, <2>1 DEF CmdLock
<1>7. CASE RegLock(p)
  BY <1>0, <1>7 DEF RegLock
<1>8. CASE CmdPost(p)
  BY <1>0, <1>8 DEF CmdPost
<1>9. CASE CmdPulse(p)
  BY <1>0, <1>9 DEF CmdPulse
<1>10. CASE CmdTimeout(p) \/ CmdFail(p)
  BY <1>0, <1>10 DEF CmdTimeout, CmdFail
<1>11. CASE CmdOk(p)
  BY <1>0, <1>11 DEF CmdOk
<1>12. CASE AttachEvents(p) \/ AttachMask(p)
  <2>1. /\ pc[p] \in AttachPcs /\ pc'[p] \in AttachPcs
        /\ UNCHANGED <<job, cur, intr, hstart, held, isr, pulses, ctx, cmd_bd>>
    BY <1>12 DEF AttachEvents, Read, WriteEvtovr, AttachMask
  <2> QED BY <1>0, <2>1
<1>13. CASE AttachEvent(p)
  BY <1>0, <1>13 DEF AttachEvent
<1>14. CASE ReleaseEvents(p) \/ ReleaseMask(p) \/ HostRead(p)
  <2>1. /\ pc[p] \notin CmdPcs /\ pc'[p] \notin CmdPcs \cup AttachPcs
        /\ UNCHANGED <<job, cur, intr, hstart, held, isr, pulses, ctx, cmd_bd>>
    BY <1>14 DEF ReleaseEvents, Read, WriteEvtovr, ReleaseMask, HostRead
  <2> QED BY <1>0, <2>1
<1>15. CASE ReleaseEvent(p)
  BY <1>0, <1>15 DEF ReleaseEvent
<1>16. CASE ReleaseDetach(p)
  BY <1>0, <1>16 DEF ReleaseDetach
<1>17. CASE HostWrite(p)
  BY <1>0, <1>17 DEF HostWrite
<1>18. CASE IrqTake(p)
  <2>1. PICK c \in intr \cap channel_mask[p] :
          intr' = intr \ {c} /\ isr' = [isr EXCEPT ![p] = c]
    BY <1>18 DEF IrqTake, IrqClear
  <2>2. UNCHANGED <<pc, job, cur, hstart, held, pulses, ctx, cmd_bd>>
    BY <1>18 DEF IrqTake
  <2>3. CASE c = 0
    <3>1. pc[p] = "cmdwait" /\ pulses[p] = 0
      BY <1>0, <2>1, <2>3 DEF MaskOK
    <3> QED BY <1>0, <2>1, <2>2, <2>3, <3>1
  <2>4. CASE c # 0
    BY <1>0, <2>1, <2>2, <2>4
  <2> QED BY <2>3, <2>4
<1>19. CASE IrqReturn(p)
  <2>1. UNCHANGED <<pc, job, cur, intr, hstart, held, ctx, cmd_bd>> /\ isr'[p] = NoIrq
    BY <1>19 DEF IrqReturn
  <2>2. pulses'[p] = pulses[p] \/ (isr[p] = 0 /\ pulses'[p] = pulses[p] + 1)
    BY <1>19 DEF IrqReturn
  <2> QED BY <1>0, <2>1, <2>2
<1>20. CASE Crash(p)
  BY <1>20 DEF Crash
<1> QED BY <1>1, <1>2, <1>3, <1>4, <1>5, <1>6, <1>7, <1>8, <1>9, <1>10, <1>11, <1>12,
           <1>13, <1>14, <1>15, <1>16, <1>17, <1>18, <1>19, <1>20
        DEF ProcStep, Calls, Run, CmdStep, AttachStep, ReleaseStep

\* ... and for the others: the command channel is not theirs, and the context
\* it loads is not that of a channel of theirs.
LEMMA TokenOther ==
    ASSUME TypeOK, ThreadsOK, LocksOK, CountOK, CommandOK,
           NEW p \in Proc, ProcStep(p), timeouts = 0, NEW q \in Proc, q # p
    PROVE  TokenOK(q)'
<1>1. /\ pc'[q] = pc[q] /\ job'[q] = job[q] /\ cur'[q] = cur[q]
      /\ held'[q] = held[q] /\ pulses'[q] = pulses[q] /\ isr'[q] = isr[q]
  BY LocalStep
<1>2. TokenOK(q) /\ ThreadOK(q) /\ ThreadOK(p) /\ LockOK(p) /\ LockOK(q)
  BY DEF CommandOK, ThreadsOK, LocksOK
<1>3. held[q] \subseteq Chan /\ pulses[q] \in Nat /\ n_users[q] \in Nat
  BY DEF TypeOK, ChanType, IrqType
<1>4. \A c \in held[q] : lease[c] = q /\ InLib(q) /\ ctx'[c] = ctx[c]
  BY <1>2, <1>3, ContextKept DEF ThreadOK, InLib
<1>5. pc[q] \in CmdPcs \cup AttachPcs /\ job[q] # "init" =>
        lease[cur[q]] = q /\ cur[q] \in Chan /\ ctx'[cur[q]] = ctx[cur[q]]
  <2>1. ASSUME pc[q] \in CmdPcs \cup AttachPcs, job[q] # "init"
        PROVE  lease[cur[q]] = q /\ cur[q] \in Chan /\ InLib(q)
    BY <1>2, <1>3, <2>1 DEF ThreadOK, ChanJobs, Jobs, CmdPcs, AttachPcs, InLib
  <2> QED BY <2>1, ContextKept
<1>6. CASE CmdPost(p)
  <2>1. pc[q] \notin CmdPcs
    BY <1>2, <1>6 DEF LockOK, CmdPost, Step, CmdPcs
  <2>2. /\ cmd_bd' = [op |-> IF job[p] = "init" THEN "script" ELSE "ctx",
                      ch |-> cur[p], image |-> p]
        /\ job[p] # "init" => lease[cur[p]] = p
    BY <1>2, <1>6 DEF CmdPost, Step, ThreadOK, CmdPcs, ChanJobs, Jobs
  <2>3. cmd_bd'.op = "ctx" =>
          /\ cmd_bd'.ch \notin held[q]
          /\ ~(pc[q] \in AttachPcs /\ cur[q] = cmd_bd'.ch)
    BY <1>2, <1>4, <1>5, <2>2 DEF ThreadOK
  <2>4. pc[q] \in AttachPcs => job[q] # "init"
    BY <1>2 DEF ThreadOK
  <2> QED BY <1>1, <1>2, <1>3, <1>4, <1>5, <2>1, <2>3, <2>4
          DEF TokenOK, Loaded, CmdPcs
<1>7. CASE ~CmdPost(p)
  <2>1. /\ 0 \in intr' => 0 \in intr
        /\ 0 \in hstart' => 0 \in hstart
        /\ UNCHANGED cmd_bd
    BY <1>7, CommandKept
  <2>2. pc[q] \in AttachPcs => job[q] # "init"
    BY <1>2 DEF ThreadOK
  <2> QED BY <1>1, <1>2, <1>3, <1>4, <1>5, <2>1, <2>2
          DEF TokenOK, Loaded, CmdPcs
<1> QED BY <1>6, <1>7

LEMMA CommandStep ==
    ASSUME TypeOK, ThreadsOK, LocksOK, CountOK, InitsOK, MasksOK, CommandOK,
           [Next]_vars
    PROVE  CommandOK'
<1> SUFFICES ASSUME timeouts' = 0 PROVE
        /\ \A q \in Proc : TokenOK(q)'
        /\ 0 \in intr' \cup hstart' => command_mutex' # NoProc
        /\ 0 \in hstart' => cmd_bd'.op # "none"
  BY DEF CommandOK
<1>1. ASSUME NEW p \in Proc, ProcStep(p) PROVE timeouts = 0
  BY <1>1, CrashesGrow
<1>2. ASSUME NEW p \in Proc, ProcStep(p), NEW q \in Proc PROVE TokenOK(q)'
  BY <1>1, <1>2, TokenSelf, TokenOther
<1>3. ASSUME NEW p \in Proc, ProcStep(p)
      PROVE  /\ 0 \in intr' \cup hstart' => command_mutex' # NoProc
             /\ 0 \in hstart' => cmd_bd'.op # "none"
  <2>1. CASE CmdPost(p)
    <3>1. command_mutex' = p
      BY <2>1 DEF CmdPost, Step, shmem, LocksOK, LockOK, CmdPcs
    <3>2. cmd_bd'.op # "none"
      BY <2>1 DEF CmdPost
    <3> QED BY SdmaAssumption, <3>1, <3>2
  <2>2. CASE ~CmdPost(p)
    <3>1. /\ 0 \in intr' => 0 \in intr
          /\ 0 \in hstart' => 0 \in hstart
          /\ UNCHANGED cmd_bd
      BY <1>3, <2>2, CommandKept
    <3>2. pc[p] \in CmdPcs /\ command_mutex' = NoProc =>
            0 \notin intr \cup hstart \/ command_mutex = NoProc
      <4>1. TokenOK(p)
        BY <1>1, <1>3 DEF CommandOK
      <4>2. CASE CmdOk(p)
        BY <4>1, <4>2 DEF CmdOk, TokenOK
      <4>3. CASE CmdFail(p)
        BY <4>1, <4>3 DEF CmdFail, TokenOK
      <4>4. CASE CmdPulse(p) \/ CmdTimeout(p) \/ IrqTake(p) \/ IrqReturn(p) \/ Crash(p)
        BY <4>4 DEF CmdPulse, CmdTimeout, IrqTake, IrqReturn, Crash, shmem
      <4>5. CASE Calls(p) \/ InitLib(p) \/ CmdLock(p) \/ RegLock(p)
        BY <4>5 DEF Calls, SdmaInit, SdmaFini, Attach, Release, Xfer, InitLib,
           LibInit, LibInitFails, CmdLock, RegLock, shmem, locks, Step, CmdPcs
      <4>6. CASE AttachStep(p) \/ ReleaseStep(p)
        BY <4>6 DEF AttachStep, AttachEvents, Read, WriteEvtovr, AttachMask,
           AttachEvent, ReleaseStep, ReleaseEvents, ReleaseMask, ReleaseEvent,
           ReleaseDetach, shmem
      <4>7. CASE HostRead(p) \/ HostWrite(p)
        BY <4>7 DEF HostRead, Read, HostWrite, shmem
      <4> QED BY <1>3, <2>2, <4>2, <4>3, <4>4, <4>5, <4>6, <4>7
              DEF ProcStep, Run, CmdStep
    <3>3. p # NoProc
      BY SdmaAssumption
    <3> QED BY <1>1, <1>3, <3>1, <3>2, <3>3, CmdMutexKept DEF CommandOK
  <2> QED BY <2>1, <2>2
<1>4. CASE EngineCommand
  <2>1. timeouts = 0 /\ 0 \in hstart /\ cmd_bd.op # "none" /\ command_mutex # NoProc
    BY <1>4 DEF EngineCommand, hist, SDMA_CMD_CH, CommandOK
  <2>2. 0 \notin hstart' /\ UNCHANGED <<command_mutex, pc, job, cur, held, pulses, isr>>
    BY <1>4 DEF EngineCommand, SDMA_CMD_CH, shmem, thr, irq, chans
  <2>3. cmd_bd.op \in {"script", "ctx"}
    BY <2>1 DEF TypeOK, SharedType
  <2>4. IF cmd_bd.op = "script" THEN ctx' = ctx
        ELSE ctx' = [ctx EXCEPT ![cmd_bd.ch] = cmd_bd.image]
    BY <1>4 DEF EngineCommand
  <2>5. ASSUME NEW q \in Proc PROVE TokenOK(q)'
    <3>1. TokenOK(q) /\ ThreadOK(q)
      BY <2>1 DEF CommandOK, ThreadsOK
    <3>2. held[q] \subseteq Chan /\ ctx \in [Chan -> Users]
      BY DEF TypeOK, ChanType
    <3>3. isr[q] # 0 /\ ~(pulses[q] > 0)
      BY <2>1, <3>1 DEF TokenOK
    <3>4. pc[q] \notin {"cmdevent", "cmdok", "cmdfail"}
      BY <2>1, <3>1 DEF TokenOK
    <3>5. \A c \in held[q] : ctx'[c] = q
      BY <2>1, <2>3, <2>4, <3>1, <3>2 DEF TokenOK
    <3>6. pc[q] \in AttachPcs => ctx'[cur[q]] = q
      <4>1. pc[q] \in AttachPcs => cur[q] \in Chan
        BY <3>1 DEF ThreadOK, ChanJobs, Jobs
      <4> QED BY <2>1, <2>3, <2>4, <3>1, <3>2, <4>1 DEF TokenOK
    <3>7. pc[q] = "cmdwait" => Loaded(q)'
      <4>1. pc[q] = "cmdwait" /\ job[q] # "init" => cur[q] \in Chan
        BY <3>1 DEF ThreadOK, ChanJobs, Jobs, CmdPcs
      <4> QED BY <2>1, <2>2, <2>3, <2>4, <3>1, <3>2, <4>1 DEF TokenOK, Loaded
    <3> QED BY <2>2, <3>3, <3>4, <3>5, <3>6, <3>7 DEF TokenOK
  <2> QED BY <2>1, <2>2, <2>5
<1>5. CASE EngineXfer
  <2>1. /\ timeouts = 0
        /\ 0 \in intr' => 0 \in intr
        /\ 0 \in hstart' => 0 \in hstart
        /\ UNCHANGED <<command_mutex, pc, job, cur, held, pulses, isr, ctx, cmd_bd>>
    BY SdmaAssumption, <1>5 DEF EngineXfer, shmem, thr, irq, chans, ram
  <2> QED BY <1>5, <2>1 DEF EngineXfer, CommandOK, TokenOK, Loaded
<1>6. CASE UNCHANGED vars
  BY <1>6 DEF vars, CommandOK, TokenOK, Loaded
<1> QED BY <1>2, <1>3, <1>4, <1>5, <1>6 DEF Next, ProcStep

-----------------------------------------------------------------------------
\* A channel in use stays in use until its release begins.
LEMMA UsingKept ==
    ASSUME TypeOK, ThreadsOK, NEW p \in Proc, ProcStep(p), NEW c \in Chan,
           Using(p, c), dead' = dead
    PROVE  /\ eventnum'[c] = eventnum[c]
           /\ \/ Using(p, c)'
              \/ /\ c \notin hstart \cup owed
                 /\ Driven(c) => c \notin hostovr
                 /\ hstart' = hstart /\ owed' = owed /\ hostovr' = hostovr
                 /\ c \notin intr'
<1>0. ThreadOK(p)
  BY DEF ThreadsOK
<1> USE SdmaAssumption DEF TypeOK, ThreadType, ChanType, HistType, ThreadOK,
        Using, regs, chans, thr, hist, Go, Step, Return, Call
<1>1. CASE SdmaInit(p) \/ SdmaFini(p) \/ Attach(p)
  BY <1>0, <1>1 DEF SdmaInit, SdmaFini, Attach
<1>2. CASE Release(p)
  BY <1>0, <1>2 DEF Release, cmd
<1>3. CASE Xfer(p)
  BY <1>0, <1>3 DEF Xfer
<1>4. CASE InitLib(p) \/ CmdLock(p) \/ RegLock(p)
  BY <1>0, <1>4 DEF InitLib, LibInit, LibInitFails, CmdLock, RegLock
<1>5. CASE CmdPost(p) \/ CmdPulse(p) \/ CmdTimeout(p)
  BY <1>0, <1>5 DEF CmdPost, CmdPulse, CmdTimeout
<1>6. CASE CmdOk(p) \/ CmdFail(p)
  BY <1>0, <1>6 DEF CmdOk, CmdFail, GiveUpInit
<1>7. CASE AttachStep(p)
  BY <1>0, <1>7 DEF AttachStep, AttachEvents, Read, WriteEvtovr, AttachMask,
                    AttachEvent
<1>8. CASE ReleaseEvents(p) \/ ReleaseMask(p)
  BY <1>0, <1>8 DEF ReleaseEvents, Read, WriteEvtovr, ReleaseMask
<1>9. CASE ReleaseEvent(p) \/ ReleaseDetach(p)
  BY <1>0, <1>9 DEF ReleaseEvent, ReleaseDetach, RelPcs
<1>10. CASE HostRead(p) \/ HostWrite(p)
  BY <1>0, <1>10 DEF HostRead, Read, HostWrite
<1>11. CASE IrqTake(p) \/ IrqReturn(p)
  BY <1>11 DEF IrqTake, IrqReturn
<1>12. CASE Crash(p)
  <2>1. pc[p] = "libinit"
    BY <1>12 DEF Crash
  <2> QED BY <1>0, <2>1
<1> QED BY <1>1, <1>2, <1>3, <1>4, <1>5, <1>6, <1>7, <1>8, <1>9, <1>10, <1>11, <1>12
        DEF ProcStep, Calls, Run, CmdStep, ReleaseStep

\* A process starts, arms and completes only channels that it uses.
LEMMA FlowAdds ==
    ASSUME TypeOK, ThreadsOK, LocksOK, NEW p \in Proc, ProcStep(p), NEW c \in Chan
    PROVE  /\ c \in intr' => c \in intr
           /\ c \in owed' => c \in owed
           /\ c \in hstart' => c \in hstart \/ Using(p, c)'
           /\ c \in hostovr' => c \in hostovr \/ (Using(p, c)' /\ Driven(c)')
<1>0. ThreadOK(p) /\ LockOK(p)
  BY DEF ThreadsOK, LocksOK
<1> USE SdmaAssumption DEF TypeOK, ThreadType, ChanType, ThreadOK, Using, cmd,
        regs, hist, SDMA_CMD_CH
<1>1. CASE SdmaInit(p) \/ SdmaFini(p) \/ Attach(p) \/ Release(p)
  BY <1>1 DEF SdmaInit, SdmaFini, Attach, Release
<1>2. CASE Xfer(p)
  <2>1. PICK d \in held[p] : hstart' = hstart \/ (hstart' = hstart \cup {d} /\ UNCHANGED thr)
    BY <1>2 DEF Xfer
  <2>2. pc[p] = "idle" /\ UNCHANGED <<intr, owed, hostovr, held>>
    BY <1>2 DEF Xfer, Call, chans
  <2>3. job[p] = "none"
    BY <1>0, <2>2
  <2> QED BY <2>1, <2>2, <2>3 DEF thr
<1>3. CASE InitLib(p) \/ CmdLock(p) \/ RegLock(p)
  BY <1>3 DEF InitLib, LibInit, LibInitFails, RegisterInit, CmdLock, RegLock
<1>4. CASE CmdStep(p)
  BY <1>4 DEF CmdStep, CmdPost, CmdPulse, CmdTimeout, CmdOk, CmdFail
<1>5. CASE AttachStep(p)
  BY <1>5 DEF AttachStep, AttachEvents, Read, WriteEvtovr, AttachMask, AttachEvent
<1>6. CASE ReleaseStep(p)
  BY <1>6 DEF ReleaseStep, ReleaseEvents, Read, WriteEvtovr, ReleaseMask,
              ReleaseEvent, ReleaseDetach
<1>7. CASE HostRead(p)
  BY <1>7 DEF HostRead, Read
<1>8. CASE HostWrite(p)
  <2>1. /\ UNCHANGED <<intr, owed, hstart, held, eventnum>>
        /\ reg[p] = hostovr
        /\ \/ hostovr' = hostovr \ {cur[p]}
           \/ hostovr' = hostovr \cup {cur[p]} /\ job[p] = "start" /\ job'[p] = "none"
    BY <1>0, <1>8 DEF HostWrite, LockOK, RegPcs, chans, Return
  <2> QED BY <1>0, <2>1 DEF Driven
<1>9. CASE IrqTake(p) \/ IrqReturn(p)
  BY <1>9 DEF IrqTake, IrqClear, IrqReturn
<1>10. CASE Crash(p)
  BY <1>10 DEF Crash
<1> QED BY <1>1, <1>2, <1>3, <1>4, <1>5, <1>6, <1>7, <1>8, <1>9, <1>10
        DEF ProcStep, Calls, Run

\* What a process's handler does with a completion of a channel that some
\* process uses: it is cleared only by the handler of that process, which has
\* its event, and is not forgotten before the event is delivered.
LEMMA SignalSelf ==
    ASSUME TypeOK, ThreadsOK, CountOK, InitsOK, MasksOK, FlowOK,
           NEW p \in Proc, ProcStep(p), dead = 0, dead' = 0,
           NEW c \in Chan, c \in owed, c \in owed'
    PROVE  /\ c \in intr => c \in intr' \/ (isr'[p] = c /\ c \in event_array'[p])
           /\ isr[p] = c /\ c \in event_array[p] => isr'[p] = c /\ c \in event_array'[p]
<1>0. ThreadOK(p) /\ InitOK(p) /\ MaskOK(p)
  BY DEF ThreadsOK, InitsOK, MasksOK
<1>1. PICK r \in Proc : Using(r, c) /\ lease[c] = r
  BY DEF FlowOK, Using, ThreadsOK, ThreadOK
<1> USE SdmaAssumption DEF TypeOK, ThreadType, ChanType, IrqType, regs, irq, hist,
        SDMA_CMD_CH, NoIrq, Step
<1>2. CASE SdmaInit(p) \/ SdmaFini(p) \/ Attach(p) \/ Release(p) \/ Xfer(p)
  BY <1>0, <1>2 DEF SdmaInit, SdmaFini, Attach, Release, Xfer, InitOK
<1>3. CASE InitLib(p)
  <2>1. ~sdmasync_is_first_process(process_cnt + 1)
    BY ResetDisarmsNone
  <2> QED BY <1>3, <2>1 DEF InitLib, LibInit, LibInitFails, RegisterInit
<1>4. CASE CmdLock(p) \/ RegLock(p) \/ CmdStep(p)
  BY <1>4 DEF CmdLock, RegLock, CmdStep, CmdPost, CmdPulse, CmdTimeout, CmdOk,
              CmdFail, CmdRemove
<1>5. CASE AttachStep(p)
  BY <1>5 DEF AttachStep, AttachEvents, Read, WriteEvtovr, AttachMask, AttachEvent
<1>6. CASE ReleaseStep(p)
  <2>1. CASE ReleaseEvent(p)
    <3>1. job[p] = "release" /\ lease[cur[p]] = p
      BY <1>0, <2>1 DEF ReleaseEvent, ThreadOK, RelPcs, ChanJobs, Jobs
    <3>2. c # cur[p]
      BY <1>1, <3>1 DEF Using
    <3> QED BY <2>1, <3>2 DEF ReleaseEvent
  <2>2. CASE ReleaseEvents(p) \/ ReleaseMask(p) \/ ReleaseDetach(p)
    BY <2>2 DEF ReleaseEvents, Read, WriteEvtovr, ReleaseMask, ReleaseDetach
  <2> QED BY <1>6, <2>1, <2>2 DEF ReleaseStep
<1>7. CASE HostRead(p) \/ HostWrite(p)
  BY <1>7 DEF HostRead, Read, HostWrite
<1>8. CASE IrqTake(p)
  <2>1. PICK d \in intr \cap channel_mask[p] :
          intr' = intr \ {d} /\ isr' = [isr EXCEPT ![p] = d]
    BY <1>8 DEF IrqTake, IrqClear
  <2>2. isr[p] = NoIrq /\ event_array' = event_array
    BY <1>8 DEF IrqTake
  <2>3. d = c => c \in event_array[p]
    <3>1. d = c => c \in held[p] \/ (pc[p] = "eventadd" /\ cur[p] = c)
      BY <1>0, <2>1 DEF MaskOK
    <3>2. ~(pc[p] = "eventadd" /\ cur[p] = c)
      BY <1>0, <1>1 DEF ThreadOK, AttachPcs, ChanJobs, Jobs, Using
    <3> QED BY <1>0, <3>1, <3>2 DEF MaskOK
  <2> QED BY <2>1, <2>2, <2>3
<1>9. CASE IrqReturn(p)
  BY <1>9 DEF IrqReturn
<1>10. CASE Crash(p)
  <2>1. pc[p] = "libinit"
    BY <1>10 DEF Crash, HistType
  <2> QED BY <1>0, <1>10, <2>1 DEF Crash, InitOK
<1> QED BY <1>2, <1>3, <1>4, <1>5, <1>6, <1>7, <1>8, <1>9, <1>10
        DEF ProcStep, Calls, Run

LEMMA FlowStep ==
    ASSUME TypeOK, ThreadsOK, LocksOK, CountOK, InitsOK, MasksOK, FlowOK, [Next]_vars
    PROVE  FlowOK'
<1> SUFFICES ASSUME dead' = 0 PROVE
        /\ \A c \in Chan : c \in hstart' \cup intr' \cup owed' \cup hostovr' =>
                             \E q \in Proc : Using(q, c)'
        /\ \A c \in hostovr' : Driven(c)'
        /\ \A c \in owed' : c \in intr' \/ \E q \in Proc : isr'[q] = c /\ c \in event_array'[q]
  BY DEF FlowOK
<1>1. ASSUME NEW p \in Proc, ProcStep(p), NEW c \in Chan
      PROVE  /\ c \in hstart' \cup intr' \cup owed' \cup hostovr' =>
                  \E q \in Proc : Using(q, c)'
             /\ c \in hostovr' => Driven(c)'
             /\ c \in owed' => c \in intr' \/ \E q \in Proc : isr'[q] = c /\ c \in event_array'[q]
  <2>1. dead = 0 /\ dead' = dead
    BY <1>1, CrashesGrow
  <2>2. /\ c \in intr' => c \in intr
        /\ c \in owed' => c \in owed
        /\ c \in hstart' => c \in hstart \/ Using(p, c)'
        /\ c \in hostovr' => c \in hostovr \/ (Using(p, c)' /\ Driven(c)')
    BY <1>1, FlowAdds
  <2>3. c \in hostovr => Driven(c)
    BY <2>1 DEF FlowOK
  <2>4. ASSUME NEW q \in Proc, Using(q, c),
               c \in hstart' \cup intr' \cup owed' \cup hostovr'
        PROVE  Using(q, c)' /\ eventnum'[c] = eventnum[c]
    <3>1. CASE q = p
      BY <1>1, <2>1, <2>3, <2>4, <3>1, UsingKept
    <3>2. CASE q # p
      <4>1. held'[q] = held[q] /\ job'[q] = job[q] /\ cur'[q] = cur[q]
        BY <1>1, <3>2, LocalStep
      <4>2. lease[c] = q
        BY <2>4 DEF Using, ThreadsOK, ThreadOK
      <4> QED BY <1>1, <2>4, <3>2, <4>1, <4>2, LeaseKept DEF Using
    <3> QED BY <3>1, <3>2
  <2>5. c \in hstart \cup intr \cup owed \cup hostovr => \E q \in Proc : Using(q, c)
    BY <2>1 DEF FlowOK
  <2>6. c \in hostovr' => Driven(c)'
    BY <2>2, <2>3, <2>4, <2>5 DEF Driven
  <2>7. c \in hstart' \cup intr' \cup owed' \cup hostovr' => \E q \in Proc : Using(q, c)'
    BY <2>2, <2>4, <2>5
  <2>8. ASSUME c \in owed'
        PROVE  c \in intr' \/ \E q \in Proc : isr'[q] = c /\ c \in event_array'[q]
    <3>1. c \in owed
      BY <2>2, <2>8
    <3>2. CASE c \in intr
      BY <1>1, <2>1, <2>8, <3>1, <3>2, SignalSelf
    <3>3. CASE \E q \in Proc : isr[q] = c /\ c \in event_array[q]
      <4>1. PICK q \in Proc : isr[q] = c /\ c \in event_array[q]
        BY <3>3
      <4>2. CASE q = p
        BY <1>1, <2>1, <2>8, <3>1, <4>1, <4>2, SignalSelf
      <4>3. CASE q # p
        <5>1. isr'[q] = isr[q] /\ event_array'[q] = event_array[q]
          BY <1>1, <4>3, LocalStep
        <5> QED BY <4>1, <5>1
      <4> QED BY <4>2, <4>3
    <3> QED BY <2>1, <3>1, <3>2, <3>3 DEF FlowOK
  <2> QED BY <2>6, <2>7, <2>8
<1>2. owed' \subseteq Chan /\ hostovr' \subseteq Chan
  BY TypeStep DEF TypeOK, EngineType, HistType
<1>3. CASE EngineCommand
  <2>1. /\ dead = 0
        /\ UNCHANGED <<owed, hostovr, held, job, cur, eventnum, isr, event_array>>
        /\ hstart' = hstart \ {0} /\ intr' = intr \cup {0}
    BY <1>3 DEF EngineCommand, hist, chans, thr, irq, SDMA_CMD_CH
  <2> QED BY SdmaAssumption, <2>1 DEF FlowOK, Using, Driven
<1>4. CASE EngineXfer
  <2>1. PICK c \in Chan :
          /\ c \in hstart \cup hostovr
          /\ hstart' = hstart \ {c} /\ intr' = intr \cup {c}
          /\ owed' = owed \/ owed' = owed \cup {c}
    BY <1>4 DEF EngineXfer
  <2>2. dead = 0 /\ UNCHANGED <<hostovr, held, job, cur, eventnum, isr, event_array>>
    BY <1>4 DEF EngineXfer, chans, thr, irq
  <2> QED BY <2>1, <2>2 DEF FlowOK, Using, Driven
<1>5. CASE UNCHANGED vars
  BY <1>5 DEF vars, FlowOK, Using, Driven
<1> QED BY <1>1, <1>2, <1>3, <1>4, <1>5 DEF Next, ProcStep

-----------------------------------------------------------------------------
\* The inductive invariant of the library holds in every reachable state.
THEOREM SdmaInvariant == Spec => []SdmaInv
<1>1. Init => SdmaInv
  <2> SUFFICES ASSUME Init PROVE SdmaInv
    OBVIOUS
  <2> USE SdmaAssumption DEF Init, NoIrq, NoEvent, NoCmd
  <2>1. TypeOK
    <3>1. SharedType /\ ThreadType /\ HistType
      BY DEF SharedType, ThreadType, HistType, Users, AllChan, SDMA_CMD_CH, Pcs, Jobs
    <3>2. EngineType
      <4>1. script \in BOOLEAN
        OBVIOUS
      <4> QED BY <4>1 DEF EngineType, AllChan, SDMA_CMD_CH
    <3>3. ChanType
      BY DEF ChanType, Users
    <3>4. irq_on \in [Proc -> BOOLEAN]
      BY Zenon
    <3>5. IrqType
      BY <3>4 DEF IrqType, AllChan
    <3> QED BY <3>1, <3>2, <3>3, <3>5 DEF TypeOK
  <2>2. ThreadsOK /\ LocksOK /\ InitsOK /\ MasksOK
    BY DEF ThreadsOK, ThreadOK, LocksOK, LockOK, InitsOK, InitOK, MasksOK, MaskOK,
           CmdPcs, AttachPcs, HostPcs, RelPcs, RegPcs, ChanJobs, Jobs
  <2>3. CountOK /\ ScriptOK
    <3>1. \A p \in Proc : ~InLib(p)
      BY DEF InLib
    <3>2. Cardinality(Inside) = 0
      BY <3>1, FS_EmptySet DEF Inside
    <3> QED BY <3>1, <3>2 DEF CountOK, ScriptOK
  <2>4. CommandOK /\ HolderOK /\ FlowOK
    BY DEF CommandOK, TokenOK, Loaded, HolderOK, FlowOK, CmdPcs, AttachPcs
  <2> QED BY <2>1, <2>2, <2>3, <2>4 DEF SdmaInv
<1>2. SdmaInv /\ [Next]_vars => SdmaInv'
  BY TypeStep, ThreadStep, LockStep, CountStep, InitStep, ScriptStep, MaskStep,
     CommandStep, HolderStep, FlowStep DEF SdmaInv
<1> QED BY <1>1, <1>2, PTL DEF Spec

\* Every variable of the library, its shared memory and the engine has its
\* type, with any number of processes and channels.
THEOREM SdmaTypeCorrect == Spec => []TypeOK
<1>1. SdmaInv => TypeOK
  BY DEF SdmaInv
<1> QED BY <1>1, SdmaInvariant, PTL

\* Whoever has come through sdma_init finds the RAM script loaded: the count
\* of sync.c is right across failures, departures and deaths, so that only a
\* process that is alone resets the engine.
THEOREM SdmaReadyForUse == Spec => []ReadyForUse
<1>1. SdmaInv => ReadyForUse
  <2> SUFFICES ASSUME SdmaInv, NEW p \in Proc, InLib(p), job[p] # "init" PROVE script
    BY DEF ReadyForUse
  <2>1. process_cnt > 0
    BY InsideCounted DEF SdmaInv
  <2>2. libinit_mutex = NoProc
    BY DEF SdmaInv, CountOK
  <2> QED BY <2>1, <2>2 DEF SdmaInv, ScriptOK
<1> QED BY <1>1, SdmaInvariant, PTL

\* The contexts that processes load through the one command channel do not get
\* mixed up: sdmacmd_ctx_load, under command_mutex.
THEOREM SdmaOwnContext == Spec => []OwnContext
<1>1. SdmaInv => OwnContext
  BY DEF SdmaInv, CommandOK, TokenOK, OwnContext
<1> QED BY <1>1, SdmaInvariant, PTL

\* irq_handler loses no completion of an attached channel, however many
\* processes' handlers look at the same register.
THEOREM SdmaNoLostCompletion == Spec => []NoLostCompletion
<1>1. SdmaInv => NoLostCompletion
  <2> SUFFICES ASSUME SdmaInv, crashes = 0
               PROVE  \A c \in owed : \/ c \in intr
                                      \/ \E p \in Proc : isr[p] = c /\ c \in event_array[p]
    BY DEF NoLostCompletion
  <2>1. dead = 0
    BY DEF SdmaInv, CountOK, TypeOK, HistType
  <2> QED BY <2>1 DEF SdmaInv, FlowOK
<1> QED BY <1>1, SdmaInvariant, PTL

\* A pending interrupt has a process that clears it: the level triggered line
\* of the engine is not left asserted by a channel that nobody has.
THEOREM SdmaPendingIsClaimed == Spec => []PendingIsClaimed
<1>1. SdmaInv => PendingIsClaimed
  <2> SUFFICES ASSUME SdmaInv, timeouts = 0, crashes = 0, NEW c \in intr
               PROVE  \E p \in Proc : c \in channel_mask[p] /\ irq_on[p]
    BY DEF PendingIsClaimed
  <2>1. dead = 0 /\ c \in Chan \cup {0}
    BY DEF SdmaInv, CountOK, TypeOK, HistType, EngineType, AllChan, SDMA_CMD_CH
  <2>2. \A p \in Proc : pc[p] # "idle" \/ held[p] # {} => irq_on[p]
    BY DEF SdmaInv, ThreadsOK, ThreadOK, InitsOK, InitOK, TypeOK, IrqType
  <2>3. CASE c = 0
    <3>1. command_mutex \in Proc
      BY <2>3 DEF SdmaInv, CommandOK, TypeOK, SharedType, Users
    <3>2. pc[command_mutex] \in CmdPcs
      BY <3>1 DEF SdmaInv, HolderOK
    <3>3. 0 \in channel_mask[command_mutex] /\ irq_on[command_mutex]
      BY <2>2, <3>1, <3>2 DEF SdmaInv, MasksOK, MaskOK, CmdPcs
    <3> QED BY <2>3, <3>1, <3>3
  <2>4. CASE c \in Chan
    <3>1. PICK p \in Proc : Using(p, c)
      BY <2>1, <2>4 DEF SdmaInv, FlowOK
    <3>2. c \in held[p] /\ irq_on[p]
      BY <2>2, <3>1 DEF Using
    <3>3. ~(cur[p] = c /\ pc[p] = "relevent")
      BY <3>1 DEF Using, SdmaInv, ThreadsOK, ThreadOK, RelPcs
    <3> QED BY <2>4, <3>2, <3>3 DEF SdmaInv, MasksOK, MaskOK
  <2> QED BY <2>1, <2>3, <2>4
<1> QED BY <1>1, SdmaInvariant, PTL

-----------------------------------------------------------------------------
\* What a step of a process does to the leases and to HOSTOVR is a step of the
\* abstract channels.
LEMMA ChannelsSelf ==
    ASSUME SdmaInv, NEW p \in Proc, ProcStep(p)
    PROVE  \/ UNCHANGED <<lease, hostovr>>
           \/ Channels!Die(p)
           \/ \E c \in Chan : \/ Channels!Acquire(p, c) \/ Channels!Free(p, c)
                              \/ Channels!Arm(p, c) \/ Channels!Disarm(p, c)
<1>0. TypeOK /\ ThreadOK(p) /\ LockOK(p)
  BY DEF SdmaInv, ThreadsOK, LocksOK
<1> USE DEF Channels!Die, Channels!Acquire, Channels!Free, Channels!Arm,
        Channels!Disarm, regs, chans, Step
<1>1. CASE SdmaInit(p) \/ SdmaFini(p) \/ Release(p) \/ Xfer(p)
  BY <1>1 DEF SdmaInit, SdmaFini, Release, Xfer
<1>2. CASE Attach(p)
  BY <1>2 DEF Attach
<1>3. CASE InitLib(p)
  <2>1. sdmasync_is_first_process(process_cnt + 1) => hostovr = {}
    BY ResetDisarmsNone DEF SdmaInv
  <2> QED BY <1>3, <2>1 DEF InitLib, LibInit, LibInitFails, RegisterInit
<1>4. CASE CmdLock(p) \/ RegLock(p) \/ CmdPost(p) \/ CmdPulse(p) \/ CmdTimeout(p)
           \/ CmdOk(p)
  BY <1>4 DEF CmdLock, RegLock, CmdPost, CmdPulse, CmdTimeout, CmdOk
<1>5. CASE CmdFail(p)
  <2>1. job[p] = "attach" => cur[p] \in Chan /\ lease[cur[p]] = p
    BY <1>0 DEF ThreadOK, ChanJobs, Jobs
  <2> QED BY <1>5, <2>1 DEF CmdFail
<1>6. CASE AttachStep(p)
  BY <1>6 DEF AttachStep, AttachEvents, Read, WriteEvtovr, AttachMask, AttachEvent
<1>7. CASE ReleaseEvents(p) \/ ReleaseMask(p) \/ ReleaseEvent(p)
  BY <1>7 DEF ReleaseEvents, Read, WriteEvtovr, ReleaseMask, ReleaseEvent
<1>8. CASE ReleaseDetach(p)
  <2>1. cur[p] \in Chan /\ lease[cur[p]] = p
    BY <1>0, <1>8 DEF ReleaseDetach, ThreadOK, RelPcs, ChanJobs, Jobs
  <2> QED BY <1>8, <2>1 DEF ReleaseDetach
<1>9. CASE HostRead(p)
  BY <1>9 DEF HostRead, Read
<1>10. CASE HostWrite(p)
  <2>1. cur[p] \in Chan /\ lease[cur[p]] = p /\ reg[p] = hostovr
    BY <1>0, <1>10 DEF HostWrite, ThreadOK, LockOK, HostPcs, RegPcs, ChanJobs, Jobs
  <2> QED BY <1>10, <2>1 DEF HostWrite
<1>11. CASE IrqTake(p) \/ IrqReturn(p)
  BY <1>11 DEF IrqTake, IrqReturn
<1>12. CASE Crash(p)
  BY <1>12 DEF Crash
<1> QED BY <1>1, <1>2, <1>3, <1>4, <1>5, <1>6, <1>7, <1>8, <1>9, <1>10, <1>11, <1>12
        DEF ProcStep, Calls, Run, CmdStep, ReleaseStep

\* The library implements DmaChannels: the resource database and the HOSTOVR
\* register, read and written back in two steps by several processes and reset
\* by the first, are channels with one owner each, armed only by their owner.
THEOREM SdmaImplementsChannels == Spec => ChannelsSpec
<1>1. Init => Channels!Init
  BY DEF Init, Channels!Init
<1>2. SdmaInv /\ [Next]_vars => [Channels!Next]_(Channels!cvars)
  <2> SUFFICES ASSUME SdmaInv, [Next]_vars PROVE [Channels!Next]_(Channels!cvars)
    OBVIOUS
  <2>1. ASSUME NEW p \in Proc, ProcStep(p) PROVE [Channels!Next]_(Channels!cvars)
    BY <2>1, ChannelsSelf DEF Channels!Next, Channels!cvars
  <2>2. CASE EngineCommand \/ EngineXfer \/ UNCHANGED vars
    BY <2>2 DEF EngineCommand, EngineXfer, vars, chans, Channels!cvars
  <2> QED BY <2>1, <2>2 DEF Next, ProcStep
<1> QED BY <1>1, <1>2, SdmaInvariant, PTL DEF Spec, ChannelsSpec, Channels!Spec
=============================================================================
