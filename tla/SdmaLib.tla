------------------------------- MODULE SdmaLib -------------------------------
(***************************************************************************)
(* The SDMA library (lib/dma/sdma).  It is linked into every driver that   *)
(* uses the one SDMA engine; the instances share a page of memory with     *)
(* three mutexes and a count of processes, the engine's registers, and the *)
(* command channel 0 by which contexts are loaded into the engine.         *)
(*                                                                         *)
(* One thread of each process calls the library.  pc says where it is; the *)
(* process's interrupt handler runs beside it.  Registers with a bit for   *)
(* each channel are sets of channels.  A register that is read, changed    *)
(* and written back is so in two steps, with reg the value read.           *)
(* Left out: descriptors (sdma_setup_xfer), priorities, option parsing.    *)
(***************************************************************************)
EXTENDS Integers, FiniteSets

CONSTANTS Proc,        \* the processes
          NoProc,
          Chan,        \* SDMA_CH_LO..SDMA_CH_HI
          Event,       \* DMA request numbers
          EventsOf,    \* the eventnum options each process attaches with,
                       \* or NoEvent: a channel started by software
          MaxUsers,    \* bound: users of the library in each process
          MaxExtras    \* bound: commands that time out, processes that die and
                       \* processes that have more than one user

ASSUME SdmaAssumption ==
    /\ NoProc \notin Proc /\ IsFiniteSet(Proc)
    /\ Chan \subseteq Nat \ {0} /\ Event \subseteq Nat /\ 0 \in Event
    /\ EventsOf \in [Proc -> SUBSET (Event \cup {-1})]
    /\ MaxUsers \in Nat /\ MaxExtras \in Nat

SDMA_CMD_CH == 0
AllChan == Chan \cup {SDMA_CMD_CH}

VARIABLES
    \* shared memory (sdma_shmem_t)
    process_cnt, libinit_mutex, command_mutex, register_mutex, cmd_bd,
    \* the engine's registers and its private memory
    evtovr, hostovr, chnenbl, intr, hstart, csm,
    script,      \* the RAM script is loaded
    ctx,         \* whose context image a channel runs with, NoProc when that
                 \* image has been unmapped (chan_destroy)
    lease,       \* channels reserved with the resource database manager
    \* each process
    n_users, channel_mask, event_array, irq_on, pulses,
    isr,         \* the channel its interrupt handler has taken, or NoIrq
    held, eventnum,  \* channels attached (chan_ptr_list), their eventnum option
    \* its calling thread: place, function, channel, value read
    pc, job, cur, reg,
    \* history
    owed,        \* channels that completed and whose event is outstanding
    timeouts, crashes, dead   \* dead: processes that died counted

shmem == <<process_cnt, libinit_mutex, command_mutex, register_mutex>>
locks == <<libinit_mutex, command_mutex, register_mutex>>
cmd   == <<cmd_bd, hstart>>
regs  == <<evtovr, hostovr, chnenbl, intr, csm>>
ram   == <<script, ctx>>
irq   == <<channel_mask, event_array, irq_on, pulses, isr>>
chans == <<lease, held, eventnum>>
thr   == <<pc, job, cur, reg>>
hist  == <<owed, timeouts, crashes, dead>>
vars  == <<process_cnt, libinit_mutex, command_mutex, register_mutex, cmd_bd,
           evtovr, hostovr, chnenbl, intr, hstart, csm, script, ctx, lease,
           n_users, channel_mask, event_array, irq_on, pulses, isr, held,
           eventnum, pc, job, cur, reg, owed, timeouts, crashes, dead>>

NoIrq == -1
NoEvent == -1
NoCmd == [op |-> "none", ch |-> 0, image |-> NoProc]

Init ==
    /\ process_cnt = 0 /\ libinit_mutex = NoProc /\ command_mutex = NoProc
    /\ register_mutex = NoProc /\ cmd_bd = NoCmd
    /\ evtovr = {} /\ hostovr = {} /\ chnenbl = [e \in Event |-> {}]
    /\ intr = {} /\ hstart = {} /\ csm = "dynamic" /\ script = FALSE
    /\ ctx = [c \in Chan |-> NoProc] /\ lease = [c \in Chan |-> NoProc]
    /\ n_users = [p \in Proc |-> 0]
    /\ channel_mask = [p \in Proc |-> {}] /\ event_array = [p \in Proc |-> {}]
    /\ irq_on = [p \in Proc |-> FALSE] /\ pulses = [p \in Proc |-> 0]
    /\ isr = [p \in Proc |-> NoIrq] /\ held = [p \in Proc |-> {}]
    /\ eventnum = [c \in Chan |-> NoEvent]
    /\ pc = [p \in Proc |-> "idle"] /\ job = [p \in Proc |-> "none"]
    /\ cur = [p \in Proc |-> 0] /\ reg = [p \in Proc |-> {}]
    /\ owed = {} /\ timeouts = 0 /\ crashes = 0 /\ dead = 0

Go(p, to) == pc' = [pc EXCEPT ![p] = to]
\* The thread goes from one place to another and nothing else of it changes.
Step(p, from, to) == pc[p] = from /\ Go(p, to) /\ UNCHANGED <<job, cur>>
\* The value read is of no more use.
Forget(p) == reg' = [reg EXCEPT ![p] = {}]
\* The library function returns to its caller.
Return(p) == /\ Go(p, "idle") /\ job' = [job EXCEPT ![p] = "none"]
             /\ cur' = [cur EXCEPT ![p] = 0]
Call(p, to, j, c) == /\ pc[p] = "idle" /\ Go(p, to)
                     /\ job' = [job EXCEPT ![p] = j]
                     /\ cur' = [cur EXCEPT ![p] = c]
\* sdmairq_fini: InterruptDetach returns when the handler is not running.
Detach(p) == isr[p] = NoIrq /\ irq_on' = [irq_on EXCEPT ![p] = FALSE]
Driven(c) == eventnum[c] # NoEvent
\* The CHNENBL register of a channel: without the option eventnum is zero.
EnblOf(c) == IF Driven(c) THEN eventnum[c] ELSE 0
\* What MaxExtras bounds.
Extras == timeouts + crashes + Cardinality({p \in Proc : n_users[p] > 1})

-----------------------------------------------------------------------------
(* sdma_init, sdma_fini.                                                   *)

\* Only the first call in a process initialises; the failures before the
\* shared part undo everything and are not steps.
SdmaInit(p) ==
    /\ n_users[p] < MaxUsers /\ pc[p] = "idle"
    /\ n_users[p] = 1 => Extras < MaxExtras
    /\ n_users' = [n_users EXCEPT ![p] = @ + 1]
    /\ IF n_users[p] = 0
         THEN /\ Call(p, "libinit", "init", 0)
              /\ irq_on' = [irq_on EXCEPT ![p] = TRUE]
              /\ channel_mask' = [channel_mask EXCEPT ![p] = {}]
              /\ event_array' = [event_array EXCEPT ![p] = {}]
         ELSE UNCHANGED <<pc, job, cur, irq_on, channel_mask, event_array>>
    /\ UNCHANGED <<shmem, cmd, regs, ram, chans, pulses, isr, reg, hist>>

sdmasync_is_first_process(n) == n = 1

\* register_init and the first process's part of sdmacmd_cmdch_create: a
\* reset stops the engine and forgets script and contexts.
RegisterInit(n) ==
    IF sdmasync_is_first_process(n)
      THEN /\ intr' = {} /\ evtovr' = AllChan /\ hostovr' = {} /\ hstart' = {}
           /\ chnenbl' = [e \in Event |-> {}]
           /\ csm' = "static" /\ script' = FALSE
           /\ ctx' = [c \in Chan |-> NoProc]
      ELSE UNCHANGED <<regs, hstart, ram>>

\* The shared part of sdma_init, under libinit_mutex.
LibInit(p) ==
    /\ pc[p] = "libinit" /\ libinit_mutex = NoProc
    /\ process_cnt' = process_cnt + 1
    /\ RegisterInit(process_cnt + 1)
    /\ pulses' = [pulses EXCEPT ![p] = 0]
    /\ IF sdmasync_is_first_process(process_cnt + 1)
         THEN /\ libinit_mutex' = p /\ Go(p, "cmdlock")
              /\ UNCHANGED <<job, cur>>
         ELSE UNCHANGED libinit_mutex /\ Return(p)
    /\ UNCHANGED <<command_mutex, register_mutex, cmd_bd, chans, n_users,
                   channel_mask, event_array, irq_on, isr, reg, hist>>

\* Fault: the failed sdma_init stays counted.
GiveUpInitCounted(p) ==
    /\ UNCHANGED process_cnt /\ n_users' = [n_users EXCEPT ![p] = @ - 1]
    /\ Detach(p) /\ Return(p)

\* sdma_init fails in its shared part (fail5): the count is taken back.
GiveUpInit(p) ==
    /\ process_cnt' = process_cnt - 1
    /\ n_users' = [n_users EXCEPT ![p] = @ - 1]
    /\ Detach(p) /\ Return(p)

\* No pulse channel can be made, or no script is known for the SoC.
LibInitFails(p) ==
    /\ pc[p] = "libinit" /\ libinit_mutex = NoProc
    /\ RegisterInit(process_cnt + 1) /\ UNCHANGED process_cnt
    /\ n_users' = [n_users EXCEPT ![p] = @ - 1]
    /\ Detach(p) /\ Return(p)
    /\ UNCHANGED <<locks, cmd_bd, chans, channel_mask, event_array, pulses, isr,
                   reg, hist>>

\* The last user in a process that has released its channels leaves.
SdmaFini(p) ==
    /\ pc[p] = "idle" /\ n_users[p] > 0
    /\ n_users' = [n_users EXCEPT ![p] = @ - 1]
    /\ IF n_users[p] = 1
         THEN /\ held[p] = {} /\ libinit_mutex = NoProc
              /\ process_cnt' = process_cnt - 1
              /\ Detach(p)
         ELSE UNCHANGED <<process_cnt, irq_on>>
    /\ UNCHANGED <<locks, cmd, regs, ram, chans, channel_mask, event_array,
                   pulses, isr, thr, hist>>

-----------------------------------------------------------------------------
(* Commands on channel 0: sdmaram_script_load and sdmacmd_ctx_load.        *)

\* Fault: the command channel is used without its mutex.
CmdLockNever(p) ==
    /\ Step(p, "cmdlock", "cmdevent")
    /\ channel_mask' = [channel_mask EXCEPT ![p] = @ \cup {SDMA_CMD_CH}]
    /\ UNCHANGED <<shmem, cmd, regs, ram, chans, n_users, event_array, irq_on,
                   pulses, isr, reg, hist>>

CmdLock(p) ==
    /\ Step(p, "cmdlock", "cmdevent") /\ command_mutex = NoProc
    /\ command_mutex' = p
    /\ channel_mask' = [channel_mask EXCEPT ![p] = @ \cup {SDMA_CMD_CH}]
    /\ UNCHANGED <<process_cnt, libinit_mutex, register_mutex, cmd, regs, ram,
                   chans, n_users, event_array, irq_on, pulses, isr, reg, hist>>

\* The event is registered, the descriptor filled in and the engine started.
CmdPost(p) ==
    /\ Step(p, "cmdevent", "cmdwait")
    /\ event_array' = [event_array EXCEPT ![p] = @ \cup {SDMA_CMD_CH}]
    /\ cmd_bd' = [op |-> IF job[p] = "init" THEN "script" ELSE "ctx",
                  ch |-> cur[p], image |-> p]
    /\ hstart' = hstart \cup {SDMA_CMD_CH}
    /\ UNCHANGED <<shmem, regs, ram, chans, n_users, channel_mask, irq_on,
                   pulses, isr, reg, hist>>

\* The completion pulse.  It is not known to be of this very command.
CmdPulse(p) ==
    /\ Step(p, "cmdwait", "cmdok") /\ pulses[p] > 0
    /\ pulses' = [pulses EXCEPT ![p] = @ - 1]
    /\ UNCHANGED <<shmem, cmd, regs, ram, chans, n_users, channel_mask,
                   event_array, irq_on, isr, reg, hist>>

CmdTimeout(p) ==
    /\ Step(p, "cmdwait", "cmdfail") /\ pulses[p] = 0
    /\ Extras < MaxExtras /\ timeouts' = timeouts + 1
    /\ UNCHANGED <<shmem, cmd, regs, ram, chans, n_users, irq, reg, owed,
                   crashes, dead>>

\* sdmairq_event_remove, the mutex, and what the caller does with the result.
CmdRemove(p) ==
    /\ command_mutex' = NoProc
    /\ channel_mask' = [channel_mask EXCEPT ![p] = @ \ {SDMA_CMD_CH}]
    /\ event_array' = [event_array EXCEPT ![p] = @ \ {SDMA_CMD_CH}]

\* sdma_init is done, sdma_xfer_abort returns; sdma_channel_attach goes on to
\* switch the engine to dynamic context switching.
CmdOk(p) ==
    /\ pc[p] = "cmdok" /\ CmdRemove(p)
    /\ IF job[p] = "attach"
         THEN /\ Go(p, IF Driven(cur[p]) THEN "evtread" ELSE "maskadd")
              /\ csm' = "dynamic" /\ UNCHANGED <<job, cur>>
         ELSE Return(p) /\ UNCHANGED csm
    /\ libinit_mutex' = IF job[p] = "init" THEN NoProc ELSE libinit_mutex
    /\ UNCHANGED <<process_cnt, register_mutex, cmd, evtovr, hostovr, chnenbl,
                   intr, ram, chans, n_users, irq_on, pulses, isr, reg, hist>>

\* The caller fails: sdma_init undoes its shared part, sdma_channel_attach
\* destroys the channel and gives it back.
CmdFail(p) ==
    /\ pc[p] = "cmdfail" /\ CmdRemove(p)
    /\ IF job[p] = "init"
         THEN GiveUpInit(p) /\ libinit_mutex' = NoProc
         ELSE Return(p) /\ UNCHANGED <<process_cnt, n_users, irq_on, libinit_mutex>>
    /\ IF job[p] = "attach"
         THEN /\ lease' = [lease EXCEPT ![cur[p]] = NoProc]
              /\ eventnum' = [eventnum EXCEPT ![cur[p]] = NoEvent]
              /\ ctx' = [ctx EXCEPT ![cur[p]] = NoProc]
         ELSE UNCHANGED <<lease, eventnum, ctx>>
    /\ UNCHANGED <<register_mutex, cmd, regs, script, held, pulses, isr,
                   reg, hist>>

-----------------------------------------------------------------------------
(* sdma_channel_attach, sdma_channel_release.                              *)

\* The resource manager grants a free channel and its interrupt is cleared;
\* chan_create, options, and on to loading the context.  If there is no memory
\* or an option is wrong (fail2, fail3) the channel is given back at once.
Attach(p) ==
    \E c \in Chan :
      /\ n_users[p] > 0 /\ lease[c] = NoProc
      /\ intr' = intr \ {c} /\ owed' = owed \ {c}
      /\ \/ \E e \in EventsOf[p] :
              /\ lease' = [lease EXCEPT ![c] = p]
              /\ eventnum' = [eventnum EXCEPT ![c] = e]
              /\ Call(p, "cmdlock", "attach", c)
         \/ pc[p] = "idle" /\ UNCHANGED <<lease, eventnum, pc, job, cur>>
      /\ UNCHANGED <<shmem, cmd, evtovr, hostovr, chnenbl, csm, ram, n_users,
                     irq, held, reg, timeouts, crashes, dead>>

\* A register is read ...
Read(p, from, to, value) ==
    /\ Step(p, from, to) /\ reg' = [reg EXCEPT ![p] = value]
    /\ UNCHANGED <<shmem, cmd, regs, ram, chans, n_users, irq, hist>>

\* ... and EVTOVR or a CHNENBL register is written.
WriteEvtovr(p, from, to, value) ==
    /\ Step(p, from, to) /\ evtovr' = value /\ Forget(p)
    /\ UNCHANGED <<shmem, cmd, hostovr, chnenbl, intr, csm, ram, chans, n_users,
                   irq, hist>>

\* Events are allowed to start the channel, without register_mutex.
AttachEvents(p) ==
    LET c == cur[p] e == EnblOf(c) IN
    \/ Read(p, "evtread", "evtwrite", evtovr)
    \/ WriteEvtovr(p, "evtwrite", "enbread", reg[p] \ {c})
    \/ Read(p, "enbread", "enbwrite", chnenbl[e])
    \/ /\ Step(p, "enbwrite", "maskadd")
       /\ chnenbl' = [chnenbl EXCEPT ![e] = reg[p] \cup {c}] /\ Forget(p)
       /\ UNCHANGED <<shmem, cmd, evtovr, hostovr, intr, csm, ram, chans, n_users,
                      irq, hist>>

\* Fault: the channel is not added to the process's mask.
AttachMaskForgotten(p) ==
    /\ Step(p, "maskadd", "eventadd")
    /\ UNCHANGED <<shmem, cmd, regs, ram, chans, n_users, irq, reg, hist>>

\* sdmairq_event_add: first the mask, then the event.
AttachMask(p) ==
    /\ Step(p, "maskadd", "eventadd")
    /\ channel_mask' = [channel_mask EXCEPT ![p] = @ \cup {cur[p]}]
    /\ UNCHANGED <<shmem, cmd, regs, ram, chans, n_users, event_array, irq_on,
                   pulses, isr, reg, hist>>

AttachEvent(p) ==
    /\ pc[p] = "eventadd" /\ Return(p)
    /\ event_array' = [event_array EXCEPT ![p] = @ \cup {cur[p]}]
    /\ held' = [held EXCEPT ![p] = @ \cup {cur[p]}]
    /\ UNCHANGED <<shmem, cmd, regs, ram, lease, eventnum, n_users, channel_mask,
                   irq_on, pulses, isr, reg, hist>>

\* A client releases a channel after its transfers have ended, as README.txt
\* shows it.
Release(p) ==
    \E c \in held[p] :
      /\ c \notin hstart \cup owed
      /\ Driven(c) => c \notin hostovr
      /\ Call(p, "reglock", "release", c)
      /\ intr' = intr \ {c}
      /\ UNCHANGED <<shmem, cmd, evtovr, hostovr, chnenbl, csm, ram, chans,
                     n_users, irq, reg, hist>>

\* Events no longer start the channel: software triggered by default.
ReleaseEvents(p) ==
    LET c == cur[p] e == EnblOf(c) IN
    \/ Read(p, "relevtread", "relevtwrite", evtovr)
    \/ WriteEvtovr(p, "relevtwrite", "hostread", reg[p] \cup {c})
    \/ Read(p, "relenbread", "relenbwrite", chnenbl[e])
    \/ /\ Step(p, "relenbwrite", "relmask")
       /\ chnenbl' = [chnenbl EXCEPT ![e] = reg[p] \ {c}]
       /\ register_mutex' = NoProc /\ Forget(p)
       /\ UNCHANGED <<process_cnt, libinit_mutex, command_mutex, cmd, evtovr,
                      hostovr, intr, csm, ram, chans, n_users, irq, hist>>

\* sdmairq_event_remove: first the mask, then the event; chan_destroy.
ReleaseMask(p) ==
    /\ Step(p, "relmask", "relevent")
    /\ channel_mask' = [channel_mask EXCEPT ![p] = @ \ {cur[p]}]
    /\ UNCHANGED <<shmem, cmd, regs, ram, chans, n_users, event_array, irq_on,
                   pulses, isr, reg, hist>>

ReleaseEvent(p) ==
    /\ Step(p, "relevent", "reldetach")
    /\ event_array' = [event_array EXCEPT ![p] = @ \ {cur[p]}]
    /\ held' = [held EXCEPT ![p] = @ \ {cur[p]}]
    /\ ctx' = [ctx EXCEPT ![cur[p]] = NoProc]
    /\ UNCHANGED <<shmem, cmd, regs, script, lease, eventnum, n_users, channel_mask,
                   irq_on, pulses, isr, reg, hist>>

\* The number of the channel to give back is read from the freed structure:
\* it may still be there, or be overwritten by the allocator, in which case
\* the channel stays reserved.
ReleaseDetach(p) ==
    /\ pc[p] = "reldetach" /\ Return(p)
    /\ \/ lease' = [lease EXCEPT ![cur[p]] = NoProc]
       \/ UNCHANGED lease
    /\ eventnum' = [eventnum EXCEPT ![cur[p]] = NoEvent]
    /\ UNCHANGED <<shmem, cmd, regs, ram, held, n_users, irq, reg, hist>>

-----------------------------------------------------------------------------
(* sdma_xfer_start; sdma_xfer_abort and sdma_xfer_complete stop a channel. *)

\* A channel driven by events is switched on and off in HOSTOVR, under
\* register_mutex; one started by software has only a start.
Xfer(p) ==
    \E c \in held[p], j \in {"start", "stop", "contabort"} :
      IF Driven(c)
        THEN /\ Call(p, "reglock", j, c)
             /\ UNCHANGED <<shmem, cmd, regs, ram, chans, n_users, irq, reg, hist>>
        ELSE /\ j = "start" /\ pc[p] = "idle"
             /\ hstart' = hstart \cup {c}
             /\ UNCHANGED <<shmem, cmd_bd, regs, ram, chans, n_users, irq, thr, hist>>

\* Fault: the register is changed without the mutex.
RegLockNever(p) ==
    /\ Step(p, "reglock", IF job[p] = "release" THEN "relevtread" ELSE "hostread")
    /\ UNCHANGED <<shmem, cmd, regs, ram, chans, n_users, irq, reg, hist>>

RegLock(p) ==
    /\ register_mutex = NoProc /\ register_mutex' = p
    /\ Step(p, "reglock", IF job[p] = "release" THEN "relevtread" ELSE "hostread")
    /\ UNCHANGED <<process_cnt, libinit_mutex, command_mutex, cmd, regs, ram,
                   chans, n_users, irq, reg, hist>>

HostRead(p) == Read(p, "hostread", "hostwrite", hostovr)

\* The abort of a channel that loops continuously reloads its context.
HostWrite(p) ==
    /\ pc[p] = "hostwrite"
    /\ hostovr' = IF job[p] = "start" THEN reg[p] \cup {cur[p]}
                                      ELSE reg[p] \ {cur[p]}
    /\ CASE job[p] = "release"   -> Go(p, "relenbread") /\ UNCHANGED <<job, cur>>
         [] job[p] = "contabort" -> Go(p, "cmdlock") /\ UNCHANGED <<job, cur>>
         [] OTHER                -> Return(p)
    /\ register_mutex' = IF job[p] = "release" THEN p ELSE NoProc
    /\ Forget(p)
    /\ UNCHANGED <<process_cnt, libinit_mutex, command_mutex, cmd, evtovr,
                   chnenbl, intr, csm, ram, chans, n_users, irq, hist>>

-----------------------------------------------------------------------------
(* The interrupt handler of a process, on any processor.  The interrupt is *)
(* level triggered and every process's handler is called.                  *)

\* Fault: all the interrupts read are cleared, only the first is handled.
IrqClearAll(p, c) == intr \ channel_mask[p]

IrqClear(p, c) == intr \ {c}

\* The first active interrupt that belongs to the process is cleared ...
IrqTake(p) ==
    /\ irq_on[p] /\ isr[p] = NoIrq
    /\ \E c \in intr \cap channel_mask[p] :
         /\ \A d \in intr \cap channel_mask[p] : c <= d
         /\ intr' = IrqClear(p, c) /\ isr' = [isr EXCEPT ![p] = c]
    /\ UNCHANGED <<shmem, cmd, evtovr, hostovr, chnenbl, csm, ram, chans, n_users,
                   channel_mask, event_array, irq_on, pulses, thr, hist>>

\* ... and its event, if there is one, is delivered.
IrqReturn(p) ==
    /\ isr[p] # NoIrq /\ isr' = [isr EXCEPT ![p] = NoIrq]
    /\ IF isr[p] \in event_array[p]
         THEN /\ owed' = owed \ {isr[p]}
              /\ pulses' = IF isr[p] = SDMA_CMD_CH
                             THEN [pulses EXCEPT ![p] = @ + 1] ELSE pulses
         ELSE UNCHANGED <<owed, pulses>>
    /\ UNCHANGED <<shmem, cmd, regs, ram, chans, n_users, channel_mask,
                   event_array, irq_on, thr, timeouts, crashes, dead>>

-----------------------------------------------------------------------------
(* The engine and the kernel (external).                                   *)

EngineCommand ==
    /\ SDMA_CMD_CH \in hstart /\ hstart' = hstart \ {SDMA_CMD_CH}
    /\ IF cmd_bd.op = "script" THEN script' = TRUE /\ UNCHANGED ctx
         ELSE ctx' = [ctx EXCEPT ![cmd_bd.ch] = cmd_bd.image] /\ UNCHANGED script
    /\ cmd_bd' = NoCmd /\ intr' = intr \cup {SDMA_CMD_CH}
    /\ UNCHANGED <<shmem, evtovr, hostovr, chnenbl, csm, chans, n_users, irq, thr,
                   hist>>

\* A transfer completes, started by software or by a peripheral's requests.
EngineXfer ==
    \E c \in Chan :
      /\ \/ c \in hstart
         \/ c \in hostovr \ evtovr /\ \E e \in Event : c \in chnenbl[e]
      /\ hstart' = hstart \ {c} /\ intr' = intr \cup {c}
      /\ owed' = IF \E p \in Proc : c \in held[p] THEN owed \cup {c} ELSE owed
      /\ UNCHANGED <<shmem, cmd_bd, evtovr, hostovr, chnenbl, csm, ram, chans,
                     n_users, irq, thr, timeouts, crashes, dead>>

\* A process dies.  The kernel detaches its handler and gives its channels
\* back; mutexes it holds stay locked and the count stays as it is.
Crash(p) ==
    /\ Extras < MaxExtras /\ n_users[p] > 0
    /\ crashes' = crashes + 1
    /\ dead' = IF pc[p] = "libinit" THEN dead ELSE dead + 1
    /\ n_users' = [n_users EXCEPT ![p] = 0]
    /\ irq_on' = [irq_on EXCEPT ![p] = FALSE]
    /\ isr' = [isr EXCEPT ![p] = NoIrq]
    /\ channel_mask' = [channel_mask EXCEPT ![p] = {}]
    /\ event_array' = [event_array EXCEPT ![p] = {}]
    /\ pulses' = [pulses EXCEPT ![p] = 0]
    /\ held' = [held EXCEPT ![p] = {}]
    /\ lease' = [c \in Chan |-> IF lease[c] = p THEN NoProc ELSE lease[c]]
    /\ ctx' = [c \in Chan |-> IF lease[c] = p THEN NoProc ELSE ctx[c]]
    /\ eventnum' = [c \in Chan |-> IF lease[c] = p THEN NoEvent ELSE eventnum[c]]
    /\ owed' = owed \ held[p]
    /\ Return(p) /\ Forget(p)
    /\ UNCHANGED <<shmem, cmd, regs, script, timeouts>>

-----------------------------------------------------------------------------
CmdStep(p) == \/ CmdPost(p) \/ CmdPulse(p) \/ CmdTimeout(p) \/ CmdOk(p)
              \/ CmdFail(p)
AttachStep(p) == AttachEvents(p) \/ AttachMask(p) \/ AttachEvent(p)
ReleaseStep(p) == \/ ReleaseEvents(p) \/ ReleaseMask(p) \/ ReleaseEvent(p)
                  \/ ReleaseDetach(p)
\* The steps of a thread inside the library that wait for no mutex.
Run(p) == \/ CmdStep(p) \/ AttachStep(p) \/ ReleaseStep(p)
          \/ HostRead(p) \/ HostWrite(p)
\* The client's calls.
Calls(p) == \/ SdmaInit(p) \/ SdmaFini(p) \/ Attach(p) \/ Release(p) \/ Xfer(p)
InitLib(p) == LibInit(p) \/ LibInitFails(p)

Next == \/ \E p \in Proc : \/ Calls(p) \/ InitLib(p) \/ CmdLock(p) \/ RegLock(p)
                           \/ Run(p) \/ IrqTake(p) \/ IrqReturn(p) \/ Crash(p)
        \/ EngineCommand \/ EngineXfer

Spec == Init /\ [][Next]_vars

-----------------------------------------------------------------------------
(* Properties.                                                             *)

Users == Proc \cup {NoProc}

SharedType ==
    /\ process_cnt \in Int
    /\ libinit_mutex \in Users /\ command_mutex \in Users
    /\ register_mutex \in Users
    /\ cmd_bd \in [op : {"none", "script", "ctx"}, ch : AllChan, image : Users]
EngineType ==
    /\ evtovr \in SUBSET AllChan /\ hostovr \in SUBSET Chan
    /\ chnenbl \in [Event -> SUBSET AllChan]
    /\ intr \in SUBSET AllChan /\ hstart \in SUBSET AllChan
    /\ csm \in {"static", "dynamic"} /\ script \in BOOLEAN
ChanType ==
    /\ ctx \in [Chan -> Users] /\ lease \in [Chan -> Users]
    /\ held \in [Proc -> SUBSET Chan]
    /\ eventnum \in [Chan -> Event \cup {NoEvent}]
IrqType ==
    /\ n_users \in [Proc -> Nat] /\ irq_on \in [Proc -> BOOLEAN]
    /\ channel_mask \in [Proc -> SUBSET AllChan]
    /\ event_array \in [Proc -> SUBSET AllChan]
    /\ pulses \in [Proc -> Nat] /\ isr \in [Proc -> AllChan \cup {NoIrq}]
Pcs == {"idle", "libinit", "cmdlock", "cmdevent", "cmdwait", "cmdok", "cmdfail",
        "evtread", "evtwrite", "enbread", "enbwrite", "maskadd", "eventadd",
        "reglock", "hostread", "hostwrite", "relevtread", "relevtwrite",
        "relenbread", "relenbwrite", "relmask", "relevent", "reldetach"}
Jobs == {"none", "init", "attach", "release", "start", "stop", "contabort"}
ThreadType ==
    /\ pc \in [Proc -> Pcs] /\ job \in [Proc -> Jobs]
    /\ cur \in [Proc -> AllChan] /\ reg \in [Proc -> SUBSET AllChan]
HistType ==
    /\ owed \in SUBSET Chan
    /\ timeouts \in Nat /\ crashes \in Nat /\ dead \in Nat

\* Every variable has its type: registers hold channels, mutexes a process.
TypeOK == /\ SharedType /\ EngineType /\ ChanType /\ IrqType /\ ThreadType
          /\ HistType

\* A process that has come through sdma_init finds the engine's RAM script
\* loaded, whichever process initialised it, failed to, or died since: the
\* count in sync.c tells the first process from the others.
InLib(p) == n_users[p] > 0 /\ pc[p] # "libinit"
ReadyForUse == \A p \in Proc : InLib(p) /\ job[p] # "init" => script

\* As long as no command has timed out, a channel whose attach succeeded runs
\* with its owner's context: the one command channel is handed from process to
\* process under command_mutex (sdmacmd_ctx_load).
OwnContext == timeouts = 0 => \A p \in Proc : \A c \in held[p] : ctx[c] = p

\* A completed transfer of an attached channel is signalled to its owner,
\* although the handler takes one interrupt each time and another process's
\* handler sees the same register (irq_handler).
NoLostCompletion ==
    crashes = 0 => \A c \in owed : \/ c \in intr
                                   \/ \E p \in Proc : isr[p] = c /\ c \in event_array[p]

\* While no command has timed out and no process has died, an interrupt that is
\* pending has a process to clear it: the line is level triggered and would
\* otherwise interrupt for ever.
PendingIsClaimed ==
    timeouts = 0 /\ crashes = 0 =>
      \A c \in intr : \E p \in Proc : c \in channel_mask[p] /\ irq_on[p]

\* Requests of the peripheral reach an attached event driven channel: its
\* override is off and its request is routed to it (sdma_channel_attach).
EventsEnabled ==
    \A p \in Proc : \A c \in held[p] :
      Driven(c) /\ cur[p] # c => c \notin evtovr /\ c \in chnenbl[eventnum[c]]

\* The library keeps its promise to the drivers: the resource database and the
\* HOSTOVR register, changed in several steps by several processes and reset by
\* the first, behave as channels with one owner each.
Channels == INSTANCE DmaChannels WITH owner <- lease, armed <- hostovr
ChannelsSpec == Channels!Spec
=============================================================================
