------------------------------- MODULE Mx6xTx -------------------------------
(***************************************************************************)
(* The transmit side of the i.MX6 Ethernet driver (devnp/mx6x): the ring   *)
(* of transmit descriptors shared by the driver and the ENET DMA engine,   *)
(* the interface send queue, and the threads that work on them.            *)
(*                                                                         *)
(* Threads.  "stack" is the io-pkt stack thread: it enqueues packets and   *)
(* calls if_start, and runs the callouts and ioctls (link monitor, stop,   *)
(* init).  "intr" is the io-pkt work thread that mx6q_isr wakes and that   *)
(* runs mx6q_process_interrupt.  "out" is a client thread in mx6q_output.  *)
(* All three take the if_snd_ex lock; the interrupt handler and the NIC    *)
(* do not, and interleave with every step of the lock holder.              *)
(*                                                                         *)
(* The model is of the single-queue build (NUM_TX_QUEUES = 1).             *)
(***************************************************************************)
EXTENDS Integers, Sequences, FiniteSets

CONSTANTS N,          \* num_tx_descriptors
          MaxFrags,   \* MX6Q_MAX_FRAGS
          Mbufs,      \* packets (mbuf chains) that exist
          None        \* the null mbuf pointer

Threads == {"stack", "intr", "out"}

ASSUME RingAssumption == /\ N \in Nat
                         /\ MaxFrags \in Nat \ {0}
                         /\ MaxFrags < N
                         /\ None \notin Mbufs \cup Threads

VARIABLES
    bd,         \* tx_bd[]: ready (TXBD_R), last (TXBD_L), updated (BD_BDU), packet
    tx_pkts,    \* packet to free when its first descriptor is reaped
    pidx, cidx, inuse,   \* tx_pidx, tx_cidx, tx_descr_inuse
    tx_full,    \* start gave up for want of descriptors
    oactive,    \* IFF_OACTIVE in if_flags_tx
    running,    \* IFF_RUNNING, in if_flags and if_flags_tx alike
    linkDown,   \* NIC_FLAG_LINK_DOWN
    if_snd,     \* the interface send queue
    pool,       \* free mbufs
    sndex,      \* holder of if_snd_ex
    pc, cur,    \* per thread: where it is, and the packet mx6q_tx is loading
    isr,        \* progress of mx6q_isr
    intrPend,   \* interrupt_queue() has queued process_interrupt
    missed,     \* history: mx6q_isr saw tx_full clear just before start set it
    hw, tdar, phase, doomed, tfint, asleep,   \* the NIC
    hung,       \* history: a stop gave up waiting for the NIC
    torn        \* history: a stop left a descriptor ready that it freed

ring == <<bd, tx_pkts, pidx, cidx, inuse>>
flags == <<running, linkDown, hung, torn>>
bufs == <<if_snd, pool>>
isrv == <<isr, intrPend, missed>>
nic  == <<hw, tdar, phase, doomed, tfint, asleep>>
vars == <<bd, tx_pkts, pidx, cidx, inuse, tx_full, oactive, running, linkDown,
          if_snd, pool, sndex, pc, cur, isr, intrPend, missed,
          hw, tdar, phase, doomed, tfint, asleep, hung, torn>>

Idx == 0..(N - 1)

\* The states of a thread that holds if_snd_ex, in the order of the code.
TxPcs == {"load", "commit", "ready", "kick"}
LockedPcs == {"start", "loop", "reap", "full", "deq", "space", "take",
              "mon", "stopwait", "stopreap", "stopclr"} \cup TxPcs
Pcs == {"idle", "pi", "pilock"} \cup LockedPcs

\* Fault: the index does not wrap.
NextTxUnwrapped(x) == x + 1

NEXT_TX(x) == (x + 1) % N
EmptyBd == [r |-> FALSE, l |-> FALSE, bdu |-> FALSE, m |-> None]
NoCur == [m |-> None, n |-> 0, i |-> 0, first |-> 0, idx |-> 0]

Init ==
    /\ bd = [i \in Idx |-> EmptyBd]
    /\ tx_pkts = [i \in Idx |-> None]
    /\ pidx = 0 /\ cidx = 0 /\ inuse = 0
    /\ tx_full = FALSE /\ oactive = FALSE
    /\ running = TRUE /\ linkDown = FALSE
    /\ if_snd = <<>> /\ pool = Mbufs
    /\ sndex = None
    /\ pc = [t \in Threads |-> "idle"]
    /\ cur = [t \in Threads |-> NoCur]
    /\ isr = "idle" /\ intrPend = FALSE /\ missed = FALSE
    /\ hw = 0 /\ tdar = FALSE /\ phase = "boundary" /\ doomed = FALSE
    /\ tfint = FALSE /\ asleep = FALSE /\ hung = FALSE /\ torn = FALSE

-----------------------------------------------------------------------------
(* The lock, and moving a thread from one place in the code to the next.   *)

Goto(t, l) == pc' = [pc EXCEPT ![t] = l]

Lock(t) == sndex = None /\ sndex' = t

\* Where a thread is after it leaves mx6q_start or mx6q_tx: the interrupt
\* thread goes back to the loop of mx6q_process_interrupt.
Return(t) == IF t = "intr" THEN "pi" ELSE "idle"

UnlockAndReturn(t) == sndex' = None /\ Goto(t, Return(t))

\* Fault: one free descriptor is thought to be enough.
NoSpaceForOne == inuse >= N

\* mx6q_start and mx6q_output refuse to load a packet when the free
\* descriptors might not hold the largest packet.
NoSpace == N - inuse <= MaxFrags

-----------------------------------------------------------------------------
(* mx6q_transmit_complete, one descriptor a step.                          *)

\* Fault: a descriptor is reaped before the NIC has given it back.
ReapableEarly(d) == d.l => d.bdu

\* A descriptor the NIC has given back: not ready, and if it is the last of
\* its frame the NIC's write of the descriptor has arrived too.
Reapable(d) == ~d.r /\ (d.l => d.bdu)

\* Fault: the pointer to the freed packet stays in tx_pkts.
ReapDescriptorKeepsPacket ==
    /\ pidx # cidx /\ Reapable(bd[cidx])
    /\ pool' = IF tx_pkts[cidx] = None THEN pool ELSE pool \cup {tx_pkts[cidx]}
    /\ bd' = [bd EXCEPT ![cidx] = EmptyBd]
    /\ inuse' = inuse - 1
    /\ cidx' = NEXT_TX(cidx)
    /\ UNCHANGED <<tx_pkts, pidx, if_snd>>

\* Free the packet at its FIRST descriptor, clear the descriptor, advance.
ReapDescriptor ==
    /\ pidx # cidx /\ Reapable(bd[cidx])
    /\ pool' = IF tx_pkts[cidx] = None THEN pool ELSE pool \cup {tx_pkts[cidx]}
    /\ tx_pkts' = [tx_pkts EXCEPT ![cidx] = None]
    /\ bd' = [bd EXCEPT ![cidx] = EmptyBd]
    /\ inuse' = inuse - 1
    /\ cidx' = NEXT_TX(cidx)
    /\ UNCHANGED <<pidx, if_snd>>

\* Nothing more to reap: the loop of mx6q_transmit_complete ends.
ReapOver == pidx = cidx \/ ~Reapable(bd[cidx])

ReapStep(t) ==
    /\ pc[t] \in {"reap", "space", "mon", "stopreap"}
    /\ ReapDescriptor
    /\ UNCHANGED <<tx_full, oactive, flags, sndex, pc, cur, isrv, nic>>

-----------------------------------------------------------------------------
(* mx6q_start                                                              *)

\* The stack hands a packet to the interface: ifq_enqueue calls if_start,
\* with if_snd_ex held, unless IFF_OACTIVE is set.  (io-pkt, external.)
StackEnqueue(m) ==
    /\ pc["stack"] = "idle" /\ sndex = None
    /\ m \in pool
    /\ pool' = pool \ {m} /\ if_snd' = Append(if_snd, m)
    /\ IF oactive THEN UNCHANGED <<sndex, pc>>
                  ELSE sndex' = "stack" /\ Goto("stack", "start")
    /\ UNCHANGED <<ring, tx_full, oactive, flags, cur, isrv, nic>>

\* Interface not running or link down: purge the queue and leave.
StartPurge(t) ==
    /\ pc[t] = "start" /\ (~running \/ linkDown)
    /\ pool' = pool \cup {if_snd[i] : i \in DOMAIN if_snd} /\ if_snd' = <<>>
    /\ UnlockAndReturn(t)
    /\ UNCHANGED <<ring, tx_full, oactive, flags, cur, isrv, nic>>

StartEnter(t) ==
    /\ pc[t] = "start" /\ running /\ ~linkDown
    /\ oactive' = TRUE
    /\ Goto(t, "loop")
    /\ UNCHANGED <<ring, tx_full, flags, bufs, sndex, cur, isrv, nic>>

StartLoop(t) ==
    /\ pc[t] = "loop"
    /\ Goto(t, IF NoSpace THEN "reap" ELSE "deq")
    /\ UNCHANGED <<ring, tx_full, oactive, flags, bufs, sndex, cur, isrv, nic>>

StartReaped(t) ==
    /\ pc[t] = "reap" /\ ReapOver
    /\ Goto(t, IF NoSpace THEN "full" ELSE "deq")
    /\ UNCHANGED <<ring, tx_full, oactive, flags, bufs, sndex, cur, isrv, nic>>

\* Fault: the queue is not marked as full.
StartFullUnmarked(t) ==
    /\ pc[t] = "full"
    /\ UnlockAndReturn(t)
    /\ UNCHANGED <<ring, tx_full, oactive, flags, bufs, cur, isrv, nic>>

\* Still no space: leave IFF_OACTIVE set and ask for a completion interrupt.
StartFull(t) ==
    /\ pc[t] = "full"
    /\ tx_full' = TRUE
    /\ UnlockAndReturn(t)
    /\ UNCHANGED <<ring, oactive, flags, bufs, cur, isrv, nic>>

\* IFQ_DEQUEUE found nothing: leave with IFF_OACTIVE clear.
StartDone(t) ==
    /\ pc[t] = "deq" /\ if_snd = <<>>
    /\ oactive' = FALSE
    /\ UnlockAndReturn(t)
    /\ UNCHANGED <<ring, tx_full, flags, bufs, cur, isrv, nic>>

\* A packet m of n non-empty fragments enters mx6q_tx.
BeginTx(t, m, n) ==
    /\ cur' = [cur EXCEPT ![t] =
                 [m |-> m, n |-> n, i |-> 0, first |-> pidx, idx |-> pidx]]
    /\ Goto(t, "load")

\* The next packet goes to mx6q_tx: as it is when it has at most MaxFrags
\* aligned fragments, else as the copy mx6q_defrag makes of it.
StartDequeue(t) ==
    /\ pc[t] = "deq" /\ if_snd # <<>>
    /\ \E n \in 1..MaxFrags : BeginTx(t, Head(if_snd), n)
    /\ if_snd' = Tail(if_snd)
    /\ UNCHANGED <<ring, tx_full, oactive, flags, pool, sndex, isrv, nic>>

\* ... or mx6q_defrag cannot allocate: it has freed the packet, mx6q_tx
\* returns ENOMEM and the loop of mx6q_start goes on.
StartDefragFails(t) ==
    /\ pc[t] = "deq" /\ if_snd # <<>>
    /\ pool' = pool \cup {Head(if_snd)} /\ if_snd' = Tail(if_snd)
    /\ Goto(t, "loop")
    /\ UNCHANGED <<ring, tx_full, oactive, flags, sndex, cur, isrv, nic>>

-----------------------------------------------------------------------------
(* mx6q_tx: load the descriptors, then hand the frame to the NIC by        *)
(* setting the ready bit of the FIRST descriptor last of all.              *)

AfterTx(t) == IF t = "out" THEN "idle" ELSE "loop"

\* Fault: the first descriptor is made ready as it is loaded.
LoadedBdReadyAtOnce(t) == [bd[cur[t].idx] EXCEPT !.r = TRUE, !.m = cur[t].m]

\* The descriptor as mx6q_tx loads it: every one but the first is made ready.
LoadedBd(t) == [bd[cur[t].idx] EXCEPT !.r = (cur[t].i > 0), !.m = cur[t].m]

\* One descriptor.  A descriptor that is still ready "should NEVER happen":
\* the packet is freed and if_snd_ex dropped, and the caller, which did not
\* see the return code, carries on as if it held the lock.
TxLoad(t) ==
    /\ pc[t] = "load"
    /\ IF bd[cur[t].idx].r
       THEN /\ pool' = pool \cup {cur[t].m}
            /\ cur' = [cur EXCEPT ![t] = NoCur]
            /\ sndex' = None
            /\ Goto(t, AfterTx(t))
            /\ UNCHANGED bd
       ELSE /\ bd' = [bd EXCEPT ![cur[t].idx] = LoadedBd(t)]
            /\ cur' = [cur EXCEPT ![t].idx = NEXT_TX(@), ![t].i = @ + 1]
            /\ Goto(t, IF cur[t].i + 1 = cur[t].n THEN "commit" ELSE "load")
            /\ UNCHANGED <<pool, sndex>>
    /\ UNCHANGED <<tx_pkts, pidx, cidx, inuse, tx_full, oactive, flags, if_snd,
                   isrv, nic>>

\* Fault: a packet is counted as one descriptor.
TxCommitCountsOne(t) ==
    /\ pc[t] = "commit"
    /\ inuse' = inuse + 1
    /\ tx_pkts' = [tx_pkts EXCEPT ![pidx] = cur[t].m]
    /\ pidx' = cur[t].idx
    /\ bd' = [bd EXCEPT ![(cur[t].first + cur[t].n - 1) % N].l = TRUE]
    /\ Goto(t, "ready")
    /\ UNCHANGED <<cidx, tx_full, oactive, flags, bufs, sndex, cur, isrv, nic>>

\* Book the descriptors, remember the packet, set LAST in the last one.
TxCommit(t) ==
    /\ pc[t] = "commit"
    /\ inuse' = inuse + cur[t].n
    /\ tx_pkts' = [tx_pkts EXCEPT ![pidx] = cur[t].m]
    /\ pidx' = cur[t].idx
    /\ bd' = [bd EXCEPT ![(cur[t].first + cur[t].n - 1) % N].l = TRUE]
    /\ Goto(t, "ready")
    /\ UNCHANGED <<cidx, tx_full, oactive, flags, bufs, sndex, cur, isrv, nic>>

\* READY in the first descriptor.  For a single descriptor the code sets LAST
\* and READY in one write; LAST alone is seen by nobody without if_snd_ex.
TxReady(t) ==
    /\ pc[t] = "ready"
    /\ bd' = [bd EXCEPT ![cur[t].first].r = TRUE]
    /\ Goto(t, "kick")
    /\ UNCHANGED <<tx_pkts, pidx, cidx, inuse, tx_full, oactive, flags, bufs,
                   sndex, cur, isrv, nic>>

\* Kick the DMA under the spinlock, unless it is already active.
TxKick(t) ==
    /\ pc[t] = "kick" /\ isr = "idle"
    /\ tdar' = (tdar \/ running)
    /\ cur' = [cur EXCEPT ![t] = NoCur]
    /\ Goto(t, AfterTx(t))
    /\ sndex' = IF t = "out" THEN None ELSE sndex
    /\ UNCHANGED <<ring, tx_full, oactive, flags, bufs, isrv,
                   hw, phase, doomed, tfint, asleep>>

-----------------------------------------------------------------------------
(* mx6q_output of a packet with a transmit priority: straight to the ring. *)

OutputEnter(m) ==
    /\ pc["out"] = "idle" /\ m \in pool
    /\ Lock("out")
    /\ pool' = pool \ {m}
    /\ cur' = [cur EXCEPT !["out"].m = m]
    /\ Goto("out", IF NoSpace THEN "space" ELSE "take")
    /\ UNCHANGED <<ring, tx_full, oactive, flags, if_snd, isrv, nic>>

\* Still no space after reaping: ENOBUFS, the packet is dropped.
OutputReaped ==
    /\ pc["out"] = "space" /\ ReapOver
    /\ IF NoSpace
       THEN /\ pool' = pool \cup {cur["out"].m}
            /\ cur' = [cur EXCEPT !["out"] = NoCur]
            /\ UnlockAndReturn("out")
       ELSE /\ Goto("out", "take")
            /\ UNCHANGED <<pool, cur, sndex>>
    /\ UNCHANGED <<ring, tx_full, oactive, flags, if_snd, isrv, nic>>

OutputTake ==
    /\ pc["out"] = "take"
    /\ \E n \in 1..MaxFrags : BeginTx("out", cur["out"].m, n)
    /\ UNCHANGED <<ring, tx_full, oactive, flags, bufs, sndex, isrv, nic>>

\* mx6q_defrag fails: ENOMEM to the caller, if_snd_ex dropped.
OutputDefragFails ==
    /\ pc["out"] = "take"
    /\ pool' = pool \cup {cur["out"].m}
    /\ cur' = [cur EXCEPT !["out"] = NoCur]
    /\ UnlockAndReturn("out")
    /\ UNCHANGED <<ring, tx_full, oactive, flags, if_snd, isrv, nic>>

-----------------------------------------------------------------------------
(* mx6q_isr (the transmit part) and mx6q_process_interrupt.                *)

\* IEVENT is read; the spinlock is taken; TFINT is cleared.
IsrClear ==
    /\ isr = "idle" /\ tfint
    /\ tfint' = FALSE
    /\ isr' = "check"
    /\ UNCHANGED <<ring, tx_full, oactive, flags, bufs, sndex, pc, cur,
                   intrPend, missed, hw, tdar, phase, doomed, asleep>>

\* mx6q_last_bd_active: is the newest descriptor still the NIC's?
LastBdActive == bd[IF pidx # 0 THEN pidx - 1 ELSE N - 1].r

\* mx6q_start has found no descriptor to reap and not yet set tx_full.
FullUnmarked == ~tx_full /\ \E t \in Threads : pc[t] = "full"

\* Fault: no work-around for ERR006358.
IsrCheckNoRekick ==
    /\ isr = "check"
    /\ intrPend' = (intrPend \/ tx_full)
    /\ missed' = (missed \/ FullUnmarked)
    /\ isr' = "idle"
    /\ UNCHANGED <<ring, tx_full, oactive, flags, bufs, sndex, pc, cur, nic>>

\* Fault: the handler does not queue process_interrupt.
IsrCheckNoWake ==
    /\ isr = "check"
    /\ tdar' = (tdar \/ LastBdActive)
    /\ missed' = (missed \/ FullUnmarked)
    /\ isr' = "idle"
    /\ UNCHANGED <<ring, tx_full, oactive, flags, bufs, sndex, pc, cur, intrPend,
                   hw, phase, doomed, tfint, asleep>>

\* ERR006358: a DMA that stopped with frames in the ring is kicked again.
\* If start ran out of descriptors, queue process_interrupt.
IsrCheck ==
    /\ isr = "check"
    /\ tdar' = (tdar \/ LastBdActive)
    /\ intrPend' = (intrPend \/ tx_full)
    /\ missed' = (missed \/ FullUnmarked)
    /\ isr' = "idle"
    /\ UNCHANGED <<ring, tx_full, oactive, flags, bufs, sndex, pc, cur,
                   hw, phase, doomed, tfint, asleep>>

\* io-pkt runs the queued mx6q_process_interrupt.
IntrRun ==
    /\ pc["intr"] = "idle" /\ intrPend
    /\ intrPend' = FALSE
    /\ Goto("intr", "pi")
    /\ UNCHANGED <<ring, tx_full, oactive, flags, bufs, sndex, cur, isr, missed, nic>>

\* The loop of mx6q_process_interrupt tests tx_full without the lock ...
IntrTest ==
    /\ pc["intr"] = "pi"
    /\ Goto("intr", IF tx_full THEN "pilock" ELSE "idle")
    /\ UNCHANGED <<ring, tx_full, oactive, flags, bufs, sndex, cur, isrv, nic>>

\* ... and calls start with the lock held and tx_full reset.
IntrStart ==
    /\ pc["intr"] = "pilock"
    /\ Lock("intr")
    /\ tx_full' = FALSE /\ missed' = FALSE
    /\ Goto("intr", "start")
    /\ UNCHANGED <<ring, oactive, flags, bufs, cur, isr, intrPend, nic>>

-----------------------------------------------------------------------------
(* Reaping outside start: mx6q_MDI_MonitorPhy (every 2 s if tx_reaped is   *)
(* clear) and mx6q_ptp_get_tx_timestamp (always), both with if_snd_ex.     *)

MonitorReap ==
    /\ pc["stack"] = "idle"
    /\ Lock("stack")
    /\ Goto("stack", "mon")
    /\ UNCHANGED <<ring, tx_full, oactive, flags, bufs, cur, isrv, nic>>

MonitorDone ==
    /\ pc["stack"] = "mon" /\ ReapOver
    /\ UnlockAndReturn("stack")
    /\ UNCHANGED <<ring, tx_full, oactive, flags, bufs, cur, isrv, nic>>

\* The PHY monitor sees the link go down or come up (mx6q_mii_callback).
LinkChange ==
    /\ pc["stack"] = "idle"
    /\ linkDown' = ~linkDown
    /\ UNCHANGED <<ring, tx_full, oactive, running, hung, torn, bufs, sndex, pc,
                   cur, isrv, nic>>

-----------------------------------------------------------------------------
(* mx6q_stop and mx6q_init, called by the stack.                           *)

\* Take the locks, mark the interface down, put the MAC to sleep.
StopBegin ==
    /\ pc["stack"] = "idle" /\ isr = "idle"
    /\ Lock("stack")
    /\ linkDown' = TRUE /\ running' = FALSE /\ oactive' = FALSE
    /\ asleep' = TRUE
    /\ Goto("stack", "stopwait")
    /\ UNCHANGED <<ring, tx_full, bufs, cur, isrv, hung, torn,
                   hw, tdar, phase, doomed, tfint>>

\* The DMA was not active, or it has stopped gracefully.
StopGraceful ==
    /\ pc["stack"] = "stopwait" /\ (~tdar \/ phase = "boundary")
    /\ Goto("stack", "stopreap")
    /\ UNCHANGED <<ring, tx_full, oactive, flags, bufs, sndex, cur, isrv, nic>>

\* STOP_TIMEOUT polls were not enough: log it and go on.
StopTimeout ==
    /\ pc["stack"] = "stopwait" /\ tdar /\ phase # "boundary"
    /\ hung' = TRUE
    /\ Goto("stack", "stopreap")
    /\ UNCHANGED <<ring, tx_full, oactive, running, linkDown, torn, bufs, sndex,
                   cur, isrv, nic>>

StopReaped ==
    /\ pc["stack"] = "stopreap" /\ ReapOver
    /\ Goto("stack", "stopclr")
    /\ UNCHANGED <<ring, tx_full, oactive, flags, bufs, sndex, cur, isrv, nic>>

Pending == {i \in Idx : tx_pkts[i] # None}

\* Fault: the descriptors of the freed packets stay ready.
StoppedBdKept(i) == bd[i]

\* The status of a freed packet's descriptor keeps only the wrap bit.
StoppedBd(i) == IF i \in Pending THEN [bd[i] EXCEPT !.r = FALSE, !.l = FALSE]
                                 ELSE bd[i]

\* Fault: the ring restarts from its first descriptor.
StopIndexAtZero == 0

\* "start queueing descriptors from where the hardware stopped"
StopIndex == cidx

\* The packets still in the ring are freed and their FIRST descriptors cleared,
\* one after the other, with if_snd_ex held.  The MAC, asleep, fetches no first
\* descriptor meanwhile: what is left of a frame it did not end is not touched.
StopClear ==
    /\ pc["stack"] = "stopclr"
    /\ pool' = pool \cup {tx_pkts[i] : i \in Pending}
    /\ tx_pkts' = [i \in Idx |-> None]
    /\ bd' = [i \in Idx |-> StoppedBd(i)]
    /\ pidx' = StopIndex /\ cidx' = StopIndex /\ inuse' = 0
    /\ torn' = (torn \/ \E i \in Idx \ Pending : bd[i].r)
    /\ UnlockAndReturn("stack")
    /\ UNCHANGED <<tx_full, oactive, running, linkDown, hung, if_snd, cur, isrv, nic>>

\* Mark the interface running, force the link down until the monitor sees it
\* up again, wake the MAC.
InitUp ==
    /\ pc["stack"] = "idle" /\ ~running /\ sndex = None /\ isr = "idle"
    /\ running' = TRUE /\ linkDown' = TRUE
    /\ asleep' = FALSE
    /\ UNCHANGED <<ring, tx_full, oactive, hung, torn, bufs, sndex, pc, cur, isrv,
                   hw, tdar, phase, doomed, tfint>>

-----------------------------------------------------------------------------
(* The ENET transmit DMA, as the driver uses it (external).  It walks the  *)
(* ring while TDAR (X_DES_ACTIVE) is set; asleep, it ends the frame it is  *)
(* in and stops.                                                           *)

\* A ready descriptor is fetched and given back.
NicFetch ==
    /\ tdar /\ bd[hw].r
    /\ phase = "mid" \/ (phase = "boundary" /\ ~asleep)
    /\ bd' = [bd EXCEPT ![hw].r = FALSE]
    /\ IF bd[hw].l THEN phase' = "update" /\ UNCHANGED hw
                   ELSE phase' = "mid" /\ hw' = NEXT_TX(hw)
    /\ UNCHANGED <<tx_pkts, pidx, cidx, inuse, tx_full, oactive, flags, bufs,
                   sndex, pc, cur, isrv, tdar, doomed, tfint, asleep>>

\* ERR006358: while a frame ends the DMA looks at the next descriptor and
\* finds it not ready ...
NicPrefetchEmpty ==
    /\ tdar /\ phase = "update" /\ ~bd[NEXT_TX(hw)].r
    /\ ~doomed /\ doomed' = TRUE
    /\ UNCHANGED <<ring, tx_full, oactive, flags, bufs, sndex, pc, cur, isrv,
                   hw, tdar, phase, tfint, asleep>>

\* ... and with the frame's last descriptor written back it clears TDAR, even
\* if descriptors were made ready meanwhile.
NicUpdate ==
    /\ phase = "update"
    /\ bd' = [bd EXCEPT ![hw].bdu = TRUE]
    /\ hw' = NEXT_TX(hw)
    /\ phase' = "boundary" /\ doomed' = FALSE
    /\ tdar' = (tdar /\ ~doomed)
    /\ tfint' = TRUE
    /\ UNCHANGED <<tx_pkts, pidx, cidx, inuse, tx_full, oactive, flags, bufs,
                   sndex, pc, cur, isrv, asleep>>

\* No ready descriptor: the DMA stops.
NicIdle ==
    /\ tdar /\ phase = "boundary" /\ ~bd[hw].r
    /\ tdar' = FALSE
    /\ UNCHANGED <<ring, tx_full, oactive, flags, bufs, sndex, pc, cur, isrv,
                   hw, phase, doomed, tfint, asleep>>

-----------------------------------------------------------------------------
StartStep(t) == StartPurge(t) \/ StartEnter(t) \/ StartLoop(t)
                \/ StartReaped(t) \/ StartFull(t) \/ StartDone(t)
                \/ StartDequeue(t) \/ StartDefragFails(t)
TxStep(t) == TxLoad(t) \/ TxCommit(t) \/ TxReady(t) \/ TxKick(t)
OutputStep == OutputReaped \/ OutputTake \/ OutputDefragFails
IntrStep == IntrRun \/ IntrTest \/ IntrStart
IsrStep == IsrClear \/ IsrCheck
NicStep == NicFetch \/ NicUpdate \/ NicIdle
ThreadStep(t) == ReapStep(t) \/ StartStep(t) \/ TxStep(t)

\* The interface is up and its link does not change.
NextUp ==
    \/ \E m \in Mbufs : StackEnqueue(m) \/ OutputEnter(m)
    \/ \E t \in Threads : ThreadStep(t)
    \/ OutputStep \/ IntrStep \/ IsrStep \/ NicStep \/ NicPrefetchEmpty
    \/ MonitorReap \/ MonitorDone

\* ... its link goes down and up ...
NextLink == NextUp \/ LinkChange

\* ... and it is stopped and brought up again.
Next ==
    \/ NextLink
    \/ StopBegin \/ StopGraceful \/ StopTimeout \/ StopReaped \/ StopClear
    \/ InitUp

SpecUp == Init /\ [][NextUp]_vars
SpecLink == Init /\ [][NextLink]_vars
Spec == Init /\ [][Next]_vars

\* A thread that holds the lock or is scheduled runs on; interrupts are
\* delivered; the NIC sends what it is told to.
Fairness ==
    /\ \A t \in Threads : WF_vars(ThreadStep(t))
    /\ WF_vars(OutputStep) /\ WF_vars(MonitorDone)
    /\ WF_vars(IsrStep) /\ WF_vars(NicStep)

FairSpecUp == SpecUp /\ Fairness

-----------------------------------------------------------------------------
(* Properties                                                              *)

BdType == [r : BOOLEAN, l : BOOLEAN, bdu : BOOLEAN, m : Mbufs \cup {None}]
CurType == [m : Mbufs \cup {None}, n : 0..MaxFrags, i : 0..MaxFrags,
            first : Idx, idx : Idx]
RingType == /\ bd \in [Idx -> BdType] /\ tx_pkts \in [Idx -> Mbufs \cup {None}]
            /\ pidx \in Idx /\ cidx \in Idx /\ inuse \in Int
ThreadType == /\ pc \in [Threads -> Pcs] /\ cur \in [Threads -> CurType]
              /\ sndex \in Threads \cup {None}
BufType == if_snd \in Seq(Mbufs) /\ pool \in SUBSET Mbufs
FlagType == /\ tx_full \in BOOLEAN /\ oactive \in BOOLEAN
            /\ running \in BOOLEAN /\ linkDown \in BOOLEAN /\ hung \in BOOLEAN
            /\ torn \in BOOLEAN /\ missed \in BOOLEAN
            /\ isr \in {"idle", "check"} /\ intrPend \in BOOLEAN
NicType == /\ hw \in Idx /\ phase \in {"boundary", "mid", "update"}
           /\ tdar \in BOOLEAN /\ doomed \in BOOLEAN
           /\ tfint \in BOOLEAN /\ asleep \in BOOLEAN

\* Every variable holds a value of its kind.
TypeOK == RingType /\ ThreadType /\ BufType /\ FlagType /\ NicType

\* tx_descr_inuse, kept by additions in mx6q_tx and decrements in
\* mx6q_transmit_complete, is the distance from the consumer to the producer
\* index, and the ring is never filled to the point where the two meet.
RingAccounting == inuse = (pidx - cidx) % N /\ inuse <= N - 1

\* mx6q_tx never meets a descriptor that is still ready ("this should NEVER
\* happen", transmit.c): the space check of its callers is enough.
NeverHitsEnd ==
    \A t \in Threads : pc[t] = "load" => ~bd[cur[t].idx].r

\* In the middle of a frame the NIC always finds the next descriptor ready:
\* the ready bit of the first descriptor is set after all the others.
FrameWhole == phase = "mid" => bd[hw].r

\* Every mbuf has exactly one owner: the free pool, the send queue, the
\* packet array or a thread that is transmitting it.  None is lost, and none
\* is freed twice, on any path through mx6q_tx, the reaping and the stop.
MbufOnce ==
    \A m \in Mbufs :
        Cardinality({i \in DOMAIN if_snd : if_snd[i] = m})
        + Cardinality({i \in Idx : tx_pkts[i] = m})
        + Cardinality({t \in Threads :
                         cur[t].m = m /\ pc[t] \notin {"ready", "kick"}})
        + (IF m \in pool THEN 1 ELSE 0) = 1

\* Something that will make a completion interrupt or is acting on one: the
\* interrupt itself, process_interrupt queued or running, a frame at the NIC.
WakeToCome == \/ tfint \/ isr = "check" \/ intrPend \/ pc["intr"] # "idle"
              \/ phase # "boundary" \/ \E i \in Idx : bd[i].r

\* While IFF_OACTIVE keeps the stack from calling start, tx_full is set and a
\* completion is still to come that will have process_interrupt call start,
\* unless mx6q_isr tested tx_full between the reaping and the setting of it.
OactiveHasWaker == (oactive /\ sndex = None) => tx_full /\ (missed \/ WakeToCome)

\* "Leave IFF_OACTIVE so the stack doesn't call us again and mark the queue as
\* full so we can try again on a Tx completion interrupt" (transmit.c:332):
\* while the queue is marked as full, such an interrupt is still to come.
FullHasCompletion == (tx_full /\ sndex = None) => WakeToCome

\* mx6q_transmit_complete frees a packet at its first descriptor, while the NIC
\* may own the rest.  A descriptor of the NIC's points into a freed packet only
\* in the frame that the NIC is in the middle of, and never in one it has still
\* to begin, whatever was reaped, dropped or stopped: unless a stop gave up on
\* the NIC or left it the later descriptors of a packet.
NicOwnsLiveBuffer ==
    ~hung /\ ~torn =>
        \A i \in Idx : bd[i].r /\ bd[i].m \in pool
            => phase = "mid" /\ bd[hw].m = bd[i].m

\* When the ring is empty the NIC looks for the next frame where the driver
\* will put it, a stop included ("start queueing descriptors from where the
\* hardware stopped"), unless a stop gave up on the NIC or left it the later
\* descriptors of a packet, of which mx6q_stop clears only the first.
HwInStep ==
    (pidx = cidx /\ sndex = None /\ phase = "boundary" /\ ~hung /\ ~torn)
        => hw = pidx

\* Every descriptor made ready is sent, ERR006358 notwithstanding: the check
\* mx6q_isr makes after it clears TFINT leaves no frame behind.
PostedSent == \A i \in Idx : bd[i].r ~> ~bd[i].r
=============================================================================
