------------------------------- MODULE Mx6xRx -------------------------------
(***************************************************************************)
(* The receive side of the i.MX6 Ethernet driver (devnp/mx6x): the ring of *)
(* receive descriptors filled by the ENET DMA, the interrupt that wakes    *)
(* the driver's receive thread, and the queue on which the receive thread  *)
(* hands packets to a stack thread, with its flow control.                 *)
(*                                                                         *)
(* Frames are numbered in the order of the wire.  A frame is a sequence of *)
(* fragments <<f, 1>>, <<f, 2>> ..., one to a descriptor.                  *)
(* The model is of the single-queue build (NUM_RX_QUEUES = 1).             *)
(***************************************************************************)
EXTENDS Integers, Sequences

CONSTANTS N,          \* num_rx_descriptors
          QMax,       \* rx_queue.ifq_maxlen
          MaxFrames,  \* bound: frames that arrive on the wire
          MaxParts,   \* bound: descriptors to a frame
          Avb,        \* the frames that are AVB 1722 frames
          FlowTx      \* flow_status has MX6_FLOW_TX or MX6_FLOW_BOTH

ASSUME RxAssumption == /\ N \in Nat \ {0} /\ QMax \in Nat \ {0}
                       /\ MaxFrames \in Nat /\ MaxParts \in Nat \ {0}
                       /\ Avb \subseteq 1..MaxFrames
                       /\ FlowTx \in BOOLEAN

VARIABLES
    bd,          \* rx_bd[]: empty (RXBD_E), last (RXBD_L), error, fragment, stamp
    rx_cidx,     \* descriptor consumer index
    rpkt,        \* fragments of the packet being put together
    rpc,         \* where the receive thread is
    pulses,      \* MX6Q_RX_PULSEs queued on the driver's channel
    rx_queue, rx_mutex, rx_running, rx_full,
    qpend,       \* interrupt_queue() has queued mx6q_process_queue
    qpc,         \* where the stack thread is
    rfien, rfint,   \* IMASK_RFIEN, IEVENT_RFINT
    isr,         \* mx6q_isr has read IEVENT and seen RFINT
    rdar,        \* R_DES_ACTIVE
    running,     \* IFF_RUNNING; while it is clear the MAC sleeps
    skipped,     \* mx6q_enable_queue has found the interface down
    hw, wire,    \* the NIC: its descriptor index, the fragment it receives
    input,       \* packets given to if_input, in order
    stamp        \* the last frame stamped, and the frame its stamp is of

rxv   == <<bd, rx_cidx, rpkt>>
queue == <<rx_queue, rx_mutex, rx_running, rx_full, qpend>>
irq   == <<rfien, rfint, isr, pulses>>
up    == <<running, skipped>>
nic   == <<rdar, hw, wire>>
vars  == <<bd, rx_cidx, rpkt, rpc, pulses, rx_queue, rx_mutex, rx_running,
           rx_full, qpend, qpc, rfien, rfint, isr, rdar, running, skipped, hw,
           wire, input, stamp>>

Idx == 0..(N - 1)
NEXT_RX(x) == (x + 1) % N
Nothing == <<0, 0>>
Frags == (0..MaxFrames) \X (0..MaxParts)
EmptyBd == [e |-> TRUE, l |-> FALSE, err |-> FALSE, d |-> Nothing, ts |-> 0]

Init ==
    /\ bd = [i \in Idx |-> EmptyBd]
    /\ rx_cidx = 0 /\ rpkt = <<>>
    /\ rpc = "wait" /\ pulses = 0
    /\ rx_queue = <<>> /\ rx_mutex = "free" /\ rx_running = FALSE
    /\ rx_full = FALSE /\ qpend = FALSE /\ qpc = "idle"
    /\ rfien = TRUE /\ rfint = FALSE /\ isr = FALSE
    /\ rdar = TRUE /\ running = TRUE /\ skipped = FALSE
    /\ hw = 0 /\ wire = <<1, 1>>
    /\ input = <<>> /\ stamp = <<0, 0>>

-----------------------------------------------------------------------------
(* The ENET receive DMA, as the driver uses it (external).  wire is the    *)
(* next fragment to arrive; a frame's status and time stamp are written    *)
(* with its last descriptor, and raise RFINT.                              *)

NicReceive ==
    /\ wire[1] <= MaxFrames /\ rdar /\ bd[hw].e
    /\ running \/ wire[2] > 1
    /\ \E last \in BOOLEAN, err \in BOOLEAN :
         /\ wire[2] = MaxParts => last
         /\ err => last
         /\ bd' = [bd EXCEPT ![hw] = [e |-> FALSE, l |-> last, err |-> err,
                                      d |-> wire,
                                      ts |-> IF last THEN wire[1] ELSE @.ts]]
         /\ rfint' = (rfint \/ last)
         /\ wire' = IF last THEN <<wire[1] + 1, 1>> ELSE <<wire[1], wire[2] + 1>>
    /\ hw' = NEXT_RX(hw)
    /\ UNCHANGED <<rx_cidx, rpkt, rpc, queue, qpc, rfien, isr, pulses, rdar, up,
                   input, stamp>>

\* The next descriptor is not empty: the DMA stops.
NicFull ==
    /\ rdar /\ ~bd[hw].e
    /\ rdar' = FALSE
    /\ UNCHANGED <<rxv, rpc, queue, qpc, irq, up, hw, wire, input, stamp>>

-----------------------------------------------------------------------------
(* mx6q_isr (the receive part), called for this or another interrupt: it   *)
(* reads IEVENT, and then, holding the spinlock, masks RFINT and sends the *)
(* pulse unless RFINT is masked already.                                   *)

IsrRead ==
    /\ ~isr /\ rfint
    /\ isr' = TRUE
    /\ UNCHANGED <<rxv, rpc, queue, qpc, rfien, rfint, pulses, nic, up, input, stamp>>

IsrRx ==
    /\ isr
    /\ isr' = FALSE
    /\ rfien' = FALSE
    /\ pulses' = IF rfien THEN pulses + 1 ELSE pulses
    /\ UNCHANGED <<rxv, rpc, queue, qpc, rfint, nic, up, input, stamp>>

-----------------------------------------------------------------------------
(* mx6q_rx_thread and mx6q_receive                                         *)

\* A pulse arrives: clear RFINT, then look at the ring.
RxPulse ==
    /\ rpc = "wait" /\ pulses > 0
    /\ pulses' = pulses - 1 /\ rfint' = FALSE
    /\ rpc' = "receive"
    /\ UNCHANGED <<rxv, queue, qpc, rfien, isr, nic, up, input, stamp>>

Here == bd[rx_cidx]
Took == rpc = "receive" /\ ~Here.e

\* mx6q_add_pkt: the descriptor goes back to the NIC; its time stamp stays
\* as it is until the NIC writes the descriptor again.
mx6q_add_pkt == bd' = [bd EXCEPT ![rx_cidx] = [EmptyBd EXCEPT !.ts = Here.ts]]

\* Fault: the fragments gathered so far are kept.
KeepPartial == UNCHANGED rpkt

\* "Half way through a packet, discard it all"
DiscardPartial == rpkt' = <<>>

\* RXBD_ERR: the mbuf goes back to the NIC.
RxError ==
    /\ Took /\ Here.err
    /\ mx6q_add_pkt /\ rx_cidx' = NEXT_RX(rx_cidx)
    /\ DiscardPartial
    /\ UNCHANGED <<rpc, queue, qpc, irq, nic, up, input, stamp>>

\* No mbuf to replace the received one: that too goes back to the NIC.
RxNoMbuf ==
    /\ Took /\ ~Here.err
    /\ mx6q_add_pkt /\ rx_cidx' = NEXT_RX(rx_cidx)
    /\ rpkt' = <<>>
    /\ UNCHANGED <<rpc, queue, qpc, irq, nic, up, input, stamp>>

\* The mbuf joins the packet and a new one goes to the NIC.
RxFragment ==
    /\ Took /\ ~Here.err
    /\ rpkt' = Append(rpkt, Here.d)
    /\ mx6q_add_pkt /\ rx_cidx' = NEXT_RX(rx_cidx)
    /\ rpc' = IF Here.l THEN "stamp" ELSE "receive"
    /\ UNCHANGED <<queue, qpc, irq, nic, up, input, stamp>>

PacketFrame == rpkt[Len(rpkt)][1]

\* The packet is complete.  If it is a PTP event message its time stamp is
\* read from the descriptor it came in.
RxStamp ==
    /\ rpc = "stamp"
    /\ stamp' = <<PacketFrame, bd[(rx_cidx + N - 1) % N].ts>>
    /\ rpc' = "deliver"
    /\ UNCHANGED <<rxv, queue, qpc, irq, nic, up, input>>

\* Fault: the type of the frame is not looked at.
RxAvbAny ==
    /\ rpc = "deliver"
    /\ input' = Append(input, rpkt) /\ rpkt' = <<>>
    /\ rpc' = "receive"
    /\ UNCHANGED <<bd, rx_cidx, queue, qpc, irq, nic, up, stamp>>

\* An AVB 1722 packet goes straight up.
RxAvb ==
    /\ rpc = "deliver" /\ PacketFrame \in Avb
    /\ input' = Append(input, rpkt) /\ rpkt' = <<>>
    /\ rpc' = "receive"
    /\ UNCHANGED <<bd, rx_cidx, queue, qpc, irq, nic, up, stamp>>

\* Unless the stack thread is at it already, have it called.
HandOff(q) ==
    IF q /\ ~rx_running THEN rx_running' = TRUE /\ qpend' = TRUE
                        ELSE UNCHANGED <<rx_running, qpend>>

\* Any other packet goes on rx_queue, or is dropped if that is full.  With
\* flow control, a queue about to overflow ends reception: the interrupt
\* stays masked until mx6q_enable_queue.
RxEnqueue ==
    LET room == Len(rx_queue) < QMax
        q == IF room THEN Append(rx_queue, rpkt) ELSE rx_queue
        stop == FlowTx /\ Len(q) >= QMax - 1
    IN /\ rpc = "deliver" /\ PacketFrame \notin Avb /\ rx_mutex = "free"
       /\ rx_queue' = q /\ HandOff(room)
       /\ rpkt' = <<>>
       /\ rx_full' = (rx_full \/ stop)
       /\ rpc' = IF stop THEN "wait" ELSE "receive"
       /\ UNCHANGED <<bd, rx_cidx, rx_mutex, qpc, irq, nic, up, input, stamp>>

\* No more packets: restart the DMA in case the ring had filled.
RxEmpty ==
    /\ rpc = "receive" /\ Here.e
    /\ rdar' = (rdar \/ running)
    /\ rpc' = "unmask"
    /\ UNCHANGED <<rxv, queue, qpc, irq, hw, wire, up, input, stamp>>

\* Fault: RFINT is cleared after the ring was looked at.
RxUnmaskClears ==
    /\ rpc = "unmask"
    /\ rfien' = TRUE /\ rfint' = FALSE
    /\ rpc' = "wait"
    /\ UNCHANGED <<rxv, queue, qpc, isr, pulses, nic, up, input, stamp>>

\* Fault: the interrupt stays masked.
RxUnmaskForgotten ==
    /\ rpc = "unmask"
    /\ rpc' = "wait"
    /\ UNCHANGED <<rxv, queue, qpc, irq, nic, up, input, stamp>>

\* mx6q_receive returned 1: the receive thread unmasks the interrupt.
RxUnmask ==
    /\ rpc = "unmask"
    /\ rfien' = TRUE
    /\ rpc' = "wait"
    /\ UNCHANGED <<rxv, queue, qpc, rfint, isr, pulses, nic, up, input, stamp>>

-----------------------------------------------------------------------------
(* mx6q_process_queue and mx6q_enable_queue, on a stack thread.            *)

QueueRun ==
    /\ qpc = "idle" /\ qpend
    /\ qpend' = FALSE /\ qpc' = "drain"
    /\ UNCHANGED <<rxv, rpc, rx_queue, rx_mutex, rx_running, rx_full, irq, nic,
                   up, input, stamp>>

QueueDequeue ==
    /\ qpc = "drain" /\ rx_mutex = "free" /\ rx_queue # <<>>
    /\ input' = Append(input, Head(rx_queue)) /\ rx_queue' = Tail(rx_queue)
    /\ UNCHANGED <<rxv, rpc, rx_mutex, rx_running, rx_full, qpend, qpc, irq, nic,
                   up, stamp>>

\* Fault: the mutex is released before the queue is enabled.
QueueEmptyUnlocked ==
    /\ qpc = "drain" /\ rx_mutex = "free" /\ rx_queue = <<>>
    /\ qpc' = "enable"
    /\ UNCHANGED <<rxv, rpc, queue, irq, nic, up, input, stamp>>

\* "Leave mutex locked to prevent any enqueues, unlock in enable"
QueueEmpty ==
    /\ qpc = "drain" /\ rx_mutex = "free" /\ rx_queue = <<>>
    /\ rx_mutex' = "stack" /\ qpc' = "enable"
    /\ UNCHANGED <<rxv, rpc, rx_queue, rx_running, rx_full, qpend, irq, nic,
                   up, input, stamp>>

\* Fault: the interrupt flow control left masked stays so.
EnableNothing ==
    /\ qpc = "enable"
    /\ qpc' = "done"
    /\ skipped' = (skipped \/ (~running /\ rx_full))
    /\ UNCHANGED <<rxv, rpc, queue, irq, nic, running, input, stamp>>

\* Unmask the interrupt flow control left masked, if the interface is up ...
EnableInterrupt ==
    /\ qpc = "enable"
    /\ rfien' = (rfien \/ (running /\ rx_full))
    /\ rdar' = (rdar \/ (running /\ rx_full))
    /\ skipped' = (skipped \/ (~running /\ rx_full))
    /\ qpc' = "done"
    /\ UNCHANGED <<rxv, rpc, queue, rfint, isr, pulses, hw, wire, running, input,
                   stamp>>

\* ... and let the receive thread enqueue again.
EnableDone ==
    /\ qpc = "done"
    /\ rx_full' = FALSE /\ rx_running' = FALSE /\ rx_mutex' = "free"
    /\ qpc' = "idle"
    /\ UNCHANGED <<rxv, rpc, rx_queue, qpend, irq, nic, up, input, stamp>>

-----------------------------------------------------------------------------
(* mx6q_stop and mx6q_init, as far as the receive side goes: they leave    *)
(* the ring, the queue and the interrupt mask alone.                       *)

Stop ==
    /\ running
    /\ running' = FALSE
    /\ UNCHANGED <<rxv, rpc, queue, qpc, irq, nic, skipped, input, stamp>>

\* Fault: bringing the interface up unmasks the interrupt.
InitUpUnmasks ==
    /\ ~running
    /\ running' = TRUE /\ rdar' = TRUE /\ rfien' = TRUE
    /\ UNCHANGED <<rxv, rpc, queue, qpc, rfint, isr, pulses, skipped, hw, wire, input,
                   stamp>>

InitUp ==
    /\ ~running
    /\ running' = TRUE /\ rdar' = TRUE
    /\ UNCHANGED <<rxv, rpc, queue, qpc, irq, skipped, hw, wire, input, stamp>>

-----------------------------------------------------------------------------
RxThread == RxPulse \/ RxError \/ RxFragment \/ RxStamp \/ RxAvb \/ RxEnqueue
            \/ RxEmpty \/ RxUnmask
QueueThread == QueueRun \/ QueueDequeue \/ QueueEmpty
               \/ EnableInterrupt \/ EnableDone
NicStep == NicReceive \/ NicFull
Isr == IsrRead \/ IsrRx

\* The interface stays up and mbufs never run out.
NextUp == NicStep \/ Isr \/ RxThread \/ QueueThread

\* ... mbufs may run out ...
NextScarce == NextUp \/ RxNoMbuf

\* ... the interface may be stopped and brought up again ...
NextDown == NextUp \/ Stop \/ InitUp

\* ... and both.
Next == NextScarce \/ Stop \/ InitUp

SpecUp == Init /\ [][NextUp]_vars
SpecScarce == Init /\ [][NextScarce]_vars
SpecDown == Init /\ [][NextDown]_vars
Spec == Init /\ [][Next]_vars

\* Interrupts are delivered and both threads are scheduled; the two compete
\* for rx_mutex, which is handed out fairly.
FairSpecScarce == /\ SpecScarce
                  /\ WF_vars(NicStep) /\ WF_vars(Isr)
                  /\ SF_vars(RxThread \/ RxNoMbuf) /\ SF_vars(QueueThread)

-----------------------------------------------------------------------------
(* Properties                                                              *)

\* Every variable holds a value of its kind.
TypeOK ==
    /\ bd \in [Idx -> [e : BOOLEAN, l : BOOLEAN, err : BOOLEAN, d : Frags,
                       ts : 0..MaxFrames]]
    /\ rx_cidx \in Idx /\ hw \in Idx
    /\ rpkt \in Seq(Frags) /\ rx_queue \in Seq(Seq(Frags))
    /\ input \in Seq(Seq(Frags))
    /\ rpc \in {"wait", "receive", "stamp", "deliver", "unmask"}
    /\ pulses \in Nat
    /\ rx_mutex \in {"free", "stack"}
    /\ qpc \in {"idle", "drain", "enable", "done"}
    /\ {rx_running, rx_full, qpend, rfien, rfint, isr, rdar, running, skipped} \subseteq BOOLEAN
    /\ wire \in (1..(MaxFrames + 1)) \X (1..MaxParts)
    /\ stamp \in (0..MaxFrames) \X (0..MaxFrames)

IsWhole(p) == \A k \in DOMAIN p : p[k] = <<p[1][1], k>>

\* Every packet given to the stack is one frame from its first fragment on:
\* the parts of a frame that could not be received whole are "discard[ed] all".
WholeFrames == \A i \in DOMAIN input : IsWhole(input[i])

\* Frames that take the same path to the stack arrive there in the order of
\* the wire: an AVB frame may overtake queued packets, nothing else may.
InOrder ==
    \A i, j \in DOMAIN input :
        (i < j /\ (input[i][1][1] \in Avb <=> input[j][1][1] \in Avb))
            => input[i][1][1] < input[j][1][1]

\* While the receive interrupt is unmasked the receive thread is waiting and
\* has no pulse to come: whoever unmasks it, the thread never runs mx6q_receive
\* with the interrupt enabled.
MaskedWhileReceiving == rfien => (rpc = "wait" /\ pulses = 0)

\* A queued packet has someone to take it off: rx_running is reset only with
\* the queue known to be empty.
QueuedHasRunner ==
    (rx_queue # <<>> /\ rx_mutex = "free") => (qpend \/ qpc = "drain")

\* With nobody left to unmask the receive interrupt, it is unmasked: the
\* reception that flow control ended with the interrupt masked (rx_full) finds
\* it unmasked when the queue is drained, whatever stops and inits come in
\* between.  That fails once mx6q_enable_queue has found the interface down
\* (event.c:54): it skips the unmasking, rx_full is cleared all the same, and
\* mx6q_init does not make up for it.
Rearmed ==
    ~skipped =>
      ((rpc = "wait" /\ pulses = 0 /\ qpc = "idle" /\ ~qpend) => rfien)

\* When everyone is at rest and no interrupt is pending, no complete frame is
\* left in the ring.
NothingLeftBehind ==
    (rpc = "wait" /\ pulses = 0 /\ qpc = "idle" /\ ~qpend /\ ~rfint)
        => \A i \in Idx : bd[i].e \/ bd[i].d[1] = wire[1]

\* A packet's time stamp is its own frame's.
StampOwn == stamp[1] = stamp[2]

\* Every frame in the ring is taken out of it: without flow control neither
\* the interrupt mask nor the stopped DMA holds a frame up for ever.
RingServed == \A i \in Idx : ~bd[i].e ~> bd[i].e
=============================================================================
