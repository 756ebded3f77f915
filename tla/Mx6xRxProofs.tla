---------------------------- MODULE Mx6xRxProofs ----------------------------
(***************************************************************************)
(* Theorems about Mx6xRx, for every ring size, queue length, number of     *)
(* frames and fragments, and with or without flow control.                 *)
(***************************************************************************)
EXTENDS Mx6xRx, TLAPS

\* Whoever will next let the receive interrupt through is the only one: the
\* interrupt itself (rfien), a pulse, the receive thread, or, after flow
\* control has stopped reception, the stack thread in mx6q_enable_queue.
Tokens ==
    /\ rpc \in {"wait", "receive", "stamp", "deliver", "unmask"}
    /\ pulses \in {0, 1}
    /\ rfien \in BOOLEAN /\ rx_full \in BOOLEAN
    /\ rfien => (rpc = "wait" /\ pulses = 0)
    /\ rpc # "wait" => pulses = 0
    /\ (rx_full /\ qpc # "done") => (rpc = "wait" /\ pulses = 0 /\ ~rfien)

\* rx_mutex stays with the stack thread from the moment it finds the queue
\* empty; rx_running says that the stack thread has been called.
HandOver ==
    /\ qpc \in {"idle", "drain", "enable", "done"}
    /\ rx_mutex \in {"free", "stack"}
    /\ rx_running \in BOOLEAN /\ qpend \in BOOLEAN
    /\ rx_mutex = "stack" <=> qpc \in {"enable", "done"}
    /\ rx_mutex = "stack" => rx_queue = <<>>
    /\ rx_queue # <<>> => (qpend \/ qpc = "drain")
    /\ rx_running <=> (qpend \/ qpc # "idle")
    /\ qpend => qpc = "idle"

RxInv == Tokens /\ HandOver

\* The start of the driver satisfies the invariant.
LEMMA InitRxInv == Init => RxInv
BY DEF Init, RxInv, Tokens, HandOver

\* Enqueueing keeps the hand-over sound.
LEMMA HandOffKeeps ==
    ASSUME HandOver, RxEnqueue
    PROVE  HandOver'
<1> DEFINE room == Len(rx_queue) < QMax
           q == IF room THEN Append(rx_queue, rpkt) ELSE rx_queue
           stop == FlowTx /\ Len(q) >= QMax - 1
<1>1. /\ rpc = "deliver" /\ rx_mutex = "free"
      /\ rx_queue' = q /\ HandOff(room)
      /\ rx_mutex' = rx_mutex /\ qpc' = qpc
  BY DEF RxEnqueue
<1>2. CASE room
  <2>1. /\ rx_running' = TRUE
        /\ (qpend' = TRUE /\ ~rx_running) \/ (rx_running /\ qpend' = qpend)
    BY <1>1, <1>2 DEF HandOff, HandOver
  <2>2. (qpend' \/ qpc # "idle") /\ (qpend' => qpc = "idle") /\ qpend' \in BOOLEAN
    <3>1. CASE qpend' = TRUE /\ ~rx_running
      BY <3>1, Zenon DEF HandOver
    <3>2. CASE rx_running /\ qpend' = qpend
      BY <3>2, Zenon DEF HandOver
    <3> QED BY <2>1, <3>1, <3>2
  <2>3. qpc \in {"idle", "drain"}
    BY <1>1 DEF HandOver
  <2>4. rx_mutex' = "free" /\ qpc' = qpc /\ rx_running' = TRUE
    BY <1>1, <2>1
  <2>5. qpend' \/ qpc = "drain"
    BY <2>2, <2>3
  <2> QED
    BY <2>2, <2>3, <2>4, <2>5 DEF HandOver
<1>3. CASE ~room
  BY <1>1, <1>3 DEF HandOff, HandOver
<1> QED BY <1>2, <1>3

\* Every step of every thread, of the interrupt handler and of the NIC keeps
\* the invariant, with the interface going down and up as it may.
LEMMA NextRxInv == RxInv /\ [Next]_vars => RxInv'
<1> SUFFICES ASSUME RxInv, [Next]_vars
             PROVE  RxInv'
  OBVIOUS
<1> USE DEF RxInv
<1>1. CASE NicStep
  BY <1>1 DEF NicStep, NicReceive, NicFull, queue, irq, rxv, Tokens, HandOver
<1>2. CASE Isr
  <2>1. UNCHANGED <<rpc, queue, qpc>>
    BY <1>2 DEF Isr, IsrRead, IsrRx
  <2>2. HandOver'
    BY <2>1 DEF HandOver, queue
  <2>3. CASE UNCHANGED <<rfien, pulses>>
    BY <2>1, <2>2, <2>3 DEF Tokens, queue
  <2>4. CASE ~UNCHANGED <<rfien, pulses>>
    <3>1. rfien /\ rfien' = FALSE /\ pulses' = pulses + 1
      BY <1>2, <2>4 DEF Isr, IsrRead, IsrRx, Tokens
    <3>2. rpc = "wait" /\ pulses = 0 /\ ~(rx_full /\ qpc # "done")
      BY <3>1 DEF Tokens
    <3>3. pulses' = 1
      BY <3>1, <3>2
    <3>4. Tokens'
      BY <2>1, <3>1, <3>2, <3>3, Zenon DEF Tokens, queue
    <3> QED BY <2>2, <3>4
  <2> QED BY <2>3, <2>4
<1>3. CASE RxThread
  <2>1. CASE RxPulse
    BY <2>1 DEF RxPulse, queue, rxv, nic, Tokens, HandOver
  <2>2. CASE RxError \/ RxFragment
    BY <2>2 DEF RxError, RxFragment, Took, queue, irq, Tokens, HandOver
  <2>3. CASE RxStamp \/ RxAvb
    BY <2>3 DEF RxStamp, RxAvb, queue, irq, Tokens, HandOver
  <2>4. CASE RxEnqueue
    <3>1. Tokens'
      <4>1. /\ rpc = "deliver" /\ rx_mutex = "free"
            /\ rpc' \in {"wait", "receive"}
            /\ rx_full' \in BOOLEAN
            /\ (rpc' # "wait" => rx_full' = rx_full)
            /\ qpc' = qpc /\ rfien' = rfien /\ pulses' = pulses
        BY <2>4 DEF RxEnqueue, irq, Tokens
      <4>2. qpc # "done"
        BY <4>1 DEF HandOver
      <4> QED BY <4>1, <4>2 DEF Tokens
    <3>2. HandOver'
      BY <2>4, HandOffKeeps
    <3> QED BY <3>1, <3>2
  <2>5. CASE RxEmpty
    BY <2>5 DEF RxEmpty, queue, irq, Tokens, HandOver
  <2>6. CASE RxUnmask
    <3>1. /\ rpc = "unmask" /\ rpc' = "wait" /\ rfien' = TRUE
          /\ pulses' = pulses /\ UNCHANGED <<queue, qpc>>
      BY <2>6 DEF RxUnmask
    <3>2. pulses = 0 /\ ~(rx_full /\ qpc # "done")
      BY <3>1 DEF Tokens
    <3>3. Tokens'
      BY <3>1, <3>2, Zenon DEF Tokens, queue
    <3>4. HandOver'
      BY <3>1 DEF HandOver, queue
    <3> QED BY <3>3, <3>4
  <2> QED BY <1>3, <2>1, <2>2, <2>3, <2>4, <2>5, <2>6 DEF RxThread
<1>4. CASE QueueThread
  <2>1. CASE QueueRun
    BY <2>1 DEF QueueRun, irq, Tokens, HandOver
  <2>2. CASE QueueDequeue
    BY <2>2 DEF QueueDequeue, irq, Tokens, HandOver
  <2>3. CASE QueueEmpty
    BY <2>3 DEF QueueEmpty, irq, Tokens, HandOver
  <2>4. CASE EnableInterrupt
    <3>1. /\ qpc = "enable" /\ qpc' = "done"
          /\ rfien' = (rfien \/ (running /\ rx_full))
          /\ UNCHANGED <<rpc, pulses, queue>>
      BY <2>4 DEF EnableInterrupt
    <3>2. rx_full => (rpc = "wait" /\ pulses = 0)
      BY <3>1 DEF Tokens
    <3>3. Tokens'
      BY <3>1, <3>2, Zenon DEF Tokens, queue
    <3>4. HandOver'
      BY <3>1 DEF HandOver, queue
    <3> QED BY <3>3, <3>4
  <2>5. CASE EnableDone
    BY <2>5 DEF EnableDone, irq, Tokens, HandOver
  <2> QED BY <1>4, <2>1, <2>2, <2>3, <2>4, <2>5 DEF QueueThread
<1>5. CASE RxNoMbuf
  BY <1>5 DEF RxNoMbuf, Took, queue, irq, Tokens, HandOver
<1>6. CASE Stop \/ InitUp
  BY <1>6 DEF Stop, InitUp, queue, irq, Tokens, HandOver
<1>7. CASE UNCHANGED vars
  BY <1>7 DEF vars, Tokens, HandOver
<1> QED
  BY <1>1, <1>2, <1>3, <1>4, <1>5, <1>6, <1>7 DEF Next, NextScarce, NextUp

\* The invariant holds of every behaviour of the driver.
THEOREM RxInvariant == Spec => []RxInv
BY InitRxInv, NextRxInv, PTL DEF Spec

\* The receive interrupt is never unmasked while the receive thread is in
\* mx6q_receive or has a pulse to come, whether the receive thread unmasks it
\* or mx6q_enable_queue does, and whenever the interface goes down or up.
THEOREM RxMaskedWhileReceiving == Spec => []MaskedWhileReceiving
<1>1. RxInv => MaskedWhileReceiving
  BY DEF RxInv, Tokens, MaskedWhileReceiving
<1> QED BY <1>1, RxInvariant, PTL

\* A packet on rx_queue always has the stack thread called or draining, so
\* leaving rx_mutex locked from the empty queue to the reset of rx_running
\* closes the window for a lost hand-over.
THEOREM RxQueuedHasRunner == Spec => []QueuedHasRunner
<1>1. RxInv => QueuedHasRunner
  BY DEF RxInv, HandOver, QueuedHasRunner
<1> QED BY <1>1, RxInvariant, PTL

\* Somebody can always let the receive interrupt through, unless
\* mx6q_enable_queue has found the interface down.
SomeToken ==
    /\ ~skipped => rfien \/ pulses = 1 \/ rpc # "wait" \/ (rx_full /\ qpc # "done")
    /\ rx_full => rx_running
    /\ skipped \in BOOLEAN

\* No step loses the last of them, those of stop and init included.
LEMMA NextSomeToken ==
    ASSUME RxInv, SomeToken, [Next]_vars
    PROVE  SomeToken'
<1> USE DEF RxInv, SomeToken
<1>1. CASE NicStep
  <2>1. UNCHANGED <<rfien, pulses, rpc, rx_full, qpc, rx_running, skipped>>
    BY <1>1 DEF NicStep, NicReceive, NicFull, queue, irq, up
  <2> QED BY <2>1
<1>2. CASE Isr
  <2>1. UNCHANGED <<rpc, rx_full, qpc, rx_running, skipped>>
    BY <1>2 DEF Isr, IsrRead, IsrRx, queue, up
  <2>2. UNCHANGED <<rfien, pulses>> \/ (rfien /\ pulses' = pulses + 1)
    BY <1>2 DEF Isr, IsrRead, IsrRx, Tokens
  <2>3. rfien => pulses = 0
    BY DEF Tokens
  <2> QED BY <2>1, <2>2, <2>3
<1>3. CASE RxThread \/ RxNoMbuf
  <2>1. CASE RxPulse
    BY <2>1 DEF RxPulse, queue, up
  <2>2. CASE RxError \/ RxFragment \/ RxStamp \/ RxAvb \/ RxNoMbuf
    <3>1. rpc' # "wait" /\ UNCHANGED <<rx_full, rx_running, skipped>>
      BY <2>2 DEF RxError, RxFragment, RxStamp, RxAvb, RxNoMbuf, Took, queue, up
    <3> QED BY <3>1
  <2>3. CASE RxEnqueue
    <3>1. /\ skipped' = skipped /\ qpc' = qpc
          /\ rx_mutex = "free" /\ rpc = "deliver"
          /\ rpc' = "wait" => rx_full'
          /\ rpc' \in {"wait", "receive"}
      BY <2>3 DEF RxEnqueue, up
    <3>2. qpc # "done"
      BY <3>1 DEF HandOver
    <3>3. rx_full' => rx_running'
      <4> DEFINE room == Len(rx_queue) < QMax
      <4>1. HandOff(room) /\ rx_running \in BOOLEAN
        BY <2>3 DEF RxEnqueue, HandOver
      <4>2. CASE room
        BY <4>1, <4>2 DEF HandOff
      <4>3. CASE ~room
        <5>1. rx_running' = rx_running
          BY <4>1, <4>3 DEF HandOff
        <5>2. CASE rx_queue = <<>>
          <6>1. FALSE
            BY <4>3, <5>2, RxAssumption
          <6> QED BY <6>1
        <5>3. CASE rx_queue # <<>>
          BY <5>1, <5>3 DEF HandOver
        <5> QED BY <5>2, <5>3
      <4> QED BY <4>2, <4>3
    <3> QED BY <3>1, <3>2, <3>3
  <2>4. CASE RxEmpty \/ RxUnmask
    <3>1. (rpc' # "wait" \/ rfien') /\ UNCHANGED <<rx_full, rx_running, skipped>>
      BY <2>4 DEF RxEmpty, RxUnmask, queue, up
    <3> QED BY <3>1
  <2> QED BY <1>3, <2>1, <2>2, <2>3, <2>4 DEF RxThread
<1>4. CASE QueueThread
  <2>1. CASE QueueRun \/ QueueDequeue \/ QueueEmpty
    <3>1. /\ qpc # "done" /\ qpc' # "done"
          /\ UNCHANGED <<rfien, pulses, rpc, rx_full, rx_running, skipped>>
      BY <2>1 DEF QueueRun, QueueDequeue, QueueEmpty, irq, up
    <3> QED BY <3>1
  <2>2. CASE EnableInterrupt
    <3>1. /\ qpc = "enable" /\ UNCHANGED <<rpc, pulses, rx_full, rx_running>>
          /\ rfien' = (rfien \/ (running /\ rx_full))
          /\ skipped' = (skipped \/ (~running /\ rx_full))
      BY <2>2 DEF EnableInterrupt, queue
    <3>2. skipped' \in BOOLEAN
      BY <3>1, Zenon
    <3>3. ASSUME ~skipped'
          PROVE  rfien' \/ pulses' = 1 \/ rpc' # "wait"
      <4>1. ~skipped /\ (rx_full => running)
        BY <3>1, <3>3
      <4> QED BY <3>1, <4>1
    <3> QED BY <3>1, <3>2, <3>3
  <2>3. CASE EnableDone
    BY <2>3 DEF EnableDone, irq, Tokens, HandOver, up
  <2> QED BY <1>4, <2>1, <2>2, <2>3 DEF QueueThread
<1>5. CASE Stop \/ InitUp \/ UNCHANGED vars
  BY <1>5 DEF Stop, InitUp, vars, queue, irq
<1> QED BY <1>1, <1>2, <1>3, <1>4, <1>5 DEF Next, NextScarce, NextUp

\* Flow control never leaves the receive interrupt masked with nobody to
\* unmask it, whenever the interface goes down and up and mbufs run out, as
\* long as mx6q_enable_queue has not found the interface down.
THEOREM RxRearmed == Spec => []Rearmed
<1>1. Init => SomeToken
  BY DEF Init, SomeToken
<1>2. RxInv /\ SomeToken /\ [Next]_vars => SomeToken'
  BY NextSomeToken
<1>3. RxInv /\ SomeToken => Rearmed
  BY DEF RxInv, Tokens, HandOver, SomeToken, Rearmed
<1> QED BY <1>1, <1>2, <1>3, RxInvariant, PTL DEF Spec

-----------------------------------------------------------------------------
(* The ring: the occupied descriptors are those from the consumer index up *)
(* to the NIC's, and follow each other as the fragments did on the wire.   *)

\* Indexes go round the ring.
LEMMA NextRxValue ==
    ASSUME NEW x \in Idx
    PROVE  /\ NEXT_RX(x) = IF x = N - 1 THEN 0 ELSE x + 1
           /\ NEXT_RX(x) \in Idx
<1>1. N \in Nat \ {0} /\ x \in 0..(N - 1)
  BY RxAssumption DEF Idx
<1>2. CASE x = N - 1
  BY <1>1, <1>2 DEF NEXT_RX, Idx
<1>3. CASE x # N - 1
  <2>1. x + 1 \in 0..(N - 1)
    BY <1>1, <1>3
  <2>2. (x + 1) % N = x + 1
    BY <1>1, <2>1
  <2> QED BY <1>1, <1>3, <2>1, <2>2 DEF NEXT_RX, Idx
<1> QED BY <1>2, <1>3

\* The way from index a forward to index b.
Dist(a, b) == IF b >= a THEN b - a ELSE b - a + N

\* A packet that is complete and not delivered yet.
Complete == rpc \in {"stamp", "deliver"}

\* The types, and a complete packet has a last fragment.
TypeInv == TypeOK /\ (Complete => rpkt # <<>>)

\* The fragment that follows descriptor i on the wire.
Follow(i) == IF bd[i].l THEN <<bd[i].d[1] + 1, 1>>
                        ELSE <<bd[i].d[1], bd[i].d[2] + 1>>

\* The fragment the receive thread comes to next, whether it has arrived or not.
Front == IF Here.e THEN wire ELSE Here.d

RingOK ==
    /\ Here.e => hw = rx_cidx
    /\ \A i \in Idx :
         ~bd[i].e <=> (/\ ~Here.e
                       /\ \/ hw = rx_cidx
                          \/ Dist(rx_cidx, i) < Dist(rx_cidx, hw))

ChainOK ==
    \A i \in Idx : ~bd[i].e =>
        /\ bd[i].err => bd[i].l
        /\ NEXT_RX(i) = hw => wire = Follow(i)
        /\ NEXT_RX(i) # hw => bd[NEXT_RX(i)].d = Follow(i)

\* The start satisfies all of it.
LEMMA InitRing == Init => TypeInv /\ RingOK /\ ChainOK
<1> SUFFICES ASSUME Init PROVE TypeInv /\ RingOK /\ ChainOK
  OBVIOUS
<1>1. N \in Nat \ {0} /\ MaxFrames \in Nat /\ MaxParts \in Nat \ {0} /\ 0 \in Idx
  BY RxAssumption DEF Idx
<1>2. EmptyBd \in [e : BOOLEAN, l : BOOLEAN, err : BOOLEAN, d : Frags,
                   ts : 0..MaxFrames]
  BY <1>1 DEF EmptyBd, Nothing, Frags
<1>3. \A i \in Idx : bd[i] = EmptyBd /\ bd[i].e
  BY DEF Init, EmptyBd
<1>4. bd \in [Idx -> [e : BOOLEAN, l : BOOLEAN, err : BOOLEAN, d : Frags,
                     ts : 0..MaxFrames]]
  BY <1>2 DEF Init
<1>5. rpkt \in Seq(Frags) /\ rx_queue \in Seq(Seq(Frags)) /\ input \in Seq(Seq(Frags))
  BY DEF Init
<1>6. /\ wire \in (1..(MaxFrames + 1)) \X (1..MaxParts)
      /\ stamp \in (0..MaxFrames) \X (0..MaxFrames)
  BY <1>1 DEF Init
<1>7. {rx_running, rx_full, qpend, rfien, rfint, rdar, running} \subseteq BOOLEAN
  BY DEF Init
<1>8. TypeOK
  BY <1>1, <1>4, <1>5, <1>6, <1>7 DEF Init, TypeOK
<1> QED BY <1>1, <1>3, <1>8 DEF Init, TypeInv, Complete, RingOK, ChainOK, Here

\* The receive thread gives the descriptor at rx_cidx back and goes on.
Take == /\ ~Here.e
        /\ mx6q_add_pkt /\ rx_cidx' = NEXT_RX(rx_cidx)
        /\ UNCHANGED <<hw, wire>>

\* What that changes: the one descriptor.
LEMMA TakeEffect ==
    ASSUME TypeInv, Take
    PROVE  /\ bd' \in [Idx -> [e : BOOLEAN, l : BOOLEAN, err : BOOLEAN, d : Frags,
                               ts : 0..MaxFrames]]
           /\ rx_cidx' \in Idx
           /\ bd'[rx_cidx].e
           /\ \A i \in Idx : i # rx_cidx => bd'[i] = bd[i]
<1>1. /\ bd \in [Idx -> [e : BOOLEAN, l : BOOLEAN, err : BOOLEAN, d : Frags,
                         ts : 0..MaxFrames]]
      /\ rx_cidx \in Idx
  BY DEF TypeInv, TypeOK
<1>2. MaxFrames \in Nat /\ MaxParts \in Nat
  BY RxAssumption
<1>3. Nothing \in Frags
  BY <1>2 DEF Nothing, Frags
<1>4. /\ [EmptyBd EXCEPT !.ts = Here.ts]
           \in [e : BOOLEAN, l : BOOLEAN, err : BOOLEAN, d : Frags, ts : 0..MaxFrames]
      /\ [EmptyBd EXCEPT !.ts = Here.ts].e
  BY <1>1, <1>3 DEF EmptyBd, Here
<1>5. bd' = [bd EXCEPT ![rx_cidx] = [EmptyBd EXCEPT !.ts = Here.ts]]
  BY DEF Take, mx6q_add_pkt
<1>6. rx_cidx' \in Idx
  BY <1>1, NextRxValue DEF Take
<1> QED BY <1>1, <1>4, <1>5, <1>6

\* It keeps the ring in order, and the next fragment is the one that follows.
LEMMA RingTake ==
    ASSUME TypeInv, RingOK, ChainOK, Take
    PROVE  RingOK' /\ ChainOK' /\ Front' = Follow(rx_cidx)
<1> DEFINE c == rx_cidx
           n == NEXT_RX(rx_cidx)
<1>1. /\ N \in Nat \ {0} /\ c \in 0..(N - 1) /\ hw \in 0..(N - 1) /\ c \in Idx
      /\ n \in 0..(N - 1) /\ n \in Idx /\ n = IF c = N - 1 THEN 0 ELSE c + 1
      /\ Idx = 0..(N - 1)
  BY RxAssumption, NextRxValue DEF TypeInv, TypeOK, Idx
<1>2. /\ rx_cidx' = n /\ hw' = hw /\ wire' = wire /\ ~bd[c].e
      /\ bd'[c].e /\ \A i \in Idx : i # c => bd'[i] = bd[i]
  BY TakeEffect DEF Take, Here
<1>3. \A i \in Idx : ~bd[i].e <=> (hw = c \/ Dist(c, i) < Dist(c, hw))
  BY <1>2 DEF RingOK, Here
<1>4. ~bd'[n].e <=> (N # 1 /\ n # hw)
  BY <1>1, <1>2, <1>3 DEF Dist
<1>5. \A i \in Idx : ~bd'[i].e <=> (i # c /\ (hw = c \/ Dist(c, i) < Dist(c, hw)))
  BY <1>2, <1>3
<1>6. \A i \in Idx : (i # c /\ (hw = c \/ Dist(c, i) < Dist(c, hw)))
                        <=> (N # 1 /\ n # hw /\ Dist(n, i) < Dist(n, hw))
  BY <1>1 DEF Dist
<1>7. RingOK'
  <2>1. bd'[n].e => hw = n
    BY <1>1, <1>4
  <2>2. N # 1 => (n # c)
    BY <1>1
  <2>3. \A i \in Idx : ~bd'[i].e <=> (~bd'[n].e /\ (hw = n \/ Dist(n, i) < Dist(n, hw)))
    BY <1>4, <1>5, <1>6
  <2> QED BY <1>2, <2>1, <2>3 DEF RingOK, Here, Dist
<1>8. ChainOK'
  <2> SUFFICES ASSUME NEW i \in Idx, ~bd'[i].e
               PROVE  /\ bd'[i].err => bd'[i].l
                      /\ NEXT_RX(i) = hw => wire = Follow(i)'
                      /\ NEXT_RX(i) # hw => bd'[NEXT_RX(i)].d = Follow(i)'
    BY <1>2 DEF ChainOK, NEXT_RX
  <2>1. i # c /\ bd'[i] = bd[i] /\ ~bd[i].e
    BY <1>2
  <2>2. Follow(i)' = Follow(i)
    BY <2>1 DEF Follow
  <2>3. /\ bd[i].err => bd[i].l
        /\ NEXT_RX(i) = hw => wire = Follow(i)
        /\ NEXT_RX(i) # hw => bd[NEXT_RX(i)].d = Follow(i)
    BY <2>1 DEF ChainOK
  <2>4. NEXT_RX(i) # hw => NEXT_RX(i) # c
    <3>1. hw = c \/ Dist(c, i) < Dist(c, hw)
      BY <1>3, <2>1
    <3>2. NEXT_RX(i) = IF i = N - 1 THEN 0 ELSE i + 1
      BY NextRxValue
    <3> QED BY <1>1, <3>1, <3>2 DEF Dist
  <2>5. NEXT_RX(i) \in Idx
    BY NextRxValue
  <2> QED BY <1>2, <2>1, <2>2, <2>3, <2>4, <2>5
<1>9. Front' = Follow(c)
  <2>1. Front' = IF bd'[n].e THEN wire ELSE bd'[n].d
    BY <1>2 DEF Front, Here
  <2>2. /\ n = hw => wire = Follow(c)
        /\ n # hw => bd[n].d = Follow(c)
    BY <1>1, <1>2 DEF ChainOK
  <2>3. CASE bd'[n].e
    <3>1. n = hw
      BY <1>1, <1>4, <2>3
    <3> QED BY <2>1, <2>2, <2>3, <3>1
  <2>4. CASE ~bd'[n].e
    <3>1. n # hw /\ n # c
      BY <1>2, <1>4, <2>4
    <3> QED BY <1>1, <1>2, <2>1, <2>2, <2>4, <3>1
  <2> QED BY <2>3, <2>4
<1> QED BY <1>7, <1>8, <1>9

\* What the NIC changes when it receives a fragment: its descriptor, and what
\* comes next on the wire.
LEMMA ReceiveEffect ==
    ASSUME TypeInv, NicReceive
    PROVE  /\ bd' \in [Idx -> [e : BOOLEAN, l : BOOLEAN, err : BOOLEAN, d : Frags,
                               ts : 0..MaxFrames]]
           /\ wire' \in (1..(MaxFrames + 1)) \X (1..MaxParts)
           /\ hw' = NEXT_RX(hw) /\ hw' \in Idx
           /\ bd[hw].e /\ ~bd'[hw].e /\ bd'[hw].d = wire
           /\ bd'[hw].err => bd'[hw].l
           /\ \A h \in Idx : h = hw => wire' = Follow(h)'
           /\ \A i \in Idx : i # hw => bd'[i] = bd[i]
           /\ rfint' \in BOOLEAN
           /\ (~rfint' => (~rfint /\ wire'[1] = wire[1]))
<1>1. /\ bd \in [Idx -> [e : BOOLEAN, l : BOOLEAN, err : BOOLEAN, d : Frags,
                         ts : 0..MaxFrames]]
      /\ hw \in Idx /\ rfint \in BOOLEAN
      /\ wire \in (1..(MaxFrames + 1)) \X (1..MaxParts)
  BY DEF TypeInv, TypeOK
<1>2. MaxFrames \in Nat /\ MaxParts \in Nat \ {0}
  BY RxAssumption
<1>3. PICK last \in BOOLEAN, err \in BOOLEAN :
         /\ wire[2] = MaxParts => last
         /\ err => last
         /\ bd' = [bd EXCEPT ![hw] = [e |-> FALSE, l |-> last, err |-> err,
                                      d |-> wire,
                                      ts |-> IF last THEN wire[1] ELSE @.ts]]
         /\ rfint' = (rfint \/ last)
         /\ wire' = IF last THEN <<wire[1] + 1, 1>> ELSE <<wire[1], wire[2] + 1>>
  BY DEF NicReceive
<1>4. wire[1] <= MaxFrames /\ bd[hw].e /\ hw' = NEXT_RX(hw)
  BY DEF NicReceive
<1>5. wire \in Frags /\ wire[1] \in 0..MaxFrames /\ wire[1] \in 1..MaxFrames
      /\ wire[2] \in 1..MaxParts
  BY <1>1, <1>2, <1>4 DEF Frags
<1> DEFINE r == [e |-> FALSE, l |-> last, err |-> err, d |-> wire,
                 ts |-> IF last THEN wire[1] ELSE bd[hw].ts]
<1>6. r \in [e : BOOLEAN, l : BOOLEAN, err : BOOLEAN, d : Frags, ts : 0..MaxFrames]
  BY <1>1, <1>5
<1>7. bd' = [bd EXCEPT ![hw] = r]
  BY <1>3
<1>8. bd'[hw] = r /\ \A i \in Idx : i # hw => bd'[i] = bd[i]
  BY <1>1, <1>7
<1>9. wire' \in (1..(MaxFrames + 1)) \X (1..MaxParts)
  BY <1>2, <1>3, <1>5
<1>10. hw' \in Idx
  BY <1>1, <1>4, NextRxValue
<1>11. wire' = IF bd'[hw].l THEN <<bd'[hw].d[1] + 1, 1>>
                            ELSE <<bd'[hw].d[1], bd'[hw].d[2] + 1>>
  BY <1>3, <1>8
<1>12. \A h \in Idx : h = hw => wire' = Follow(h)'
  BY <1>11 DEF Follow
<1>13. bd' \in [Idx -> [e : BOOLEAN, l : BOOLEAN, err : BOOLEAN, d : Frags,
                        ts : 0..MaxFrames]]
  BY <1>1, <1>6, <1>7
<1>14. ~rfint' => (~rfint /\ wire'[1] = wire[1])
  BY <1>3
<1> QED BY <1>1, <1>3, <1>4, <1>8, <1>9, <1>10, <1>12, <1>13, <1>14


\* The fragment extends the chain and does not change what comes next for the
\* receive thread.
LEMMA RingReceive ==
    ASSUME TypeInv, RingOK, ChainOK, NicReceive
    PROVE  RingOK' /\ ChainOK' /\ Front' = Front
<1> DEFINE c == rx_cidx
<1>1. /\ N \in Nat \ {0} /\ c \in 0..(N - 1) /\ hw \in 0..(N - 1)
      /\ c \in Idx /\ hw \in Idx /\ Idx = 0..(N - 1)
      /\ hw' = IF hw = N - 1 THEN 0 ELSE hw + 1
      /\ hw' \in Idx
  BY RxAssumption, NextRxValue, ReceiveEffect DEF TypeInv, TypeOK, Idx
<1>2. /\ rx_cidx' = c /\ bd[hw].e /\ ~bd'[hw].e /\ bd'[hw].d = wire
      /\ \A i \in Idx : i # hw => bd'[i] = bd[i]
      /\ hw' = NEXT_RX(hw)
      /\ bd'[hw].err => bd'[hw].l
      /\ \A h \in Idx : h = hw => wire' = Follow(h)'
  BY ReceiveEffect DEF NicReceive
<1>3. /\ bd[c].e => hw = c
      /\ \A i \in Idx : ~bd[i].e <=> (/\ ~bd[c].e
                                      /\ hw = c \/ Dist(c, i) < Dist(c, hw))
  BY DEF RingOK, Here
<1>4. ~bd'[c].e
  BY <1>1, <1>2, <1>3
<1>5. bd[c].e <=> hw = c
  BY <1>1, <1>2, <1>3
<1>6. RingOK'
  <2>1. \A i \in Idx : ~bd'[i].e <=> (i = hw \/ Dist(c, i) < Dist(c, hw))
    <3> SUFFICES ASSUME NEW i \in Idx
                 PROVE  ~bd'[i].e <=> (i = hw \/ Dist(c, i) < Dist(c, hw))
      OBVIOUS
    <3>1. CASE hw = c
      <4>1. ~(Dist(c, i) < Dist(c, hw))
        BY <1>1, <3>1 DEF Dist
      <4>2. bd[i].e
        BY <1>3, <1>5, <3>1
      <4> QED BY <1>2, <4>1, <4>2
    <3>2. CASE hw # c
      BY <1>2, <1>3, <1>5, <3>2
    <3> QED BY <3>1, <3>2
  <2>2. \A i \in Idx : (i = hw \/ Dist(c, i) < Dist(c, hw))
                           <=> (hw' = c \/ Dist(c, i) < Dist(c, hw'))
    BY <1>1 DEF Dist
  <2>3. \A i \in Idx : ~bd'[i].e <=> (~bd'[c].e /\ (hw' = c \/ Dist(c, i) < Dist(c, hw')))
    BY <1>4, <2>1, <2>2
  <2> QED BY <1>2, <1>4, <2>3 DEF RingOK, Here, Dist
<1>7. ChainOK'
  <2> SUFFICES ASSUME NEW i \in Idx, ~bd'[i].e
               PROVE  /\ bd'[i].err => bd'[i].l
                      /\ NEXT_RX(i) = hw' => wire' = Follow(i)'
                      /\ NEXT_RX(i) # hw' => bd'[NEXT_RX(i)].d = Follow(i)'
    BY DEF ChainOK, NEXT_RX
  <2>1. CASE i = hw
    BY <1>2, <2>1
  <2>2. CASE i # hw
    <3>1. bd'[i] = bd[i] /\ ~bd[i].e
      BY <1>2, <2>2
    <3>2. Follow(i)' = Follow(i)
      BY <3>1 DEF Follow
    <3>3. /\ bd[i].err => bd[i].l
          /\ NEXT_RX(i) = hw => wire = Follow(i)
          /\ NEXT_RX(i) # hw => bd[NEXT_RX(i)].d = Follow(i)
      BY <3>1 DEF ChainOK
    <3>4. NEXT_RX(i) # hw'
      <4>1. NEXT_RX(i) = IF i = N - 1 THEN 0 ELSE i + 1
        BY NextRxValue
      <4> QED BY <1>1, <2>2, <4>1
    <3>5. NEXT_RX(i) \in Idx
      BY NextRxValue
    <3>6. bd'[NEXT_RX(i)].d = Follow(i)
      BY <1>2, <3>3, <3>5
    <3> QED BY <3>1, <3>2, <3>3, <3>4, <3>6
  <2> QED BY <2>1, <2>2
<1>8. Front' = Front
  <2>1. Front' = bd'[c].d
    BY <1>2, <1>4 DEF Front, Here
  <2>2. CASE hw = c
    BY <1>2, <1>5, <2>1, <2>2 DEF Front, Here
  <2>3. CASE hw # c
    BY <1>1, <1>2, <1>5, <2>1, <2>3 DEF Front, Here
  <2> QED BY <2>2, <2>3
<1> QED BY <1>6, <1>7, <1>8

\* No other step touches the ring.
RingStill == UNCHANGED <<bd, rx_cidx, hw, wire>>

\* A step that leaves the ring alone keeps it in order.
LEMMA RingKeeps ==
    ASSUME RingOK, ChainOK, RingStill
    PROVE  RingOK' /\ ChainOK' /\ Front' = Front
BY DEF RingStill, RingOK, ChainOK, Front, Here, Follow, Dist, NEXT_RX

\* The steps that move no fragment: pulses, interrupts, masks, the DMA stopping,
\* the time stamp, the interface going up or down.
Still == /\ RingStill
         /\ UNCHANGED <<rpkt, rx_queue, input>>
         /\ Complete' <=> Complete

\* Every step moves a fragment or a packet, or nothing.
LEMMA DownKinds ==
    ASSUME [NextDown]_vars
    PROVE  \/ NicReceive \/ RxError \/ RxFragment
           \/ RxAvb \/ RxEnqueue \/ QueueDequeue
           \/ Still
<1> USE DEF Still, RingStill, Complete
<1>1. CASE NicFull \/ Isr
  BY <1>1 DEF NicFull, Isr, IsrRead, IsrRx, rxv, queue, nic
<1>2. CASE RxPulse \/ RxStamp \/ RxEmpty \/ RxUnmask
  BY <1>2 DEF RxPulse, RxStamp, RxEmpty, RxUnmask, rxv, queue, nic
<1>3. CASE QueueRun \/ QueueEmpty \/ EnableInterrupt \/ EnableDone
  BY <1>3 DEF QueueRun, QueueEmpty, EnableInterrupt, EnableDone, rxv, queue, nic
<1>4. CASE Stop \/ InitUp
  BY <1>4 DEF Stop, InitUp, rxv, queue, nic
<1>5. CASE UNCHANGED vars
  BY <1>5 DEF vars
<1> QED
  BY <1>1, <1>2, <1>3, <1>4, <1>5
     DEF NextDown, NextUp, NicStep, RxThread, QueueThread

\* With a shortage of mbufs there is one more.
LEMMA StepKinds ==
    ASSUME [Next]_vars
    PROVE  \/ NicReceive \/ RxError \/ RxNoMbuf \/ RxFragment
           \/ RxAvb \/ RxEnqueue \/ QueueDequeue
           \/ Still
BY DownKinds DEF Next, NextScarce, NextDown

\* A descriptor taken is one step of Take.
LEMMA TakeSteps ==
    ASSUME RxError \/ RxNoMbuf \/ RxFragment
    PROVE  Take
BY DEF RxError, RxNoMbuf, RxFragment, Take, Took, nic

\* Every step keeps the types.
LEMMA NextTypeInv ==
    ASSUME RxInv, TypeInv, [Next]_vars
    PROVE  TypeInv'
<1> DEFINE BdType == [Idx -> [e : BOOLEAN, l : BOOLEAN, err : BOOLEAN, d : Frags,
                              ts : 0..MaxFrames]]
<1>0. /\ bd \in BdType /\ rx_cidx \in Idx /\ hw \in Idx
      /\ rpkt \in Seq(Frags) /\ rx_queue \in Seq(Seq(Frags))
      /\ input \in Seq(Seq(Frags))
      /\ wire \in (1..(MaxFrames + 1)) \X (1..MaxParts)
      /\ rpc \in {"wait", "receive", "stamp", "deliver", "unmask"}
      /\ Complete => rpkt # <<>>
      /\ N \in Nat \ {0}
  BY RxAssumption DEF TypeInv, TypeOK
<1>1. bd' \in BdType /\ rx_cidx' \in Idx /\ hw' \in Idx
      /\ wire' \in (1..(MaxFrames + 1)) \X (1..MaxParts)
  <2>1. CASE NicReceive
    BY <1>0, <2>1, ReceiveEffect DEF NicReceive
  <2>2. CASE RxError \/ RxNoMbuf \/ RxFragment
    BY <1>0, <2>2, TakeSteps, TakeEffect DEF Take
  <2>3. CASE RxAvb \/ RxEnqueue \/ QueueDequeue \/ Still
    BY <1>0, <2>3 DEF RxAvb, RxEnqueue, QueueDequeue, Still, RingStill, nic, rxv
  <2> QED BY <2>1, <2>2, <2>3, StepKinds
<1>2. rpkt' \in Seq(Frags) /\ (Complete' => rpkt' # <<>>)
  <2>1. CASE NicReceive \/ QueueDequeue \/ Still
    <3>1. rpkt' = rpkt /\ (Complete' <=> Complete)
      BY <2>1 DEF NicReceive, QueueDequeue, Still, rxv, Complete
    <3> QED BY <1>0, <3>1
  <2>2. CASE RxError \/ RxNoMbuf \/ RxAvb \/ RxEnqueue
    <3>1. rpkt' = <<>>
      BY <2>2 DEF RxError, RxNoMbuf, RxAvb, RxEnqueue, DiscardPartial
    <3>2. rpc' \in {"wait", "receive"}
      BY <2>2 DEF RxError, RxNoMbuf, RxAvb, RxEnqueue, Took
    <3> QED BY <3>1, <3>2 DEF Complete
  <2>3. CASE RxFragment
    <3>1. rpkt' = Append(rpkt, Here.d) /\ Here.d \in Frags
      BY <1>0, <2>3 DEF RxFragment, Here
    <3> QED BY <1>0, <3>1
  <2> QED BY <2>1, <2>2, <2>3, StepKinds
<1>3. rx_queue' \in Seq(Seq(Frags))
  <2>1. CASE QueueDequeue
    BY <1>0, <2>1 DEF QueueDequeue
  <2>2. CASE RxEnqueue
    BY <1>0, <2>2 DEF RxEnqueue
  <2>3. CASE NicReceive \/ RxError \/ RxNoMbuf \/ RxFragment \/ RxAvb \/ Still
    BY <1>0, <2>3 DEF NicReceive, RxError, RxNoMbuf, RxFragment, RxAvb, Still, queue
  <2> QED BY <2>1, <2>2, <2>3, StepKinds
<1>4. input' \in Seq(Seq(Frags))
  <2>1. CASE QueueDequeue
    BY <1>0, <2>1 DEF QueueDequeue
  <2>2. CASE RxAvb
    BY <1>0, <2>2 DEF RxAvb
  <2>3. CASE NicReceive \/ RxError \/ RxNoMbuf \/ RxFragment \/ RxEnqueue \/ Still
    BY <1>0, <2>3 DEF NicReceive, RxError, RxNoMbuf, RxFragment, RxEnqueue, Still
  <2> QED BY <2>1, <2>2, <2>3, StepKinds
<1>5. stamp' \in (0..MaxFrames) \X (0..MaxFrames)
  <2>1. CASE RxStamp
    <3>1. Len(rpkt) \in 1..Len(rpkt) /\ rpkt[Len(rpkt)] \in Frags
      BY <1>0, <2>1 DEF RxStamp, Complete
    <3>2. PacketFrame \in 0..MaxFrames
      BY <3>1 DEF PacketFrame, Frags
    <3>3. (rx_cidx + N - 1) % N \in Idx
      BY <1>0 DEF Idx
    <3>4. bd[(rx_cidx + N - 1) % N].ts \in 0..MaxFrames
      BY <1>0, <3>3
    <3> QED BY <2>1, <3>2, <3>4 DEF RxStamp
  <2>2. CASE ~RxStamp
    <3>1. stamp' = stamp
      BY <2>2 DEF Next, NextScarce, NextUp, NicStep, RxThread, QueueThread, NicReceive,
         NicFull, Isr, IsrRead, IsrRx, RxPulse, RxError, RxFragment, RxAvb, RxEnqueue, RxEmpty,
         RxUnmask, QueueRun, QueueDequeue, QueueEmpty, EnableInterrupt, EnableDone,
         RxNoMbuf, Stop, InitUp, vars
    <3> QED BY <3>1 DEF TypeInv, TypeOK
  <2> QED BY <2>1, <2>2
<1>6. /\ rfint' \in BOOLEAN /\ rdar' \in BOOLEAN /\ running' \in BOOLEAN
      /\ isr' \in BOOLEAN /\ skipped' \in BOOLEAN
  <2>1. /\ rfint \in BOOLEAN /\ rdar \in BOOLEAN /\ running \in BOOLEAN
        /\ isr \in BOOLEAN /\ skipped \in BOOLEAN
    BY DEF TypeInv, TypeOK
  <2>2. CASE NicReceive
    BY <2>1, <2>2, ReceiveEffect DEF NicReceive, up
  <2>3. CASE ~NicReceive
    BY <2>1, <2>3 DEF Next, NextScarce, NextUp, NicStep, RxThread, QueueThread,
       NicFull, Isr, IsrRead, IsrRx, RxPulse, RxError, RxFragment, RxStamp, RxAvb, RxEnqueue, RxEmpty,
       RxUnmask, QueueRun, QueueDequeue, QueueEmpty, EnableInterrupt, EnableDone,
       RxNoMbuf, Stop, InitUp, vars, irq, nic, up
  <2> QED BY <2>2, <2>3
<1>7. RxInv'
  BY NextRxInv
<1>8. /\ {rx_running, rx_full, qpend, rfien, rfint, isr, rdar, running, skipped}' \subseteq BOOLEAN
      /\ rpc' \in {"wait", "receive", "stamp", "deliver", "unmask"}
      /\ pulses' \in Nat
      /\ rx_mutex' \in {"free", "stack"}
      /\ qpc' \in {"idle", "drain", "enable", "done"}
  <2>1. pulses' \in {0, 1}
    BY <1>7 DEF RxInv, Tokens
  <2>2. /\ rx_running' \in BOOLEAN /\ rx_full' \in BOOLEAN /\ qpend' \in BOOLEAN
        /\ rfien' \in BOOLEAN
        /\ rpc' \in {"wait", "receive", "stamp", "deliver", "unmask"}
        /\ rx_mutex' \in {"free", "stack"}
        /\ qpc' \in {"idle", "drain", "enable", "done"}
    BY <1>7 DEF RxInv, Tokens, HandOver
  <2> QED BY <1>6, <2>1, <2>2
<1> QED
  BY <1>1, <1>2, <1>3, <1>4, <1>5, <1>8 DEF TypeInv, TypeOK

\* The fragments in the ring.
RingInv == RxInv /\ TypeInv /\ RingOK /\ ChainOK

\* Every step keeps the ring in order.
LEMMA NextRingInv == RingInv /\ [Next]_vars => RingInv'
<1> SUFFICES ASSUME RingInv, [Next]_vars PROVE RingInv'
  OBVIOUS
<1>1. RxInv' /\ TypeInv'
  BY NextRxInv, NextTypeInv DEF RingInv
<1>2. CASE NicReceive
  BY <1>1, <1>2, RingReceive DEF RingInv
<1>3. CASE RxError \/ RxNoMbuf \/ RxFragment
  BY <1>1, <1>3, TakeSteps, RingTake DEF RingInv
<1>4. CASE RxAvb \/ RxEnqueue \/ QueueDequeue \/ Still
  <2>1. RingStill
    BY <1>4 DEF RxAvb, RxEnqueue, QueueDequeue, Still, RingStill, nic, rxv
  <2> QED BY <1>1, <2>1, RingKeeps DEF RingInv
<1> QED BY <1>2, <1>3, <1>4, StepKinds

\* In every state of every behaviour, stop, init and shortage included.
THEOREM RxRingInvariant == Spec => []RingInv
<1>1. Init => RingInv
  BY InitRxInv, InitRing DEF RingInv
<1> QED BY <1>1, NextRingInv, PTL DEF Spec

\* The ring, the indexes, the packet being put together and the queues hold
\* what they are for, whatever the NIC receives and whoever runs.
THEOREM RxTypeCorrect == Spec => []TypeOK
<1>1. RingInv => TypeOK
  BY DEF RingInv, TypeInv
<1> QED BY <1>1, RxRingInvariant, PTL

-----------------------------------------------------------------------------
(* The order of the frames, and that packets are whole.                    *)

\* The fragments of the packet being put together are of one frame; until it
\* is complete that frame goes on in the ring, then the next one begins.
PacketOK ==
    /\ \A k \in DOMAIN rpkt : rpkt[k][1] = rpkt[1][1]
    /\ Complete => Front = <<rpkt[1][1] + 1, 1>>
    /\ (rpkt # <<>> /\ ~Complete) => Front[1] = rpkt[1][1]

\* The frame that is put together, or the one that comes next.
Floor == IF rpkt = <<>> THEN Front[1] ELSE rpkt[1][1]

\* Frames on their way up came before that one.
PassedOK ==
    /\ \A i \in DOMAIN input : input[i] # <<>> /\ input[i][1][1] < Floor
    /\ \A i \in DOMAIN rx_queue : /\ rx_queue[i] # <<>>
                                  /\ rx_queue[i][1][1] < Floor
                                  /\ rx_queue[i][1][1] \notin Avb

\* Queued frames are in order, and behind what went up the same way.
QueueOK ==
    /\ \A i, j \in DOMAIN rx_queue : i < j => rx_queue[i][1][1] < rx_queue[j][1][1]
    /\ \A i \in DOMAIN input, j \in DOMAIN rx_queue :
         input[i][1][1] \notin Avb => input[i][1][1] < rx_queue[j][1][1]

OrderInv == PacketOK /\ PassedOK /\ QueueOK /\ InOrder

\* A fragment's frame is a number.
LEMMA FrontType ==
    ASSUME TypeInv
    PROVE  /\ Front \in Nat \X Nat
           /\ rpkt # <<>> => (rpkt[1] \in Nat \X Nat /\ 1 \in DOMAIN rpkt)
<1>1. MaxFrames \in Nat /\ MaxParts \in Nat
  BY RxAssumption
<1>2. wire \in Nat \X Nat
  BY <1>1 DEF TypeInv, TypeOK
<1>3. Frags \subseteq Nat \X Nat
  BY <1>1 DEF Frags
<1>4. Here.d \in Frags
  BY DEF TypeInv, TypeOK, Here
<1>5. rpkt \in Seq(Frags)
  BY DEF TypeInv, TypeOK
<1>6. rpkt # <<>> => (1 \in DOMAIN rpkt /\ rpkt[1] \in Frags)
  BY <1>5
<1> QED BY <1>2, <1>3, <1>4, <1>6 DEF Front

\* The packet being put together stays of one frame, and the frame at the
\* front never goes back.
LEMMA NextPacketOK ==
    ASSUME RingInv, PacketOK, [Next]_vars
    PROVE  PacketOK' /\ Floor <= Floor' /\ Floor' \in Nat
<1>1. TypeInv /\ RingOK /\ ChainOK /\ TypeInv'
  BY NextRingInv DEF RingInv
<1>2. /\ Front \in Nat \X Nat
      /\ rpkt # <<>> => (rpkt[1] \in Nat \X Nat /\ 1 \in DOMAIN rpkt)
  BY <1>1, FrontType
<1>3. CASE NicReceive \/ QueueDequeue \/ Still
  <2>1. rpkt' = rpkt /\ (Complete' <=> Complete)
    BY <1>3 DEF NicReceive, QueueDequeue, Still, rxv, Complete
  <2>2. Front' = Front
    <3>1. CASE NicReceive
      BY <1>1, <3>1, RingReceive
    <3>2. CASE QueueDequeue \/ Still
      <4>1. RingStill
        BY <3>2 DEF QueueDequeue, Still, RingStill, nic, rxv
      <4> QED BY <1>1, <4>1, RingKeeps
    <3> QED BY <1>3, <3>1, <3>2
  <2> QED BY <1>2, <2>1, <2>2 DEF PacketOK, Floor
<1>4. CASE RxError \/ RxNoMbuf \/ RxFragment
  <2>1. Take /\ rpc = "receive"
    BY <1>4, TakeSteps DEF RxError, RxNoMbuf, RxFragment, Took
  <2>2. Front' = Follow(rx_cidx) /\ ~Here.e
    BY <1>1, <2>1, RingTake DEF Take
  <2>3. Front = Here.d /\ ~Complete
    BY <2>1, <2>2 DEF Front, Complete
  <2>4. /\ Front' = IF Here.l THEN <<Front[1] + 1, 1>> ELSE <<Front[1], Front[2] + 1>>
    BY <2>2, <2>3 DEF Follow, Here
  <2>5. Floor = Front[1]
    BY <2>3 DEF Floor, PacketOK
  <2>6. CASE RxError \/ RxNoMbuf
    <3>1. rpkt' = <<>> /\ rpc' = rpc
      BY <2>6 DEF RxError, RxNoMbuf, DiscardPartial
    <3>2. Floor' = Front'[1] /\ ~Complete'
      BY <2>1, <3>1 DEF Floor, Complete
    <3>3. Floor <= Floor' /\ Floor' \in Nat
      BY <1>2, <2>4, <2>5, <3>2
    <3> QED BY <3>1, <3>2, <3>3 DEF PacketOK
  <2>7. CASE RxFragment
    <3>1. /\ rpkt' = Append(rpkt, Front)
          /\ Complete' <=> Here.l
      BY <2>3, <2>7 DEF RxFragment, Complete
    <3>2. rpkt \in Seq(Frags)
      BY <1>1 DEF TypeInv, TypeOK
    <3>3. /\ Len(rpkt') = Len(rpkt) + 1 /\ rpkt' # <<>> /\ DOMAIN rpkt' = 1..(Len(rpkt) + 1)
          /\ rpkt'[Len(rpkt) + 1] = Front
          /\ \A k \in 1..Len(rpkt) : rpkt'[k] = rpkt[k]
          /\ DOMAIN rpkt = 1..Len(rpkt) /\ Len(rpkt) \in Nat
          /\ (rpkt = <<>> <=> Len(rpkt) = 0)
      BY <3>1, <3>2
    <3>4. rpkt'[1][1] = Front[1]
      BY <2>3, <3>3 DEF PacketOK
    <3>5. \A k \in DOMAIN rpkt' : rpkt'[k][1] = rpkt'[1][1]
      BY <2>3, <3>3, <3>4 DEF PacketOK
    <3>6. Floor' = Front[1]
      BY <3>3, <3>4 DEF Floor
    <3>7. Floor <= Floor' /\ Floor' \in Nat
      BY <1>2, <2>5, <3>6
    <3>8. PacketOK'
      BY <2>4, <3>1, <3>4, <3>5 DEF PacketOK
    <3> QED BY <3>7, <3>8
  <2> QED BY <1>4, <2>6, <2>7
<1>5. CASE RxAvb \/ RxEnqueue
  <2>1. /\ rpkt' = <<>> /\ RingStill /\ Complete /\ ~Complete'
    BY <1>5 DEF RxAvb, RxEnqueue, RingStill, nic, Complete
  <2>2. Front' = Front /\ Front = <<rpkt[1][1] + 1, 1>> /\ rpkt # <<>>
    BY <1>1, <2>1, RingKeeps DEF PacketOK, TypeInv
  <2>3. Floor = rpkt[1][1] /\ Floor' = rpkt[1][1] + 1
    BY <2>1, <2>2 DEF Floor
  <2> QED BY <1>2, <2>1, <2>2, <2>3 DEF PacketOK
<1> QED BY <1>3, <1>4, <1>5, StepKinds

\* The packets that have left the ring have frame numbers.
LEMMA PassedType ==
    ASSUME TypeInv
    PROVE  /\ input \in Seq(Seq(Frags)) /\ rx_queue \in Seq(Seq(Frags))
           /\ Floor \in Nat
           /\ \A i \in DOMAIN input : input[i] # <<>> => input[i][1][1] \in Nat
           /\ \A i \in DOMAIN rx_queue : rx_queue[i] # <<>> => rx_queue[i][1][1] \in Nat
<1>1. input \in Seq(Seq(Frags)) /\ rx_queue \in Seq(Seq(Frags))
  BY DEF TypeInv, TypeOK
<1>2. \A p \in Seq(Frags) : p # <<>> => p[1][1] \in Nat
  <2> SUFFICES ASSUME NEW p \in Seq(Frags), p # <<>> PROVE p[1][1] \in Nat
    OBVIOUS
  <2>1. p[1] \in Frags
    OBVIOUS
  <2> QED BY <2>1, RxAssumption DEF Frags
<1>3. \A i \in DOMAIN input : input[i] \in Seq(Frags)
  BY <1>1
<1>4. \A i \in DOMAIN rx_queue : rx_queue[i] \in Seq(Frags)
  BY <1>1
<1>5. Floor \in Nat
  BY FrontType DEF Floor
<1> QED BY <1>1, <1>2, <1>3, <1>4, <1>5

\* A packet handed on is of the frame at the floor, and the floor goes on.
LEMMA DeliverFloor ==
    ASSUME RingInv, PacketOK, RxAvb \/ RxEnqueue
    PROVE  /\ rpkt # <<>> /\ rpkt[1][1] = Floor /\ PacketFrame = Floor
           /\ Floor' = Floor + 1
<1>1. /\ rpkt' = <<>> /\ RingStill /\ Complete
  BY DEF RxAvb, RxEnqueue, RingStill, nic, Complete
<1>2. TypeInv /\ RingOK /\ ChainOK
  BY DEF RingInv
<1>3. Front' = Front /\ Front = <<rpkt[1][1] + 1, 1>> /\ rpkt # <<>>
  BY <1>1, <1>2, RingKeeps DEF PacketOK, TypeInv
<1>4. Len(rpkt) \in DOMAIN rpkt
  BY <1>2, <1>3 DEF TypeInv, TypeOK
<1>5. PacketFrame = rpkt[1][1]
  BY <1>4 DEF PacketFrame, PacketOK
<1> QED BY <1>1, <1>3, <1>5 DEF Floor

\* Putting a packet at the end of a sequence, or taking the first one off.
LEMMA AppendFacts ==
    ASSUME NEW S, NEW s \in Seq(S), NEW p \in S
    PROVE  /\ DOMAIN s = 1..Len(s) /\ Len(s) \in Nat
           /\ DOMAIN Append(s, p) = 1..(Len(s) + 1)
           /\ Append(s, p)[Len(s) + 1] = p
           /\ \A i \in 1..Len(s) : Append(s, p)[i] = s[i]
           /\ \A i \in DOMAIN Append(s, p) :
                \/ i = Len(s) + 1 /\ Append(s, p)[i] = p
                \/ i \in DOMAIN s /\ i < Len(s) + 1 /\ Append(s, p)[i] = s[i]
OBVIOUS

\* The rest of a sequence is shifted by one.
LEMMA TailFacts ==
    ASSUME NEW S, NEW s \in Seq(S), s # <<>>
    PROVE  /\ DOMAIN s = 1..Len(s) /\ Len(s) \in Nat \ {0}
           /\ Head(s) = s[1] /\ Head(s) \in S
           /\ DOMAIN Tail(s) = 1..(Len(s) - 1)
           /\ \A i \in 1..(Len(s) - 1) : Tail(s)[i] = s[i + 1]
OBVIOUS

\* Every step keeps the order.
LEMMA NextOrderInv == RingInv /\ OrderInv /\ [Next]_vars => OrderInv'
<1> SUFFICES ASSUME RingInv, OrderInv, [Next]_vars PROVE OrderInv'
  OBVIOUS
<1> USE DEF OrderInv
<1>1. TypeInv
  BY DEF RingInv
<1>2. PacketOK' /\ Floor <= Floor' /\ Floor' \in Nat
  BY NextPacketOK
<1>3. /\ input \in Seq(Seq(Frags)) /\ rx_queue \in Seq(Seq(Frags))
      /\ rpkt \in Seq(Frags)
  BY <1>1 DEF TypeInv, TypeOK
<1>4. /\ Floor \in Nat
      /\ \A i \in DOMAIN input :
           /\ input[i] # <<>> /\ input[i][1][1] \in Nat
           /\ input[i][1][1] < Floor /\ input[i][1][1] < Floor'
      /\ \A i \in DOMAIN rx_queue :
           /\ rx_queue[i] # <<>> /\ rx_queue[i][1][1] \in Nat
           /\ rx_queue[i][1][1] < Floor /\ rx_queue[i][1][1] < Floor'
           /\ rx_queue[i][1][1] \notin Avb
  <2>1. Floor \in Nat
    BY <1>1, PassedType
  <2>2. /\ \A i \in DOMAIN input : input[i] # <<>> => input[i][1][1] \in Nat
        /\ \A i \in DOMAIN rx_queue : rx_queue[i] # <<>> => rx_queue[i][1][1] \in Nat
    BY <1>1, PassedType
  <2> QED BY <1>2, <2>1, <2>2 DEF PassedOK
<1>5. CASE input' = input /\ rx_queue' = rx_queue
  <2>1. PassedOK'
    BY <1>4, <1>5 DEF PassedOK
  <2> QED BY <1>2, <1>5, <2>1 DEF QueueOK, InOrder
<1>6. CASE RxAvb
  <2>1. /\ rpkt # <<>> /\ rpkt[1][1] = Floor /\ Floor \in Avb /\ Floor < Floor'
    BY <1>4, <1>6, DeliverFloor DEF RxAvb
  <2>2. input' = Append(input, rpkt) /\ rx_queue' = rx_queue
    BY <1>6 DEF RxAvb, queue
  <2> DEFINE n == Len(input) + 1
  <2>3. /\ DOMAIN input = 1..Len(input) /\ Len(input) \in Nat
        /\ DOMAIN input' = 1..n /\ input'[n] = rpkt
        /\ \A i \in DOMAIN input' :
             \/ i = n /\ input'[i] = rpkt
             \/ i \in DOMAIN input /\ i < n /\ input'[i] = input[i]
    BY <1>3, <2>2, AppendFacts
  <2>4. PassedOK'
    <3>1. \A i \in DOMAIN input' : input'[i] # <<>> /\ input'[i][1][1] < Floor'
      BY <1>4, <2>1, <2>3
    <3>2. \A i \in DOMAIN rx_queue : rx_queue[i][1][1] < Floor'
      BY <1>4
    <3> QED BY <2>2, <3>1, <3>2 DEF PassedOK
  <2>5. QueueOK'
    BY <2>1, <2>2, <2>3 DEF QueueOK
  <2>6. InOrder'
    BY <1>4, <2>1, <2>3 DEF InOrder
  <2> QED BY <1>2, <2>4, <2>5, <2>6
<1>7. CASE RxEnqueue /\ rx_queue' # rx_queue
  <2>1. /\ rpkt # <<>> /\ rpkt[1][1] = Floor /\ Floor \notin Avb /\ Floor < Floor'
    BY <1>4, <1>7, DeliverFloor DEF RxEnqueue
  <2>2. input' = input /\ rx_queue' = Append(rx_queue, rpkt)
    BY <1>7 DEF RxEnqueue
  <2> DEFINE n == Len(rx_queue) + 1
  <2>3. /\ DOMAIN rx_queue = 1..Len(rx_queue) /\ Len(rx_queue) \in Nat
        /\ DOMAIN rx_queue' = 1..n /\ rx_queue'[n] = rpkt
        /\ \A i \in DOMAIN rx_queue' :
             \/ i = n /\ rx_queue'[i] = rpkt
             \/ i \in DOMAIN rx_queue /\ i < n /\ rx_queue'[i] = rx_queue[i]
    BY <1>3, <2>2, AppendFacts
  <2>4. PassedOK'
    <3>1. \A i \in DOMAIN rx_queue' : /\ rx_queue'[i] # <<>>
                                      /\ rx_queue'[i][1][1] < Floor'
                                      /\ rx_queue'[i][1][1] \notin Avb
      BY <1>4, <2>1, <2>3
    <3>2. \A i \in DOMAIN input : input[i][1][1] < Floor'
      BY <1>4
    <3> QED BY <2>2, <3>1, <3>2 DEF PassedOK
  <2>5. QueueOK'
    <3>1. \A i, j \in DOMAIN rx_queue' : i < j => rx_queue'[i][1][1] < rx_queue'[j][1][1]
      BY <1>4, <2>1, <2>3 DEF QueueOK
    <3>2. \A i \in DOMAIN input, j \in DOMAIN rx_queue' :
             input[i][1][1] \notin Avb => input[i][1][1] < rx_queue'[j][1][1]
      BY <1>4, <2>1, <2>3 DEF QueueOK
    <3> QED BY <2>2, <3>1, <3>2 DEF QueueOK
  <2> QED BY <1>2, <2>2, <2>4, <2>5 DEF InOrder
<1>8. CASE QueueDequeue
  <2> DEFINE n == Len(input) + 1
             m == Len(rx_queue)
  <2>1. /\ rx_queue # <<>> /\ input' = Append(input, Head(rx_queue))
        /\ rx_queue' = Tail(rx_queue)
    BY <1>8 DEF QueueDequeue
  <2>2. /\ DOMAIN rx_queue = 1..m /\ m \in Nat \ {0}
        /\ Head(rx_queue) = rx_queue[1] /\ Head(rx_queue) \in Seq(Frags)
        /\ DOMAIN rx_queue' = 1..(m - 1)
        /\ \A i \in 1..(m - 1) : rx_queue'[i] = rx_queue[i + 1]
    BY <1>3, <2>1, TailFacts
  <2>3. /\ DOMAIN input = 1..Len(input) /\ Len(input) \in Nat
        /\ DOMAIN input' = 1..n /\ input'[n] = rx_queue[1]
        /\ \A i \in DOMAIN input' :
             \/ i = n /\ input'[i] = rx_queue[1]
             \/ i \in DOMAIN input /\ i < n /\ input'[i] = input[i]
    BY <1>3, <2>1, <2>2, AppendFacts
  <2>4. /\ rx_queue[1] # <<>> /\ rx_queue[1][1][1] < Floor'
        /\ rx_queue[1][1][1] \notin Avb /\ rx_queue[1][1][1] \in Nat
    BY <1>4, <2>2
  <2>5. PassedOK'
    <3>1. \A i \in DOMAIN input' : input'[i] # <<>> /\ input'[i][1][1] < Floor'
      BY <1>4, <2>3, <2>4
    <3>2. \A i \in DOMAIN rx_queue' : /\ rx_queue'[i] # <<>>
                                      /\ rx_queue'[i][1][1] < Floor'
                                      /\ rx_queue'[i][1][1] \notin Avb
      BY <1>4, <2>2
    <3> QED BY <3>1, <3>2 DEF PassedOK
  <2>6. QueueOK'
    <3>1. \A i, j \in DOMAIN rx_queue' : i < j => rx_queue'[i][1][1] < rx_queue'[j][1][1]
      BY <2>2 DEF QueueOK
    <3>2. \A j \in DOMAIN rx_queue' : rx_queue[1][1][1] < rx_queue'[j][1][1]
      BY <2>2 DEF QueueOK
    <3>3. \A i \in DOMAIN input, j \in DOMAIN rx_queue' :
             input[i][1][1] \notin Avb => input[i][1][1] < rx_queue'[j][1][1]
      BY <2>2 DEF QueueOK
    <3>4. \A i \in DOMAIN input', j \in DOMAIN rx_queue' :
             input'[i][1][1] \notin Avb => input'[i][1][1] < rx_queue'[j][1][1]
      BY <2>3, <3>2, <3>3
    <3> QED BY <3>1, <3>4 DEF QueueOK
  <2>7. InOrder'
    <3>1. \A i \in DOMAIN input :
             input[i][1][1] \notin Avb => input[i][1][1] < rx_queue[1][1][1]
      BY <2>2 DEF QueueOK
    <3> QED BY <2>3, <2>4, <3>1 DEF InOrder
  <2> QED BY <1>2, <2>5, <2>6, <2>7
<1>9. CASE NicReceive \/ RxError \/ RxNoMbuf \/ RxFragment \/ Still
  BY <1>5, <1>9 DEF NicReceive, RxError, RxNoMbuf, RxFragment, Still, queue
<1>10. CASE RxEnqueue /\ rx_queue' = rx_queue
  BY <1>5, <1>10 DEF RxEnqueue
<1> QED BY <1>6, <1>7, <1>8, <1>9, <1>10, StepKinds

\* Nothing has left the ring at the start.
LEMMA InitOrder == Init => OrderInv
BY DEF Init, OrderInv, PacketOK, PassedOK, QueueOK, InOrder, Complete

\* Frames that take the same path to the stack reach it in the order of the
\* wire, whatever is dropped, and whenever the interface goes down and up: the
\* queue and the receive thread never overtake each other.
THEOREM RxInOrder == Spec => []InOrder
<1>1. OrderInv => InOrder
  BY DEF OrderInv
<1> QED BY <1>1, InitOrder, NextOrderInv, RxRingInvariant, PTL DEF Spec

-----------------------------------------------------------------------------
(* Without a shortage of mbufs packets are whole frames.                   *)

\* The packet so far is the beginning of a frame, the rest of which comes next.
WholeOK ==
    /\ IsWhole(rpkt)
    /\ rpkt = <<>> => Front[2] = 1
    /\ (rpkt # <<>> /\ ~Complete) => Front = <<rpkt[1][1], Len(rpkt) + 1>>
    /\ \A i \in DOMAIN rx_queue : IsWhole(rx_queue[i])
    /\ WholeFrames

\* A bad frame is found out with its last fragment, so what is discarded is
\* always the whole of it.
LEMMA NextWholeOK ==
    ASSUME RingInv, PacketOK, WholeOK, [NextDown]_vars
    PROVE  WholeOK'
<1>1. [Next]_vars /\ TypeInv /\ RingOK /\ ChainOK
  BY DEF RingInv, NextDown, Next, NextScarce
<1>2. /\ input \in Seq(Seq(Frags)) /\ rx_queue \in Seq(Seq(Frags))
      /\ rpkt \in Seq(Frags)
  BY <1>1 DEF TypeInv, TypeOK
<1>3. CASE NicReceive \/ Still
  <2>1. UNCHANGED <<rpkt, rx_queue, input>> /\ (Complete' <=> Complete)
    BY <1>3 DEF NicReceive, Still, rxv, queue, Complete
  <2>2. Front' = Front
    BY <1>1, <1>3, RingReceive, RingKeeps DEF Still
  <2> QED BY <2>1, <2>2 DEF WholeOK, WholeFrames, IsWhole
<1>4. CASE RxError \/ RxFragment
  <2>1. Take /\ rpc = "receive" /\ UNCHANGED <<rx_queue, input>>
    BY <1>4, TakeSteps DEF RxError, RxFragment, Took, queue
  <2>2. Front' = Follow(rx_cidx) /\ ~Here.e
    BY <1>1, <2>1, RingTake DEF Take
  <2>3. Front = Here.d /\ ~Complete /\ (Here.err => Here.l)
    <3>1. rx_cidx \in Idx
      BY <1>1 DEF TypeInv, TypeOK
    <3> QED BY <1>1, <2>1, <2>2, <3>1 DEF Front, Complete, ChainOK, Here
  <2>4. Front' = IF Here.l THEN <<Front[1] + 1, 1>> ELSE <<Front[1], Front[2] + 1>>
    BY <2>2, <2>3 DEF Follow, Here
  <2>5. CASE RxError
    <3>1. rpkt' = <<>> /\ Here.err
      BY <2>5 DEF RxError, DiscardPartial
    <3>2. Front'[2] = 1
      BY <2>3, <2>4, <3>1
    <3> QED BY <2>1, <3>1, <3>2 DEF WholeOK, WholeFrames, IsWhole
  <2>6. CASE RxFragment
    <3>1. /\ rpkt' = Append(rpkt, Front)
          /\ Complete' <=> Here.l
      BY <2>3, <2>6 DEF RxFragment, Complete
    <3>2. /\ Len(rpkt') = Len(rpkt) + 1 /\ rpkt' # <<>>
          /\ DOMAIN rpkt' = 1..(Len(rpkt) + 1)
          /\ rpkt'[Len(rpkt) + 1] = Front
          /\ \A k \in 1..Len(rpkt) : rpkt'[k] = rpkt[k]
          /\ DOMAIN rpkt = 1..Len(rpkt) /\ Len(rpkt) \in Nat
          /\ (rpkt = <<>> <=> Len(rpkt) = 0)
      <4>1. rpkt \in Seq(Frags)
        BY <1>2
      <4> QED BY <3>1, <4>1
    <3>3. Front \in Nat \X Nat
      BY <1>1, FrontType
    <3>4. Front = <<Front[1], Len(rpkt) + 1>> /\ rpkt'[1][1] = Front[1]
      <4>1. CASE rpkt = <<>>
        BY <3>2, <3>3, <4>1 DEF WholeOK
      <4>2. CASE rpkt # <<>>
        BY <2>3, <3>2, <4>2 DEF WholeOK
      <4> QED BY <4>1, <4>2
    <3>5. IsWhole(rpkt)'
      <4>1. \A k \in 1..Len(rpkt) : rpkt'[k] = <<rpkt'[1][1], k>>
        BY <3>2 DEF WholeOK, IsWhole
      <4>2. \A k \in 1..(Len(rpkt) + 1) : k = Len(rpkt) + 1 \/ k \in 1..Len(rpkt)
        BY <3>2
      <4> QED BY <3>2, <3>4, <4>1, <4>2 DEF IsWhole
    <3>6. ~Complete' => Front' = <<rpkt'[1][1], Len(rpkt') + 1>>
      BY <2>4, <3>1, <3>2, <3>4
    <3> QED BY <2>1, <3>2, <3>5, <3>6 DEF WholeOK, WholeFrames, IsWhole
  <2> QED BY <1>4, <2>5, <2>6
<1>5. CASE RxAvb \/ RxEnqueue
  <2>1. /\ rpkt' = <<>> /\ RingStill /\ Complete
        /\ UNCHANGED rx_queue \/ rx_queue' = Append(rx_queue, rpkt)
        /\ UNCHANGED input \/ input' = Append(input, rpkt)
    BY <1>5 DEF RxAvb, RxEnqueue, RingStill, nic, Complete, queue
  <2>2. Front' = Front /\ Front[2] = 1
    BY <1>1, <2>1, RingKeeps DEF PacketOK
  <2>3. IsWhole(rpkt)
    BY DEF WholeOK
  <2>4. \A i \in DOMAIN rx_queue' : IsWhole(rx_queue'[i])
    <3>1. CASE UNCHANGED rx_queue
      BY <3>1 DEF WholeOK
    <3>2. CASE rx_queue' = Append(rx_queue, rpkt)
      <4>1. \A i \in DOMAIN rx_queue' :
               rx_queue'[i] = rpkt \/ (i \in DOMAIN rx_queue /\ rx_queue'[i] = rx_queue[i])
        BY <1>2, <3>2, AppendFacts
      <4> QED BY <2>3, <4>1 DEF WholeOK
    <3> QED BY <2>1, <3>1, <3>2
  <2>5. \A i \in DOMAIN input' : IsWhole(input'[i])
    <3>1. CASE UNCHANGED input
      BY <3>1 DEF WholeOK, WholeFrames
    <3>2. CASE input' = Append(input, rpkt)
      <4>1. \A i \in DOMAIN input' :
               input'[i] = rpkt \/ (i \in DOMAIN input /\ input'[i] = input[i])
        BY <1>2, <3>2, AppendFacts
      <4> QED BY <2>3, <4>1 DEF WholeOK, WholeFrames
    <3> QED BY <2>1, <3>1, <3>2
  <2>6. IsWhole(<<>>)
    BY DEF IsWhole
  <2> QED BY <2>1, <2>2, <2>4, <2>5, <2>6 DEF WholeOK, WholeFrames, IsWhole
<1>6. CASE QueueDequeue
  <2>1. /\ rx_queue # <<>> /\ input' = Append(input, Head(rx_queue))
        /\ rx_queue' = Tail(rx_queue) /\ rpkt' = rpkt /\ RingStill
        /\ Complete' <=> Complete
    BY <1>6 DEF QueueDequeue, RingStill, rxv, nic, Complete
  <2>2. /\ 1 \in DOMAIN rx_queue
        /\ Head(rx_queue) = rx_queue[1] /\ Head(rx_queue) \in Seq(Frags)
        /\ \A i \in DOMAIN rx_queue' : i + 1 \in DOMAIN rx_queue
                                       /\ rx_queue'[i] = rx_queue[i + 1]
    BY <1>2, <2>1, TailFacts
  <2>3. \A i \in DOMAIN input' :
           input'[i] = rx_queue[1] \/ (i \in DOMAIN input /\ input'[i] = input[i])
    BY <1>2, <2>1, <2>2, AppendFacts
  <2>4. \A i \in DOMAIN input' : IsWhole(input'[i])
    BY <2>2, <2>3 DEF WholeOK, WholeFrames
  <2>5. \A i \in DOMAIN rx_queue' : IsWhole(rx_queue'[i])
    BY <2>2 DEF WholeOK
  <2>6. Front' = Front
    BY <1>1, <2>1, RingKeeps
  <2> QED BY <2>1, <2>4, <2>5, <2>6 DEF WholeOK, WholeFrames, IsWhole
<1> QED BY <1>3, <1>4, <1>5, <1>6, DownKinds

\* The first fragment on the wire is the first of a frame.
LEMMA InitWhole == Init => WholeOK
<1> SUFFICES ASSUME Init PROVE WholeOK
  OBVIOUS
<1>1. 0 \in Idx
  BY RxAssumption DEF Idx
<1>2. Front = <<1, 1>>
  BY <1>1 DEF Init, Front, Here, EmptyBd
<1> QED BY <1>2 DEF Init, WholeOK, WholeFrames, IsWhole

\* While mbufs do not run out, every packet the stack gets is a frame from its
\* first fragment on, with nothing of another frame in it, however the ring
\* wraps, frames are dropped and the interface goes down and up.
THEOREM RxWholeFrames == SpecDown => []WholeFrames
<1>1. Init => OrderInv /\ WholeOK
  BY InitOrder, InitWhole
<1>2. [NextDown]_vars => [Next]_vars
  BY DEF NextDown, Next, NextScarce
<1>3. Init => RingInv
  BY InitRxInv, InitRing DEF RingInv
<1>4. RingInv /\ OrderInv /\ WholeOK /\ [NextDown]_vars => (RingInv /\ OrderInv /\ WholeOK)'
  BY <1>2, NextRingInv, NextOrderInv, NextWholeOK DEF OrderInv
<1>5. WholeOK => WholeFrames
  BY DEF WholeOK
<1> QED BY <1>1, <1>3, <1>4, <1>5, PTL DEF SpecDown

-----------------------------------------------------------------------------
(* Nothing is left behind.                                                 *)

\* Without flow control, the receive thread stops only at an empty ring, and
\* what is completed after that raises the interrupt again.
QuietOK ==
    (~FlowTx /\ rpc \in {"wait", "unmask"} /\ ~rfint)
        => \A i \in Idx : bd[i].e \/ bd[i].d[1] = wire[1]

\* Every step keeps this, because RFINT is cleared before the ring is looked at.
LEMMA NextQuietOK == RingInv /\ QuietOK /\ [Next]_vars => QuietOK'
<1> SUFFICES ASSUME RingInv, QuietOK, [Next]_vars,
                    ~FlowTx, rpc' \in {"wait", "unmask"}, ~rfint'
             PROVE  \A i \in Idx : bd'[i].e \/ bd'[i].d[1] = wire'[1]
  BY DEF QuietOK
<1>1. TypeInv /\ RingOK
  BY DEF RingInv
<1>2. CASE NicReceive
  <2>1. rpc' = rpc
    BY <1>2 DEF NicReceive
  <2>2. \A i \in Idx : bd[i].e \/ bd[i].d[1] = wire[1]
    BY <1>1, <1>2, <2>1, ReceiveEffect DEF QuietOK
  <2> QED BY <1>1, <1>2, <2>2, ReceiveEffect
<1>3. CASE RxEmpty
  <2>1. Here.e /\ UNCHANGED <<bd, wire>>
    BY <1>3 DEF RxEmpty, rxv
  <2> QED BY <1>1, <2>1 DEF RingOK
<1>4. CASE RxPulse \/ RxError \/ RxNoMbuf \/ RxFragment \/ RxStamp \/ RxAvb \/ RxEnqueue
  BY <1>4 DEF RxPulse, RxError, RxNoMbuf, RxFragment, RxStamp, RxAvb, RxEnqueue, Took
<1>5. CASE \/ NicFull \/ Isr \/ RxUnmask \/ QueueThread \/ Stop \/ InitUp
           \/ UNCHANGED vars
  <2>1. UNCHANGED <<bd, wire, rfint>> /\ rpc \in {"wait", "unmask"}
    BY <1>5 DEF NicFull, Isr, IsrRead, IsrRx, RxUnmask, QueueThread, QueueRun, QueueDequeue,
       QueueEmpty, EnableInterrupt, EnableDone, Stop, InitUp, vars, rxv, irq, nic
  <2> QED BY <2>1 DEF QuietOK
<1> QED
  BY <1>2, <1>3, <1>4, <1>5 DEF Next, NextScarce, NextUp, NicStep, RxThread

\* Without flow control no complete frame stays in the ring with everyone at
\* rest and no interrupt to come, also with mbufs running out and with the
\* interface going down and up.
THEOREM RxNothingLeftBehind == FlowTx = FALSE => (Spec => []NothingLeftBehind)
<1> SUFFICES ASSUME FlowTx = FALSE PROVE Spec => []NothingLeftBehind
  OBVIOUS
<1>1. Init => QuietOK
  BY DEF Init, QuietOK, EmptyBd
<1>2. Spec => []QuietOK
  BY <1>1, NextQuietOK, RxRingInvariant, PTL DEF Spec
<1>3. QuietOK => NothingLeftBehind
  BY DEF QuietOK, NothingLeftBehind
<1> QED BY <1>2, <1>3, PTL
=============================================================================
