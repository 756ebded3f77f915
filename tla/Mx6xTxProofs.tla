---------------------------- MODULE Mx6xTxProofs ----------------------------
(***************************************************************************)
(* Theorems about Mx6xTx, for every ring size and set of packets:          *)
(*   - the types and the accounting of the descriptor ring;                *)
(*   - the NIC finds whole frames where it looks for them;                 *)
(*   - every packet has exactly one owner;                                 *)
(*   - while IFF_OACTIVE is set a completion is still to come, unless the  *)
(*     handler looked at tx_full too early;                                *)
(*   - with mx6q_stop and mx6q_init, as long as no stop leaves the NIC the *)
(*     later descriptors of a packet: the accounting and the owners still, *)
(*     and unless a stop gave up on the NIC, the NIC in step, and of the   *)
(*     freed packets only the one it is sending still the NIC's.           *)
(***************************************************************************)
EXTENDS Mx6xTx, TLAPS, FiniteSetTheorems

-----------------------------------------------------------------------------
(* Arithmetic of the ring                                                  *)

\* The number of descriptors from a up to b, going round the ring.
Dist(a, b) == IF b >= a THEN b - a ELSE b - a + N

\* A remainder of N indexes the ring.
LEMMA ModIdx == \A x \in Int : x % N \in Idx
BY RingAssumption DEF Idx

\* The macro NEXT_TX, without the remainder.
LEMMA NextTxValue ==
    ASSUME NEW x \in Idx
    PROVE  /\ NEXT_TX(x) \in Idx
           /\ NEXT_TX(x) = IF x = N - 1 THEN 0 ELSE x + 1
<1>1. CASE x = N - 1
  BY <1>1, RingAssumption DEF NEXT_TX, Idx
<1>2. CASE x # N - 1
  BY <1>2, RingAssumption DEF NEXT_TX, Idx
<1> QED BY <1>1, <1>2

\* Two indexes are less than a ring apart.
LEMMA DistRange ==
    ASSUME NEW a \in Idx, NEW b \in Idx
    PROVE  Dist(a, b) \in Idx /\ (Dist(a, b) = 0 <=> a = b)
BY RingAssumption DEF Dist, Idx

\* Behind the descriptor a full turn away the ring begins again.
LEMMA DistWraps ==
    ASSUME NEW a \in Idx, NEW b \in Idx, Dist(a, b) = N - 1
    PROVE  NEXT_TX(b) = a
BY NextTxValue, RingAssumption DEF Dist, Idx

\* Advancing the far end adds one descriptor, short of a full turn.
LEMMA DistNext ==
    ASSUME NEW a \in Idx, NEW b \in Idx, Dist(a, b) < N - 1
    PROVE  Dist(a, NEXT_TX(b)) = Dist(a, b) + 1
BY NextTxValue, RingAssumption DEF Dist, Idx

\* Advancing the near end takes one away.
LEMMA DistDrop ==
    ASSUME NEW a \in Idx, NEW b \in Idx, a # b
    PROVE  Dist(NEXT_TX(a), b) = Dist(a, b) - 1
BY NextTxValue, RingAssumption DEF Dist, Idx

\* Distances add up, short of a full turn.
LEMMA DistAdd ==
    ASSUME NEW a \in Idx, NEW b \in Idx, NEW c \in Idx,
           Dist(a, b) + Dist(b, c) < N
    PROVE  Dist(a, c) = Dist(a, b) + Dist(b, c)
BY RingAssumption DEF Dist, Idx

\* Dist is the difference of the indexes modulo the size of the ring.
LEMMA DistMod ==
    ASSUME NEW a \in Idx, NEW b \in Idx
    PROVE  (b - a) % N = Dist(a, b)
<1>1. CASE b >= a
  BY <1>1, RingAssumption DEF Dist, Idx
<1>2. CASE b < a
  <2>1. b - a + N \in 0..(N - 1)
    BY <1>2, RingAssumption DEF Idx
  <2>2. (b - a) % N = b - a + N
    BY <2>1, <1>2, RingAssumption DEF Idx
  <2> QED BY <2>2, <1>2, RingAssumption DEF Dist, Idx
<1> QED BY <1>1, <1>2, RingAssumption DEF Idx

-----------------------------------------------------------------------------
(* The type invariant                                                      *)

\* TypeOK is inductive with this: mx6q_tx and mx6q_output have a packet, and
\* mx6q_tx loads a descriptor only while there is a fragment to load.
CurOK(t) == /\ pc[t] = "load" => cur[t].i < cur[t].n
            /\ pc[t] \in {"space", "take", "load"} => cur[t].m \in Mbufs
TypeInv == TypeOK /\ \A t \in Threads : CurOK(t)

\* The values a thread starts with, and goes back to.
LEMMA NoCurType == NoCur \in CurType /\ EmptyBd \in BdType
BY RingAssumption DEF NoCur, CurType, Idx, EmptyBd, BdType

\* The places a thread goes to.
LEMMA PcsType ==
    /\ LockedPcs \subseteq Pcs
    /\ \A t \in Threads : Return(t) \in Pcs /\ AfterTx(t) \in Pcs
    /\ \A t \in Threads : Return(t) \in {"idle", "pi"}
    /\ \A t \in Threads : AfterTx(t) \in {"idle", "loop"}
BY DEF Pcs, LockedPcs, Return, AfterTx

\* The initial state is well typed.
LEMMA InitTypeInv == Init => TypeInv
<1> SUFFICES ASSUME Init PROVE TypeInv
  OBVIOUS
<1>1. RingType
  BY NoCurType, RingAssumption DEF Init, RingType, Idx
<1>2. ThreadType /\ \A t \in Threads : CurOK(t)
  BY NoCurType DEF Init, ThreadType, CurOK, Pcs
<1>3. BufType
  BY DEF Init, BufType
<1>4. FlagType
  BY Zenon DEF Init, FlagType
<1>5. NicType
  <2>1. hw \in Idx
    BY RingAssumption DEF Init, Idx
  <2> QED BY <2>1, Zenon DEF Init, NicType
<1> QED BY <1>1, <1>2, <1>3, <1>4, <1>5 DEF TypeInv, TypeOK

\* A thread that moves on, other than into mx6q_tx or mx6q_output, keeps the
\* types of pc and cur.
LEMMA GotoType ==
    ASSUME TypeInv, NEW t \in Threads, NEW l \in Pcs \ {"load", "space", "take"},
           Goto(t, l), cur' = cur \/ cur' = [cur EXCEPT ![t] = NoCur]
    PROVE  /\ pc' \in [Threads -> Pcs] /\ cur' \in [Threads -> CurType]
           /\ \A u \in Threads : CurOK(u)'
<1>1. pc' = [pc EXCEPT ![t] = l] /\ pc \in [Threads -> Pcs]
      /\ cur \in [Threads -> CurType]
  BY DEF Goto, TypeInv, TypeOK, ThreadType
<1>2. cur' \in [Threads -> CurType] /\ \A u \in Threads \ {t} : cur'[u] = cur[u]
  BY <1>1, NoCurType
<1> QED BY <1>1, <1>2 DEF TypeInv, CurOK

\* A thread that enters mx6q_tx.
LEMMA BeginTxType ==
    ASSUME TypeInv, NEW t \in Threads, NEW m \in Mbufs, NEW n \in 1..MaxFrags,
           BeginTx(t, m, n)
    PROVE  /\ pc' \in [Threads -> Pcs] /\ cur' \in [Threads -> CurType]
           /\ \A u \in Threads : CurOK(u)'
<1> DEFINE c == [m |-> m, n |-> n, i |-> 0, first |-> pidx, idx |-> pidx]
<1>1. pc' = [pc EXCEPT ![t] = "load"] /\ pc \in [Threads -> Pcs]
      /\ cur' = [cur EXCEPT ![t] = c] /\ cur \in [Threads -> CurType]
  BY DEF BeginTx, Goto, TypeInv, TypeOK, ThreadType
<1>2. c \in CurType /\ c.i < c.n /\ c.m \in Mbufs
  BY RingAssumption DEF CurType, TypeInv, TypeOK, RingType
<1> QED BY <1>1, <1>2 DEF TypeInv, CurOK, Pcs, LockedPcs, TxPcs

\* The steps of mx6q_start.
LEMMA StartStepType ==
    ASSUME TypeInv, NEW t \in Threads, StartStep(t)
    PROVE  TypeInv'
<1> USE DEF TypeInv, TypeOK
<1>1. CASE StartPurge(t)
  <2>1. RingType'
    BY <1>1 DEF StartPurge, ring, RingType
  <2>2. ThreadType' /\ \A u \in Threads : CurOK(u)'
    BY <1>1, GotoType, PcsType DEF StartPurge, UnlockAndReturn, Lock, ThreadType, Pcs, LockedPcs, Threads
  <2>3. BufType'
    BY <1>1 DEF StartPurge, bufs, BufType
  <2>4. FlagType'
    BY <1>1 DEF StartPurge, flags, isrv, FlagType
  <2>5. NicType'
    BY <1>1 DEF StartPurge, nic, NicType
  <2> QED BY <2>1, <2>2, <2>3, <2>4, <2>5
<1>2. CASE StartEnter(t)
  <2>1. RingType'
    BY <1>2 DEF StartEnter, ring, RingType
  <2>2. ThreadType' /\ \A u \in Threads : CurOK(u)'
    BY <1>2, GotoType, PcsType DEF StartEnter, UnlockAndReturn, Lock, ThreadType, Pcs, LockedPcs, Threads
  <2>3. BufType'
    BY <1>2 DEF StartEnter, bufs, BufType
  <2>4. FlagType'
    BY <1>2 DEF StartEnter, flags, isrv, FlagType
  <2>5. NicType'
    BY <1>2 DEF StartEnter, nic, NicType
  <2> QED BY <2>1, <2>2, <2>3, <2>4, <2>5
<1>3. CASE StartLoop(t)
  <2>1. RingType'
    BY <1>3 DEF StartLoop, ring, RingType
  <2>2. ThreadType' /\ \A u \in Threads : CurOK(u)'
    BY <1>3, GotoType, PcsType DEF StartLoop, UnlockAndReturn, Lock, ThreadType, Pcs, LockedPcs, Threads
  <2>3. BufType'
    BY <1>3 DEF StartLoop, bufs, BufType
  <2>4. FlagType'
    BY <1>3 DEF StartLoop, flags, isrv, FlagType
  <2>5. NicType'
    BY <1>3 DEF StartLoop, nic, NicType
  <2> QED BY <2>1, <2>2, <2>3, <2>4, <2>5
<1>4. CASE StartReaped(t)
  <2>1. RingType'
    BY <1>4 DEF StartReaped, ring, RingType
  <2>2. ThreadType' /\ \A u \in Threads : CurOK(u)'
    BY <1>4, GotoType, PcsType DEF StartReaped, UnlockAndReturn, Lock, ThreadType, Pcs, LockedPcs, Threads
  <2>3. BufType'
    BY <1>4 DEF StartReaped, bufs, BufType
  <2>4. FlagType'
    BY <1>4 DEF StartReaped, flags, isrv, FlagType
  <2>5. NicType'
    BY <1>4 DEF StartReaped, nic, NicType
  <2> QED BY <2>1, <2>2, <2>3, <2>4, <2>5
<1>5. CASE StartFull(t)
  <2>1. RingType'
    BY <1>5 DEF StartFull, ring, RingType
  <2>2. ThreadType' /\ \A u \in Threads : CurOK(u)'
    BY <1>5, GotoType, PcsType DEF StartFull, UnlockAndReturn, Lock, ThreadType, Pcs, LockedPcs, Threads
  <2>3. BufType'
    BY <1>5 DEF StartFull, bufs, BufType
  <2>4. FlagType'
    BY <1>5 DEF StartFull, flags, isrv, FlagType
  <2>5. NicType'
    BY <1>5 DEF StartFull, nic, NicType
  <2> QED BY <2>1, <2>2, <2>3, <2>4, <2>5
<1>6. CASE StartDone(t)
  <2>1. RingType'
    BY <1>6 DEF StartDone, ring, RingType
  <2>2. ThreadType' /\ \A u \in Threads : CurOK(u)'
    BY <1>6, GotoType, PcsType DEF StartDone, UnlockAndReturn, Lock, ThreadType, Pcs, LockedPcs, Threads
  <2>3. BufType'
    BY <1>6 DEF StartDone, bufs, BufType
  <2>4. FlagType'
    BY <1>6 DEF StartDone, flags, isrv, FlagType
  <2>5. NicType'
    BY <1>6 DEF StartDone, nic, NicType
  <2> QED BY <2>1, <2>2, <2>3, <2>4, <2>5
<1>7. CASE StartDequeue(t)
  <2>1. RingType'
    BY <1>7 DEF StartDequeue, ring, RingType
  <2>2. ThreadType' /\ \A u \in Threads : CurOK(u)'
    <3>1. PICK n \in 1..MaxFrags : BeginTx(t, Head(if_snd), n)
      BY <1>7 DEF StartDequeue
    <3>2. Head(if_snd) \in Mbufs
      BY <1>7 DEF StartDequeue, BufType
    <3> QED BY <3>1, <3>2, BeginTxType, <1>7 DEF StartDequeue, ThreadType
  <2>3. BufType'
    BY <1>7 DEF StartDequeue, bufs, BufType
  <2>4. FlagType'
    BY <1>7 DEF StartDequeue, flags, isrv, FlagType
  <2>5. NicType'
    BY <1>7 DEF StartDequeue, nic, NicType
  <2> QED BY <2>1, <2>2, <2>3, <2>4, <2>5
<1>8. CASE StartDefragFails(t)
  <2>1. RingType'
    BY <1>8 DEF StartDefragFails, ring, RingType
  <2>2. ThreadType' /\ \A u \in Threads : CurOK(u)'
    BY <1>8, GotoType, PcsType DEF StartDefragFails, UnlockAndReturn, Lock, ThreadType, Pcs, LockedPcs, Threads
  <2>3. BufType'
    BY <1>8 DEF StartDefragFails, bufs, BufType
  <2>4. FlagType'
    BY <1>8 DEF StartDefragFails, flags, isrv, FlagType
  <2>5. NicType'
    BY <1>8 DEF StartDefragFails, nic, NicType
  <2> QED BY <2>1, <2>2, <2>3, <2>4, <2>5
<1> QED
  BY <1>1, <1>2, <1>3, <1>4, <1>5, <1>6, <1>7, <1>8 DEF StartStep

\* A descriptor that mx6q_tx loads stays a descriptor.
LEMMA BdUpdate ==
    ASSUME NEW d \in BdType, NEW b \in BOOLEAN, NEW x \in Mbufs \cup {None}
    PROVE  [d EXCEPT !.r = b, !.m = x] \in BdType
BY DEF BdType

\* The steps of mx6q_tx.
LEMMA TxStepType ==
    ASSUME TypeInv, NEW t \in Threads, TxStep(t)
    PROVE  TypeInv'
<1> USE DEF TypeInv, TypeOK
<1>1. CASE TxLoad(t)
  <2>1. RingType'
    <3>1. cur[t] \in CurType
      BY DEF ThreadType
    <3>2. CASE bd[cur[t].idx].r
      BY <1>1, <3>2 DEF TxLoad, RingType
    <3>3. CASE ~bd[cur[t].idx].r
      <4>1. LoadedBd(t) \in BdType
        <5>1. /\ bd[cur[t].idx] \in BdType
              /\ (cur[t].i > 0) \in BOOLEAN /\ cur[t].m \in Mbufs \cup {None}
          BY <3>1 DEF RingType, CurType
        <5> QED BY <5>1, BdUpdate, Zenon DEF LoadedBd
      <4> QED BY <1>1, <3>1, <3>3, <4>1 DEF TxLoad, RingType, CurType
    <3> QED BY <3>2, <3>3
  <2>2. ThreadType' /\ \A u \in Threads : CurOK(u)'
    <3>1. /\ cur[t] \in CurType /\ cur \in [Threads -> CurType]
          /\ cur[t].i < cur[t].n /\ cur[t].m \in Mbufs /\ pc[t] = "load"
      BY <1>1 DEF TxLoad, ThreadType, CurOK
    <3>2. CASE bd[cur[t].idx].r
      BY <1>1, <3>2, GotoType, PcsType DEF TxLoad, ThreadType
    <3>3. CASE ~bd[cur[t].idx].r
      <4> DEFINE c == [cur[t] EXCEPT !.idx = NEXT_TX(@), !.i = @ + 1]
      <4>1. cur' = [cur EXCEPT ![t] = c]
        BY <1>1, <3>3 DEF TxLoad
      <4>2. NEXT_TX(cur[t].idx) \in Idx
        BY <3>1, NextTxValue DEF CurType
      <4>3. cur[t].i + 1 \in 0..MaxFrags
        BY <3>1, RingAssumption DEF CurType
      <4>4. c \in CurType /\ c.i = cur[t].i + 1 /\ c.n = cur[t].n /\ c.m = cur[t].m
        BY <3>1, <4>2, <4>3 DEF CurType
      <4>5. /\ pc' = [pc EXCEPT ![t] = IF cur[t].i + 1 = cur[t].n THEN "commit"
                                                                 ELSE "load"]
            /\ sndex' = sndex
        BY <1>1, <3>3 DEF TxLoad, Goto
      <4>6. ThreadType'
        BY <3>1, <4>1, <4>4, <4>5 DEF ThreadType, Pcs, LockedPcs, TxPcs
      <4>7. CurOK(t)'
        <5>1. pc'[t] = "load" => c.i < c.n
          BY <3>1, <4>4, <4>5 DEF CurType, ThreadType
        <5> QED BY <3>1, <4>1, <4>4, <5>1 DEF CurOK
      <4>8. \A u \in Threads \ {t} : CurOK(u)'
        BY <3>1, <4>1, <4>5 DEF CurOK, ThreadType
      <4> QED BY <4>6, <4>7, <4>8
    <3> QED BY <3>2, <3>3
  <2>3. BufType'
    BY <1>1 DEF TxLoad, BufType, CurOK
  <2>4. FlagType'
    BY <1>1 DEF TxLoad, flags, isrv, FlagType
  <2>5. NicType'
    BY <1>1 DEF TxLoad, nic, NicType
  <2> QED BY <2>1, <2>2, <2>3, <2>4, <2>5
<1>2. CASE TxCommit(t)
  <2>1. RingType'
    <3> DEFINE k == (cur[t].first + cur[t].n - 1) % N
    <3>1. cur[t] \in CurType
      BY DEF ThreadType
    <3>2. k \in Idx
      BY <3>1, ModIdx DEF CurType, Idx
    <3> HIDE DEF k
    <3>3. bd' = [bd EXCEPT ![k].l = TRUE]
      BY <1>2 DEF TxCommit, k
    <3>4. bd' \in [Idx -> BdType]
      BY <3>2, <3>3 DEF RingType, BdType
    <3> QED BY <1>2, <3>1, <3>4 DEF TxCommit, RingType, CurType
  <2>2. ThreadType' /\ \A u \in Threads : CurOK(u)'
    BY <1>2, GotoType, PcsType DEF TxCommit, ThreadType, Pcs, LockedPcs, TxPcs
  <2>3. BufType'
    BY <1>2 DEF TxCommit, bufs, BufType
  <2>4. FlagType'
    BY <1>2 DEF TxCommit, flags, isrv, FlagType
  <2>5. NicType'
    BY <1>2 DEF TxCommit, nic, NicType
  <2> QED BY <2>1, <2>2, <2>3, <2>4, <2>5
<1>3. CASE TxReady(t)
  <2>1. RingType'
    <3>1. cur[t].first \in Idx
      BY DEF ThreadType, CurType
    <3> QED BY <1>3, <3>1 DEF TxReady, RingType, BdType
  <2>2. ThreadType' /\ \A u \in Threads : CurOK(u)'
    BY <1>3, GotoType, PcsType DEF TxReady, ThreadType, Pcs, LockedPcs, TxPcs
  <2>3. BufType'
    BY <1>3 DEF TxReady, bufs, BufType
  <2>4. FlagType'
    BY <1>3 DEF TxReady, flags, isrv, FlagType
  <2>5. NicType'
    BY <1>3 DEF TxReady, nic, NicType
  <2> QED BY <2>1, <2>2, <2>3, <2>4, <2>5
<1>4. CASE TxKick(t)
  <2>1. RingType'
    BY <1>4 DEF TxKick, ring, RingType
  <2>2. ThreadType' /\ \A u \in Threads : CurOK(u)'
    BY <1>4, GotoType, PcsType DEF TxKick, ThreadType
  <2>3. BufType'
    BY <1>4 DEF TxKick, bufs, BufType
  <2>4. FlagType'
    BY <1>4 DEF TxKick, flags, isrv, FlagType
  <2>5. NicType'
    <3>1. tdar' \in BOOLEAN
      BY <1>4 DEF TxKick
    <3> QED BY <1>4, <3>1 DEF TxKick, NicType
  <2> QED BY <2>1, <2>2, <2>3, <2>4, <2>5
<1> QED
  BY <1>1, <1>2, <1>3, <1>4 DEF TxStep

\* A step of mx6q_transmit_complete.
LEMMA ReapStepType ==
    ASSUME TypeInv, NEW t \in Threads, ReapStep(t)
    PROVE  TypeInv'
<1> USE DEF TypeInv, TypeOK
<1>1. RingType'
  BY NoCurType, NextTxValue DEF ReapStep, ReapDescriptor, RingType
<1>2. ThreadType' /\ \A u \in Threads : CurOK(u)'
  BY DEF ReapStep, ThreadType, CurOK
<1>3. BufType'
  BY DEF ReapStep, ReapDescriptor, RingType, BufType
<1>4. FlagType'
  BY DEF ReapStep, flags, isrv, FlagType
<1>5. NicType'
  BY DEF ReapStep, nic, NicType
<1> QED BY <1>1, <1>2, <1>3, <1>4, <1>5

\* mx6q_output takes the lock.
LEMMA OutputEnterType ==
    ASSUME TypeInv, NEW m \in Mbufs, OutputEnter(m)
    PROVE  TypeInv'
<1> USE DEF TypeInv, TypeOK
<1>1. CASE OutputEnter(m)
  <2>1. RingType'
    BY <1>1 DEF OutputEnter, ring, RingType
  <2>2. ThreadType' /\ \A u \in Threads : CurOK(u)'
    <3> DEFINE l == IF NoSpace THEN "space" ELSE "take"
               c == [cur["out"] EXCEPT !.m = m]
    <3>1. /\ pc' = [pc EXCEPT !["out"] = l] /\ cur' = [cur EXCEPT !["out"] = c]
          /\ sndex' = "out"
      BY <1>1 DEF OutputEnter, Goto, Lock
    <3>2. "out" \in Threads /\ l \in {"space", "take"} /\ l \in Pcs
      BY DEF Threads, Pcs, LockedPcs
    <3>3. c \in CurType /\ c.m = m
      BY <3>2 DEF ThreadType, CurType
    <3>4. ThreadType'
      BY <3>1, <3>2, <3>3 DEF ThreadType
    <3>5. CurOK("out")'
      BY <3>1, <3>2, <3>3 DEF CurOK, ThreadType
    <3>6. \A u \in Threads \ {"out"} : CurOK(u)'
      BY <3>1 DEF CurOK, ThreadType
    <3> QED BY <3>4, <3>5, <3>6
  <2>3. BufType'
    BY <1>1 DEF OutputEnter, bufs, BufType
  <2>4. FlagType'
    BY <1>1 DEF OutputEnter, flags, isrv, FlagType
  <2>5. NicType'
    BY <1>1 DEF OutputEnter, nic, NicType
  <2> QED BY <2>1, <2>2, <2>3, <2>4, <2>5
<1> QED
  BY <1>1 DEF OutputEnter

\* The rest of mx6q_output.
LEMMA OutputStepType ==
    ASSUME TypeInv, OutputStep
    PROVE  TypeInv'
<1> USE DEF TypeInv, TypeOK
<1>1. CASE OutputReaped
  <2>1. RingType'
    BY <1>1 DEF OutputReaped, ring, RingType
  <2>2. ThreadType' /\ \A u \in Threads : CurOK(u)'
    <3>1. "out" \in Threads
      BY DEF Threads
    <3>2. CASE NoSpace
      BY <1>1, <3>1, <3>2, GotoType, PcsType DEF OutputReaped, UnlockAndReturn, ThreadType
    <3>3. CASE ~NoSpace
      BY <1>1, <3>1, <3>3 DEF OutputReaped, Goto, ThreadType, CurOK, Pcs, LockedPcs
    <3> QED BY <3>2, <3>3
  <2>3. BufType'
    <3>1. cur["out"].m \in Mbufs
      BY <1>1 DEF OutputReaped, CurOK, Threads
    <3> QED BY <1>1, <3>1 DEF OutputReaped, BufType
  <2>4. FlagType'
    BY <1>1 DEF OutputReaped, flags, isrv, FlagType
  <2>5. NicType'
    BY <1>1 DEF OutputReaped, nic, NicType
  <2> QED BY <2>1, <2>2, <2>3, <2>4, <2>5
<1>2. CASE OutputTake
  <2>1. RingType'
    BY <1>2 DEF OutputTake, ring, RingType
  <2>2. ThreadType' /\ \A u \in Threads : CurOK(u)'
    <3>1. PICK n \in 1..MaxFrags : BeginTx("out", cur["out"].m, n)
      BY <1>2 DEF OutputTake
    <3>2. cur["out"].m \in Mbufs /\ "out" \in Threads
      BY <1>2 DEF OutputTake, CurOK, Threads
    <3> QED BY <3>1, <3>2, BeginTxType, <1>2 DEF OutputTake, ThreadType
  <2>3. BufType'
    BY <1>2 DEF OutputTake, bufs, BufType
  <2>4. FlagType'
    BY <1>2 DEF OutputTake, flags, isrv, FlagType
  <2>5. NicType'
    BY <1>2 DEF OutputTake, nic, NicType
  <2> QED BY <2>1, <2>2, <2>3, <2>4, <2>5
<1>3. CASE OutputDefragFails
  <2>1. RingType'
    BY <1>3 DEF OutputDefragFails, ring, RingType
  <2>2. ThreadType' /\ \A u \in Threads : CurOK(u)'
    BY <1>3, GotoType, PcsType DEF OutputDefragFails, UnlockAndReturn, Lock, ThreadType, Pcs, LockedPcs, Threads
  <2>3. BufType'
    <3>1. cur["out"].m \in Mbufs
      BY <1>3 DEF OutputDefragFails, CurOK, Threads
    <3> QED BY <1>3, <3>1 DEF OutputDefragFails, BufType
  <2>4. FlagType'
    BY <1>3 DEF OutputDefragFails, flags, isrv, FlagType
  <2>5. NicType'
    BY <1>3 DEF OutputDefragFails, nic, NicType
  <2> QED BY <2>1, <2>2, <2>3, <2>4, <2>5
<1> QED
  BY <1>1, <1>2, <1>3 DEF OutputStep

\* The stack hands a packet over.
LEMMA StackEnqueueType ==
    ASSUME TypeInv, NEW m \in Mbufs, StackEnqueue(m)
    PROVE  TypeInv'
<1> USE DEF TypeInv, TypeOK
<1>1. CASE StackEnqueue(m)
  <2>1. RingType'
    BY <1>1 DEF StackEnqueue, ring, RingType
  <2>2. ThreadType' /\ \A u \in Threads : CurOK(u)'
    <3>1. CASE oactive
      BY <1>1, <3>1 DEF StackEnqueue, ThreadType, CurOK
    <3>2. CASE ~oactive
      BY <1>1, <3>2, GotoType, PcsType DEF StackEnqueue, ThreadType, Pcs, LockedPcs, Threads
    <3> QED BY <3>1, <3>2
  <2>3. BufType'
    BY <1>1 DEF StackEnqueue, bufs, BufType
  <2>4. FlagType'
    BY <1>1 DEF StackEnqueue, flags, isrv, FlagType
  <2>5. NicType'
    BY <1>1 DEF StackEnqueue, nic, NicType
  <2> QED BY <2>1, <2>2, <2>3, <2>4, <2>5
<1> QED
  BY <1>1 DEF StackEnqueue

\* mx6q_isr.
LEMMA IsrStepType ==
    ASSUME TypeInv, IsrStep
    PROVE  TypeInv'
<1> USE DEF TypeInv, TypeOK
<1>1. CASE IsrClear
  <2>1. RingType'
    BY <1>1 DEF IsrClear, ring, RingType
  <2>2. ThreadType' /\ \A u \in Threads : CurOK(u)'
    BY <1>1 DEF IsrClear, ThreadType, CurOK
  <2>3. BufType'
    BY <1>1 DEF IsrClear, bufs, BufType
  <2>4. FlagType'
    BY <1>1 DEF IsrClear, flags, isrv, FlagType
  <2>5. NicType'
    BY <1>1 DEF IsrClear, nic, NicType
  <2> QED BY <2>1, <2>2, <2>3, <2>4, <2>5
<1>2. CASE IsrCheck
  <2>1. RingType'
    BY <1>2 DEF IsrCheck, ring, RingType
  <2>2. ThreadType' /\ \A u \in Threads : CurOK(u)'
    BY <1>2 DEF IsrCheck, ThreadType, CurOK
  <2>3. BufType'
    BY <1>2 DEF IsrCheck, bufs, BufType
  <2>4. FlagType'
    <3>1. intrPend' \in BOOLEAN /\ isr' = "idle"
      BY <1>2 DEF IsrCheck
    <3> QED BY <1>2, <3>1 DEF IsrCheck, flags, FlagType
  <2>5. NicType'
    <3>1. tdar' \in BOOLEAN
      BY <1>2 DEF IsrCheck
    <3> QED BY <1>2, <3>1 DEF IsrCheck, NicType
  <2> QED BY <2>1, <2>2, <2>3, <2>4, <2>5
<1> QED
  BY <1>1, <1>2 DEF IsrStep

\* mx6q_process_interrupt.
LEMMA IntrStepType ==
    ASSUME TypeInv, IntrStep
    PROVE  TypeInv'
<1> USE DEF TypeInv, TypeOK
<1>1. CASE IntrRun
  <2>1. RingType'
    BY <1>1 DEF IntrRun, ring, RingType
  <2>2. ThreadType' /\ \A u \in Threads : CurOK(u)'
    BY <1>1, GotoType, PcsType DEF IntrRun, UnlockAndReturn, Lock, ThreadType, Pcs, LockedPcs, Threads
  <2>3. BufType'
    BY <1>1 DEF IntrRun, bufs, BufType
  <2>4. FlagType'
    BY <1>1 DEF IntrRun, flags, isrv, FlagType
  <2>5. NicType'
    BY <1>1 DEF IntrRun, nic, NicType
  <2> QED BY <2>1, <2>2, <2>3, <2>4, <2>5
<1>2. CASE IntrTest
  <2>1. RingType'
    BY <1>2 DEF IntrTest, ring, RingType
  <2>2. ThreadType' /\ \A u \in Threads : CurOK(u)'
    BY <1>2, GotoType, PcsType DEF IntrTest, UnlockAndReturn, Lock, ThreadType, Pcs, LockedPcs, Threads
  <2>3. BufType'
    BY <1>2 DEF IntrTest, bufs, BufType
  <2>4. FlagType'
    BY <1>2 DEF IntrTest, flags, isrv, FlagType
  <2>5. NicType'
    BY <1>2 DEF IntrTest, nic, NicType
  <2> QED BY <2>1, <2>2, <2>3, <2>4, <2>5
<1>3. CASE IntrStart
  <2>1. RingType'
    BY <1>3 DEF IntrStart, ring, RingType
  <2>2. ThreadType' /\ \A u \in Threads : CurOK(u)'
    BY <1>3, GotoType, PcsType DEF IntrStart, UnlockAndReturn, Lock, ThreadType, Pcs, LockedPcs, Threads
  <2>3. BufType'
    BY <1>3 DEF IntrStart, bufs, BufType
  <2>4. FlagType'
    BY <1>3 DEF IntrStart, flags, isrv, FlagType
  <2>5. NicType'
    BY <1>3 DEF IntrStart, nic, NicType
  <2> QED BY <2>1, <2>2, <2>3, <2>4, <2>5
<1> QED
  BY <1>1, <1>2, <1>3 DEF IntrStep

\* Reaping from the link monitor, and a change of the link.
LEMMA MonitorType ==
    ASSUME TypeInv, MonitorReap \/ MonitorDone \/ LinkChange
    PROVE  TypeInv'
<1> USE DEF TypeInv, TypeOK
<1>1. CASE MonitorReap
  <2>1. RingType'
    BY <1>1 DEF MonitorReap, ring, RingType
  <2>2. ThreadType' /\ \A u \in Threads : CurOK(u)'
    BY <1>1, GotoType, PcsType DEF MonitorReap, UnlockAndReturn, Lock, ThreadType, Pcs, LockedPcs, Threads
  <2>3. BufType'
    BY <1>1 DEF MonitorReap, bufs, BufType
  <2>4. FlagType'
    BY <1>1 DEF MonitorReap, flags, isrv, FlagType
  <2>5. NicType'
    BY <1>1 DEF MonitorReap, nic, NicType
  <2> QED BY <2>1, <2>2, <2>3, <2>4, <2>5
<1>2. CASE MonitorDone
  <2>1. RingType'
    BY <1>2 DEF MonitorDone, ring, RingType
  <2>2. ThreadType' /\ \A u \in Threads : CurOK(u)'
    BY <1>2, GotoType, PcsType DEF MonitorDone, UnlockAndReturn, Lock, ThreadType, Pcs, LockedPcs, Threads
  <2>3. BufType'
    BY <1>2 DEF MonitorDone, bufs, BufType
  <2>4. FlagType'
    BY <1>2 DEF MonitorDone, flags, isrv, FlagType
  <2>5. NicType'
    BY <1>2 DEF MonitorDone, nic, NicType
  <2> QED BY <2>1, <2>2, <2>3, <2>4, <2>5
<1>3. CASE LinkChange
  <2>1. RingType'
    BY <1>3 DEF LinkChange, ring, RingType
  <2>2. ThreadType' /\ \A u \in Threads : CurOK(u)'
    BY <1>3 DEF LinkChange, ThreadType, CurOK
  <2>3. BufType'
    BY <1>3 DEF LinkChange, bufs, BufType
  <2>4. FlagType'
    BY <1>3 DEF LinkChange, flags, isrv, FlagType
  <2>5. NicType'
    BY <1>3 DEF LinkChange, nic, NicType
  <2> QED BY <2>1, <2>2, <2>3, <2>4, <2>5
<1> QED
  BY <1>1, <1>2, <1>3

\* mx6q_stop and mx6q_init.
LEMMA StopType ==
    ASSUME TypeInv, StopBegin \/ StopGraceful \/ StopTimeout \/ StopReaped \/ StopClear \/ InitUp
    PROVE  TypeInv'
<1> USE DEF TypeInv, TypeOK
<1>1. CASE StopBegin
  <2>1. RingType'
    BY <1>1 DEF StopBegin, ring, RingType
  <2>2. ThreadType' /\ \A u \in Threads : CurOK(u)'
    BY <1>1, GotoType, PcsType DEF StopBegin, UnlockAndReturn, Lock, ThreadType, Pcs, LockedPcs, Threads
  <2>3. BufType'
    BY <1>1 DEF StopBegin, bufs, BufType
  <2>4. FlagType'
    BY <1>1 DEF StopBegin, flags, isrv, FlagType
  <2>5. NicType'
    BY <1>1 DEF StopBegin, nic, NicType
  <2> QED BY <2>1, <2>2, <2>3, <2>4, <2>5
<1>2. CASE StopGraceful
  <2>1. RingType'
    BY <1>2 DEF StopGraceful, ring, RingType
  <2>2. ThreadType' /\ \A u \in Threads : CurOK(u)'
    BY <1>2, GotoType, PcsType DEF StopGraceful, UnlockAndReturn, Lock, ThreadType, Pcs, LockedPcs, Threads
  <2>3. BufType'
    BY <1>2 DEF StopGraceful, bufs, BufType
  <2>4. FlagType'
    BY <1>2 DEF StopGraceful, flags, isrv, FlagType
  <2>5. NicType'
    BY <1>2 DEF StopGraceful, nic, NicType
  <2> QED BY <2>1, <2>2, <2>3, <2>4, <2>5
<1>3. CASE StopTimeout
  <2>1. RingType'
    BY <1>3 DEF StopTimeout, ring, RingType
  <2>2. ThreadType' /\ \A u \in Threads : CurOK(u)'
    BY <1>3, GotoType, PcsType DEF StopTimeout, UnlockAndReturn, Lock, ThreadType, Pcs, LockedPcs, Threads
  <2>3. BufType'
    BY <1>3 DEF StopTimeout, bufs, BufType
  <2>4. FlagType'
    BY <1>3 DEF StopTimeout, flags, isrv, FlagType
  <2>5. NicType'
    BY <1>3 DEF StopTimeout, nic, NicType
  <2> QED BY <2>1, <2>2, <2>3, <2>4, <2>5
<1>4. CASE StopReaped
  <2>1. RingType'
    BY <1>4 DEF StopReaped, ring, RingType
  <2>2. ThreadType' /\ \A u \in Threads : CurOK(u)'
    BY <1>4, GotoType, PcsType DEF StopReaped, UnlockAndReturn, Lock, ThreadType, Pcs, LockedPcs, Threads
  <2>3. BufType'
    BY <1>4 DEF StopReaped, bufs, BufType
  <2>4. FlagType'
    BY <1>4 DEF StopReaped, flags, isrv, FlagType
  <2>5. NicType'
    BY <1>4 DEF StopReaped, nic, NicType
  <2> QED BY <2>1, <2>2, <2>3, <2>4, <2>5
<1>5. CASE StopClear
  <2>1. RingType'
    <3>1. \A i \in Idx : StoppedBd(i) \in BdType
      BY DEF StoppedBd, RingType, BdType
    <3> QED BY <1>5, <3>1 DEF StopClear, StopIndex, RingType
  <2>2. ThreadType' /\ \A u \in Threads : CurOK(u)'
    BY <1>5, GotoType, PcsType DEF StopClear, UnlockAndReturn, Lock, ThreadType, Pcs, LockedPcs, Threads
  <2>3. BufType'
    BY <1>5 DEF StopClear, Pending, RingType, BufType
  <2>4. FlagType'
    BY <1>5 DEF StopClear, flags, isrv, FlagType
  <2>5. NicType'
    BY <1>5 DEF StopClear, nic, NicType
  <2> QED BY <2>1, <2>2, <2>3, <2>4, <2>5
<1>6. CASE InitUp
  <2>1. RingType'
    BY <1>6 DEF InitUp, ring, RingType
  <2>2. ThreadType' /\ \A u \in Threads : CurOK(u)'
    BY <1>6 DEF InitUp, ThreadType, CurOK
  <2>3. BufType'
    BY <1>6 DEF InitUp, bufs, BufType
  <2>4. FlagType'
    BY <1>6 DEF InitUp, flags, isrv, FlagType
  <2>5. NicType'
    BY <1>6 DEF InitUp, nic, NicType
  <2> QED BY <2>1, <2>2, <2>3, <2>4, <2>5
<1> QED
  BY <1>1, <1>2, <1>3, <1>4, <1>5, <1>6

\* The transmit DMA.
LEMMA DmaType ==
    ASSUME TypeInv, NicStep \/ NicPrefetchEmpty
    PROVE  TypeInv'
<1> USE DEF TypeInv, TypeOK
<1>1. CASE NicFetch
  <2>1. RingType'
    <3>1. bd[hw] \in BdType /\ hw \in Idx
      BY DEF RingType, NicType
    <3>2. [bd[hw] EXCEPT !.r = FALSE] \in BdType
      BY <3>1 DEF BdType
    <3> QED BY <1>1, <3>1, <3>2 DEF NicFetch, RingType
  <2>2. ThreadType' /\ \A u \in Threads : CurOK(u)'
    BY <1>1 DEF NicFetch, ThreadType, CurOK
  <2>3. BufType'
    BY <1>1 DEF NicFetch, bufs, BufType
  <2>4. FlagType'
    BY <1>1 DEF NicFetch, flags, isrv, FlagType
  <2>5. NicType'
    BY <1>1, NextTxValue DEF NicFetch, NicType
  <2> QED BY <2>1, <2>2, <2>3, <2>4, <2>5
<1>2. CASE NicUpdate
  <2>1. RingType'
    <3>1. bd[hw] \in BdType /\ hw \in Idx
      BY DEF RingType, NicType
    <3>2. [bd[hw] EXCEPT !.bdu = TRUE] \in BdType
      BY <3>1 DEF BdType
    <3> QED BY <1>2, <3>1, <3>2 DEF NicUpdate, RingType
  <2>2. ThreadType' /\ \A u \in Threads : CurOK(u)'
    BY <1>2 DEF NicUpdate, ThreadType, CurOK
  <2>3. BufType'
    BY <1>2 DEF NicUpdate, bufs, BufType
  <2>4. FlagType'
    BY <1>2 DEF NicUpdate, flags, isrv, FlagType
  <2>5. NicType'
    <3>1. tdar' \in BOOLEAN
      BY <1>2 DEF NicUpdate
    <3>2. hw' \in Idx
      BY <1>2, NextTxValue DEF NicUpdate, NicType
    <3> QED BY <1>2, <3>1, <3>2 DEF NicUpdate, NicType
  <2> QED BY <2>1, <2>2, <2>3, <2>4, <2>5
<1>3. CASE NicIdle
  <2>1. RingType'
    BY <1>3 DEF NicIdle, ring, RingType
  <2>2. ThreadType' /\ \A u \in Threads : CurOK(u)'
    BY <1>3 DEF NicIdle, ThreadType, CurOK
  <2>3. BufType'
    BY <1>3 DEF NicIdle, bufs, BufType
  <2>4. FlagType'
    BY <1>3 DEF NicIdle, flags, isrv, FlagType
  <2>5. NicType'
    BY <1>3 DEF NicIdle, nic, NicType
  <2> QED BY <2>1, <2>2, <2>3, <2>4, <2>5
<1>4. CASE NicPrefetchEmpty
  <2>1. RingType'
    BY <1>4 DEF NicPrefetchEmpty, ring, RingType
  <2>2. ThreadType' /\ \A u \in Threads : CurOK(u)'
    BY <1>4 DEF NicPrefetchEmpty, ThreadType, CurOK
  <2>3. BufType'
    BY <1>4 DEF NicPrefetchEmpty, bufs, BufType
  <2>4. FlagType'
    BY <1>4 DEF NicPrefetchEmpty, flags, isrv, FlagType
  <2>5. NicType'
    BY <1>4 DEF NicPrefetchEmpty, nic, NicType
  <2> QED BY <2>1, <2>2, <2>3, <2>4, <2>5
<1> QED
  BY <1>1, <1>2, <1>3, <1>4 DEF NicStep

\* Every step keeps the types.
LEMMA NextTypeInv == TypeInv /\ [Next]_vars => TypeInv'
<1> SUFFICES ASSUME TypeInv, [Next]_vars PROVE TypeInv'
  OBVIOUS
<1>1. CASE UNCHANGED vars
  BY <1>1 DEF vars, TypeInv, TypeOK, RingType, BdType, ThreadType, CurOK,
              BufType, FlagType, NicType
<1>2. CASE \E m \in Mbufs : StackEnqueue(m) \/ OutputEnter(m)
  BY <1>2, StackEnqueueType, OutputEnterType
<1>3. CASE \E t \in Threads : ThreadStep(t)
  BY <1>3, ReapStepType, StartStepType, TxStepType DEF ThreadStep
<1>4. CASE OutputStep \/ IntrStep \/ IsrStep
  BY <1>4, OutputStepType, IntrStepType, IsrStepType
<1>5. CASE NicStep \/ NicPrefetchEmpty
  BY <1>5, DmaType
<1>6. CASE MonitorReap \/ MonitorDone \/ LinkChange
  BY <1>6, MonitorType
<1>7. CASE StopBegin \/ StopGraceful \/ StopTimeout \/ StopReaped
           \/ StopClear \/ InitUp
  BY <1>7, StopType
<1> QED
  BY <1>1, <1>2, <1>3, <1>4, <1>5, <1>6, <1>7 DEF Next, NextLink, NextUp

\* Type correctness of the transmit side: whatever the interleaving of the
\* threads, the interrupt handler and the NIC, stop and init included, the
\* descriptor indexes stay inside the ring and every queue holds mbufs.
THEOREM TxTypeCorrect == Spec => []TypeOK
<1>1. TypeInv => TypeOK
  BY DEF TypeInv
<1> QED BY <1>1, InitTypeInv, NextTypeInv, PTL DEF Spec

-----------------------------------------------------------------------------
(* The descriptor ring, while the interface is up                          *)

\* A thread in the middle of start, output, tx or a reap holds if_snd_ex.
LockOK == \A t \in Threads : pc[t] \in LockedPcs => sndex = t

\* The counter is the distance between the indexes.
RingOK == inuse = Dist(cidx, pidx)

\* A thread past the space check has room for the largest packet, and in
\* mx6q_tx it has loaded i descriptors from pidx on.
LoadOK(t) ==
    /\ pc[t] \in {"deq", "take", "load", "commit"} => inuse + MaxFrags < N
    /\ pc[t] \in {"load", "commit"} =>
         /\ cur[t].first = pidx
         /\ Dist(pidx, cur[t].idx) = cur[t].i
         /\ 1 <= cur[t].n
    /\ pc[t] = "commit" => cur[t].i = cur[t].n
    /\ pc[t] = "ready" => Dist(cidx, cur[t].first) < inuse

\* The NIC's descriptors are in the booked part of the ring, or among those
\* a thread is loading behind it.
ReadyAt(i) ==
    \/ Dist(cidx, i) < inuse
    \/ \E t \in Threads : /\ pc[t] \in {"load", "commit"}
                          /\ Dist(cidx, i) < inuse + cur[t].i
ReadyOK == \A i \in Idx : bd[i].r => ReadyAt(i)

LoadsOK == \A t \in Threads : LoadOK(t)
RingInv == LockOK /\ RingOK /\ LoadsOK /\ ReadyOK

\* The initial ring is empty.
LEMMA InitRingInv == Init => RingInv
<1> SUFFICES ASSUME Init PROVE RingInv
  OBVIOUS
<1>1. LockOK /\ LoadsOK
  BY DEF Init, LockOK, LoadsOK, LoadOK, LockedPcs, TxPcs
<1>2. RingOK
  BY DEF Init, RingOK, Dist
<1>3. ReadyOK
  BY DEF Init, ReadyOK, EmptyBd
<1> QED BY <1>1, <1>2, <1>3 DEF RingInv

\* A thread that holds the lock is alone in the code the lock guards.
LEMMA AloneInside ==
    ASSUME RingInv, NEW t \in Threads, sndex = t \/ sndex = None
    PROVE  \A u \in Threads \ {t} : pc[u] \notin LockedPcs
BY RingAssumption DEF RingInv, LockOK

\* A step of the interrupt handler or the NIC, which at most gives
\* descriptors back.
LEMMA RingQuiet ==
    ASSUME TypeInv, RingInv, UNCHANGED <<pidx, cidx, inuse, pc, cur, sndex>>,
           \A i \in Idx : bd'[i].r => bd[i].r
    PROVE  RingInv'
<1>1. LockOK' /\ RingOK' /\ LoadsOK'
  BY DEF RingInv, LockOK, RingOK, LoadsOK, LoadOK, Dist
<1>2. \A i \in Idx : ReadyAt(i) => ReadyAt(i)'
  BY DEF ReadyAt, Dist
<1>3. ReadyOK'
  BY <1>2 DEF RingInv, ReadyOK
<1> QED BY <1>1, <1>3 DEF RingInv

\* A thread that moves on outside mx6q_tx, taking, keeping or dropping the
\* lock, and leaves the ring alone.
LEMMA RingMove ==
    ASSUME TypeInv, RingInv, NEW t \in Threads, NEW l \in Pcs,
           Goto(t, l), UNCHANGED <<bd, pidx, cidx, inuse>>,
           pc[t] \notin {"load", "commit"}, l \notin {"load", "commit", "ready"},
           l \in {"deq", "take"} => inuse + MaxFrags < N,
           \A u \in Threads \ {t} : cur'[u] = cur[u],
           sndex' = sndex \/ sndex = t \/ sndex = None,
           l \in LockedPcs => sndex' = t
    PROVE  RingInv'
<1>1. /\ pc' = [pc EXCEPT ![t] = l] /\ pc \in [Threads -> Pcs]
      /\ pc'[t] = l /\ \A u \in Threads \ {t} : pc'[u] = pc[u]
  BY DEF Goto, TypeInv, TypeOK, ThreadType
<1>2. LockOK'
  BY <1>1, AloneInside DEF RingInv, LockOK
<1>3. RingOK'
  BY DEF RingInv, RingOK, Dist
<1>4. LoadsOK'
  <2>1. LoadOK(t)'
    BY <1>1 DEF LoadOK
  <2>2. \A u \in Threads \ {t} : LoadOK(u)'
    BY <1>1 DEF RingInv, LoadsOK, LoadOK, Dist
  <2> QED BY <2>1, <2>2 DEF LoadsOK
<1>5. ReadyOK'
  <2>1. \A i \in Idx : ReadyAt(i) => ReadyAt(i)'
    BY <1>1 DEF ReadyAt, Dist
  <2> QED BY <2>1 DEF RingInv, ReadyOK
<1> QED BY <1>2, <1>3, <1>4, <1>5 DEF RingInv

\* A thread that enters mx6q_tx after the space check.
LEMMA RingBegin ==
    ASSUME TypeInv, RingInv, NEW t \in Threads, NEW m, NEW n \in 1..MaxFrags,
           pc[t] \in {"deq", "take"}, BeginTx(t, m, n),
           UNCHANGED <<bd, pidx, cidx, inuse, sndex>>
    PROVE  RingInv'
<1> DEFINE c == [m |-> m, n |-> n, i |-> 0, first |-> pidx, idx |-> pidx]
<1>1. /\ pc'[t] = "load" /\ \A u \in Threads \ {t} : pc'[u] = pc[u]
      /\ cur'[t] = c /\ \A u \in Threads \ {t} : cur'[u] = cur[u]
  BY DEF BeginTx, Goto, TypeInv, TypeOK, ThreadType
<1>2. LockOK'
  BY <1>1 DEF RingInv, LockOK, LockedPcs, TxPcs
<1>3. RingOK'
  BY DEF RingInv, RingOK, Dist
<1>4. LoadsOK'
  <2>1. LoadOK(t)'
    <3>1. Dist(pidx, pidx) = 0
      BY RingAssumption DEF Dist, TypeInv, TypeOK, RingType, Idx
    <3>2. inuse + MaxFrags < N
      BY DEF RingInv, LoadsOK, LoadOK
    <3> QED BY <1>1, <3>1, <3>2 DEF LoadOK, Dist
  <2>2. \A u \in Threads \ {t} : LoadOK(u)'
    BY <1>1 DEF RingInv, LoadsOK, LoadOK, Dist
  <2> QED BY <2>1, <2>2 DEF LoadsOK
<1>5. ReadyOK'
  <2>1. \A i \in Idx : ReadyAt(i) => ReadyAt(i)'
    BY <1>1 DEF ReadyAt, Dist
  <2> QED BY <2>1 DEF RingInv, ReadyOK
<1> QED BY <1>2, <1>3, <1>4, <1>5 DEF RingInv

\* Where a thread loads, counted from the consumer index: behind everything
\* that is booked and everything it has loaded.
LEMMA LoadPlace ==
    ASSUME TypeInv, RingInv, NEW t \in Threads, pc[t] \in {"load", "commit"}
    PROVE  /\ cur[t] \in CurType /\ cur[t].idx \in Idx /\ cur[t].first = pidx
           /\ Dist(cidx, cur[t].idx) = inuse + cur[t].i
           /\ inuse + MaxFrags < N /\ cur[t].i <= MaxFrags
           /\ cur[t].n \in 1..MaxFrags
           /\ sndex = t /\ \A u \in Threads \ {t} : pc[u] \notin LockedPcs
<1>1. /\ cur[t] \in CurType /\ cidx \in Idx /\ pidx \in Idx /\ inuse \in Int
  BY DEF TypeInv, TypeOK, ThreadType, RingType
<1>2. /\ cur[t].idx \in Idx /\ cur[t].i \in 0..MaxFrags
      /\ cur[t].n \in 0..MaxFrags
  BY <1>1 DEF CurType
<1>3. /\ inuse = Dist(cidx, pidx) /\ inuse + MaxFrags < N
      /\ cur[t].first = pidx /\ Dist(pidx, cur[t].idx) = cur[t].i
      /\ 1 <= cur[t].n
  BY DEF RingInv, RingOK, LoadsOK, LoadOK
<1>4. Dist(cidx, cur[t].idx) = inuse + cur[t].i
  BY <1>1, <1>2, <1>3, DistAdd, RingAssumption
<1>5. sndex = t
  BY DEF RingInv, LockOK, LockedPcs, TxPcs
<1> QED BY <1>1, <1>2, <1>3, <1>4, <1>5, AloneInside, RingAssumption

\* The space check is enough: the descriptor mx6q_tx is about to load is not
\* the NIC's.
LEMMA LoadFree ==
    ASSUME TypeInv, RingInv, NEW t \in Threads, pc[t] = "load"
    PROVE  ~bd[cur[t].idx].r
<1>1. /\ cur[t].idx \in Idx /\ Dist(cidx, cur[t].idx) = inuse + cur[t].i
      /\ \A u \in Threads \ {t} : pc[u] \notin LockedPcs
      /\ cur[t] \in CurType /\ inuse \in Int
  BY LoadPlace DEF TypeInv, TypeOK, RingType
<1>2. cur[t].i \in Nat
  BY <1>1, RingAssumption DEF CurType
<1>3. ~ReadyAt(cur[t].idx)
  BY <1>1, <1>2 DEF ReadyAt, LockedPcs, TxPcs
<1> QED BY <1>1, <1>3 DEF RingInv, ReadyOK

\* Loading a descriptor.
LEMMA RingLoad ==
    ASSUME TypeInv, RingInv, NEW t \in Threads, TxLoad(t)
    PROVE  RingInv'
<1>1. pc[t] = "load"
  BY DEF TxLoad
<1>2. ~bd[cur[t].idx].r
  BY <1>1, LoadFree
<1>3. /\ cur[t] \in CurType /\ cur[t].idx \in Idx /\ cur[t].first = pidx
      /\ Dist(cidx, cur[t].idx) = inuse + cur[t].i
      /\ inuse + MaxFrags < N /\ cur[t].n \in 1..MaxFrags
      /\ sndex = t /\ \A u \in Threads \ {t} : pc[u] \notin LockedPcs
  BY <1>1, LoadPlace
<1>4. /\ cur[t].i \in Nat /\ cur[t].i < cur[t].n /\ inuse \in Int
      /\ cidx \in Idx /\ pidx \in Idx /\ MaxFrags \in Nat /\ N \in Nat
  BY <1>1, <1>3, RingAssumption
     DEF CurType, TypeInv, TypeOK, RingType, CurOK
<1>5. /\ bd' = [bd EXCEPT ![cur[t].idx] = LoadedBd(t)]
      /\ cur' = [cur EXCEPT ![t] = [cur[t] EXCEPT !.idx = NEXT_TX(cur[t].idx),
                                                  !.i = cur[t].i + 1]]
      /\ pc' = [pc EXCEPT ![t] = IF cur[t].i + 1 = cur[t].n THEN "commit"
                                                            ELSE "load"]
      /\ UNCHANGED <<sndex, pidx, cidx, inuse>>
  BY <1>2 DEF TxLoad, Goto
<1>6. /\ cur'[t].idx = NEXT_TX(cur[t].idx) /\ cur'[t].i = cur[t].i + 1
      /\ cur'[t].n = cur[t].n /\ cur'[t].first = pidx
      /\ \A u \in Threads \ {t} : cur'[u] = cur[u] /\ pc'[u] = pc[u]
      /\ pc'[t] \in {"commit", "load"}
      /\ pc'[t] = "commit" => cur'[t].i = cur'[t].n
  BY <1>3, <1>5 DEF TypeInv, TypeOK, ThreadType, CurType
<1>7. LockOK'
  BY <1>3, <1>5, <1>6 DEF RingInv, LockOK
<1>8. RingOK'
  BY <1>5 DEF RingInv, RingOK, Dist
<1>9. LoadsOK'
  <2>1. LoadOK(t)'
    <3>1. Dist(pidx, cur[t].idx) = cur[t].i
      BY <1>1 DEF RingInv, LoadsOK, LoadOK
    <3>2. inuse >= 0
      BY <1>4, DistRange DEF RingInv, RingOK, Idx
    <3>3. Dist(pidx, NEXT_TX(cur[t].idx)) = cur[t].i + 1
      BY <1>3, <1>4, <3>1, <3>2, DistNext
    <3> QED BY <1>3, <1>4, <1>5, <1>6, <3>3 DEF LoadOK, Dist
  <2>2. \A u \in Threads \ {t} : LoadOK(u)'
    BY <1>3, <1>5, <1>6 DEF LoadOK, LockedPcs, TxPcs
  <2> QED BY <2>1, <2>2 DEF LoadsOK
<1>10. ReadyOK'
  <2>1. SUFFICES ASSUME NEW j \in Idx, bd'[j].r PROVE ReadyAt(j)'
    BY DEF ReadyOK
  <2>2. CASE j = cur[t].idx
    <3>1. Dist(cidx, j) < inuse + cur'[t].i
      BY <1>3, <1>4, <1>6, <2>2
    <3> QED BY <1>5, <1>6, <3>1 DEF ReadyAt, Dist
  <2>3. CASE j # cur[t].idx
    <3>1. bd[j].r
      BY <1>5, <2>1, <2>3 DEF TypeInv, TypeOK, RingType
    <3>2. Dist(cidx, j) < inuse \/ Dist(cidx, j) < inuse + cur[t].i
      BY <1>3, <3>1 DEF RingInv, ReadyOK, ReadyAt, LockedPcs, TxPcs
    <3>3. Dist(cidx, j) \in Int
      BY <1>4, DistRange DEF Idx
    <3>4. Dist(cidx, j) < inuse + cur'[t].i
      BY <1>4, <1>6, <3>2, <3>3
    <3> QED BY <1>5, <1>6, <3>4 DEF ReadyAt, Dist
  <2> QED BY <2>2, <2>3
<1> QED BY <1>7, <1>8, <1>9, <1>10 DEF RingInv

\* Booking the descriptors of a packet.
LEMMA RingCommit ==
    ASSUME TypeInv, RingInv, NEW t \in Threads, TxCommit(t)
    PROVE  RingInv'
<1> DEFINE k == (cur[t].first + cur[t].n - 1) % N
<1>1. pc[t] = "commit"
  BY DEF TxCommit
<1>2. /\ cur[t] \in CurType /\ cur[t].idx \in Idx /\ cur[t].first = pidx
      /\ Dist(cidx, cur[t].idx) = inuse + cur[t].i
      /\ inuse + MaxFrags < N /\ cur[t].n \in 1..MaxFrags
      /\ sndex = t /\ \A u \in Threads \ {t} : pc[u] \notin LockedPcs
  BY <1>1, LoadPlace
<1>3. /\ cur[t].i = cur[t].n /\ inuse \in Int /\ cidx \in Idx /\ pidx \in Idx
      /\ inuse = Dist(cidx, pidx) /\ MaxFrags \in Nat /\ N \in Nat
  BY <1>1, RingAssumption
     DEF RingInv, RingOK, LoadsOK, LoadOK, TypeInv, TypeOK, RingType
<1>4. k \in Idx
  <2>1. cur[t].first + cur[t].n - 1 \in Int
    BY <1>2, <1>3 DEF Idx
  <2> QED BY <2>1, ModIdx
<1> HIDE DEF k
<1>5. /\ bd' = [bd EXCEPT ![k].l = TRUE]
      /\ pidx' = cur[t].idx /\ inuse' = inuse + cur[t].n
      /\ pc' = [pc EXCEPT ![t] = "ready"]
      /\ UNCHANGED <<sndex, cidx, cur>>
  BY DEF TxCommit, Goto, k
<1>6. /\ pc'[t] = "ready" /\ \A u \in Threads \ {t} : pc'[u] = pc[u]
      /\ \A j \in Idx : bd'[j].r = bd[j].r
  BY <1>4, <1>5 DEF TypeInv, TypeOK, ThreadType, RingType, BdType
<1>7. LockOK'
  BY <1>2, <1>5, <1>6 DEF RingInv, LockOK
<1>8. RingOK'
  BY <1>2, <1>3, <1>5 DEF RingOK, Dist
<1>9. LoadsOK'
  <2>1. LoadOK(t)'
    BY <1>2, <1>3, <1>5, <1>6 DEF LoadOK, Dist
  <2>2. \A u \in Threads \ {t} : LoadOK(u)'
    BY <1>2, <1>5, <1>6 DEF LoadOK, LockedPcs, TxPcs
  <2> QED BY <2>1, <2>2 DEF LoadsOK
<1>10. ReadyOK'
  <2>1. SUFFICES ASSUME NEW j \in Idx, bd[j].r PROVE ReadyAt(j)'
    BY <1>6 DEF ReadyOK
  <2>2. Dist(cidx, j) < inuse \/ Dist(cidx, j) < inuse + cur[t].n
    BY <1>2, <1>3, <2>1 DEF RingInv, ReadyOK, ReadyAt, LockedPcs, TxPcs
  <2>3. Dist(cidx, j) \in Int
    BY <1>3, DistRange DEF Idx
  <2>4. Dist(cidx, j) < inuse'
    BY <1>2, <1>3, <1>5, <2>2, <2>3
  <2> QED BY <1>5, <2>4 DEF ReadyAt, Dist
<1> QED BY <1>7, <1>8, <1>9, <1>10 DEF RingInv

\* Handing the packet to the NIC.
LEMMA RingReady ==
    ASSUME TypeInv, RingInv, NEW t \in Threads, TxReady(t)
    PROVE  RingInv'
<1>1. /\ pc[t] = "ready" /\ cur[t].first \in Idx
      /\ Dist(cidx, cur[t].first) < inuse
  BY DEF TxReady, RingInv, LoadsOK, LoadOK, TypeInv, TypeOK, ThreadType, CurType
<1>2. /\ bd' = [bd EXCEPT ![cur[t].first].r = TRUE]
      /\ pc' = [pc EXCEPT ![t] = "kick"]
      /\ UNCHANGED <<pidx, cidx, inuse, sndex, cur>>
  BY DEF TxReady, Goto
<1>3. /\ pc'[t] = "kick" /\ \A u \in Threads \ {t} : pc'[u] = pc[u]
      /\ \A j \in Idx \ {cur[t].first} : bd'[j].r = bd[j].r
  BY <1>2 DEF TypeInv, TypeOK, ThreadType, RingType
<1>4. LockOK'
  BY <1>1, <1>2, <1>3 DEF RingInv, LockOK, LockedPcs, TxPcs
<1>5. RingOK'
  BY <1>2 DEF RingInv, RingOK, Dist
<1>6. LoadsOK'
  BY <1>2, <1>3 DEF RingInv, LoadsOK, LoadOK, Dist
<1>7. ReadyOK'
  <2>1. \A j \in Idx : ReadyAt(j) => ReadyAt(j)'
    BY <1>1, <1>2, <1>3 DEF ReadyAt, Dist
  <2>2. ReadyAt(cur[t].first)
    BY <1>1 DEF ReadyAt
  <2> QED BY <1>1, <1>3, <2>1, <2>2 DEF RingInv, ReadyOK
<1> QED BY <1>4, <1>5, <1>6, <1>7 DEF RingInv

\* Reaping a descriptor.
LEMMA RingReap ==
    ASSUME TypeInv, RingInv, NEW t \in Threads, ReapStep(t)
    PROVE  RingInv'
<1>1. /\ pc[t] \in LockedPcs \ {"deq", "take", "load", "commit", "ready"}
      /\ cidx # pidx
      /\ bd' = [bd EXCEPT ![cidx] = EmptyBd]
      /\ cidx' = NEXT_TX(cidx) /\ inuse' = inuse - 1
      /\ UNCHANGED <<pidx, pc, cur, sndex>>
  BY DEF ReapStep, ReapDescriptor, LockedPcs
<1>2. /\ cidx \in Idx /\ pidx \in Idx /\ inuse \in Int /\ inuse = Dist(cidx, pidx)
      /\ bd \in [Idx -> BdType] /\ N \in Nat
  BY RingAssumption DEF TypeInv, TypeOK, RingType, RingInv, RingOK
<1>3. \A u \in Threads : u # t => pc[u] \notin LockedPcs
  BY <1>1, AloneInside DEF RingInv, LockOK
<1>4. LockOK'
  BY <1>1 DEF RingInv, LockOK
<1>5. RingOK'
  BY <1>1, <1>2, DistDrop DEF RingOK, Dist
<1>6. LoadsOK'
  BY <1>1, <1>3 DEF LoadsOK, LoadOK, LockedPcs, TxPcs
<1>7. ReadyOK'
  <2>1. SUFFICES ASSUME NEW j \in Idx, bd'[j].r PROVE ReadyAt(j)'
    BY DEF ReadyOK
  <2>2. j # cidx
    <3>1. bd'[cidx] = EmptyBd
      BY <1>1, <1>2
    <3> QED BY <2>1, <3>1 DEF EmptyBd
  <2>3. bd[j].r
    BY <1>1, <1>2, <2>1, <2>2
  <2>4. Dist(cidx, j) < inuse
    BY <1>1, <1>3, <2>3 DEF RingInv, ReadyOK, ReadyAt, LockedPcs, TxPcs
  <2>5. Dist(NEXT_TX(cidx), j) = Dist(cidx, j) - 1 /\ Dist(cidx, j) \in Int
    <3>1. Dist(NEXT_TX(cidx), j) = Dist(cidx, j) - 1
      BY <1>2, <2>2, DistDrop
    <3>2. Dist(cidx, j) \in Int
      BY <1>2, DistRange DEF Idx
    <3> QED BY <3>1, <3>2
  <2>6. Dist(NEXT_TX(cidx), j) < inuse'
    BY <1>1, <1>2, <2>4, <2>5
  <2> QED BY <1>1, <2>6 DEF ReadyAt, Dist
<1> QED BY <1>4, <1>5, <1>6, <1>7 DEF RingInv

\* The steps of mx6q_start.
LEMMA RingStart ==
    ASSUME TypeInv, RingInv, NEW t \in Threads, StartStep(t)
    PROVE  RingInv'
<1>1. CASE StartDequeue(t)
  BY <1>1, RingBegin DEF StartDequeue, ring
<1>2. CASE ~StartDequeue(t)
  <2>1. /\ pc[t] \in LockedPcs \ {"load", "commit"}
        /\ UNCHANGED <<bd, pidx, cidx, inuse, cur>>
    BY <1>2 DEF StartStep, StartPurge, StartEnter, StartLoop, StartReaped,
                StartFull, StartDone, StartDefragFails, ring, LockedPcs
  <2>2. sndex = t
    BY <2>1 DEF RingInv, LockOK
  <2>3. CASE StartPurge(t) \/ StartFull(t) \/ StartDone(t)
    <3>1. Goto(t, Return(t))
      BY <2>3 DEF StartPurge, StartFull, StartDone, UnlockAndReturn
    <3>2. Return(t) \in Pcs \ (LockedPcs \cup {"load", "commit", "ready", "deq", "take"})
      BY DEF Return, Pcs, LockedPcs, TxPcs
    <3> QED BY <2>1, <2>2, <3>1, <3>2, RingMove
  <2>4. CASE StartEnter(t) \/ StartDefragFails(t)
    <3>1. Goto(t, "loop") /\ sndex' = sndex
      BY <2>4 DEF StartEnter, StartDefragFails
    <3>2. "loop" \in Pcs
      BY DEF Pcs, LockedPcs
    <3> QED BY <2>1, <2>2, <3>1, <3>2, RingMove
  <2>5. CASE StartLoop(t) \/ StartReaped(t)
    <3>1. PICK l \in {"reap", "full", "deq"} :
            Goto(t, l) /\ (l = "deq" => ~NoSpace) /\ sndex' = sndex
      BY <2>5 DEF StartLoop, StartReaped
    <3>2. l \in Pcs \ {"load", "commit", "ready", "take"}
      BY DEF Pcs, LockedPcs
    <3>3. l = "deq" => inuse + MaxFrags < N
      BY <3>1, RingAssumption DEF NoSpace, TypeInv, TypeOK, RingType
    <3> QED BY <2>1, <2>2, <3>1, <3>2, <3>3, RingMove
  <2> QED BY <1>2, <2>3, <2>4, <2>5 DEF StartStep
<1> QED BY <1>1, <1>2

\* The end of mx6q_tx.
LEMMA RingKick ==
    ASSUME TypeInv, RingInv, NEW t \in Threads, TxKick(t)
    PROVE  RingInv'
<1>1. /\ pc[t] = "kick" /\ Goto(t, AfterTx(t))
      /\ UNCHANGED <<bd, pidx, cidx, inuse>>
      /\ \A u \in Threads \ {t} : cur'[u] = cur[u]
      /\ sndex' = IF t = "out" THEN None ELSE sndex
  BY DEF TxKick, ring, TypeInv, TypeOK, ThreadType
<1>2. sndex = t
  BY <1>1 DEF RingInv, LockOK, LockedPcs, TxPcs
<1>3. /\ AfterTx(t) \in Pcs \ {"load", "commit", "ready", "deq", "take"}
      /\ AfterTx(t) \in LockedPcs => t # "out"
  BY DEF AfterTx, Pcs, LockedPcs, TxPcs
<1> QED BY <1>1, <1>2, <1>3, RingMove

\* The steps of mx6q_output.
LEMMA RingOutput ==
    ASSUME TypeInv, RingInv,
           OutputStep \/ \E m \in Mbufs : OutputEnter(m)
    PROVE  RingInv'
<1>1. "out" \in Threads /\ inuse \in Int
  BY DEF Threads, TypeInv, TypeOK, RingType
<1>2. ~NoSpace => inuse + MaxFrags < N
  BY <1>1, RingAssumption DEF NoSpace
<1>3. CASE \E m \in Mbufs : OutputEnter(m)
  <2>1. PICK l \in {"space", "take"} :
          /\ Goto("out", l) /\ (l = "take" => ~NoSpace)
          /\ pc["out"] = "idle" /\ sndex = None /\ sndex' = "out"
          /\ UNCHANGED <<bd, pidx, cidx, inuse>>
          /\ \A u \in Threads \ {"out"} : cur'[u] = cur[u]
    BY <1>3 DEF OutputEnter, Lock, ring, TypeInv, TypeOK, ThreadType
  <2>2. l \in Pcs \ {"load", "commit", "ready", "deq"}
    BY DEF Pcs, LockedPcs
  <2> QED BY <1>1, <1>2, <2>1, <2>2, RingMove
<1>4. CASE OutputTake
  BY <1>1, <1>4, RingBegin DEF OutputTake, ring
<1>5. CASE OutputReaped \/ OutputDefragFails
  <2>1. PICK l \in {"idle", "take"} :
          /\ Goto("out", l) /\ (l = "take" => ~NoSpace /\ sndex' = sndex)
          /\ pc["out"] \in {"space", "take"}
          /\ UNCHANGED <<bd, pidx, cidx, inuse>>
          /\ \A u \in Threads \ {"out"} : cur'[u] = cur[u]
    BY <1>5 DEF OutputReaped, OutputDefragFails, UnlockAndReturn, Return, ring,
                TypeInv, TypeOK, ThreadType
  <2>2. sndex = "out"
    BY <1>1, <2>1 DEF RingInv, LockOK, LockedPcs
  <2>3. l \in Pcs \ {"load", "commit", "ready", "deq"}
        /\ (l \in LockedPcs => l = "take")
    BY DEF Pcs, LockedPcs, TxPcs
  <2> QED BY <1>1, <1>2, <2>1, <2>2, <2>3, RingMove
<1> QED BY <1>3, <1>4, <1>5 DEF OutputStep

\* The steps of the other threads.
LEMMA RingOthers ==
    ASSUME TypeInv, RingInv,
           \/ \E m \in Mbufs : StackEnqueue(m)
           \/ IntrStep \/ MonitorReap \/ MonitorDone
    PROVE  RingInv'
<1>1. "stack" \in Threads /\ "intr" \in Threads
  BY DEF Threads
<1>2. {"idle", "start", "mon", "pi", "pilock"} \subseteq
        Pcs \ {"load", "commit", "ready", "deq", "take"}
      /\ "idle" \notin LockedPcs /\ "pi" \notin LockedPcs
      /\ "pilock" \notin LockedPcs /\ "mon" \in LockedPcs
  BY DEF Pcs, LockedPcs, TxPcs
<1>3. CASE \E m \in Mbufs : StackEnqueue(m)
  <2>1. CASE oactive
    BY <1>3, <2>1, RingQuiet DEF StackEnqueue, ring
  <2>2. CASE ~oactive
    BY <1>1, <1>2, <1>3, <2>2, RingMove DEF StackEnqueue, ring
  <2> QED BY <2>1, <2>2
<1>4. CASE IntrStep
  <2>1. PICK l \in {"pi", "pilock", "idle", "start"} :
          /\ Goto("intr", l) /\ pc["intr"] \in {"idle", "pi", "pilock"}
          /\ UNCHANGED <<bd, pidx, cidx, inuse, cur>>
          /\ \/ l # "start" /\ sndex' = sndex
             \/ sndex = None /\ sndex' = "intr"
    BY <1>4 DEF IntrStep, IntrRun, IntrTest, IntrStart, Lock, ring
  <2>2. l \in LockedPcs => l = "start"
    BY <1>2, <2>1
  <2> QED BY <1>1, <1>2, <2>1, <2>2, RingMove
<1>5. CASE MonitorReap
  BY <1>1, <1>2, <1>5, RingMove DEF MonitorReap, Lock, ring
<1>6. CASE MonitorDone
  <2>1. /\ Goto("stack", "idle") /\ pc["stack"] = "mon"
        /\ UNCHANGED <<bd, pidx, cidx, inuse, cur>>
    BY <1>6 DEF MonitorDone, UnlockAndReturn, Return, ring
  <2>2. sndex = "stack"
    BY <1>1, <1>2, <2>1 DEF RingInv, LockOK
  <2> QED BY <1>1, <1>2, <2>1, <2>2, RingMove
<1> QED BY <1>3, <1>4, <1>5, <1>6

\* The steps of the interrupt handler, the NIC and the link.
LEMMA RingHardware ==
    ASSUME TypeInv, RingInv,
           IsrStep \/ NicStep \/ NicPrefetchEmpty \/ LinkChange
    PROVE  RingInv'
<1>1. UNCHANGED <<pidx, cidx, inuse, pc, cur, sndex>>
  BY DEF IsrStep, IsrClear, IsrCheck, NicStep, NicFetch, NicUpdate, NicIdle,
         NicPrefetchEmpty, LinkChange, ring
<1>2. \A i \in Idx : bd'[i].r => bd[i].r
  <2>1. bd \in [Idx -> BdType] /\ hw \in Idx
    BY DEF TypeInv, TypeOK, RingType, NicType
  <2>2. CASE NicFetch
    <3>1. bd' = [bd EXCEPT ![hw] = [bd[hw] EXCEPT !.r = FALSE]]
      BY <2>2 DEF NicFetch
    <3> QED BY <2>1, <3>1 DEF BdType
  <2>3. CASE NicUpdate
    <3>1. bd' = [bd EXCEPT ![hw] = [bd[hw] EXCEPT !.bdu = TRUE]]
      BY <2>3 DEF NicUpdate
    <3> QED BY <2>1, <3>1 DEF BdType
  <2>4. CASE IsrStep \/ NicIdle \/ NicPrefetchEmpty \/ LinkChange
    <3>1. bd' = bd
      BY <2>4 DEF IsrStep, IsrClear, IsrCheck, NicIdle, NicPrefetchEmpty,
                  LinkChange, ring
    <3> QED BY <3>1
  <2> QED BY <2>2, <2>3, <2>4 DEF NicStep
<1> QED BY <1>1, <1>2, RingQuiet

\* Every step of an interface that is up keeps the ring's invariant.
LEMMA NextRingInv == TypeInv /\ RingInv /\ [NextLink]_vars => RingInv'
<1> SUFFICES ASSUME TypeInv, RingInv, [NextLink]_vars PROVE RingInv'
  OBVIOUS
<1>1. CASE UNCHANGED vars
  BY <1>1, RingQuiet DEF vars
<1>2. CASE \E t \in Threads : ThreadStep(t)
  BY <1>2, RingReap, RingStart, RingLoad, RingCommit, RingReady, RingKick
     DEF ThreadStep, TxStep
<1>3. CASE OutputStep \/ \E m \in Mbufs : OutputEnter(m)
  BY <1>3, RingOutput
<1>4. CASE (\E m \in Mbufs : StackEnqueue(m))
           \/ IntrStep \/ MonitorReap \/ MonitorDone
  BY <1>4, RingOthers
<1>5. CASE IsrStep \/ NicStep \/ NicPrefetchEmpty \/ LinkChange
  BY <1>5, RingHardware
<1> QED BY <1>1, <1>2, <1>3, <1>4, <1>5 DEF NextLink, NextUp

\* The invariant of the transmit ring, for every ring size and fragment limit.
THEOREM TxRingInvariant == SpecLink => [](TypeInv /\ RingInv)
<1>1. Init => TypeInv /\ RingInv
  BY InitTypeInv, InitRingInv
<1>2. TypeInv /\ RingInv /\ [NextLink]_vars => (TypeInv /\ RingInv)'
  BY NextTypeInv, NextRingInv DEF Next
<1> QED BY <1>1, <1>2, PTL DEF SpecLink

\* The invariant is about the counter and the indexes as the property has them.
LEMMA RingAccounted == TypeInv /\ RingInv => RingAccounting
<1> SUFFICES ASSUME TypeInv, RingInv PROVE RingAccounting
  OBVIOUS
<1>1. pidx \in Idx /\ cidx \in Idx /\ inuse = Dist(cidx, pidx)
  BY DEF TypeInv, TypeOK, RingType, RingInv, RingOK
<1>2. (pidx - cidx) % N = inuse
  BY <1>1, DistMod
<1>3. inuse <= N - 1
  BY <1>1, DistRange, RingAssumption DEF Idx
<1> QED BY <1>2, <1>3 DEF RingAccounting

\* tx_descr_inuse is always the distance between the ring indexes, and the
\* ring is never full: mx6q_tx, mx6q_transmit_complete and the link monitor
\* keep the counter and the indexes in step.
THEOREM TxRingAccounting == SpecLink => []RingAccounting
BY RingAccounted, TxRingInvariant, PTL

\* The branch of mx6q_tx that "should NEVER happen" does not happen while the
\* interface stays up: the space check its callers make, on a ring of any
\* size larger than the fragment limit, is enough.
THEOREM TxNeverHitsEnd == SpecLink => []NeverHitsEnd
<1>1. TypeInv /\ RingInv => NeverHitsEnd
  BY LoadFree DEF NeverHitsEnd
<1> QED BY <1>1, TxRingInvariant, PTL

-----------------------------------------------------------------------------
(* The NIC's place in the ring *)

\* How many of the booked descriptors the NIC has fetched.
Fetched == Dist(cidx, hw) + (IF phase = "update" THEN 1 ELSE 0)

\* The first descriptor of a packet that is booked and not yet the NIC's.
Held(j) == \E t \in Threads : pc[t] = "ready" /\ cur[t].first = j

\* The NIC is in the booked part of the ring, or just behind it.
PlaceOK == Fetched <= inuse

\* What it has fetched is not ready any more and what it has not is.
SplitOK == \A j \in Idx : Dist(cidx, j) < inuse =>
             (bd[j].r <=> Dist(cidx, j) >= Fetched /\ ~Held(j))

\* A packet being loaded is ready but for its first descriptor.
BehindOK == \A t \in Threads : pc[t] \in {"load", "commit"} =>
              /\ ~bd[pidx].r
              /\ \A j \in Idx : inuse < Dist(cidx, j) /\ Dist(cidx, j) < inuse + cur[t].i
                    => bd[j].r

\* The NIC does not pass the first descriptor of a packet before it is ready.
HeldOK == \A t \in Threads : pc[t] = "ready" => Dist(cidx, cur[t].first) >= Fetched

\* A packet ends before the producer index and before a packet that is not
\* ready.
LastOK == \A j \in Idx :
            Dist(cidx, j) < inuse /\ (NEXT_TX(j) = pidx \/ Held(NEXT_TX(j))) => bd[j].l

\* No descriptor is marked as written back that the NIC has still to fetch or
\* to write back.
UpdateOK == /\ \A j \in Idx : Dist(cidx, j) >= Fetched => ~bd[j].bdu
            /\ phase = "update" => bd[hw].l /\ ~bd[hw].bdu

FrameInv == /\ PlaceOK /\ SplitOK /\ BehindOK /\ HeldOK /\ LastOK /\ UpdateOK
            /\ FrameWhole

\* Two descriptors as far from a third, or before the same one, are one.
LEMMA DistInj ==
    ASSUME NEW a \in Idx, NEW b \in Idx, NEW c \in Idx
    PROVE  /\ Dist(c, a) = Dist(c, b) => a = b
           /\ NEXT_TX(a) = NEXT_TX(b) => a = b
<1>1. Dist(c, a) = Dist(c, b) => a = b
  BY RingAssumption DEF Dist, Idx
<1>2. NEXT_TX(a) = NEXT_TX(b) => a = b
  BY NextTxValue, RingAssumption DEF Idx
<1> QED BY <1>1, <1>2

\* The numbers the invariant is about.
LEMMA RingTypes ==
    ASSUME TypeInv, RingInv
    PROVE  /\ N \in Nat \ {0} /\ cidx \in Idx /\ pidx \in Idx /\ hw \in Idx /\ inuse \in Nat
           /\ inuse = Dist(cidx, pidx) /\ inuse < N
           /\ \A j \in Idx : Dist(cidx, j) \in Nat /\ Dist(cidx, j) < N
           /\ Fetched \in Nat
           /\ bd \in [Idx -> BdType] /\ pc \in [Threads -> Pcs] /\ cur \in [Threads -> CurType]
           /\ \A t \in Threads : /\ cur[t].first \in Idx /\ cur[t].idx \in Idx
                                 /\ cur[t].i \in Nat /\ cur[t].n \in Nat
<1>1. /\ N \in Nat \ {0} /\ cidx \in Idx /\ pidx \in Idx /\ hw \in Idx /\ inuse \in Int
      /\ inuse = Dist(cidx, pidx) /\ bd \in [Idx -> BdType] /\ pc \in [Threads -> Pcs]
      /\ cur \in [Threads -> CurType]
  BY RingAssumption DEF TypeInv, TypeOK, RingType, NicType, ThreadType, RingInv, RingOK
<1>2. \A j \in Idx : Dist(cidx, j) \in Nat /\ Dist(cidx, j) < N
  <2>1. ASSUME NEW j \in Idx PROVE Dist(cidx, j) \in Idx
    BY <1>1, DistRange
  <2>2. \A i \in Idx : i \in Nat /\ i < N
    BY <1>1 DEF Idx
  <2> QED BY <2>1, <2>2
<1>3. Fetched \in Nat
  BY <1>1, <1>2 DEF Fetched
<1>4. \A t \in Threads : /\ cur[t].first \in Idx /\ cur[t].idx \in Idx
                         /\ cur[t].i \in Nat /\ cur[t].n \in Nat
  BY <1>1, RingAssumption DEF CurType
<1> QED BY <1>1, <1>2, <1>3, <1>4

\* The descriptor at the producer index is not the NIC's.
LEMMA ProducerFree ==
    ASSUME TypeInv, RingInv, FrameInv
    PROVE  ~bd[pidx].r
<1>1. CASE \E t \in Threads : pc[t] \in {"load", "commit"}
  BY <1>1 DEF FrameInv, BehindOK
<1>2. CASE ~\E t \in Threads : pc[t] \in {"load", "commit"}
  <2>1. ~ReadyAt(pidx)
    BY <1>2, RingTypes DEF ReadyAt
  <2> QED BY <2>1, RingTypes DEF RingInv, ReadyOK
<1> QED BY <1>1, <1>2

\* A step that leaves the ring and the NIC's place in it alone, and in which
\* no thread loads a packet or makes one ready.
LEMMA FrameQuiet ==
    ASSUME FrameInv, UNCHANGED <<bd, pidx, cidx, inuse, hw, phase>>,
           \A u \in Threads : /\ pc'[u] \in {"load", "commit", "ready"}
                                   => pc'[u] = pc[u] /\ cur'[u] = cur[u]
                              /\ pc[u] = "ready" => pc'[u] = "ready"
    PROVE  FrameInv'
<1>1. Fetched' = Fetched /\ \A j \in Idx : Dist(cidx, j)' = Dist(cidx, j)
  BY DEF Fetched, Dist
<1>2. \A j : Held(j)' <=> Held(j)
  BY DEF Held
<1>3. PlaceOK' /\ UpdateOK' /\ FrameWhole'
  BY <1>1 DEF FrameInv, PlaceOK, UpdateOK, FrameWhole, Dist
<1>4. SplitOK'
  BY <1>1, <1>2 DEF FrameInv, SplitOK, Dist
<1>5. LastOK'
  BY <1>1, <1>2 DEF FrameInv, LastOK, Dist
<1>6. BehindOK'
  BY <1>1 DEF FrameInv, BehindOK, Dist
<1>7. HeldOK'
  BY <1>1 DEF FrameInv, HeldOK, Dist
<1> QED BY <1>3, <1>4, <1>5, <1>6, <1>7 DEF FrameInv

\* A packet enters mx6q_tx.
LEMMA FrameBegin ==
    ASSUME TypeInv, RingInv, FrameInv, NEW t \in Threads, NEW m, NEW n \in 1..MaxFrags,
           pc[t] \in {"deq", "take"}, BeginTx(t, m, n),
           UNCHANGED <<bd, pidx, cidx, inuse, hw, phase>>
    PROVE  FrameInv'
<1>1. /\ pc'[t] = "load" /\ \A u \in Threads \ {t} : pc'[u] = pc[u] /\ cur'[u] = cur[u]
      /\ cur'[t].i = 0
  BY RingTypes DEF BeginTx, Goto
<1>2. Fetched' = Fetched /\ \A j \in Idx : Dist(cidx, j)' = Dist(cidx, j)
  BY DEF Fetched, Dist
<1>3. \A j : Held(j)' <=> Held(j)
  BY <1>1 DEF Held
<1>4. PlaceOK' /\ UpdateOK' /\ FrameWhole'
  BY <1>2 DEF FrameInv, PlaceOK, UpdateOK, FrameWhole, Dist
<1>5. SplitOK'
  BY <1>2, <1>3 DEF FrameInv, SplitOK, Dist
<1>6. LastOK'
  BY <1>2, <1>3 DEF FrameInv, LastOK, Dist
<1>7. BehindOK'
  <2>1. ~bd'[pidx'].r
    BY ProducerFree
  <2>2. \A j \in Idx : ~(inuse < Dist(cidx, j) /\ Dist(cidx, j) < inuse + cur'[t].i)
    BY <1>1, RingTypes
  <2> QED BY <1>1, <1>2, <2>1, <2>2 DEF FrameInv, BehindOK, Dist
<1>8. HeldOK'
  BY <1>1, <1>2 DEF FrameInv, HeldOK, Dist
<1> QED BY <1>4, <1>5, <1>6, <1>7, <1>8 DEF FrameInv

\* A thread inside mx6q_tx is the only one that loads a packet or has one to
\* make ready.
LEMMA OneLoader ==
    ASSUME RingInv, NEW t \in Threads, pc[t] \in LockedPcs
    PROVE  \A u \in Threads \ {t} : pc[u] \notin LockedPcs
BY AloneInside DEF RingInv, LockOK

\* Loading a descriptor.
LEMMA FrameLoad ==
    ASSUME TypeInv, RingInv, FrameInv, NEW t \in Threads, TxLoad(t)
    PROVE  FrameInv'
<1>1. pc[t] = "load" /\ ~bd[cur[t].idx].r
  BY LoadFree DEF TxLoad
<1>2. /\ cur[t].idx \in Idx /\ Dist(cidx, cur[t].idx) = inuse + cur[t].i
      /\ cur[t].first = pidx /\ inuse + MaxFrags < N /\ cur[t].i <= MaxFrags
  BY <1>1, LoadPlace
<1>3. /\ bd' = [bd EXCEPT ![cur[t].idx] = LoadedBd(t)]
      /\ UNCHANGED <<pidx, cidx, inuse, hw, phase>>
      /\ cur'[t].i = cur[t].i + 1 /\ pc'[t] \in {"load", "commit"}
      /\ \A u \in Threads \ {t} : pc'[u] = pc[u]
  BY <1>1, RingTypes DEF TxLoad, Goto, nic, CurType
<1>4. \A u \in Threads \ {t} : pc[u] \notin {"load", "commit", "ready"}
  BY <1>1, OneLoader DEF LockedPcs, TxPcs
<1>5. /\ \A j \in Idx \ {cur[t].idx} : bd'[j] = bd[j]
      /\ cur[t].i > 0 => bd'[cur[t].idx].r
      /\ ~(cur[t].i > 0) => ~bd'[cur[t].idx].r
      /\ bd'[cur[t].idx].bdu = bd[cur[t].idx].bdu
  <2>1. bd'[cur[t].idx] = LoadedBd(t)
    BY <1>2, <1>3, RingTypes
  <2>2. bd[cur[t].idx] \in BdType
    BY <1>2, RingTypes
  <2> QED BY <1>2, <1>3, <2>1, <2>2, RingTypes DEF LoadedBd, BdType
<1>6. Fetched' = Fetched /\ \A j \in Idx : Dist(cidx, j)' = Dist(cidx, j)
  BY <1>3 DEF Fetched, Dist
<1>7. \A j : ~Held(j)' /\ ~Held(j)
  BY <1>1, <1>3, <1>4 DEF Held
<1>8. PlaceOK' /\ HeldOK'
  BY <1>3, <1>4, <1>6 DEF FrameInv, PlaceOK, HeldOK
<1>9. SplitOK'
  <2>1. \A j \in Idx : Dist(cidx, j) < inuse => j # cur[t].idx
    BY <1>2, RingTypes
  <2> QED BY <1>3, <1>5, <1>6, <1>7, <2>1 DEF FrameInv, SplitOK
<1>10. LastOK'
  <2>1. \A j \in Idx : Dist(cidx, j) < inuse => j # cur[t].idx
    BY <1>2, RingTypes
  <2> QED BY <1>3, <1>5, <1>6, <1>7, <2>1 DEF FrameInv, LastOK
<1>11. BehindOK'
  <2>1. ~bd'[pidx].r
    <3>1. CASE cur[t].i = 0
      <4>1. Dist(cidx, cur[t].idx) = Dist(cidx, pidx)
        BY <1>2, <3>1, RingTypes
      <4>2. cur[t].idx = pidx
        BY <1>2, <4>1, RingTypes, DistInj
      <4> QED BY <1>5, <3>1, <4>2
    <3>2. CASE cur[t].i # 0
      <4>1. pidx # cur[t].idx
        BY <1>2, <3>2, RingTypes
      <4> QED BY <1>1, <1>5, <4>1, RingTypes DEF FrameInv, BehindOK
    <3> QED BY <3>1, <3>2
  <2>2. ASSUME NEW j \in Idx, inuse < Dist(cidx, j), Dist(cidx, j) < inuse + (cur[t].i + 1)
        PROVE  bd'[j].r
    <3>1. CASE j = cur[t].idx
      BY <1>2, <1>5, <2>2, <3>1, RingTypes
    <3>2. CASE j # cur[t].idx
      <4>1. Dist(cidx, j) # Dist(cidx, cur[t].idx)
        BY <1>2, <3>2, RingTypes, DistInj
      <4>2. Dist(cidx, j) < inuse + cur[t].i
        BY <1>2, <2>2, <4>1, RingTypes
      <4> QED BY <1>1, <1>5, <2>2, <3>2, <4>2 DEF FrameInv, BehindOK
    <3> QED BY <3>1, <3>2
  <2> QED BY <1>3, <1>4, <1>6, <2>1, <2>2 DEF BehindOK
<1>12. UpdateOK' /\ FrameWhole'
  <2>1. Dist(cidx, cur[t].idx) >= Fetched
    BY <1>2, RingTypes DEF FrameInv, PlaceOK
  <2>2. ~bd[cur[t].idx].bdu
    BY <1>2, <2>1 DEF FrameInv, UpdateOK
  <2>3. phase = "update" => hw # cur[t].idx
    BY <1>2, <2>1, RingTypes DEF Fetched
  <2>4. phase = "mid" => hw # cur[t].idx
    BY <1>1 DEF FrameInv, FrameWhole
  <2> QED BY <1>3, <1>5, <1>6, <2>2, <2>3, <2>4, RingTypes DEF FrameInv, UpdateOK, FrameWhole
<1> QED BY <1>8, <1>9, <1>10, <1>11, <1>12 DEF FrameInv

\* The last descriptor of a packet of n descriptors is just before the end.
LEMMA LastPlace ==
    ASSUME NEW a \in Idx, NEW b \in Idx, NEW n \in Nat \ {0}, Dist(a, b) = n
    PROVE  (a + n - 1) % N \in Idx /\ NEXT_TX((a + n - 1) % N) = b
<1>1. CASE a + n - 1 < N
  <2>1. (a + n - 1) % N = a + n - 1
    BY <1>1, RingAssumption DEF Idx
  <2>2. a + n - 1 \in Idx
    BY <1>1, RingAssumption DEF Idx
  <2> QED BY <1>1, <2>1, <2>2, NextTxValue, RingAssumption DEF Idx, Dist
<1>2. CASE a + n - 1 >= N
  <2>1. a + n - 1 - N \in Idx
    BY <1>2, RingAssumption DEF Idx, Dist
  <2>2. (a + n - 1) % N = a + n - 1 - N
    BY <1>2, <2>1, RingAssumption DEF Idx
  <2> QED BY <1>2, <2>1, <2>2, NextTxValue, RingAssumption DEF Idx, Dist
<1> QED BY <1>1, <1>2, RingAssumption DEF Idx

\* Booking the descriptors of a packet.
LEMMA FrameCommit ==
    ASSUME TypeInv, RingInv, FrameInv, NEW t \in Threads, TxCommit(t)
    PROVE  FrameInv'
<1> DEFINE k == (cur[t].first + cur[t].n - 1) % N
<1>1. pc[t] = "commit" /\ cur[t].i = cur[t].n
  BY DEF TxCommit, RingInv, LoadsOK, LoadOK
<1>2. /\ cur[t].idx \in Idx /\ Dist(cidx, cur[t].idx) = inuse + cur[t].n
      /\ cur[t].first = pidx /\ inuse + MaxFrags < N /\ cur[t].n \in 1..MaxFrags
      /\ Dist(pidx, cur[t].idx) = cur[t].n
  BY <1>1, LoadPlace DEF RingInv, LoadsOK, LoadOK
<1>3. /\ cur[t].n \in Nat \ {0} /\ inuse + cur[t].n < N /\ MaxFrags \in Nat
  BY <1>2, RingTypes, RingAssumption
<1>4. k \in Idx /\ NEXT_TX(k) = cur[t].idx
  BY <1>2, <1>3, LastPlace, RingTypes
<1> HIDE DEF k
<1>5. /\ bd' = [bd EXCEPT ![k].l = TRUE]
      /\ pidx' = cur[t].idx /\ inuse' = inuse + cur[t].n
      /\ UNCHANGED <<cidx, cur, hw, phase>>
      /\ pc'[t] = "ready" /\ \A u \in Threads \ {t} : pc'[u] = pc[u]
  BY RingTypes DEF TxCommit, Goto, k, nic
<1>6. \A u \in Threads \ {t} : pc[u] \notin {"load", "commit", "ready"}
  BY <1>1, OneLoader DEF LockedPcs, TxPcs
<1>7. /\ \A j \in Idx : bd'[j].r = bd[j].r /\ bd'[j].bdu = bd[j].bdu
      /\ \A j \in Idx : bd[j].l => bd'[j].l
      /\ bd'[k].l
  BY <1>4, <1>5, RingTypes DEF BdType
<1>8. Fetched' = Fetched /\ \A j \in Idx : Dist(cidx, j)' = Dist(cidx, j)
  BY <1>5 DEF Fetched, Dist
<1>9. (\A j : ~Held(j)) /\ (\A j : Held(j)' <=> j = pidx)
  BY <1>1, <1>2, <1>5, <1>6 DEF Held
<1>10. PlaceOK'
  BY <1>3, <1>5, <1>8, RingTypes DEF FrameInv, PlaceOK
<1>11. SplitOK'
  <2>1. SUFFICES ASSUME NEW j \in Idx, Dist(cidx, j) < inuse + cur[t].n
                 PROVE  bd[j].r <=> Dist(cidx, j) >= Fetched /\ j # pidx
    BY <1>5, <1>7, <1>8, <1>9 DEF SplitOK
  <2>2. CASE Dist(cidx, j) < inuse
    <3>1. j # pidx
      BY <2>2, RingTypes
    <3> QED BY <1>9, <2>2, <3>1 DEF FrameInv, SplitOK
  <2>3. CASE Dist(cidx, j) = inuse
    <3>1. j = pidx
      BY <2>3, RingTypes, DistInj
    <3> QED BY <1>1, <3>1 DEF FrameInv, BehindOK
  <2>4. CASE Dist(cidx, j) > inuse
    <3>1. j # pidx /\ Dist(cidx, j) >= Fetched
      BY <2>4, RingTypes DEF FrameInv, PlaceOK
    <3>2. bd[j].r
      BY <1>1, <2>1, <2>4 DEF FrameInv, BehindOK
    <3> QED BY <3>1, <3>2
  <2> QED BY <2>2, <2>3, <2>4, RingTypes
<1>12. BehindOK'
  BY <1>5, <1>6 DEF BehindOK
<1>13. HeldOK'
  BY <1>2, <1>5, <1>6, <1>8, RingTypes DEF FrameInv, PlaceOK, HeldOK
<1>14. LastOK'
  <2>1. SUFFICES ASSUME NEW j \in Idx, Dist(cidx, j) < inuse + cur[t].n,
                        NEXT_TX(j) = cur[t].idx \/ NEXT_TX(j) = pidx
                 PROVE  bd'[j].l
    BY <1>5, <1>8, <1>9 DEF LastOK
  <2>2. CASE NEXT_TX(j) = cur[t].idx
    BY <1>4, <1>7, <2>2, DistInj
  <2>3. CASE NEXT_TX(j) = pidx
    <3>1. Dist(cidx, j) < N - 1
      BY <1>3, <2>1, RingTypes
    <3>2. Dist(cidx, pidx) = Dist(cidx, j) + 1
      BY <2>3, <3>1, RingTypes, DistNext
    <3>3. Dist(cidx, j) < inuse
      BY <3>2, RingTypes
    <3> QED BY <1>7, <2>3, <3>3 DEF FrameInv, LastOK
  <2> QED BY <2>1, <2>2, <2>3
<1>15. UpdateOK' /\ FrameWhole'
  BY <1>5, <1>7, <1>8, RingTypes DEF FrameInv, UpdateOK, FrameWhole
<1> QED BY <1>10, <1>11, <1>12, <1>13, <1>14, <1>15 DEF FrameInv

\* Handing the packet to the NIC.
LEMMA FrameReady ==
    ASSUME TypeInv, RingInv, FrameInv, NEW t \in Threads, TxReady(t)
    PROVE  FrameInv'
<1>1. pc[t] = "ready" /\ Dist(cidx, cur[t].first) < inuse /\ cur[t].first \in Idx
  BY RingTypes DEF TxReady, RingInv, LoadsOK, LoadOK
<1>2. /\ bd' = [bd EXCEPT ![cur[t].first].r = TRUE]
      /\ UNCHANGED <<pidx, cidx, inuse, cur, hw, phase>>
      /\ pc'[t] = "kick" /\ \A u \in Threads \ {t} : pc'[u] = pc[u]
  BY RingTypes DEF TxReady, Goto, nic
<1>3. \A u \in Threads \ {t} : pc[u] \notin {"load", "commit", "ready"}
  BY <1>1, OneLoader DEF LockedPcs, TxPcs
<1>4. /\ \A j \in Idx \ {cur[t].first} : bd'[j] = bd[j]
      /\ \A j \in Idx : bd'[j].l = bd[j].l /\ bd'[j].bdu = bd[j].bdu
      /\ bd'[cur[t].first].r
  BY <1>1, <1>2, RingTypes DEF BdType
<1>5. Fetched' = Fetched /\ \A j \in Idx : Dist(cidx, j)' = Dist(cidx, j)
  BY <1>2 DEF Fetched, Dist
<1>6. (\A j : ~Held(j)') /\ (\A j : Held(j) <=> j = cur[t].first)
  BY <1>1, <1>2, <1>3 DEF Held
<1>7. PlaceOK' /\ BehindOK' /\ HeldOK'
  BY <1>2, <1>3, <1>5 DEF FrameInv, PlaceOK, BehindOK, HeldOK
<1>8. SplitOK'
  <2>1. Dist(cidx, cur[t].first) >= Fetched
    BY <1>1 DEF FrameInv, HeldOK
  <2> QED BY <1>2, <1>4, <1>5, <1>6, <2>1 DEF FrameInv, SplitOK
<1>9. LastOK'
  BY <1>2, <1>4, <1>5, <1>6 DEF FrameInv, LastOK
<1>10. UpdateOK' /\ FrameWhole'
  BY <1>2, <1>4, <1>5, RingTypes DEF FrameInv, UpdateOK, FrameWhole
<1> QED BY <1>7, <1>8, <1>9, <1>10 DEF FrameInv

\* Reaping a descriptor: it is one the NIC has done with.
LEMMA FrameReap ==
    ASSUME TypeInv, RingInv, FrameInv, NEW t \in Threads, ReapStep(t)
    PROVE  FrameInv'
<1>1. /\ pc[t] \in {"reap", "space", "mon", "stopreap"} /\ cidx # pidx
      /\ ~bd[cidx].r /\ (bd[cidx].l => bd[cidx].bdu)
      /\ bd' = [bd EXCEPT ![cidx] = EmptyBd]
      /\ cidx' = NEXT_TX(cidx) /\ inuse' = inuse - 1
      /\ UNCHANGED <<pidx, pc, cur, hw, phase>>
  BY DEF ReapStep, ReapDescriptor, Reapable, nic
<1>2. \A u \in Threads : pc[u] \notin {"load", "commit", "ready"}
  BY <1>1, OneLoader DEF LockedPcs, TxPcs
<1>3. \A j : ~Held(j) /\ ~Held(j)'
  BY <1>1, <1>2 DEF Held
<1>4. Dist(cidx, cidx) = 0 /\ inuse > 0
  BY <1>1, RingTypes, DistRange
<1>5. \A j \in Idx \ {cidx} : Dist(NEXT_TX(cidx), j) = Dist(cidx, j) - 1
  BY <1>1, RingTypes, DistDrop
<1>6. Dist(NEXT_TX(cidx), cidx) = N - 1
  <2>1. /\ cidx \in 0..(N - 1) /\ N \in Nat
        /\ NEXT_TX(cidx) = IF cidx = N - 1 THEN 0 ELSE cidx + 1
    BY RingTypes, NextTxValue DEF Idx
  <2> QED BY <2>1 DEF Dist
<1>7. 0 < Fetched
  BY <1>1, <1>3, <1>4, RingTypes DEF FrameInv, SplitOK
<1>8. hw # cidx
  <2>1. phase = "update" => hw # cidx
    BY <1>1 DEF FrameInv, UpdateOK
  <2>2. phase # "update" => hw # cidx
    BY <1>4, <1>7 DEF Fetched
  <2> QED BY <2>1, <2>2
<1>9. Fetched' = Fetched - 1
  BY <1>1, <1>5, <1>8, RingTypes DEF Fetched, Dist
<1>10. /\ \A j \in Idx \ {cidx} : bd'[j] = bd[j] /\ Dist(cidx, j)' = Dist(cidx, j) - 1
       /\ bd'[cidx] = EmptyBd /\ Dist(cidx', cidx) = N - 1
  BY <1>1, <1>5, <1>6, RingTypes DEF Dist
<1>11. PlaceOK'
  BY <1>1, <1>9, RingTypes DEF FrameInv, PlaceOK
<1>12. SplitOK'
  <2>1. SUFFICES ASSUME NEW j \in Idx, Dist(cidx', j) < inuse - 1
                 PROVE  bd'[j].r <=> Dist(cidx', j) >= Fetched - 1
    BY <1>1, <1>3, <1>9 DEF SplitOK, Dist
  <2>2. j # cidx
    BY <1>10, <2>1, RingTypes
  <2>3. bd'[j] = bd[j] /\ Dist(cidx', j) = Dist(cidx, j) - 1
    BY <1>1, <1>5, <1>10, <2>2
  <2>4. bd[j].r <=> Dist(cidx, j) >= Fetched
    BY <1>3, <2>1, <2>3, RingTypes DEF FrameInv, SplitOK
  <2> QED BY <2>3, <2>4, RingTypes
<1>13. BehindOK' /\ HeldOK'
  BY <1>1, <1>2 DEF BehindOK, HeldOK
<1>14. LastOK'
  <2>1. SUFFICES ASSUME NEW j \in Idx, Dist(cidx', j) < inuse - 1, NEXT_TX(j) = pidx
                 PROVE  bd'[j].l
    BY <1>1, <1>3 DEF LastOK, Dist
  <2>2. j # cidx
    BY <1>10, <2>1, RingTypes
  <2>3. bd'[j] = bd[j] /\ Dist(cidx', j) = Dist(cidx, j) - 1
    BY <1>1, <1>5, <1>10, <2>2
  <2> QED BY <2>1, <2>3, RingTypes DEF FrameInv, LastOK
<1>15. UpdateOK'
  <2>1. ASSUME NEW j \in Idx, Dist(cidx', j) >= Fetched - 1 PROVE ~bd'[j].bdu
    <3>1. CASE j = cidx
      BY <1>10, <3>1 DEF EmptyBd
    <3>2. CASE j # cidx
      <4>1. bd'[j] = bd[j] /\ Dist(cidx', j) = Dist(cidx, j) - 1
        BY <1>1, <1>5, <1>10, <3>2
      <4> QED BY <2>1, <4>1, RingTypes DEF FrameInv, UpdateOK
    <3> QED BY <3>1, <3>2
  <2>2. phase = "update" => bd'[hw].l /\ ~bd'[hw].bdu
    BY <1>8, <1>10, RingTypes DEF FrameInv, UpdateOK
  <2> QED BY <1>1, <1>9, <2>1, <2>2 DEF UpdateOK, Dist
<1>16. FrameWhole'
  BY <1>1, <1>8, <1>10, RingTypes DEF FrameInv, FrameWhole
<1> QED BY <1>11, <1>12, <1>13, <1>14, <1>15, <1>16 DEF FrameInv

\* The NIC fetches a descriptor: it is a booked one, and unless it ends a
\* packet the next one is booked and ready too.
LEMMA FrameFetch ==
    ASSUME TypeInv, RingInv, FrameInv, NicFetch
    PROVE  FrameInv'
<1>1. /\ bd[hw].r /\ phase \in {"mid", "boundary"}
      /\ bd' = [bd EXCEPT ![hw].r = FALSE]
      /\ UNCHANGED <<pidx, cidx, inuse, pc, cur>>
      /\ \/ bd[hw].l /\ phase' = "update" /\ hw' = hw
         \/ ~bd[hw].l /\ phase' = "mid" /\ hw' = NEXT_TX(hw)
  BY DEF NicFetch
<1>2. /\ Fetched = Dist(cidx, hw) /\ Fetched <= inuse
  BY <1>1, RingTypes DEF Fetched, FrameInv, PlaceOK
<1>3. Dist(cidx, hw) < inuse
  <2>1. hw # pidx
    BY <1>1, ProducerFree
  <2>2. Dist(cidx, hw) # Dist(cidx, pidx)
    BY <2>1, RingTypes, DistInj
  <2> QED BY <1>2, <2>2, RingTypes
<1>4. ~Held(hw)
  BY <1>1, <1>3, RingTypes DEF FrameInv, SplitOK
<1>5. Dist(cidx, NEXT_TX(hw)) = Dist(cidx, hw) + 1 /\ NEXT_TX(hw) \in Idx
  BY <1>3, RingTypes, DistNext, NextTxValue
<1>6. Fetched' = Fetched + 1
  BY <1>1, <1>2, <1>5, RingTypes DEF Fetched, Dist
<1>7. /\ \A j \in Idx \ {hw} : bd'[j] = bd[j]
      /\ \A j \in Idx : bd'[j].l = bd[j].l /\ bd'[j].bdu = bd[j].bdu
      /\ ~bd'[hw].r
  BY <1>1, RingTypes DEF BdType
<1>8. /\ \A j \in Idx : Dist(cidx, j)' = Dist(cidx, j)
      /\ \A j : Held(j)' <=> Held(j)
  BY <1>1 DEF Dist, Held
<1>9. \A j \in Idx \ {hw} : Dist(cidx, j) # Dist(cidx, hw)
  BY RingTypes, DistInj
<1>10. PlaceOK'
  BY <1>1, <1>2, <1>3, <1>6, RingTypes DEF PlaceOK
<1>11. SplitOK'
  <2>1. SUFFICES ASSUME NEW j \in Idx, Dist(cidx, j) < inuse
                 PROVE  bd'[j].r <=> Dist(cidx, j) >= Fetched + 1 /\ ~Held(j)
    BY <1>1, <1>6, <1>8 DEF SplitOK
  <2>2. CASE j = hw
    BY <1>2, <1>7, <2>2, RingTypes
  <2>3. CASE j # hw
    <3>1. bd[j].r <=> Dist(cidx, j) >= Fetched /\ ~Held(j)
      BY <2>1 DEF FrameInv, SplitOK
    <3> QED BY <1>2, <1>7, <1>9, <2>3, <3>1, RingTypes
  <2> QED BY <2>2, <2>3
<1>12. BehindOK'
  <2>1. ~bd'[pidx].r \/ bd[pidx].r
    BY <1>7, RingTypes
  <2>2. \A j \in Idx : inuse < Dist(cidx, j) => bd'[j] = bd[j]
    BY <1>3, <1>7, RingTypes
  <2> QED BY <1>1, <1>8, <2>1, <2>2 DEF FrameInv, BehindOK
<1>13. HeldOK'
  <2>1. SUFFICES ASSUME NEW u \in Threads, pc[u] = "ready"
                 PROVE  Dist(cidx, cur[u].first) >= Fetched + 1
    BY <1>1, <1>6, <1>8, RingTypes DEF HeldOK
  <2>2. cur[u].first # hw /\ cur[u].first \in Idx
    BY <1>4, <2>1, RingTypes DEF Held
  <2>3. Dist(cidx, cur[u].first) >= Fetched
    BY <2>1 DEF FrameInv, HeldOK
  <2> QED BY <1>2, <1>9, <2>2, <2>3, RingTypes
<1>14. LastOK'
  BY <1>1, <1>7, <1>8 DEF FrameInv, LastOK
<1>15. UpdateOK'
  <2>1. \A j \in Idx : Dist(cidx, j) >= Fetched + 1 => ~bd'[j].bdu
    BY <1>7, RingTypes DEF FrameInv, UpdateOK
  <2>2. phase' = "update" => bd'[hw'].l /\ ~bd'[hw'].bdu
    <3>1. ~bd[hw].bdu
      BY <1>2, RingTypes DEF FrameInv, UpdateOK
    <3> QED BY <1>1, <1>7, <3>1, RingTypes
  <2> QED BY <1>6, <1>8, <2>1, <2>2 DEF UpdateOK
<1>16. FrameWhole'
  <2>1. SUFFICES ASSUME ~bd[hw].l, hw' = NEXT_TX(hw) PROVE bd'[NEXT_TX(hw)].r
    BY <1>1 DEF FrameWhole
  <2>2. NEXT_TX(hw) # pidx /\ ~Held(NEXT_TX(hw))
    BY <1>3, <2>1, RingTypes DEF FrameInv, LastOK
  <2>3. Dist(cidx, NEXT_TX(hw)) # Dist(cidx, pidx)
    BY <1>5, <2>2, RingTypes, DistInj
  <2>4. Dist(cidx, NEXT_TX(hw)) < inuse
    BY <1>3, <1>5, <2>3, RingTypes
  <2>5. bd[NEXT_TX(hw)].r
    BY <1>2, <1>5, <2>2, <2>4, RingTypes DEF FrameInv, SplitOK
  <2>6. NEXT_TX(hw) # hw
    BY <1>5, RingTypes
  <2> QED BY <1>5, <1>7, <2>5, <2>6
<1> QED BY <1>10, <1>11, <1>12, <1>13, <1>14, <1>15, <1>16 DEF FrameInv

\* The NIC writes the last descriptor of a packet back.
LEMMA FrameUpdate ==
    ASSUME TypeInv, RingInv, FrameInv, NicUpdate
    PROVE  FrameInv'
<1>1. /\ phase = "update" /\ phase' = "boundary" /\ hw' = NEXT_TX(hw)
      /\ bd' = [bd EXCEPT ![hw].bdu = TRUE]
      /\ UNCHANGED <<pidx, cidx, inuse, pc, cur>>
  BY DEF NicUpdate
<1>2. Fetched = Dist(cidx, hw) + 1 /\ Dist(cidx, hw) + 1 <= inuse
  BY <1>1 DEF Fetched, FrameInv, PlaceOK
<1>3. Dist(cidx, NEXT_TX(hw)) = Dist(cidx, hw) + 1
  BY <1>2, RingTypes, DistNext
<1>4. Fetched' = Fetched
  BY <1>1, <1>2, <1>3, RingTypes DEF Fetched, Dist
<1>5. /\ \A j \in Idx \ {hw} : bd'[j] = bd[j]
      /\ \A j \in Idx : bd'[j].l = bd[j].l /\ bd'[j].r = bd[j].r
  BY <1>1, RingTypes DEF BdType
<1>6. /\ \A j \in Idx : Dist(cidx, j)' = Dist(cidx, j)
      /\ \A j : Held(j)' <=> Held(j)
  BY <1>1 DEF Dist, Held
<1>7. PlaceOK' /\ HeldOK'
  BY <1>1, <1>4, <1>6, RingTypes DEF FrameInv, PlaceOK, HeldOK
<1>8. SplitOK'
  BY <1>1, <1>4, <1>5, <1>6 DEF FrameInv, SplitOK
<1>9. BehindOK'
  BY <1>1, <1>5, <1>6, RingTypes DEF FrameInv, BehindOK
<1>10. LastOK'
  BY <1>1, <1>5, <1>6 DEF FrameInv, LastOK
<1>11. UpdateOK'
  <2>1. \A j \in Idx : Dist(cidx, j) >= Fetched => j # hw
    BY <1>2, RingTypes
  <2> QED BY <1>1, <1>4, <1>5, <1>6, <2>1 DEF FrameInv, UpdateOK
<1>12. FrameWhole'
  BY <1>1 DEF FrameWhole
<1> QED BY <1>7, <1>8, <1>9, <1>10, <1>11, <1>12 DEF FrameInv

\* Every step of an interface that is up keeps the NIC in its place.
LEMMA NextFrameInv ==
    ASSUME TypeInv, RingInv, FrameInv, [NextLink]_vars
    PROVE  FrameInv'
<1> USE DEF ring, nic
<1>1. ASSUME NEW t \in Threads, TxKick(t) PROVE FrameInv'
  <2>1. /\ pc'[t] \in {"idle", "loop"} /\ pc[t] = "kick"
        /\ \A u \in Threads \ {t} : pc'[u] = pc[u] /\ cur'[u] = cur[u]
    BY <1>1, RingTypes DEF TxKick, Goto, AfterTx
  <2> QED BY <1>1, <2>1, FrameQuiet DEF TxKick
<1>2. ASSUME NEW t \in Threads, StartStep(t) PROVE FrameInv'
  <2>1. CASE StartDequeue(t)
    BY <1>2, <2>1, FrameBegin DEF StartDequeue
  <2>2. CASE ~StartDequeue(t)
    <3>1. /\ \E l \in {"idle", "pi", "loop", "reap", "full", "deq"} : Goto(t, l)
          /\ UNCHANGED <<bd, pidx, cidx, inuse, hw, phase, cur>> /\ pc[t] # "ready"
      BY <1>2, <2>2, PcsType DEF StartStep, StartPurge, StartEnter, StartLoop, StartReaped,
         StartFull, StartDone, StartDefragFails, UnlockAndReturn
    <3>2. /\ pc'[t] \notin {"load", "commit", "ready"}
          /\ \A u \in Threads \ {t} : pc'[u] = pc[u]
      BY <3>1, RingTypes DEF Goto
    <3> QED BY <3>1, <3>2, FrameQuiet
  <2> QED BY <2>1, <2>2
<1>3. CASE \E t \in Threads : ThreadStep(t)
  BY <1>1, <1>2, <1>3, FrameReap, FrameLoad, FrameCommit, FrameReady DEF ThreadStep, TxStep
<1>4. CASE OutputTake
  BY <1>4, FrameBegin DEF OutputTake, Threads
<1>5. CASE OutputReaped \/ OutputDefragFails \/ \E m \in Mbufs : OutputEnter(m)
  <2>1. /\ \E l \in {"idle", "space", "take"} : Goto("out", l)
        /\ UNCHANGED <<bd, pidx, cidx, inuse, hw, phase>> /\ pc["out"] # "ready"
        /\ \A u \in Threads \ {"out"} : cur'[u] = cur[u]
    BY <1>5, RingTypes DEF OutputReaped, OutputDefragFails, OutputEnter, UnlockAndReturn, Return
  <2>2. /\ pc'["out"] \notin {"load", "commit", "ready"}
        /\ \A u \in Threads \ {"out"} : pc'[u] = pc[u]
    BY <2>1, RingTypes DEF Goto, Threads
  <2> QED BY <2>1, <2>2, FrameQuiet
<1>6. CASE IntrStep
  <2>1. /\ \E l \in {"idle", "pi", "pilock", "start"} : Goto("intr", l)
        /\ UNCHANGED <<bd, pidx, cidx, inuse, hw, phase, cur>> /\ pc["intr"] # "ready"
    BY <1>6 DEF IntrStep, IntrRun, IntrTest, IntrStart
  <2>2. /\ pc'["intr"] \notin {"load", "commit", "ready"}
        /\ \A u \in Threads \ {"intr"} : pc'[u] = pc[u]
    BY <2>1, RingTypes DEF Goto, Threads
  <2> QED BY <2>1, <2>2, FrameQuiet
<1>7. CASE MonitorReap \/ MonitorDone \/ \E m \in Mbufs : StackEnqueue(m)
  <2>1. /\ UNCHANGED pc \/ \E l \in {"idle", "mon", "start"} : Goto("stack", l)
        /\ UNCHANGED <<bd, pidx, cidx, inuse, hw, phase, cur>> /\ pc["stack"] # "ready"
    BY <1>7 DEF MonitorReap, MonitorDone, StackEnqueue, UnlockAndReturn, Return
  <2>2. /\ UNCHANGED pc \/ pc'["stack"] \notin {"load", "commit", "ready"}
        /\ \A u \in Threads \ {"stack"} : pc'[u] = pc[u]
    BY <2>1, RingTypes DEF Goto, Threads
  <2> QED BY <2>1, <2>2, FrameQuiet
<1>8. CASE IsrStep \/ NicIdle \/ NicPrefetchEmpty \/ LinkChange \/ UNCHANGED vars
  <2>1. UNCHANGED <<bd, pidx, cidx, inuse, hw, phase, cur, pc>>
    BY <1>8 DEF IsrStep, IsrClear, IsrCheck, NicIdle, NicPrefetchEmpty, LinkChange, vars
  <2> QED BY <2>1, FrameQuiet
<1> QED BY <1>3, <1>4, <1>5, <1>6, <1>7, <1>8, FrameFetch, FrameUpdate
        DEF NextLink, NextUp, OutputStep, NicStep

\* The initial ring is empty and the NIC at its start.
LEMMA InitFrameInv == Init => FrameInv
<1> SUFFICES ASSUME Init PROVE FrameInv
  OBVIOUS
<1>1. Fetched = 0 /\ inuse = 0 /\ phase = "boundary" /\ \A t \in Threads : pc[t] = "idle"
  BY RingAssumption DEF Init, Fetched, Dist
<1>2. TypeInv /\ RingInv
  BY InitTypeInv, InitRingInv
<1>3. \A j \in Idx : ~bd[j].bdu
  BY DEF Init, EmptyBd
<1> QED BY <1>1, <1>2, <1>3, RingTypes DEF FrameInv, PlaceOK, SplitOK, BehindOK, HeldOK, LastOK,
           UpdateOK, FrameWhole

\* The place of the NIC in the ring, for every ring size and fragment limit.
THEOREM TxFrameInvariant == SpecLink => [](TypeInv /\ RingInv /\ FrameInv)
<1>1. Init => TypeInv /\ RingInv /\ FrameInv
  BY InitTypeInv, InitRingInv, InitFrameInv
<1>2. TypeInv /\ RingInv /\ FrameInv /\ [NextLink]_vars => (TypeInv /\ RingInv /\ FrameInv)'
  BY NextTypeInv, NextRingInv, NextFrameInv DEF Next
<1> QED BY <1>1, <1>2, PTL DEF SpecLink

\* In the middle of a frame the NIC always finds the next descriptor ready:
\* mx6q_tx sets the ready bit of the first descriptor last of all.
THEOREM TxFrameWhole == SpecLink => []FrameWhole
<1>1. FrameInv => FrameWhole
  BY DEF FrameInv
<1> QED BY <1>1, TxFrameInvariant, PTL

\* As long as the interface is not stopped, the NIC looks for the next frame
\* where the driver will put it.
THEOREM TxHwInStep == SpecLink => []HwInStep
<1>1. TypeInv /\ RingInv /\ FrameInv => HwInStep
  <2> SUFFICES ASSUME TypeInv, RingInv, FrameInv, pidx = cidx, phase = "boundary"
               PROVE  hw = pidx
    BY DEF HwInStep
  <2>1. inuse = 0
    BY RingTypes, DistRange
  <2>2. Dist(cidx, hw) = 0
    BY <2>1, RingTypes DEF FrameInv, PlaceOK, Fetched
  <2> QED BY <2>2, RingTypes, DistRange
<1> QED BY <1>1, TxFrameInvariant, PTL

-----------------------------------------------------------------------------
(* The owners of the mbufs *)

\* A thread owns the packet it is about to transmit.
Owns(t) == cur[t].m # None /\ pc[t] \notin {"ready", "kick"}

In(q, x) == \E i \in DOMAIN q : q[i] = x
Once(q) == \A i, j \in DOMAIN q : q[i] = q[j] => i = j
Queued(m) == In(if_snd, m)
Booked(m) == \E i \in Idx : tx_pkts[i] = m
Carried(m) == \E t \in Threads : cur[t].m = m /\ Owns(t)

\* A packet is remembered where its first descriptor is, in the booked part.
PacketsOK == \A j \in Idx : tx_pkts[j] # None => Dist(cidx, j) < inuse

\* A thread has a packet only inside mx6q_tx and mx6q_output.
CarriersOK == \A t \in Threads :
                cur[t].m # None => pc[t] \in {"space", "take"} \cup TxPcs

\* No place holds a packet twice.
SingleOK ==
    /\ Once(if_snd)
    /\ \A i, j \in Idx : tx_pkts[i] # None /\ tx_pkts[i] = tx_pkts[j] => i = j

\* Every packet is in one of the places.
OneOwner(m) ==
    /\ m \in pool \/ Queued(m) \/ Booked(m) \/ Carried(m)
    /\ m \in pool => ~Queued(m) /\ ~Booked(m) /\ ~Carried(m)
    /\ Queued(m) => ~Booked(m) /\ ~Carried(m)
    /\ Booked(m) => ~Carried(m)

OwnerInv == /\ PacketsOK /\ CarriersOK /\ SingleOK
            /\ \A m \in Mbufs : OneOwner(m)

\* A packet appended to the queue.
LEMMA QueueAppend ==
    ASSUME NEW q \in Seq(Mbufs), NEW m \in Mbufs, Once(q), ~In(q, m)
    PROVE  /\ \A x : In(Append(q, m), x) <=> x = m \/ In(q, x)
           /\ Once(Append(q, m))
<1> DEFINE p == Append(q, m)
<1>1. /\ Len(q) \in Nat /\ DOMAIN q = 1..Len(q) /\ DOMAIN p = 1..(Len(q) + 1)
      /\ \A i \in 1..Len(q) : p[i] = q[i]
      /\ p[Len(q) + 1] = m
  OBVIOUS
<1> HIDE DEF p
<1>2. \A i \in DOMAIN p : i \in DOMAIN q \/ i = Len(q) + 1
  BY <1>1
<1>3. \A x : In(p, x) <=> x = m \/ In(q, x)
  BY <1>1, <1>2 DEF In
<1>4. Once(p)
  BY <1>1, <1>2 DEF Once, In
<1> QED BY <1>3, <1>4 DEF p

\* The first packet taken off the queue.
LEMMA QueueTail ==
    ASSUME NEW q \in Seq(Mbufs), q # <<>>, Once(q)
    PROVE  /\ In(q, Head(q)) /\ Head(q) \in Mbufs
           /\ \A x : In(Tail(q), x) <=> In(q, x) /\ x # Head(q)
           /\ Once(Tail(q))
<1> DEFINE p == Tail(q)
<1>1. /\ Len(q) \in Nat \ {0} /\ DOMAIN q = 1..Len(q) /\ DOMAIN p = 1..(Len(q) - 1)
      /\ \A i \in 1..(Len(q) - 1) : p[i] = q[i + 1]
      /\ Head(q) = q[1] /\ Head(q) \in Mbufs
  OBVIOUS
<1> HIDE DEF p
<1>2. In(q, Head(q))
  BY <1>1 DEF In
<1>3. \A i \in DOMAIN p : i + 1 \in DOMAIN q /\ i + 1 # 1 /\ p[i] = q[i + 1]
  BY <1>1
<1>4. \A i \in DOMAIN q : i = 1 \/ (i - 1 \in DOMAIN p /\ p[i - 1] = q[i])
  BY <1>1
<1>5. \A x : In(p, x) => In(q, x) /\ x # Head(q)
  BY <1>1, <1>3 DEF In, Once
<1>6. \A x : In(q, x) /\ x # Head(q) => In(p, x)
  BY <1>1, <1>4 DEF In
<1>7. Once(p)
  <2> SUFFICES ASSUME NEW i \in DOMAIN p, NEW j \in DOMAIN p, p[i] = p[j] PROVE i = j
    BY DEF Once
  <2>1. i + 1 = j + 1
    BY <1>3 DEF Once
  <2>2. i \in Int /\ j \in Int
    BY <1>1
  <2> QED BY <2>1, <2>2
<1> QED BY <1>1, <1>2, <1>5, <1>6, <1>7 DEF p

\* A thread that holds the lock, or takes it, is the only one with a packet.
LEMMA OneCarrier ==
    ASSUME TypeInv, RingInv, OwnerInv, NEW t \in Threads, sndex = t \/ sndex = None
    PROVE  /\ \A u \in Threads \ {t} : cur[u].m = None
           /\ \A m \in Mbufs : Carried(m) <=> cur[t].m = m /\ Owns(t)
<1>1. \A u \in Threads \ {t} : cur[u].m = None
  BY AloneInside DEF OwnerInv, CarriersOK, LockedPcs
<1> QED BY <1>1, RingAssumption DEF Carried, Owns

\* The types of the places.
LEMMA OwnerTypes ==
    ASSUME TypeInv, RingInv
    PROVE  /\ tx_pkts \in [Idx -> Mbufs \cup {None}] /\ if_snd \in Seq(Mbufs)
           /\ pool \in SUBSET Mbufs /\ None \notin Mbufs
           /\ pc \in [Threads -> Pcs] /\ cur \in [Threads -> CurType]
           /\ \A t \in Threads : cur[t] \in CurType /\ cur[t].m \in Mbufs \cup {None}
           /\ cidx \in Idx /\ pidx \in Idx /\ inuse \in Nat /\ inuse = Dist(cidx, pidx)
           /\ inuse < N
           /\ \A j \in Idx : Dist(cidx, j) \in Nat
BY RingAssumption, RingTypes DEF TypeInv, TypeOK, RingType, ThreadType, BufType, CurType

\* A step in which no packet changes hands.
LEMMA OwnerQuiet ==
    ASSUME OwnerInv, UNCHANGED <<if_snd, pool, tx_pkts, cidx, inuse>>,
           \A u \in Threads :
              /\ pc'[u] = pc[u] \/ cur[u].m = None
                   \/ {pc[u], pc'[u]} \subseteq {"space", "take", "load", "commit"}
                   \/ {pc[u], pc'[u]} \subseteq {"ready", "kick"}
              /\ cur'[u].m = cur[u].m
    PROVE  OwnerInv'
<1>1. CarriersOK'
  BY DEF OwnerInv, CarriersOK, TxPcs
<1>2. \A u \in Threads : Owns(u)' <=> Owns(u)
  BY DEF Owns
<1>3. \A m : Carried(m)' <=> Carried(m)
  BY <1>2 DEF Carried
<1>4. PacketsOK' /\ SingleOK'
  BY DEF OwnerInv, PacketsOK, SingleOK, Dist, Once
<1>5. \A m \in Mbufs : OneOwner(m)'
  BY <1>3 DEF OwnerInv, OneOwner, Queued, Booked, In
<1> QED BY <1>1, <1>4, <1>5 DEF OwnerInv

\* Steps that leave the packet array alone and move packets between the
\* others: what is to be shown of them.
LEMMA OwnerMove ==
    ASSUME OwnerInv, UNCHANGED <<tx_pkts, cidx, inuse>>, CarriersOK', Once(if_snd)',
           \A m \in Mbufs : OneOwner(m)'
    PROVE  OwnerInv'
BY DEF OwnerInv, PacketsOK, SingleOK, Dist

\* A packet is queued.
LEMMA OwnerEnqueue ==
    ASSUME TypeInv, RingInv, OwnerInv, NEW m \in Mbufs, StackEnqueue(m)
    PROVE  OwnerInv'
<1>1. /\ m \in pool /\ pool' = pool \ {m} /\ if_snd' = Append(if_snd, m)
      /\ UNCHANGED <<tx_pkts, cidx, inuse, cur>>
      /\ pc["stack"] = "idle" /\ (UNCHANGED pc \/ Goto("stack", "start"))
  BY DEF StackEnqueue, ring
<1>2. cur["stack"].m = None /\ "stack" \in Threads
  BY <1>1 DEF OwnerInv, CarriersOK, TxPcs, Threads
<1>3. \A u \in Threads : pc'[u] = pc[u] \/ cur[u].m = None
  BY <1>1, <1>2, OwnerTypes DEF Goto
<1>4. CarriersOK' /\ \A x : Carried(x)' <=> Carried(x)
  BY <1>1, <1>3 DEF OwnerInv, CarriersOK, Carried, Owns
<1>5. ~Queued(m) /\ ~Booked(m) /\ ~Carried(m) /\ Once(if_snd)
  BY <1>1 DEF OwnerInv, OneOwner, SingleOK
<1>6. (\A x : Queued(x)' <=> x = m \/ Queued(x)) /\ Once(if_snd)'
  BY <1>1, <1>5, QueueAppend, OwnerTypes DEF Queued
<1>7. \A x : Booked(x)' <=> Booked(x)
  BY <1>1 DEF Booked
<1>8. \A x \in Mbufs : OneOwner(x)'
  BY <1>1, <1>4, <1>5, <1>6, <1>7 DEF OwnerInv, OneOwner
<1> QED BY <1>1, <1>4, <1>6, <1>8, OwnerMove

\* The queue is purged.
LEMMA OwnerPurge ==
    ASSUME TypeInv, RingInv, OwnerInv, NEW t \in Threads, StartPurge(t)
    PROVE  OwnerInv'
<1>1. /\ pool' = pool \cup {if_snd[i] : i \in DOMAIN if_snd} /\ if_snd' = <<>>
      /\ UNCHANGED <<tx_pkts, cidx, inuse, cur>>
      /\ pc[t] = "start" /\ Goto(t, Return(t))
  BY DEF StartPurge, ring, UnlockAndReturn
<1>2. cur[t].m = None
  BY <1>1 DEF OwnerInv, CarriersOK, TxPcs
<1>3. \A u \in Threads : pc'[u] = pc[u] \/ cur[u].m = None
  BY <1>1, <1>2, OwnerTypes DEF Goto
<1>4. CarriersOK' /\ \A x : Carried(x)' <=> Carried(x)
  BY <1>1, <1>3 DEF OwnerInv, CarriersOK, Carried, Owns
<1>5. /\ \A x : ~Queued(x)'
      /\ \A x : x \in pool' <=> x \in pool \/ Queued(x)
      /\ Once(if_snd)'
  BY <1>1 DEF Queued, In, Once
<1>6. \A x : Booked(x)' <=> Booked(x)
  BY <1>1 DEF Booked
<1>7. \A x \in Mbufs : OneOwner(x)'
  BY <1>4, <1>5, <1>6 DEF OwnerInv, OneOwner
<1> QED BY <1>1, <1>4, <1>5, <1>7, OwnerMove

\* A packet is taken off the queue, to be transmitted or dropped.
LEMMA OwnerDequeue ==
    ASSUME TypeInv, RingInv, OwnerInv, NEW t \in Threads,
           StartDequeue(t) \/ StartDefragFails(t)
    PROVE  OwnerInv'
<1> DEFINE m == Head(if_snd)
<1>1. /\ pc[t] = "deq" /\ if_snd # <<>> /\ if_snd' = Tail(if_snd)
      /\ UNCHANGED <<tx_pkts, cidx, inuse>>
  BY DEF StartDequeue, StartDefragFails, ring
<1>2. cur[t].m = None /\ sndex = t
  BY <1>1 DEF OwnerInv, CarriersOK, TxPcs, RingInv, LockOK, LockedPcs
<1>3. \A u \in Threads : cur[u].m = None
  BY <1>2, OneCarrier
<1>4. /\ Queued(m) /\ m \in Mbufs
      /\ \A x : Queued(x)' <=> Queued(x) /\ x # m
      /\ Once(if_snd)'
  BY <1>1, QueueTail, OwnerTypes DEF Queued, OwnerInv, SingleOK
<1> HIDE DEF m
<1>5. \A x : Booked(x)' <=> Booked(x)
  BY <1>1 DEF Booked
<1>6. \A x \in Mbufs : ~Carried(x)
  BY <1>3, OwnerTypes DEF Carried
<1>7. CASE StartDequeue(t)
  <2>1. pool' = pool /\ \E n \in 1..MaxFrags : BeginTx(t, m, n)
    BY <1>7 DEF StartDequeue, m
  <2>2. /\ pc'[t] = "load" /\ cur'[t].m = m
        /\ \A u \in Threads \ {t} : cur'[u] = cur[u]
    BY <2>1, OwnerTypes DEF BeginTx, Goto
  <2>3. CarriersOK'
    BY <1>3, <2>2 DEF CarriersOK, TxPcs
  <2>4. \A x \in Mbufs : Carried(x)' <=> x = m
    BY <1>3, <1>4, <2>2, OwnerTypes DEF Carried, Owns
  <2>5. \A x \in Mbufs : OneOwner(x)'
    BY <1>4, <1>5, <1>6, <2>1, <2>4 DEF OwnerInv, OneOwner
  <2> QED BY <1>1, <1>4, <2>3, <2>5, OwnerMove
<1>8. CASE StartDefragFails(t)
  <2>1. pool' = pool \cup {m} /\ cur' = cur
    BY <1>8 DEF StartDefragFails, m
  <2>2. CarriersOK' /\ \A x \in Mbufs : ~Carried(x)'
    BY <1>3, <2>1, OwnerTypes DEF CarriersOK, Carried
  <2>3. \A x \in Mbufs : OneOwner(x)'
    BY <1>4, <1>5, <1>6, <2>1, <2>2 DEF OwnerInv, OneOwner
  <2> QED BY <1>1, <1>4, <2>2, <2>3, OwnerMove
<1> QED BY <1>7, <1>8

\* A packet is booked: it goes from the thread to the packet array.
LEMMA OwnerCommit ==
    ASSUME TypeInv, RingInv, OwnerInv, NEW t \in Threads, TxCommit(t)
    PROVE  OwnerInv'
<1> DEFINE m == cur[t].m
<1>1. /\ pc[t] = "commit" /\ tx_pkts' = [tx_pkts EXCEPT ![pidx] = m]
      /\ inuse' = inuse + cur[t].n /\ Goto(t, "ready")
      /\ UNCHANGED <<cidx, cur, if_snd, pool>>
  BY DEF TxCommit, bufs
<1>2. sndex = t /\ cur[t].n \in 1..MaxFrags
  BY <1>1, LoadPlace
<1>3. /\ \A u \in Threads \ {t} : cur[u].m = None
      /\ \A x \in Mbufs : Carried(x) <=> m = x /\ Owns(t)
  BY <1>2, OneCarrier
<1>4. pc'[t] = "ready"
  BY <1>1, OwnerTypes DEF Goto
<1>5. CarriersOK' /\ \A x \in Mbufs : ~Carried(x)'
  BY <1>1, <1>3, <1>4, OwnerTypes DEF CarriersOK, Carried, Owns, TxPcs
<1>6. tx_pkts[pidx] = None
  BY OwnerTypes DEF OwnerInv, PacketsOK
<1>7. \A x \in Mbufs : Booked(x)' <=> Booked(x) \/ x = m
  BY <1>1, <1>6, OwnerTypes DEF Booked
<1>8. \A x : Queued(x)' <=> Queued(x)
  BY <1>1 DEF Queued
<1>9. PacketsOK'
  <2>1. \A j \in Idx : Dist(cidx', j) = Dist(cidx, j)
    BY <1>1
  <2>2. Dist(cidx, pidx) < inuse' /\ inuse < inuse'
    BY <1>1, <1>2, OwnerTypes
  <2>3. \A j \in Idx : tx_pkts'[j] # None => j = pidx \/ tx_pkts[j] # None
    BY <1>1, OwnerTypes
  <2>4. ASSUME NEW j \in Idx, tx_pkts'[j] # None PROVE Dist(cidx', j) < inuse'
    <3>1. CASE j = pidx
      BY <2>1, <2>2, <3>1
    <3>2. CASE tx_pkts[j] # None
      <4>1. Dist(cidx, j) < inuse
        BY <3>2 DEF OwnerInv, PacketsOK
      <4>2. Dist(cidx, j) \in Nat /\ inuse \in Nat /\ inuse' \in Int
        BY <1>1, <1>2, OwnerTypes
      <4> QED BY <2>1, <2>2, <4>1, <4>2
    <3> QED BY <2>3, <2>4, <3>1, <3>2
  <2> QED BY <2>4 DEF PacketsOK, Dist
<1>10. SingleOK'
  <2>1. m = None \/ \A j \in Idx : tx_pkts[j] # m
    BY <1>1, <1>3, OwnerTypes DEF OwnerInv, OneOwner, Booked, Owns
  <2> QED BY <1>1, <2>1, OwnerTypes DEF OwnerInv, SingleOK
<1>11. \A x \in Mbufs : OneOwner(x)'
  <2>1. \A x \in Mbufs : Carried(x) <=> x = m
    BY <1>1, <1>3, OwnerTypes DEF Owns
  <2> QED BY <1>1, <1>5, <1>7, <1>8, <2>1 DEF OwnerInv, OneOwner
<1> QED BY <1>5, <1>9, <1>10, <1>11 DEF OwnerInv

\* A descriptor is reaped, and its packet freed if it is the first.
LEMMA OwnerReap ==
    ASSUME TypeInv, RingInv, OwnerInv, NEW t \in Threads, ReapStep(t)
    PROVE  OwnerInv'
<1> DEFINE m == tx_pkts[cidx]
<1>1. /\ pidx # cidx /\ pool' = IF m = None THEN pool ELSE pool \cup {m}
      /\ tx_pkts' = [tx_pkts EXCEPT ![cidx] = None]
      /\ inuse' = inuse - 1 /\ cidx' = NEXT_TX(cidx)
      /\ UNCHANGED <<if_snd, pc, cur>>
  BY DEF ReapStep, ReapDescriptor
<1>2. CarriersOK' /\ \A x : Carried(x)' <=> Carried(x)
  BY <1>1 DEF OwnerInv, CarriersOK, Carried, Owns
<1>3. \A x : Queued(x)' <=> Queued(x)
  BY <1>1 DEF Queued
<1>4. \A x \in Mbufs : Booked(x)' <=> Booked(x) /\ x # m
  BY <1>1, OwnerTypes DEF Booked, OwnerInv, SingleOK
<1>5. m = None \/ (m \in Mbufs /\ Booked(m))
  BY OwnerTypes DEF Booked
<1>6. PacketsOK'
  <2>1. SUFFICES ASSUME NEW j \in Idx, tx_pkts'[j] # None PROVE Dist(cidx', j) < inuse'
    BY DEF PacketsOK, Dist
  <2>2. j # cidx /\ tx_pkts[j] # None
    BY <1>1, <2>1, OwnerTypes
  <2>3. Dist(cidx', j) = Dist(cidx, j) - 1
    BY <1>1, <2>2, OwnerTypes, DistDrop
  <2>4. Dist(cidx, j) < inuse
    BY <2>2 DEF OwnerInv, PacketsOK
  <2> QED BY <1>1, <2>3, <2>4, OwnerTypes
<1>7. SingleOK'
  BY <1>1, OwnerTypes DEF OwnerInv, SingleOK, Once
<1>8. \A x \in Mbufs : OneOwner(x)'
  BY <1>1, <1>2, <1>3, <1>4, <1>5, OwnerTypes DEF OwnerInv, OneOwner
<1> QED BY <1>2, <1>6, <1>7, <1>8 DEF OwnerInv

\* A step of mx6q_tx that leaves the packet where it is, or ends mx6q_tx.
LEMMA OwnerTx ==
    ASSUME TypeInv, RingInv, OwnerInv, NEW t \in Threads,
           TxLoad(t) \/ TxReady(t) \/ TxKick(t)
    PROVE  OwnerInv'
<1>1. CASE TxLoad(t)
  <2>1. pc[t] = "load" /\ ~bd[cur[t].idx].r
    BY <1>1, LoadFree DEF TxLoad
  <2>2. /\ cur' = [cur EXCEPT ![t].idx = NEXT_TX(@), ![t].i = @ + 1]
        /\ Goto(t, "commit") \/ Goto(t, "load")
        /\ UNCHANGED <<if_snd, pool, tx_pkts, cidx, inuse>>
    BY <1>1, <2>1 DEF TxLoad
  <2>3. pc'[t] \in {"load", "commit"} /\ \A u \in Threads \ {t} : pc'[u] = pc[u]
    BY <2>2, OwnerTypes DEF Goto
  <2>4. \A u \in Threads : cur'[u].m = cur[u].m
    BY <2>2, OwnerTypes DEF CurType
  <2> QED BY <2>1, <2>2, <2>3, <2>4, OwnerQuiet
<1>2. CASE TxReady(t)
  <2>1. pc[t] = "ready" /\ Goto(t, "kick") /\ UNCHANGED <<if_snd, pool, tx_pkts, cidx, inuse, cur>>
    BY <1>2 DEF TxReady, bufs
  <2>2. pc'[t] = "kick" /\ \A u \in Threads \ {t} : pc'[u] = pc[u]
    BY <2>1, OwnerTypes DEF Goto
  <2> QED BY <2>1, <2>2, OwnerQuiet
<1>3. CASE TxKick(t)
  <2>1. /\ pc[t] = "kick" /\ cur' = [cur EXCEPT ![t] = NoCur] /\ Goto(t, AfterTx(t))
        /\ UNCHANGED <<if_snd, pool, tx_pkts, cidx, inuse>>
    BY <1>3 DEF TxKick, bufs, ring
  <2>2. /\ cur'[t].m = None /\ \A u \in Threads \ {t} : pc'[u] = pc[u] /\ cur'[u] = cur[u]
    BY <2>1, OwnerTypes DEF Goto, NoCur
  <2>3. CarriersOK'
    BY <2>2 DEF OwnerInv, CarriersOK
  <2>4. ~Owns(t) /\ ~Owns(t)' /\ \A u \in Threads \ {t} : Owns(u)' <=> Owns(u)
    BY <2>1, <2>2 DEF Owns
  <2>5. \A x : Carried(x)' <=> Carried(x)
    BY <2>2, <2>4 DEF Carried
  <2>6. /\ \A x : Queued(x)' <=> Queued(x)
        /\ \A x : Booked(x)' <=> Booked(x)
        /\ Once(if_snd)'
    BY <2>1 DEF Queued, Booked, OwnerInv, SingleOK
  <2>7. \A x \in Mbufs : OneOwner(x)'
    BY <2>1, <2>5, <2>6 DEF OwnerInv, OneOwner
  <2> QED BY <2>1, <2>3, <2>6, <2>7, OwnerMove
<1> QED BY <1>1, <1>2, <1>3

\* mx6q_output takes a packet.
LEMMA OwnerOutput ==
    ASSUME TypeInv, RingInv, OwnerInv, NEW m \in Mbufs, OutputEnter(m)
    PROVE  OwnerInv'
<1>1. /\ m \in pool /\ pool' = pool \ {m} /\ sndex = None /\ pc["out"] = "idle"
      /\ cur' = [cur EXCEPT !["out"].m = m]
      /\ Goto("out", "space") \/ Goto("out", "take")
      /\ UNCHANGED <<tx_pkts, cidx, inuse, if_snd>>
  BY DEF OutputEnter, Lock, ring
<1>2. "out" \in Threads
  BY DEF Threads
<1>3. /\ \A u \in Threads : cur[u].m = None
      /\ \A x \in Mbufs : ~Carried(x)
  BY <1>1, <1>2, OneCarrier, OwnerTypes DEF OwnerInv, CarriersOK, TxPcs, Carried
<1>4. /\ pc'["out"] \in {"space", "take"} /\ cur'["out"].m = m
      /\ \A u \in Threads \ {"out"} : cur'[u] = cur[u]
  BY <1>1, <1>2, OwnerTypes DEF Goto, CurType
<1>5. CarriersOK'
  BY <1>3, <1>4 DEF CarriersOK
<1>6. \A x \in Mbufs : Carried(x)' <=> x = m
  BY <1>2, <1>3, <1>4, OwnerTypes DEF Carried, Owns
<1>7. /\ \A x : Queued(x)' <=> Queued(x)
      /\ \A x : Booked(x)' <=> Booked(x)
      /\ Once(if_snd)'
  BY <1>1 DEF Queued, Booked, OwnerInv, SingleOK
<1>8. \A x \in Mbufs : OneOwner(x)'
  BY <1>1, <1>3, <1>6, <1>7 DEF OwnerInv, OneOwner
<1> QED BY <1>1, <1>5, <1>7, <1>8, OwnerMove

\* mx6q_output drops its packet.
LEMMA OwnerDrop ==
    ASSUME TypeInv, RingInv, OwnerInv, pc["out"] \in {"space", "take"},
           pool' = pool \cup {cur["out"].m}, cur' = [cur EXCEPT !["out"] = NoCur],
           UNCHANGED <<tx_pkts, cidx, inuse, if_snd>>, cur["out"].m # None
    PROVE  OwnerInv'
<1> DEFINE m == cur["out"].m
<1>1. "out" \in Threads /\ sndex = "out"
  BY DEF RingInv, LockOK, LockedPcs, Threads
<1>2. /\ \A u \in Threads \ {"out"} : cur[u].m = None
      /\ \A x \in Mbufs : Carried(x) <=> x = m
  BY <1>1, OneCarrier DEF Owns
<1>3. \A u \in Threads : cur'[u].m = None
  BY <1>1, <1>2, OwnerTypes DEF NoCur
<1>4. CarriersOK' /\ \A x \in Mbufs : ~Carried(x)'
  BY <1>3, OwnerTypes DEF CarriersOK, Carried
<1>5. /\ \A x : Queued(x)' <=> Queued(x)
      /\ \A x : Booked(x)' <=> Booked(x)
      /\ Once(if_snd)'
  BY DEF Queued, Booked, OwnerInv, SingleOK
<1>6. \A x \in Mbufs : OneOwner(x)'
  BY <1>2, <1>4, <1>5 DEF OwnerInv, OneOwner
<1> QED BY <1>4, <1>5, <1>6, OwnerMove

\* A step of a thread that has no packet, and of nobody else.
LEMMA OwnerIdle ==
    ASSUME TypeInv, RingInv, OwnerInv, NEW t \in Threads, NEW l, Goto(t, l),
           pc[t] \notin {"space", "take"} \cup TxPcs,
           UNCHANGED <<if_snd, pool, tx_pkts, cidx, inuse, cur>>
    PROVE  OwnerInv'
<1>1. cur[t].m = None
  BY DEF OwnerInv, CarriersOK
<1>2. \A u \in Threads \ {t} : pc'[u] = pc[u]
  BY OwnerTypes DEF Goto
<1> QED BY <1>1, <1>2, OwnerQuiet

\* The other steps of mx6q_start and mx6q_output.
LEMMA OwnerStart ==
    ASSUME TypeInv, RingInv, OwnerInv,
           OutputStep \/ \E t \in Threads : StartStep(t)
    PROVE  OwnerInv'
<1>1. ASSUME NEW t \in Threads, StartEnter(t) \/ StartLoop(t) \/ StartReaped(t)
                                \/ StartFull(t) \/ StartDone(t)
      PROVE  OwnerInv'
  <2>1. /\ pc[t] \in {"start", "loop", "reap", "full", "deq"} /\ \E l : Goto(t, l)
        /\ UNCHANGED <<if_snd, pool, tx_pkts, cidx, inuse, cur>>
    BY <1>1 DEF StartEnter, StartLoop, StartReaped, StartFull, StartDone, UnlockAndReturn,
       ring, bufs
  <2> QED BY <2>1, OwnerIdle DEF TxPcs
<1>2. "out" \in Threads /\ (pc["out"] \in {"space", "take"} => cur["out"].m \in Mbufs)
  BY DEF TypeInv, CurOK, Threads
<1>3. CASE OutputReaped
  <2>1. CASE NoSpace
    BY <1>2, <1>3, <2>1, OwnerDrop, OwnerTypes DEF OutputReaped, ring
  <2>2. CASE ~NoSpace
    <3>1. /\ pc["out"] = "space" /\ Goto("out", "take")
          /\ UNCHANGED <<if_snd, pool, tx_pkts, cidx, inuse, cur>>
      BY <1>3, <2>2 DEF OutputReaped, ring
    <3>2. pc'["out"] = "take" /\ \A u \in Threads \ {"out"} : pc'[u] = pc[u]
      BY <1>2, <3>1, OwnerTypes DEF Goto
    <3> QED BY <3>1, <3>2, OwnerQuiet
  <2> QED BY <2>1, <2>2
<1>4. CASE OutputTake
  <2>1. /\ pc["out"] = "take" /\ UNCHANGED <<if_snd, pool, tx_pkts, cidx, inuse>>
        /\ \E n \in 1..MaxFrags : BeginTx("out", cur["out"].m, n)
    BY <1>4 DEF OutputTake, ring, bufs
  <2>2. /\ pc'["out"] = "load" /\ \A u \in Threads \ {"out"} : pc'[u] = pc[u]
        /\ \A u \in Threads : cur'[u].m = cur[u].m
    BY <1>2, <2>1, OwnerTypes DEF BeginTx, Goto
  <2> QED BY <2>1, <2>2, OwnerQuiet
<1>5. CASE OutputDefragFails
  BY <1>2, <1>5, OwnerDrop, OwnerTypes DEF OutputDefragFails, ring
<1> QED BY <1>1, <1>3, <1>4, <1>5, OwnerPurge, OwnerDequeue DEF OutputStep, StartStep

\* The steps of the interrupt thread, the monitor, the interrupt handler, the
\* NIC and the link.
LEMMA OwnerOthers ==
    ASSUME TypeInv, RingInv, OwnerInv,
           \/ IntrStep \/ MonitorReap \/ MonitorDone
           \/ IsrStep \/ NicStep \/ NicPrefetchEmpty \/ LinkChange \/ UNCHANGED vars
    PROVE  OwnerInv'
<1>1. CASE IntrStep
  <2>1. /\ pc["intr"] \in {"idle", "pi", "pilock"} /\ \E l : Goto("intr", l)
        /\ UNCHANGED <<if_snd, pool, tx_pkts, cidx, inuse, cur>>
    BY <1>1 DEF IntrStep, IntrRun, IntrTest, IntrStart, ring, bufs
  <2> QED BY <2>1, OwnerIdle DEF TxPcs, Threads
<1>2. CASE MonitorReap \/ MonitorDone
  <2>1. /\ pc["stack"] \in {"idle", "mon"} /\ \E l : Goto("stack", l)
        /\ UNCHANGED <<if_snd, pool, tx_pkts, cidx, inuse, cur>>
    BY <1>2 DEF MonitorReap, MonitorDone, UnlockAndReturn, ring, bufs
  <2> QED BY <2>1, OwnerIdle DEF TxPcs, Threads
<1>3. CASE IsrStep \/ NicStep \/ NicPrefetchEmpty \/ LinkChange \/ UNCHANGED vars
  <2>1. UNCHANGED <<if_snd, pool, tx_pkts, cidx, inuse, cur, pc>>
    BY <1>3 DEF IsrStep, IsrClear, IsrCheck, NicStep, NicFetch, NicUpdate, NicIdle,
       NicPrefetchEmpty, LinkChange, vars, ring, bufs
  <2> QED BY <2>1, OwnerQuiet
<1> QED BY <1>1, <1>2, <1>3

\* Every step keeps the owners.
LEMMA NextOwnerInv == TypeInv /\ RingInv /\ OwnerInv /\ [NextLink]_vars => OwnerInv'
BY OwnerEnqueue, OwnerOutput, OwnerReap, OwnerStart, OwnerTx, OwnerCommit, OwnerOthers
   DEF NextLink, NextUp, ThreadStep, TxStep

\* At first every packet is free.
LEMMA InitOwnerInv == Init => OwnerInv
<1> SUFFICES ASSUME Init PROVE OwnerInv
  OBVIOUS
<1>1. PacketsOK /\ CarriersOK /\ SingleOK
  BY DEF Init, PacketsOK, CarriersOK, SingleOK, Once, NoCur
<1>2. \A m \in Mbufs : OneOwner(m)
  BY RingAssumption DEF Init, OneOwner, Queued, In, Booked, Carried, NoCur
<1> QED BY <1>1, <1>2 DEF OwnerInv

\* Every packet has one owner, for every ring size and fragment limit and for
\* any set of packets.
THEOREM TxOwnerInvariant == SpecLink => [](TypeInv /\ RingInv /\ OwnerInv)
<1>1. Init => TypeInv /\ RingInv /\ OwnerInv
  BY InitTypeInv, InitRingInv, InitOwnerInv
<1>2. TypeInv /\ RingInv /\ OwnerInv /\ [NextLink]_vars => (TypeInv /\ RingInv /\ OwnerInv)'
  BY NextTypeInv, NextRingInv, NextOwnerInv DEF Next
<1> QED BY <1>1, <1>2, PTL DEF SpecLink

\* How many elements a set has that has at most one.
LEMMA AtMostOne ==
    ASSUME NEW S, \A x, y \in S : x = y
    PROVE  Cardinality(S) = IF S = {} THEN 0 ELSE 1
<1>1. CASE S = {}
  BY <1>1, FS_EmptySet
<1>2. CASE S # {}
  <2>1. PICK x \in S : TRUE
    BY <1>2
  <2>2. S = {x}
    BY <2>1
  <2>3. Cardinality({x}) = 1
    BY FS_Singleton
  <2> QED BY <1>2, <2>2, <2>3
<1> QED BY <1>1, <1>2

\* Places that hold a packet at most once are counted.
LEMMA OwnedOnce == TypeInv /\ RingInv /\ OwnerInv => MbufOnce
<1> SUFFICES ASSUME TypeInv, RingInv, OwnerInv, NEW m \in Mbufs
             PROVE  Cardinality({i \in DOMAIN if_snd : if_snd[i] = m})
                    + Cardinality({i \in Idx : tx_pkts[i] = m})
                    + Cardinality({t \in Threads :
                                     cur[t].m = m /\ pc[t] \notin {"ready", "kick"}})
                    + (IF m \in pool THEN 1 ELSE 0) = 1
  BY DEF MbufOnce
<1> DEFINE Q == {i \in DOMAIN if_snd : if_snd[i] = m}
           B == {i \in Idx : tx_pkts[i] = m}
           C == {t \in Threads : cur[t].m = m /\ pc[t] \notin {"ready", "kick"}}
<1>1. m # None
  BY OwnerTypes
<1>2. \A x, y \in Q : x = y
  BY DEF OwnerInv, SingleOK, Once
<1>3. \A x, y \in B : x = y
  BY <1>1 DEF OwnerInv, SingleOK
<1>4. \A x, y \in C : x = y
  <2>1. \A t \in C : sndex = t
    BY <1>1 DEF OwnerInv, CarriersOK, RingInv, LockOK, LockedPcs
  <2> QED BY <2>1
<1>5. (Q # {} <=> Queued(m)) /\ (B # {} <=> Booked(m)) /\ (C # {} <=> Carried(m))
  BY <1>1 DEF Queued, In, Booked, Carried, Owns
<1> HIDE DEF Q, B, C
<1>6. /\ Cardinality(Q) = IF Queued(m) THEN 1 ELSE 0
      /\ Cardinality(B) = IF Booked(m) THEN 1 ELSE 0
      /\ Cardinality(C) = IF Carried(m) THEN 1 ELSE 0
  BY <1>2, <1>3, <1>4, <1>5, AtMostOne
<1>7. OneOwner(m)
  BY DEF OwnerInv
<1>8. Cardinality(Q) + Cardinality(B) + Cardinality(C) + (IF m \in pool THEN 1 ELSE 0) = 1
  BY <1>6, <1>7 DEF OneOwner
<1> QED BY <1>8 DEF Q, B, C

\* No packet is lost and none is freed twice, on any path through mx6q_tx,
\* mx6q_output and the reaping.
THEOREM TxMbufOnce == SpecLink => []MbufOnce
BY OwnedOnce, TxOwnerInvariant, PTL


-----------------------------------------------------------------------------
(* What the NIC has written back *)

\* The last descriptor of a packet that the NIC has left behind is written back.
WrittenOK == \A j \in Idx : Dist(cidx, j) < Dist(cidx, hw) => (bd[j].l => bd[j].bdu)

\* The NIC's write-backs reach all it has left behind.
LEMMA NextLinkWritten ==
    ASSUME TypeInv, RingInv, FrameInv, WrittenOK, [NextLink]_vars
    PROVE  WrittenOK'
<1> USE DEF ring, nic
<1>0. /\ hw \in Idx /\ cidx \in Idx /\ pidx \in Idx /\ bd \in [Idx -> BdType]
      /\ inuse \in Nat /\ \A j \in Idx : Dist(cidx, j) \in Nat
  BY RingTypes
<1>1. Dist(cidx, hw) <= inuse /\ (phase = "update" => Dist(cidx, hw) + 1 <= inuse)
  BY <1>0 DEF FrameInv, PlaceOK, Fetched
<1>2. ASSUME UNCHANGED <<cidx, hw>>,
             \A j \in Idx : Dist(cidx, j) < Dist(cidx, hw) => bd'[j] = bd[j]
      PROVE  WrittenOK'
  BY <1>2 DEF WrittenOK, Dist
<1>3. ASSUME NEW t \in Threads, TxLoad(t) PROVE WrittenOK'
  <2>1. pc[t] = "load" /\ ~bd[cur[t].idx].r
    BY <1>3, LoadFree DEF TxLoad
  <2>2. cur[t].idx \in Idx /\ Dist(cidx, cur[t].idx) = inuse + cur[t].i /\ cur[t].i \in Nat
    BY <2>1, LoadPlace, RingTypes
  <2>3. bd' = [bd EXCEPT ![cur[t].idx] = LoadedBd(t)] /\ UNCHANGED <<cidx, hw>>
    BY <1>3, <2>1 DEF TxLoad
  <2>4. ~(Dist(cidx, cur[t].idx) < Dist(cidx, hw))
    BY <1>0, <1>1, <2>2
  <2> QED BY <1>0, <1>2, <2>3, <2>4
<1>4. ASSUME NEW t \in Threads, TxCommit(t) PROVE WrittenOK'
  <2> DEFINE k == (cur[t].first + cur[t].n - 1) % N
  <2>1. pc[t] = "commit"
    BY <1>4 DEF TxCommit
  <2>2. /\ cur[t].idx \in Idx /\ cur[t].n \in Nat \ {0} /\ cur[t].first = pidx
        /\ inuse + cur[t].n < N
    <3>1. cur[t].n \in 1..MaxFrags /\ inuse + MaxFrags < N /\ cur[t].first = pidx
      BY <2>1, LoadPlace
    <3> QED BY <1>0, <3>1, RingTypes, RingAssumption
  <2>3. Dist(pidx, cur[t].idx) = cur[t].n
    BY <2>1 DEF RingInv, LoadsOK, LoadOK
  <2>4. k \in Idx /\ NEXT_TX(k) = cur[t].idx
    BY <1>0, <2>2, <2>3, LastPlace
  <2> HIDE DEF k
  <2>5. bd' = [bd EXCEPT ![k].l = TRUE] /\ UNCHANGED <<cidx, hw>>
    BY <1>4 DEF TxCommit, k
  <2>6. ~(Dist(cidx, k) < inuse)
    <3>1. ASSUME Dist(cidx, k) < inuse PROVE FALSE
      <4>1. Dist(cidx, NEXT_TX(k)) = Dist(cidx, k) + 1
        BY <2>4, <3>1, RingTypes, DistNext
      <4>2. Dist(cidx, cur[t].idx) = inuse + cur[t].n
        <5>1. cur[t].i = cur[t].n
          BY <2>1 DEF RingInv, LoadsOK, LoadOK
        <5> QED BY <2>1, <5>1, LoadPlace
      <4> QED BY <1>0, <2>2, <2>4, <3>1, <4>1, <4>2
    <3> QED BY <3>1
  <2>7. ~(Dist(cidx, k) < Dist(cidx, hw))
    BY <1>0, <1>1, <2>4, <2>6
  <2> QED BY <1>0, <1>2, <2>4, <2>5, <2>7
<1>5. ASSUME NEW t \in Threads, TxReady(t) PROVE WrittenOK'
  <2>1. /\ cur[t].first \in Idx /\ bd' = [bd EXCEPT ![cur[t].first].r = TRUE]
        /\ UNCHANGED <<cidx, hw>>
    BY <1>5, RingTypes DEF TxReady
  <2>2. \A j \in Idx : bd'[j].l = bd[j].l /\ bd'[j].bdu = bd[j].bdu
    BY <1>0, <2>1 DEF BdType
  <2> QED BY <2>1, <2>2 DEF WrittenOK, Dist
<1>6. ASSUME NEW t \in Threads, ReapStep(t) PROVE WrittenOK'
  <2>1. /\ pc[t] \in {"reap", "space", "mon", "stopreap"} /\ cidx # pidx
        /\ ~bd[cidx].r /\ (bd[cidx].l => bd[cidx].bdu)
        /\ bd' = [bd EXCEPT ![cidx] = EmptyBd]
        /\ cidx' = NEXT_TX(cidx) /\ hw' = hw
    BY <1>6 DEF ReapStep, ReapDescriptor, Reapable
  <2>2. \A j : ~Held(j)
    BY <2>1, OneLoader DEF LockedPcs, TxPcs, Held
  <2>3. Dist(cidx, cidx) = 0 /\ inuse > 0
    BY <2>1, RingTypes, DistRange
  <2>4. 0 < Fetched
    BY <2>1, <2>2, <2>3, RingTypes DEF FrameInv, SplitOK
  <2>5. hw # cidx
    <3>1. phase = "update" => hw # cidx
      BY <2>1 DEF FrameInv, UpdateOK
    <3>2. phase # "update" => hw # cidx
      BY <2>3, <2>4 DEF Fetched
    <3> QED BY <3>1, <3>2
  <2>6. \A j \in Idx \ {cidx} : Dist(NEXT_TX(cidx), j) = Dist(cidx, j) - 1
    BY <2>1, RingTypes, DistDrop
  <2>7. bd'[cidx] = EmptyBd /\ \A j \in Idx \ {cidx} : bd'[j] = bd[j]
    BY <1>0, <2>1
  <2>8. SUFFICES ASSUME NEW j \in Idx, Dist(NEXT_TX(cidx), j) < Dist(NEXT_TX(cidx), hw)
                 PROVE  bd'[j].l => bd'[j].bdu
    BY <2>1 DEF WrittenOK, Dist
  <2>9. CASE j = cidx
    BY <2>7, <2>9 DEF EmptyBd
  <2>10. CASE j # cidx
    <3>1. Dist(cidx, j) < Dist(cidx, hw)
      BY <1>0, <2>5, <2>6, <2>8, <2>10
    <3> QED BY <2>7, <2>10, <3>1 DEF WrittenOK
  <2> QED BY <2>9, <2>10
<1>7. CASE NicFetch
  <2>1. /\ bd[hw].r /\ phase # "update" /\ bd' = [bd EXCEPT ![hw].r = FALSE] /\ cidx' = cidx
        /\ hw' = hw \/ (~bd[hw].l /\ hw' = NEXT_TX(hw))
    BY <1>7 DEF NicFetch
  <2>2. \A j \in Idx : bd'[j].l = bd[j].l /\ bd'[j].bdu = bd[j].bdu
    BY <1>0, <2>1 DEF BdType
  <2>3. CASE hw' = hw
    BY <2>1, <2>2, <2>3 DEF WrittenOK, Dist
  <2>4. CASE ~bd[hw].l /\ hw' = NEXT_TX(hw)
    <3>1. Dist(cidx, hw) < inuse
      <4>1. hw # pidx
        BY <2>1, ProducerFree
      <4>2. Dist(cidx, hw) # Dist(cidx, pidx)
        BY <4>1, RingTypes, DistInj
      <4> QED BY <1>1, <4>2, RingTypes
    <3>2. Dist(cidx, NEXT_TX(hw)) = Dist(cidx, hw) + 1
      BY <3>1, RingTypes, DistNext
    <3>3. SUFFICES ASSUME NEW j \in Idx, Dist(cidx, j) < Dist(cidx, hw) + 1, bd[j].l
                   PROVE  bd[j].bdu
      BY <2>1, <2>2, <2>4, <3>2 DEF WrittenOK, Dist
    <3>4. j # hw
      BY <2>4, <3>3
    <3>5. Dist(cidx, j) # Dist(cidx, hw)
      BY <3>4, RingTypes, DistInj
    <3> QED BY <1>0, <3>3, <3>5 DEF WrittenOK
  <2> QED BY <2>1, <2>3, <2>4
<1>8. CASE NicUpdate
  <2>1. /\ phase = "update" /\ bd' = [bd EXCEPT ![hw].bdu = TRUE] /\ cidx' = cidx
        /\ hw' = NEXT_TX(hw)
    BY <1>8 DEF NicUpdate
  <2>2. bd'[hw].bdu /\ \A j \in Idx \ {hw} : bd'[j] = bd[j]
    BY <1>0, <2>1 DEF BdType
  <2>3. Dist(cidx, NEXT_TX(hw)) = Dist(cidx, hw) + 1
    BY <1>1, <2>1, RingTypes, DistNext
  <2>4. SUFFICES ASSUME NEW j \in Idx, Dist(cidx, j) < Dist(cidx, hw) + 1, j # hw, bd[j].l
                 PROVE  bd[j].bdu
    BY <2>1, <2>2, <2>3 DEF WrittenOK, Dist
  <2>5. Dist(cidx, j) # Dist(cidx, hw)
    BY <2>4, RingTypes, DistInj
  <2> QED BY <1>0, <2>4, <2>5 DEF WrittenOK
<1>9. CASE \/ \E t \in Threads : StartStep(t) \/ TxKick(t)
           \/ \E m \in Mbufs : StackEnqueue(m) \/ OutputEnter(m)
           \/ OutputStep \/ IntrStep \/ IsrStep \/ NicIdle \/ NicPrefetchEmpty
           \/ MonitorReap \/ MonitorDone \/ LinkChange \/ UNCHANGED vars
  <2>1. UNCHANGED <<bd, cidx, hw>>
    BY <1>9 DEF StartStep, StartPurge, StartEnter, StartLoop, StartReaped, StartFull,
       StartDone, StartDequeue, StartDefragFails, TxKick, StackEnqueue, OutputEnter,
       OutputStep, OutputReaped, OutputTake, OutputDefragFails, IntrStep, IntrRun, IntrTest,
       IntrStart, IsrStep, IsrClear, IsrCheck, NicIdle, NicPrefetchEmpty, MonitorReap,
       MonitorDone, LinkChange, vars
  <2> QED BY <2>1, <1>2
<1> HIDE DEF ring, nic
<1> QED BY <1>3, <1>4, <1>5, <1>6, <1>7, <1>8, <1>9
        DEF NextLink, NextUp, ThreadStep, TxStep, NicStep


-----------------------------------------------------------------------------
(* IFF_OACTIVE *)

StartPcs == {"start", "loop", "reap", "full", "deq"} \cup TxPcs

\* The link is up, mx6q_output does not call mx6q_start, and when IFF_OACTIVE
\* is set and tx_full is not, mx6q_start is running.
WakerOK ==
    /\ running /\ ~linkDown
    /\ pc["out"] \notin {"start", "loop", "reap", "full", "deq"}
    /\ oactive /\ ~tx_full => sndex \in {"stack", "intr"} /\ pc[sndex] \in StartPcs

\* The NIC or its interrupt is not done yet.
NicBusy == tfint \/ isr = "check" \/ phase # "boundary" \/ \E i \in Idx : bd[i].r

\* A thread about to set tx_full has left the NIC something to complete, and
\* until start runs again what becomes of it reaches process_interrupt.
ComingOK == /\ FullUnmarked => missed \/ NicBusy
            /\ tx_full => missed \/ WakeToCome

LEMMA WakerStep ==
    ASSUME TypeInv, RingInv, WakerOK, [NextUp]_vars
    PROVE  WakerOK'
<1> USE DEF WakerOK, TypeInv, TypeOK, ThreadType, StartPcs, TxPcs, flags, Goto
<1>0. UNCHANGED <<running, linkDown>>
  BY DEF NextUp, StackEnqueue, OutputEnter, ThreadStep, ReapStep, StartStep, StartPurge,
     StartEnter, StartLoop, StartReaped, StartFull, StartDone, StartDequeue,
     StartDefragFails, TxStep, TxLoad, TxCommit, TxReady, TxKick, OutputStep, OutputReaped,
     OutputTake, OutputDefragFails, IntrStep, IntrRun, IntrTest, IntrStart, IsrStep,
     IsrClear, IsrCheck, NicStep, NicFetch, NicUpdate, NicIdle, NicPrefetchEmpty,
     MonitorReap, MonitorDone, vars
<1>1. ASSUME NEW m \in Mbufs, StackEnqueue(m) PROVE WakerOK'
  BY <1>0, <1>1, RingAssumption DEF StackEnqueue, Threads
<1>2. CASE OutputStep \/ (\E m \in Mbufs : OutputEnter(m))
  <2>0. pc'["out"] \in {"idle", "space", "take", "load"}
    BY <1>2 DEF OutputStep, OutputEnter, OutputReaped, OutputTake, OutputDefragFails,
       UnlockAndReturn, Return, BeginTx, Threads
  <2>1. ~(oactive /\ ~tx_full)
    <3>1. sndex = None \/ (sndex = "out" /\ pc["out"] \in {"space", "take"})
      BY <1>2 DEF OutputStep, OutputEnter, OutputReaped, OutputTake, OutputDefragFails, Lock,
         RingInv, LockOK, LockedPcs, Threads
    <3> QED BY <3>1, RingAssumption DEF Threads
  <2>2. UNCHANGED <<oactive, tx_full>>
    BY <1>2 DEF OutputStep, OutputEnter, OutputReaped, OutputTake, OutputDefragFails
  <2> QED BY <1>0, <2>0, <2>1, <2>2
<1>3. ASSUME NEW t \in Threads, ReapStep(t) PROVE WakerOK'
  BY <1>0, <1>3 DEF ReapStep
<1>4. ASSUME NEW t \in Threads, StartStep(t) PROVE WakerOK'
  <2>1. sndex = t /\ t \in {"stack", "intr"}
    BY <1>4 DEF StartStep, StartPurge, StartEnter, StartLoop, StartReaped, StartFull,
       StartDone, StartDequeue, StartDefragFails, RingInv, LockOK, LockedPcs, Threads
  <2>2. pc'["out"] = pc["out"]
    <3>1. \E l : pc' = [pc EXCEPT ![t] = l]
      BY <1>4 DEF StartStep, StartPurge, StartEnter, StartLoop, StartReaped, StartFull,
         StartDone, StartDequeue, StartDefragFails, UnlockAndReturn, BeginTx
    <3> QED BY <2>1, <3>1 DEF Threads
  <2>3. CASE StartPurge(t) \/ StartFull(t) \/ StartDone(t)
    BY <1>0, <2>2, <2>3 DEF StartPurge, StartFull, StartDone
  <2>4. CASE ~(StartPurge(t) \/ StartFull(t) \/ StartDone(t))
    <3>1. sndex' = t /\ pc'[t] \in StartPcs
      BY <1>4, <2>1, <2>4 DEF StartStep, StartEnter, StartLoop, StartReaped, StartDequeue,
         StartDefragFails, BeginTx
    <3> QED BY <1>0, <2>1, <2>2, <3>1
  <2> QED BY <2>3, <2>4
<1>5. ASSUME NEW t \in Threads, TxStep(t) PROVE WakerOK'
  <2>1. sndex = t /\ pc[t] \in TxPcs /\ UNCHANGED <<oactive, tx_full>>
    BY <1>5 DEF TxStep, TxLoad, TxCommit, TxReady, TxKick, RingInv, LockOK, LockedPcs
  <2>2. /\ \A u \in Threads \ {t} : pc'[u] = pc[u]
        /\ pc'[t] \in TxPcs \cup {AfterTx(t)}
        /\ t # "out" => sndex' = sndex
    BY <1>5, LoadFree DEF TxStep, TxLoad, TxCommit, TxReady, TxKick
  <2>3. t = "out" => ~(oactive /\ ~tx_full)
    BY <2>1
  <2> QED BY <1>0, <2>1, <2>2, <2>3 DEF AfterTx, Threads
<1>6. CASE IntrRun \/ IntrTest
  BY <1>0, <1>6 DEF IntrRun, IntrTest, Threads
<1>7. CASE IntrStart
  BY <1>0, <1>7 DEF IntrStart, Lock, Threads
<1>8. CASE MonitorReap \/ MonitorDone
  BY <1>0, <1>8, RingAssumption DEF MonitorReap, MonitorDone, Lock, UnlockAndReturn, RingInv,
     LockOK, LockedPcs, Threads
<1>9. CASE IsrStep \/ NicStep \/ NicPrefetchEmpty \/ UNCHANGED vars
  BY <1>0, <1>9 DEF IsrStep, IsrClear, IsrCheck, NicStep, NicFetch, NicUpdate, NicIdle,
     NicPrefetchEmpty, vars
<1> HIDE DEF WakerOK, TypeInv, TypeOK, ThreadType, StartPcs, TxPcs, flags, Goto
<1> QED BY <1>1, <1>2, <1>3, <1>4, <1>5, <1>6, <1>7, <1>8, <1>9
        DEF NextUp, ThreadStep, IntrStep

\* mx6q_start finds the ring full only while the NIC has a packet in it.
LEMMA FullIsBusy ==
    ASSUME TypeInv, RingInv, FrameInv, WrittenOK, NEW t \in Threads,
           pc[t] = "reap", ReapOver, NoSpace
    PROVE  NicBusy
<1>1. inuse > 0
  BY RingTypes, RingAssumption DEF NoSpace
<1>2. Dist(cidx, cidx) = 0
  BY RingTypes, DistRange
<1>3. ~Reapable(bd[cidx])
  BY <1>1, <1>2, RingTypes DEF ReapOver
<1>4. CASE bd[cidx].r
  BY <1>4, RingTypes DEF NicBusy
<1>5. CASE ~bd[cidx].r
  <2>1. bd[cidx].l /\ ~bd[cidx].bdu
    BY <1>3, <1>5 DEF Reapable
  <2>2. \A j : ~Held(j)
    BY OneLoader DEF Held, LockedPcs, TxPcs
  <2>3. 0 < Fetched
    BY <1>1, <1>2, <1>5, <2>2, RingTypes DEF FrameInv, SplitOK
  <2>4. ~(0 < Dist(cidx, hw))
    BY <1>2, <2>1, RingTypes DEF WrittenOK
  <2>5. phase = "update"
    BY <2>3, <2>4, RingTypes DEF Fetched
  <2> QED BY <2>5 DEF NicBusy
<1> QED BY <1>4, <1>5

\* No descriptor is taken from the NIC but by the NIC.
LEMMA ReadyKept ==
    ASSUME TypeInv, RingInv, [NextUp]_vars, ~NicFetch
    PROVE  \A i \in Idx : bd[i].r => bd'[i].r
<1>0. bd \in [Idx -> BdType] /\ hw \in Idx /\ cidx \in Idx
  BY RingTypes
<1>1. ASSUME NEW t \in Threads, ReapStep(t) PROVE \A i \in Idx : bd[i].r => bd'[i].r
  BY <1>0, <1>1 DEF ReapStep, ReapDescriptor, Reapable
<1>2. ASSUME NEW t \in Threads, TxLoad(t) PROVE \A i \in Idx : bd[i].r => bd'[i].r
  <2>1. ~bd[cur[t].idx].r
    BY <1>2, LoadFree DEF TxLoad
  <2> QED BY <1>0, <1>2, <2>1, RingTypes DEF TxLoad
<1>3. ASSUME NEW t \in Threads, TxCommit(t) PROVE \A i \in Idx : bd[i].r => bd'[i].r
  <2> DEFINE k == (cur[t].first + cur[t].n - 1) % N
  <2>1. cur[t].first + cur[t].n - 1 \in Int
    BY RingTypes DEF Idx
  <2>2. k \in Idx
    BY <2>1, ModIdx
  <2> HIDE DEF k
  <2>3. bd' = [bd EXCEPT ![k].l = TRUE]
    BY <1>3 DEF TxCommit, k
  <2> QED BY <1>0, <2>2, <2>3 DEF BdType
<1>4. ASSUME NEW t \in Threads, TxReady(t) PROVE \A i \in Idx : bd[i].r => bd'[i].r
  BY <1>0, <1>4, RingTypes DEF TxReady, BdType
<1>5. CASE NicUpdate
  BY <1>0, <1>5 DEF NicUpdate, BdType
<1>6. CASE \/ \E t \in Threads : StartStep(t) \/ TxKick(t)
           \/ \E m \in Mbufs : StackEnqueue(m) \/ OutputEnter(m)
           \/ OutputStep \/ IntrStep \/ IsrStep \/ NicIdle \/ NicPrefetchEmpty
           \/ MonitorReap \/ MonitorDone \/ UNCHANGED vars
  <2>1. bd' = bd
    BY <1>6 DEF StartStep, StartPurge, StartEnter, StartLoop, StartReaped, StartFull,
       StartDone, StartDequeue, StartDefragFails, TxKick, StackEnqueue, OutputEnter,
       OutputStep, OutputReaped, OutputTake, OutputDefragFails, IntrStep, IntrRun, IntrTest,
       IntrStart, IsrStep, IsrClear, IsrCheck, NicIdle, NicPrefetchEmpty, MonitorReap,
       MonitorDone, vars, ring
  <2> QED BY <2>1
<1> QED BY <1>1, <1>2, <1>3, <1>4, <1>5, <1>6 DEF NextUp, ThreadStep, TxStep, NicStep

\* A completion to come stays to come until start runs again.
LEMMA ComingStep ==
    ASSUME TypeInv, RingInv, FrameInv, WrittenOK, ComingOK, [NextUp]_vars
    PROVE  ComingOK'
<1> USE DEF ComingOK, FullUnmarked
<1>0. pc \in [Threads -> Pcs] /\ "intr" \in Threads /\ "stack" \in Threads
      /\ hw \in Idx /\ bd \in [Idx -> BdType]
  BY RingTypes DEF Threads
<1>1. CASE NicFetch
  <2>1. phase' # "boundary" /\ UNCHANGED <<pc, tx_full, missed>>
    BY <1>1 DEF NicFetch, isrv
  <2> QED BY <2>1 DEF NicBusy, WakeToCome
<1>2. CASE NicUpdate
  <2>1. tfint' /\ UNCHANGED <<pc, tx_full, missed>>
    BY <1>2 DEF NicUpdate, isrv
  <2> QED BY <2>1 DEF NicBusy, WakeToCome
<1>3. CASE IsrClear
  <2>1. isr' = "check" /\ UNCHANGED <<pc, tx_full, missed>>
    BY <1>3 DEF IsrClear
  <2> QED BY <2>1 DEF NicBusy, WakeToCome
<1>4. CASE IsrCheck
  <2>1. /\ intrPend' = (intrPend \/ tx_full) /\ missed' = (missed \/ FullUnmarked)
        /\ UNCHANGED <<pc, tx_full, bd, phase, tfint>>
    BY <1>4 DEF IsrCheck, ring
  <2>2. tx_full => WakeToCome'
    BY <2>1 DEF WakeToCome
  <2>3. FullUnmarked \/ missed => missed'
    BY <2>1, Zenon
  <2>4. FullUnmarked' => FullUnmarked
    BY <2>1
  <2> QED BY <2>1, <2>2, <2>3, <2>4
<1>5. ASSUME NEW t \in Threads, StartFull(t) PROVE ComingOK'
  <2>1. /\ pc[t] = "full" /\ pc' = [pc EXCEPT ![t] = Return(t)]
        /\ UNCHANGED <<bd, isr, intrPend, missed, tfint, phase>>
    BY <1>5 DEF StartFull, UnlockAndReturn, Goto, ring, isrv, nic
  <2>2. missed \/ NicBusy \/ (tx_full /\ WakeToCome)
    BY <2>1
  <2>3. tx_full' /\ (pc["intr"] # "idle" => pc'["intr"] # "idle")
    BY <1>0, <1>5, <2>1 DEF StartFull, Return
  <2>4. missed' \/ WakeToCome'
    BY <2>1, <2>2, <2>3 DEF NicBusy, WakeToCome
  <2> QED BY <2>3, <2>4
<1>6. ASSUME NEW t \in Threads, StartReaped(t) PROVE ComingOK'
  <2>1. /\ pc[t] = "reap" /\ ReapOver
        /\ pc' = [pc EXCEPT ![t] = IF NoSpace THEN "full" ELSE "deq"]
        /\ UNCHANGED <<bd, isr, intrPend, missed, tfint, phase, tx_full>>
    BY <1>6 DEF StartReaped, Goto, ring, isrv, nic
  <2>2. NoSpace => NicBusy'
    BY <2>1, FullIsBusy DEF NicBusy
  <2>3. NicBusy' <=> NicBusy
    BY <2>1 DEF NicBusy
  <2>4. FullUnmarked' => missed' \/ NicBusy'
    BY <1>0, <2>1, <2>2, <2>3
  <2>5. pc["intr"] # "idle" => pc'["intr"] # "idle"
    BY <1>0, <2>1
  <2> QED BY <2>1, <2>4, <2>5 DEF WakeToCome
<1>7. CASE IntrRun
  <2>1. /\ pc["intr"] = "idle" /\ pc' = [pc EXCEPT !["intr"] = "pi"]
        /\ UNCHANGED <<bd, isr, missed, tfint, phase, tx_full>>
    BY <1>7 DEF IntrRun, Goto, ring, nic
  <2>2. pc'["intr"] # "idle" /\ (NicBusy' <=> NicBusy)
    BY <1>0, <2>1 DEF NicBusy
  <2> QED BY <1>0, <2>1, <2>2 DEF WakeToCome
<1>8. CASE IntrTest
  <2>1. /\ pc["intr"] = "pi" /\ pc' = [pc EXCEPT !["intr"] = IF tx_full THEN "pilock" ELSE "idle"]
        /\ UNCHANGED <<bd, isr, missed, intrPend, tfint, phase, tx_full>>
    BY <1>8 DEF IntrTest, Goto, ring, isrv, nic
  <2>2. NicBusy' <=> NicBusy
    BY <2>1 DEF NicBusy
  <2> QED BY <1>0, <2>1, <2>2 DEF WakeToCome
<1>9. CASE IntrStart
  <2>1. /\ sndex = None /\ ~tx_full' /\ pc' = [pc EXCEPT !["intr"] = "start"]
    BY <1>9 DEF IntrStart, Lock, Goto
  <2>2. \A u \in Threads : pc[u] \notin LockedPcs
    BY <2>1, RingAssumption DEF RingInv, LockOK
  <2> QED BY <1>0, <2>1, <2>2 DEF LockedPcs
<1>10. ASSUME ~NicFetch,
              \/ \E t \in Threads : ReapStep(t) \/ TxStep(t)
              \/ \E t \in Threads : StartPurge(t) \/ StartEnter(t) \/ StartLoop(t)
                                    \/ StartDone(t) \/ StartDequeue(t) \/ StartDefragFails(t)
              \/ \E m \in Mbufs : StackEnqueue(m) \/ OutputEnter(m)
              \/ OutputStep \/ NicIdle \/ NicPrefetchEmpty \/ MonitorReap \/ MonitorDone
              \/ UNCHANGED vars
       PROVE  ComingOK'
  <2>1. UNCHANGED <<isr, intrPend, missed, tfint, phase, tx_full>>
    BY <1>10 DEF ReapStep, TxStep, TxLoad, TxCommit, TxReady, TxKick, StartPurge, StartEnter,
       StartLoop, StartDone, StartDequeue, StartDefragFails, StackEnqueue, OutputEnter,
       OutputStep, OutputReaped, OutputTake, OutputDefragFails, NicIdle, NicPrefetchEmpty,
       MonitorReap, MonitorDone, vars, isrv, nic
  <2>2. UNCHANGED pc \/ \E t \in Threads, l \in Pcs \ {"full"} :
                           Goto(t, l) /\ (t = "intr" => l # "idle")
    <3>1. ASSUME NEW t \in Threads, TxStep(t)
          PROVE  \E l \in {"loop", "load", "commit", "ready", "kick", AfterTx(t)} : Goto(t, l)
      BY <3>1 DEF TxStep, TxLoad, TxCommit, TxReady, TxKick
    <3>2. ASSUME NEW t \in Threads, StartPurge(t) \/ StartEnter(t) \/ StartLoop(t) \/ StartDone(t)
                                    \/ StartDequeue(t) \/ StartDefragFails(t)
          PROVE  \E l \in {Return(t), "loop", "reap", "deq", "load"} : Goto(t, l)
      BY <3>2 DEF StartPurge, StartEnter, StartLoop, StartDone, StartDequeue,
         StartDefragFails, UnlockAndReturn, BeginTx
    <3>3. OutputStep \/ (\E m \in Mbufs : OutputEnter(m)) =>
             \E l \in {"idle", "take", "space", "load"} : Goto("out", l)
      BY DEF OutputStep, OutputReaped, OutputTake, OutputDefragFails, OutputEnter,
         UnlockAndReturn, Return, BeginTx
    <3>4. MonitorReap \/ MonitorDone \/ (\E m \in Mbufs : StackEnqueue(m)) =>
             UNCHANGED pc \/ \E l \in {"idle", "start", "mon"} : Goto("stack", l)
      BY DEF MonitorReap, MonitorDone, StackEnqueue, UnlockAndReturn, Return
    <3>5. (\E t \in Threads : ReapStep(t)) \/ NicIdle \/ NicPrefetchEmpty \/ UNCHANGED vars
             => UNCHANGED pc
      BY DEF ReapStep, NicIdle, NicPrefetchEmpty, vars
    <3>6. {"idle", "take", "space", "load", "commit", "ready", "kick", "pi", "start", "mon",
           "loop", "reap", "deq"} \subseteq Pcs \ {"full"}
      BY DEF Pcs, LockedPcs, TxPcs
    <3>7. \A t \in Threads : /\ Return(t) \in {"idle", "pi"} /\ AfterTx(t) \in {"idle", "loop"}
                             /\ t = "intr" => Return(t) # "idle" /\ AfterTx(t) # "idle"
      BY DEF Return, AfterTx
    <3>8. "out" \in Threads /\ "stack" \in Threads /\ "out" # "intr" /\ "stack" # "intr"
      BY DEF Threads
    <3> QED BY <1>10, <3>1, <3>2, <3>3, <3>4, <3>5, <3>6, <3>7, <3>8
  <2>3. /\ \A u \in Threads : pc'[u] = "full" => pc[u] = "full"
        /\ pc["intr"] # "idle" => pc'["intr"] # "idle"
    BY <1>0, <2>2 DEF Goto
  <2>5. \A i \in Idx : bd[i].r => bd'[i].r
    BY <1>10, ReadyKept
  <2>6. (NicBusy => NicBusy') /\ (WakeToCome => WakeToCome')
    BY <2>1, <2>3, <2>5 DEF NicBusy, WakeToCome
  <2> QED BY <2>1, <2>3, <2>6
<1> HIDE DEF ComingOK
<1> QED BY <1>1, <1>2, <1>3, <1>4, <1>5, <1>6, <1>7, <1>8, <1>9, <1>10
        DEF NextUp, ThreadStep, StartStep, IntrStep, IsrStep, NicStep

\* While the interface and its link are up, IFF_OACTIVE is never left set
\* without tx_full, and unless mx6q_isr looked at tx_full after start had
\* reaped and before it set the flag (transmit.c:329-337), an interrupt or a
\* packet at the NIC is left that will have mx6q_start called again.
THEOREM TxOactiveHasWaker == SpecUp => []OactiveHasWaker
<1> DEFINE Inv == /\ TypeInv /\ RingInv /\ FrameInv /\ WrittenOK
                  /\ WakerOK /\ ComingOK
<1>1. Init => Inv
  <2> SUFFICES ASSUME Init PROVE Inv
    OBVIOUS
  <2>1. TypeInv /\ RingInv /\ FrameInv
    BY InitTypeInv, InitRingInv, InitFrameInv
  <2>2. WrittenOK
    BY DEF Init, WrittenOK, EmptyBd
  <2>3. WakerOK /\ ComingOK
    BY DEF Init, WakerOK, ComingOK, FullUnmarked, Threads
  <2> QED BY <2>1, <2>2, <2>3
<1>2. Inv /\ [NextUp]_vars => Inv'
  <2> SUFFICES ASSUME Inv, [NextUp]_vars PROVE Inv'
    OBVIOUS
  <2>1. [NextLink]_vars /\ [Next]_vars
    BY DEF Next, NextLink
  <2> QED BY <2>1, NextTypeInv, NextRingInv, NextFrameInv, NextLinkWritten, WakerStep, ComingStep
<1>3. Inv => OactiveHasWaker
  <2>1. WakerOK /\ ComingOK => OactiveHasWaker
    BY RingAssumption DEF WakerOK, ComingOK, OactiveHasWaker, Threads
  <2> QED BY <2>1
<1> HIDE DEF Inv
<1> QED BY <1>1, <1>2, <1>3, PTL DEF SpecUp

-----------------------------------------------------------------------------
(* The stop of the interface *)

\* Once the MAC sleeps and its DMA is between two packets, it stays where it is,
\* and the reaping catches up with it.
StoppedOK == /\ phase # "boundary" => tdar
             /\ pc["stack"] \in {"stopwait", "stopreap", "stopclr"} => asleep
             /\ pc["stack"] \in {"stopreap", "stopclr"} => phase = "boundary"
             /\ pc["stack"] = "stopclr" => hw = cidx

\* Between two packets the NIC is behind the last descriptor of one.
EndOK == phase = "boundary" =>
           \A j \in Idx : Dist(cidx, j) < Dist(cidx, hw) /\ NEXT_TX(j) = hw => bd[j].l

\* The descriptors from f to i are of one packet, and only f may have it in
\* the packet array.
Part(f, i) ==
    /\ Dist(cidx, f) <= Dist(cidx, i)
    /\ \A k \in Idx : Dist(cidx, f) <= Dist(cidx, k) /\ Dist(cidx, k) <= Dist(cidx, i)
         => bd[k].m = bd[i].m /\ (k # f => tx_pkts[k] = None) /\ (k # i => ~bd[k].l)

\* A descriptor's packet is in the packet array, at its first descriptor, or
\* that descriptor has been reaped and the packet freed.
Whole(i) == \E f \in Idx : tx_pkts[f] # None /\ tx_pkts[f] = bd[i].m /\ Part(f, i)
Headless(i) == tx_pkts[cidx] = None /\ Part(cidx, i)
KeptOK == \A i \in Idx : Dist(cidx, i) < inuse => Whole(i) \/ Headless(i)

\* The reaping has come to a descriptor of the NIC's in the middle of a packet
\* only when the NIC is there too.
HeadOK == inuse > 0 /\ tx_pkts[cidx] = None /\ bd[cidx].r => phase = "mid"

\* What is loaded is of one packet, and it is in the packet array before it is
\* the NIC's; nothing behind the booked part ends a packet.
LoadedOK ==
    \A t \in Threads :
      /\ pc[t] \in {"load", "commit"} =>
           /\ cur[t].m \in Mbufs
           /\ \A k \in Idx : inuse <= Dist(cidx, k) /\ Dist(cidx, k) < inuse + cur[t].i
                 => bd[k].m = cur[t].m
      /\ pc[t] = "ready" => tx_pkts[cur[t].first] # None
CleanOK == \A j \in Idx : Dist(cidx, j) >= inuse => ~bd[j].l

CellInv == KeptOK /\ HeadOK /\ LoadedOK /\ CleanOK
PaceInv == FrameInv /\ WrittenOK /\ StoppedOK /\ EndOK /\ CellInv

StopStep == StopBegin \/ StopGraceful \/ StopTimeout \/ StopReaped \/ StopClear \/ InitUp

\* A packet up to descriptor i is as it was when none of its descriptors changes.
LEMMA PartKeep ==
    ASSUME TypeInv, RingInv, cidx' = cidx, NEW i \in Idx,
           \A k \in Idx : Dist(cidx, k) <= Dist(cidx, i) =>
              bd'[k].m = bd[k].m /\ bd'[k].l = bd[k].l /\ tx_pkts'[k] = tx_pkts[k]
    PROVE  (Whole(i) => Whole(i)') /\ (Headless(i) => Headless(i)')
<1>0. /\ Dist(cidx, cidx) = 0 /\ cidx \in Idx /\ \A j \in Idx : Dist(cidx, j) \in Nat
      /\ \A j \in Idx : Dist(cidx, j)' = Dist(cidx, j)
  BY RingTypes, DistRange DEF Dist
<1>1. ASSUME NEW f \in Idx, Part(f, i) PROVE Part(f, i)' /\ tx_pkts'[f] = tx_pkts[f]
  BY <1>0, <1>1 DEF Part
<1>2. bd'[i].m = bd[i].m /\ tx_pkts'[cidx] = tx_pkts[cidx]
  BY <1>0
<1>3. Whole(i) => Whole(i)'
  BY <1>1, <1>2 DEF Whole
<1>4. Headless(i) => Headless(i)'
  BY <1>0, <1>2 DEF Headless, Part
<1> QED BY <1>3, <1>4

\* A step that leaves the packets in the ring and the place of the NIC alone,
\* and in which no thread loads, books or reaps.
LEMMA CellQuiet ==
    ASSUME TypeInv, RingInv, CellInv, UNCHANGED <<tx_pkts, cidx, inuse, phase>>,
           \A j \in Idx : /\ bd'[j].m = bd[j].m /\ bd'[j].l = bd[j].l
                          /\ bd'[j].r => bd[j].r \/ tx_pkts[j] # None,
           \A u \in Threads :
              /\ pc'[u] \in {"load", "commit"} =>
                   /\ cur'[u].m \in Mbufs
                   /\ cur'[u].i = 0 \/ (pc[u] \in {"load", "commit"} /\ cur'[u] = cur[u])
              /\ pc'[u] = "ready" => pc[u] = "ready" /\ cur'[u] = cur[u]
    PROVE  CellInv'
<1>0. /\ cidx \in Idx /\ inuse \in Nat /\ \A j \in Idx : Dist(cidx, j) \in Nat
      /\ \A j \in Idx : Dist(cidx, j)' = Dist(cidx, j)
  BY RingTypes DEF Dist
<1>1. KeptOK'
  BY <1>0, PartKeep DEF CellInv, KeptOK
<1>2. HeadOK'
  BY <1>0 DEF CellInv, HeadOK
<1>3. LoadedOK'
  <2>1. SUFFICES ASSUME NEW u \in Threads
                 PROVE  /\ pc'[u] \in {"load", "commit"} =>
                             /\ cur'[u].m \in Mbufs
                             /\ \A k \in Idx : inuse <= Dist(cidx, k)
                                               /\ Dist(cidx, k) < inuse + cur'[u].i
                                  => bd[k].m = cur'[u].m
                        /\ pc'[u] = "ready" => tx_pkts[cur'[u].first] # None
    BY <1>0 DEF LoadedOK
  <2>2. CASE cur'[u].i = 0 /\ pc'[u] \in {"load", "commit"}
    BY <1>0, <2>2
  <2>3. CASE ~(cur'[u].i = 0 /\ pc'[u] \in {"load", "commit"})
    BY <2>3 DEF CellInv, LoadedOK
  <2> QED BY <2>2, <2>3
<1>4. CleanOK'
  BY <1>0 DEF CellInv, CleanOK
<1> QED BY <1>1, <1>2, <1>3, <1>4 DEF CellInv

\* Loading a descriptor of a packet.
LEMMA CellLoad ==
    ASSUME TypeInv, RingInv, CellInv, NEW t \in Threads, TxLoad(t)
    PROVE  CellInv'
<1>1. pc[t] = "load" /\ ~bd[cur[t].idx].r
  BY LoadFree DEF TxLoad
<1>2. /\ cur[t] \in CurType /\ cur[t].idx \in Idx
      /\ Dist(cidx, cur[t].idx) = inuse + cur[t].i /\ cur[t].i \in Nat
      /\ \A u \in Threads \ {t} : pc[u] \notin LockedPcs
  BY <1>1, LoadPlace, RingTypes
<1>3. /\ bd' = [bd EXCEPT ![cur[t].idx] = LoadedBd(t)]
      /\ cur' = [cur EXCEPT ![t] = [cur[t] EXCEPT !.idx = NEXT_TX(cur[t].idx),
                                                  !.i = cur[t].i + 1]]
      /\ UNCHANGED <<tx_pkts, cidx, inuse, phase>>
      /\ \E l \in {"load", "commit"} : pc' = [pc EXCEPT ![t] = l]
  BY <1>1 DEF TxLoad, Goto, nic
<1>4. LoadedBd(t).m = cur[t].m /\ LoadedBd(t).l = bd[cur[t].idx].l
  <2>1. bd[cur[t].idx] \in BdType
    BY <1>2, RingTypes
  <2> QED BY <2>1 DEF LoadedBd, BdType
<1>5. /\ bd'[cur[t].idx].m = cur[t].m /\ bd'[cur[t].idx].l = bd[cur[t].idx].l
      /\ \A j \in Idx \ {cur[t].idx} : bd'[j] = bd[j]
      /\ cur'[t].m = cur[t].m /\ cur'[t].i = cur[t].i + 1
      /\ \A u \in Threads \ {t} : pc'[u] = pc[u] /\ cur'[u] = cur[u]
      /\ pc'[t] \in {"load", "commit"}
  BY <1>2, <1>3, <1>4, RingTypes DEF CurType
<1>6. /\ \A j \in Idx : Dist(cidx, j)' = Dist(cidx, j) /\ Dist(cidx, j) \in Nat
      /\ inuse \in Nat /\ cidx \in Idx /\ Dist(cidx, cidx) = 0
  BY <1>3, RingTypes, DistRange DEF Dist
<1>7. \A j \in Idx : Dist(cidx, j) < inuse => j # cur[t].idx
  BY <1>2, <1>6
<1>8. KeptOK'
  <2>1. SUFFICES ASSUME NEW i \in Idx, Dist(cidx, i) < inuse
                 PROVE  Whole(i)' \/ Headless(i)'
    BY <1>3, <1>6 DEF KeptOK
  <2>2. \A k \in Idx : Dist(cidx, k) <= Dist(cidx, i) => bd'[k] = bd[k]
    BY <1>5, <1>6, <1>7, <2>1
  <2>3. (Whole(i) => Whole(i)') /\ (Headless(i) => Headless(i)')
    BY <1>3, <2>2, PartKeep
  <2> QED BY <2>1, <2>3 DEF CellInv, KeptOK
<1>9. HeadOK'
  BY <1>3, <1>5, <1>6, <1>7 DEF CellInv, HeadOK
<1>10. LoadedOK'
  <2>1. cur[t].m \in Mbufs
    BY <1>1 DEF CellInv, LoadedOK
  <2>2. ASSUME NEW k \in Idx, inuse <= Dist(cidx, k), Dist(cidx, k) < inuse + (cur[t].i + 1)
        PROVE  bd'[k].m = cur[t].m
    <3>1. CASE k = cur[t].idx
      BY <1>5, <3>1
    <3>2. CASE k # cur[t].idx
      <4>1. Dist(cidx, k) # Dist(cidx, cur[t].idx)
        BY <1>2, <1>6, <3>2, DistInj
      <4>2. Dist(cidx, k) < inuse + cur[t].i
        BY <1>2, <1>6, <2>2, <4>1
      <4> QED BY <1>1, <1>5, <2>2, <3>2, <4>2 DEF CellInv, LoadedOK
    <3> QED BY <3>1, <3>2
  <2>3. \A u \in Threads \ {t} : pc'[u] \notin {"load", "commit", "ready"}
    BY <1>2, <1>5 DEF LockedPcs, TxPcs
  <2> QED BY <1>3, <1>5, <1>6, <2>1, <2>2, <2>3 DEF LoadedOK
<1>11. CleanOK'
  BY <1>2, <1>3, <1>5, <1>6 DEF CellInv, CleanOK
<1> QED BY <1>8, <1>9, <1>10, <1>11 DEF CellInv

\* Booking the descriptors of a packet.
LEMMA CellCommit ==
    ASSUME TypeInv, RingInv, OwnerInv, CellInv, NEW t \in Threads, TxCommit(t)
    PROVE  CellInv'
<1> DEFINE k == (cur[t].first + cur[t].n - 1) % N
<1>1. pc[t] = "commit" /\ cur[t].i = cur[t].n
  BY DEF TxCommit, RingInv, LoadsOK, LoadOK
<1>2. /\ cur[t].idx \in Idx /\ Dist(cidx, cur[t].idx) = inuse + cur[t].n
      /\ cur[t].first = pidx /\ inuse + MaxFrags < N /\ cur[t].n \in 1..MaxFrags
      /\ Dist(pidx, cur[t].idx) = cur[t].n
      /\ \A u \in Threads \ {t} : pc[u] \notin LockedPcs
  BY <1>1, LoadPlace DEF RingInv, LoadsOK, LoadOK
<1>3. cur[t].n \in Nat \ {0} /\ inuse + cur[t].n < N
  BY <1>2, RingTypes, RingAssumption
<1>4. k \in Idx /\ NEXT_TX(k) = cur[t].idx
  BY <1>2, <1>3, LastPlace, RingTypes
<1> HIDE DEF k
<1>5. /\ bd' = [bd EXCEPT ![k].l = TRUE] /\ tx_pkts' = [tx_pkts EXCEPT ![pidx] = cur[t].m]
      /\ inuse' = inuse + cur[t].n /\ pc' = [pc EXCEPT ![t] = "ready"]
      /\ UNCHANGED <<cidx, cur, phase>>
  BY DEF TxCommit, Goto, k, nic
<1>6. /\ \A j \in Idx : Dist(cidx, j)' = Dist(cidx, j) /\ Dist(cidx, j) \in Nat
                        /\ Dist(cidx, j) < N
      /\ inuse \in Nat /\ cidx \in Idx /\ pidx \in Idx /\ Dist(cidx, cidx) = 0
      /\ Dist(cidx, pidx) = inuse
      /\ bd \in [Idx -> BdType] /\ tx_pkts \in [Idx -> Mbufs \cup {None}]
  BY <1>5, RingTypes, DistRange, OwnerTypes DEF Dist
<1>7. Dist(cidx, k) = inuse + cur[t].n - 1
  <2>1. Dist(cidx, k) < N - 1
    <3>1. ASSUME Dist(cidx, k) = N - 1 PROVE FALSE
      <4>1. NEXT_TX(k) = cidx
        BY <1>4, <1>6, <3>1, DistWraps
      <4> QED BY <1>2, <1>3, <1>4, <1>6, <4>1
    <3> QED BY <1>4, <1>6, <3>1, RingTypes
  <2>2. Dist(cidx, NEXT_TX(k)) = Dist(cidx, k) + 1
    BY <1>4, <1>6, <2>1, DistNext
  <2> QED BY <1>2, <1>3, <1>4, <1>6, <2>2
<1>8. /\ \A j \in Idx : bd'[j].m = bd[j].m /\ bd'[j].r = bd[j].r
      /\ \A j \in Idx \ {k} : bd'[j].l = bd[j].l
      /\ tx_pkts'[pidx] = cur[t].m /\ \A j \in Idx \ {pidx} : tx_pkts'[j] = tx_pkts[j]
      /\ pc'[t] = "ready" /\ \A u \in Threads \ {t} : pc'[u] = pc[u]
  BY <1>4, <1>5, <1>6, RingTypes DEF BdType
<1>9. cur[t].m \in Mbufs /\ cur[t].m # None
  BY <1>1, RingAssumption DEF CellInv, LoadedOK
<1>10. KeptOK'
  <2>1. SUFFICES ASSUME NEW i \in Idx, Dist(cidx, i) < inuse + cur[t].n
                 PROVE  Whole(i)' \/ Headless(i)'
    BY <1>5, <1>6 DEF KeptOK
  <2>2. CASE Dist(cidx, i) < inuse
    <3>1. \A j \in Idx : Dist(cidx, j) <= Dist(cidx, i) => j # k /\ j # pidx
      BY <1>3, <1>4, <1>6, <1>7, <2>2
    <3>2. (Whole(i) => Whole(i)') /\ (Headless(i) => Headless(i)')
      BY <1>5, <1>8, <3>1, PartKeep
    <3> QED BY <2>2, <3>2 DEF CellInv, KeptOK
  <2>3. CASE Dist(cidx, i) >= inuse
    <3>1. \A j \in Idx : inuse <= Dist(cidx, j) /\ Dist(cidx, j) <= Dist(cidx, i)
             => bd[j].m = cur[t].m
      BY <1>1, <1>3, <1>6, <2>1 DEF CellInv, LoadedOK
    <3>2. ASSUME NEW j \in Idx, inuse <= Dist(cidx, j), Dist(cidx, j) <= Dist(cidx, i)
          PROVE  /\ bd'[j].m = bd'[i].m /\ (j # pidx => tx_pkts'[j] = None)
                 /\ (j # i => ~bd'[j].l)
      <4>1. bd'[j].m = bd'[i].m
        BY <1>6, <1>8, <2>3, <3>1, <3>2
      <4>2. j # pidx => tx_pkts'[j] = None
        <5>1. ~(Dist(cidx, j) < inuse)
          BY <1>6, <3>2
        <5> QED BY <1>8, <5>1 DEF OwnerInv, PacketsOK
      <4>3. j # i => ~bd'[j].l
        <5>1. SUFFICES ASSUME j # i PROVE ~bd'[j].l
          OBVIOUS
        <5>2. Dist(cidx, j) # Dist(cidx, i)
          BY <1>6, <5>1, DistInj
        <5>3. j # k
          BY <1>3, <1>6, <1>7, <2>1, <3>2, <5>2
        <5> QED BY <1>6, <1>8, <3>2, <5>3 DEF CellInv, CleanOK
      <4> QED BY <4>1, <4>2, <4>3
    <3>3. PICK f \in Idx : f = pidx
      BY <1>6
    <3>4. Part(f, i)'
      BY <1>6, <2>3, <3>2, <3>3 DEF Part
    <3>5. tx_pkts'[f] # None /\ tx_pkts'[f] = bd'[i].m
      BY <1>6, <1>8, <1>9, <2>3, <3>1, <3>3
    <3> QED BY <3>4, <3>5 DEF Whole
  <2> QED BY <1>6, <2>2, <2>3
<1>11. HeadOK'
  <2>1. CASE inuse = 0
    <3>1. pidx = cidx
      BY <1>6, <2>1, DistInj
    <3> QED BY <1>5, <1>8, <1>9, <3>1 DEF HeadOK
  <2>2. CASE inuse # 0
    <3>1. pidx # cidx
      BY <1>6, <2>2
    <3> QED BY <1>5, <1>6, <1>8, <2>2, <3>1 DEF CellInv, HeadOK
  <2> QED BY <2>1, <2>2
<1>12. LoadedOK'
  <2>1. \A u \in Threads \ {t} : pc'[u] \notin {"load", "commit", "ready"}
    BY <1>2, <1>8 DEF LockedPcs, TxPcs
  <2> QED BY <1>2, <1>5, <1>8, <1>9, <2>1 DEF LoadedOK
<1>13. CleanOK'
  BY <1>3, <1>4, <1>5, <1>6, <1>7, <1>8 DEF CellInv, CleanOK
<1> QED BY <1>10, <1>11, <1>12, <1>13 DEF CellInv

\* The descriptor before another.
LEMMA PrevTx ==
    ASSUME NEW a \in Idx, NEW b \in Idx, a # b
    PROVE  \E p \in Idx : NEXT_TX(p) = b /\ Dist(a, p) = Dist(a, b) - 1
<1>1. CASE b = 0
  <2>1. N - 1 \in Idx /\ NEXT_TX(N - 1) = 0
    BY NextTxValue, RingAssumption DEF Idx
  <2>2. Dist(a, N - 1) = Dist(a, b) - 1
    BY <1>1, RingAssumption DEF Dist, Idx
  <2> QED BY <1>1, <2>1, <2>2
<1>2. CASE b # 0
  <2>1. b - 1 \in Idx /\ b - 1 # N - 1
    BY <1>2, RingAssumption DEF Idx
  <2>2. NEXT_TX(b - 1) = b
    BY <2>1, NextTxValue, RingAssumption DEF Idx
  <2>3. Dist(a, b - 1) = Dist(a, b) - 1
    BY <1>2, RingAssumption DEF Dist, Idx
  <2> QED BY <2>1, <2>2, <2>3
<1> QED BY <1>1, <1>2

\* When the NIC has fetched the descriptor the reaping is at and not another of
\* the same packet, it is in the middle of that packet.
LEMMA PartFetched ==
    ASSUME TypeInv, RingInv, FrameInv, EndOK, NEW i \in Idx, Dist(cidx, i) < inuse,
           Part(cidx, i), bd[i].r, ~bd[cidx].r, ~Held(cidx)
    PROVE  phase = "mid" /\ hw # cidx /\ Dist(cidx, hw) <= Dist(cidx, i)
<1>0. /\ Dist(cidx, cidx) = 0 /\ cidx \in Idx /\ hw \in Idx /\ inuse \in Nat /\ Fetched \in Nat
      /\ \A j \in Idx : Dist(cidx, j) \in Nat
      /\ phase \in {"boundary", "mid", "update"}
  BY RingTypes, DistRange DEF TypeInv, TypeOK, NicType
<1>1. 0 < Fetched /\ Fetched <= Dist(cidx, i)
  BY <1>0 DEF FrameInv, SplitOK
<1>2. phase # "update"
  <2>1. ASSUME phase = "update" PROVE FALSE
    <3>1. bd[hw].l /\ Dist(cidx, hw) < Dist(cidx, i)
      BY <1>0, <1>1, <2>1 DEF FrameInv, UpdateOK, Fetched
    <3> QED BY <1>0, <3>1 DEF Part
  <2> QED BY <2>1
<1>3. Dist(cidx, hw) = Fetched
  BY <1>0, <1>2 DEF Fetched
<1>4. hw # cidx
  BY <1>0, <1>1, <1>3
<1>5. phase # "boundary"
  <2>1. ASSUME phase = "boundary" PROVE FALSE
    <3>1. PICK p \in Idx : NEXT_TX(p) = hw /\ Dist(cidx, p) = Dist(cidx, hw) - 1
      BY <1>0, <1>4, PrevTx
    <3>2. bd[p].l
      BY <1>0, <2>1, <3>1 DEF EndOK
    <3>3. Dist(cidx, p) < Dist(cidx, i)
      BY <1>0, <1>1, <1>3, <3>1
    <3> QED BY <1>0, <3>2, <3>3 DEF Part
  <2> QED BY <2>1
<1> QED BY <1>0, <1>1, <1>2, <1>3, <1>4, <1>5

\* Reaping a descriptor.
LEMMA CellReap ==
    ASSUME TypeInv, RingInv, FrameInv, EndOK, CellInv, NEW t \in Threads, ReapStep(t)
    PROVE  CellInv'
<1>1. /\ pc[t] \in {"reap", "space", "mon", "stopreap"} /\ cidx # pidx /\ ~bd[cidx].r
      /\ bd' = [bd EXCEPT ![cidx] = EmptyBd]
      /\ tx_pkts' = [tx_pkts EXCEPT ![cidx] = None]
      /\ cidx' = NEXT_TX(cidx) /\ inuse' = inuse - 1
      /\ UNCHANGED <<pidx, pc, cur, phase>>
  BY DEF ReapStep, ReapDescriptor, Reapable, nic
<1>2. (\A u \in Threads : pc[u] \notin {"load", "commit", "ready"}) /\ \A j : ~Held(j)
  BY <1>1, OneLoader DEF Held, LockedPcs, TxPcs
<1>3. PICK c \in Idx : c = NEXT_TX(cidx)
  BY RingTypes, NextTxValue
<1>4. /\ \A j \in Idx : Dist(cidx, j) \in Nat /\ Dist(cidx, j) < N
      /\ inuse \in Nat \ {0} /\ inuse < N /\ cidx \in Idx /\ Dist(cidx, cidx) = 0 /\ N \in Nat
      /\ bd \in [Idx -> BdType] /\ tx_pkts \in [Idx -> Mbufs \cup {None}]
  BY <1>1, RingTypes, DistRange, OwnerTypes
<1>5. Dist(cidx, c) = 1 /\ c # cidx
  <2>1. Dist(cidx, cidx) < N - 1
    BY <1>4, RingAssumption
  <2> QED BY <1>3, <1>4, <2>1, DistNext
<1>6. \A j \in Idx \ {cidx} : Dist(c, j) = Dist(cidx, j) - 1
  BY <1>3, <1>4, DistDrop
<1>7. Dist(c, cidx) = N - 1
  <2>1. /\ cidx \in 0..(N - 1) /\ N \in Nat
        /\ NEXT_TX(cidx) = IF cidx = N - 1 THEN 0 ELSE cidx + 1
    BY RingTypes, NextTxValue DEF Idx
  <2> QED BY <1>3, <2>1 DEF Dist
<1>8. /\ \A j \in Idx \ {cidx} : bd'[j] = bd[j] /\ tx_pkts'[j] = tx_pkts[j]
      /\ bd'[cidx] = EmptyBd /\ tx_pkts'[cidx] = None
  BY <1>1, <1>4
<1>9. \A j \in Idx : Dist(cidx, j)' = Dist(c, j)
  BY <1>1, <1>3 DEF Dist
<1>10. \A j \in Idx : Dist(c, j) < inuse - 1 => j # cidx /\ 1 <= Dist(cidx, j) /\ Dist(cidx, j) < inuse
  <2>1. \A j \in Idx : Dist(cidx, j) = 0 => j = cidx
    BY <1>4, DistInj
  <2> QED BY <1>4, <1>6, <1>7, <2>1
<1>11. ASSUME NEW i \in Idx, Dist(c, i) < inuse - 1, NEW f \in Idx \ {cidx}, Part(f, i)
       PROVE  Part(f, i)'
  BY <1>4, <1>6, <1>7, <1>8, <1>9, <1>10, <1>11 DEF Part
<1>12. ASSUME NEW i \in Idx, Dist(c, i) < inuse - 1, Part(cidx, i)
       PROVE  Headless(i)'
  <2>1. i # cidx /\ 1 <= Dist(cidx, i)
    BY <1>10, <1>12
  <2>2. Part(c, i) /\ tx_pkts[c] = None
    BY <1>4, <1>5, <1>12, <2>1 DEF Part
  <2>3. Part(c, i)'
    BY <1>5, <1>11, <1>12, <2>2
  <2>4. tx_pkts'[cidx'] = None
    BY <1>1, <1>3, <1>5, <1>8, <2>2
  <2> QED BY <1>1, <1>3, <2>3, <2>4 DEF Headless, Part
<1>13. KeptOK'
  <2>1. SUFFICES ASSUME NEW i \in Idx, Dist(c, i) < inuse - 1
                 PROVE  Whole(i)' \/ Headless(i)'
    BY <1>1, <1>9 DEF KeptOK
  <2>2. Whole(i) \/ Headless(i)
    BY <1>10, <2>1 DEF CellInv, KeptOK
  <2>3. CASE Headless(i)
    BY <1>12, <2>1, <2>3 DEF Headless
  <2>4. CASE Whole(i)
    <3>1. PICK f \in Idx : tx_pkts[f] # None /\ tx_pkts[f] = bd[i].m /\ Part(f, i)
      BY <2>4 DEF Whole
    <3>2. CASE f = cidx
      BY <1>12, <2>1, <3>1, <3>2
    <3>3. CASE f # cidx
      <4>1. Part(f, i)' /\ tx_pkts'[f] = tx_pkts[f] /\ bd'[i] = bd[i]
        BY <1>8, <1>10, <1>11, <2>1, <3>1, <3>3
      <4> QED BY <3>1, <4>1 DEF Whole
    <3> QED BY <3>2, <3>3
  <2> QED BY <2>2, <2>3, <2>4
<1>14. HeadOK'
  <2>1. SUFFICES ASSUME inuse - 1 > 0, tx_pkts[c] = None, bd[c].r
                 PROVE  phase = "mid"
    BY <1>1, <1>3, <1>5, <1>8 DEF HeadOK
  <2>2. Dist(cidx, c) < inuse
    BY <1>4, <1>5, <2>1
  <2>3. Part(cidx, c)
    <3>1. CASE Headless(c)
      BY <3>1 DEF Headless
    <3>2. CASE Whole(c)
      <4>1. PICK f \in Idx : tx_pkts[f] # None /\ Part(f, c)
        BY <3>2 DEF Whole
      <4>2. f # c /\ Dist(cidx, f) <= 1
        BY <1>5, <2>1, <4>1 DEF Part
      <4>3. Dist(cidx, f) # Dist(cidx, c)
        BY <1>4, <4>2, DistInj
      <4>4. Dist(cidx, f) = Dist(cidx, cidx)
        BY <1>4, <1>5, <4>2, <4>3
      <4>5. f = cidx
        BY <1>4, <4>4, DistInj
      <4> QED BY <4>1, <4>5
    <3> QED BY <2>2, <3>1, <3>2 DEF CellInv, KeptOK
  <2> QED BY <1>1, <1>2, <2>1, <2>2, <2>3, PartFetched
<1>15. LoadedOK'
  BY <1>1, <1>2 DEF LoadedOK
<1>16. CleanOK'
  <2>1. SUFFICES ASSUME NEW j \in Idx, Dist(c, j) >= inuse - 1 PROVE ~bd'[j].l
    BY <1>1, <1>9 DEF CleanOK
  <2>2. CASE j = cidx
    BY <1>8, <2>2 DEF EmptyBd
  <2>3. CASE j # cidx
    <3>1. Dist(cidx, j) >= inuse
      BY <1>4, <1>6, <2>1, <2>3
    <3> QED BY <1>8, <2>3, <3>1 DEF CellInv, CleanOK
  <2> QED BY <2>2, <2>3
<1> QED BY <1>13, <1>14, <1>15, <1>16 DEF CellInv

\* The NIC fetches a descriptor or writes one back.
LEMMA CellNic ==
    ASSUME TypeInv, RingInv, FrameInv, CellInv, NicFetch \/ NicUpdate
    PROVE  CellInv'
<1>0. /\ hw \in Idx /\ cidx \in Idx /\ bd \in [Idx -> BdType] /\ inuse \in Nat
      /\ Dist(cidx, cidx) = 0 /\ \A j \in Idx : Dist(cidx, j) \in Nat
  BY RingTypes, DistRange
<1>1. /\ UNCHANGED <<tx_pkts, cidx, inuse, pc, cur>>
      /\ \/ bd' = [bd EXCEPT ![hw].r = FALSE] \/ bd' = [bd EXCEPT ![hw].bdu = TRUE]
  BY DEF NicFetch, NicUpdate
<1>2. \A j \in Idx : bd'[j].m = bd[j].m /\ bd'[j].l = bd[j].l /\ (bd'[j].r => bd[j].r)
  BY <1>0, <1>1 DEF BdType
<1>3. \A j \in Idx : Dist(cidx, j)' = Dist(cidx, j)
  BY <1>1 DEF Dist
<1>4. KeptOK'
  BY <1>0, <1>1, <1>2, <1>3, PartKeep DEF CellInv, KeptOK
<1>5. HeadOK'
  <2>1. SUFFICES ASSUME inuse > 0, tx_pkts[cidx] = None, bd'[cidx].r PROVE FALSE
    BY <1>1 DEF HeadOK
  <2>2. bd[cidx].r /\ phase = "mid"
    BY <1>0, <1>2, <2>1 DEF CellInv, HeadOK
  <2>3. NicFetch /\ bd' = [bd EXCEPT ![hw].r = FALSE]
    BY <2>2 DEF NicFetch, NicUpdate
  <2>4. Dist(cidx, hw) = 0
    <3>1. 0 >= Fetched
      BY <1>0, <2>1, <2>2 DEF FrameInv, SplitOK
    <3> QED BY <1>0, <2>2, <3>1, RingTypes DEF Fetched
  <2>5. hw = cidx
    BY <1>0, <2>4, DistInj
  <2> QED BY <1>0, <2>1, <2>3, <2>5 DEF BdType
<1>6. LoadedOK'
  BY <1>1, <1>2, <1>3 DEF CellInv, LoadedOK
<1>7. CleanOK'
  BY <1>1, <1>2, <1>3 DEF CellInv, CleanOK
<1> QED BY <1>4, <1>5, <1>6, <1>7 DEF CellInv

\* Every step of an interface that is not stopped keeps the packets in place.
LEMMA NextLinkCellInv ==
    ASSUME TypeInv, RingInv, OwnerInv, FrameInv, EndOK, CellInv, [NextLink]_vars
    PROVE  CellInv'
<1> USE DEF ring, nic
<1>0. pidx \in Idx /\ hw \in Idx /\ bd \in [Idx -> BdType] /\ pc \in [Threads -> Pcs]
      /\ cur \in [Threads -> CurType]
  BY RingTypes
<1>1. ASSUME NEW t \in Threads, TxReady(t) PROVE CellInv'
  <2>1. /\ cur[t].first \in Idx /\ bd' = [bd EXCEPT ![cur[t].first].r = TRUE]
        /\ UNCHANGED <<tx_pkts, cidx, inuse, phase, cur>> /\ pc[t] = "ready"
        /\ pc' = [pc EXCEPT ![t] = "kick"]
    BY <1>1, RingTypes DEF TxReady, Goto
  <2>2. tx_pkts[cur[t].first] # None
    BY <2>1 DEF CellInv, LoadedOK
  <2>3. \A j \in Idx : /\ bd'[j].m = bd[j].m /\ bd'[j].l = bd[j].l
                       /\ bd'[j].r => bd[j].r \/ tx_pkts[j] # None
    BY <1>0, <2>1, <2>2 DEF BdType
  <2>4. \A u \in Threads : pc'[u] \notin {"load", "commit", "ready"}
    BY <1>0, <2>1, OneLoader DEF LockedPcs, TxPcs
  <2> QED BY <2>1, <2>3, <2>4, CellQuiet
<1>2. ASSUME NEW t \in Threads, NEW m \in Mbufs, NEW n \in 1..MaxFrags, BeginTx(t, m, n),
             UNCHANGED <<bd, tx_pkts, cidx, inuse, phase>>
      PROVE  CellInv'
  <2>1. /\ pc'[t] = "load" /\ cur'[t].m = m /\ cur'[t].i = 0
        /\ \A u \in Threads \ {t} : pc'[u] = pc[u] /\ cur'[u] = cur[u]
    BY <1>0, <1>2 DEF BeginTx, Goto
  <2>2. \A u \in Threads : pc[u] \in {"load", "commit"} => cur[u].m \in Mbufs
    BY DEF CellInv, LoadedOK
  <2> QED BY <1>2, <2>1, <2>2, CellQuiet
<1>3. ASSUME UNCHANGED <<bd, tx_pkts, cidx, inuse, phase>>,
             \/ UNCHANGED <<pc, cur>>
             \/ \E t \in Threads :
                  /\ \A u \in Threads \ {t} : cur'[u] = cur[u]
                  /\ \E l \in Pcs \ {"load", "commit", "ready"} : Goto(t, l)
      PROVE  CellInv'
  <2>1. \A u \in Threads : pc[u] \in {"load", "commit"} => cur[u].m \in Mbufs
    BY DEF CellInv, LoadedOK
  <2>2. \A u \in Threads : pc'[u] \in {"load", "commit", "ready"} => pc'[u] = pc[u] /\ cur'[u] = cur[u]
    BY <1>0, <1>3 DEF Goto
  <2> QED BY <1>3, <2>1, <2>2, CellQuiet
<1>4. {"idle", "pi", "pilock", "start", "loop", "reap", "full", "deq", "take", "space", "mon"}
         \subseteq Pcs \ {"load", "commit", "ready"}
  BY DEF Pcs, LockedPcs, TxPcs
<1>5. ASSUME NEW t \in Threads, StartStep(t) \/ TxKick(t) PROVE CellInv'
  <2>1. CASE StartDequeue(t)
    <3>1. PICK n \in 1..MaxFrags : BeginTx(t, Head(if_snd), n)
      BY <2>1 DEF StartDequeue
    <3>2. Head(if_snd) \in Mbufs
      BY <2>1 DEF StartDequeue, TypeInv, TypeOK, BufType
    <3> QED BY <1>2, <2>1, <3>1, <3>2 DEF StartDequeue
  <2>2. CASE ~StartDequeue(t)
    <3>1. /\ UNCHANGED <<bd, tx_pkts, cidx, inuse, phase>>
          /\ \E l \in {"idle", "pi", "loop", "reap", "full", "deq"} : Goto(t, l)
          /\ \A u \in Threads \ {t} : cur'[u] = cur[u]
      BY <1>5, <2>2, PcsType, RingTypes DEF StartStep, StartPurge, StartEnter, StartLoop,
         StartReaped, StartFull, StartDone, StartDefragFails, UnlockAndReturn, TxKick
    <3> QED BY <1>3, <1>4, <3>1
  <2> QED BY <2>1, <2>2
<1>6. CASE OutputStep \/ (\E m \in Mbufs : OutputEnter(m))
  <2>0. "out" \in Threads
    BY DEF Threads
  <2>1. CASE OutputTake
    <3>1. PICK n \in 1..MaxFrags : BeginTx("out", cur["out"].m, n)
      BY <2>1 DEF OutputTake
    <3>2. cur["out"].m \in Mbufs
      BY <2>0, <2>1 DEF OutputTake, TypeInv, CurOK
    <3> QED BY <1>2, <2>0, <2>1, <3>1, <3>2 DEF OutputTake
  <2>2. CASE ~OutputTake
    <3>1. /\ UNCHANGED <<bd, tx_pkts, cidx, inuse, phase>>
          /\ \A u \in Threads \ {"out"} : cur'[u] = cur[u]
          /\ \E l \in {"idle", "take", "space"} : Goto("out", l)
      BY <1>6, <2>2, RingTypes DEF OutputStep, OutputReaped, OutputDefragFails, OutputEnter,
         UnlockAndReturn, Return
    <3> QED BY <1>3, <1>4, <2>0, <3>1
  <2> QED BY <2>1, <2>2
<1>7. CASE IntrStep \/ MonitorReap \/ MonitorDone \/ (\E m \in Mbufs : StackEnqueue(m))
  <2>1. IntrStep => /\ UNCHANGED <<bd, tx_pkts, cidx, inuse, phase, cur>>
                    /\ \E l \in {"idle", "pi", "pilock", "start"} : Goto("intr", l)
    BY DEF IntrStep, IntrRun, IntrTest, IntrStart
  <2>2. MonitorReap \/ MonitorDone \/ (\E m \in Mbufs : StackEnqueue(m)) =>
             /\ UNCHANGED <<bd, tx_pkts, cidx, inuse, phase, cur>>
             /\ UNCHANGED pc \/ \E l \in {"idle", "start", "mon"} : Goto("stack", l)
    BY DEF MonitorReap, MonitorDone, StackEnqueue, UnlockAndReturn, Return
  <2>3. "intr" \in Threads /\ "stack" \in Threads
    BY DEF Threads
  <2> QED BY <1>3, <1>4, <1>7, <2>1, <2>2, <2>3
<1>8. CASE IsrStep \/ NicIdle \/ NicPrefetchEmpty \/ LinkChange \/ UNCHANGED vars
  <2>1. UNCHANGED <<bd, tx_pkts, cidx, inuse, phase, pc, cur>>
    BY <1>8 DEF IsrStep, IsrClear, IsrCheck, NicIdle, NicPrefetchEmpty, LinkChange, vars
  <2> QED BY <1>3, <2>1
<1> HIDE DEF ring, nic
<1> QED BY <1>1, <1>5, <1>6, <1>7, <1>8, CellReap, CellLoad, CellCommit, CellNic
        DEF NextLink, NextUp, ThreadStep, TxStep, NicStep

\* The NIC stays behind the last descriptor of a packet when it is between two.
LEMMA NextLinkEnd ==
    ASSUME TypeInv, RingInv, FrameInv, EndOK, [NextLink]_vars
    PROVE  EndOK'
<1> USE DEF ring, nic
<1>0. /\ hw \in Idx /\ cidx \in Idx /\ pidx \in Idx /\ bd \in [Idx -> BdType]
      /\ inuse \in Nat /\ inuse < N /\ \A j \in Idx : Dist(cidx, j) \in Nat
  BY RingTypes
<1>1. ASSUME UNCHANGED <<cidx, hw, phase>>, \A j \in Idx : bd[j].l => bd'[j].l
      PROVE  EndOK'
  BY <1>1 DEF EndOK, Dist
<1>2. ASSUME NEW t \in Threads, TxLoad(t) PROVE EndOK'
  <2>1. ~bd[cur[t].idx].r /\ cur[t].idx \in Idx /\ bd[cur[t].idx] \in BdType
    BY <1>2, LoadFree, RingTypes DEF TxLoad
  <2>2. LoadedBd(t).l = bd[cur[t].idx].l
    BY <2>1 DEF LoadedBd, BdType
  <2>3. bd' = [bd EXCEPT ![cur[t].idx] = LoadedBd(t)] /\ UNCHANGED <<cidx, hw, phase>>
    BY <1>2, <2>1 DEF TxLoad
  <2> QED BY <1>0, <1>1, <2>1, <2>2, <2>3
<1>3. ASSUME NEW t \in Threads, TxCommit(t) PROVE EndOK'
  <2> DEFINE k == (cur[t].first + cur[t].n - 1) % N
  <2>1. cur[t].first + cur[t].n - 1 \in Int
    BY RingTypes DEF Idx
  <2>2. k \in Idx
    BY <2>1, ModIdx
  <2> HIDE DEF k
  <2>3. bd' = [bd EXCEPT ![k].l = TRUE] /\ UNCHANGED <<cidx, hw, phase>>
    BY <1>3 DEF TxCommit, k
  <2>4. \A j \in Idx : bd[j].l => bd'[j].l
    BY <1>0, <2>2, <2>3 DEF BdType
  <2> QED BY <1>1, <2>3, <2>4
<1>4. ASSUME NEW t \in Threads, TxReady(t) PROVE EndOK'
  <2>1. bd' = [bd EXCEPT ![cur[t].first].r = TRUE] /\ UNCHANGED <<cidx, hw, phase>>
    BY <1>4 DEF TxReady
  <2>2. \A j \in Idx : bd'[j].l = bd[j].l
    BY <1>0, <2>1 DEF BdType
  <2> QED BY <1>1, <2>1, <2>2
<1>5. ASSUME NEW t \in Threads, ReapStep(t) PROVE EndOK'
  <2>1. /\ pc[t] \in {"reap", "space", "mon", "stopreap"} /\ cidx # pidx
        /\ ~bd[cidx].r /\ (bd[cidx].l => bd[cidx].bdu)
        /\ bd' = [bd EXCEPT ![cidx] = EmptyBd]
        /\ cidx' = NEXT_TX(cidx) /\ UNCHANGED <<hw, phase>>
    BY <1>5 DEF ReapStep, ReapDescriptor, Reapable
  <2>2. \A j : ~Held(j)
    BY <2>1, OneLoader DEF LockedPcs, TxPcs, Held
  <2>3. Dist(cidx, cidx) = 0 /\ inuse > 0
    BY <2>1, RingTypes, DistRange
  <2>4. 0 < Fetched
    BY <2>1, <2>2, <2>3, RingTypes DEF FrameInv, SplitOK
  <2>5. hw # cidx
    <3>1. phase = "update" => hw # cidx
      BY <2>1 DEF FrameInv, UpdateOK
    <3>2. phase # "update" => hw # cidx
      BY <2>3, <2>4 DEF Fetched
    <3> QED BY <3>1, <3>2
  <2>6. \A j \in Idx \ {cidx} : Dist(NEXT_TX(cidx), j) = Dist(cidx, j) - 1
    BY <2>1, RingTypes, DistDrop
  <2>7. \A j \in Idx \ {cidx} : bd'[j] = bd[j]
    BY <1>0, <2>1
  <2>8. Dist(NEXT_TX(cidx), cidx) = N - 1
    <3>1. /\ cidx \in 0..(N - 1) /\ N \in Nat
          /\ NEXT_TX(cidx) = IF cidx = N - 1 THEN 0 ELSE cidx + 1
      BY RingTypes, NextTxValue DEF Idx
    <3> QED BY <3>1 DEF Dist
  <2>9. Dist(cidx, hw) < N
    BY <1>0, RingTypes
  <2>10. SUFFICES ASSUME phase = "boundary", NEW j \in Idx, NEXT_TX(j) = hw,
                         Dist(NEXT_TX(cidx), j) < Dist(NEXT_TX(cidx), hw)
                  PROVE  bd'[j].l
    BY <2>1 DEF EndOK, Dist
  <2>11. j # cidx
    BY <1>0, <2>5, <2>6, <2>8, <2>9, <2>10, RingTypes
  <2>12. Dist(cidx, j) < Dist(cidx, hw)
    BY <1>0, <2>5, <2>6, <2>10, <2>11
  <2> QED BY <2>7, <2>10, <2>11, <2>12 DEF EndOK
<1>6. CASE NicFetch
  BY <1>6 DEF NicFetch, EndOK
<1>7. CASE NicUpdate
  <2>1. /\ phase = "update" /\ bd' = [bd EXCEPT ![hw].bdu = TRUE] /\ cidx' = cidx
        /\ hw' = NEXT_TX(hw)
    BY <1>7 DEF NicUpdate
  <2>2. \A j \in Idx : bd'[j].l = bd[j].l
    BY <1>0, <2>1 DEF BdType
  <2>3. bd[hw].l
    BY <2>1 DEF FrameInv, UpdateOK
  <2> QED BY <1>0, <2>1, <2>2, <2>3, DistInj DEF EndOK
<1>8. CASE \/ \E t \in Threads : StartStep(t) \/ TxKick(t)
           \/ \E m \in Mbufs : StackEnqueue(m) \/ OutputEnter(m)
           \/ OutputStep \/ IntrStep \/ IsrStep \/ NicIdle \/ NicPrefetchEmpty
           \/ MonitorReap \/ MonitorDone \/ LinkChange \/ UNCHANGED vars
  <2>1. UNCHANGED <<bd, cidx, hw, phase>>
    BY <1>8 DEF StartStep, StartPurge, StartEnter, StartLoop, StartReaped, StartFull,
       StartDone, StartDequeue, StartDefragFails, TxKick, StackEnqueue, OutputEnter,
       OutputStep, OutputReaped, OutputTake, OutputDefragFails, IntrStep, IntrRun, IntrTest,
       IntrStart, IsrStep, IsrClear, IsrCheck, NicIdle, NicPrefetchEmpty, MonitorReap,
       MonitorDone, LinkChange, vars
  <2> QED BY <2>1, <1>1
<1> HIDE DEF ring, nic
<1> QED BY <1>2, <1>3, <1>4, <1>5, <1>6, <1>7, <1>8
        DEF NextLink, NextUp, ThreadStep, TxStep, NicStep

\* Only mx6q_stop and mx6q_init put the MAC to sleep and wake it, and only
\* mx6q_stop goes to its places.
LEMMA NextLinkNoStop ==
    ASSUME TypeInv, RingInv, [NextLink]_vars
    PROVE  /\ UNCHANGED asleep
           /\ pc'["stack"] \in {"stopwait", "stopreap", "stopclr"} => pc'["stack"] = pc["stack"]
<1> USE DEF ring, nic
<1>0. pc \in [Threads -> Pcs] /\ "stack" \in Threads
  BY RingTypes DEF Threads
<1>1. UNCHANGED asleep
  BY DEF NextLink, NextUp, StackEnqueue, OutputEnter, ThreadStep, ReapStep, StartStep, StartPurge,
     StartEnter, StartLoop, StartReaped, StartFull, StartDone, StartDequeue,
     StartDefragFails, TxStep, TxLoad, TxCommit, TxReady, TxKick, OutputStep, OutputReaped,
     OutputTake, OutputDefragFails, IntrStep, IntrRun, IntrTest, IntrStart, IsrStep,
     IsrClear, IsrCheck, NicStep, NicFetch, NicUpdate, NicIdle, NicPrefetchEmpty,
     MonitorReap, MonitorDone, LinkChange, vars
<1>5. CASE \/ NicStep \/ NicPrefetchEmpty \/ IsrStep \/ LinkChange \/ UNCHANGED vars
           \/ \E t \in Threads : ReapStep(t)
  <2>1. UNCHANGED pc
    BY <1>5 DEF NicStep, NicFetch, NicUpdate, NicIdle, NicPrefetchEmpty, IsrStep, IsrClear, IsrCheck,
       LinkChange, ReapStep, vars
  <2> QED BY <1>1, <2>1
<1>6. CASE \/ \E t \in Threads : StartStep(t) \/ TxStep(t)
           \/ \E m \in Mbufs : StackEnqueue(m) \/ OutputEnter(m)
           \/ OutputStep \/ IntrStep \/ MonitorReap \/ MonitorDone
  <2>2. UNCHANGED pc \/ \E t \in Threads, l \in Pcs \ {"stopwait", "stopreap", "stopclr"} : Goto(t, l)
    <3>1. {"idle", "take", "space", "load", "commit", "ready", "kick", "pi", "pilock", "start",
           "mon", "loop", "reap", "full", "deq"}
            \subseteq Pcs \ {"stopwait", "stopreap", "stopclr"}
      BY DEF Pcs, LockedPcs, TxPcs
    <3>2. ASSUME NEW t \in Threads, StartStep(t)
          PROVE  \E l \in {"idle", "pi", "loop", "reap", "full", "deq", "load"} : Goto(t, l)
      BY <3>2, PcsType DEF StartStep, StartPurge, StartEnter, StartLoop, StartReaped,
         StartFull, StartDone, StartDequeue, StartDefragFails, UnlockAndReturn, BeginTx
    <3>3. ASSUME NEW t \in Threads, TxStep(t)
          PROVE  \E l \in {"idle", "loop", "load", "commit", "ready", "kick"} : Goto(t, l)
      BY <3>3, PcsType DEF TxStep, TxLoad, TxCommit, TxReady, TxKick
    <3>4. OutputStep \/ (\E m \in Mbufs : OutputEnter(m)) =>
             \E l \in {"idle", "take", "space", "load"} : Goto("out", l)
      BY DEF OutputStep, OutputReaped, OutputTake, OutputDefragFails, OutputEnter,
         UnlockAndReturn, Return, BeginTx
    <3>5. IntrStep => \E l \in {"idle", "pi", "pilock", "start"} : Goto("intr", l)
      BY DEF IntrStep, IntrRun, IntrTest, IntrStart
    <3>6. MonitorReap \/ MonitorDone \/ (\E m \in Mbufs : StackEnqueue(m)) =>
             UNCHANGED pc \/ \E l \in {"idle", "start", "mon"} : Goto("stack", l)
      BY DEF MonitorReap, MonitorDone, StackEnqueue, UnlockAndReturn, Return
    <3> QED BY <1>6, <3>1, <3>2, <3>3, <3>4, <3>5, <3>6 DEF Threads
  <2>3. pc'["stack"] \in {"stopwait", "stopreap", "stopclr"} => pc'["stack"] = pc["stack"]
    BY <1>0, <2>2 DEF Goto
  <2> QED BY <1>1, <2>3
<1> HIDE DEF ring, nic
<1> QED BY <1>5, <1>6 DEF NextLink, NextUp, ThreadStep

\* A NIC that sleeps stays in its place.
LEMMA NextLinkStopped ==
    ASSUME TypeInv, RingInv, FrameInv, StoppedOK, [NextLink]_vars
    PROVE  StoppedOK'
<1> USE DEF ring, nic
<1>0. pc \in [Threads -> Pcs] /\ "stack" \in Threads
  BY RingTypes DEF Threads
<1>1. UNCHANGED asleep
  BY NextLinkNoStop
<1>2. CASE NicFetch
  <2>1. /\ tdar /\ (phase = "mid" \/ ~asleep) /\ UNCHANGED <<pc, cidx, tdar>>
    BY <1>2 DEF NicFetch
  <2>2. pc["stack"] \notin {"stopreap", "stopclr"}
    BY <2>1 DEF StoppedOK
  <2> QED BY <1>1, <2>1, <2>2 DEF StoppedOK
<1>3. CASE NicUpdate \/ NicIdle
  BY <1>1, <1>3 DEF NicUpdate, NicIdle, StoppedOK
<1>4. CASE NicPrefetchEmpty \/ IsrStep \/ LinkChange \/ UNCHANGED vars
  <2>1. UNCHANGED <<pc, cidx, hw, phase>>
    BY <1>4 DEF NicPrefetchEmpty, IsrStep, IsrClear, IsrCheck, LinkChange, vars
  <2>2. UNCHANGED tdar \/ tdar' = (tdar \/ LastBdActive)
    BY <1>4 DEF NicPrefetchEmpty, IsrStep, IsrClear, IsrCheck, LinkChange, vars
  <2>3. tdar => tdar'
    BY <2>2, Zenon
  <2> QED BY <1>1, <2>1, <2>3 DEF StoppedOK
<1>5. CASE \E t \in Threads : ReapStep(t)
  <2>1. PICK t \in Threads : pc[t] \in {"reap", "space", "mon", "stopreap"} /\ ReapStep(t)
    BY <1>5 DEF ReapStep
  <2>2. pc["stack"] # "stopclr"
    <3>1. t = "stack" => pc["stack"] # "stopclr"
      BY <2>1
    <3>2. t # "stack" => pc["stack"] \notin LockedPcs
      BY <1>0, <2>1, OneLoader DEF LockedPcs
    <3> QED BY <3>1, <3>2 DEF LockedPcs
  <2> QED BY <1>1, <2>1, <2>2 DEF ReapStep, StoppedOK
<1>6. CASE \/ \E t \in Threads : StartStep(t) \/ TxStep(t)
           \/ \E m \in Mbufs : StackEnqueue(m) \/ OutputEnter(m)
           \/ OutputStep \/ IntrStep \/ MonitorReap \/ MonitorDone
  <2>1. UNCHANGED <<cidx, hw, phase>> /\ (UNCHANGED tdar \/ tdar' = (tdar \/ running))
    BY <1>6 DEF StartStep, StartPurge, StartEnter, StartLoop, StartReaped, StartFull,
       StartDone, StartDequeue, StartDefragFails, TxStep, TxLoad, TxCommit, TxReady, TxKick,
       StackEnqueue, OutputEnter, OutputStep, OutputReaped, OutputTake, OutputDefragFails,
       IntrStep, IntrRun, IntrTest, IntrStart, MonitorReap, MonitorDone
  <2>0. tdar => tdar'
    BY <2>1, Zenon
  <2>3. pc'["stack"] \in {"stopwait", "stopreap", "stopclr"} => pc'["stack"] = pc["stack"]
    BY NextLinkNoStop
  <2> QED BY <1>1, <2>0, <2>1, <2>3 DEF StoppedOK
<1> HIDE DEF ring, nic
<1> QED BY <1>2, <1>3, <1>4, <1>5, <1>6 DEF NextLink, NextUp, ThreadStep, NicStep

\* Only a stop gives up on the NIC or leaves it descriptors.
LEMMA NextLinkHung == [NextLink]_vars => UNCHANGED <<hung, torn>>
BY DEF NextLink, NextUp, StackEnqueue, OutputEnter, ThreadStep, ReapStep, StartStep, StartPurge,
   StartEnter, StartLoop, StartReaped, StartFull, StartDone, StartDequeue,
   StartDefragFails, TxStep, TxLoad, TxCommit, TxReady, TxKick, OutputStep, OutputReaped,
   OutputTake, OutputDefragFails, IntrStep, IntrRun, IntrTest, IntrStart, IsrStep,
   IsrClear, IsrCheck, NicStep, NicFetch, NicUpdate, NicIdle, NicPrefetchEmpty,
   MonitorReap, MonitorDone, LinkChange, vars, flags


\* The steps of a stop or an init that only move the stack thread on.
LEMMA StopMoves ==
    ASSUME TypeInv, RingInv,
           StopBegin \/ StopGraceful \/ StopTimeout \/ StopReaped \/ InitUp
    PROVE  /\ UNCHANGED <<bd, tx_pkts, pidx, cidx, inuse, cur, if_snd, pool, hw, phase, tdar>>
           /\ pc["stack"] \in {"idle", "stopwait", "stopreap"}
           /\ pc'["stack"] \in {"idle", "stopwait", "stopreap", "stopclr"}
           /\ Goto("stack", pc'["stack"])
           /\ \A u \in Threads \ {"stack"} : pc'[u] = pc[u]
           /\ sndex' = sndex \/ (sndex = None /\ sndex' = "stack")
           /\ pc'["stack"] # "idle" => sndex' = "stack"
<1>1. pc \in [Threads -> Pcs] /\ "stack" \in Threads
  BY RingTypes DEF Threads
<1>2. /\ UNCHANGED <<bd, tx_pkts, pidx, cidx, inuse, cur, if_snd, pool, hw, phase, tdar>>
      /\ pc["stack"] \in {"idle", "stopwait", "stopreap"}
      /\ sndex' = sndex \/ (sndex = None /\ sndex' = "stack")
  BY DEF StopBegin, StopGraceful, StopTimeout, StopReaped, InitUp, Lock, ring, bufs, nic
<1>3. \/ InitUp /\ pc' = pc /\ pc["stack"] = "idle"
      \/ StopBegin /\ pc' = [pc EXCEPT !["stack"] = "stopwait"]
      \/ (StopGraceful \/ StopTimeout) /\ pc' = [pc EXCEPT !["stack"] = "stopreap"]
      \/ StopReaped /\ pc' = [pc EXCEPT !["stack"] = "stopclr"]
  BY DEF StopBegin, StopGraceful, StopTimeout, StopReaped, InitUp, Goto
<1>4. /\ pc'["stack"] \in {"idle", "stopwait", "stopreap", "stopclr"}
      /\ Goto("stack", pc'["stack"])
      /\ \A u \in Threads \ {"stack"} : pc'[u] = pc[u]
  BY <1>1, <1>3 DEF Goto
<1>5. pc["stack"] # "idle" => sndex = "stack"
  BY <1>1, <1>2 DEF RingInv, LockOK, LockedPcs
<1>6. pc'["stack"] # "idle" => sndex' = "stack"
  <2>1. InitUp => pc'["stack"] = "idle"
    BY <1>1, <1>3 DEF StopBegin, StopGraceful, StopTimeout, StopReaped, InitUp
  <2>2. StopBegin => sndex' = "stack"
    BY DEF StopBegin, Lock
  <2>3. StopGraceful \/ StopTimeout \/ StopReaped => sndex' = "stack"
    <3>1. StopGraceful \/ StopTimeout \/ StopReaped => pc["stack"] # "idle" /\ sndex' = sndex
      BY DEF StopGraceful, StopTimeout, StopReaped
    <3> QED BY <1>5, <3>1
  <2> QED BY <2>1, <2>2, <2>3
<1> QED BY <1>2, <1>4, <1>6

\* The reaping of a stop ends where the NIC is.
LEMMA StopCaughtUp ==
    ASSUME TypeInv, RingInv, FrameInv, WrittenOK, StoppedOK, StopReaped
    PROVE  hw = cidx
<1>1. pc["stack"] = "stopreap" /\ phase = "boundary" /\ (pidx = cidx \/ ~Reapable(bd[cidx]))
  BY DEF StopReaped, ReapOver, StoppedOK
<1>2. \A j : ~Held(j)
  BY <1>1, OneLoader DEF Held, LockedPcs, TxPcs, Threads
<1>3. Fetched = Dist(cidx, hw) /\ Dist(cidx, hw) <= inuse
  BY <1>1, RingTypes DEF Fetched, FrameInv, PlaceOK
<1>4. Dist(cidx, cidx) = 0
  BY RingTypes, DistRange
<1>5. Dist(cidx, hw) = 0
  <2>1. CASE inuse = 0
    BY <1>3, <2>1, RingTypes
  <2>2. CASE inuse # 0
    <3>1. ~Reapable(bd[cidx])
      BY <1>1, <1>4, <2>2, RingTypes
    <3>2. bd[cidx].r <=> 0 >= Fetched
      BY <1>2, <1>4, <2>2, RingTypes DEF FrameInv, SplitOK
    <3>3. ~(0 < Dist(cidx, hw))
      BY <1>3, <1>4, <3>1, <3>2, RingTypes DEF WrittenOK, Reapable
    <3> QED BY <3>3, RingTypes
  <2> QED BY <2>1, <2>2
<1> QED BY <1>5, RingTypes, DistRange

\* A stop that leaves no descriptor ready empties the ring.
LEMMA ClearedRing ==
    ASSUME TypeInv, RingInv, StopClear, ~torn'
    PROVE  /\ pc["stack"] = "stopclr" /\ sndex = "stack" /\ sndex' = None
           /\ \A u \in Threads \ {"stack"} : pc[u] \notin LockedPcs /\ pc'[u] = pc[u]
           /\ pc'["stack"] = "idle"
           /\ pidx' = cidx /\ cidx' = cidx /\ inuse' = 0
           /\ \A j \in Idx : ~bd'[j].r /\ bd'[j].bdu = bd[j].bdu
           /\ \A j \in Idx : bd'[j].l => bd[j].l /\ ~bd[j].r
<1>1. /\ pc["stack"] = "stopclr" /\ sndex' = None /\ Goto("stack", "idle")
      /\ bd' = [j \in Idx |-> StoppedBd(j)]
      /\ pidx' = cidx /\ cidx' = cidx /\ inuse' = 0
      /\ torn' = (torn \/ \E i \in Idx \ Pending : bd[i].r)
  BY DEF StopClear, UnlockAndReturn, Return, StopIndex
<1>2. "stack" \in Threads /\ pc["stack"] \in LockedPcs
  BY <1>1 DEF Threads, LockedPcs
<1>3. sndex = "stack" /\ \A u \in Threads \ {"stack"} : pc[u] \notin LockedPcs
  BY <1>2, OneLoader DEF RingInv, LockOK
<1>4. pc'["stack"] = "idle" /\ \A u \in Threads \ {"stack"} : pc'[u] = pc[u]
  BY <1>1, <1>2, RingTypes DEF Goto
<1>5. ASSUME NEW j \in Idx
      PROVE  /\ ~bd'[j].r /\ bd'[j].bdu = bd[j].bdu
             /\ bd'[j].l => bd[j].l /\ ~bd[j].r
  <2>1. bd'[j] = StoppedBd(j) /\ bd[j] \in BdType
    BY <1>1, RingTypes
  <2>2. CASE j \in Pending
    BY <2>1, <2>2 DEF StoppedBd, BdType
  <2>3. CASE j \notin Pending
    <3>1. ~bd[j].r
      BY <1>1, <2>3
    <3> QED BY <2>1, <2>3, <3>1 DEF StoppedBd
  <2> QED BY <2>2, <2>3
<1> QED BY <1>1, <1>3, <1>4, <1>5

\* A stop or an init keeps the ring's invariant.
LEMMA StopRingInv ==
    ASSUME TypeInv, RingInv, StopStep, ~torn'
    PROVE  RingInv'
<1>1. CASE StopClear
  <2>1. LockOK'
    BY <1>1, ClearedRing DEF LockOK, LockedPcs, TxPcs
  <2>2. RingOK'
    <3>1. Dist(cidx, cidx) = 0
      BY RingTypes, DistRange
    <3> QED BY <1>1, <3>1, ClearedRing DEF RingOK, Dist
  <2>3. \A u \in Threads : pc'[u] \notin {"deq", "take", "load", "commit", "ready"}
    BY <1>1, ClearedRing DEF LockedPcs, TxPcs
  <2>4. LoadsOK' /\ ReadyOK'
    BY <1>1, <2>3, ClearedRing DEF LoadsOK, LoadOK, ReadyOK
  <2> QED BY <2>1, <2>2, <2>4 DEF RingInv
<1>2. CASE ~StopClear
  <2>1. pc'["stack"] \in Pcs \ {"deq", "take", "load", "commit", "ready"} /\ "stack" \in Threads
    BY <1>2, StopMoves DEF StopStep, Pcs, LockedPcs, Threads
  <2>2. "idle" \notin LockedPcs
    BY DEF LockedPcs, TxPcs
  <2> QED BY <1>2, <2>1, <2>2, StopMoves, RingMove DEF StopStep
<1> QED BY <1>1, <1>2

\* ... and, unless it gives up, the place of the NIC and the packets.
LEMMA StopPaceInv ==
    ASSUME TypeInv, RingInv, PaceInv, StopStep, ~torn', ~hung'
    PROVE  PaceInv'
<1>1. ~hung /\ ~StopTimeout
  BY DEF StopStep, StopBegin, StopGraceful, StopTimeout, StopReaped, StopClear, InitUp, flags
<1>2. FrameInv /\ WrittenOK /\ StoppedOK /\ EndOK /\ CellInv
  BY DEF PaceInv
<1>3. CASE StopClear
  <2>1. hw = cidx /\ phase = "boundary" /\ asleep /\ UNCHANGED <<hw, phase, asleep, tdar>>
    BY <1>2, <1>3 DEF StopClear, StoppedOK, nic
  <2>2. Dist(cidx, cidx) = 0
    BY RingTypes, DistRange
  <2>3. Fetched = 0 /\ Fetched' = 0
    BY <1>3, <2>1, <2>2, ClearedRing DEF Fetched, Dist
  <2>4. \A j \in Idx : ~bd'[j].bdu
    BY <1>2, <1>3, <2>3, ClearedRing, RingTypes DEF FrameInv, UpdateOK
  <2>5. \A j \in Idx : Dist(cidx, j)' = Dist(cidx, j) /\ Dist(cidx, j) \in Nat
    BY <1>3, ClearedRing, RingTypes DEF Dist
  <2>6. \A u \in Threads : pc'[u] \notin {"load", "commit", "ready"}
    BY <1>3, ClearedRing DEF LockedPcs, TxPcs
  <2>7. PlaceOK' /\ SplitOK' /\ LastOK'
    BY <1>3, <2>3, <2>5, ClearedRing DEF PlaceOK, SplitOK, LastOK
  <2>8. BehindOK' /\ HeldOK'
    BY <2>6 DEF BehindOK, HeldOK
  <2>9. UpdateOK' /\ FrameWhole'
    BY <2>1, <2>4 DEF UpdateOK, FrameWhole
  <2>10. WrittenOK'
    BY <1>3, <2>4, <2>1, <2>2, <2>5, ClearedRing, RingTypes DEF WrittenOK, Dist
  <2>11. StoppedOK'
    BY <1>3, <2>1, ClearedRing DEF StoppedOK
  <2>12. EndOK'
    BY <1>3, <2>1, <2>2, <2>5, ClearedRing, RingTypes DEF EndOK, Dist
  <2>13. CellInv'
    <3>1. \A j : ~Held(j)
      BY <1>3, ClearedRing DEF Held, LockedPcs, TxPcs, Threads
    <3>2. ASSUME NEW j \in Idx PROVE ~bd'[j].l
      <4>1. CASE Dist(cidx, j) < inuse
        <5>1. bd[j].r
          BY <1>2, <2>3, <2>5, <3>1, <4>1 DEF FrameInv, SplitOK
        <5> QED BY <1>3, <5>1, ClearedRing
      <4>2. CASE ~(Dist(cidx, j) < inuse)
        <5>1. ~bd[j].l
          BY <1>2, <2>5, <4>2, RingTypes DEF CellInv, CleanOK
        <5> QED BY <1>3, <5>1, ClearedRing
      <4> QED BY <4>1, <4>2
    <3>3. KeptOK' /\ HeadOK'
      BY <1>3, <2>5, ClearedRing DEF KeptOK, HeadOK
    <3>4. LoadedOK' /\ CleanOK'
      BY <2>6, <3>2 DEF LoadedOK, CleanOK
    <3> QED BY <3>3, <3>4 DEF CellInv
  <2> QED BY <2>7, <2>8, <2>9, <2>10, <2>11, <2>12, <2>13 DEF FrameInv, PaceInv
<1>4. CASE ~StopClear
  <2>1. /\ UNCHANGED <<bd, tx_pkts, pidx, cidx, inuse, cur, hw, phase, tdar>>
        /\ \A u \in Threads \ {"stack"} : pc'[u] = pc[u]
        /\ pc["stack"] \in {"idle", "stopwait", "stopreap"}
        /\ pc'["stack"] \in {"idle", "stopwait", "stopreap", "stopclr"}
    BY <1>4, StopMoves DEF StopStep
  <2>2. FrameInv'
    BY <1>2, <2>1, FrameQuiet
  <2>3. WrittenOK' /\ EndOK'
    BY <1>2, <2>1 DEF WrittenOK, EndOK, Dist
  <2>4. CellInv'
    <3>1. \A u \in Threads : pc[u] \in {"load", "commit"} => cur[u].m \in Mbufs
      BY <1>2 DEF CellInv, LoadedOK
    <3> QED BY <1>2, <2>1, <3>1, CellQuiet
  <2>5. StoppedOK'
    <3>1. pc \in [Threads -> Pcs] /\ "stack" \in Threads
      BY RingTypes DEF Threads
    <3>2. CASE StopBegin
      BY <1>2, <2>1, <3>1, <3>2 DEF StopBegin, Goto, StoppedOK
    <3>3. CASE StopGraceful
      BY <1>2, <2>1, <3>1, <3>3 DEF StopGraceful, Goto, StoppedOK, nic
    <3>4. CASE StopReaped
      <4>1. hw = cidx
        BY <1>2, <3>4, StopCaughtUp
      <4> QED BY <1>2, <2>1, <3>1, <3>4, <4>1 DEF StopReaped, Goto, StoppedOK, nic
    <3>5. CASE InitUp
      BY <1>2, <2>1, <3>1, <3>5 DEF InitUp, StoppedOK
    <3> QED BY <1>1, <1>4, <3>2, <3>3, <3>4, <3>5 DEF StopStep
  <2> QED BY <2>2, <2>3, <2>4, <2>5 DEF PaceInv
<1> QED BY <1>3, <1>4

\* A stop frees the packets that are left in the ring.
LEMMA StopOwnerInv ==
    ASSUME TypeInv, RingInv, OwnerInv, StopStep, ~torn'
    PROVE  OwnerInv'
<1>1. CASE StopClear
  <2>1. /\ pool' = pool \cup {tx_pkts[i] : i \in Pending} /\ tx_pkts' = [i \in Idx |-> None]
        /\ UNCHANGED <<if_snd, cur>>
    BY <1>1 DEF StopClear
  <2>2. cur["stack"].m = None
    BY <1>1, ClearedRing DEF OwnerInv, CarriersOK, TxPcs, Threads
  <2>3. CarriersOK' /\ \A x \in Mbufs : Carried(x)' <=> Carried(x)
    <3>1. \A u \in Threads : pc'[u] = pc[u] \/ cur[u].m = None
      BY <1>1, <2>2, ClearedRing
    <3> QED BY <2>1, <3>1, OwnerTypes DEF OwnerInv, CarriersOK, Carried, Owns
  <2>4. \A x \in Mbufs : x \in pool' <=> x \in pool \/ Booked(x)
    BY <2>1, OwnerTypes DEF Pending, Booked
  <2>5. \A x \in Mbufs : ~Booked(x)' /\ (Queued(x)' <=> Queued(x))
    BY <2>1, OwnerTypes DEF Booked, Queued
  <2>6. PacketsOK' /\ SingleOK'
    BY <2>1 DEF OwnerInv, PacketsOK, SingleOK
  <2>7. \A x \in Mbufs : OneOwner(x)'
    BY <2>3, <2>4, <2>5 DEF OwnerInv, OneOwner
  <2> QED BY <2>3, <2>6, <2>7 DEF OwnerInv
<1>2. CASE ~StopClear
  <2>1. /\ UNCHANGED <<if_snd, pool, tx_pkts, cidx, inuse, cur>>
        /\ Goto("stack", pc'["stack"]) /\ pc["stack"] \in {"idle", "stopwait", "stopreap"}
        /\ "stack" \in Threads
    BY <1>2, StopMoves DEF StopStep, Threads
  <2> QED BY <2>1, OwnerIdle DEF TxPcs
<1> QED BY <1>1, <1>2


StopInv == /\ TypeInv
           /\ ~torn => RingInv /\ OwnerInv
           /\ ~torn /\ ~hung => PaceInv

\* At first the ring is empty and the NIC at its start.
LEMMA InitStopInv == Init => StopInv
<1> SUFFICES ASSUME Init PROVE StopInv
  OBVIOUS
<1>1. TypeInv /\ RingInv /\ FrameInv /\ OwnerInv
  BY InitTypeInv, InitRingInv, InitFrameInv, InitOwnerInv
<1>2. \A j \in Idx : ~(Dist(cidx, j) < inuse) /\ ~(Dist(cidx, j) < Dist(cidx, hw))
  <2>1. inuse = 0 /\ hw = cidx
    BY DEF Init
  <2>2. Dist(cidx, cidx) = 0
    BY <1>1, RingTypes, DistRange
  <2> QED BY <1>1, <2>1, <2>2, RingTypes
<1>3. CellInv
  BY <1>2 DEF Init, CellInv, KeptOK, HeadOK, LoadedOK, CleanOK, EmptyBd
<1>4. WrittenOK /\ StoppedOK /\ EndOK
  BY <1>2 DEF Init, WrittenOK, StoppedOK, EndOK, Threads
<1> QED BY <1>1, <1>3, <1>4 DEF StopInv, PaceInv

\* Every step keeps it, those of a stop and an init too.
LEMMA NextStopInv == StopInv /\ [Next]_vars => StopInv'
<1> SUFFICES ASSUME StopInv, [Next]_vars PROVE StopInv'
  OBVIOUS
<1>1. TypeInv /\ TypeInv'
  BY NextTypeInv DEF StopInv
<1>2. CASE StopStep
  <2>1. (~torn' => ~torn) /\ (~hung' => ~hung)
    <3>1. CASE StopClear
      BY <3>1 DEF StopClear
    <3>2. CASE ~StopClear
      BY <1>2, <3>2 DEF StopStep, StopBegin, StopGraceful, StopTimeout, StopReaped, InitUp, flags
    <3> QED BY <3>1, <3>2
  <2>2. ~torn' => RingInv' /\ OwnerInv'
    BY <1>1, <1>2, <2>1, StopRingInv, StopOwnerInv DEF StopInv
  <2>3. ~torn' /\ ~hung' => PaceInv'
    BY <1>1, <1>2, <2>1, StopPaceInv DEF StopInv
  <2> QED BY <1>1, <2>2, <2>3 DEF StopInv
<1>3. CASE [NextLink]_vars
  <2>1. UNCHANGED <<hung, torn>>
    BY <1>3, NextLinkHung
  <2>2. ~torn' => RingInv' /\ OwnerInv'
    BY <1>1, <1>3, <2>1, NextRingInv, NextOwnerInv DEF StopInv
  <2>3. ~torn' /\ ~hung' => PaceInv'
    BY <1>1, <1>3, <2>1, NextFrameInv, NextLinkWritten, NextLinkStopped, NextLinkEnd,
       NextLinkCellInv DEF StopInv, PaceInv
  <2> QED BY <1>1, <2>2, <2>3 DEF StopInv
<1> QED BY <1>2, <1>3 DEF Next, StopStep

\* The invariant of an interface that is stopped and brought up again, for
\* every ring size, fragment limit and set of packets.
THEOREM TxStopInvariant == Spec => []StopInv
BY InitStopInv, NextStopInv, PTL DEF Spec

\* Of the packets that have been freed the NIC owns descriptors only in the one
\* it is in the middle of: neither mx6q_transmit_complete, which frees a packet
\* at its first descriptor, nor mx6q_stop frees one the NIC has still to begin,
\* for every fragment limit, unless a stop gave up on the NIC or left it the
\* later descriptors of a packet.
THEOREM TxNicOwnsLiveBuffer == Spec => []NicOwnsLiveBuffer
<1>1. StopInv => NicOwnsLiveBuffer
  <2> SUFFICES ASSUME TypeInv, RingInv, OwnerInv, FrameInv, EndOK, CellInv,
                      NEW j \in Idx, bd[j].r, bd[j].m \in pool
               PROVE  phase = "mid" /\ bd[hw].m = bd[j].m
    BY DEF StopInv, PaceInv, NicOwnsLiveBuffer
  <2>0. /\ cidx \in Idx /\ hw \in Idx /\ inuse \in Nat /\ Dist(cidx, cidx) = 0
        /\ \A i \in Idx : Dist(cidx, i) \in Nat
        /\ pool \in SUBSET Mbufs /\ Fetched \in Nat
    BY RingTypes, DistRange, OwnerTypes
  <2>1. \A m \in Mbufs : m \in pool => ~Booked(m) /\ ~Carried(m)
    BY DEF OwnerInv, OneOwner
  <2>2. Dist(cidx, j) < inuse
    <3>1. ASSUME NEW t \in Threads, pc[t] \in {"load", "commit"},
                 inuse <= Dist(cidx, j), Dist(cidx, j) < inuse + cur[t].i
          PROVE  FALSE
      <4>1. bd[j].m = cur[t].m /\ cur[t].m \in Mbufs
        BY <3>1 DEF CellInv, LoadedOK
      <4>2. Carried(cur[t].m)
        BY <3>1, <4>1, RingAssumption DEF Carried, Owns
      <4> QED BY <2>1, <4>1, <4>2
    <3> QED BY <2>0, <3>1 DEF RingInv, ReadyOK, ReadyAt
  <2>3. ~Whole(j)
    <3>1. ASSUME Whole(j) PROVE FALSE
      <4>1. Booked(bd[j].m)
        BY <3>1 DEF Whole, Booked
      <4> QED BY <2>0, <2>1, <4>1
    <3> QED BY <3>1
  <2>4. tx_pkts[cidx] = None /\ Part(cidx, j)
    BY <2>2, <2>3 DEF CellInv, KeptOK, Headless
  <2>5. CASE bd[cidx].r
    <3>1. phase = "mid"
      BY <2>0, <2>2, <2>4, <2>5 DEF CellInv, HeadOK
    <3>2. Dist(cidx, hw) = 0
      <4>1. 0 >= Fetched
        BY <2>0, <2>2, <2>5 DEF FrameInv, SplitOK
      <4> QED BY <2>0, <3>1, <4>1 DEF Fetched
    <3> QED BY <2>0, <2>4, <3>1, <3>2 DEF Part
  <2>6. CASE ~bd[cidx].r
    <3>1. ~Held(cidx)
      BY <2>4 DEF CellInv, LoadedOK, Held
    <3>2. phase = "mid" /\ Dist(cidx, hw) <= Dist(cidx, j)
      BY <2>2, <2>4, <2>6, <3>1, PartFetched
    <3> QED BY <2>0, <2>4, <3>2 DEF Part
  <2> QED BY <2>5, <2>6
<1> QED BY <1>1, TxStopInvariant, PTL

\* "start queueing descriptors from where the hardware stopped": after a stop
\* the driver and the NIC go on at the same descriptor, unless a stop gave up
\* on the NIC or left it the later descriptors of a packet.
THEOREM TxStopHwInStep == Spec => []HwInStep
<1>1. StopInv => HwInStep
  <2> SUFFICES ASSUME TypeInv, RingInv, FrameInv, pidx = cidx, phase = "boundary"
               PROVE  hw = pidx
    BY DEF StopInv, PaceInv, HwInStep
  <2>1. inuse = 0
    BY RingTypes, DistRange
  <2>2. Dist(cidx, hw) = 0
    BY <2>1, RingTypes DEF FrameInv, PlaceOK, Fetched
  <2> QED BY <2>2, RingTypes, DistRange
<1> QED BY <1>1, TxStopInvariant, PTL

\* The accounting of the ring survives a stop at any point, a NIC that does
\* not come to rest included, until a stop leaves the NIC the later descriptors
\* of a packet: after that mx6q_tx can meet a ready descriptor.
THEOREM TxStopAccounting == Spec => [](torn \/ (RingAccounting /\ NeverHitsEnd))
<1>1. StopInv => torn \/ (RingAccounting /\ NeverHitsEnd)
  BY RingAccounted, LoadFree DEF StopInv, NeverHitsEnd
<1> QED BY <1>1, TxStopInvariant, PTL

\* A stop neither loses a packet nor frees one twice, whatever the NIC does,
\* until one leaves the NIC the later descriptors of a packet.
THEOREM TxStopMbufOnce == Spec => [](torn \/ MbufOnce)
<1>1. StopInv => torn \/ MbufOnce
  BY OwnedOnce DEF StopInv
<1> QED BY <1>1, TxStopInvariant, PTL

=============================================================================
