---------------------------- MODULE Mx6xPtpProofs ----------------------------
(***************************************************************************)
(* Theorems about Mx6xPtp: for every resolution of the timer, the clock    *)
(* and the time stamps show the right second as long as interrupts are     *)
(* served, and time stamps collected, within a quarter of a second, and    *)
(* the last time stamps are found in a buffer of any size.                 *)
(***************************************************************************)
EXTENDS Mx6xPtp, TLAPS

\* The wrap of the timer is counted soon, and once.
RateOK ==
    /\ ts_timer => nsec <= IrqLag
    /\ ~carry => /\ isr = "timer" => ts_timer
                 /\ ts_timer => sec = rtc + 1
                 /\ ~ts_timer => rtc = sec

\* Until the wrap is counted the driver is in the second half of the last
\* second; until the half is noted the timer is just past it.
HalfOK ==
    InStep =>
        /\ ts_timer => rtc_half = 1 /\ ~tf
        /\ (~ts_timer /\ nsec < 2 * Q) => (rtc_half = 0 /\ ~tf)
        /\ (nsec >= 2 * Q /\ tf) => (rtc_half = 0 /\ nsec <= 2 * Q + IrqLag)
        /\ (nsec >= 2 * Q /\ ~tf) => rtc_half = 1

ClockOK == RateOK /\ HalfOK

\* The age of a time stamp is the time since it was taken, unless the clock was
\* set meanwhile.
FrameOK ==
    frame.on /\ frame.fresh =>
        /\ frame.age <= StampLag
        /\ \/ sec = frame.sec /\ nsec = frame.nsec + frame.age
           \/ sec = frame.sec + 1 /\ nsec + 4 * Q = frame.nsec + frame.age

PtpInv == TypeOK /\ ClockOK

\* The second given to a time stamp is a number.
LEMMA SecondOfType ==
    ASSUME rtc \in Int, NEW n \in Int
    PROVE  SecondOf(n) \in Int
BY DEF SecondOf

\* The counter of the time stamp buffer stays inside it.
LEMMA NextStampType ==
    ASSUME NEW i \in Int
    PROVE  NextStamp(i) \in Entries
BY PtpAssumption DEF NextStamp, Entries

\* The timer starts at zero, and no frame waits.
LEMMA InitPtpInv == Init => PtpInv /\ FrameOK
<1> SUFFICES ASSUME Init PROVE PtpInv /\ FrameOK
  OBVIOUS
<1>1. /\ NoFrame.nsec \in 0..(Second - 1) /\ NoFrame.sec \in Nat /\ NoFrame.age \in Nat
      /\ NoStamp \in StampType /\ Second \in Nat \ {0}
  BY PtpAssumption DEF NoFrame, NoStamp, NoMsg, MsgType, StampType, Second
<1>2. NoFrame \in FrameType
  <2>1. FALSE \in BOOLEAN
    OBVIOUS
  <2> QED BY <1>1, <2>1 DEF NoFrame, FrameType
<1>3. /\ nsec \in 0..(Second - 1) /\ sec \in Nat /\ rtc \in Int
      /\ rtc_half \in {0, 1} /\ frame \in FrameType
      /\ ts_buf \in [Entries -> StampType]
      /\ ts_cnt \in Entries /\ msgs \in Nat /\ sets \in Nat
      /\ isr \in {"idle", "timer"} /\ add \in {"idle", "nsec", "sec"}
      /\ sure \in SUBSET Nat /\ wipe \in 0..Wiped
  BY <1>1, <1>2, PtpAssumption DEF Init, Entries, Wiped
<1>4. ts_timer \in BOOLEAN /\ tf \in BOOLEAN /\ carry \in BOOLEAN /\ offHalf \in BOOLEAN
  BY Zenon DEF Init
<1>5. TypeOK
  BY <1>3, <1>4 DEF TypeOK
<1>6. ClockOK
  BY PtpAssumption DEF Init, ClockOK, RateOK, HalfOK
<1>7. FrameOK
  BY DEF Init, FrameOK, NoFrame
<1> QED BY <1>5, <1>6, <1>7 DEF PtpInv

\* Every step keeps the types.
LEMMA NextPtpType == TypeOK /\ [Next]_vars => TypeOK'
<1> SUFFICES ASSUME TypeOK, [Next]_vars PROVE TypeOK'
  OBVIOUS
<1> USE DEF TypeOK
<1>0. /\ Second \in Nat \ {0} /\ 0 \in 0..(Second - 1) /\ frame.nsec \in 0..(Second - 1)
      /\ frame.sec \in Nat /\ ts_buf[ts_cnt] \in StampType
  BY PtpAssumption DEF Second, FrameType
<1>1. CASE Tick
  <2>1. nsec' \in 0..(Second - 1) /\ sec' \in Nat
    <3>1. \/ nsec' = 0 /\ sec' = sec + 1
          \/ nsec + 1 # Second /\ nsec' = nsec + 1 /\ sec' = sec
      BY <1>1 DEF Tick
    <3> QED BY <1>0, <3>1
  <2>2. frame' \in FrameType
    <3>1. frame' = frame \/ frame' = [frame EXCEPT !.age = frame.age + 1]
      BY <1>1 DEF Tick
    <3> QED BY <3>1 DEF FrameType
  <2>3. tf' \in BOOLEAN /\ ts_timer' \in BOOLEAN
    BY <1>1, Zenon DEF Tick
  <2>4. UNCHANGED <<rtc, rtc_half, isr, carry, offHalf, ts_buf, ts_cnt, add, msgs, sure,
                    sets, wipe>>
    BY <1>1 DEF Tick
  <2> QED BY <2>1, <2>2, <2>3, <2>4
<1>2. CASE Capture
  <2>1. frame' = [on |-> TRUE, nsec |-> nsec, sec |-> sec, age |-> 0, fresh |-> TRUE]
    BY <1>2 DEF Capture
  <2>2. frame' \in FrameType
    BY <2>1 DEF FrameType
  <2> QED BY <1>2, <2>2 DEF Capture, clock
<1>3. CASE IsrRead \/ IsrTimer \/ mx6q_1588_isr
  <2>1. /\ rtc' \in Int /\ rtc_half' \in {0, 1} /\ isr' \in {"idle", "timer"}
        /\ UNCHANGED <<nsec, sec, carry, stamps, sets, wipe>>
    BY <1>3 DEF IsrRead, IsrTimer, mx6q_1588_isr
  <2>2. ts_timer' \in BOOLEAN /\ tf' \in BOOLEAN /\ offHalf' \in BOOLEAN
    BY <1>3, Zenon DEF IsrRead, IsrTimer, mx6q_1588_isr
  <2> QED BY <2>1, <2>2 DEF stamps
<1>4. CASE AddDetails
  <2>1. [id |-> msgs + 1, nsec |-> frame.nsec, sec |-> frame.sec] \in MsgType
    BY <1>0 DEF MsgType
  <2>2. ts_buf' \in [Entries -> StampType]
    BY <1>0, <1>4, <2>1 DEF AddDetails, StampType
  <2> QED BY <1>4, <2>2 DEF AddDetails, clock
<1>5. CASE AddNsec
  <2>1. ts_buf' \in [Entries -> StampType]
    BY <1>0, <1>5 DEF AddNsec, StampType
  <2> QED BY <1>5, <2>1 DEF AddNsec, clock
<1>6. CASE AddSecond
  <2>1. SecondOf(ts_buf[ts_cnt].nsec) \in Int
    BY <1>0, SecondOfType DEF StampType
  <2>2. ts_buf' \in [Entries -> StampType]
    BY <1>0, <1>6, <2>1 DEF AddSecond, StampType
  <2>3. ts_cnt' \in Entries /\ sure' \in SUBSET Nat
    BY <1>6, NextStampType, PtpAssumption DEF AddSecond, Entries
  <2>4. frame' \in FrameType
    <3>1. frame' = NoFrame
      BY <1>6 DEF AddSecond
    <3> QED BY <1>0, <3>1 DEF NoFrame, FrameType
  <2> QED BY <1>6, <2>2, <2>3, <2>4 DEF AddSecond, clock
<1>7. CASE \E v \in Settings : SetCnt(v[1], v[2])
  <2>1. PICK v \in Settings : SetCnt(v[1], v[2])
    BY <1>7
  <2>2. v[1] \in Nat /\ v[2] \in 0..(Second - 1)
    BY PtpAssumption DEF Settings
  <2>3. /\ nsec' \in 0..(Second - 1) /\ sec' \in Nat /\ rtc' \in Int
        /\ sets' \in Nat /\ wipe' \in 0..Wiped /\ sure' \in SUBSET Nat
        /\ UNCHANGED <<rtc_half, tf, isr, ts_buf, ts_cnt, add, msgs>>
    BY <2>1, <2>2, PtpAssumption DEF SetCnt, Wiped
  <2>4. ts_timer' \in BOOLEAN /\ carry' \in BOOLEAN /\ offHalf' \in BOOLEAN
    BY <2>1, Zenon DEF SetCnt
  <2>5. frame' \in FrameType
    BY <2>1 DEF SetCnt, FrameType
  <2> QED BY <2>3, <2>4, <2>5
<1>8. CASE ClearStamps
  <2>1. ts_buf' = [ts_buf EXCEPT ![wipe \div 2] = WipedEntry(ts_buf[wipe \div 2], wipe % 2 = 1)]
    BY <1>8 DEF ClearStamps
  <2>2. NoMsg \in MsgType
    BY <1>0 DEF NoMsg, MsgType
  <2>3. \A e \in StampType : \A w \in BOOLEAN : WipedEntry(e, w) \in StampType
    <3> SUFFICES ASSUME NEW e \in StampType, NEW w \in BOOLEAN
                 PROVE  WipedEntry(e, w) \in StampType
      OBVIOUS
    <3>1. [e EXCEPT !.msg = NoMsg] \in StampType
      BY <2>2 DEF StampType
    <3>2. [msg |-> e.msg, nsec |-> 0, sec |-> 0] \in StampType
      BY <1>0 DEF StampType
    <3> QED BY <3>1, <3>2 DEF WipedEntry
  <2>4. ts_buf' \in [Entries -> StampType]
    BY <2>1, <2>3
  <2>5. frame' \in FrameType
    BY <1>8 DEF ClearStamps, FrameType
  <2>6. wipe' \in 0..Wiped
    BY <1>8, PtpAssumption DEF ClearStamps, Wiped
  <2> QED BY <1>8, <2>4, <2>5, <2>6 DEF ClearStamps, clock
<1>9. CASE UNCHANGED vars
  BY <1>9 DEF vars
<1> QED
  BY <1>1, <1>2, <1>3, <1>4, <1>5, <1>6, <1>7, <1>8, <1>9 DEF Next

\* Every step keeps the lag of the driver's idea of the time.
LEMMA NextClockOK == TypeOK /\ ClockOK /\ [Next]_vars => ClockOK'
<1> SUFFICES ASSUME TypeOK, ClockOK, [Next]_vars PROVE ClockOK'
  OBVIOUS
<1> USE DEF ClockOK, RateOK, HalfOK, InStep
<1>0. /\ nsec \in Int /\ sec \in Int /\ rtc \in Int /\ Q \in Nat \ {0}
      /\ IrqLag \in Nat /\ IrqLag < Q /\ 0 <= nsec /\ nsec < 4 * Q
  BY PtpAssumption DEF TypeOK, Second
<1>1. CASE Tick
  <2>0. UNCHANGED <<rtc, rtc_half, isr, carry, offHalf>>
    BY <1>1 DEF Tick
  <2>1. CASE nsec + 1 = Second
    <3>1. ~ts_timer
      BY <1>0, <1>1, <2>1 DEF Tick, Second
    <3>2. InStep => ~tf /\ rtc_half = 1
      BY <1>0, <1>1, <2>1 DEF Tick, Second
    <3>3. nsec' = 0 /\ sec' = sec + 1 /\ ts_timer' /\ tf' = tf
      <4>1. nsec + 1 # 2 * Q
        BY <1>0, <2>1 DEF Second
      <4> QED BY <1>1, <2>1, <4>1 DEF Tick
    <3> QED BY <1>0, <2>0, <3>1, <3>2, <3>3
  <2>2. CASE nsec + 1 # Second
    <3>1. /\ nsec' = nsec + 1 /\ sec' = sec /\ ts_timer' = ts_timer
          /\ ts_timer => nsec < IrqLag
          /\ tf /\ ~offHalf => nsec < 2 * Q + IrqLag
          /\ tf' = IF nsec + 1 = 2 * Q THEN TRUE ELSE tf
      BY <1>1, <2>2 DEF Tick
    <3>2. CASE nsec + 1 = 2 * Q
      BY <1>0, <2>0, <3>1, <3>2
    <3>3. CASE nsec + 1 # 2 * Q
      BY <1>0, <2>0, <3>1, <3>3
    <3> QED BY <3>2, <3>3
  <2> QED BY <2>1, <2>2
<1>2. CASE Capture \/ AddDetails \/ AddNsec \/ AddSecond \/ ClearStamps \/ UNCHANGED vars
  BY <1>2 DEF Capture, AddDetails, AddNsec, AddSecond, ClearStamps, vars, clock
<1>3. CASE IsrRead \/ mx6q_1588_isr
  BY <1>0, <1>3 DEF IsrRead, mx6q_1588_isr
<1>4. CASE IsrTimer
  <2>1. /\ isr = "timer" /\ rtc_half' = 0 /\ rtc' = rtc + 1 /\ isr' = "idle"
        /\ ~ts_timer' /\ UNCHANGED <<nsec, sec, tf, carry>>
    BY <1>4 DEF IsrTimer
  <2>2. ~offHalf' => ~offHalf \/ ~tf
    BY <1>4 DEF IsrTimer
  <2>3. ~carry => nsec <= IrqLag /\ sec = rtc + 1
    BY <2>1
  <2>4. InStep' => ~tf
    BY <2>1, <2>2, <2>3
  <2> QED BY <1>0, <2>1, <2>3, <2>4
<1>5. CASE \E v \in Settings : SetCnt(v[1], v[2])
  <2>1. PICK v \in Settings : SetCnt(v[1], v[2])
    BY <1>5
  <2>2. v[1] \in Nat /\ v[2] \in 0..(4 * Q - 1)
    BY <1>0, PtpAssumption DEF Settings, Second
  <2>3. /\ nsec' = v[2] /\ sec' = v[1] /\ rtc' = v[1] /\ ~ts_timer'
        /\ UNCHANGED <<rtc_half, tf, isr>>
    BY <2>1 DEF SetCnt
  <2>4. ~carry' => isr = "idle"
    BY <2>1 DEF SetCnt, TypeOK
  <2>5. ~offHalf' => ~tf /\ rtc_half = HalfOf(v[2])
    BY <2>1 DEF SetCnt
  <2> QED BY <1>0, <2>2, <2>3, <2>4, <2>5 DEF HalfOf
<1> QED BY <1>1, <1>2, <1>3, <1>4, <1>5 DEF Next

\* A step that does not touch the timer or the stamp of the frame keeps its age.
LEMMA FrameKept ==
    ASSUME TypeOK, FrameOK, UNCHANGED <<nsec, sec>>,
           frame' = frame \/ frame' = [frame EXCEPT !.fresh = FALSE]
    PROVE  FrameOK'
<1>1. frame'.fresh => frame' = frame
  BY DEF TypeOK, FrameType
<1> QED BY <1>1 DEF FrameOK

\* Every step keeps the age of the waiting time stamp.
LEMMA NextFrameOK == ASSUME StampLag < Q, TypeOK, FrameOK, [Next]_vars PROVE FrameOK'
<1>0. /\ nsec \in Int /\ sec \in Int /\ Q \in Nat \ {0} /\ StampLag \in Nat
      /\ frame \in FrameType /\ frame.nsec \in Int /\ frame.sec \in Int
      /\ frame.age \in Nat /\ frame.nsec < 4 * Q
  BY PtpAssumption DEF TypeOK, Second, FrameType
<1>1. CASE Tick
  <2>1. CASE frame.on
    <3>1. frame' = [frame EXCEPT !.age = frame.age + 1] /\ frame.age < StampLag
      BY <1>1, <2>1 DEF Tick
    <3>2. /\ frame'.age = frame.age + 1 /\ frame'.nsec = frame.nsec
          /\ frame'.sec = frame.sec /\ frame'.fresh = frame.fresh
      BY <1>0, <3>1 DEF FrameType
    <3>3. \/ nsec + 1 = 4 * Q /\ nsec' = 0 /\ sec' = sec + 1
          \/ nsec' = nsec + 1 /\ sec' = sec
      BY <1>1 DEF Tick, Second
    <3>4. frame.age + 1 <= StampLag
      BY <1>0, <3>1
    <3>5. frame.fresh /\ nsec + 1 = 4 * Q => sec = frame.sec
      BY <1>0, <2>1 DEF FrameOK
    <3> QED BY <1>0, <2>1, <3>2, <3>3, <3>4, <3>5 DEF FrameOK
  <2>2. CASE ~frame.on
    BY <1>1, <2>2 DEF Tick, FrameOK
  <2> QED BY <2>1, <2>2
<1>2. CASE Capture
  BY <1>0, <1>2 DEF Capture, clock, FrameOK
<1>3. CASE IsrRead \/ IsrTimer \/ mx6q_1588_isr \/ ClearStamps \/ AddDetails \/ AddNsec
           \/ UNCHANGED vars
  <2>1. UNCHANGED <<nsec, sec>> /\ (frame' = frame \/ frame' = [frame EXCEPT !.fresh = FALSE])
    BY <1>3 DEF IsrRead, IsrTimer, mx6q_1588_isr, ClearStamps, AddDetails, AddNsec, stamps,
       vars, clock
  <2> QED BY <2>1, FrameKept
<1>4. CASE AddSecond
  BY <1>4 DEF AddSecond, NoFrame, FrameOK
<1>5. CASE \E v \in Settings : SetCnt(v[1], v[2])
  <2>1. frame' = [frame EXCEPT !.fresh = FALSE]
    BY <1>5 DEF SetCnt
  <2>2. ~frame'.fresh
    BY <1>0, <2>1 DEF FrameType
  <2> QED BY <2>2 DEF FrameOK
<1> QED BY <1>1, <1>2, <1>3, <1>4, <1>5 DEF Next

\* The invariant of the clock and its time stamps.
THEOREM PtpInvariant == Spec => []PtpInv
<1>1. PtpInv /\ [Next]_vars => PtpInv'
  BY NextPtpType, NextClockOK DEF PtpInv
<1> QED BY <1>1, InitPtpInv, PTL DEF Spec

\* The half-second flag makes up for any lag of the two interrupts of less
\* than a quarter of a second: mx6q_ptp_get_cnt returns the right second, also
\* after a setting that left no handler about to count, from the next second
\* counted if it moved the clock to the other half of the second.
THEOREM PtpClockRight == Spec => []ClockRight
<1>1. PtpInv => ClockRight
  BY PtpAssumption DEF PtpInv, TypeOK, ClockOK, RateOK, HalfOK, InStep, ClockRight, SecondOf,
     Second
<1> QED BY <1>1, PtpInvariant, PTL

\* ... and a time stamp that is collected within a quarter of a second, by a
\* clock in step that was not set meanwhile, is given the second in which it
\* was taken.
THEOREM PtpStampRight == StampLag < Q => (Spec => []StampRight)
<1> SUFFICES ASSUME StampLag < Q PROVE Spec => []StampRight
  OBVIOUS
<1>1. PtpInv /\ FrameOK => StampRight
  <2> SUFFICES ASSUME PtpInv, FrameOK, frame.on, frame.fresh, InStep
               PROVE  SecondOf(frame.nsec) = frame.sec
    BY DEF StampRight
  <2>1. /\ nsec \in Int /\ sec \in Int /\ rtc \in Int /\ rtc_half \in {0, 1}
        /\ Q \in Nat \ {0} /\ StampLag \in Nat /\ IrqLag \in Nat /\ IrqLag < Q
        /\ frame.nsec \in 0..(4 * Q - 1) /\ frame.sec \in Int
        /\ frame.age \in Nat /\ frame.age < Q
        /\ 0 <= nsec /\ nsec < 4 * Q
    BY PtpAssumption DEF PtpInv, TypeOK, FrameType, FrameOK, Second
  <2>2. \/ sec = frame.sec /\ nsec = frame.nsec + frame.age
        \/ sec = frame.sec + 1 /\ nsec + 4 * Q = frame.nsec + frame.age
    BY DEF FrameOK
  <2> QED BY <2>1, <2>2 DEF PtpInv, ClockOK, RateOK, HalfOK, InStep, SecondOf
<1>2. PtpInv /\ FrameOK /\ [Next]_vars => (PtpInv /\ FrameOK)'
  BY NextPtpType, NextClockOK, NextFrameOK DEF PtpInv
<1> QED BY <1>1, <1>2, InitPtpInv, PTL DEF Spec

-----------------------------------------------------------------------------
(* The buffer of time stamps.                                              *)

\* The entry written j messages ago, and the message it is of: the one that is
\* being written does not count.
Back(j) == IF ts_cnt >= j THEN ts_cnt - j ELSE ts_cnt - j + BUF_SZ
Done == IF add = "idle" THEN msgs ELSE msgs - 1

\* Entry i holds message id with the time it was stamped at.
Holds(i, id) == /\ ts_buf[i].msg.id = id
                /\ ts_buf[i].nsec = ts_buf[i].msg.nsec
                /\ ts_buf[i].sec = ts_buf[i].msg.sec

\* What is written of the entry of a frame that no setting has met is right.
LoadOK ==
    add # "idle" =>
        /\ frame.on /\ msgs > 0
        /\ frame.fresh =>
             /\ ts_buf[ts_cnt].msg = [id |-> msgs, nsec |-> frame.nsec, sec |-> frame.sec]
             /\ add = "sec" => ts_buf[ts_cnt].nsec = frame.nsec

\* The buffer holds the last messages from ts_cnt backwards, the oldest of a
\* full buffer until the next one is begun.
KeptOK == \A j \in 1..BUF_SZ : Done - j + 1 \in sure /\ (j < BUF_SZ \/ add = "idle")
                                 => Holds(Back(j), Done - j + 1)

BufOK == LoadOK /\ KeptOK /\ \A id \in sure : 0 < id /\ id <= Done

\* Going round the buffer, without the remainder.
LEMMA NextStampValue ==
    ASSUME NEW i \in Entries
    PROVE  NextStamp(i) = IF i = BUF_SZ - 1 THEN 0 ELSE i + 1
<1>1. BUF_SZ \in Nat \ {0} /\ i \in 0..(BUF_SZ - 1)
  BY PtpAssumption DEF Entries
<1>2. CASE i = BUF_SZ - 1
  BY <1>1, <1>2 DEF NextStamp
<1>3. CASE i # BUF_SZ - 1
  <2>1. i + 1 \in 0..(BUF_SZ - 1)
    BY <1>1, <1>3
  <2>2. (i + 1) % BUF_SZ = i + 1
    BY <1>1, <2>1
  <2> QED BY <1>3, <2>2 DEF NextStamp
<1> QED BY <1>2, <1>3

\* The entries behind ts_cnt are other entries, until the buffer is full.
LEMMA BackPlace ==
    ASSUME TypeOK, NEW j \in 1..BUF_SZ
    PROVE  /\ Back(j) \in Entries
           /\ j < BUF_SZ => Back(j) # ts_cnt
BY PtpAssumption DEF TypeOK, Entries, Back

\* Writing the entry at ts_cnt disturbs only the oldest one.
LEMMA KeptWhileWriting ==
    ASSUME TypeOK, KeptOK, UNCHANGED <<ts_cnt, sure>>, Done' = Done, add' # "idle",
           \A k \in Entries : k # ts_cnt => ts_buf'[k] = ts_buf[k]
    PROVE  KeptOK'
<1> SUFFICES ASSUME NEW j \in 1..BUF_SZ, Done - j + 1 \in sure, j < BUF_SZ
             PROVE  Holds(Back(j), Done - j + 1)'
  BY DEF KeptOK
<1>1. Holds(Back(j), Done - j + 1)
  BY DEF KeptOK
<1>2. ts_buf'[Back(j)] = ts_buf[Back(j)] /\ Back(j)' = Back(j)
  BY BackPlace DEF Back
<1> QED BY <1>1, <1>2 DEF Holds

\* A time stamp that is collected in time is added with its own second and
\* overwrites only the oldest one.
LEMMA NextBufOK ==
    ASSUME TypeOK, StampRight, BufOK, [Next]_vars
    PROVE  BufOK'
<1>0. /\ BUF_SZ \in Nat \ {0} /\ ts_cnt \in 0..(BUF_SZ - 1) /\ msgs \in Nat
      /\ ts_buf \in [Entries -> StampType] /\ ts_cnt \in Entries /\ frame \in FrameType
      /\ Done \in Int /\ ts_buf[ts_cnt] \in StampType /\ sure \in SUBSET Nat
  BY PtpAssumption DEF TypeOK, Entries, Done
<1>1. CASE UNCHANGED <<ts_buf, ts_cnt, add, msgs, sure>>
           /\ (frame' = frame \/ add = "idle" \/
               frame' = [frame EXCEPT !.age = frame.age + 1])
  <2>1. LoadOK'
    BY <1>0, <1>1 DEF BufOK, LoadOK, FrameType
  <2> QED BY <1>1, <2>1 DEF BufOK, KeptOK, Done, Back, Holds
<1>2. CASE AddDetails
  <2>1. /\ ts_buf' = [ts_buf EXCEPT ![ts_cnt].msg =
                        [id |-> msgs + 1, nsec |-> frame.nsec, sec |-> frame.sec]]
        /\ frame.on /\ add = "idle" /\ add' = "nsec" /\ msgs' = msgs + 1
        /\ UNCHANGED <<frame, ts_cnt, sure>>
    BY <1>2 DEF AddDetails
  <2>2. Done' = Done
    BY <1>0, <2>1 DEF Done
  <2>3. /\ ts_buf'[ts_cnt].msg = [id |-> msgs', nsec |-> frame.nsec, sec |-> frame.sec]
        /\ \A k \in Entries : k # ts_cnt => ts_buf'[k] = ts_buf[k]
    BY <1>0, <2>1 DEF StampType
  <2>4. KeptOK'
    BY <2>1, <2>2, <2>3, KeptWhileWriting DEF BufOK
  <2>5. LoadOK'
    BY <1>0, <2>1, <2>3 DEF LoadOK
  <2> QED BY <2>1, <2>2, <2>4, <2>5 DEF BufOK
<1>3. CASE AddNsec
  <2>1. /\ ts_buf' = [ts_buf EXCEPT ![ts_cnt].nsec = frame.nsec]
        /\ add = "nsec" /\ add' = "sec" /\ UNCHANGED <<frame, ts_cnt, msgs, sure>>
    BY <1>3 DEF AddNsec
  <2>2. Done' = Done
    BY <2>1 DEF Done
  <2>3. /\ ts_buf'[ts_cnt].msg = ts_buf[ts_cnt].msg /\ ts_buf'[ts_cnt].nsec = frame.nsec
        /\ \A k \in Entries : k # ts_cnt => ts_buf'[k] = ts_buf[k]
    BY <1>0, <2>1 DEF StampType
  <2>4. KeptOK'
    BY <2>1, <2>2, <2>3, KeptWhileWriting DEF BufOK
  <2>5. LoadOK'
    BY <1>0, <2>1, <2>3 DEF BufOK, LoadOK
  <2> QED BY <2>1, <2>2, <2>4, <2>5 DEF BufOK
<1>4. CASE AddSecond
  <2>1. /\ ts_buf' = [ts_buf EXCEPT ![ts_cnt].sec = SecondOf(ts_buf[ts_cnt].nsec)]
        /\ ts_cnt' = (IF ts_cnt = BUF_SZ - 1 THEN 0 ELSE ts_cnt + 1)
        /\ sure' = (IF frame.fresh /\ InStep THEN sure \cup {msgs} ELSE sure)
        /\ add = "sec" /\ add' = "idle" /\ msgs' = msgs
    BY <1>0, <1>4, NextStampValue DEF AddSecond
  <2>2. Done = msgs - 1 /\ Done' = msgs /\ msgs \notin sure /\ msgs > 0
    BY <1>0, <2>1 DEF BufOK, LoadOK, Done
  <2>3. /\ ts_buf'[ts_cnt].msg = ts_buf[ts_cnt].msg /\ ts_buf'[ts_cnt].nsec = ts_buf[ts_cnt].nsec
        /\ ts_buf'[ts_cnt].sec = SecondOf(ts_buf[ts_cnt].nsec)
        /\ \A k \in Entries : k # ts_cnt => ts_buf'[k] = ts_buf[k]
    BY <1>0, <2>1 DEF StampType
  <2>4. LoadOK' /\ \A id \in sure' : 0 < id /\ id <= Done'
    BY <1>0, <2>1, <2>2 DEF BufOK, LoadOK
  <2>5. ASSUME NEW j \in 1..BUF_SZ, Done' - j + 1 \in sure'
        PROVE  Holds(Back(j), Done - j + 1)'
    <3>0. Back(j)' = IF ts_cnt' >= j THEN ts_cnt' - j ELSE ts_cnt' - j + BUF_SZ
      BY DEF Back
    <3>1. CASE j = 1
      <4>1. Back(j)' = ts_cnt /\ Done' - j + 1 = msgs
        BY <1>0, <2>1, <2>2, <3>0, <3>1
      <4>2. frame.fresh /\ InStep /\ frame.on
        BY <2>1, <2>2, <2>5, <4>1 DEF BufOK, LoadOK
      <4>3. /\ ts_buf[ts_cnt].msg = [id |-> msgs, nsec |-> frame.nsec, sec |-> frame.sec]
            /\ ts_buf[ts_cnt].nsec = frame.nsec
        BY <2>1, <4>2 DEF BufOK, LoadOK
      <4>4. SecondOf(frame.nsec) = frame.sec
        BY <4>2 DEF StampRight
      <4> QED BY <2>3, <4>1, <4>3, <4>4 DEF Holds
    <3>2. CASE j # 1
      <4>1. j - 1 \in 1..BUF_SZ /\ j - 1 < BUF_SZ /\ Done - (j - 1) + 1 = Done' - j + 1
            /\ Done' - j + 1 # msgs
        BY <1>0, <2>2, <3>2
      <4>2. Done - (j - 1) + 1 \in sure
        BY <2>1, <2>5, <4>1
      <4>3. Holds(Back(j - 1), Done - (j - 1) + 1)
        BY <4>1, <4>2 DEF BufOK, KeptOK
      <4>4. Back(j)' = Back(j - 1) /\ Back(j - 1) # ts_cnt /\ Back(j - 1) \in Entries
        <5>1. Back(j)' = Back(j - 1)
          BY <1>0, <2>1, <3>0, <3>2 DEF Back
        <5> QED BY <4>1, <5>1, BackPlace
      <4>5. ts_buf'[Back(j)'] = ts_buf[Back(j - 1)]
        BY <2>3, <4>4
      <4> QED BY <4>1, <4>3, <4>5 DEF Holds
    <3> QED BY <3>1, <3>2
  <2>6. KeptOK'
    BY <2>5 DEF KeptOK
  <2> QED BY <2>4, <2>6 DEF BufOK
<1>5. CASE ClearStamps \/ \E v \in Settings : SetCnt(v[1], v[2])
  <2>1. /\ sure' = {} /\ UNCHANGED <<add, msgs, ts_cnt>>
        /\ add = "idle" \/ frame' = [frame EXCEPT !.fresh = FALSE]
    BY <1>5 DEF ClearStamps, SetCnt
  <2>2. LoadOK'
    BY <1>0, <2>1 DEF BufOK, LoadOK, FrameType
  <2> QED BY <2>1, <2>2 DEF BufOK, KeptOK
<1>6. CASE Tick \/ Capture \/ IsrRead \/ IsrTimer \/ mx6q_1588_isr \/ UNCHANGED vars
  <2>1. UNCHANGED <<ts_buf, ts_cnt, add, msgs, sure>>
    BY <1>6 DEF Tick, Capture, IsrRead, IsrTimer, mx6q_1588_isr, stamps, vars
  <2>2. frame' = frame \/ add = "idle" \/ frame' = [frame EXCEPT !.age = frame.age + 1]
    BY <1>6 DEF Tick, Capture, IsrRead, IsrTimer, mx6q_1588_isr, stamps, vars, BufOK, LoadOK
  <2> QED BY <1>1, <2>1, <2>2
<1> QED BY <1>2, <1>3, <1>4, <1>5, <1>6 DEF Next

\* ioctls find the right time of each of the last BUF_SZ event messages, for
\* every size of the buffer, if time stamps are collected within a quarter of
\* a second: of those collected since the clock was set, by a clock in step,
\* and not while PTP_SET_TIME was wiping the buffer.
THEOREM PtpLastStampsFound == StampLag < Q => (Spec => []LastStampsFound)
<1> SUFFICES ASSUME StampLag < Q PROVE Spec => []LastStampsFound
  OBVIOUS
<1>1. Init => BufOK
  BY DEF Init, BufOK, LoadOK, KeptOK
<1>2. PtpInv /\ StampRight /\ BufOK /\ [Next]_vars => BufOK'
  BY NextBufOK DEF PtpInv
<1>3. PtpInv /\ BufOK => LastStampsFound
  <2> SUFFICES ASSUME PtpInv, BufOK, NEW id \in sure, id > msgs - BUF_SZ
               PROVE  \E i \in Entries : Holds(i, id)
    BY DEF LastStampsFound, Holds
  <2> DEFINE j == Done - id + 1
  <2>1. BUF_SZ \in Nat \ {0} /\ msgs \in Nat /\ sure \in SUBSET Nat /\ TypeOK
    BY PtpAssumption DEF PtpInv, TypeOK
  <2>2. /\ j \in 1..BUF_SZ /\ Done - j + 1 = id
        /\ j < BUF_SZ \/ add = "idle"
    BY <2>1 DEF Done, BufOK
  <2>3. Holds(Back(j), id) /\ Back(j) \in Entries
    BY <2>1, <2>2, BackPlace DEF BufOK, KeptOK
  <2> QED BY <2>3
<1>4. Spec => []StampRight
  BY PtpStampRight
<1> QED BY <1>1, <1>2, <1>3, <1>4, PtpInvariant, PTL DEF Spec
=============================================================================
