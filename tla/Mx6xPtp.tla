------------------------------- MODULE Mx6xPtp -------------------------------
(***************************************************************************)
(* The IEEE 1588 clock of the i.MX6 Ethernet driver (devnp/mx6x/ptp.c).    *)
(* The hardware counts the nanoseconds of a second; the seconds (rtc) and  *)
(* the half of the second (rtc_half) are counted by two interrupt handlers *)
(* and lag behind.  Whoever combines the two, the reader of the clock or   *)
(* of a frame's time stamp, corrects for the lag.                          *)
(*                                                                         *)
(* Time passes in ticks, 4 * Q to the second.  sec is what the hardware    *)
(* would show if it counted seconds: the driver does not have it.          *)
(* The Rx and the Tx side keep a buffer of time stamps each, with the same *)
(* code; ts_buf is either of them.                                         *)
(***************************************************************************)
EXTENDS Integers

CONSTANTS Q,          \* ticks in a quarter of a second
          IrqLag,     \* ticks within which an interrupt is served
          StampLag,   \* ticks within which a time stamp is collected
          BUF_SZ,     \* MX6Q_RX_TIMESTAMP_BUF_SZ, MX6Q_TX_TIMESTAMP_BUF_SZ
          MaxSec,     \* bound: seconds the clock may show
          MaxMsgs,    \* bound: event messages
          MaxSets     \* bound: settings of the clock

ASSUME PtpAssumption == /\ Q \in Nat \ {0}
                        /\ IrqLag \in Nat /\ IrqLag < Q
                        /\ StampLag \in Nat
                        /\ BUF_SZ \in Nat \ {0}
                        /\ MaxSec \in Nat /\ MaxMsgs \in Nat /\ MaxSets \in Nat

VARIABLES
    nsec, sec,     \* the hardware timer, and the second it is in
    rtc, rtc_half, \* the driver's idea of the second and its half
    ts_timer,      \* IEVENT_TS_TIMER: the timer has wrapped
    tf,            \* TCSR0 TF: the timer has passed the half second
    isr,           \* mx6q_isr has read IEVENT with TS_TIMER set
    carry,         \* history: it had when the clock was set, and counts once more
    offHalf,       \* history: rtc_half, or a half-second event to be noted, is
                   \* left from before the clock was set
    frame,         \* an event message in the ring, stamped but not collected
    ts_buf, ts_cnt,
    add,           \* progress of the add_timestamp functions
    msgs,          \* event messages whose collection has begun
    sure,          \* history: those collected since the clock was set, by a clock
                   \* in step, and out of the way of PTP_SET_TIME
    sets,          \* settings of the clock so far
    wipe           \* progress of PTP_SET_TIME through the buffer

clock == <<nsec, sec, rtc, rtc_half, ts_timer, tf, isr, carry, offHalf>>
stamps == <<frame, ts_buf, ts_cnt, add, msgs, sure>>
vars == <<nsec, sec, rtc, rtc_half, ts_timer, tf, isr, carry, offHalf,
          frame, ts_buf, ts_cnt, add, msgs, sure, sets, wipe>>

Second == 4 * Q
Entries == 0..(BUF_SZ - 1)

\* fresh: stamped since the clock was last set, and its entry not wiped.
NoFrame == [on |-> FALSE, nsec |-> 0, sec |-> 0, age |-> 0, fresh |-> FALSE]

\* What identifies a message (its type, sequence number, clock and port) and,
\* for the properties, when the MAC stamped it; the time the driver gives it.
NoMsg == [id |-> 0, nsec |-> 0, sec |-> 0]
NoStamp == [msg |-> NoMsg, nsec |-> 0, sec |-> 0]

\* memset has passed the whole buffer, two parts to the entry.
Wiped == 2 * BUF_SZ

\* mx6q_ptp_start has restarted the timer.
Init ==
    /\ nsec = 0 /\ sec = 0 /\ rtc = 0 /\ rtc_half = 0
    /\ ts_timer = FALSE /\ tf = FALSE /\ isr = "idle"
    /\ carry = FALSE /\ offHalf = FALSE
    /\ frame = NoFrame
    /\ ts_buf = [i \in Entries |-> NoStamp]
    /\ ts_cnt = 0 /\ add = "idle" /\ msgs = 0 /\ sure = {}
    /\ sets = 0 /\ wipe = Wiped

-----------------------------------------------------------------------------
(* The 1588 timer and the MAC (external).                                  *)

\* A tick.  No interrupt is left unserved for more than IrqLag ticks, nor a
\* time stamp uncollected for more than StampLag.  (The half-second event that
\* a setting of the clock left behind is noted at any time.)
Tick ==
    /\ ts_timer => nsec < IrqLag
    /\ tf /\ ~offHalf => nsec < 2 * Q + IrqLag
    /\ frame.on => frame.age < StampLag
    /\ IF nsec + 1 = Second
       THEN sec < MaxSec /\ nsec' = 0 /\ sec' = sec + 1 /\ ts_timer' = TRUE
       ELSE nsec' = nsec + 1 /\ UNCHANGED <<sec, ts_timer>>
    /\ tf' = IF nsec + 1 = 2 * Q THEN TRUE ELSE tf
    /\ frame' = IF frame.on THEN [frame EXCEPT !.age = @ + 1] ELSE frame
    /\ UNCHANGED <<rtc, rtc_half, isr, carry, offHalf, ts_buf, ts_cnt, add, msgs,
                   sure, sets, wipe>>

\* An event message is received or sent; the MAC stamps its descriptor.
Capture ==
    /\ ~frame.on
    /\ frame' = [on |-> TRUE, nsec |-> nsec, sec |-> sec, age |-> 0,
                 fresh |-> TRUE]
    /\ UNCHANGED <<clock, ts_buf, ts_cnt, add, msgs, sure, sets, wipe>>

-----------------------------------------------------------------------------
(* The interrupt handlers                                                  *)

\* mx6q_isr reads IEVENT before it takes a lock ...
IsrRead ==
    /\ isr = "idle" /\ ts_timer
    /\ isr' = "timer"
    /\ UNCHANGED <<nsec, sec, rtc, rtc_half, ts_timer, tf, carry, offHalf, stamps,
                   sets, wipe>>

\* ... and counts the second with rtc_spinner held.
IsrTimer ==
    /\ isr = "timer"
    /\ ts_timer' = FALSE /\ rtc_half' = 0 /\ rtc' = rtc + 1
    /\ isr' = "idle"
    /\ offHalf' = (offHalf /\ tf)
    /\ UNCHANGED <<nsec, sec, tf, carry, stamps, sets, wipe>>

mx6q_1588_isr ==
    /\ tf
    /\ rtc_half' = 1 /\ tf' = FALSE
    /\ UNCHANGED <<nsec, sec, rtc, ts_timer, isr, carry, offHalf, stamps, sets, wipe>>

-----------------------------------------------------------------------------
(* Reading the clock                                                       *)

\* Fault: the other end of the second is not corrected.
SecondOfOneSided(n) == IF n > 3 * Q /\ rtc_half = 0 THEN rtc - 1 ELSE rtc

\* Fault: the correction is made for the whole first half of the second.
SecondOfWide(n) == IF n > 3 * Q /\ rtc_half = 0 THEN rtc - 1
                   ELSE IF n < 2 * Q /\ rtc_half = 1 THEN rtc + 1
                   ELSE rtc

\* The second of the time stamp n, as mx6q_ptp_get_cnt and both of the
\* add_timestamp functions work it out.
SecondOf(n) == IF n > 3 * Q /\ rtc_half = 0 THEN rtc - 1
               ELSE IF n < Q /\ rtc_half = 1 THEN rtc + 1
               ELSE rtc

\* Fault: the buffer is one entry longer than the counter knows.
NextStampShort(i) == IF i + 2 >= BUF_SZ THEN 0 ELSE i + 1

NextStamp(i) == (i + 1) % BUF_SZ

\* The clock shows what was set: no second is counted twice, and rtc_half is
\* that of the time that was set.
InStep == ~carry /\ ~offHalf

\* mx6q_ptp_add_rx_timestamp, mx6q_ptp_add_tx_timestamp, called by mx6q_receive
\* and mx6q_transmit_complete: the entry is written part by part without a
\* lock.  First what identifies the message ...
AddDetails ==
    /\ frame.on /\ add = "idle" /\ msgs < MaxMsgs
    /\ ts_buf' = [ts_buf EXCEPT ![ts_cnt].msg =
                    [id |-> msgs + 1, nsec |-> frame.nsec, sec |-> frame.sec]]
    /\ msgs' = msgs + 1
    /\ add' = "nsec"
    /\ UNCHANGED <<clock, frame, ts_cnt, sure, sets, wipe>>

\* ... then the nanoseconds of the descriptor ...
AddNsec ==
    /\ add = "nsec"
    /\ ts_buf' = [ts_buf EXCEPT ![ts_cnt].nsec = frame.nsec]
    /\ add' = "sec"
    /\ UNCHANGED <<clock, frame, ts_cnt, msgs, sure, sets, wipe>>

\* ... and with rtc_spinner held the second, from the nanoseconds as they stand
\* in the entry.  The counter advances.
AddSecond ==
    /\ add = "sec"
    /\ ts_buf' = [ts_buf EXCEPT ![ts_cnt].sec = SecondOf(ts_buf[ts_cnt].nsec)]
    /\ ts_cnt' = NextStamp(ts_cnt)
    /\ sure' = IF frame.fresh /\ InStep THEN sure \cup {msgs} ELSE sure
    /\ frame' = NoFrame /\ add' = "idle"
    /\ UNCHANGED <<clock, msgs, sets, wipe>>

-----------------------------------------------------------------------------
(* PTP_SET_TIME                                                            *)

HalfOf(n) == IF n >= 2 * Q THEN 1 ELSE 0

\* mx6q_ptp_set_cnt: the timer is zeroed and the wrap event cleared before
\* the time is set; rtc_half stays what it was, and a handler that has read the
\* wrap event goes on to count the second.
SetCnt(s, n) ==
    /\ wipe = Wiped /\ sets < MaxSets
    /\ nsec' = n /\ sec' = s /\ rtc' = s
    /\ ts_timer' = FALSE
    /\ carry' = (isr = "timer")
    /\ offHalf' = (tf \/ rtc_half # HalfOf(n))
    /\ frame' = [frame EXCEPT !.fresh = FALSE]
    /\ sure' = {}
    /\ sets' = sets + 1
    /\ wipe' = 0
    /\ UNCHANGED <<rtc_half, tf, isr, ts_buf, ts_cnt, add, msgs>>

\* memset wipes what identifies the message of an entry, and then its time.
WipedEntry(e, time) == IF time THEN [msg |-> e.msg, nsec |-> 0, sec |-> 0]
                               ELSE [e EXCEPT !.msg = NoMsg]

\* "Clock has changed so all old ts are invalid": memset goes through the
\* buffer without a lock, each entry from its first field to its last.
ClearStamps ==
    /\ wipe < Wiped
    /\ ts_buf' = [ts_buf EXCEPT ![wipe \div 2] = WipedEntry(@, wipe % 2 = 1)]
    /\ sure' = {}
    /\ frame' = IF add = "idle" THEN frame ELSE [frame EXCEPT !.fresh = FALSE]
    /\ wipe' = wipe + 1
    /\ UNCHANGED <<clock, ts_cnt, add, msgs, sets>>

Settings == (0..MaxSec) \X (0..(Second - 1))

-----------------------------------------------------------------------------
\* The clock runs, and is set at any moment to any time.
Next ==
    \/ Tick \/ Capture \/ IsrRead \/ IsrTimer \/ mx6q_1588_isr
    \/ AddDetails \/ AddNsec \/ AddSecond
    \/ ClearStamps
    \/ \E v \in Settings : SetCnt(v[1], v[2])

Spec == Init /\ [][Next]_vars

-----------------------------------------------------------------------------
(* Properties                                                              *)

FrameType == [on : BOOLEAN, nsec : 0..(Second - 1), sec : Nat, age : Nat,
              fresh : BOOLEAN]
MsgType == [id : Nat, nsec : 0..(Second - 1), sec : Nat]
StampType == [msg : MsgType, nsec : 0..(Second - 1), sec : Int]

\* Every variable holds a value of its kind.
TypeOK ==
    /\ nsec \in 0..(Second - 1) /\ sec \in Nat
    /\ rtc \in Int /\ rtc_half \in {0, 1}
    /\ ts_timer \in BOOLEAN /\ tf \in BOOLEAN /\ isr \in {"idle", "timer"}
    /\ carry \in BOOLEAN /\ offHalf \in BOOLEAN
    /\ frame \in FrameType
    /\ ts_buf \in [Entries -> StampType] /\ ts_cnt \in Entries
    /\ add \in {"idle", "nsec", "sec"}
    /\ msgs \in Nat /\ sure \in SUBSET Nat
    /\ sets \in Nat /\ wipe \in 0..Wiped

\* Whenever mx6q_ptp_get_cnt is called, it returns the second the timer is in,
\* wherever between the wrap of the timer and the two interrupts that is, and
\* after a setting of the clock at any moment that left no handler about to
\* count and no other half of the second: in the last case, from the next
\* second that is counted.
ClockRight == InStep => SecondOf(nsec) = sec

\* Whenever the time stamp of a frame is collected by a clock in step, and the
\* clock was not set since the frame was stamped, the second it is given is the
\* one in which the frame was stamped: "Handle rollovers of the timer and async
\* updates of the seconds stored in software."
StampRight == frame.on /\ frame.fresh /\ InStep => SecondOf(frame.nsec) = frame.sec

\* mx6q_ptp_get_rx_timestamp and mx6q_ptp_get_tx_timestamp find the time of
\* each of the last BUF_SZ event messages, and it is right, although entries
\* are written and wiped part by part without a lock: of those collected since
\* the clock was set, and not while PTP_SET_TIME was wiping the buffer.
LastStampsFound ==
    \A id \in sure :
        id > msgs - BUF_SZ =>
            \E i \in Entries : /\ ts_buf[i].msg.id = id
                              /\ ts_buf[i].nsec = ts_buf[i].msg.nsec
                              /\ ts_buf[i].sec = ts_buf[i].msg.sec
=============================================================================
