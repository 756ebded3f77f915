------------------------------- MODULE I2cImx -------------------------------
(***************************************************************************)
(* The i.MX I2C master driver (hardware/i2c/imx): imx_i2c_send and         *)
(* imx_i2c_recv start a transaction by sending the slave's address and     *)
(* wait, with a timeout, for a pulse; the interrupt handler does the rest, *)
(* led by bus_state.  The controller, the slaves and another master on the *)
(* bus are modelled as the driver uses them.                               *)
(*                                                                         *)
(* log is what the current call has put on the bus, as <<kind, value>>:    *)
(* "S" start, "Sr" repeated start, "P" stop, "A" an address (of slave and  *)
(* direction), "L" its second byte, "W" a byte written and acknowledged,   *)
(* "N" one that was not, "R" a byte read and how it was acknowledged.      *)
(***************************************************************************)
EXTENDS Integers, Sequences

CONSTANTS Slaves,
          TenBit,    \* the slaves addressed with ten bits
          MaxLen,    \* bound: bytes to a call
          MaxCalls   \* bound: calls

ASSUME I2cAssumption == /\ TenBit \subseteq Slaves
                        /\ MaxLen \in Nat \ {0} /\ MaxCalls \in Nat

VARIABLES
    pc, calls, call,     \* the client: where it is, the call it makes
    result,              \* of the last call
    bus_state, transaction_status, transaction_error, transaction,
    stop_req, tx, rx,    \* tx: tx_buf_len and tx_buf_idx; rx: of rx_buf
    pulses,              \* on dev->chid
    msta, mtx, txak,     \* I2CR
    iif, ial, rxak,      \* I2SR
    bus,                 \* "free", "ours", "stopping" or "other": IBB unless free
    shift,               \* the byte being transferred
    log,
    disturbed,           \* history: a timer expired, or an interrupt came early
    abandoned            \* history: a send was given up without a reset, or the
                         \* handler undid the stop of a receive given up

client == <<pc, calls, call, result>>
dev    == <<bus_state, transaction_status, transaction_error, transaction,
            stop_req, tx, rx>>
ctrl   == <<msta, mtx, txak>>
status == <<iif, ial, rxak>>
wires  == <<bus, shift, log>>
hist   == <<disturbed, abandoned>>
vars   == <<pc, calls, call, result, bus_state, transaction_status,
            transaction_error, transaction, stop_req, tx, rx, pulses, msta,
            mtx, txak, iif, ial, rxak, bus, shift, log, disturbed, abandoned>>

None == <<"none", 0>>
StartMark == <<"S", 0>>
RestartMark == <<"Sr", 0>>
StopMark == <<"P", 0>>
Call == [dir : {"send", "recv"}, slave : Slaves, len : 1..MaxLen, stop : BOOLEAN]
IBB == bus # "free"

Init ==
    /\ pc = "idle" /\ calls = 0 /\ result = "none"
    /\ call \in [dir : {"send"}, slave : Slaves, len : {1}, stop : {TRUE}]
    /\ bus_state = "STOPPED" /\ transaction_status = "COMPLETE"
    /\ transaction_error = "0" /\ transaction = "send" /\ stop_req = TRUE
    /\ tx = [len |-> 0, idx |-> 0] /\ rx = tx /\ pulses = 0
    /\ msta = FALSE /\ mtx = FALSE /\ txak = FALSE
    /\ iif = FALSE /\ ial = FALSE /\ rxak = FALSE
    /\ bus = "free" /\ shift = None /\ log = <<>>
    /\ disturbed = FALSE /\ abandoned = FALSE

-----------------------------------------------------------------------------
(* Writing the controller's registers.                                     *)

\* I2CR is written.  Without MSTA a master puts a stop on the bus, and a byte
\* under way is cut short; it may still raise an interrupt.
SetCtrl(m, t, a) ==
    /\ msta' = m /\ mtx' = t /\ txak' = a
    /\ IF msta /\ ~m
         THEN /\ log' = Append(log, StopMark) /\ bus' = "stopping"
              /\ shift' = IF shift = None THEN None ELSE <<"cut", 0>>
         ELSE UNCHANGED wires

\* The data register is written (a master that transmits sends the byte).
Send(byte) == shift' = IF msta /\ mtx THEN byte ELSE shift

-----------------------------------------------------------------------------
(* The client's thread.                                                    *)

\* imx_i2c_send, imx_i2c_recv; a length of zero is no transaction.  Bound: no
\* call follows an abandoned one; the driver then no longer knows what is on
\* the bus and nothing is claimed.
Begin ==
    /\ pc = "idle" /\ calls < MaxCalls /\ calls' = calls + 1 /\ ~abandoned
    /\ call' \in Call
    /\ pc' = IF bus_state = "STOPPED" /\ IBB THEN "waitidle" ELSE "start"
    /\ log' = <<>> /\ result' = "none"
    /\ UNCHANGED <<dev, pulses, ctrl, status, bus, shift, hist>>

WaitBusIdle ==
    /\ pc \in {"waitidle", "waitagain"} /\ ~IBB /\ pc' = "start"
    /\ UNCHANGED <<calls, call, result, dev, pulses, ctrl, status, wires, hist>>

imx_i2c_reset == /\ SetCtrl(FALSE, FALSE, FALSE)
                 /\ iif' = FALSE /\ ial' = FALSE /\ UNCHANGED rxak
                 /\ bus_state' = "STOPPED"

\* The bus stays busy: reset and try once more, then give up.
WaitBusTimeout ==
    /\ IBB
    /\ \/ /\ pc = "waitidle" /\ pc' = "waitagain" /\ imx_i2c_reset
          /\ UNCHANGED result
       \/ /\ pc = "waitagain" /\ pc' = "idle" /\ result' = "BUSY"
          /\ UNCHANGED <<ctrl, status, wires, bus_state>>
    /\ UNCHANGED <<calls, call, transaction_status, transaction_error, transaction,
                   stop_req, tx, rx, pulses, hist>>

\* The fields of the transaction, and imx_sendaddr7 or imx_sendaddr10 up to
\* the data register.
Start ==
    /\ pc = "start" /\ pc' = "addrsent"
    /\ transaction' = call.dir /\ transaction_status' = "IN_PROGRESS"
    /\ transaction_error' = "0" /\ stop_req' = call.stop
    /\ IF call.dir = "send" THEN tx' = [len |-> call.len, idx |-> 0] /\ UNCHANGED rx
                            ELSE rx' = [len |-> call.len, idx |-> 0] /\ UNCHANGED tx
    /\ msta' = (msta \/ bus_state = "STOPPED") /\ mtx' = TRUE /\ UNCHANGED txak
    /\ shift' = IF msta' THEN <<"A", <<call.slave, call.dir>>>> ELSE shift
    /\ log' = IF bus_state = "STOPPED" THEN Append(log, StartMark)
              ELSE IF bus_state = "WAIT_RESTART" THEN Append(log, RestartMark) ELSE log
    /\ bus' = IF bus \in {"free", "stopping"} /\ msta' THEN "ours" ELSE bus
    /\ UNCHANGED <<calls, call, result, bus_state, pulses, status, hist>>

\* Only then is bus_state set for the handler.
SetState ==
    /\ pc = "addrsent" /\ pc' = "wait"
    /\ bus_state' = IF call.slave \in TenBit THEN "TX_ADDR_10BIT_MSB"
                                             ELSE "TX_ADDR_7BIT"
    /\ UNCHANGED <<calls, call, result, transaction_status, transaction_error,
                   transaction, stop_req, tx, rx, pulses, ctrl, status, wires,
                   hist>>

\* What send and receive make of transaction_status when they are woken.
\* "TIMEOUT" is the I2C_STATUS_BUSY of a send that was not completed.  What
\* follows the test is a step of its own: the handler may run in between.
Outcome ==
    /\ CASE transaction_status = "IN_PROGRESS" /\ call.dir = "send" ->
              pc' = "idle" /\ result' = "TIMEOUT" /\ abandoned' = TRUE
         [] transaction_status = "IN_PROGRESS" /\ call.dir = "recv" ->
              pc' = "giveup" /\ UNCHANGED <<result, abandoned>>
         [] transaction_status = "FAILED" ->
              pc' = "failed" /\ UNCHANGED <<result, abandoned>>
         [] OTHER -> pc' = "idle" /\ result' = "DONE" /\ UNCHANGED abandoned
    /\ UNCHANGED <<calls, call, dev, ctrl, status, wires>>

\* MsgReceivePulse returns with a pulse, or because the timer has expired.
Wake == /\ pc = "wait" /\ pulses > 0 /\ pulses' = pulses - 1
        /\ Outcome /\ UNCHANGED disturbed

TimerExpires == /\ pc = "wait" /\ pulses = 0 /\ UNCHANGED pulses
                /\ Outcome /\ disturbed' = TRUE

\* A receive that timed out writes I2CR...
RecvStop ==
    /\ pc = "giveup" /\ pc' = "stopped" /\ SetCtrl(FALSE, FALSE, FALSE)
    /\ UNCHANGED <<calls, call, result, dev, pulses, status, hist>>

\* Fault: a receive that timed out leaves bus_state to the handler.
RecvStoppedKeepsState ==
    /\ pc = "stopped" /\ pc' = "idle" /\ result' = "ERROR"
    /\ UNCHANGED <<calls, call, dev, pulses, ctrl, status, wires, hist>>

\* ...and then sets bus_state, with interrupts enabled.
RecvStopped ==
    /\ pc = "stopped" /\ pc' = "idle" /\ result' = "ERROR"
    /\ bus_state' = "STOPPED"
    /\ UNCHANGED <<calls, call, transaction_status, transaction_error, transaction,
                   stop_req, tx, rx, pulses, ctrl, status, wires, hist>>

\* A transaction that failed: the reset begins by turning interrupts off.
Failed ==
    /\ pc = "failed" /\ pc' = "idle" /\ result' = transaction_error
    /\ imx_i2c_reset
    /\ UNCHANGED <<calls, call, transaction_status, transaction_error, transaction,
                   stop_req, tx, rx, pulses, hist>>

-----------------------------------------------------------------------------
(* imx_i2c_intr.  Clears the interrupts it has read.                       *)

Signal == pulses' = pulses + 1
\* Fault: the handler wakes the thread at every byte.
SilentWakes == pulses' = pulses + 1

Silent == UNCHANGED pulses

Fail(error) ==
    /\ transaction_status' = "FAILED" /\ transaction_error' = error
    /\ SetCtrl(FALSE, FALSE, FALSE) /\ Signal
    /\ UNCHANGED <<bus_state, transaction, stop_req, tx, rx>>

IntrArbitrationLost == ial /\ Fail("ARBL")

AckedStates == {"TX_ADDR_7BIT", "TX_ADDR_10BIT_MSB", "TX_DATA"}
Nacked == bus_state \in AckedStates /\ rxak
IntrNack == ~ial /\ Nacked /\ Fail("NACK")

IntrSecondAddress ==
    /\ ~ial /\ ~Nacked /\ bus_state = "TX_ADDR_10BIT_MSB"
    /\ bus_state' = "TX_ADDR_10BIT_LSB" /\ Send(<<"L", call.slave>>) /\ Silent
    /\ UNCHANGED <<transaction_status, transaction_error, transaction, stop_req,
                   tx, rx, ctrl, bus, log>>

Addressed == bus_state \in {"TX_ADDR_10BIT_LSB", "TX_ADDR_7BIT"}

\* The address phase of a receive is over: a dummy read starts reception.
IntrReceive ==
    /\ ~ial /\ ~Nacked /\ Addressed /\ transaction = "recv"
    /\ bus_state' = "RX_DATA"
    /\ msta' = TRUE /\ mtx' = FALSE /\ txak' = (rx.len = 1)
    /\ shift' = <<"R", 0>> /\ Silent
    /\ UNCHANGED <<transaction_status, transaction_error, transaction, stop_req,
                   tx, rx, bus, log>>

\* The transaction is complete, and the bus is released if that was asked for.
Complete == /\ bus_state' = IF stop_req THEN "STOPPED" ELSE "WAIT_RESTART"
            /\ transaction_status' = "COMPLETE"

MoreToSend == tx.idx < tx.len

IntrTransmit ==
    /\ ~ial /\ ~Nacked
    /\ bus_state = "TX_DATA" \/ (Addressed /\ transaction = "send")
    /\ IF MoreToSend
         THEN /\ Send(<<"W", tx.idx>>) /\ tx' = [tx EXCEPT !.idx = @ + 1]
              /\ Silent
              /\ bus_state' = "TX_DATA"
              /\ UNCHANGED <<transaction_status, ctrl, bus, log>>
         ELSE /\ Complete /\ Signal
              /\ IF stop_req THEN SetCtrl(FALSE, FALSE, FALSE)
                             ELSE UNCHANGED <<ctrl, wires>>
              /\ UNCHANGED tx
    /\ UNCHANGED <<transaction_error, transaction, stop_req, rx>>

\* Fault: the last byte but one is acknowledged like the others.
PrepareNackNever == FALSE

\* The second last byte is in: the last one is not to be acknowledged.
PrepareNack == rx.idx = rx.len - 2

LastByte == rx.idx = rx.len - 1

\* The control register is set for the next byte before this one is read,
\* since reading it starts the next.
IntrByte ==
    /\ ~ial /\ ~Nacked /\ bus_state = "RX_DATA"
    /\ IF LastByte
         THEN /\ Complete
              /\ SetCtrl(~stop_req, TRUE, TRUE)
         ELSE /\ UNCHANGED <<bus_state, transaction_status, bus, log>>
              /\ IF PrepareNack THEN msta' = TRUE /\ mtx' = FALSE /\ txak' = TRUE
                                ELSE UNCHANGED ctrl
              /\ shift' = IF msta' /\ ~mtx' THEN <<"R", 0>> ELSE shift
    /\ rx' = [rx EXCEPT !.idx = @ + 1]
    /\ IF rx'.idx # rx.len THEN Silent ELSE Signal
    /\ UNCHANGED <<transaction_error, transaction, stop_req, tx>>

IntrUnexpected ==
    /\ ~ial /\ bus_state \in {"STOPPED", "WAIT_RESTART"}
    /\ transaction_error' = "0xDEAD" /\ Signal
    /\ UNCHANGED <<bus_state, transaction_status, transaction, stop_req, tx, rx,
                   ctrl, wires>>

Intr ==
    /\ iif /\ iif' = FALSE /\ ial' = FALSE /\ UNCHANGED rxak
    /\ \/ IntrArbitrationLost \/ IntrNack \/ IntrSecondAddress \/ IntrReceive
       \/ IntrTransmit \/ IntrByte \/ IntrUnexpected
    /\ disturbed' = (disturbed \/ pc = "addrsent")
    /\ abandoned' = (abandoned \/ (pc = "stopped" /\ msta'))
    /\ UNCHANGED client

-----------------------------------------------------------------------------
(* The controller and the bus (external).                                  *)

\* A byte has been transferred.  A slave may refuse a byte sent.
ByteDone ==
    /\ ~iif /\ bus # "other" /\ shift # None /\ shift[1] # "cut"
    /\ iif' = TRUE /\ shift' = None
    /\ IF shift[1] = "R"
         THEN /\ log' = Append(log, <<"R", IF txak THEN "nack" ELSE "ack">>)
              /\ UNCHANGED rxak
         ELSE \E nack \in BOOLEAN :
                /\ rxak' = nack
                /\ log' = Append(log, IF nack THEN <<"N", 0>> ELSE shift)
    /\ UNCHANGED <<client, dev, pulses, ctrl, ial, bus, hist>>

\* Another master wins the bus while the driver sends.
ArbitrationLost ==
    /\ ~iif /\ shift # None /\ shift[1] \in {"A", "L", "W"} /\ msta
    /\ iif' = TRUE /\ ial' = TRUE /\ msta' = FALSE /\ shift' = None
    /\ bus' = "other"
    /\ UNCHANGED <<client, dev, pulses, mtx, txak, rxak, log, hist>>

\* A byte that was cut short by a stop ends, with an interrupt or without.
CutDone ==
    /\ ~iif /\ shift[1] = "cut" /\ shift' = None /\ iif' \in BOOLEAN
    /\ UNCHANGED <<client, dev, pulses, ctrl, ial, rxak, bus, log, hist>>

BusChange ==
    /\ \/ bus \in {"stopping", "other"} /\ ~msta /\ bus' = "free"
       \/ bus = "free" /\ bus' = "other"
    /\ UNCHANGED <<client, dev, pulses, ctrl, status, shift, log, hist>>

Next == \/ Begin \/ WaitBusIdle \/ WaitBusTimeout \/ Start \/ SetState \/ Wake
        \/ TimerExpires \/ RecvStop \/ RecvStopped \/ Failed \/ Intr \/ ByteDone
        \/ ArbitrationLost \/ CutDone \/ BusChange

Spec == Init /\ [][Next]_vars

-----------------------------------------------------------------------------
(* Properties.                                                             *)

States == {"STOPPED", "WAIT_RESTART", "TX_ADDR_7BIT", "TX_ADDR_10BIT_MSB",
           "TX_ADDR_10BIT_LSB", "TX_DATA", "RX_DATA"}

\* What is transferred, and what is then seen on the bus.
Bytes == ({"A"} \X (Slaves \X {"send", "recv"})) \cup ({"L"} \X Slaves)
         \cup ({"W"} \X (0..MaxLen)) \cup {<<"R", 0>>}
Items == Bytes \cup {StartMark, RestartMark, StopMark, <<"N", 0>>,
                     <<"R", "ack">>, <<"R", "nack">>}

ClientType ==
    /\ pc \in {"idle", "waitidle", "waitagain", "start", "addrsent", "wait",
               "giveup", "stopped", "failed"}
    /\ calls \in 0..MaxCalls /\ call \in Call
    /\ result \in {"none", "DONE", "BUSY", "TIMEOUT", "ERROR", "ARBL", "NACK",
                   "0xDEAD"}
BufType == [len : 0..MaxLen, idx : 0..MaxLen]
DevType ==
    /\ bus_state \in States
    /\ transaction_status \in {"IN_PROGRESS", "COMPLETE", "FAILED"}
    /\ transaction_error \in {"0", "ARBL", "NACK", "0xDEAD"}
    /\ transaction \in {"send", "recv"} /\ stop_req \in BOOLEAN
    /\ tx \in BufType /\ rx \in BufType /\ pulses \in Nat
ControllerType ==
    /\ msta \in BOOLEAN /\ mtx \in BOOLEAN /\ txak \in BOOLEAN
    /\ iif \in BOOLEAN /\ ial \in BOOLEAN /\ rxak \in BOOLEAN
    /\ bus \in {"free", "ours", "stopping", "other"}
    /\ shift \in Bytes \cup {None, <<"cut", 0>>} /\ log \in Seq(Items)
    /\ disturbed \in BOOLEAN /\ abandoned \in BOOLEAN

\* Types, and the index of the caller's buffer never passes its length.
TypeOK == /\ ClientType /\ DevType /\ ControllerType
          /\ tx.idx <= tx.len /\ rx.idx <= rx.len

\* What a call that succeeds has to put on the bus, after a stop or not.
Expected ==
    <<<<"A", <<call.slave, call.dir>>>>>>
    \o (IF call.slave \in TenBit THEN <<<<"L", call.slave>>>> ELSE <<>>)
    \o [i \in 1..call.len |->
          IF call.dir = "send" THEN <<"W", i - 1>>
          ELSE <<"R", IF i = call.len THEN "nack" ELSE "ack">>]
    \o (IF call.stop THEN <<StopMark>> ELSE <<>>)

\* The slave has refused the second byte of its address, which the handler does
\* not look for: it tests for TX_ADDR_10BIT_MSB twice and not for _LSB.
SecondRefused == call.slave \in TenBit /\ Len(log) > 2 /\ log[3][1] = "N"

\* A call that returns I2C_STATUS_DONE has put exactly its own transaction on
\* the bus: start or repeated start, the address, every byte acknowledged, the
\* last byte of a receive refused, the stop if asked for (imx_i2c_intr) -
\* unless a timer has expired, an interrupt has come before bus_state, or the
\* second byte of the address was refused.
FrameRight ==
    pc = "idle" /\ result = "DONE" /\ ~disturbed /\ ~SecondRefused =>
      Len(log) > 0 /\ log[1] \in {StartMark, RestartMark} /\ Tail(log) = Expected

\* Between calls the controller is master exactly if a repeated start was
\* promised, and the driver is in no other state: a late interrupt finds one in
\* which the handler uses no buffer.  After a byte refused and lost arbitration
\* too, and after a receive that timed out whatever the handler does until I2CR
\* is written (recv.c:107 to 120).  Not claimed: after a send given up, and if
\* the handler sets MSTA again between the writes of I2CR and bus_state
\* (recv.c:120, 121), where the driver is left master with STOPPED.
BusReleased ==
    pc = "idle" /\ ~abandoned =>
      /\ bus_state \in {"STOPPED", "WAIT_RESTART"}
      /\ msta = (bus_state = "WAIT_RESTART")

\* As long as nothing was disturbed a call is given up only for a reason: it
\* is never woken with its transaction still in progress by an older pulse.
NoStalePulse == ~disturbed => result \notin {"TIMEOUT", "ERROR"}
=============================================================================
