---------------------------- MODULE I2cImxProofs ----------------------------
(***************************************************************************)
(* Theorems about the I2C master driver (I2cImx), for all slaves, lengths  *)
(* and numbers of calls.                                                   *)
(***************************************************************************)
EXTENDS I2cImx, TLAPS, SequenceTheorems

AddrStates == {"TX_ADDR_7BIT", "TX_ADDR_10BIT_MSB", "TX_ADDR_10BIT_LSB"}
Rest == {"STOPPED", "WAIT_RESTART"}
QuietPcs == {"idle", "waitidle", "waitagain", "start"}

\* From the wait to the end of the transaction, but for the step between the
\* two writes of a receive given up.
Waiting == {"wait", "giveup", "failed"}
InCall == {"addrsent"} \cup Waiting

-----------------------------------------------------------------------------
(* The type invariant *)

\* The handler finds room in the caller's buffer whenever it uses it, and a
\* transaction that failed has an error.
BufOK ==
    /\ tx.idx <= tx.len /\ rx.idx <= rx.len
    /\ bus_state = "RX_DATA" => transaction = "recv" /\ rx.idx < rx.len
    /\ bus_state \in AddrStates \/ pc = "addrsent" =>
         /\ transaction = "send" => tx.idx < tx.len
         /\ transaction = "recv" => rx.idx < rx.len
    /\ transaction_status = "FAILED" => transaction_error # "0"

\* Between calls, unless a send was given up, and until the address has been
\* sent, bus_state is at rest; and so it is when a transaction is complete.
PlaceOK ==
    /\ abandoned => pc \in {"idle", "stopped"}
    /\ pc \in QuietPcs /\ ~abandoned => bus_state \in Rest
    /\ pc \in {"waitidle", "waitagain"} => bus_state = "STOPPED"
    /\ pc = "addrsent" => bus_state \in Rest /\ transaction_status # "COMPLETE"
    /\ pc \in Waiting /\ transaction_status = "COMPLETE" => bus_state \in Rest
    /\ pc = "failed" => transaction_error # "0"

TypeInv == ClientType /\ DevType /\ ControllerType /\ BufOK /\ PlaceOK

\* The bytes, and the items of the log.
LEMMA ByteTypes ==
    /\ \A c \in Call : <<"A", <<c.slave, c.dir>>>> \in Bytes /\ <<"L", c.slave>> \in Bytes
    /\ \A i \in 0..MaxLen : <<"W", i>> \in Bytes
    /\ <<"R", 0>> \in Bytes
    /\ {StartMark, RestartMark, StopMark, <<"N", 0>>, <<"R", "ack">>, <<"R", "nack">>}
         \subseteq Items
    /\ Bytes \subseteq Items
BY DEF Bytes, Items, Call

\* I2CR is written.
LEMMA SetCtrlType ==
    ASSUME TypeInv, NEW m \in BOOLEAN, NEW t \in BOOLEAN, NEW a \in BOOLEAN, SetCtrl(m, t, a)
    PROVE  /\ msta' \in BOOLEAN /\ mtx' \in BOOLEAN /\ txak' \in BOOLEAN
           /\ bus' \in {"free", "ours", "stopping", "other"}
           /\ shift' \in Bytes \cup {None, <<"cut", 0>>} /\ log' \in Seq(Items)
<1> USE DEF TypeInv, ControllerType
<1>1. StopMark \in Items
  BY ByteTypes
<1>2. CASE msta /\ ~m
  BY <1>1, <1>2 DEF SetCtrl
<1>3. CASE ~(msta /\ ~m)
  BY <1>3 DEF SetCtrl, wires
<1> QED BY <1>2, <1>3

\* The initial state.
LEMMA InitTypeInv == Init => TypeInv
<1> SUFFICES ASSUME Init PROVE TypeInv
  OBVIOUS
<1>1. ClientType
  <2>1. call \in Call
    <3>1. 1 \in 1..MaxLen
      BY I2cAssumption
    <3> QED BY <3>1 DEF Init, Call
  <2> QED BY <2>1, I2cAssumption DEF Init, ClientType
<1>2. tx \in BufType /\ rx \in BufType
  BY I2cAssumption DEF Init, BufType
<1>3. DevType
  BY <1>2 DEF Init, DevType, States
<1>4. ControllerType
  <2>1. log \in Seq(Items)
    BY DEF Init
  <2> QED BY <2>1 DEF Init, ControllerType
<1>5. BufOK /\ PlaceOK
  BY DEF Init, BufOK, PlaceOK, AddrStates, Rest
<1> QED BY <1>1, <1>3, <1>4, <1>5 DEF TypeInv

\* The steps of the client's thread.
LEMMA ClientType0 ==
    ASSUME TypeInv, Begin \/ WaitBusIdle \/ WaitBusTimeout \/ Start \/ SetState
    PROVE  TypeInv'
<1> USE DEF TypeInv
<1>1. CASE Begin \/ WaitBusIdle
  <2>1. ClientType' /\ pc' # "addrsent"
    BY <1>1, I2cAssumption DEF Begin, WaitBusIdle, ClientType
  <2>2. DevType'
    BY <1>1 DEF Begin, WaitBusIdle, DevType, dev
  <2>4. log' \in Seq(Items)
    <3>1. log' = <<>> \/ log' = log
      BY <1>1 DEF Begin, WaitBusIdle, wires
    <3>2. <<>> \in Seq(Items)
      OBVIOUS
    <3> QED BY <3>1, <3>2 DEF ControllerType
  <2>5. ControllerType'
    BY <1>1, <2>4 DEF Begin, WaitBusIdle, ControllerType, ctrl, status, wires, hist
  <2>3. BufOK' /\ PlaceOK'
    BY <1>1, <2>1 DEF Begin, WaitBusIdle, dev, hist, BufOK, PlaceOK, QuietPcs, Waiting
  <2> QED BY <2>1, <2>2, <2>3, <2>5
<1>2. CASE WaitBusTimeout
  <2>1. /\ ClientType' /\ pc' # "addrsent" /\ (bus_state' = bus_state \/ bus_state' = "STOPPED")
        /\ UNCHANGED <<transaction_status, transaction_error, transaction, stop_req, tx, rx,
                       pulses, hist>>
        /\ \/ SetCtrl(FALSE, FALSE, FALSE) /\ iif' = FALSE /\ ial' = FALSE /\ UNCHANGED rxak
           \/ UNCHANGED <<ctrl, status, wires>>
    BY <1>2 DEF WaitBusTimeout, ClientType, imx_i2c_reset
  <2>2. ControllerType'
    BY <2>1, SetCtrlType DEF ControllerType, ctrl, status, wires, hist
  <2>3. DevType'
    BY <2>1 DEF DevType, States
  <2>4. BufOK' /\ PlaceOK'
    <3>1. pc \in {"waitidle", "waitagain"} /\ pc' \in QuietPcs
      BY <1>2 DEF WaitBusTimeout, QuietPcs
    <3>2. bus_state \in Rest /\ ~abandoned /\ UNCHANGED abandoned
      BY <2>1, <3>1 DEF PlaceOK, QuietPcs, hist
    <3> QED BY <2>1, <3>1, <3>2 DEF BufOK, PlaceOK, AddrStates, Rest, QuietPcs, Waiting
  <2> QED BY <2>1, <2>2, <2>3, <2>4
<1>3. CASE Start
  <2>1. ClientType' /\ pc' = "addrsent" /\ transaction' = call.dir
    BY <1>3 DEF Start, ClientType
  <2>2. /\ call.dir \in {"send", "recv"} /\ call.len \in 1..MaxLen /\ call.stop \in BOOLEAN
    BY DEF ClientType, Call
  <2>3. /\ tx' \in BufType /\ rx' \in BufType
        /\ tx'.idx <= tx'.len /\ rx'.idx <= rx'.len
        /\ call.dir = "send" => tx'.idx < tx'.len
        /\ call.dir = "recv" => rx'.idx < rx'.len
        /\ UNCHANGED bus_state
    <3>1. [len |-> call.len, idx |-> 0] \in BufType
      BY <2>2, I2cAssumption DEF BufType
    <3>2. CASE call.dir = "send"
      BY <1>3, <2>2, <3>1, <3>2 DEF Start, DevType, BufOK
    <3>3. CASE call.dir = "recv"
      BY <1>3, <2>2, <3>1, <3>3 DEF Start, DevType, BufOK
    <3> QED BY <2>2, <3>2, <3>3
  <2>4. DevType'
    BY <1>3, <2>1, <2>2, <2>3 DEF Start, DevType
  <2>5. shift' \in Bytes \cup {None, <<"cut", 0>>} /\ log' \in Seq(Items)
    <3>1. shift' = <<"A", <<call.slave, call.dir>>>> \/ shift' = shift
      BY <1>3 DEF Start
    <3>2. <<"A", <<call.slave, call.dir>>>> \in Bytes
      BY ByteTypes DEF ClientType
    <3>3. log' = Append(log, StartMark) \/ log' = Append(log, RestartMark) \/ log' = log
      BY <1>3 DEF Start
    <3>4. StartMark \in Items /\ RestartMark \in Items
      BY ByteTypes
    <3>5. log' \in Seq(Items)
      BY <3>3, <3>4 DEF ControllerType
    <3> QED BY <3>1, <3>2, <3>5 DEF ControllerType
  <2>6. ControllerType'
    <3>1. msta' \in BOOLEAN /\ mtx' \in BOOLEAN /\ UNCHANGED <<txak, iif, ial, rxak, disturbed, abandoned>>
      BY <1>3 DEF Start, ControllerType, status, hist
    <3>2. bus' \in {"free", "ours", "stopping", "other"}
      BY <1>3 DEF Start, ControllerType
    <3> QED BY <2>5, <3>1, <3>2 DEF ControllerType
  <2>7. BufOK' /\ PlaceOK'
    <3>1. transaction_status' = "IN_PROGRESS" /\ bus_state \in Rest /\ ~abandoned'
      BY <1>3 DEF Start, hist, PlaceOK, QuietPcs
    <3> QED BY <2>1, <2>2, <2>3, <3>1 DEF BufOK, PlaceOK, Rest, QuietPcs, Waiting
  <2> QED BY <2>1, <2>4, <2>6, <2>7
<1>4. CASE SetState
  <2>1. ClientType' /\ ControllerType'
    BY <1>4 DEF SetState, ClientType, ControllerType, ctrl, status, wires, hist
  <2>2. DevType' /\ BufOK'
    BY <1>4 DEF SetState, DevType, States, BufOK, AddrStates
  <2>3. PlaceOK'
    BY <1>4 DEF SetState, PlaceOK, QuietPcs, Waiting, hist
  <2> QED BY <2>1, <2>2, <2>3
<1> QED BY <1>1, <1>2, <1>3, <1>4

\* The end of a call.
LEMMA OutcomeType ==
    ASSUME TypeInv, Wake \/ TimerExpires
    PROVE  TypeInv'
<1> USE DEF TypeInv
<1>1. /\ Outcome /\ pulses' \in Nat /\ disturbed' \in BOOLEAN
  <2>1. CASE Wake
    BY <2>1 DEF Wake, DevType, ControllerType
  <2>2. CASE TimerExpires
    BY <2>2 DEF TimerExpires, DevType
  <2> QED BY <2>1, <2>2
<1>2. /\ UNCHANGED <<calls, call, bus_state, transaction_status, transaction_error, transaction,
                     stop_req, tx, rx, msta, mtx, txak, iif, ial, rxak, bus, shift, log>>
  BY <1>1 DEF Outcome, dev, ctrl, status, wires
<1>3. /\ result' \in {"TIMEOUT", "DONE", result} /\ pc' \in {"idle", "giveup", "failed"}
      /\ abandoned' \in BOOLEAN
      /\ transaction_status = "IN_PROGRESS" => pc' # "idle" \/ abandoned'
      /\ transaction_status # "IN_PROGRESS" \/ pc' # "idle" => UNCHANGED abandoned
      /\ transaction_status = "FAILED" => pc' # "idle"
  BY <1>1 DEF Outcome, ControllerType, ClientType, Call
<1>4. ClientType'
  BY <1>2, <1>3 DEF ClientType
<1>5. DevType' /\ BufOK'
  BY <1>1, <1>2, <1>3 DEF DevType, BufOK
<1>6. ControllerType'
  BY <1>1, <1>2, <1>3 DEF ControllerType
<1>7. PlaceOK'
  <2>1. pc = "wait" /\ ~abandoned
    BY DEF Wake, TimerExpires, PlaceOK
  <2>2. pc' = "failed" => transaction_status = "FAILED"
    BY <1>1 DEF Outcome, ClientType, Call
  <2> QED BY <1>2, <1>3, <2>1, <2>2 DEF PlaceOK, BufOK, DevType, QuietPcs, Waiting
<1> QED BY <1>4, <1>5, <1>6, <1>7

\* What follows the test of the status.
LEMMA RecoveryType ==
    ASSUME TypeInv, RecvStop \/ RecvStopped \/ Failed
    PROVE  TypeInv'
<1> USE DEF TypeInv
<1>1. /\ UNCHANGED <<calls, call, transaction_status, transaction_error, transaction,
                     stop_req, tx, rx, pulses, disturbed, abandoned, rxak>>
      /\ \/ pc = "giveup" /\ pc' = "stopped" /\ UNCHANGED <<result, bus_state>>
         \/ pc = "stopped" /\ pc' = "idle" /\ result' = "ERROR" /\ bus_state' = "STOPPED"
         \/ pc = "failed" /\ pc' = "idle" /\ result' = transaction_error /\ bus_state' = "STOPPED"
      /\ \/ SetCtrl(FALSE, FALSE, FALSE) /\ iif' \in BOOLEAN /\ ial' \in BOOLEAN
         \/ UNCHANGED <<ctrl, status, wires>>
  BY DEF RecvStop, RecvStopped, Failed, imx_i2c_reset, dev, hist, status, ControllerType
<1>2. transaction_error \in {"0", "ARBL", "NACK", "0xDEAD"}
      /\ (pc = "failed" => transaction_error # "0")
  BY DEF DevType, PlaceOK
<1>3. ClientType'
  BY <1>1, <1>2 DEF ClientType
<1>4. DevType' /\ BufOK'
  BY <1>1 DEF DevType, BufOK, States, AddrStates
<1>5. ControllerType'
  BY <1>1, SetCtrlType DEF ControllerType, ctrl, status, wires
<1>6. PlaceOK'
  BY <1>1, <1>2 DEF PlaceOK, Rest, QuietPcs, Waiting
<1> QED BY <1>3, <1>4, <1>5, <1>6

\* What the interrupt handler may do to the driver's own fields.
LEMMA IntrType ==
    ASSUME TypeInv, Intr
    PROVE  TypeInv'
<1> USE DEF TypeInv
<1>1. /\ UNCHANGED <<pc, calls, call, result, rxak>>
      /\ iif' = FALSE /\ ial' = FALSE /\ disturbed' \in BOOLEAN /\ abandoned' \in BOOLEAN
      /\ abandoned => abandoned'
      /\ abandoned' => abandoned \/ pc = "stopped"
  BY DEF Intr, client, ControllerType
<1>2. ClientType'
  BY <1>1 DEF ClientType
<1>3. ASSUME msta' \in BOOLEAN, mtx' \in BOOLEAN, txak' \in BOOLEAN,
             bus' \in {"free", "ours", "stopping", "other"},
             shift' \in Bytes \cup {None, <<"cut", 0>>}, log' \in Seq(Items)
      PROVE  ControllerType'
  BY <1>1, <1>3 DEF ControllerType
<1>4. /\ transaction \in {"send", "recv"} /\ stop_req \in BOOLEAN /\ pulses \in Nat
      /\ pulses + 1 \in Nat /\ tx \in BufType /\ rx \in BufType
  BY DEF DevType
<1>5. CASE IntrArbitrationLost \/ IntrNack
  <2>1. PICK e \in {"ARBL", "NACK"} : Fail(e)
    BY <1>5 DEF IntrArbitrationLost, IntrNack
  <2>2. ControllerType'
    BY <1>3, <2>1, SetCtrlType DEF Fail
  <2>3. DevType' /\ BufOK' /\ PlaceOK'
    BY <1>1, <2>1 DEF Fail, Signal, DevType, BufOK, PlaceOK
  <2> QED BY <1>2, <2>2, <2>3
<1>6. CASE IntrSecondAddress
  <2>1. /\ bus_state = "TX_ADDR_10BIT_MSB" /\ bus_state' = "TX_ADDR_10BIT_LSB"
        /\ shift' = <<"L", call.slave>> \/ shift' = shift
        /\ UNCHANGED <<transaction_status, transaction_error, transaction, stop_req, tx, rx,
                       pulses, msta, mtx, txak, bus, log>>
    BY <1>6 DEF IntrSecondAddress, Send, Silent, ctrl
  <2>2. <<"L", call.slave>> \in Bytes
    BY ByteTypes DEF ClientType
  <2>3. ControllerType'
    BY <1>3, <2>1, <2>2 DEF ControllerType
  <2>4. DevType' /\ BufOK'
    BY <1>1, <2>1 DEF DevType, BufOK, States, AddrStates
  <2>5. PlaceOK'
    BY <1>1, <2>1 DEF PlaceOK, Rest, Waiting
  <2> QED BY <1>2, <2>3, <2>4, <2>5
<1>7. CASE IntrReceive
  <2>1. /\ bus_state \in AddrStates /\ bus_state' = "RX_DATA" /\ transaction = "recv"
        /\ msta' = TRUE /\ mtx' = FALSE /\ txak' \in BOOLEAN /\ shift' = <<"R", 0>>
        /\ UNCHANGED <<transaction_status, transaction_error, transaction, stop_req, tx, rx,
                       pulses, bus, log>>
    BY <1>7 DEF IntrReceive, Addressed, AddrStates, Silent
  <2>2. ControllerType'
    BY <1>3, <2>1, ByteTypes DEF ControllerType
  <2>3. DevType' /\ BufOK'
    BY <1>1, <2>1 DEF DevType, BufOK, States, AddrStates
  <2>4. PlaceOK'
    BY <1>1, <2>1 DEF PlaceOK, Rest, AddrStates, Waiting
  <2> QED BY <1>2, <2>2, <2>3, <2>4
<1>8. CASE IntrTransmit
  <2>1. /\ bus_state = "TX_DATA" \/ (bus_state \in AddrStates /\ transaction = "send")
        /\ UNCHANGED <<transaction_error, transaction, stop_req, rx>>
    BY <1>8 DEF IntrTransmit, Addressed, AddrStates
  <2>2. CASE MoreToSend
    <3>1. /\ tx.idx < tx.len /\ tx' = [tx EXCEPT !.idx = @ + 1] /\ bus_state' = "TX_DATA"
          /\ shift' = <<"W", tx.idx>> \/ shift' = shift
          /\ UNCHANGED <<transaction_status, msta, mtx, txak, bus, log, pulses>>
      BY <1>8, <2>2 DEF IntrTransmit, MoreToSend, Send, ctrl, Silent
    <3>2. /\ tx' \in BufType /\ tx'.idx <= tx'.len /\ tx.idx \in 0..MaxLen
      BY <1>4, <3>1, I2cAssumption DEF BufType
    <3>3. ControllerType'
      BY <1>3, <3>1, <3>2, ByteTypes DEF ControllerType
    <3>4. DevType'
      BY <2>1, <3>1, <3>2 DEF DevType, States
    <3>5. BufOK' /\ PlaceOK'
      BY <1>1, <2>1, <3>1, <3>2 DEF BufOK, PlaceOK, AddrStates, Rest, Waiting
    <3> QED BY <1>2, <3>3, <3>4, <3>5
  <2>3. CASE ~MoreToSend
    <3>1. /\ bus_state' \in Rest /\ transaction_status' = "COMPLETE" /\ pulses' = pulses + 1
          /\ UNCHANGED tx
          /\ SetCtrl(FALSE, FALSE, FALSE) \/ UNCHANGED <<msta, mtx, txak, bus, shift, log>>
      BY <1>8, <2>3 DEF IntrTransmit, Complete, Signal, Rest, ctrl, wires
    <3>2. ControllerType'
      BY <1>3, <3>1, SetCtrlType DEF ControllerType
    <3>3. DevType'
      BY <1>4, <2>1, <3>1 DEF DevType, States, Rest
    <3>4. BufOK' /\ PlaceOK'
      BY <1>1, <2>1, <3>1 DEF BufOK, PlaceOK, AddrStates, Rest, QuietPcs, Waiting
    <3> QED BY <1>2, <3>2, <3>3, <3>4
  <2> QED BY <2>2, <2>3
<1>9. CASE IntrByte
  <2>1. /\ bus_state = "RX_DATA" /\ rx' = [rx EXCEPT !.idx = @ + 1]
        /\ UNCHANGED <<transaction_error, transaction, stop_req, tx>>
        /\ pulses' = pulses \/ pulses' = pulses + 1
    BY <1>9 DEF IntrByte, Silent, Signal
  <2>2. rx' \in BufType /\ rx'.idx <= rx'.len /\ (~LastByte => rx'.idx < rx'.len)
    BY <1>4, <2>1, I2cAssumption DEF BufOK, BufType, LastByte
  <2>3. CASE LastByte
    <3>1. /\ bus_state' \in Rest /\ transaction_status' = "COMPLETE"
          /\ SetCtrl(~stop_req, TRUE, TRUE)
      BY <1>9, <2>3 DEF IntrByte, Complete, Rest
    <3>2. ControllerType'
      BY <1>3, <1>4, <3>1, SetCtrlType DEF ControllerType
    <3>3. DevType'
      BY <1>4, <2>1, <2>2, <3>1 DEF DevType, States, Rest
    <3>4. BufOK' /\ PlaceOK'
      BY <1>1, <2>1, <2>2, <3>1 DEF BufOK, PlaceOK, AddrStates, Rest, QuietPcs, Waiting
    <3> QED BY <1>2, <3>2, <3>3, <3>4
  <2>4. CASE ~LastByte
    <3>1. /\ UNCHANGED <<bus_state, transaction_status, bus, log>>
          /\ msta' \in BOOLEAN /\ mtx' \in BOOLEAN /\ txak' \in BOOLEAN
          /\ shift' = <<"R", 0>> \/ shift' = shift
      BY <1>9, <2>4 DEF IntrByte, ctrl, ControllerType
    <3>2. ControllerType'
      BY <1>3, <3>1, ByteTypes DEF ControllerType
    <3>3. DevType'
      BY <1>4, <2>1, <2>2, <3>1 DEF DevType
    <3>4. BufOK' /\ PlaceOK'
      BY <1>1, <2>1, <2>2, <2>4, <3>1 DEF BufOK, PlaceOK, AddrStates
    <3> QED BY <1>2, <3>2, <3>3, <3>4
  <2> QED BY <2>3, <2>4
<1>10. CASE IntrUnexpected
  <2>1. /\ transaction_error' = "0xDEAD" /\ pulses' = pulses + 1
        /\ UNCHANGED <<bus_state, transaction_status, transaction, stop_req, tx, rx,
                       msta, mtx, txak, bus, shift, log>>
    BY <1>10 DEF IntrUnexpected, Signal, ctrl, wires
  <2>2. DevType' /\ BufOK' /\ PlaceOK'
    BY <1>1, <1>4, <2>1 DEF DevType, BufOK, PlaceOK
  <2> QED BY <1>2, <1>3, <2>1, <2>2 DEF ControllerType
<1> QED BY <1>5, <1>6, <1>7, <1>8, <1>9, <1>10 DEF Intr

\* The controller and the bus.
LEMMA BusType ==
    ASSUME TypeInv, ByteDone \/ ArbitrationLost \/ CutDone \/ BusChange \/ UNCHANGED vars
    PROVE  TypeInv'
<1> USE DEF TypeInv
<1>1. UNCHANGED <<pc, calls, call, result, bus_state, transaction_status,
                  transaction_error, transaction, stop_req, tx, rx, pulses, disturbed, abandoned>>
  BY DEF ByteDone, ArbitrationLost, CutDone, BusChange, vars, client, dev, hist
<1>2. ClientType' /\ DevType' /\ BufOK' /\ PlaceOK'
  BY <1>1 DEF ClientType, DevType, BufOK, PlaceOK
<1>3. CASE ByteDone
  <2>1. /\ iif' = TRUE /\ shift' = None /\ rxak' \in BOOLEAN
        /\ UNCHANGED <<msta, mtx, txak, ial, bus>>
    BY <1>3 DEF ByteDone, ctrl, ControllerType
  <2>2. shift \in Bytes
    BY <1>3 DEF ByteDone, ControllerType
  <2>3. \E i \in Items : log' = Append(log, i)
    <3>1. CASE shift[1] = "R"
      BY <1>3, <3>1, ByteTypes DEF ByteDone
    <3>2. CASE shift[1] # "R"
      BY <1>3, <2>2, <3>2, ByteTypes DEF ByteDone
    <3> QED BY <3>1, <3>2
  <2>4. log' \in Seq(Items)
    BY <2>3 DEF ControllerType
  <2> QED BY <1>1, <1>2, <2>1, <2>4 DEF ControllerType
<1>4. CASE ArbitrationLost \/ CutDone \/ BusChange \/ UNCHANGED vars
  <2>1. UNCHANGED log /\ shift' \in {shift, None}
    BY <1>4 DEF ArbitrationLost, CutDone, BusChange, vars
  <2>2. ControllerType'
    BY <1>1, <1>4, <2>1 DEF ArbitrationLost, CutDone, BusChange, vars, ControllerType, ctrl, status
  <2> QED BY <1>2, <2>2
<1> QED BY <1>3, <1>4

\* Every step keeps the types.
LEMMA NextTypeInv == TypeInv /\ [Next]_vars => TypeInv'
BY ClientType0, OutcomeType, RecoveryType, IntrType, BusType DEF Next

\* Types, and the handler never passes the end of the caller's buffer, not
\* even after a time-out or an interrupt that comes early.
THEOREM I2cTypeCorrect == Spec => []TypeOK
<1>1. TypeInv => TypeOK
  BY DEF TypeInv, TypeOK, BufOK
<1>2. Spec => []TypeInv
  BY InitTypeInv, NextTypeInv, PTL DEF Spec
<1> QED BY <1>1, <1>2, PTL

-----------------------------------------------------------------------------
(* The bus between calls *)

Kind == shift[1]
Outgoing == {"A", "L", "W"}

\* The controller is master exactly when a repeated start is promised.
Settled == \/ bus_state = "STOPPED" /\ ~msta
           \/ bus_state = "WAIT_RESTART" /\ msta

\* Between calls nothing is being transferred, but for a byte cut short by a
\* stop, and an interrupt can be pending only after a stop.
QuietOK == pc \in QuietPcs =>
             /\ Settled /\ Kind \in {"none", "cut"}
             /\ msta => shift = None /\ ~iif /\ ~ial

\* During a call.
CallOK == pc \in InCall =>
            /\ transaction = call.dir /\ stop_req = call.stop
            /\ iif => Kind # "cut"
            /\ pc \in Waiting /\ bus_state \in Rest => transaction_status = "COMPLETE"

\* While the data is transferred the controller is master, has lost the bus,
\* or nothing happens any more; an interrupt means that no byte is under way.
DataOK == pc \in Waiting /\ bus_state \in {"TX_DATA", "RX_DATA"} =>
            /\ iif => shift = None
            /\ msta \/ ial \/ (shift = None /\ ~iif)

\* How a transaction stands.
StatusOK == pc \in InCall =>
              /\ transaction_status = "IN_PROGRESS" => msta \/ ial
              /\ transaction_status = "COMPLETE" => Settled /\ shift = None /\ ~iif /\ ~ial
              /\ transaction_status = "FAILED" =>
                   /\ ~ial /\ Kind \notin Outgoing
                   /\ msta => bus_state = "RX_DATA"

\* A receive given up has stopped being master.
GivenUpOK == pc = "stopped" => ~msta

\* A byte is transferred only by the master.
MasterOK == /\ Kind \notin {"none", "cut"} => msta
            /\ ial => iif

BusInv == ~abandoned => /\ QuietOK /\ CallOK /\ DataOK /\ StatusOK /\ MasterOK
                        /\ GivenUpOK

\* The kinds of the bytes.
LEMMA Kinds ==
    ASSUME TypeInv
    PROVE  /\ Kind \in {"none", "cut", "A", "L", "W", "R"} /\ (Kind = "none" <=> shift = None)
           /\ None[1] = "none" /\ <<"cut", 0>>[1] = "cut" /\ <<"R", 0>>[1] = "R"
           /\ \A v : <<"A", v>>[1] = "A" /\ <<"L", v>>[1] = "L" /\ <<"W", v>>[1] = "W"
<1>1. /\ None[1] = "none" /\ <<"cut", 0>>[1] = "cut" /\ <<"R", 0>>[1] = "R"
      /\ \A v : <<"A", v>>[1] = "A" /\ <<"L", v>>[1] = "L" /\ <<"W", v>>[1] = "W"
  BY DEF None
<1>2. \A b \in Bytes : b[1] \in {"A", "L", "W", "R"}
  BY DEF Bytes
<1> QED BY <1>1, <1>2 DEF TypeInv, ControllerType, Kind

\* I2CR is written, without MSTA: nothing is transferred any more.
LEMMA Stopped ==
    ASSUME TypeInv, MasterOK, NEW t, NEW a, SetCtrl(FALSE, t, a)
    PROVE  /\ ~msta' /\ Kind' \in {"none", "cut"}
           /\ shift = None => shift' = None
           /\ shift' = None => (Kind \in {"none", "cut"} /\ shift' = shift)
<1>1. CASE msta
  BY <1>1, Kinds DEF SetCtrl, Kind
<1>2. CASE ~msta
  BY <1>2, Kinds DEF SetCtrl, Kind, wires, MasterOK
<1> QED BY <1>1, <1>2

\* The initial state.
LEMMA InitBusInv == Init => BusInv
BY InitTypeInv, Kinds
   DEF Init, BusInv, QuietOK, CallOK, DataOK, StatusOK, MasterOK, GivenUpOK, InCall, Waiting, Settled, Kind

\* A call begins.
LEMMA BusClient ==
    ASSUME TypeInv, BusInv, Begin \/ WaitBusIdle \/ WaitBusTimeout \/ Start \/ SetState
    PROVE  BusInv'
<1>1. ~abandoned /\ ~abandoned' /\ QuietOK /\ CallOK /\ DataOK /\ StatusOK /\ MasterOK /\ GivenUpOK
  BY DEF TypeInv, PlaceOK, Begin, WaitBusIdle, WaitBusTimeout, Start, SetState, hist, BusInv
<1>2. CASE Begin \/ WaitBusIdle
  <2>1. /\ pc \in QuietPcs /\ pc' \in QuietPcs /\ UNCHANGED <<bus_state, msta, shift, iif, ial>>
    BY <1>2 DEF Begin, WaitBusIdle, QuietPcs, dev, ctrl, status, wires
  <2> QED BY <1>1, <2>1 DEF BusInv, QuietOK, CallOK, DataOK, StatusOK, MasterOK, GivenUpOK, InCall, Waiting, Settled, Kind,
             QuietPcs
<1>3. CASE WaitBusTimeout
  <2>1. /\ pc \in QuietPcs /\ pc' \in QuietPcs
        /\ \/ UNCHANGED <<bus_state, msta, shift, iif, ial>>
           \/ bus_state' = "STOPPED" /\ SetCtrl(FALSE, FALSE, FALSE) /\ ~ial' /\ ~iif'
    BY <1>3 DEF WaitBusTimeout, imx_i2c_reset, QuietPcs, dev, ctrl, status, wires
  <2>2. CASE UNCHANGED <<bus_state, msta, shift, iif, ial>>
    BY <1>1, <2>1, <2>2 DEF BusInv, QuietOK, CallOK, DataOK, StatusOK, MasterOK, GivenUpOK, InCall, Waiting, Settled, Kind,
       QuietPcs
  <2>3. CASE bus_state' = "STOPPED" /\ SetCtrl(FALSE, FALSE, FALSE) /\ ~ial' /\ ~iif'
    <3>1. ~msta' /\ Kind' \in {"none", "cut"}
      BY <1>1, <2>3, Stopped
    <3> QED BY <2>1, <2>3, <3>1 DEF BusInv, QuietOK, CallOK, DataOK, StatusOK, MasterOK, GivenUpOK, InCall, Waiting, Settled,
               QuietPcs
  <2> QED BY <2>1, <2>2, <2>3
<1>4. CASE Start
  <2>1. pc = "start" /\ Settled
    BY <1>1, <1>4 DEF Start, QuietOK, QuietPcs
  <2>2. /\ pc' = "addrsent" /\ transaction' = call.dir /\ stop_req' = call.stop
        /\ transaction_status' = "IN_PROGRESS" /\ msta' /\ UNCHANGED <<iif, ial, call, bus_state>>
        /\ shift' = <<"A", <<call.slave, call.dir>>>>
    BY <1>4, <2>1 DEF Start, Settled, status
  <2>3. Kind' = "A"
    BY <2>2, Kinds DEF Kind
  <2> QED BY <1>1, <2>2, <2>3 DEF BusInv, QuietOK, CallOK, DataOK, StatusOK, MasterOK, GivenUpOK, InCall, Waiting, QuietPcs
<1>5. CASE SetState
  <2>1. /\ pc = "addrsent" /\ pc' = "wait" /\ bus_state' \in AddrStates
        /\ UNCHANGED <<msta, shift, iif, ial, call, transaction, stop_req, transaction_status>>
    BY <1>5 DEF SetState, AddrStates, ctrl, status, wires
  <2>2. transaction_status # "COMPLETE" /\ bus_state \in Rest
    BY <2>1 DEF TypeInv, PlaceOK
  <2> QED BY <1>1, <2>1, <2>2 DEF BusInv, QuietOK, CallOK, DataOK, StatusOK, MasterOK, GivenUpOK, InCall, Waiting, QuietPcs,
             Kind, AddrStates, Rest
<1> QED BY <1>2, <1>3, <1>4, <1>5

\* The status is tested.
LEMMA BusOutcome ==
    ASSUME TypeInv, BusInv, Wake \/ TimerExpires
    PROVE  BusInv'
<1>1. pc = "wait" /\ Outcome
  BY DEF Wake, TimerExpires
<1>2. ~abandoned /\ QuietOK /\ CallOK /\ DataOK /\ StatusOK /\ MasterOK
  BY <1>1 DEF TypeInv, PlaceOK, BusInv
<1>3. UNCHANGED <<call, transaction, stop_req, transaction_status, bus_state, msta, shift, iif, ial>>
  BY <1>1 DEF Outcome, dev, ctrl, wires, status
<1>4. CASE transaction_status = "IN_PROGRESS" /\ call.dir = "send"
  BY <1>1, <1>4 DEF Outcome, BusInv
<1>5. CASE \/ transaction_status = "IN_PROGRESS" /\ call.dir = "recv"
           \/ transaction_status = "FAILED"
  <2>1. pc' \in {"giveup", "failed"}
    BY <1>1, <1>5 DEF Outcome
  <2> QED BY <1>1, <1>2, <1>3, <2>1 DEF BusInv, QuietOK, CallOK, DataOK, StatusOK, MasterOK,
             GivenUpOK, Settled, QuietPcs, InCall, Waiting, Kind
<1>6. CASE transaction_status = "COMPLETE"
  <2>1. pc' = "idle"
    BY <1>1, <1>6 DEF Outcome
  <2>2. Settled /\ shift = None /\ ~iif /\ ~ial
    BY <1>1, <1>2, <1>6 DEF StatusOK, InCall, Waiting
  <2> QED BY <1>1, <1>3, <2>1, <2>2, Kinds DEF BusInv, QuietOK, CallOK, DataOK, StatusOK,
             MasterOK, GivenUpOK, Settled, QuietPcs, InCall, Waiting, Kind
<1> QED BY <1>4, <1>5, <1>6 DEF TypeInv, ClientType, Call, DevType

\* A receive is given up, or the controller is reset.
LEMMA BusRecovery ==
    ASSUME TypeInv, BusInv, RecvStop \/ RecvStopped \/ Failed
    PROVE  BusInv'
<1>1. UNCHANGED abandoned
  BY DEF RecvStop, RecvStopped, Failed, hist
<1> SUFFICES ASSUME ~abandoned PROVE BusInv'
  BY <1>1 DEF BusInv
<1>2. QuietOK /\ CallOK /\ DataOK /\ StatusOK /\ MasterOK /\ GivenUpOK
  BY DEF BusInv
<1>3. CASE RecvStop
  <2>1. pc' = "stopped" /\ SetCtrl(FALSE, FALSE, FALSE) /\ UNCHANGED <<iif, ial>>
    BY <1>3 DEF RecvStop, status
  <2>2. ~msta' /\ Kind' \in {"none", "cut"}
    BY <1>2, <2>1, Stopped
  <2> QED BY <1>2, <2>1, <2>2 DEF BusInv, QuietOK, CallOK, DataOK, StatusOK, MasterOK, GivenUpOK,
             QuietPcs, InCall, Waiting
<1>4. CASE RecvStopped
  <2>1. /\ pc = "stopped" /\ pc' = "idle" /\ bus_state' = "STOPPED"
        /\ UNCHANGED <<msta, shift, iif, ial>>
    BY <1>4 DEF RecvStopped, ctrl, status, wires
  <2>2. ~msta /\ Kind \in {"none", "cut"}
    BY <1>2, <2>1, Kinds DEF GivenUpOK, MasterOK
  <2> QED BY <1>2, <2>1, <2>2 DEF BusInv, QuietOK, CallOK, DataOK, StatusOK, MasterOK, GivenUpOK,
             Settled, QuietPcs, InCall, Waiting, Kind
<1>5. CASE Failed
  <2>1. pc' = "idle" /\ SetCtrl(FALSE, FALSE, FALSE) /\ bus_state' = "STOPPED" /\ ~iif' /\ ~ial'
    BY <1>5 DEF Failed, imx_i2c_reset
  <2>2. ~msta' /\ Kind' \in {"none", "cut"}
    BY <1>2, <2>1, Stopped
  <2> QED BY <2>1, <2>2 DEF BusInv, QuietOK, CallOK, DataOK, StatusOK, MasterOK, GivenUpOK,
             Settled, QuietPcs, InCall, Waiting
<1> QED BY <1>3, <1>4, <1>5

\* The controller and the bus.
LEMMA BusHardware ==
    ASSUME TypeInv, BusInv, ByteDone \/ ArbitrationLost \/ CutDone \/ BusChange \/ UNCHANGED vars
    PROVE  BusInv'
<1>1. UNCHANGED <<pc, call, bus_state, transaction_status, transaction, stop_req, abandoned>>
  BY DEF ByteDone, ArbitrationLost, CutDone, BusChange, vars, client, dev, hist
<1> SUFFICES ASSUME ~abandoned PROVE BusInv'
  BY <1>1 DEF BusInv
<1>2. QuietOK /\ CallOK /\ DataOK /\ StatusOK /\ MasterOK /\ GivenUpOK /\ pc \in QuietPcs \cup InCall \cup {"stopped"}
  BY DEF BusInv, TypeInv, ClientType, QuietPcs, InCall, Waiting
<1>3. CASE ByteDone
  <2>1. ~iif /\ Kind \notin {"none", "cut"} /\ msta /\ iif' /\ shift' = None /\ UNCHANGED <<msta, ial>>
    BY <1>2, <1>3, Kinds DEF ByteDone, MasterOK, Kind, ctrl
  <2> QED BY <1>1, <1>2, <2>1, Kinds DEF BusInv, QuietOK, CallOK, DataOK, StatusOK, MasterOK, GivenUpOK, InCall, Waiting,
             Settled, Kind, Outgoing
<1>4. CASE ArbitrationLost
  <2>1. ~iif /\ Kind \in Outgoing /\ msta /\ iif' /\ ial' /\ ~msta' /\ shift' = None
    BY <1>4 DEF ArbitrationLost, Kind, Outgoing
  <2> QED BY <1>1, <1>2, <2>1, Kinds DEF BusInv, QuietOK, CallOK, DataOK, StatusOK, MasterOK, GivenUpOK, InCall, Waiting,
             Settled, Kind, Outgoing
<1>5. CASE CutDone
  <2>1. ~iif /\ Kind = "cut" /\ shift' = None /\ UNCHANGED <<msta, ial>>
    BY <1>5 DEF CutDone, Kind, ctrl
  <2> QED BY <1>1, <1>2, <2>1, Kinds DEF BusInv, QuietOK, CallOK, DataOK, StatusOK, MasterOK, GivenUpOK, InCall, Waiting,
             Settled, Kind, Outgoing
<1>6. CASE BusChange \/ UNCHANGED vars
  <2>1. UNCHANGED <<msta, shift, iif, ial>>
    BY <1>6 DEF BusChange, vars, ctrl, status
  <2> QED BY <1>1, <1>2, <2>1 DEF BusInv, QuietOK, CallOK, DataOK, StatusOK, MasterOK, GivenUpOK, InCall, Waiting,
             Settled, Kind
<1> QED BY <1>3, <1>4, <1>5, <1>6

\* The interrupt handler.
LEMMA BusIntr ==
    ASSUME TypeInv, BusInv, Intr
    PROVE  BusInv'
<1>1. /\ UNCHANGED <<pc, call>> /\ iif /\ ~iif' /\ ~ial'
      /\ ~abandoned' => ~abandoned /\ (pc = "stopped" => ~msta')
  BY DEF Intr, client
<1> SUFFICES ASSUME ~abandoned, pc = "stopped" => ~msta' PROVE BusInv'
  BY <1>1 DEF BusInv
<1>2. QuietOK /\ CallOK /\ DataOK /\ StatusOK /\ MasterOK /\ GivenUpOK /\ pc \in QuietPcs \cup InCall \cup {"stopped"}
  BY DEF BusInv, TypeInv, ClientType, QuietPcs, InCall, Waiting
<1>0. CASE pc = "stopped"
  <2>1. ~msta /\ ~msta'
    BY <1>0, <1>2 DEF GivenUpOK
  <2>2. shift' = shift
    <3>1. CASE IntrArbitrationLost \/ IntrNack
      BY <2>1, <3>1 DEF IntrArbitrationLost, IntrNack, Fail, SetCtrl, wires
    <3>2. CASE IntrSecondAddress \/ IntrReceive \/ IntrUnexpected
      BY <2>1, <3>2 DEF IntrSecondAddress, IntrReceive, IntrUnexpected, Send, wires
    <3>3. CASE IntrTransmit
      BY <2>1, <3>3 DEF IntrTransmit, Send, SetCtrl, wires
    <3>4. CASE IntrByte
      BY <2>1, <3>4 DEF IntrByte, SetCtrl, wires
    <3> QED BY <3>1, <3>2, <3>3, <3>4 DEF Intr
  <2> QED BY <1>0, <1>1, <1>2, <2>1, <2>2 DEF BusInv, QuietOK, CallOK, DataOK, StatusOK, MasterOK,
             GivenUpOK, QuietPcs, InCall, Waiting, Kind
<1> SUFFICES ASSUME pc # "stopped" PROVE BusInv'
  BY <1>0
<1>3. /\ bus_state \in Rest \/ pc \in Waiting
      /\ pc \in InCall => transaction_status # "COMPLETE"
      /\ transaction_status \in {"IN_PROGRESS", "FAILED", "COMPLETE"}
      /\ pc \in QuietPcs => pc \notin InCall
  BY <1>1, <1>2 DEF TypeInv, PlaceOK, StatusOK, DevType, QuietPcs, InCall, Waiting
<1>4. CASE IntrArbitrationLost \/ IntrNack
  <2>1. PICK e : Fail(e)
    BY <1>4 DEF IntrArbitrationLost, IntrNack
  <2>2. /\ transaction_status' = "FAILED" /\ SetCtrl(FALSE, FALSE, FALSE)
        /\ UNCHANGED <<bus_state, transaction, stop_req>>
    BY <2>1 DEF Fail
  <2>3. /\ ~msta' /\ Kind' \in {"none", "cut"} /\ (shift = None => shift' = None)
    BY <1>2, <2>2, Stopped
  <2>4. QuietOK'
    <3>1. pc \in QuietPcs => ~msta
      BY <1>1, <1>2 DEF QuietOK
    <3> QED BY <1>1, <1>2, <2>2, <2>3, <3>1 DEF QuietOK, Settled
  <2>5. CallOK' /\ MasterOK' /\ GivenUpOK'
    BY <1>1, <1>2, <1>3, <2>2, <2>3 DEF CallOK, MasterOK, GivenUpOK
  <2>6. StatusOK'
    BY <1>1, <2>2, <2>3 DEF StatusOK, Outgoing
  <2>7. DataOK'
    BY <1>1, <1>2, <2>2, <2>3 DEF DataOK
  <2> QED BY <2>4, <2>5, <2>6, <2>7 DEF BusInv
<1>5. CASE IntrSecondAddress
  <2>1. /\ bus_state = "TX_ADDR_10BIT_MSB" /\ bus_state' = "TX_ADDR_10BIT_LSB"
        /\ shift' = IF msta /\ mtx THEN <<"L", call.slave>> ELSE shift
        /\ UNCHANGED <<transaction_status, transaction, stop_req, msta>>
        /\ ~ial
    BY <1>5 DEF IntrSecondAddress, Send, ctrl
  <2>2. pc \in Waiting /\ (transaction_status = "FAILED" => ~msta)
    BY <1>2, <1>3, <2>1 DEF Rest, StatusOK, InCall
  <2>3. (Kind' = "L" /\ msta) \/ (Kind' = Kind /\ shift' = shift)
    BY <2>1, Kinds DEF Kind
  <2> QED BY <1>1, <1>2, <1>3, <2>1, <2>2, <2>3, Kinds
          DEF BusInv, QuietOK, CallOK, DataOK, StatusOK, MasterOK, GivenUpOK, InCall, Waiting, Outgoing, QuietPcs, Rest
<1>6. CASE IntrReceive
  <2>1. /\ bus_state \in AddrStates /\ bus_state' = "RX_DATA" /\ msta' /\ shift' = <<"R", 0>>
        /\ UNCHANGED <<transaction_status, transaction, stop_req>>
    BY <1>6 DEF IntrReceive, Addressed, AddrStates
  <2>2. pc \in Waiting /\ Kind' = "R"
    BY <1>3, <2>1, Kinds DEF Rest, AddrStates, Kind
  <2> QED BY <1>1, <1>2, <1>3, <2>1, <2>2
          DEF BusInv, QuietOK, CallOK, DataOK, StatusOK, MasterOK, GivenUpOK, InCall, Waiting, Outgoing, QuietPcs, Rest
<1>7. CASE IntrTransmit
  <2>1. /\ bus_state = "TX_DATA" \/ (bus_state \in AddrStates /\ transaction = "send")
        /\ UNCHANGED <<transaction, stop_req>> /\ ~ial
    BY <1>7 DEF IntrTransmit, Addressed, AddrStates
  <2>2. pc \in Waiting /\ (transaction_status = "FAILED" => ~msta)
    BY <1>2, <1>3, <2>1 DEF Rest, AddrStates, StatusOK, InCall
  <2>3. CASE MoreToSend
    <3>1. /\ bus_state' = "TX_DATA" /\ UNCHANGED <<transaction_status, msta>>
          /\ shift' = IF msta /\ mtx THEN <<"W", tx.idx>> ELSE shift
      BY <1>7, <2>3 DEF IntrTransmit, Send, ctrl
    <3>2. (Kind' = "W" /\ msta) \/ (Kind' = Kind /\ shift' = shift)
      BY <3>1, Kinds DEF Kind
    <3>3. ~msta => shift = None
      BY <1>1, <1>2, <2>1, <2>2, Kinds DEF MasterOK, CallOK, InCall
    <3>4. shift' = None \/ msta'
      BY <3>1, <3>3
    <3> QED BY <1>1, <1>2, <1>3, <2>1, <2>2, <3>1, <3>2, <3>4, Kinds
            DEF BusInv, QuietOK, CallOK, DataOK, StatusOK, MasterOK, GivenUpOK, InCall, Waiting, Outgoing, QuietPcs, Rest
  <2>4. CASE ~MoreToSend
    <3>1. bus_state = "TX_DATA"
      BY <1>7, <2>1, <2>4 DEF TypeInv, BufOK, MoreToSend
    <3>2. shift = None /\ msta
      BY <1>1, <1>2, <2>1, <2>2, <3>1 DEF DataOK
    <3>3. /\ transaction_status' = "COMPLETE"
          /\ stop_req => bus_state' = "STOPPED" /\ SetCtrl(FALSE, FALSE, FALSE)
          /\ ~stop_req => bus_state' = "WAIT_RESTART" /\ UNCHANGED <<msta, shift>>
      BY <1>7, <2>4 DEF IntrTransmit, Complete, ctrl, wires
    <3>4. Settled' /\ shift' = None /\ bus_state' \in Rest
      BY <1>2, <3>2, <3>3, Stopped DEF Settled, Rest, TypeInv, DevType
    <3>5. Kind' = "none"
      BY <3>4, Kinds DEF Kind
    <3> QED BY <1>1, <1>2, <2>1, <2>2, <3>3, <3>4, <3>5
            DEF BusInv, QuietOK, CallOK, DataOK, StatusOK, MasterOK, GivenUpOK, InCall, Waiting, QuietPcs, Rest
  <2> QED BY <2>3, <2>4
<1>8. CASE IntrByte
  <2>1. /\ bus_state = "RX_DATA" /\ UNCHANGED <<transaction, stop_req>> /\ ~ial
    BY <1>8 DEF IntrByte
  <2>2. pc \in Waiting /\ shift = None /\ msta
    BY <1>1, <1>2, <1>3, <2>1 DEF Rest, DataOK
  <2>3. CASE LastByte
    <3>1. /\ transaction_status' = "COMPLETE" /\ msta' = ~stop_req /\ shift' = None
          /\ bus_state' = IF stop_req THEN "STOPPED" ELSE "WAIT_RESTART"
      BY <1>8, <2>2, <2>3 DEF IntrByte, Complete, SetCtrl, wires
    <3>2. Settled' /\ Kind' = "none" /\ bus_state' \in Rest
      BY <3>1, Kinds DEF Settled, Kind, TypeInv, DevType, Rest
    <3> QED BY <1>1, <1>2, <2>1, <2>2, <3>1, <3>2
            DEF BusInv, QuietOK, CallOK, DataOK, StatusOK, MasterOK, GivenUpOK, InCall, Waiting, QuietPcs, Rest
  <2>4. CASE ~LastByte
    <3>1. /\ UNCHANGED <<bus_state, transaction_status>> /\ msta'
          /\ shift' = <<"R", 0>> \/ shift' = shift
      BY <1>8, <2>2, <2>4 DEF IntrByte, ctrl
    <3>2. Kind' \in {"R", "none"}
      BY <2>2, <3>1, Kinds DEF Kind
    <3> QED BY <1>1, <1>2, <2>1, <2>2, <3>1, <3>2
            DEF BusInv, QuietOK, CallOK, DataOK, StatusOK, MasterOK, GivenUpOK, InCall, Waiting, QuietPcs, Rest, Outgoing
  <2> QED BY <2>3, <2>4
<1>9. CASE IntrUnexpected
  <2>1. /\ UNCHANGED <<bus_state, transaction_status, transaction, stop_req, msta, shift>>
        /\ ~ial /\ bus_state \in Rest
    BY <1>9 DEF IntrUnexpected, ctrl, wires, Rest
  <2> QED BY <1>1, <1>2, <1>3, <2>1
          DEF BusInv, QuietOK, CallOK, DataOK, StatusOK, MasterOK, GivenUpOK, InCall, Waiting, Settled, Kind, Rest
<1> QED BY <1>4, <1>5, <1>6, <1>7, <1>8, <1>9 DEF Intr

\* Every step keeps the bus invariant.
LEMMA NextBusInv == TypeInv /\ BusInv /\ [Next]_vars => BusInv'
BY BusClient, BusOutcome, BusRecovery, BusIntr, BusHardware DEF Next

\* The bus, for every sequence of calls, late interrupts included.
THEOREM I2cBusInvariant == Spec => [](TypeInv /\ BusInv)
<1>1. Init => TypeInv /\ BusInv
  BY InitTypeInv, InitBusInv
<1>2. TypeInv /\ BusInv /\ [Next]_vars => (TypeInv /\ BusInv)'
  BY NextTypeInv, NextBusInv
<1> QED BY <1>1, <1>2, PTL DEF Spec

\* Between calls the controller is master exactly if a repeated start was
\* promised: after a refused byte, lost arbitration and a late interrupt too,
\* and after a time-out of a receive unless the handler has set MSTA again
\* between the writes of I2CR and bus_state (recv.c:120, 121).
THEOREM I2cBusReleased == Spec => []BusReleased
<1>1. TypeInv /\ BusInv => BusReleased
  <2> SUFFICES ASSUME TypeInv, BusInv, pc = "idle", ~abandoned
               PROVE  /\ bus_state \in {"STOPPED", "WAIT_RESTART"}
                      /\ msta = (bus_state = "WAIT_RESTART")
    BY DEF BusReleased
  <2>1. Settled /\ msta \in BOOLEAN
    BY DEF BusInv, QuietOK, QuietPcs, TypeInv, ControllerType
  <2> QED BY <2>1 DEF Settled
<1> QED BY <1>1, I2cBusInvariant, PTL

-----------------------------------------------------------------------------
(* A call that nothing disturbs *)

\* One byte is under way or has arrived; or none.
OneByte == (Kind \notin {"none", "cut"} /\ ~iif) \/ (shift = None /\ iif)
NoByte == shift = None /\ ~iif

\* There is a pulse only for a call whose transaction has ended.
CalmOK ==
    /\ ~abandoned
    /\ pc \in QuietPcs => NoByte /\ pulses = 0
    /\ pc = "addrsent" => OneByte /\ pulses = 0 /\ transaction_status = "IN_PROGRESS" /\ mtx
    /\ pc = "wait" /\ transaction_status = "IN_PROGRESS" =>
         /\ OneByte /\ pulses = 0
         /\ bus_state = "RX_DATA" => ~mtx
         /\ bus_state # "RX_DATA" => mtx
    /\ pc = "wait" /\ transaction_status # "IN_PROGRESS" => NoByte /\ pulses = 1
    /\ pc = "failed" => NoByte /\ pulses = 0
    /\ pc \notin {"giveup", "stopped"}
    /\ result \notin {"TIMEOUT", "ERROR"}
    /\ pc # "idle" => result = "none"
CalmInv == ~disturbed => CalmOK

\* Nothing is disturbed before a step that leaves nothing disturbed.
LEMMA StillCalm ==
    ASSUME TypeInv, CalmInv, [Next]_vars, ~disturbed'
    PROVE  ~disturbed /\ CalmOK
<1>1. ~disturbed
  <2>1. CASE Begin \/ WaitBusIdle \/ WaitBusTimeout \/ Start \/ SetState
    BY <2>1 DEF Begin, WaitBusIdle, WaitBusTimeout, Start, SetState, hist
  <2>2. CASE Wake \/ TimerExpires \/ Intr \/ UNCHANGED vars
    BY <2>2 DEF Wake, TimerExpires, Intr, vars
  <2>4. CASE RecvStop \/ RecvStopped \/ Failed
    BY <2>4 DEF RecvStop, RecvStopped, Failed, hist
  <2>3. CASE ByteDone \/ ArbitrationLost \/ CutDone \/ BusChange
    BY <2>3 DEF ByteDone, ArbitrationLost, CutDone, BusChange, hist
  <2> QED BY <2>1, <2>2, <2>3, <2>4 DEF Next
<1> QED BY <1>1 DEF CalmInv

\* A call begins.
LEMMA CalmClient ==
    ASSUME TypeInv, BusInv, CalmOK, Begin \/ WaitBusIdle \/ WaitBusTimeout \/ Start \/ SetState
    PROVE  CalmOK'
<1>1. ~abandoned' /\ pulses' = pulses /\ BusInv
  BY DEF Begin, WaitBusIdle, WaitBusTimeout, Start, SetState, hist, CalmOK
<1>2. CASE Begin \/ WaitBusIdle
  <2>1. /\ pc \in QuietPcs /\ pc' \in QuietPcs \ {"idle"} /\ UNCHANGED <<shift, iif>>
        /\ result' = "none" \/ (pc # "idle" /\ result' = result)
    BY <1>2 DEF Begin, WaitBusIdle, QuietPcs, status, wires
  <2> QED BY <1>1, <2>1 DEF CalmOK, NoByte, QuietPcs
<1>3. CASE WaitBusTimeout
  <2>1. /\ pc \in {"waitidle", "waitagain"} /\ pc' \in {"idle", "waitagain"}
        /\ (pc' = "waitagain" /\ result' = result) \/ result' = "BUSY"
        /\ result' = "BUSY" => pc' = "idle"
        /\ UNCHANGED <<shift, iif>> \/ (SetCtrl(FALSE, FALSE, FALSE) /\ ~iif')
    BY <1>3 DEF WaitBusTimeout, imx_i2c_reset, status, wires, CalmOK
  <2>2. shift = None /\ ~iif /\ pulses = 0 /\ result = "none" /\ MasterOK
    BY <2>1 DEF CalmOK, NoByte, QuietPcs, BusInv
  <2>3. shift' = None /\ ~iif'
    <3>1. CASE UNCHANGED <<shift, iif>>
      BY <2>2, <3>1
    <3>2. CASE SetCtrl(FALSE, FALSE, FALSE) /\ ~iif'
      BY <2>2, <3>2, Stopped
    <3> QED BY <2>1, <3>1, <3>2
  <2> QED BY <1>1, <2>1, <2>2, <2>3 DEF CalmOK, NoByte, QuietPcs
<1>4. CASE Start
  <2>1. pc = "start" /\ Settled /\ ~iif /\ pulses = 0 /\ result = "none"
    BY <1>4 DEF Start, BusInv, QuietOK, QuietPcs, CalmOK, NoByte
  <2>2. /\ pc' = "addrsent" /\ transaction_status' = "IN_PROGRESS" /\ UNCHANGED <<iif, result>>
        /\ mtx' /\ shift' = <<"A", <<call.slave, call.dir>>>>
    BY <1>4, <2>1 DEF Start, Settled, status
  <2>3. Kind' = "A"
    BY <2>2, Kinds DEF Kind
  <2> QED BY <1>1, <2>1, <2>2, <2>3 DEF CalmOK, OneByte, QuietPcs
<1>5. CASE SetState
  <2>1. /\ pc = "addrsent" /\ pc' = "wait" /\ bus_state' # "RX_DATA"
        /\ UNCHANGED <<shift, iif, mtx, transaction_status, result>>
    BY <1>5 DEF SetState, status, ctrl, wires
  <2> QED BY <1>1, <2>1 DEF CalmOK, OneByte, Kind, QuietPcs
<1> QED BY <1>2, <1>3, <1>4, <1>5

\* A call is woken: the pulse is its own.
LEMMA CalmOutcome ==
    ASSUME TypeInv, CalmOK, Wake
    PROVE  /\ CalmOK' /\ pc = "wait" /\ pc' \in {"idle", "failed"}
           /\ pc' = "idle" => transaction_status = "COMPLETE"
           /\ UNCHANGED <<call, log>>
<1>1. /\ pc = "wait" /\ Outcome /\ pulses > 0 /\ pulses' = pulses - 1
      /\ UNCHANGED <<call, log, shift, iif, transaction_status>>
  BY DEF Wake, Outcome, dev, status, wires
<1>2. transaction_status # "IN_PROGRESS" /\ NoByte /\ pulses = 1 /\ pulses' = 0
  BY <1>1 DEF CalmOK
<1>3. CASE transaction_status = "FAILED"
  <2>1. pc' = "failed" /\ UNCHANGED <<result, abandoned>>
    BY <1>1, <1>3 DEF Outcome
  <2> QED BY <1>1, <1>2, <1>3, <2>1 DEF CalmOK, NoByte, QuietPcs
<1>4. CASE transaction_status = "COMPLETE"
  <2>1. pc' = "idle" /\ UNCHANGED abandoned /\ result' = "DONE"
    BY <1>1, <1>4 DEF Outcome
  <2> QED BY <1>1, <1>2, <1>4, <2>1 DEF CalmOK, NoByte, QuietPcs
<1> QED BY <1>2, <1>3, <1>4 DEF TypeInv, DevType

\* A call that failed ends; none is given up.
LEMMA CalmRecovery ==
    ASSUME TypeInv, CalmOK, RecvStop \/ RecvStopped \/ Failed
    PROVE  /\ CalmOK' /\ Failed /\ result' # "DONE" /\ pc = "failed" /\ pc' = "idle"
<1>1. Failed /\ pc = "failed" /\ pc' = "idle"
  BY DEF RecvStop, RecvStopped, Failed, CalmOK
<1>2. /\ SetCtrl(FALSE, FALSE, FALSE) /\ ~iif' /\ result' = transaction_error
      /\ UNCHANGED <<abandoned, pulses>>
  BY <1>1 DEF Failed, imx_i2c_reset, hist
<1>3. shift' = None /\ pulses' = 0
  BY <1>1, <1>2 DEF SetCtrl, wires, NoByte, CalmOK
<1>4. result' \notin {"TIMEOUT", "ERROR", "DONE"}
  BY <1>2 DEF TypeInv, DevType
<1> QED BY <1>1, <1>2, <1>3, <1>4 DEF CalmOK, NoByte, QuietPcs

\* Where an interrupt finds an undisturbed call.
LEMMA CalmAwaited ==
    ASSUME TypeInv, BusInv, CalmOK, Intr, ~disturbed'
    PROVE  /\ pc = "wait" /\ transaction_status = "IN_PROGRESS" /\ shift = None /\ pulses = 0
           /\ bus_state \notin Rest /\ (ial \/ msta) /\ (bus_state = "RX_DATA" <=> ~mtx)
           /\ ~iif' /\ UNCHANGED <<pc, call, result, abandoned>>
<1>0. pc # "stopped" /\ abandoned = FALSE
  BY DEF CalmOK, TypeInv, ControllerType
<1>1. /\ iif /\ pc # "addrsent" /\ ~iif' /\ UNCHANGED <<pc, call, result, abandoned>>
  <2>1. UNCHANGED abandoned
    BY <1>0 DEF Intr
  <2> QED BY <2>1 DEF Intr, client
<1>2. /\ pc = "wait" /\ transaction_status = "IN_PROGRESS" /\ shift = None /\ pulses = 0
  BY <1>1, Kinds DEF CalmOK, NoByte, OneByte, TypeInv, ClientType, QuietPcs
<1> QED BY <1>1, <1>2 DEF CalmOK, BusInv, CallOK, StatusOK, InCall, Waiting

\* The interrupt handler starts a byte, or ends the transaction with a pulse.
LEMMA CalmIntr ==
    ASSUME TypeInv, BusInv, CalmOK, Intr, ~disturbed'
    PROVE  CalmOK'
<1>1. /\ pc = "wait" /\ transaction_status = "IN_PROGRESS" /\ shift = None /\ pulses = 0
      /\ bus_state \notin Rest /\ (ial \/ msta) /\ (bus_state = "RX_DATA" <=> ~mtx)
      /\ ~iif' /\ UNCHANGED <<pc, call, result, abandoned>>
  BY CalmAwaited
<1>2. ASSUME UNCHANGED <<transaction_status, pulses>>, Kind' \notin {"none", "cut"},
             bus_state' = "RX_DATA" <=> ~mtx'
      PROVE  CalmOK'
  BY <1>1, <1>2 DEF CalmOK, OneByte, QuietPcs
<1>3. ASSUME transaction_status' # "IN_PROGRESS", pulses' = pulses + 1, shift' = None
      PROVE  CalmOK'
  BY <1>1, <1>3 DEF CalmOK, NoByte, QuietPcs
<1>4. MasterOK
  BY DEF CalmOK, BusInv
<1>5. CASE IntrArbitrationLost \/ IntrNack
  <2>1. PICK e : Fail(e)
    BY <1>5 DEF IntrArbitrationLost, IntrNack
  <2> QED BY <1>1, <1>3, <1>4, <2>1, Stopped DEF Fail, Signal
<1>6. CASE IntrSecondAddress \/ (IntrTransmit /\ MoreToSend)
  <2>1. /\ msta /\ bus_state # "RX_DATA" /\ bus_state' # "RX_DATA"
        /\ UNCHANGED <<transaction_status, pulses, mtx>>
        /\ Send(<<"L", call.slave>>) \/ Send(<<"W", tx.idx>>)
    BY <1>1, <1>6 DEF IntrSecondAddress, IntrTransmit, Silent, Addressed, ctrl
  <2>2. Kind' \in {"L", "W"}
    BY <1>1, <2>1, Kinds DEF Send, Kind
  <2> QED BY <1>1, <1>2, <2>1, <2>2
<1>7. CASE IntrReceive
  <2>1. UNCHANGED <<transaction_status, pulses>> /\ Kind' = "R" /\ ~mtx' /\ bus_state' = "RX_DATA"
    BY <1>7, Kinds DEF IntrReceive, Silent, Kind
  <2> QED BY <1>2, <2>1
<1>8. CASE IntrTransmit /\ ~MoreToSend
  <2>1. /\ transaction_status' = "COMPLETE" /\ pulses' = pulses + 1
        /\ SetCtrl(FALSE, FALSE, FALSE) \/ UNCHANGED shift
    BY <1>8 DEF IntrTransmit, Complete, Signal, wires
  <2>2. shift' = None
    BY <1>1, <2>1 DEF SetCtrl, wires
  <2> QED BY <1>3, <2>1, <2>2
<1>9. CASE IntrByte /\ LastByte
  <2>1. transaction_status' = "COMPLETE" /\ SetCtrl(~stop_req, TRUE, TRUE)
    BY <1>9 DEF IntrByte, Complete
  <2>2. shift' = None
    BY <1>1, <2>1 DEF SetCtrl, wires
  <2>3. rx'.idx = rx.len
    BY <1>9 DEF IntrByte, LastByte, TypeInv, DevType, BufType
  <2>4. pulses' = pulses + 1
    BY <1>9, <2>3 DEF IntrByte, Signal
  <2> QED BY <1>3, <2>1, <2>2, <2>4
<1>10. CASE IntrByte /\ ~LastByte
  <2>1. /\ ~mtx /\ msta /\ bus_state = "RX_DATA"
    BY <1>1, <1>10 DEF IntrByte
  <2>2. /\ UNCHANGED <<bus_state, transaction_status>> /\ msta' /\ ~mtx' /\ shift' = <<"R", 0>>
    <3>1. UNCHANGED <<bus_state, transaction_status>>
      BY <1>10 DEF IntrByte
    <3>2. msta' /\ ~mtx'
      BY <1>10, <2>1 DEF IntrByte, ctrl
    <3>3. shift' = IF msta' /\ ~mtx' THEN <<"R", 0>> ELSE shift
      BY <1>10 DEF IntrByte
    <3> QED BY <3>1, <3>2, <3>3
  <2>3. rx'.idx # rx.len
    BY <1>10 DEF IntrByte, LastByte, TypeInv, DevType, BufType
  <2>4. UNCHANGED pulses /\ Kind' = "R"
    BY <1>10, <2>2, <2>3, Kinds DEF IntrByte, Silent, Kind
  <2> QED BY <1>2, <2>1, <2>2, <2>4
<1>11. CASE IntrUnexpected
  BY <1>1, <1>11 DEF IntrUnexpected, Rest
<1> QED BY <1>5, <1>6, <1>7, <1>8, <1>9, <1>10, <1>11 DEF Intr

\* The controller and the bus.
LEMMA CalmHardware ==
    ASSUME TypeInv, BusInv, CalmOK,
           ByteDone \/ ArbitrationLost \/ CutDone \/ BusChange \/ UNCHANGED vars
    PROVE  CalmOK'
<1>1. UNCHANGED <<pc, bus_state, transaction_status, pulses, result, mtx, abandoned>>
  BY DEF ByteDone, ArbitrationLost, CutDone, BusChange, vars, client, dev, hist, ctrl
<1>2. CASE ByteDone \/ ArbitrationLost
  <2>1. shift # None /\ ~iif /\ shift' = None /\ iif'
    BY <1>2 DEF ByteDone, ArbitrationLost
  <2> QED BY <1>1, <2>1 DEF CalmOK, OneByte, NoByte
<1>3. CASE CutDone
  <2>1. Kind = "cut"
    BY <1>3 DEF CutDone, Kind
  <2>2. pc \in {"addrsent", "wait", "failed"} \cup QuietPcs /\ ~iif
    BY <1>3 DEF TypeInv, ClientType, QuietPcs, CutDone, CalmOK
  <2> QED BY <2>1, <2>2, Kinds DEF CalmOK, OneByte, NoByte
<1>4. CASE BusChange \/ UNCHANGED vars
  <2>1. UNCHANGED <<shift, iif>>
    BY <1>4 DEF BusChange, vars, status
  <2> QED BY <1>1, <2>1 DEF CalmOK, OneByte, NoByte, Kind
<1> QED BY <1>2, <1>3, <1>4

\* Every step keeps an undisturbed call.
LEMMA NextCalmInv == TypeInv /\ BusInv /\ CalmInv /\ [Next]_vars => CalmInv'
<1> SUFFICES ASSUME TypeInv, BusInv, CalmInv, [Next]_vars, ~disturbed' PROVE CalmOK'
  BY DEF CalmInv
<1>1. CalmOK
  BY StillCalm
<1>2. CASE TimerExpires
  BY <1>2 DEF TimerExpires
<1> QED BY <1>1, <1>2, CalmClient, CalmOutcome, CalmRecovery, CalmIntr, CalmHardware DEF Next

\* Nothing but the call in progress, for every sequence of calls.
THEOREM I2cCalmInvariant == Spec => [](TypeInv /\ BusInv /\ CalmInv)
<1>1. Init => CalmInv
  BY DEF Init, CalmInv, CalmOK, NoByte
<1>2. Init => TypeInv /\ BusInv /\ CalmInv
  BY <1>1, InitTypeInv, InitBusInv
<1>3. TypeInv /\ BusInv /\ CalmInv /\ [Next]_vars => (TypeInv /\ BusInv /\ CalmInv)'
  BY NextTypeInv, NextBusInv, NextCalmInv
<1> QED BY <1>2, <1>3, PTL DEF Spec

\* A call is never woken by a pulse that is not its own, and so never given up
\* while its transaction goes on, as long as no timer expires and no interrupt
\* comes before bus_state.
THEOREM I2cNoStalePulse == Spec => []NoStalePulse
<1>1. CalmInv => NoStalePulse
  BY DEF CalmInv, CalmOK, NoStalePulse
<1> QED BY <1>1, I2cCalmInvariant, PTL

-----------------------------------------------------------------------------
(* What is on the bus *)

\* The bytes of the address.
AddrLen == IF call.slave \in TenBit THEN 2 ELSE 1
AddrItem == <<"A", <<call.slave, call.dir>>>>
Datum(i) == IF call.dir = "send" THEN <<"W", i - 1>>
            ELSE <<"R", IF i = call.len THEN "nack" ELSE "ack">>
FrameLen == AddrLen + call.len + (IF call.stop THEN 1 ELSE 0)

\* Two sequences in a row.
LEMMA InARow ==
    ASSUME NEW s \in Seq(Items), NEW t \in Seq(Items)
    PROVE  /\ s \o t \in Seq(Items) /\ Len(s \o t) = Len(s) + Len(t)
           /\ Len(s) \in Nat /\ Len(t) \in Nat
           /\ \A i \in 1..Len(s) : (s \o t)[i] = s[i]
           /\ \A i \in 1..Len(t) : (s \o t)[Len(s) + i] = t[i]
OBVIOUS

\* The items of a transaction, by number.
LEMMA ExpectedItems ==
    ASSUME call \in Call
    PROVE  /\ Expected \in Seq(Items) /\ Len(Expected) = FrameLen
           /\ AddrLen \in {1, 2} /\ call.len \in Nat \ {0} /\ FrameLen \in Nat
           /\ Expected[1] = AddrItem
           /\ AddrLen = 2 => Expected[2] = <<"L", call.slave>>
           /\ \A i \in 1..call.len : Expected[AddrLen + i] = Datum(i)
           /\ call.stop => Expected[FrameLen] = StopMark
<1> DEFINE a == <<AddrItem>>
           l == IF call.slave \in TenBit THEN <<<<"L", call.slave>>>> ELSE <<>>
           d == [i \in 1..call.len |-> Datum(i)]
           p == IF call.stop THEN <<StopMark>> ELSE <<>>
<1>1. /\ call.len \in 1..MaxLen /\ call.len \in Nat \ {0} /\ call.stop \in BOOLEAN
      /\ call.dir \in {"send", "recv"}
  BY I2cAssumption DEF Call
<1>2. AddrLen \in {1, 2}
  BY DEF AddrLen
<1>3. /\ AddrItem \in Items /\ <<"L", call.slave>> \in Items /\ StopMark \in Items
      /\ \A i \in 1..call.len : Datum(i) \in Items
  <2>1. AddrItem \in Items /\ <<"L", call.slave>> \in Items /\ StopMark \in Items
    BY ByteTypes DEF AddrItem
  <2>2. ASSUME NEW i \in 1..call.len PROVE Datum(i) \in Items
    <3>1. i - 1 \in 0..MaxLen
      BY <1>1, I2cAssumption
    <3>2. <<"W", i - 1>> \in Items /\ <<"R", "ack">> \in Items /\ <<"R", "nack">> \in Items
      BY <3>1, ByteTypes
    <3> QED BY <3>2 DEF Datum
  <2> QED BY <2>1, <2>2
<1>4. a \in Seq(Items) /\ Len(a) = 1 /\ a[1] = AddrItem
  BY <1>3
<1>5. /\ l \in Seq(Items) /\ Len(l) = AddrLen - 1
      /\ AddrLen = 2 => l[1] = <<"L", call.slave>>
  BY <1>3 DEF AddrLen
<1>6. d \in Seq(Items) /\ Len(d) = call.len /\ \A i \in 1..call.len : d[i] = Datum(i)
  BY <1>1, <1>3
<1>7. /\ p \in Seq(Items) /\ Len(p) = (IF call.stop THEN 1 ELSE 0)
      /\ call.stop => p[1] = StopMark
  BY <1>3
<1>8. Expected = ((a \o l) \o d) \o p
  BY DEF Expected, Datum, AddrItem
<1> HIDE DEF a, l, d, p
<1> DEFINE al == a \o l
           ald == al \o d
           e == ald \o p
<1>9. /\ al \in Seq(Items) /\ Len(al) = Len(a) + Len(l)
      /\ \A i \in 1..Len(a) : al[i] = a[i]
      /\ \A i \in 1..Len(l) : al[Len(a) + i] = l[i]
  BY <1>4, <1>5, InARow, Zenon
<1> HIDE DEF al
<1>10. /\ ald \in Seq(Items) /\ Len(ald) = Len(al) + Len(d)
       /\ \A i \in 1..Len(al) : ald[i] = al[i]
       /\ \A i \in 1..Len(d) : ald[Len(al) + i] = d[i]
  BY <1>6, <1>9, InARow, Zenon
<1> HIDE DEF ald
<1>11. /\ e \in Seq(Items) /\ Len(e) = Len(ald) + Len(p)
       /\ \A i \in 1..Len(ald) : e[i] = ald[i]
       /\ \A i \in 1..Len(p) : e[Len(ald) + i] = p[i]
  BY <1>7, <1>10, InARow, Zenon
<1> HIDE DEF e
<1>12. Expected = e
  BY <1>8 DEF al, ald, e
<1>13. /\ Len(al) = AddrLen /\ al[1] = AddrItem
       /\ AddrLen = 2 => al[2] = <<"L", call.slave>>
  BY <1>2, <1>4, <1>5, <1>9
<1>14. /\ Len(ald) = AddrLen + call.len /\ ald[1] = AddrItem
       /\ AddrLen = 2 => ald[2] = <<"L", call.slave>>
       /\ \A i \in 1..call.len : ald[AddrLen + i] = Datum(i)
  <2>1. Len(ald) = AddrLen + call.len
    BY <1>6, <1>10, <1>13
  <2>2. \A i \in 1..AddrLen : ald[i] = al[i]
    BY <1>10, <1>13
  <2>3. 1 \in 1..AddrLen /\ (AddrLen = 2 => 2 \in 1..AddrLen)
    BY <1>2
  <2>4. \A i \in 1..call.len : ald[AddrLen + i] = d[i]
    BY <1>6, <1>10, <1>13
  <2> QED BY <1>6, <1>13, <2>1, <2>2, <2>3, <2>4
<1>15. /\ Len(e) = FrameLen /\ FrameLen \in Nat
       /\ \A i \in 1..(AddrLen + call.len) : e[i] = ald[i]
       /\ call.stop => e[FrameLen] = StopMark
  <2>1. Len(e) = FrameLen /\ FrameLen \in Nat
    BY <1>1, <1>2, <1>7, <1>11, <1>14 DEF FrameLen
  <2>2. \A i \in 1..(AddrLen + call.len) : e[i] = ald[i]
    BY <1>11, <1>14
  <2>3. ASSUME call.stop PROVE e[FrameLen] = StopMark
    <3>1. Len(p) = 1 /\ p[1] = StopMark /\ 1 \in 1..1
      BY <1>7, <2>3
    <3>2. Len(ald) + 1 = FrameLen
      BY <1>14, <2>3 DEF FrameLen
    <3>3. e[Len(ald) + 1] = p[1]
      BY <1>11, <3>1
    <3> QED BY <3>1, <3>2, <3>3
  <2> QED BY <2>1, <2>2, <2>3
<1>16. /\ 1 \in 1..(AddrLen + call.len) /\ (AddrLen = 2 => 2 \in 1..(AddrLen + call.len))
       /\ \A i \in 1..call.len : AddrLen + i \in 1..(AddrLen + call.len)
  BY <1>1, <1>2
<1> QED BY <1>1, <1>2, <1>11, <1>12, <1>14, <1>15, <1>16

\* The first n items of the transaction are on the bus, after a start.
OnBus(n) == /\ Len(log) = n + 1 /\ log[1] \in {StartMark, RestartMark}
            /\ \A k \in 1..n : log[k + 1] = Expected[k]

\* The next item of the transaction appears on the bus.
LEMMA OnBusNext ==
    ASSUME TypeInv, NEW n \in Nat, OnBus(n), UNCHANGED call,
           log' = Append(log, Expected[n + 1])
    PROVE  OnBus(n + 1)'
<1>1. /\ log \in Seq(Items) /\ Len(log) = n + 1 /\ Len(log') = n + 2
      /\ \A k \in 1..(n + 1) : log'[k] = log[k]
      /\ log'[n + 2] = Expected[n + 1]
  BY DEF TypeInv, ControllerType, OnBus
<1>2. Expected' = Expected
  BY DEF Expected
<1>3. log'[1] = log[1]
  BY <1>1
<1>4. ASSUME NEW k \in 1..(n + 1) PROVE log'[k + 1] = Expected[k]
  <2>1. CASE k = n + 1
    BY <1>1, <2>1
  <2>2. CASE k \in 1..n
    BY <1>1, <2>2 DEF OnBus
  <2>3. k = n + 1 \/ k \in 1..n
    OBVIOUS
  <2> QED BY <2>1, <2>2, <2>3
<1>5. n + 1 \in Nat /\ Len(log') = (n + 1) + 1
  BY <1>1
<1> QED BY <1>2, <1>3, <1>4, <1>5 DEF OnBus

\* A step that adds nothing.
LEMMA OnBusSame ==
    ASSUME UNCHANGED <<call, log>>
    PROVE  \A n : OnBus(n) => OnBus(n)'
BY DEF OnBus, Expected

\* Item n of the transaction, a byte the driver sends, is under way or has
\* been transferred, and refused perhaps.
Sending(n) == /\ ~iif => shift = Expected[n] /\ OnBus(n - 1)
              /\ iif /\ ~ial /\ ~rxak => OnBus(n)
              /\ iif /\ ~ial /\ rxak => Len(log) = n + 1 /\ log[n + 1] = <<"N", 0>>

\* Item n, a byte the driver receives, is under way or has been transferred.
Receiving(n) == /\ ~iif => shift = <<"R", 0>> /\ OnBus(n - 1)
                /\ iif => OnBus(n)
                /\ ~ial
                /\ rx.idx = rx.len - 1 => txak
                /\ rx.idx # rx.len - 1 => ~txak

\* The buffers of the call in progress.
LengthsOK ==
    pc \in {"addrsent", "wait"} =>
      /\ transaction = "send" => tx.len = call.len
      /\ transaction = "recv" => rx.len = call.len
      /\ pc = "addrsent" \/ bus_state \in AddrStates =>
           /\ transaction = "send" => tx.idx = 0
           /\ transaction = "recv" => rx.idx = 0
      /\ bus_state = "TX_DATA" => transaction = "send" /\ tx.idx \in Nat \ {0}
      /\ pc = "wait" /\ bus_state = "TX_ADDR_7BIT" => call.slave \notin TenBit
      /\ pc = "wait" /\ bus_state \in {"TX_ADDR_10BIT_MSB", "TX_ADDR_10BIT_LSB"}
           => call.slave \in TenBit

\* What is on the bus at each stage of the transaction.
StageOK ==
    /\ bus_state \in {"TX_ADDR_7BIT", "TX_ADDR_10BIT_MSB"} => Sending(1)
    /\ bus_state = "TX_ADDR_10BIT_LSB" => Sending(2)
    /\ bus_state = "TX_DATA" => Sending(AddrLen + tx.idx)
    /\ bus_state = "RX_DATA" => Receiving(AddrLen + rx.idx + 1)

LogOK ==
    /\ pc \in {"waitidle", "waitagain", "start"} => log = <<>>
    /\ pc = "addrsent" => Sending(1)
    /\ pc = "wait" /\ ~SecondRefused =>
         /\ transaction_status = "IN_PROGRESS" => StageOK
         /\ transaction_status = "COMPLETE" => OnBus(FrameLen)
    /\ pc = "idle" /\ result = "DONE" /\ ~SecondRefused => OnBus(FrameLen)

FrameInv == ~disturbed => LengthsOK /\ LogOK

\* The log of a call only grows, and so the second byte of an address that was
\* refused remains so.
LEMMA LogGrows ==
    ASSUME TypeInv, [Next]_vars, pc \in {"addrsent", "wait"}
    PROVE  /\ UNCHANGED call /\ (log' = log \/ \E x \in Items : log' = Append(log, x))
           /\ SecondRefused => SecondRefused'
<1>1. StopMark \in Items
  BY ByteTypes
<1>2. \A m, t, a : SetCtrl(m, t, a) => log' = log \/ log' = Append(log, StopMark)
  BY DEF SetCtrl, wires
<1>3. UNCHANGED call /\ (log' = log \/ \E x \in Items : log' = Append(log, x))
  <2>1. CASE SetState \/ ArbitrationLost \/ CutDone \/ BusChange \/ UNCHANGED vars
    BY <2>1 DEF SetState, ArbitrationLost, CutDone, BusChange, vars, client, wires
  <2>2. CASE Wake \/ TimerExpires
    <3>1. Outcome
      BY <2>2 DEF Wake, TimerExpires
    <3> QED BY <3>1 DEF Outcome, wires
  <2>3. CASE Intr
    <3>1. UNCHANGED call
      BY <2>3 DEF Intr, client
    <3>2. CASE IntrArbitrationLost \/ IntrNack
      BY <1>1, <1>2, <3>1, <3>2 DEF IntrArbitrationLost, IntrNack, Fail
    <3>3. CASE IntrSecondAddress \/ IntrReceive \/ IntrUnexpected
      BY <3>1, <3>3 DEF IntrSecondAddress, IntrReceive, IntrUnexpected, wires
    <3>4. CASE IntrTransmit \/ IntrByte
      BY <1>1, <1>2, <3>1, <3>4 DEF IntrTransmit, IntrByte, wires
    <3> QED BY <2>3, <3>2, <3>3, <3>4 DEF Intr
  <2>4. CASE ByteDone
    <3>1. UNCHANGED call /\ shift \in Items
      BY <2>4, ByteTypes DEF ByteDone, client, TypeInv, ControllerType
    <3>2. CASE shift[1] = "R"
      BY <2>4, <3>1, <3>2, ByteTypes DEF ByteDone
    <3>3. CASE shift[1] # "R"
      BY <2>4, <3>1, <3>3, ByteTypes DEF ByteDone
    <3> QED BY <3>2, <3>3
  <2> QED BY <2>1, <2>2, <2>3, <2>4
          DEF Next, Begin, WaitBusIdle, WaitBusTimeout, Start, RecvStop, RecvStopped, Failed
<1>4. ASSUME SecondRefused PROVE SecondRefused'
  <2>1. log \in Seq(Items) /\ Len(log) \in Nat /\ 3 \in 1..Len(log)
    BY <1>4 DEF SecondRefused, TypeInv, ControllerType
  <2>2. log'[3] = log[3] /\ Len(log') > 2
    BY <1>3, <2>1
  <2> QED BY <1>3, <1>4, <2>2 DEF SecondRefused
<1> QED BY <1>3, <1>4

\* The call that is made.
LEMMA CallTypes ==
    ASSUME TypeInv
    PROVE  /\ call \in Call /\ call.dir \in {"send", "recv"} /\ call.stop \in BOOLEAN
           /\ call.len \in Nat \ {0} /\ AddrLen \in {1, 2}
           /\ tx.idx \in Nat /\ tx.len \in Nat /\ rx.idx \in Nat /\ rx.len \in Nat
           /\ Len(log) \in Nat /\ log \in Seq(Items) /\ txak \in BOOLEAN /\ iif \in BOOLEAN
           /\ transaction \in {"send", "recv"}
<1>1. call \in Call /\ tx \in BufType /\ rx \in BufType /\ log \in Seq(Items)
  BY DEF TypeInv, ClientType, DevType, ControllerType
<1> QED BY <1>1, ExpectedItems, I2cAssumption DEF Call, BufType, TypeInv, DevType, ControllerType

\* A call begins.
LEMMA FrameClient ==
    ASSUME TypeInv, BusInv, CalmOK, LengthsOK, LogOK,
           Begin \/ WaitBusIdle \/ WaitBusTimeout \/ Start \/ SetState
    PROVE  LengthsOK' /\ LogOK'
<1>1. CASE Begin \/ WaitBusIdle
  <2>1. pc' \in {"waitidle", "waitagain", "start"} /\ (log' = <<>> \/ log' = log)
        /\ (pc # "idle" \/ log' = <<>>) /\ pc \in {"idle", "waitidle", "waitagain"}
    BY <1>1 DEF Begin, WaitBusIdle, wires
  <2> QED BY <2>1 DEF LengthsOK, LogOK
<1>2. CASE WaitBusTimeout
  <2>1. pc \in {"waitidle", "waitagain"} /\ ~msta /\ result = "none"
    BY <1>2 DEF WaitBusTimeout, CalmOK, BusInv, QuietOK, QuietPcs, Settled, TypeInv, PlaceOK
  <2>2. pc' \in {"idle", "waitagain"} /\ result' # "DONE" /\ UNCHANGED log
    BY <1>2, <2>1 DEF WaitBusTimeout, imx_i2c_reset, SetCtrl, wires
  <2> QED BY <2>1, <2>2 DEF LengthsOK, LogOK
<1>3. CASE Start
  <2>1. pc = "start" /\ Settled /\ ~iif /\ log = <<>> /\ bus_state \in Rest
    BY <1>3 DEF Start, BusInv, QuietOK, QuietPcs, CalmOK, NoByte, LogOK, TypeInv, PlaceOK
  <2>2. /\ pc' = "addrsent" /\ transaction' = call.dir /\ ~iif' /\ UNCHANGED <<call, bus_state>>
        /\ shift' = AddrItem
        /\ log' = Append(<<>>, StartMark) \/ log' = Append(<<>>, RestartMark)
    BY <1>3, <2>1 DEF Start, Settled, status, AddrItem, Rest
  <2>3. /\ call.dir = "send" => tx' = [len |-> call.len, idx |-> 0]
        /\ call.dir = "recv" => rx' = [len |-> call.len, idx |-> 0]
    BY <1>3 DEF Start
  <2>4. LengthsOK'
    <3>1. /\ call.dir = "send" => tx'.len = call.len /\ tx'.idx = 0
          /\ call.dir = "recv" => rx'.len = call.len /\ rx'.idx = 0
      BY <2>3
    <3> QED BY <2>1, <2>2, <3>1 DEF LengthsOK, AddrStates, Rest
  <2>5. Len(log') = 1 /\ log'[1] \in {StartMark, RestartMark}
    BY <2>2
  <2>6. OnBus(0)'
    BY <2>5 DEF OnBus
  <2>7. Expected'[1] = AddrItem
    BY <2>2, CallTypes, ExpectedItems DEF Expected
  <2>8. Sending(1)'
    BY <2>2, <2>6, <2>7 DEF Sending
  <2> QED BY <2>2, <2>4, <2>8 DEF LogOK
<1>4. CASE SetState
  <2>1. /\ pc = "addrsent" /\ pc' = "wait" /\ transaction_status' # "COMPLETE"
        /\ UNCHANGED <<shift, iif, ial, rxak, log, tx, rx, transaction, call>>
        /\ bus_state' = IF call.slave \in TenBit THEN "TX_ADDR_10BIT_MSB" ELSE "TX_ADDR_7BIT"
    BY <1>4 DEF SetState, wires, status, TypeInv, PlaceOK
  <2>2. Sending(1)'
    BY <2>1 DEF LogOK, Sending, OnBus, Expected
  <2>3. LengthsOK'
    BY <2>1 DEF LengthsOK, AddrStates
  <2> QED BY <2>1, <2>2, <2>3 DEF LogOK, StageOK
<1> QED BY <1>1, <1>2, <1>3, <1>4

\* A call ends.
LEMMA FrameOutcome ==
    ASSUME TypeInv, CalmOK, LengthsOK, LogOK, Wake \/ RecvStop \/ RecvStopped \/ Failed
    PROVE  LengthsOK' /\ LogOK'
<1>1. CASE Wake
  <2>1. /\ pc = "wait" /\ pc' \in {"idle", "failed"} /\ UNCHANGED <<call, log>>
        /\ pc' = "idle" => transaction_status = "COMPLETE"
    BY <1>1, CalmOutcome
  <2>2. ASSUME pc' = "idle", ~SecondRefused' PROVE OnBus(FrameLen)'
    <3>1. ~SecondRefused /\ transaction_status = "COMPLETE"
      BY <2>1, <2>2 DEF SecondRefused
    <3>2. OnBus(FrameLen)
      BY <2>1, <3>1 DEF LogOK
    <3> QED BY <2>1, <3>2 DEF OnBus, Expected, FrameLen, AddrLen
  <2> QED BY <2>1, <2>2 DEF LengthsOK, LogOK
<1>2. CASE RecvStop \/ RecvStopped \/ Failed
  <2>1. pc' = "idle" /\ result' # "DONE"
    BY <1>2, CalmRecovery
  <2> QED BY <2>1 DEF LengthsOK, LogOK
<1> QED BY <1>1, <1>2

\* A byte is transferred, or the bus is lost.
LEMMA FrameHardware ==
    ASSUME TypeInv, BusInv, CalmOK, LengthsOK, LogOK, [Next]_vars,
           ByteDone \/ ArbitrationLost \/ CutDone \/ BusChange \/ UNCHANGED vars
    PROVE  LengthsOK' /\ LogOK'
<1>1. UNCHANGED <<pc, call, result, bus_state, transaction_status, transaction, tx, rx, txak>>
  BY DEF ByteDone, ArbitrationLost, CutDone, BusChange, vars, client, dev, ctrl
<1>2. LengthsOK' /\ UNCHANGED <<Expected, AddrLen, FrameLen>>
  BY <1>1 DEF LengthsOK, Expected, AddrLen, FrameLen
<1>3. CASE UNCHANGED <<shift, iif, ial, rxak, log>>
  <2>1. UNCHANGED <<SecondRefused>>
    BY <1>1, <1>3 DEF SecondRefused
  <2>2. \A n : (OnBus(n) => OnBus(n)') /\ (Sending(n) => Sending(n)') /\ (Receiving(n) => Receiving(n)')
    BY <1>1, <1>2, <1>3 DEF OnBus, Sending, Receiving
  <2>3. StageOK => StageOK'
    BY <1>1, <1>2, <2>2 DEF StageOK
  <2> QED BY <1>1, <1>2, <1>3, <2>1, <2>2, <2>3 DEF LogOK
<1>4. CASE CutDone
  <2>1. Kind = "cut" /\ ~iif /\ pc \in QuietPcs \cup {"addrsent", "wait", "failed"}
    BY <1>4 DEF CutDone, Kind, TypeInv, ClientType, QuietPcs, CalmOK
  <2> QED BY <2>1, Kinds DEF CalmOK, OneByte, NoByte
<1>5. CASE ArbitrationLost
  <2>1. Kind \in Outgoing /\ ~iif /\ iif' /\ ial' /\ UNCHANGED log
    BY <1>5 DEF ArbitrationLost, Kind, Outgoing
  <2>2. pc \in {"addrsent", "wait"} /\ (pc = "wait" => transaction_status = "IN_PROGRESS")
    BY <2>1, Kinds DEF CalmOK, NoByte, TypeInv, ClientType, QuietPcs, Outgoing
  <2>3. \A n : Sending(n)'
    BY <2>1 DEF Sending
  <2>4. UNCHANGED <<SecondRefused>>
    BY <1>1, <2>1 DEF SecondRefused
  <2>5. CASE pc = "addrsent"
    BY <1>1, <1>2, <2>3, <2>5 DEF LogOK
  <2>6. CASE pc = "wait"
    <3>1. ~SecondRefused => bus_state # "RX_DATA"
      BY <2>1, <2>2, <2>6, Kinds DEF LogOK, StageOK, Receiving, Outgoing, Kind
    <3> QED BY <1>1, <1>2, <2>2, <2>3, <2>4, <2>6, <3>1 DEF LogOK, StageOK
  <2> QED BY <2>2, <2>5, <2>6
<1>6. CASE ByteDone
  <2>1. Kind \notin {"none", "cut"} /\ ~iif /\ iif' /\ UNCHANGED ial
    BY <1>6, Kinds DEF ByteDone, Kind
  <2>2. pc \in {"addrsent", "wait"} /\ (pc = "wait" => transaction_status = "IN_PROGRESS")
    BY <2>1, Kinds DEF CalmOK, NoByte, TypeInv, ClientType, QuietPcs
  <2>3. SecondRefused => SecondRefused'
    BY <2>2, LogGrows
  <2>4. ASSUME NEW n \in Nat \ {0}, Sending(n), Expected[n][1] # "R" PROVE Sending(n)'
    <3>1. shift = Expected[n] /\ OnBus(n - 1)
      BY <2>1, <2>4 DEF Sending
    <3>2. PICK nack \in BOOLEAN : /\ rxak' = nack
                                  /\ log' = Append(log, IF nack THEN <<"N", 0>> ELSE shift)
      BY <1>6, <2>4, <3>1 DEF ByteDone
    <3>3. CASE nack
      <4>1. Len(log) = n /\ log' = Append(log, <<"N", 0>>) /\ rxak' /\ log \in Seq(Items)
        BY <3>1, <3>2, <3>3, CallTypes DEF OnBus
      <4>2. Len(log') = n + 1 /\ log'[n + 1] = <<"N", 0>>
        BY <4>1
      <4> QED BY <2>1, <4>1, <4>2 DEF Sending
    <3>4. CASE ~nack
      <4>1. log' = Append(log, Expected[(n - 1) + 1]) /\ ~rxak' /\ n - 1 \in Nat
        BY <3>1, <3>2, <3>4
      <4>2. OnBus((n - 1) + 1)'
        BY <1>1, <3>1, <4>1, OnBusNext
      <4>3. OnBus(n)'
        BY <4>2
      <4> QED BY <2>1, <4>1, <4>3 DEF Sending
    <3> QED BY <3>3, <3>4
  <2>5. /\ Expected[1][1] # "R" /\ (AddrLen = 2 => Expected[2][1] # "R")
        /\ (transaction = "send" => \A i \in 1..call.len : Expected[AddrLen + i][1] # "R")
        /\ (transaction = "recv" => \A i \in 1..call.len : Expected[AddrLen + i] =
                <<"R", IF i = call.len THEN "nack" ELSE "ack">>)
    <3>1. transaction = call.dir
      BY <2>2 DEF CalmOK, BusInv, CallOK, InCall, Waiting
    <3> QED BY <3>1, CallTypes, ExpectedItems, Kinds DEF AddrItem, Datum
  <2>6. CASE pc = "addrsent"
    BY <1>1, <1>2, <2>4, <2>5, <2>6 DEF LogOK
  <2>7. CASE pc = "wait" /\ SecondRefused
    BY <1>1, <1>2, <2>3, <2>7 DEF LogOK
  <2>8. CASE pc = "wait" /\ ~SecondRefused
    <3>1. StageOK
      BY <2>2, <2>8 DEF LogOK
    <3>2. bus_state \in {"TX_ADDR_7BIT", "TX_ADDR_10BIT_MSB"} => Sending(1)'
      BY <2>4, <2>5, <3>1 DEF StageOK
    <3>3. bus_state = "TX_ADDR_10BIT_LSB" => Sending(2)'
      <4>1. bus_state = "TX_ADDR_10BIT_LSB" => AddrLen = 2
        BY <2>8 DEF LengthsOK, AddrLen
      <4> QED BY <2>4, <2>5, <3>1, <4>1 DEF StageOK
    <3>4. ASSUME bus_state = "TX_DATA" PROVE Sending(AddrLen + tx.idx)'
      <4>1. transaction = "send" /\ tx.idx \in 1..call.len
        BY <2>8, <3>4, CallTypes DEF LengthsOK, TypeInv, BufOK
      <4>2. AddrLen + tx.idx \in Nat \ {0}
        BY CallTypes, <4>1
      <4>3. Sending(AddrLen + tx.idx) /\ Expected[AddrLen + tx.idx][1] # "R"
        BY <2>5, <3>1, <3>4, <4>1 DEF StageOK
      <4>4. \A n \in Nat \ {0} : Sending(n) /\ Expected[n][1] # "R" => Sending(n)'
        BY <2>4
      <4>5. UNCHANGED <<AddrLen, tx>>
        BY <1>1, <1>2
      <4> HIDE DEF AddrLen
      <4> QED BY <4>2, <4>3, <4>4, <4>5 DEF Sending
    <3>5. ASSUME bus_state = "RX_DATA" PROVE Receiving(AddrLen + rx.idx + 1)'
      <4> DEFINE n == AddrLen + rx.idx
      <4>1. transaction = "recv" /\ rx.len = call.len /\ rx.idx + 1 \in 1..call.len
            /\ n \in Nat /\ n + 1 = AddrLen + (rx.idx + 1)
        BY <2>8, <3>5, CallTypes DEF LengthsOK, TypeInv, BufOK
      <4>2. /\ shift = <<"R", 0>> /\ OnBus((n + 1) - 1) /\ ~ial
            /\ (rx.idx = rx.len - 1 => txak) /\ (rx.idx # rx.len - 1 => ~txak)
        BY <2>1, <3>1, <3>5 DEF StageOK, Receiving
      <4>3. OnBus(n)
        BY <4>1, <4>2
      <4>4. txak <=> rx.idx + 1 = call.len
        BY <4>1, <4>2, CallTypes
      <4>5. log' = Append(log, <<"R", IF txak THEN "nack" ELSE "ack">>)
        BY <1>6, <4>2, Kinds DEF ByteDone
      <4>6. Expected[AddrLen + (rx.idx + 1)] = <<"R", IF rx.idx + 1 = call.len THEN "nack" ELSE "ack">>
        BY <2>5, <4>1
      <4>7. log' = Append(log, Expected[n + 1])
        BY <4>1, <4>4, <4>5, <4>6
      <4>8. n' = n
        BY <1>1, <1>2
      <4> HIDE DEF n
      <4>9. PICK k \in Nat : k = n
        BY <4>1
      <4>10. OnBus(k + 1)'
        BY <1>1, <4>3, <4>7, <4>9, OnBusNext
      <4> QED BY <1>1, <2>1, <4>2, <4>8, <4>9, <4>10 DEF Receiving, n
    <3> QED BY <1>1, <1>2, <2>2, <2>8, <3>2, <3>3, <3>4, <3>5 DEF LogOK, StageOK
  <2> QED BY <2>2, <2>6, <2>7, <2>8
<1>7. CASE BusChange \/ UNCHANGED vars
  <2>1. UNCHANGED <<shift, iif, ial, rxak, log>>
    BY <1>7 DEF BusChange, vars, status
  <2> QED BY <1>3, <2>1
<1> QED BY <1>4, <1>5, <1>6, <1>7

\* The transaction ends, with a stop or without.
LEMMA OnBusEnd ==
    ASSUME TypeInv, OnBus(AddrLen + call.len), UNCHANGED call,
           call.stop => log' = Append(log, StopMark), ~call.stop => log' = log
    PROVE  OnBus(FrameLen)'
<1>1. AddrLen + call.len \in Nat /\ UNCHANGED FrameLen /\ FrameLen \in Nat
  BY CallTypes, ExpectedItems DEF FrameLen, AddrLen
<1>2. PICK k \in Nat : k = AddrLen + call.len
  BY <1>1
<1>3. CASE call.stop
  <2>1. FrameLen = k + 1 /\ FrameLen' = k + 1
    BY <1>1, <1>2, <1>3, CallTypes DEF FrameLen
  <2>2. log' = Append(log, Expected[k + 1])
    BY <1>3, <2>1, CallTypes, ExpectedItems
  <2>3. OnBus(k + 1)'
    BY <1>2, <2>2, OnBusNext
  <2> QED BY <2>1, <2>3 DEF OnBus
<1>4. CASE ~call.stop
  <2>1. FrameLen = k /\ FrameLen' = k
    BY <1>1, <1>2, <1>4, CallTypes DEF FrameLen
  <2>2. OnBus(k)'
    BY <1>2, <1>4, OnBusSame
  <2> QED BY <2>1, <2>2 DEF OnBus
<1> QED BY <1>3, <1>4

\* The interrupt handler.
LEMMA FrameIntr ==
    ASSUME TypeInv, BusInv, CalmOK, LengthsOK, LogOK, Intr, ~disturbed'
    PROVE  LengthsOK' /\ LogOK'
<1>1. /\ pc = "wait" /\ pc' = "wait" /\ transaction_status = "IN_PROGRESS" /\ shift = None
      /\ bus_state \notin Rest /\ (ial \/ msta) /\ iif /\ ~iif' /\ ~ial'
      /\ UNCHANGED call
  BY CalmAwaited DEF Intr
<1>2. /\ transaction = call.dir /\ stop_req = call.stop /\ (SecondRefused => SecondRefused')
      /\ UNCHANGED <<Expected, AddrLen, FrameLen>>
  BY <1>1, LogGrows DEF Next, CalmOK, BusInv, CallOK, InCall, Waiting, Expected, AddrLen,
     FrameLen
<1>3. ~SecondRefused => StageOK
  BY <1>1 DEF LogOK
<1>4. ASSUME LengthsOK', transaction_status' = "IN_PROGRESS", ~SecondRefused => StageOK'
      PROVE  LengthsOK' /\ LogOK'
  BY <1>1, <1>2, <1>4 DEF LogOK
<1>5. ASSUME LengthsOK', transaction_status' = "COMPLETE", ~SecondRefused => OnBus(FrameLen)'
      PROVE  LengthsOK' /\ LogOK'
  BY <1>1, <1>2, <1>5 DEF LogOK
<1>6. ASSUME ~SecondRefused, ~ial, bus_state \in {"TX_ADDR_7BIT", "TX_ADDR_10BIT_LSB"}, ~Nacked
      PROVE  OnBus(AddrLen)
  <2>1. CASE bus_state = "TX_ADDR_7BIT"
    <3>1. ~rxak /\ AddrLen = 1 /\ Sending(1)
      BY <1>1, <1>3, <1>6, <2>1 DEF Nacked, AckedStates, LengthsOK, AddrLen, StageOK
    <3> QED BY <1>1, <1>6, <3>1 DEF Sending
  <2>2. CASE bus_state = "TX_ADDR_10BIT_LSB"
    <3>1. AddrLen = 2 /\ call.slave \in TenBit /\ Sending(2)
      BY <1>1, <1>3, <1>6, <2>2 DEF LengthsOK, AddrLen, StageOK
    <3>2. ~rxak
      BY <1>1, <1>6, <3>1 DEF Sending, SecondRefused
    <3> QED BY <1>1, <1>6, <3>1, <3>2 DEF Sending
  <2> QED BY <1>6, <2>1, <2>2
<1>7. CASE IntrArbitrationLost \/ IntrNack
  <2>1. PICK e : Fail(e)
    BY <1>7 DEF IntrArbitrationLost, IntrNack
  <2>2. transaction_status' = "FAILED" /\ UNCHANGED <<bus_state, transaction, tx, rx>>
    BY <2>1 DEF Fail
  <2> QED BY <1>1, <2>2 DEF LengthsOK, LogOK
<1>8. CASE IntrSecondAddress
  <2>1. /\ bus_state = "TX_ADDR_10BIT_MSB" /\ bus_state' = "TX_ADDR_10BIT_LSB" /\ ~ial /\ ~rxak
        /\ UNCHANGED <<transaction_status, transaction, tx, rx, log>> /\ msta /\ mtx
        /\ shift' = <<"L", call.slave>>
    BY <1>1, <1>8, CalmAwaited DEF IntrSecondAddress, Nacked, AckedStates, Send
  <2>2. LengthsOK' /\ AddrLen = 2
    BY <1>1, <2>1 DEF LengthsOK, AddrStates, AddrLen
  <2>3. ASSUME ~SecondRefused PROVE Sending(2)'
    <3>1. OnBus(1)
      BY <1>1, <1>3, <2>1, <2>3 DEF StageOK, Sending
    <3>2. OnBus(1)' /\ shift' = Expected'[2]
      BY <1>1, <1>2, <2>1, <2>2, <3>1, OnBusSame, ExpectedItems, CallTypes
    <3> QED BY <1>1, <3>2 DEF Sending
  <2> QED BY <1>1, <1>4, <2>1, <2>2, <2>3 DEF StageOK
<1>9. CASE IntrReceive
  <2>1. /\ bus_state \in {"TX_ADDR_7BIT", "TX_ADDR_10BIT_LSB"} /\ bus_state' = "RX_DATA" /\ ~ial
        /\ ~Nacked /\ transaction = "recv" /\ txak' = (rx.len = 1) /\ shift' = <<"R", 0>>
        /\ UNCHANGED <<transaction_status, transaction, tx, rx, log>>
    BY <1>9 DEF IntrReceive, Addressed
  <2>2. LengthsOK' /\ rx.idx = 0
    BY <1>1, <2>1 DEF LengthsOK, AddrStates
  <2>3. ASSUME ~SecondRefused PROVE Receiving(AddrLen + rx.idx + 1)'
    <3>1. OnBus(AddrLen)'
      BY <1>1, <1>2, <1>6, <2>1, <2>3 DEF OnBus
    <3>2. (AddrLen + rx.idx + 1)' - 1 = AddrLen'
      BY <1>2, <2>1, <2>2, CallTypes
    <3>3. (rx.len = 1 => txak') /\ (rx.len # 1 => ~txak')
      BY <2>1
    <3>4. (rx.idx = rx.len - 1 => txak)' /\ (rx.idx # rx.len - 1 => ~txak)'
      BY <2>1, <2>2, <3>3, CallTypes
    <3> QED BY <1>1, <2>1, <3>1, <3>2, <3>4 DEF Receiving
  <2> QED BY <1>4, <1>1, <2>1, <2>2, <2>3 DEF StageOK
<1>10. CASE IntrTransmit
  <2>1. /\ ~ial /\ ~Nacked /\ msta /\ transaction = "send"
        /\ bus_state = "TX_DATA" \/ bus_state \in {"TX_ADDR_7BIT", "TX_ADDR_10BIT_LSB"}
        /\ UNCHANGED <<transaction, rx>>
    BY <1>1, <1>10 DEF IntrTransmit, Addressed, LengthsOK
  <2>2. tx.len = call.len /\ (bus_state # "TX_DATA" => tx.idx = 0)
    BY <1>1, <2>1 DEF LengthsOK, AddrStates
  <2>3. ASSUME ~SecondRefused PROVE OnBus(AddrLen + tx.idx)
    <3>1. CASE bus_state = "TX_DATA"
      BY <1>1, <1>3, <2>1, <2>3, <3>1 DEF Nacked, AckedStates, StageOK, Sending
    <3>2. CASE bus_state # "TX_DATA"
      <4>1. AddrLen + tx.idx = AddrLen
        BY <2>2, <3>2, CallTypes
      <4> QED BY <1>6, <2>1, <2>3, <3>2, <4>1
    <3> QED BY <3>1, <3>2
  <2>4. CASE MoreToSend
    <3>1. /\ tx.idx < tx.len /\ tx' = [tx EXCEPT !.idx = @ + 1] /\ bus_state' = "TX_DATA"
          /\ shift' = <<"W", tx.idx>> /\ UNCHANGED <<transaction_status, log>>
      BY <1>10, <2>1, <2>4, CalmAwaited DEF IntrTransmit, MoreToSend, Send
    <3>2. tx'.idx = tx.idx + 1 /\ tx'.len = tx.len
      BY <3>1 DEF TypeInv, DevType, BufType
    <3>3. LengthsOK'
      BY <1>1, <2>1, <2>2, <3>1, <3>2, CallTypes DEF LengthsOK, AddrStates
    <3>4. ASSUME ~SecondRefused PROVE Sending(AddrLen + tx.idx)'
      <4>1. (AddrLen + tx.idx)' - 1 = AddrLen + tx.idx
            /\ (AddrLen + tx.idx)' = AddrLen + (tx.idx + 1)
        BY <1>2, <3>2, CallTypes
      <4>2. \A n : OnBus(n) => OnBus(n)'
        BY <1>1, <3>1, OnBusSame
      <4>3. tx.idx + 1 \in 1..call.len /\ (tx.idx + 1) - 1 = tx.idx
        BY <2>2, <3>1, CallTypes
      <4>4. Expected[AddrLen + (tx.idx + 1)] = <<"W", tx.idx>>
        BY <1>2, <2>1, <4>3, CallTypes, ExpectedItems DEF Datum
      <4>5. PICK k : k = AddrLen + tx.idx
        OBVIOUS
      <4>6. OnBus(k)'
        BY <2>3, <3>4, <4>2, <4>5
      <4> QED BY <1>1, <1>2, <3>1, <4>1, <4>4, <4>5, <4>6 DEF Sending
    <3> QED BY <1>1, <1>4, <3>1, <3>3, <3>4 DEF StageOK
  <2>5. CASE ~MoreToSend
    <3>1. bus_state = "TX_DATA" /\ tx.idx = tx.len
      BY <1>1, <2>1, <2>5, CallTypes DEF TypeInv, BufOK, MoreToSend, AddrStates
    <3>2. /\ transaction_status' = "COMPLETE" /\ bus_state' \in Rest /\ UNCHANGED tx
          /\ call.stop => log' = Append(log, StopMark)
          /\ ~call.stop => log' = log
      BY <1>2, <1>10, <2>1, <2>5 DEF IntrTransmit, Complete, Rest, SetCtrl, wires
    <3>3. LengthsOK'
      BY <1>1, <2>1, <2>2, <3>2 DEF LengthsOK, AddrStates, Rest
    <3>4. ASSUME ~SecondRefused PROVE OnBus(FrameLen)'
      <4>1. OnBus(AddrLen + call.len)
        BY <2>2, <2>3, <3>1, <3>4
      <4> QED BY <1>1, <3>2, <4>1, OnBusEnd
    <3> QED BY <1>5, <3>2, <3>3, <3>4
  <2> QED BY <2>4, <2>5
<1>11. CASE IntrByte
  <2>1. /\ bus_state = "RX_DATA" /\ rx' = [rx EXCEPT !.idx = @ + 1] /\ msta /\ ~mtx
        /\ UNCHANGED <<transaction, tx>>
    BY <1>1, <1>11, CalmAwaited DEF IntrByte
  <2>2. /\ rx'.idx = rx.idx + 1 /\ rx'.len = rx.len /\ transaction = "recv"
        /\ rx.idx < rx.len /\ rx.len = call.len
    BY <1>1, <2>1 DEF TypeInv, DevType, BufType, BufOK, LengthsOK
  <2>3. ASSUME ~SecondRefused
        PROVE  /\ OnBus(AddrLen + rx.idx + 1)
               /\ (rx.idx = rx.len - 1 => txak) /\ (rx.idx # rx.len - 1 => ~txak)
    BY <1>1, <1>3, <2>1, <2>3 DEF StageOK, Receiving
  <2>4. CASE LastByte
    <3>1. /\ transaction_status' = "COMPLETE" /\ bus_state' \in Rest
          /\ call.stop => log' = Append(log, StopMark)
          /\ ~call.stop => log' = log
      BY <1>2, <1>11, <2>1, <2>4 DEF IntrByte, Complete, Rest, SetCtrl, wires
    <3>2. LengthsOK'
      BY <1>1, <2>1, <2>2, <3>1 DEF LengthsOK, AddrStates, Rest
    <3>3. ASSUME ~SecondRefused PROVE OnBus(FrameLen)'
      <4>1. AddrLen + rx.idx + 1 = AddrLen + call.len
        BY <2>2, <2>4, CallTypes DEF LastByte
      <4>2. OnBus(AddrLen + call.len)
        BY <2>3, <3>3, <4>1
      <4> QED BY <1>1, <3>1, <4>2, OnBusEnd
    <3> QED BY <1>5, <3>1, <3>2, <3>3
  <2>5. CASE ~LastByte
    <3>1. /\ UNCHANGED <<bus_state, transaction_status, log>>
          /\ PrepareNack => msta' /\ ~mtx' /\ txak'
          /\ ~PrepareNack => UNCHANGED <<msta, mtx, txak>>
      BY <1>11, <2>5 DEF IntrByte, ctrl
    <3>2. msta' /\ ~mtx'
      <4>1. CASE PrepareNack
        BY <3>1, <4>1
      <4>2. CASE ~PrepareNack
        BY <2>1, <3>1, <4>2
      <4> QED BY <4>1, <4>2
    <3>3. shift' = <<"R", 0>>
      BY <1>11, <2>5, <3>2 DEF IntrByte
    <3>4. LengthsOK'
      BY <1>1, <2>1, <2>2, <3>1 DEF LengthsOK, AddrStates
    <3>5. ASSUME ~SecondRefused PROVE Receiving(AddrLen + rx.idx + 1)'
      <4>1. (AddrLen + rx.idx + 1)' - 1 = AddrLen + rx.idx + 1
        BY <1>2, <2>2, CallTypes
      <4>2. \A n : OnBus(n) => OnBus(n)'
        BY <1>1, <3>1, OnBusSame
      <4>3. PICK k : k = AddrLen + rx.idx + 1
        OBVIOUS
      <4>4. OnBus(k)'
        BY <2>3, <3>5, <4>2, <4>3
      <4>5. /\ rx'.idx = rx'.len - 1 => txak'
            /\ rx'.idx # rx'.len - 1 => ~txak'
        BY <2>2, <2>3, <2>5, <3>1, <3>5, CallTypes DEF PrepareNack, LastByte
      <4> QED BY <1>1, <3>3, <4>1, <4>3, <4>4, <4>5 DEF Receiving
    <3> QED BY <1>1, <1>4, <2>1, <3>1, <3>4, <3>5 DEF StageOK
  <2> QED BY <2>4, <2>5
<1>12. CASE IntrUnexpected
  BY <1>1, <1>12 DEF IntrUnexpected, Rest
<1> QED BY <1>7, <1>8, <1>9, <1>10, <1>11, <1>12 DEF Intr

\* Every step keeps what is on the bus.
LEMMA NextFrameInv ==
    TypeInv /\ BusInv /\ CalmInv /\ FrameInv /\ [Next]_vars => FrameInv'
<1> SUFFICES ASSUME TypeInv, BusInv, CalmInv, FrameInv, [Next]_vars, ~disturbed'
             PROVE  LengthsOK' /\ LogOK'
  BY DEF FrameInv
<1>1. CalmOK /\ LengthsOK /\ LogOK
  BY StillCalm DEF FrameInv
<1>2. CASE TimerExpires
  BY <1>2 DEF TimerExpires
<1> QED BY <1>1, <1>2, FrameClient, FrameOutcome, FrameIntr, FrameHardware DEF Next

\* What the driver has put on the bus, at every stage of every call.
THEOREM I2cFrameInvariant == Spec => [](TypeInv /\ BusInv /\ CalmInv /\ FrameInv)
<1>1. Init => CalmInv /\ FrameInv
  BY DEF Init, CalmInv, CalmOK, NoByte, FrameInv, LengthsOK, LogOK
<1>2. Init => TypeInv /\ BusInv /\ CalmInv /\ FrameInv
  BY <1>1, InitTypeInv, InitBusInv
<1>3. TypeInv /\ BusInv /\ CalmInv /\ FrameInv /\ [Next]_vars
        => (TypeInv /\ BusInv /\ CalmInv /\ FrameInv)'
  BY NextTypeInv, NextBusInv, NextCalmInv, NextFrameInv
<1> QED BY <1>2, <1>3, PTL DEF Spec

\* A call that returns I2C_STATUS_DONE has put exactly its own transaction on
\* the bus, for every slave, length and sequence of calls in which no timer has
\* expired and no interrupt has come before bus_state was set, unless the slave
\* refused the second byte of its address (imx_i2c_intr does not look for that).
THEOREM I2cFrameRight == Spec => []FrameRight
<1>1. TypeInv /\ FrameInv => FrameRight
  <2> SUFFICES ASSUME TypeInv, FrameInv, pc = "idle", result = "DONE", ~disturbed, ~SecondRefused
               PROVE  /\ Len(log) > 0 /\ log[1] \in {StartMark, RestartMark}
                      /\ Tail(log) = Expected
    BY DEF FrameRight
  <2>1. OnBus(FrameLen)
    BY DEF FrameInv, LogOK
  <2>2. Expected \in Seq(Items) /\ Len(Expected) = FrameLen /\ FrameLen \in Nat /\ log \in Seq(Items)
    BY CallTypes, ExpectedItems
  <2>3. /\ Len(log) = FrameLen + 1 /\ log[1] \in {StartMark, RestartMark}
        /\ \A k \in 1..FrameLen : log[k + 1] = Expected[k]
    BY <2>1 DEF OnBus
  <2> HIDE DEF Expected
  <2>4. /\ Tail(log) \in Seq(Items) /\ Len(Tail(log)) = FrameLen
        /\ \A k \in 1..FrameLen : Tail(log)[k] = log[k + 1]
    BY <2>2, <2>3
  <2>5. \A k \in 1..FrameLen : Tail(log)[k] = Expected[k]
    BY <2>3, <2>4
  <2>6. Tail(log) = Expected
    BY <2>2, <2>4, <2>5, SeqEqual
  <2> QED BY <2>2, <2>3, <2>6
<1> QED BY <1>1, I2cFrameInvariant, PTL

=============================================================================
