------------------------------- MODULE MxEcspi ------------------------------
(***************************************************************************)
(* A transfer of the ECSPI driver: mx51_xfer, on the thread of the         *)
(* resource manager, fills the transmit FIFO and waits; the interrupt      *)
(* handler spi_intr empties the receive FIFO into the same buffer, refills *)
(* the transmit FIFO, and sends a pulse at the end of the burst.  The      *)
(* controller shifts words meanwhile, between any two of its accesses.     *)
(*                                                                         *)
(* A word is the sequence of its bytes.  The client's byte number i is i,  *)
(* and the slave answers byte v by Reply(v).                               *)
(***************************************************************************)
EXTENDS Integers, Sequences

CONSTANTS FIFO_SIZE,   \* MX51_CSPI_FIFO_SIZE, words
          RXMARK,      \* MX51_CSPI_FIFO_RXMARK, words
          BURST_MAX,   \* MX51_CSPI_BURST_MAX, bytes
          Lengths,     \* lengths of transfers
          DLens,       \* bytes of a data word: the device's configuration
          LateLengths, \* bound on those that time out, and those after them
          MaxXfers,    \* bound on the transfers
          MaxLate      \* bound on the time-outs

ASSUME EcspiAssumption ==
    /\ {FIFO_SIZE, RXMARK, BURST_MAX} \subseteq Nat \ {0}
    /\ 2 * RXMARK <= FIFO_SIZE /\ BURST_MAX % 4 = 0
    /\ Lengths \subseteq Nat \ {0} /\ \E n \in Lengths : \A m \in Lengths : m <= n
    /\ LateLengths \subseteq Lengths /\ DLens \subseteq 1..4
    /\ {MaxXfers, MaxLate} \subseteq Nat

VARIABLES burst,                      \* dev->burst
          xlen, tlen, rlen,           \* of the transfer, in bytes
          bxlen, btlen, brlen,        \* of the burst
          dlen, lsb_adjust,
          pbuf,                       \* the buffer
          pc, xfers, result,          \* of mx51_xfer
          ipc, istat, count,          \* of spi_intr
          tx, rx,                     \* the FIFOs
          xch, tc, inten,             \* XCH, TC and INTREG
          pulses,                     \* in the driver's channel
          wire,                       \* the bytes sent, in this transfer
          late,                       \* transfers that timed out
          refilled,                   \* spi_intr has had words to send
          staleTC                     \* a burst has begun with TC still set

lens  == <<xlen, tlen, rlen, bxlen, btlen, brlen, dlen, lsb_adjust, pbuf>>
thr   == <<pc, xfers, result>>
intr  == <<ipc, istat, count>>
ctl   == <<tx, rx, xch, tc, inten>>
ghost == <<wire, late, refilled, staleTC>>
vars  == <<burst, lens, thr, intr, ctl, pulses, ghost>>

Reply(v) == 1000 + v
Old == 500              \* a byte left over from an earlier transfer
Nothing == 900          \* what an empty FIFO reads as

MaxLen == CHOOSE n \in Lengths : \A m \in Lengths : m <= n

\* The longest buffer, and the bytes after it that a last word may reach.
Room == MaxLen + 3

Least(a, b) == IF a < b THEN a ELSE b

\* What finds a FIFO full is lost.
Fit(ws) == SubSeq(ws, 1, Least(Len(ws), FIFO_SIZE))

\* The n bytes of the buffer from position i on; and the buffer with word w
\* stored there.
Bytes(i, n) == [k \in 1..n |-> IF i + k - 1 \in DOMAIN pbuf THEN pbuf[i + k - 1]
                               ELSE Nothing]
Store(b, i, w) == [j \in DOMAIN b |-> IF j \in i..i + Len(w) - 1 THEN w[j - i + 1]
                                      ELSE b[j]]

Init ==
    /\ burst \in BOOLEAN
    /\ xlen = 0 /\ tlen = 0 /\ rlen = 0 /\ bxlen = 0 /\ btlen = 0 /\ brlen = 0
    /\ dlen = 1 /\ lsb_adjust = 0 /\ pbuf = [i \in 0..Room - 1 |-> i]
    /\ pc = "idle" /\ xfers = 0 /\ result = 0
    /\ ipc = "idle" /\ istat = "none" /\ count = 0
    /\ tx = <<>> /\ rx = <<>> /\ xch = FALSE /\ tc = FALSE /\ inten = FALSE
    /\ pulses = 0 /\ wire = <<>> /\ late = 0
    /\ refilled = FALSE /\ staleTC = FALSE

-----------------------------------------------------------------------------
(* The thread: mx51_xfer. *)

\* What a data word takes of the buffer when each is a burst of its own.
Unit == IF dlen < 3 THEN dlen ELSE 4

\* A device that does not exist is refused before anything is set.
BeginUnknown ==
    /\ pc = "idle" /\ xfers < MaxXfers
    /\ xfers' = xfers + 1 /\ result' = -1
    /\ UNCHANGED <<burst, lens, pc, intr, ctl, pulses, ghost>>

\* The client has a buffer of its own for every transfer.
Begin ==
    /\ pc = "idle" /\ xfers < MaxXfers
    /\ xfers' = xfers + 1
    /\ \E n \in (IF late = 0 THEN Lengths ELSE LateLengths), w \in DLens :
         /\ xlen' = n /\ dlen' = w
         /\ IF n < w
              THEN result' = -1 /\ UNCHANGED <<pc, inten, rx>>
              ELSE inten' = FALSE /\ rx' = <<>> /\ pc' = "burst" /\ UNCHANGED result
    /\ tlen' = 0 /\ rlen' = 0 /\ bxlen' = 0 /\ lsb_adjust' = 0
    /\ pbuf' = [i \in 0..Room - 1 |-> i] /\ wire' = <<>>
    /\ tx' = [k \in DOMAIN tx |-> [j \in DOMAIN tx[k] |-> Old]]
    /\ UNCHANGED <<burst, btlen, brlen, intr, xch, tc, pulses, late, refilled,
                   staleTC>>

More == rlen < xlen /\ tlen < xlen

\* The bytes of the first word of a burst that is not a number of words long.
Odd == IF xlen - tlen >= BURST_MAX THEN 0 ELSE (xlen - tlen) % 4

\* Such a burst needs data words of one byte, or of half that word; and only
\* 8, 16 and 32 bits are supported.
Unsupported ==
    \/ Odd # 0 /\ dlen # 1 /\ ~(Odd = 2 /\ dlen = 2)
    \/ Odd = 0 /\ dlen = 3

\* Words written to the transmit FIFO.
Send(ws) == tx' = Fit(tx \o ws)

Words(i, first, n) ==
    (IF first = 0 THEN <<>> ELSE <<Bytes(i, first)>>)
      \o [k \in 1..n |-> Bytes(i + first + 4 * (k - 1), 4)]

\* One burst of up to BURST_MAX bytes, as much of it as the FIFO takes.
FillBurst ==
    /\ pc = "burst" /\ More /\ burst /\ ~Unsupported
    /\ LET bx == Least(xlen - tlen, BURST_MAX)
           n  == Least((bx - Odd) \div 4, IF Odd = 0 THEN FIFO_SIZE ELSE FIFO_SIZE - 1)
       IN  /\ bxlen' = bx
           /\ Send(Words(tlen, Odd, n))
           /\ btlen' = Odd + 4 * n
           /\ tlen' = tlen + Odd + 4 * n
    /\ lsb_adjust' = Odd
    /\ brlen' = 0
    /\ pc' = "enable"
    /\ UNCHANGED <<burst, xlen, rlen, dlen, pbuf, xfers, result, intr, rx, xch, tc,
                   inten, pulses, ghost>>

FillUnsupported ==
    /\ pc = "burst" /\ More /\ burst /\ Unsupported
    /\ brlen' = 0 /\ btlen' = Odd
    /\ bxlen' = Least(xlen - tlen, BURST_MAX)
    /\ lsb_adjust' = IF Odd = 0 THEN 0 ELSE lsb_adjust
    /\ result' = -1
    /\ inten' = FALSE
    /\ pc' = "idle"
    /\ UNCHANGED <<burst, xlen, tlen, rlen, dlen, pbuf, xfers, intr, tx,
                   rx, xch, tc, pulses, ghost>>

\* One data word to a burst, as many as the FIFO takes.
FillWords ==
    /\ pc = "burst" /\ More /\ ~burst
    /\ LET n == Least((xlen - tlen + Unit - 1) \div Unit, FIFO_SIZE)
       IN  /\ Send([k \in 1..n |-> Bytes(tlen + Unit * (k - 1), Unit)])
           /\ tlen' = tlen + Unit * n
    /\ brlen' = 0 /\ btlen' = 0
    /\ pc' = "enable"
    /\ UNCHANGED <<burst, xlen, rlen, bxlen, dlen, lsb_adjust, pbuf, xfers, result,
                   intr, rx, xch, tc, inten, pulses, ghost>>

Enable ==
    /\ pc = "enable"
    /\ inten' = TRUE
    /\ staleTC' = (staleTC \/ tc)
    /\ pc' = "start"
    /\ UNCHANGED <<burst, lens, xfers, result, intr, tx, rx, xch, tc, pulses, wire,
                   late, refilled>>

\* CSPI_CONTROLREG_XCH; without effect while there is nothing to send.
SetXCH == xch' = (xch \/ tx # <<>>)

Start ==
    /\ pc = "start"
    /\ SetXCH
    /\ pc' = "wait"
    /\ UNCHANGED <<burst, lens, xfers, result, intr, tx, rx, tc, inten, pulses, ghost>>

\* mx51_wait
Wake ==
    /\ pc = "wait" /\ pulses > 0
    /\ pulses' = pulses - 1
    /\ pc' = "burst"
    /\ UNCHANGED <<burst, lens, xfers, result, intr, ctl, ghost>>

\* The loop goes on after a time-out, if there is anything left to send.
TimeOut ==
    /\ pc = "wait" /\ pulses = 0 /\ late < MaxLate /\ xlen \in LateLengths
    /\ late' = late + 1
    /\ rlen' = -1
    /\ pc' = "burst"
    /\ UNCHANGED <<burst, xlen, tlen, bxlen, btlen, brlen, dlen, lsb_adjust, pbuf,
                   xfers, result, intr, ctl, pulses, wire, refilled,
                   staleTC>>

End ==
    /\ pc = "burst" /\ ~More
    /\ result' = rlen
    /\ inten' = FALSE
    /\ pc' = "idle"
    /\ UNCHANGED <<burst, lens, xfers, intr, tx, rx, xch, tc, pulses, ghost>>

Thread == FillBurst \/ FillUnsupported \/ FillWords \/ Enable \/ Start \/ Wake \/ End

-----------------------------------------------------------------------------
(* The controller. *)

\* No transfer has timed out and no burst has begun with TC set; what is sent
\* is recorded until then.
Undisturbed == late = 0 /\ ~staleTC

RDR == Len(rx) >= RXMARK

\* A word is shifted out and one in.  The exchange is over when the transmit
\* FIFO is empty.
Shift ==
    /\ xch /\ tx # <<>>
    /\ rx' = Fit(Append(rx, [k \in DOMAIN Head(tx) |-> Reply(Head(tx)[k])]))
    /\ wire' = IF Undisturbed THEN wire \o Head(tx) ELSE <<>>
    /\ tx' = Tail(tx)
    /\ xch' = (Len(tx) > 1)
    /\ tc' = (tc \/ Len(tx) = 1)
    /\ UNCHANGED <<burst, lens, thr, intr, inten, pulses, late, refilled, staleTC>>

Interrupt ==
    /\ ipc = "idle" /\ inten /\ (tc \/ RDR)
    /\ ipc' = "status"
    /\ UNCHANGED <<burst, lens, thr, istat, count, ctl, pulses, ghost>>

-----------------------------------------------------------------------------
(* The interrupt handler: spi_intr. *)

\* Fault: TC is not cleared.
IntrStatusKeepsTC ==
    /\ ipc = "status"
    /\ istat' = CASE tc -> "tc" [] ~tc /\ RDR -> "rdr" [] OTHER -> "wrong"
    /\ ipc' = "count"
    /\ UNCHANGED <<burst, lens, thr, count, ctl, pulses, ghost>>

\* The status is read and TC, if it was set, cleared: one step, since what is
\* shifted in between raises a TC that is cleared too, and is counted after.
IntrStatus ==
    /\ ipc = "status"
    /\ istat' = CASE tc -> "tc" [] ~tc /\ RDR -> "rdr" [] OTHER -> "wrong"
    /\ tc' = FALSE
    /\ ipc' = "count"
    /\ UNCHANGED <<burst, lens, thr, count, tx, rx, xch, inten, pulses, ghost>>

Notify == /\ inten' = FALSE /\ pulses' = pulses + 1
          /\ ipc' = "idle" /\ istat' = "none"

IntrWrong ==
    /\ ipc = "count" /\ istat = "wrong"
    /\ Notify
    /\ UNCHANGED <<burst, lens, thr, count, tx, rx, xch, tc, ghost>>

\* The words to be read: all there are, or as many as there must be.
WordsToRead == IF istat = "tc" THEN Len(rx) ELSE RXMARK

IntrCount ==
    /\ ipc = "count" /\ istat # "wrong"
    /\ count' = WordsToRead
    /\ ipc' = "read"
    /\ UNCHANGED <<burst, lens, thr, istat, ctl, pulses, ghost>>

RxWord == IF rx = <<>> THEN <<Nothing, Nothing, Nothing, Nothing>> ELSE Head(rx)
PopRx == rx' = IF rx = <<>> THEN rx ELSE Tail(rx)

\* The last n bytes of a word.
LSB(w, n) == SubSeq(w, Len(w) - n + 1, Len(w))

\* The first word of the burst, if it is a short one.  When there is no word
\* the count has wrapped and the handler does not return.
IntrReadNone ==
    /\ ipc = "read" /\ burst /\ lsb_adjust # 0 /\ count = 0
    /\ ipc' = "stuck"
    /\ UNCHANGED <<burst, lens, thr, istat, count, ctl, pulses, ghost>>

IntrReadFirst ==
    /\ ipc = "read" /\ burst /\ lsb_adjust # 0 /\ count # 0
    /\ PopRx
    /\ count' = count - 1
    /\ pbuf' = Store(pbuf, rlen, LSB(RxWord, Least(Len(RxWord), lsb_adjust)))
    /\ rlen' = rlen + lsb_adjust /\ brlen' = brlen + lsb_adjust
    /\ lsb_adjust' = 0
    /\ UNCHANGED <<burst, xlen, tlen, bxlen, btlen, dlen, thr, ipc, istat, tx, xch, tc,
                   inten, pulses, ghost>>

IntrRead ==
    /\ ipc = "read" /\ burst /\ lsb_adjust = 0 /\ count # 0
    /\ PopRx
    /\ count' = count - 1
    /\ pbuf' = Store(pbuf, rlen, RxWord)
    /\ rlen' = rlen + 4 /\ brlen' = brlen + 4
    /\ UNCHANGED <<burst, xlen, tlen, bxlen, btlen, dlen, lsb_adjust, thr, ipc, istat,
                   tx, xch, tc, inten, pulses, ghost>>

IntrReadDone ==
    /\ ipc = "read" /\ burst /\ lsb_adjust = 0 /\ count = 0
    /\ ipc' = "fill"
    /\ UNCHANGED <<burst, lens, thr, istat, count, ctl, pulses, ghost>>

MoreToFill == btlen < bxlen /\ count < RXMARK

IntrFill ==
    /\ ipc = "fill" /\ MoreToFill
    /\ Send(<<Bytes(tlen, 4)>>)
    /\ tlen' = tlen + 4 /\ btlen' = btlen + 4
    /\ count' = count + 1
    /\ refilled' = TRUE
    /\ UNCHANGED <<burst, xlen, rlen, bxlen, brlen, dlen, lsb_adjust, pbuf, thr, ipc,
                   istat, rx, xch, tc, inten, pulses, wire, late, staleTC>>

\* In the other mode a word is sent for every word received.
IntrExchange ==
    /\ ipc = "read" /\ ~burst /\ count # 0
    /\ PopRx
    /\ count' = count - 1
    /\ pbuf' = Store(pbuf, rlen, RxWord)
    /\ rlen' = rlen + Unit
    /\ IF tlen < xlen
         THEN /\ Send(<<Bytes(tlen, Unit)>>)
              /\ tlen' = tlen + Unit
              /\ refilled' = TRUE
         ELSE UNCHANGED <<tx, tlen, refilled>>
    /\ UNCHANGED <<burst, xlen, bxlen, btlen, brlen, dlen, lsb_adjust, thr, ipc, istat,
                   xch, tc, inten, pulses, wire, late, staleTC>>

\* Fault: the burst is taken to be over when all of it is in the FIFO.
BurstOverSent == IF burst THEN btlen >= bxlen ELSE tlen >= xlen

BurstOver == IF burst THEN brlen >= bxlen \/ rlen >= xlen ELSE rlen >= xlen

\* Fault: the exchange is not started again after the refill.
IntrEndNoRestart ==
    /\ \/ ipc = "fill" /\ ~MoreToFill
       \/ ipc = "read" /\ ~burst /\ count = 0
    /\ IF BurstOver THEN Notify
         ELSE ipc' = "idle" /\ istat' = "none" /\ UNCHANGED <<inten, pulses>>
    /\ count' = 0
    /\ UNCHANGED <<burst, lens, thr, tx, rx, xch, tc, ghost>>

IntrEnd ==
    /\ \/ ipc = "fill" /\ ~MoreToFill
       \/ ipc = "read" /\ ~burst /\ count = 0
    /\ IF BurstOver
         THEN Notify /\ UNCHANGED xch
         ELSE /\ SetXCH
              /\ ipc' = "idle" /\ istat' = "none"
              /\ UNCHANGED <<inten, pulses>>
    /\ count' = 0
    /\ UNCHANGED <<burst, lens, thr, tx, rx, tc, ghost>>

Handler == \/ IntrStatus \/ IntrWrong \/ IntrCount \/ IntrReadNone \/ IntrReadFirst \/ IntrRead
           \/ IntrReadDone \/ IntrFill \/ IntrExchange \/ IntrEnd

-----------------------------------------------------------------------------
Next == Begin \/ BeginUnknown \/ Thread \/ TimeOut \/ Shift \/ Interrupt \/ Handler

Fairness == WF_vars(Thread) /\ WF_vars(Shift) /\ WF_vars(Interrupt) /\ WF_vars(Handler)

Spec == Init /\ [][Next]_vars /\ Fairness

-----------------------------------------------------------------------------
(* Properties. *)

\* The types of the state.
TypeOK ==
    /\ {xlen, tlen, bxlen, btlen, brlen, count, pulses} \subseteq Nat /\ rlen >= -1
    /\ Len(tx) <= FIFO_SIZE /\ Len(rx) <= FIFO_SIZE
    /\ lsb_adjust \in 0..3 /\ dlen \in DLens

\* What a transfer exchanges: with a data word to a burst, whole words, the
\* last of which may reach beyond the length asked for.
Whole == IF burst THEN xlen ELSE Unit * ((xlen + Unit - 1) \div Unit)

Exchanged ==
    /\ wire = [k \in 1..Whole |-> k - 1]
    /\ \A i \in 0..Room - 1 : pbuf[i] = IF i < Whole THEN Reply(i) ELSE i

\* One buffer serves both directions.  As long as no transfer has timed out and
\* no burst has begun with TC still set, then for every order of shifting and
\* of the handler's reads and refills, over several bursts and an odd first
\* word, a transfer that is not refused sends every byte of its words once, in
\* order and before it is overwritten, returns every answer in its place and
\* leaves what follows alone; so neither FIFO has dropped a word, and a refill
\* writes no more than there is room for (spi_intr, mx51_xfer).  Nothing is
\* claimed after a time-out, which leaves words in the FIFO, a pulse in the
\* channel and a count that starts at -1, nor once a burst has begun with TC
\* set, which needs no time-out: the last word may be shifted between the
\* handler's clearing of TC and its count of the words (intr.c:43, 46).
FullResult ==
    Undisturbed /\ pc = "idle" /\ xfers > 0 =>
      \/ result = -1
      \/ result = Whole /\ Exchanged

\* A burst that fits into the FIFO raises TC once, and the handler clears it;
\* only after a refill can TC be raised again by the words the handler has
\* already counted, and be found set by the next burst.
TcOnce == late = 0 /\ staleTC => refilled

\* The wait of mx51_xfer ends by a pulse, without its time limit: whenever
\* the transmit FIFO runs dry the handler is called and starts the exchange
\* again, or the burst is over.
Completes == (pc = "wait" /\ Undisturbed) ~> (pc # "wait" \/ ~Undisturbed)

=============================================================================
