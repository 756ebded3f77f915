# A TLA+ model of the i.MX6 board support package

The repository is a QNX 7.0 board support package for Advantech's i.MX6 boards:
boot loader, startup code and drivers. This directory holds TLA+ modules for the
parts of it in which several actors share state, the TLC configurations that
check them on small instances, and theorems with proofs that TLAPS checks.

Five parts of it are modelled. The Ethernet driver
(`src/src/hardware/devnp/mx6x`) has the most concurrent state: an interrupt
handler, a receive thread, the threads of io-pkt and a DMA engine share
descriptor rings, queues, flags and interrupt masks, under three kinds of lock
and partly under none. The SDMA library (`src/src/lib/dma/sdma`) is shared by
processes. The SD/MMC, I2C and SPI drivers each have a thread, an interrupt and
a controller that goes on by itself, and a time limit.

## Inventory

What each component keeps, what it does, and what makes it correct.

### Ethernet driver: transmit (`transmit.c`, parts of `event.c`, `detect.c`, `mii.c`)

* State: the descriptor ring `tx_bd` with its indexes `tx_pidx`, `tx_cidx` and
  the count `tx_descr_inuse`; `tx_pkts`, the packets to free; the send queue
  `if_snd`; the flags `tx_full`, `IFF_OACTIVE`, `IFF_RUNNING`, link down; the
  NIC's own position in the ring and its "active" register.
* Operations: `mx6q_start` (called by the stack), `mx6q_output` (packets with a
  priority, from a client thread), both through `mx6q_tx`;
  `mx6q_transmit_complete` (reaping); the transmit part of `mx6q_isr`, and
  `mx6q_process_interrupt` on an io-pkt thread; the PHY monitor; `mx6q_stop`
  and `mx6q_init`.
* Interaction: the threads exclude each other with `if_snd_ex`. The interrupt
  handler takes a spinlock only, the DMA takes nothing: both run between any two
  steps of the thread that holds the lock.
* Hard: the DMA may stop although a frame was made ready (erratum ERR006358);
  wake-ups are flags tested outside the lock; a packet occupies several
  descriptors but is freed once; stop and init in the middle of all this.
* Correct when: the ring is never overrun, the count agrees with the indexes,
  no mbuf is lost or freed twice or freed under the DMA, every frame handed to
  the NIC is sent, and a stack that was told to wait is woken.

### Ethernet driver: receive (`receive.c`, parts of `event.c`, `detect.c`)

* State: the ring `rx_bd` and `rx_cidx`; the packet being put together; the
  receive interrupt's event and mask bits; `rx_queue` with its mutex,
  `rx_running` and `rx_full`.
* Operations: the receive part of `mx6q_isr`, `mx6q_rx_thread` with
  `mx6q_receive`; `mx6q_process_queue` and `mx6q_enable_queue` on a stack
  thread; `mx6q_stop`, `mx6q_init`.
* Hard: the interrupt is masked by the handler and unmasked by one of two
  threads; the queue is handed over with a mutex locked in one function and
  unlocked in another; flow control ends reception with frames still in the
  ring; mbufs run out in the middle of a frame.
* Correct when: packets are whole frames in order, exactly one party is
  responsible for the masked interrupt, a queued packet has a thread to take it
  off, and nothing is left in the ring.

### Ethernet driver: IEEE 1588 clock (`ptp.c`, parts of `event.c`)

* State: the hardware's nanosecond timer; the seconds `rtc` and the half-second
  flag `rtc_half`, counted by two interrupt handlers; two circular buffers of
  time stamps.
* Operations: the two handlers; reading and setting the clock; collecting a
  frame's time stamp; `mx6q_ptp_set_compensation`, the search for a rate.
* Hard: the seconds lag behind the timer, so every reader corrects them; setting
  the clock races with the handlers and with frames stamped earlier.
* Correct when: clock and time stamps show the second they belong to, and the
  rate chosen is the closest one.

### SDMA library (`lib/dma/sdma`)

* State: a page of memory shared by the processes that use the library (three
  mutexes, a process count, the command descriptor); the engine's registers,
  with one bit for each channel; in each process a mask of its channels, an
  event for each, the count of its users.
* Operations: `sdma_init`, `sdma_fini`, `sdma_channel_attach` and
  `sdma_channel_release`, starting, aborting and completing a transfer; the
  command channel 0, by which script and contexts are loaded; an interrupt
  handler in every process.
* Hard: the first process initialises the engine for all; a command may time out
  and complete afterwards; a process may die; registers are changed by reading,
  changing and writing them in several processes.
* Correct when: a channel has one owner and runs with its owner's context, no
  process disturbs another's channels, and every completion is signalled.

### SD/MMC block driver (`devb/sdmmc`)

* State: the command in progress (`wspc.cmd`, its status), the uSDHC's status and
  enable registers, the flags of the device (present, media change, invalid), the
  use count and removal flag of the block driver's handle, the queue of pulses.
* Operations: `sdio_issue_cmd` and what follows it, `sdmmc_rw` with its recovery
  (status, stop, reset), `sdio_cd` with identification, attachment and removal,
  the completion thread `imx6_sdhcx_intr_event`.
* Hard: three threads and a controller, with a lock around few of their steps; a
  card may be pulled or swapped at any of them; a command that is given up is
  not taken back from the controller.
* Correct when: one thread uses the controller at a time, a handle outlives its
  users, a read comes from the card that was identified, a change of card is
  noticed, and a removal ends.

### I2C driver (`i2c/imx`)

* State: `bus_state`, the transaction and its buffers, the controller's control
  and status registers, the bus.
* Operations: `imx_i2c_send`, `imx_i2c_recv`, the interrupt handler, the reset.
* Hard: the handler is led by state that the thread sets after the address is
  under way; another master; refused bytes; late interrupts after a time limit.
* Correct when: a call that reports success has put exactly its transaction on
  the bus, and between calls the bus is let go unless a restart was promised.

### ECSPI driver (`spi/mx51ecspi`)

* State: lengths of the transfer and of the burst, the buffer, both FIFOs, the
  transfer complete bit, the pulse.
* Operations: `mx51_xfer`, `mx51_wait`, `spi_intr`.
* Hard: one buffer is sent and overwritten at the same time, the controller
  shifts while the handler counts, reads and refills, and stops when it runs dry.
* Correct when: every byte is sent once, every answer is in its place, and the
  thread is woken.

### Not modelled

* PHY, MDIO and link (`mii.c`, `bsd_media.c`, `sqi.c`, `timer.c`): polled MDIO
  with a timeout, resolution of speed, duplex and flow control, the monitor
  callout. Only its effects on transmission are modelled.
* Serial driver (`devc/sermx1`) and audio (`deva`): the queues, the flow control
  and the order of calls are those of io-char and io-audio, which are not in the
  repository. A model would mostly be of those.
* The SPI resource manager (`spi/master`): the locking of a device by a client.
* Flash drivers (the state machine is in the chips and in a closed library), IPL
  and startup (sequential register programming), PWM and watchdog (loops of
  register writes), display configuration (tables), and the Ethernet driver's
  option parsing, multicast filter and statistics.

By lines the largest part of the repository is none of this: startup and IPL
code and register headers for many other boards and SoCs, host controllers
and audio codecs of other vendors, and third-party code (`uECC.c`, `sha2.c`).
The modules cover the control of the drivers that run on the i.MX6 boards, which
is a few per cent of the lines.

## Modules

| module | models | lines of the code |
|---|---|---|
| `Mx6xTx` | transmit | `transmit.c`, `event.c`, `detect.c`, `mii.c`, `ptp.c` |
| `MCMx6xTx` | symmetry set and constraint for TLC | |
| `Mx6xRx` | receive | `receive.c`, `event.c`, `detect.c` |
| `Mx6xPtp` | 1588 clock and time stamps | `ptp.c`, `event.c` |
| `Mx6xPtpComp` | the compensation search | `ptp.c` |
| `Mx6xTxProofs` | theorems about `Mx6xTx`: the ring, its frames and owners, the stop | |
| `Mx6xRxProofs`, `Mx6xPtpProofs`, `Mx6xPtpCompProofs` | theorems about `Mx6xRx`, `Mx6xPtp` and `Mx6xPtpComp` | |
| `SdmaLib` | the SDMA library in several processes | `api.c`, `cmd.c`, `irq.c`, `sync.c`, `init.c` |
| `DmaChannels` | abstract: channels with one owner each | |
| `MCSdmaLib` | two processes for TLC | |
| `SdmmcBus` | SD/MMC commands and card changes | `sim_sdmmc.c`, `base.c`, `card.c`, `imx6.c`, `sd.c`, `mmc.c` |
| `I2cImx` | I2C transfers | `send.c`, `recv.c`, `intr.c`, `reset.c` |
| `MxEcspi` | ECSPI transfers | `mxecspi.c`, `intr.c`, `wait.c` |
| `SdmaLibProofs`, `SdmmcBusProofs`, `I2cImxProofs`, `MxEcspiProofs` | theorems about those | |

Operators whose comment begins with "Fault:" are wrong variants of the operator
after them. They are used by no specification; each shows that a property
notices that fault. `TypeOK` states the types of each module; only `TxUp` lists
it, the other runs being about behaviour.

### Mx6xTx

Three threads (`stack`, `intr`, `out`) have a program counter `pc[t]`; the
states of a thread that holds `if_snd_ex` are `LockedPcs`. The interrupt handler
has its own (`isr`): `IsrClear` clears the event, `IsrCheck` looks at the ring
and at `tx_full`. A step covers the code between two points at which the DMA or
the handler could see a difference: one descriptor in the loops of `mx6q_tx`
(`TxLoad`) and `mx6q_transmit_complete` (`ReapStep`), the booking
(`TxCommit`), the ready bit of the first descriptor (`TxReady`), the kick
under the spinlock (`TxKick`).

A descriptor is a record of the bits the control flow depends on: ready, last,
updated by the DMA, and the packet its buffer belongs to. Packets are model
values; the number of their fragments is chosen when they enter `mx6q_tx`,
which is where the code counts them. `mx6q_defrag` is the choice between a
packet that fits after all and a failure.

`TxLoad` contains the error path for a descriptor that is still ready, with
the lock dropped there and the caller going on as if it still held it.

The DMA is external: `NicFetch`, `NicUpdate` and `NicIdle` walk the ring;
`NicPrefetchEmpty` is the erratum, by which the DMA looks at the next
descriptor before it has written back the last one and then stops.

Three next-state relations: `NextUp` (interface and link up), `NextLink`
(the link changes too), `Next` (stop and init too). Three variables are history:
`missed` (the handler tested `tx_full` after `mx6q_start` had reaped and before it
set the flag), `hung` (a stop gave up on the NIC), `torn` (a stop freed a packet
and left a later descriptor of it ready). The loop of `mx6q_stop` frees a packet
and then clears its ready bit (`detect.c:1376`); `StopClear` does both for the
whole ring in one step: the NIC has come to rest or, after a stop that gave up on
it, at most ends the frame it is in.

### Mx6xRx

The receive thread is `rpc`, the stack thread `qpc`. Frames are numbered as
they arrive and consist of fragments, so that a packet given to the stack
(`input`) can be compared with the frame on the wire. The NIC chooses whether
a fragment is the last of its frame and whether the frame is bad. `rfint` and
`rfien` are the event and mask bits; `RxPulse` clears the event before the ring
is looked at, as the code does. The handler reads IEVENT (`IsrRead`) before it
takes the spinlock and looks at the mask (`IsrRx`). `NextUp` has flow control but
no shortage of mbufs; `NextScarce`, `NextDown` and `Next` add the shortage, stop
and init at any moment, and both. `skipped` is history: `mx6q_enable_queue` found
the interface down with an interrupt to unmask.

### Mx6xPtp

Time passes in ticks, `4 * Q` to the second. The variable `sec` is the second
the timer is in, which no register shows; properties compare with it. `Tick`
does not let an interrupt wait for more than `IrqLag` ticks, nor a time stamp
for more than `StampLag`. The receive and the transmit buffers of time stamps
are kept by the same code, so one of them is modelled. The handler reads IEVENT
(`IsrRead`) before it takes the spinlock (`IsrTimer`). An entry is written in
three steps, identification, nanoseconds and second (`AddDetails`, `AddNsec`,
`AddSecond`), of which only the last holds the lock; `ClearStamps` is the memset
of `PTP_SET_TIME`, which goes through the buffer half an entry at a time. `SetCnt`
sets the clock at any moment to any time. `carry` and `offHalf` are history: the
handler had read a wrap event of before the setting, and `rtc_half` (or a
half-second event to be noted) is left from before it. `InStep` says that
neither is the case.

### Mx6xPtpComp

One pass of the loop in `mx6q_ptp_set_compensation` is a step, with products
taken modulo the width of the code's integers. Of frequency and period one is
the quotient of 10^9 by the other (`mx6q_ptp_start`, `mx6q_ptp_cal`), so their
product is within that width. `BestCompensation` compares the
result with all steps and all intervals.

### SdmaLib and DmaChannels

One thread of each process calls the library; `pc`, `job`, `cur` and `reg` are
its place, the function, the channel and the register value it has read. A
register with a bit for each channel is a set. A register that is read, changed
and written is so in two steps; under `register_mutex` where the code takes it,
which `sdma_channel_attach` does not. `ctx` says whose context image a channel
runs with, `cmd_bd` what the one command descriptor asks for. `CmdTimeout` gives
a command up, `Crash` ends a process: the kernel detaches its handler and the
resource manager frees its channels, while mutexes and the count stay.
`ReleaseDetach` reads the channel's number from freed memory, so the channel is
given back or stays reserved. An attach fails at once if there is no memory or an
option is wrong (the second disjunct of `Attach`), or when its command times out.
Clients release a channel after its transfers, and all channels before
`sdma_fini`, as the library's README shows it: `sdma_channel_release` itself does
not check that, the guard of `Release` is a discipline of its callers. Left out:
descriptors, the callback that re-enables them, priorities, options.

`DmaChannels` is what a driver may rely on as to ownership and HOSTOVR: a channel
has one owner, and only the owner arms or disarms it. It says nothing of the other
registers; that EVTOVR is changed without a lock is the run `SdmaLostEvent`. `ChannelsSpec` maps `owner` to the resource database
(`lease`) and `armed` to HOSTOVR. The steps of the library map to acquiring,
arming, disarming, freeing or dying, or to nothing; the reset by a first process
is a stutter because no channel is armed then.

### SdmmcBus

Threads `drv` (`sdmmc_driver_thread`) and `cd` (`sdio_cd_thread`) have a place
`pc[t]`, a `stage` (which command) and a result; the completion thread is `hpc`.
`CmdBegin` to `CmdAbort` is the issue of a command by either. `seen` is the value
of the device flags loaded for a plain `|=` or `&=`. The interrupt status `is`
and enable `ie` are sets of bits; `CmdSend` clears all of `is`, as the code does.
`cmdLine` and `datLine` are what the controller is busy with. Identification and
configuration are one command each; what the card status says after a failed
read is either answer (`After`), and so is whether the failure was a bus error of
an SD card. `sdio_bus_error` (stage `buserr`) only counts the first errors; later
it clears a speed flag (`BusErrorClear`) and sets the bus up again. That only
errors of the data CRC count is not modelled: it may follow any failed read. A
command answered with a busy signal is waited for by the completion thread, and
ended with an error if the card stays busy (`BusyAnswer`). Ghosts: `done` (the controller has executed the
command last issued), `held` (the card last identified), `late`, `wiped`.

Left out: moving data without DMA, to which `imx6_sdhcx_cmd` falls back when a DMA
list cannot be set up; tuning, voltage and width switching, APP_CMD nesting, write protection,
sleep, card detection by GPIO; `_sdio_pwrmgnt`, which does nothing without a
`pm` entry, and this controller has none; writes. A read is stopped by the
controller (`HC_CAP_ACMD12`), so success needs no stop command. A reset of the
controller clears the status and is taken to leave the enabled bits. Pulses
beyond `MaxPulses` change nothing, as each makes the thread look once more.

### I2cImx

`pc` is the client's thread, `Intr` the handler in one step. The thread sets the
transaction up before the address is written and looks at it after its wait, so
the two meet only at `bus_state`, set after the address (`SetState`, a step of
its own), and after an expired timer. The end of a receive that timed out is
three steps with the handler in between: the test of the status (`Outcome`), the
write of I2CR (`RecvStop`) and that of `bus_state` (`RecvStopped`). A thread that
runs on another processor in the middle of the handler, after its timer has
expired, is not modelled. History: `disturbed` (a timer has expired or an
interrupt came before `bus_state` was set), `abandoned` (a send was given up, or
the handler set MSTA again between the two writes).
`log` is what the call has put on the bus, compared with `Expected`. The
controller may finish a byte, have it refused, lose the bus; a byte cut short by
a stop may still interrupt. Bus speed and options are left out.

### MxEcspi

A word is the sequence of its bytes; the client's byte `i` is `i` and is answered
by `Reply(i)`, so that the buffer shows what has been sent, received and
overwritten. `burst` chooses the device's mode. Lengths need not be a number of
data words: with a word to a burst the last word then reaches beyond the length
(`Whole`), as in the code. A step of the handler ends at each access to the
controller between which `Shift` makes a difference: status, count, each word
read, each word written, restart. Reading the status and clearing TC are one: a
TC raised in between is cleared too, and its word counted after. TC is taken to be raised when the
transmit FIFO runs empty, and RDR to be set with `RXMARK` words, as the code
relies on. Left out: chip select and the erratum about it, register
configuration, the order of bytes in a word, device locking, devctl.

## Runs

Runs that pass:

| run | specification and bounds | checks |
|---|---|---|
| `TxUp` | `FairSpecUp`, 4 descriptors, 2 fragments, 2 packets; 461 thousand states | `TypeOK`, `RingAccounting`, `NeverHitsEnd`, `FrameWhole`, `MbufOnce`, `OactiveHasWaker`, `PostedSent` |
| `TxStop` | `Spec`, 5 descriptors, 2 fragments, 2 packets, `CleanStops`; 2.2 million states | `NicOwnsLiveBuffer`, `HwInStep` |
| `RxDown` | `SpecDown`, 3 descriptors, 4 frames of up to 2 fragments, queue of 3, flow control; 446 thousand states | `WholeFrames`, `InOrder`, `MaskedWhileReceiving`, `QueuedHasRunner`, `Rearmed` |
| `RxLive` | `FairSpecScarce`, 2 descriptors, 3 frames of up to 2 fragments, no flow control; 80 thousand states | `NothingLeftBehind`, `RingServed` |
| `PtpClock` | `Spec`, 8 ticks to the second, 2 seconds, 3 messages, 1 setting to any time; 6.8 million states | `ClockRight`, `StampRight`, `LastStampsFound` |
| `PtpComp` | all corrections up to 24 for 4 frequencies and 6 periods; 5 thousand states | `BestCompensation` |
| `Sdma` | `Spec`, 2 processes, 2 channels, 2 requests, 1 time-out, death or nested user; 2.0 million states | `ReadyForUse`, `OwnContext`, `NoLostCompletion`, `PendingIsClaimed`, `ChannelsSpec` |
| `I2c` | `Spec`, 2 slaves (7 and 10 bit), 3 calls of up to 3 bytes; 1.5 million states | `FrameRight`, `BusReleased`, `NoStalePulse` |
| `Sdmmc` | `Spec`, 2 cards, 2 faults of which 1 may be a command given up and the others changes of card, 2 clocks, 2 resets, 1 retry; 1.2 million states | `OneIssuer`, `DeviceOutlivesUsers`, `RightCard`, `RightUnlessLate`, `NoticedUnlessWiped`, `RemovalCompletes` |
| `Spi` | `Spec`, FIFO of 2 words, bursts of 4, 2 transfers of 1 to 35 bytes, 1 time-out; 656 thousand states | `FullResult`, `TcOnce`, `Completes` |

Each property of a passing run has a faulty variant of the code it catches. For
the invariants that follow, what is claimed and what could have gone wrong:

* `ReadyForUse`, `OwnContext`, `NoLostCompletion`, `PendingIsClaimed`,
  `ChannelsSpec` (`Sdma`): whichever process initialised the engine, failed to or
  died, those inside find the script loaded; a channel runs with its owner's
  context because the command channel is handed on under `command_mutex`; one
  interrupt a call and one register for all handlers lose no completion; a
  pending level interrupt has a process to clear it; and the whole behaves as
  channels with one owner.
* `OneIssuer`, `DeviceOutlivesUsers`, `RightCard`, `RightUnlessLate`,
  `NoticedUnlessWiped`, `RemovalCompletes` (`Sdmmc`): there is no lock around the
  issue of a command; it is the use count, the removal flag, the joining of the
  driver thread and the comparison of the CID that keep the threads and the cards
  apart. One of the faults may be a command given up whose interrupt comes late.
* `FrameRight`, `BusReleased`, `NoStalePulse` (`I2c`), `FullResult`, `TcOnce`,
  `Completes` (`Spi`): see the comments in the modules.

* `OactiveHasWaker` (`TxUp`): a stack told to wait has `tx_full` set and a frame at
  the NIC or an interrupt to come, unless the handler fell into the window of
  `TxFull` below. `NicOwnsLiveBuffer`, `HwInStep` (`TxStop`): a packet is freed at
  its first descriptor, so the NIC may be in the middle of a freed one, but has
  never one still to begin. `CleanStops` cuts behaviours off where a stop gives up
  on the NIC or leaves it the rest of a freed packet: both properties are
  conditioned on that not having happened.
* `Rearmed` (`RxDown`): flow control ends reception with the interrupt masked, and
  the drained queue unmasks it, whatever stops and inits come in between.

Two runs show where the code does not do what a comment in it says.

`TxFull` (`FullHasCompletion`): `mx6q_start` reaps, finds too little space and then
sets `tx_full`, to "try again on a Tx completion interrupt" (`transmit.c:335`). If
the DMA ends its last frame and the handler runs in between, it finds `tx_full`
clear, and no interrupt is left to come.

`SdmaLostEvent` (`EventsEnabled`): `sdma_channel_attach` changes EVTOVR and
CHNENBL without `register_mutex`. A release in another process reads EVTOVR
before and writes it after: the attached channel's override bit is set again and
no request of its peripheral reaches it.

### Known deviations

TLC refutes the following too. The properties are in the modules; the conditions
under which the passing runs check them leave these cases out.

* `mx6q_transmit_complete` frees a packet at its first descriptor while the DMA may
  own the second (`transmit.c:414`): TLC refutes `NicOwnsLiveBuffer` without its
  last line (`TxStop`).
* `NeverHitsEnd` after a stop, with packets of two descriptors (`TxStop` without
  `CleanStops`): `mx6q_stop` clears the ready bit only of a packet's first
  descriptor, and a later packet runs into the other, of which `transmit.c:176`
  says "this should NEVER happen".
* `WholeFrames` with a shortage of mbufs (`SpecScarce`): the packet so far is
  discarded, but the frame's next fragment begins a packet (`receive.c:124`).
* `StampOwn` (`RxDown`): the time stamp is read from a descriptor that has been
  given back to the NIC, which may have stamped another frame (`receive.c:179`).
* `ClockRight` without its condition: when the clock is set to the other half of a
  second `rtc_half` stays as it was and the clock reads a second off
  (`ptp.c:527`) until the next second is counted. A handler that has read the
  wrap event when the clock is set counts a second too many, although `ptp.c:522`
  says "Close window where timer wrap interrupt may fire whilst setting time".
* A frame stamped by the old clock and still in the ring when the clock is set is
  collected afterwards, against `ptp.c:688`, "Clock has changed so all old ts are
  invalid"; `LastStampsFound` and `StampRight` leave such frames out.
* `Rearmed` without its condition: a queue drained with the interface down leaves
  the receive interrupt masked (`event.c:54`).
* `RightCompletion` after a command was given up: the abort entry does nothing
  (`imx6.c:621`), and the late interrupt completes the next command.
* `ChangeNoticed` without its condition: `imx6_sdhcx_cmd` clears all status bits,
  and an insertion or removal recorded there is forgotten (`imx6.c:607`).
* `FrameRight` when a slave refuses the second byte of its address: the handler
  tests for `TX_ADDR_10BIT_MSB` twice and not for `_LSB` (`i2c/imx/intr.c:46`),
  and the call goes on as if it had been accepted.
* `BusReleased` when the handler runs between `recv.c:120` and `121`: it still sees
  a receive in progress and may write I2CR with MSTA (`intr.c:121`, `128`), and the
  driver is left master with `STOPPED`.
* A send on I2C that times out leaves `bus_state` and the controller as they are
  (`send.c:103`), and so the handler a buffer the caller has taken back.
* An SPI transfer that times out sets `rlen` to -1 and, if anything is left to
  send, goes on (`mxecspi.c:831`): it returns a positive length. Words, pulse and
  TC are left to the next transfer; with TC set, no word received and an odd first
  word the handler's count wraps (`IntrReadNone`). TC may be left set without a
  time-out too: the last word of a refilled burst may be shifted between the
  clearing of TC and the count (`intr.c:43`, `46`).

### Bounds

Four descriptors with at most two fragments are the smallest ring in which one
packet leaves room for another, two packets wrap around the end, and the space
check both passes and fails with packets in the ring. With two packets the
stack and the client thread compete, one of them being in the ring. `TxStop` has
five descriptors, so that two packets of two can be in the ring at a stop, with
the NIC in the middle of the first.
For reception, four frames in a ring of three wrap it, and a queue of three
reaches the limit of flow control with a packet already queued. Two fragments
suffice for a frame that is broken in the middle. In the clock, a quarter of a
second must have an inner point (`Q = 2`), an interrupt may then lag a tick, and
two seconds contain a setting at any time before and after a wrap, and a wrap
after that, as the setting may go back.
Two processes are what it takes to undo one another's register changes; one of
them drives its channels by requests, the other by software. A time-out, a death
and a second user in one process come one at a time (`MaxExtras`): each is
counted on its own, and a death forgets the users. The slot starts with a card
(`Boot`). Two cards are needed for a swap, and two faults (`MaxFaults`) are a card
that goes and another that comes, or a change of card and a command given up. Three bytes have a first, a last but one and
a last. A FIFO of two words and a burst of four make the handler refill twice; 18
and 35 bytes take two and three bursts, the last with a short first word; time
limits end transfers of 1 and 7 bytes only, because after one nothing is claimed
but the states multiply. `MaxFrames`, `MaxParts`, `MaxSec`, `MaxMsgs`, `MaxSets`,
`MaxUsers`, `MaxExtras`, `MaxQueued`, `MaxPulses`, `MaxLate`, `MaxFaults`,
`MaxCalls`, `MaxLen`, `MaxXfers` and `LateLengths` are bounds of the model; the other
constants are parameters of the code.

`CleanStops` is a constraint of the run `TxStop`: `hung` and `torn` are never reset,
and the properties of the run say nothing once one of them is set. `TxStop` has no
liveness property.

Deadlock is checked in the transmit runs. The others end when the bounds on
frames, time or inputs are used up.

### Fairness

`TxUp` assumes that a thread which holds the lock runs on, that a pending
interrupt is served, and that the DMA proceeds while it is active. It does not
assume that anyone calls the driver, nor that the erratum does or does not
happen. `RxLive` assumes the same of interrupt and NIC, and strong fairness of
the two threads: they compete for `rx_mutex`, and QNX wakes the highest-priority
thread that has waited longest.

`Sdmmc` assumes that the controller ends what it is doing, with an answer or an
error, and that the three threads run; not that requests come or cards change.
Time limits are steps of the threads: a wait ends by its limit if by nothing
else. `Spi` assumes that the controller shifts while it is started, that an
enabled interrupt is served and that the thread runs; its time limit is not fair,
so `Completes` shows that it is not needed. Liveness of the SDMA library is not
claimed: a process that dies with a mutex locked stops the others.

### Assumptions the passing runs make

* `OactiveHasWaker` is claimed while the link stays up: on a link that went down
  with the queue full, `mx6q_start` purges the queue and returns without
  clearing `IFF_OACTIVE`, while `tx_full` is already reset. That a completion is
  to come is claimed unless the handler fell into the window of `TxFull`.
* `NicOwnsLiveBuffer` and `HwInStep` are claimed until a stop gives up on the NIC or
  leaves it later descriptors of a packet it freed.
* `Rearmed` is claimed until `mx6q_enable_queue` finds the interface down with an
  interrupt to unmask.
* `NothingLeftBehind` is claimed without flow control: `mx6q_receive` leaves
  frames in the ring whose interrupt has been cleared.
* `ClockRight`, `StampRight` and `LastStampsFound` are claimed while the clock is in
  step (`InStep`): after a setting to the other half of a second, from the next
  second counted; not after one that found a handler about to count. The last two
  are about frames stamped since the clock was set.
* `OwnContext` and `PendingIsClaimed` are claimed until a command has timed out,
  `NoLostCompletion` and `PendingIsClaimed` until a process has died.
* `RightCard` and `RightUnlessLate` are claimed until a command is given up,
  `NoticedUnlessWiped` until a record of a change is overwritten.
* `FrameRight` and `NoStalePulse` are claimed while no timer has expired and no
  interrupt has come before `bus_state` is set. No call follows a send that was
  given up, nor a receive between whose last two writes the handler set MSTA.
* `FullResult` is claimed until a transfer times out or a burst begins with TC
  still set; `TcOnce` says that needs a refill.
* `BestCompensation` is claimed for corrections below the clock frequency. For
  larger ones the search takes the quotient from the correction where the
  product belongs, and can divide by zero; the step is modelled (`"fault"`).

## Theorems

All of them hold for every value of the constants under the named assumptions of
the modules (`RingAssumption`: the ring is larger than the fragment limit;
`PtpAssumption`: interrupts are served within a quarter of a second;
`EcspiAssumption`: the receive mark is at most half of the FIFO, as `mxecspi.h`
defines it; the others only give the constants their types). Where it is not
`Spec`, the specification and any further hypothesis are named below. The
inductive invariants were checked with TLC before they were proved.

### Transmit

* `TxTypeCorrect`: `Spec => []TypeOK`. Inductive with `CurOK`, which says that a
  thread is loading descriptor `i` of a packet of `n` with `i < n` at `"load"`.
* `TxRingAccounting`, `TxNeverHitsEnd`: `SpecLink => []RingAccounting` and
  `[]NeverHitsEnd`. The invariant `RingInv` has four parts. `LockOK`: only the
  holder of `if_snd_ex` is at a locked place. `RingOK`: the count is the
  distance of the indexes around the ring, hence below its size. `LoadsOK`:
  a thread past the space check has room for `MaxFrags` more descriptors, and
  one that loads has used `i` of them. `ReadyOK`: a ready descriptor lies
  between consumer and producer index, or between the producer index and the
  place the loading thread has reached. Without the last part the NIC's half of
  the ring is unconstrained, and `NeverHitsEnd` is not inductive; without
  `LockOK` two threads could use the same space. The lemmas on `Dist` replace
  the remainder by a case split.
* `TxFrameWhole`, `TxHwInStep` (`SpecLink`): on top of `RingInv`, `FrameInv`.
  The NIC is in the booked part of the ring or just behind it (`PlaceOK`); what
  it has fetched is not ready any more and what it has not is, but for the first
  descriptor of a packet not yet released (`SplitOK`, `BehindOK`); it does not
  pass such a descriptor (`HeldOK`), before which the packet ahead ends
  (`LastOK`). `mx6q_tx` sets the ready bit of the first descriptor last; with
  another order `BehindOK` fails.
* `TxOactiveHasWaker` (`SpecUp`): `WakerOK` says that `mx6q_start` is running
  whenever `IFF_OACTIVE` is set and `tx_full` is not. That a completion is to come
  needs `ComingOK`: a thread about to set `tx_full` has left the NIC something to
  complete, and until `mx6q_start` runs again that reaches `process_interrupt`,
  unless `missed`.
* `TxMbufOnce` (`SpecLink`): every packet has one owner. `PacketsOK`: a packet is
  remembered in the booked part of the ring. `CarriersOK`: a thread has one only
  inside `mx6q_tx` and `mx6q_output`. `SingleOK`: no place holds one twice.
  `OneOwner`: it is in one of the pool, the queue, the ring and a thread's hands.
* `TxNicOwnsLiveBuffer`, `TxStopHwInStep`, `TxStopAccounting`, `TxStopMbufOnce`: for
  `Spec`, with stop and init, for every fragment limit. The first two have their
  condition in the property; the others are `torn \/ ...`, which is needed, as TLC
  refutes `NeverHitsEnd` after a torn stop (see Known deviations). `StopInv` is
  `RingInv` and `OwnerInv` until `torn`, and `PaceInv` until `hung` or `torn`. That
  has `FrameInv`; what the NIC has left behind is written back at the end of a
  frame (`WrittenOK`); a NIC at rest stays there until the reaping has caught up
  with it (`StoppedOK`), which is why clearing the rest of the ring leaves both at
  the same descriptor; and `CellInv`: a booked descriptor belongs to a packet that
  `tx_pkts` remembers at its first descriptor (`Whole`), or to the one at the
  consumer index that was freed at its first and is still being reaped
  (`Headless`), in the middle of which the NIC is if that one is ready (`HeadOK`).

### Receive

* `RxMaskedWhileReceiving`, `RxQueuedHasRunner`: for `Spec`, stop, init and
  shortage included. `Tokens` says that the right to unmask the interrupt is in
  one place: the unmasked bit, a pulse, the receive thread, or `rx_full`.
  `HandOver` ties `rx_mutex`, `rx_running` and the call of the stack thread to
  the place where that thread is. `RxRearmed`, for `Spec` too, adds that the right
  is never lost unless `skipped`.
* `RxRingInvariant`: the occupied descriptors are those from `rx_cidx` to the
  NIC's index (`RingOK`), and follow each other as on the wire (`ChainOK`).
  On it rest `RxInOrder` (`Spec`; `OrderInv`: the packet being put together,
  those passed on directly and those in the queue are older than what is in the
  ring, in each path in order), `RxWholeFrames` (`SpecDown`, where mbufs do not
  run out) and
  `RxNothingLeftBehind` (`FlowTx = FALSE`; `QuietOK`: a frame in the ring has
  its event, its pulse or the thread).

### 1588 clock

* `PtpClockRight`: `Spec => []ClockRight`. `ClockOK` lists how far `rtc` and
  `rtc_half` may lag in each part of the second; the correction is right because
  the lag is less than a quarter. A setting of the clock either keeps it or sets
  `carry` or `offHalf`; the next second counted clears `offHalf` and restores it.
  `PtpStampRight`: with `StampLag < Q`, a time stamp gets its second; `FrameOK`
  relates its age to the time now.
* `PtpLastStampsFound` (`StampLag < Q`): the entry written `j` messages ago holds
  that message's stamp, for `j` up to the size of the buffer, if the message is in
  `sure`; an entry that is being written or wiped is of a message that is not.
* `CompBest`: `Spec => []BestCompensation`, for every clock and correction. With
  the lemmas on quotients, `Candidate` says that for a correction below the
  frequency the code's interval for `j` extra nanoseconds is positive and its
  rate at least the correction, no product overflowing (`CandidateCode`), and
  `CandidateBest` that no other interval for `j` is closer from above.
  `SearchOK` is the best-so-far invariant of the loop: after `n` passes the
  chosen pair is the best of the candidates up to `n` (`Chosen`).

### SDMA library

`SdmaInvariant` has nine parts, for any set of processes and channels.
`ThreadsOK`: what a call may assume of the channel it is about. `LocksOK`: the
places between lock and unlock are those of the mutex's holder, and HOSTOVR is
still as the thread at `"hostwrite"` has read it. `CountOK`: `process_cnt` counts
the processes inside and those that died there. `InitsOK` and `ScriptOK`: how far
the first process has come with the script. `MasksOK`: a channel in
`channel_mask` is held or about to be, and a held one has its event. `CommandOK`,
until a command times out: the command under way is its owner's, and leaves the
contexts of held channels right. `HolderOK` and `FlowOK`, until a process dies:
the holder of `command_mutex` is alive, and a channel that is armed, running or
completed has a user. From it follow `SdmaReadyForUse`, `SdmaOwnContext`,
`SdmaNoLostCompletion` and `SdmaPendingIsClaimed`, and `SdmaImplementsChannels`:
every step of `SdmaLib` is a step of `DmaChannels` or leaves it alone.

### SD/MMC

`SlotInvariant`: where a thread is tells at which of its commands it is
(`StageOK`), the use count is of the one thread inside, and the cd thread
identifies a card only when there is no driver thread (`DevOK`). It gives
`SlotOneIssuer` and `SlotDeviceOutlivesUsers`. `SlotNoticedUnlessWiped` adds
`ChgOK`: a present device is of the card in the slot, or the change is recorded
and comes with a pulse. On top of it `SlotRightUnlessLate` and `SlotRightCard`: as long as no command was given up, a command is in one place, on its
way, moving data, in the status register or in the hands of the hc thread
(`BusOK`); what says that it is complete is right (`DoneOK`); and a selected card
is the one attached to (`CardOK`).

### I2C

Four layers. `I2cTypeCorrect`: types, and the counters stay within the buffers,
whatever comes early or late. `I2cBusInvariant` (`BusInv`): what the handler
finds in the registers for each `bus_state`, who is master, and that nothing is
under way between calls, unless `abandoned`; gives `I2cBusReleased`. `I2cCalmInvariant`: while
nothing has come early or late, each pulse belongs to the present call; gives
`I2cNoStalePulse`. `I2cFrameInvariant`: what is on the bus so far is the beginning
of the call's transaction (`LengthsOK`, `LogOK`); gives `I2cFrameRight`.

### ECSPI

`SpiInvariant` holds until a transfer times out or a burst begins with TC set.
`StartOf(k)` is the place in the transfer of word number `k` of those that are
out, sent or in the transmit FIFO with the answer not yet read. `RestOK`: between
bursts nothing is out and nobody runs. `HandlerOK`: the handler finds the words it
counts. `RoomOK`: what is out fits into one FIFO, so none is ever dropped; during
a refill this needs to know which status the handler has read, and that RXMARK
is at most half of the FIFO. `LensOK`: the words that are out reach from `rlen` to
`tlen`, and the rest of the burst is a number of words. `ContentOK`: the buffer
has answers below `rlen` and the client's bytes above, and every word carries
the bytes of its place. The word length is 1, 2 or 4, and the products with it
are proved by cases. From it follows `SpiFullResult`. `SpiTcOnce` adds `OnceOK`:
before any refill, the transmit FIFO is empty exactly when TC is set or the
handler is at the words for which it was. `SpiTypeCorrect`, with data words of
one byte configured (the initial value), holds after time-outs too.

### Model-checked only

* `PostedSent`, `RingServed`, `RemovalCompletes` and `Completes`: liveness under
  fairness is out of the prover's reach.

Every invariant of a passing run, and the refinement, has a theorem.

## Plan

1. `Mx6xPhy`: MDIO access with its timeout, the resolution of flow control
   against the table of IEEE 802.3, the monitor callout, composed with `Mx6xTx`
   through the link state.
2. An abstract specification of a link that delivers frames at most once and in
   order, and refinement mappings from `Mx6xTx` and `Mx6xRx`.
