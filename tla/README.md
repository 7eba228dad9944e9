# TLA+ models of the MSP430FR5969 HAL

Models, model-checking runs and machine-checked proofs for the Rust `no_std`
hardware abstraction layer of the TI MSP430FR5969 in this repository. They are
about what the host-side unit tests and the on-target self-checks can hardly
reach: an interrupt between two register accesses, a byte that lands between a
test and the arming of a DMA channel, a wrap between two reads of a counter, a
button pressed in the gap before a sleep.

## The system

One core, no operating system. Concurrency comes from four sides:

* **hardware** that moves on by itself: the wire and the eUSCI shift registers,
  the timer, the port logic, the other end of a bus;
* **DMA channels** that read and write memory and peripheral registers between
  two accesses of the CPU;
* **interrupt handlers**, which run to their end with GIE off, and which clear the
  low-power bits of the interrupted context only when declared `wake_cpu`;
* **thread mode**, one `main`, which masks handlers with `critical_section::with`.

Shared state is of three kinds: registers whose bits hardware sets while software
rewrites the others, `Mutex<Cell<_>>` statics between a handler and `main`, and
buffers lent to a DMA channel.

### Inventory

| component | source (`src/`) | state | operations | what must hold | hard because of |
|---|---|---|---|---|---|
| receive queue | `hal/src/rx_queue.rs` | ring, two free-running `u16` indices, drop tally | new, push (ISR), pop (main), len, dropped | first in first out, nothing lost that was accepted, losses counted | index wrap, full queue |
| DMA | `hal/src/dma.rs` | per channel: DMAEN, DMAIFG, count, addresses, trigger | split, copy/fill, arm, disarm, remaining, wait, bounded wait, scrub, read_iv | out of the buffer when a call returns; a completion is reported | edge triggers, count that reloads, flag cleared by rewriting |
| UART | `hal/src/serial.rs`, `baud.rs` | RXBUF, TXBUF, shift register, flags | read, write, flush, DMA read and write, RX interrupt | the bytes, whole and in order; every call returns | CPU and DMA share one register; spent edges |
| I2C slave | `hal/src/i2c.rs`, `i2c_slave.rs` | START, STOP, RX and TX flags, `transmitting` | poll, wait_event, write_byte, interrupt helpers | bus events in order, no stale byte, SCL released | the master goes on between two accesses |
| I2C master | `hal/src/i2c.rs` | START, STOP and NACK bits, TXBUF, RXBUF | transaction (write, read, probe), stop, recover | a failed transfer is reported, the bus is left idle, a read returns its own bytes | NACK late, SCL held, STOP late |
| timer | `hal/src/timer.rs`, `ticks.rs` | TAxR, TAIFG, CCR0, CCR1, tally in the application | now, now32, capture, one-shot wake | a timestamp that was true; a wake on time | wrap between reads, target already past |
| GPIO interrupts | `hal/src/gpio.rs` | PxIE, PxIES, PxIFG | enable, disable, read_iv, clear, unlock | no edge lost or invented | read-modify-write of shared flags |
| low power | `hal/src/power.rs` | GIE, CPUOFF, regulator | enter LPM0, LPM3, LPM4, LPM3.5, LPM4.5 | a pending event ends the sleep | event serviced before the sleep; reboot out of LPMx.5 |
| SPI | `hal/src/spi.rs` | two channels, RXBUF, TXBUF | transfer, DMA transfer | every byte clocked out has its answer | order of arming |
| ADC, references | `hal/src/adc*.rs`, `ref_a.rs`, `tlv.rs` | sequence, trigger latch, results | single, sequence, repeated with DMA, window | results of the channel asked for; calls return | latch that only DMA clears |
| capture, PWM | `hal/src/capture*.rs`, `pwm.rs` | CCRn, COV | wait_edge, measure_period, set_duty | an overwritten capture is reported | edges faster than software |
| RTC | `hal/src/rtc*.rs` | calendar, alarm, RTCRDY | now, set, set_alarm, tick | a date that was true | update during the read |
| MPU, FRAM | `hal/src/mpu*.rs`, `fram*.rs` | segments, lock, violation flags | configure, write, handler | protected cells stay as they are | handler in the middle of a change |
| watchdog, reset | `hal/src/watchdog.rs`, `sys.rs` | interval, SYSRSTIV | hold, feed, reset causes | fed in time; every cause read once | resets at any moment |
| capacitive touch, comparator | `hal/src/captio*.rs`, `comp*.rs` | counts, thresholds | measure, search | a wrapped count is refused | gate longer than a wrap |
| clocks, delay, CRC, AES | `hal/src/clocks.rs`, ... | configuration | configure, compute | values right | arithmetic, covered by host tests |
| wake programs | `hal/examples/button_wake.rs`, `single_board_test_firmwares/` | shared mask | loop | a press is acted on | press in the gap before the sleep |
| two-board rig | `two_board_test_firmwares/`, `two_board_test_orchestrators/` | per board: the loop it is in, RXBUF, eUSCI_B0's owner; the host's phase and suite | READY, one-byte commands, sub-modes, sleep; identify, provision, suites | every command is heard and answered, whatever an aborted host left behind | a receiver of one byte, a board that sleeps, a slave that answers unpolled, no common clock |
| generated code | `pac/` | none | register access | - | generated, not modelled |

Interactions: `serial`, `spi` and `adc` drive `dma` channels and share their data
registers with them; `rx_queue` stands between a `serial` handler and `main`;
`timer` and `gpio` end sleeps entered through `power`; `i2c` and the two-board rig
talk to a peer that follows its own clock.

## The modules

| module | models | actors |
|---|---|---|
| `ByteFifo` | what the receive queue promises: a bounded FIFO with a saturating tally | - |
| `RxQueue` | `rx_queue.rs`, every operation, with indices modulo `IndexMod` | handler (`Push`), main (`Pop`) |
| `DmaChannel` | one channel in single-transfer mode, as operators on a record | - |
| `SerialDmaRx` | `Rx::read_exact_dma`, one action per register access | wire, channel, CPU |
| `SerialDmaTx` | `Tx::write_all_dma`, called again and again | transmitter, channel, CPU |
| `SpiDma` | the bus of `spi.rs`, polled and by DMA | shift register, two channels, CPU |
| `AdcDma` | `adc.rs`: conversions single, started, repeated, in sequence; `dma.rs`: the scrub and the bounded wait | converter, channel, CPU |
| `I2cSlave` | `I2cSlave::poll`, the flush, `write_byte` | master and silicon, slave loop |
| `I2cMaster` | `I2c::transaction`, `write_run`, `read_run`, the waits, `stop`, `recover` | silicon and slave, CPU |
| `Counter32` | `Counter::now32`, `TIMER0_A1`, `clear_overflow_irq` | clock, handler, caller |
| `TimerWake` | `schedule_wake_in`, `cancel_wake`, `clear_wake_irq` and an LPM3 sleep on the same counter | clock, two handlers, program |
| `Capture` | `wait_edge`, `measure_period_ticks`, `measure_span_ticks`, `measure_duty_permille`, `set_edge` | input, driver |
| `Rtc` | `now`, `set`, the alarm and `RTCCTL01`, `attach` | clock, handler, driver |
| `PortFlags` | the calls of `gpio.rs` that rewrite `PxIFG` | edges, handler, main |
| `ButtonWake` | pin interrupts, `enter_lpm4`, `button_wake.rs` | fingers, two handlers, main |
| `TwoBoard` | `two_board_fixture.rs` on both boards; `boards.rs`, `suites.rs`, `main.rs` of the host | two boards, host |

`SerialDmaRx`, `SerialDmaTx`, `SpiDma` and `AdcDma` extend `DmaChannel`; `RxQueue` instantiates
`ByteFifo` with the refinement mapping `queue <- Content`; `TimerWake` extends `Counter32` with the
compare channel and implements its specification. Modules named `MC...` fix the
constants for TLC, and modules named `..._proofs` hold the theorems.

The definitions marked "(mutation: ...)" before an action are deliberate
faults. No next-state relation uses them; put in the place of the definition
they precede, each makes one property fail, which shows that the property can.

**RxQueue.** Each call of `push` or `pop` runs in a critical section and is one
action. `head`, `tail`, `buf`, `dropped` are the fields; `sent`, `accepted` and `popped`
are histories. `VALID` (a power of two, at most 256) becomes the weaker assumption
that the capacity divides the number of index values and is smaller.

**DmaChannel.** A trigger counts only if the channel is armed when it rises; the
last item disarms the channel, raises DMAIFG and reloads the count, which is what
`remaining()` reads. A channel is a record, and each driver keeps its own.

**SerialDmaRx.** `pc` follows the register accesses of the call: the test of the
drain loop, STATW, RXBUF, the arming (whose single enabling write is the
action), UCRXIFG and DMAxSZ of the re-check, the wait. The wire may land a byte
between any two of them, because an interrupt handler may delay the CPU by any
time. What the comments of the code grant is granted: the channel moves a byte
before the CPU's next access, and before the next byte lands.

**SerialDmaTx.** TXIFG is up exactly when TXBUF is empty. CPU and channel both write
TXBUF; a write to an occupied TXBUF destroys a byte, and only the order of the CPU's
steps prevents it.

**I2cSlave.** The master drives segments, each opened by START or repeated START.
SCL stretching holds up data bytes and nothing else: START and STOP set their flags
at once. One action is one register access of `poll`; `Decide` is what a single
reading of UCBxIFG selects. Bytes to the slave are numbered by their place in the
history of the bus, bytes from it by the segment they were supplied for.
`PromptPolling` states how slow the loop may be: it polls a START before
more than the end of its transaction happens on the bus, the STOP of a master-read
before the next START, and one STOP before the next. `RestartAfterRead` lets the
master end a read by a repeated START.

**I2cMaster.** A transaction is a sequence of runs, each with its direction and its
length: `transaction` groups adjacent operations of one direction, and `write_run` and
`read_run` go through the bytes of the group as one stream. `pc` follows the register
accesses. The slave may ACK or NACK its address and every byte, and may hold SCL for ever.
`wait` ends early on the clock-low timer or on its poll budget; `GiveUp` may happen at any
time while what the call waits for is missing, which covers both. Of the silicon
the model takes what the code relies on: START and STOP take effect between two
bytes, a NACK holds the bus and drops TXBUF, START raises UCTXIFG, a reset
empties the buffers but not the two requests (comment in `recover`). With `Prompt`, the
request of STOP before the last byte of a read comes before that byte has been clocked in.

**Counter32.** The hardware wraps after `W` ticks and the tally after `H`; the true
time is kept in the history variable `laps`. The one assumption on the application is
the one `clear_overflow_irq` states: no second wrap while one is still flagged. The
tally's update and the clear of the flag are two steps, between which the clock ticks
on.

**TimerWake.** CCR0, CCIE and CCIFG join the counter; CCIFG rises whenever the counter meets CCR0,
also when nobody asked. The program reads t0, calls `schedule_wake_in` (three steps: the target,
CCR0, CCTL0), sleeps and measures, as `deep_sleep_test_firmware.rs` does, or cancels. GIE is set all
the time, so `DelayAssumption` states what such a program needs: it is asleep before its target comes,
and it is served and measures before the counter has gone round. An interval of 0 or 1, or a handler
that holds the program up for longer than its interval, is outside the assumption; there the code
sleeps for a whole period more, or for ever, and no property of a run says anything of it.

**SpiDma.** A call is a list of passes; `transfer_dma` with slices of different lengths makes two. The
order of the steps is that of the code: wait for TXBUF, drain RXBUF, arm the receive channel, arm the
transmit channel, write the first byte. The channel that feeds reads the memory of
`transfer_in_place_dma` when its edge comes, while the other one writes there.

**AdcDma.** The trigger latch is set by a conversion and reset by the DMA transfer it triggered and by
nothing else; a channel armed under a set latch is deaf, which is what the scrub is for. A repeated
conversion ends only when ADC12ENC is cleared, and its last conversion is under way then. The bounded
wait disarms by read-modify-write: `torn` marks the window in which its answer is not honest.

**Capture.** Time is reduced to the order of edges: a timestamp is the number of its edge, odd edges
rise. A wait may time out whenever it finds nothing. `missed` counts the edges that came where the
driver does not look.

**Rtc.** The calendar has a few fields of a few values; while RTCRDY is low a read returns anything.
Every change of `RTCCTL01` is a read and a write, between which the clock raises flags and the handler
takes them (`raced`).

**PortFlags.** Every call clears or sets one bit of `PxIFG` by writing all of them, with interrupts off
but with the pins live. A handler takes flags by `read_iv` or by `clear_irq`.

**ButtonWake.** One button per port, as on the board. A handler is one action, as
nothing interrupts it; a press may come at any moment. `EnterLpm4` sets GIE and stops
the CPU in one step, and GIE stays set afterwards, as it does on the chip.

**TwoBoard.** `mode` is the loop, or the stretch of code that does not poll, a board is in; `rx` is
RXBUF, where a second byte before the first is polled becomes an overrun, which `poll_cmd` reads as no
command. A suite is the sequence of its steps, read off `suites.rs`: send, sleep, expect a line with a
value. The host may be aborted before any of them, and the next one flashes the boards or takes them as
they are. An `m` test, a `t` pattern and a `p` burst are `Burst` exchanges with the other board, which
serves them or does not.

`q` takes a board out of the serve loop and leaves its I2C slave enabled. A transaction of an `m` burst with a
slave nobody polls (`Exchange`) is either acknowledged and ends, its STOP `latched` until the slave is polled
again, or is stretched until the master gives up, and then the bus may stay `held` for those after it. `s` takes
the block up as it is (`two_board_fixture.rs:306`): `tainted` records that something was latched then, and a
latched STOP is the first thing counted. `m` on the same board and a flash reset the block. A suite
whose lines are not the ones it expects fails (`phase` is `failed`), the I2C bridge after the post-mortem of
`suites.rs:123-133`. The verdict lines of a burst are merged into the value of its last line: after the first
that fails, `expect_exact` drains lines for a second, and what is left of a burst takes less, its lines and
clock-low timeouts included.

Time is kept only where the code relies on it. `Drained`: the sleeps of 50 and 100 ms, and the two seconds of a read that
times out, outlast the polling of a board (10 ms) and its answer. `Sleep500`: a board told to sleep is
asleep 500 ms later. `StartsSlowly`: starting the host anew takes longer than a byte or the A1 pattern. It leaves out a start
during the pattern because what the pattern leaves in the receiver of eUSCI_A1 is not modelled; an I2C burst or
pulses may be under way when a host starts.
`Announce`: the first READY comes a second after the boot.
The panic that a board ends in is a mode of its own, as its loop answers nothing.

Three things the model says of the rig: a board left in LPM4 by an aborted `lpm4_wake` is not called
back by `q`, as nothing polls (`RunsEnd` excepts it, and a flash or a pulse of the peer ends it). The
comment at `suites.rs:195-197`, that a board not asleep yet "would still count the edge", holds only
after `enable_interrupt`, which drops an earlier edge; one that comes between it and the sleep
is counted, but GIE is set, so the handler runs first and the board sleeps on. And
`two_board_fixture.rs:401-403` waits 5 ms because "flush() waits for TXBUF, not the shift register",
which `serial.rs:694` contradicts: the wait is harmless.

## The runs

| run | expects | shows |
|---|---|---|
| `Reception` | pass | Queue: order, no loss, honest tally, refinement of `ByteFifo`; capacity 2, indices modulo 4, tally to 2, seven bytes: every index wraps, and the tally saturates with calls to spare. DMA: what `read_exact_dma` returns is the stream, the channel is out of the buffer, the call returns; buffers of up to four bytes, so that bytes go by CPU and by DMA in every division. Rig: no command lost, no verdict spoiled (but the I2C bridge's, behind a slave taken up with something latched), every run of the host ends; two boards, bursts of two, any number of hosts, aborted anywhere, with any choice of the seven suites. 213 thousand states |
| `SerialDmaRxSurplus` | violation | one byte beyond the buffer makes the re-check take a completed transfer for an untouched one |
| `DmaClients` | pass | the three drivers that wait for a channel. Transmitter: bursts of up to four bytes, eight in all, in every combination: order, acceptance at return. SPI: slices of up to four bytes, each length with each other: the exchange is the slices', the bus quiet at return. Converter: three calls of any kind with up to three members: results are the call's own, the bounded wait is honest. All: every call returns |
| `I2c` | pass | Master: every call returns with the bus idle, success means ACKed (but for the last byte of a write), no stale byte and no stale NACK; three calls in a row, each a probe, a write, a read or a write turned into a read, of up to three bytes: what one call leaves behind in a flag or buffer can mislead the next two. Slave: event order, no stale byte, every transaction ends, every event is delivered; four segments of up to two bytes: two transactions with a repeated START each |
| `I2cSlaveSlow` | violation | with a slow loop, a byte is delivered before the Start it belongs to |
| `I2cSlaveRestart` | violation | a repeated START goes around the flush of TXBUF |
| `I2cMasterNack` | violation | a NACK of the last byte written is reported as success |
| `Interrupts` | pass | Counter: the tally follows the wraps, `now32` is linearizable with wakes beside it, a wake is on time and its sleep ends; six ticks per wrap, three wraps to the tally's own, sleeps of two and three ticks, with no bound on the run: every position of a call in the period, calls longer than a period, a target that comes round again. Capture: two calls of up to three stamps, seven edges. Calendar: three fields of two values and two alarms, no bound: every carry, at every step of `now`, `set` and `set_alarm`. Wake program: no press lost or invented, a latched press ends the sleep; two buttons, no bound. One port: an edge is lost only inside the rewrite of a sibling's flag; three pins: the one a call is for, the one a handler serves, and a bystander |
| `ButtonWakeGap` | violation | from the second round of the loop on, the CPU can sleep on a press already taken from the latch |
| `Provision` | violation | a READY that races the probe lets `provision` send `P` behind an `i` that is still unread, and both are lost |
| `I2cBridgeTally` | violation | a host is aborted during `m`, the `q` of the next one leaves the child's slave unpolled while the burst goes on, and its `i2c_bridge` reads a tally one too high, with every verdict of the gauntlet OK |
| `TerminalCommands` | violation | `m`, `s`, `m`: the refused `s` loses eUSCI_B0, and the next `m` panics |

Every passing run holds several components that share no state, so that a behaviour of all of them is a merge
of one of each. The variable `unit` chooses, in the initial state, the one that moves; the
others stand still. An invariant of one of them is checked in every state it can reach, and TLC has the
sum of the state spaces to search, not the product.

Deadlock is checked for `ButtonWakeGap`, whose program never stops. The others stop by
design: their bounds (`MaxSent`, `MaxLen`, `MaxBytes`, `AdcCalls`, `MaxSegments`, `MaxCalls`, `MaxEdges`) run
out, the one call they model returns, or nobody types.

### Fairness

* `Reception`, `DmaClients`: weak fairness of the CPU inside a call (it has nothing else to do),
  of channels, shift registers and converter (hardware), and, for reception, of the peer, which
  sends what the caller asked for. In the rig, weak fairness of each board's CPU, of the wires, and of
  the host, which once started goes on to its next step or is aborted. No fairness for starts, aborts and
  announcements. Nobody is obliged to call.
* `I2c`, the slave: weak fairness of the polling loop, of the silicon's transfers and of the
  master's STOP once it may send it. No fairness for START.
* `I2c`, the master: weak fairness of the CPU only, which runs the call and nothing else. The bus owes
  nothing: that `wait` gives up is all `CallsReturn` rests on.
* `Interrupts`, what keeps time: weak fairness of the counter, of the two handlers, of the program between its call of
  `schedule_wake_in` and the measurement, and of a timestamp once begun. Nobody is obliged to take a
  timestamp or to schedule a wake.
* `Interrupts`, the wake program: weak fairness of main and of each handler: an enabled interrupt is
  taken when GIE is set. None for presses.

### What the violations say

Each is explained in `PROJECT.json` under `findings`, with the comment it contradicts:
`serial.rs:582`, `i2c.rs:508`, `i2c.rs:778`, `i2c.rs:798`, `button_wake.rs:104`, `main.rs:114` of the
two-board host, and `two_board_fixture.rs:306` and `310`. The comment of
`rx_queue.rs:14-17`, that whatever is popped is a prefix of what was sent, holds as
long as the tally has not moved (`PrefixUntilDrop`): after a refusal, later bytes are
accepted again and the stream has a hole, of which the tally is the only witness.

### What the comments say, and where it stops

Some statements of the comments hold with a restriction. The models keep the restriction visible, as
a history variable that a property names, and the runs show that nothing else breaks the statement.

* `capture.rs:52-56` and `638-640`: an edge that overwrites a stamp is reported through COV if it comes
  before the test at line 538. One between that test and the clear at line 527 with which the next wait
  begins is not, and the two stamps around it are paired: `measure_period_ticks` is then an interval too
  long, and `measure_duty_permille` may pair a rise with a later fall. `missed` counts them.
* `rtc.rs:224-229`: the two looks at RTCRDY bracket the reads unless the whole low time of RTCRDY falls
  between them, which takes an interrupt handler of that length, or the driver at a very slow clock
  (`slipped`).
* `rtc.rs:476`: the enables and the flags of `RTCCTL01` are disjoint bits, but one byte; an alarm that
  fires inside the rewrite is lost (`raced`).
* `boards.rs:88-91` and `100-103`: `q` brings a board back from whatever an aborted run left it in, and no
  suite but one can tell. The exception is the I2C slave, whose block `q` leaves enabled (`tainted`).
* `gpio.rs:447-452`: `clear_irq` clears its own pin, and also an edge on a sibling that comes between its
  read and its write (`raced`).
* `dma.rs:696-697`: the bounded wait is right about what it calls incomplete, except for a completion
  inside the rewrite of its disarm (`torn`).
* `adc.rs:527`: `start_conversion` does not drain the flag of MEM0, so a conversion that is started twice
  and collected once hands out the older result (`Settled` leaves that use out).

## The proofs

All theorems hold for every value of the constants that the named assumptions admit.

* `RxQueue_proofs`, from `CapacityAssumption` and `DataAssumption`. The inductive
  invariant joins the type, `Length <= N`, `NothingLost`, the honest tally and the
  fact that until the tally moves everything sent was accepted. `NothingLost` alone
  is not inductive: without `Length <= N` a push could write the slot of the oldest
  byte. The work is in showing that the slots of N consecutive indices differ although
  the indices wrap, which is where `N` divides `IndexMod`. `Refinement` maps each step to a
  step of `ByteFifo` or a stutter.
* `SerialDmaRx_proofs`, for buffers of every length. `ChannelInv`, with any surplus, ties the channel to the
  place in the call: armed or done in the wait and in the re-check, off everywhere else.
  With no surplus, `StreamInv` says that an armed channel is in one of two situations: the
  byte in RXBUF came before the arming, so that no edge will come while it is there
  (`EdgeMissed`), or each byte was moved before the next one landed (`EdgesServed`). In the first
  the count is full, and in the second RXIFG is down at every access of the CPU: this is why
  the re-check can tell them apart. `UntouchedInv` counts what landed against what was written,
  and so gives `DisarmOnlyUntouched` whatever the bytes are. With a surplus it fails, which is
  the violation above.
* `TwoBoard_proofs`, for bursts of every length. `RigInv` has four parts, each inductive only with the others.
  * `SuiteInv` follows the host through a script: for every place in it, it says what the two boards are doing and
    what is under way between them. It does so once for all suites. A script is made of parts, a question, a
    measurement, a session in which one board serves while the other drives, and a night that the other board
    ends; `Scripts` is the largest set of sequences made of them, and `SuitesRun` that each of the seven suites
    is in it. Where a suite is in its script is then which part is at the front of `todo`, and how far it has
    gone: a command on the wire, in RXBUF, being worked on, or answered behind at most one announcement.
  * `HostInv` is about `identify`: the `q` is polled, or waits at a board that does not poll, before the `i` is sent;
    no more than two lines can come back; and nothing is said to the board that is not asked.
  * `BoardInv` is what remains of a host that was aborted: a board away from its loop has in RXBUF what
    `identify` sends, or an overrun, so that it comes back to the idle loop; eUSCI_B0 is never taken out for good,
    since only the child is told to serve and only the parent to drive; and a tally with what is still to come
    fits in the burst, or exceeds it by the one STOP that its slave was taken up with.
  * A session of the I2C bridge is therefore one of two kinds: sound, when nothing was latched as the slave was taken
    up, and then its verdict and its tally are the ones asserted; or spoiled, when `tainted` says so, and then the
    script may leave for the post-mortem or fail on the tally, and the commands of the way out are heard as well.
  * From it follow `CommandsHeard`, `VerdictsHonest`, `TypeOK`, and `SuitesNeverPanic`: the panic of
    `TerminalCommands` takes a hand at a terminal.
* `Reception_proofs` shows that the run `Reception` implements the DMA call, with a peer that sends what the buffer
  holds, and the rig, and so that their properties hold in it. That the channel is out of the buffer when more
  comes is `OutOfBufferCorrect` of `SerialDmaRx_proofs`.
* `DmaClients_proofs`, from `BoundsAssumption` and the length and count assumptions of `MCDmaClients`.
  * The transmitter (`SerialDmaTx`), for bursts of every length: `Phase` says at every point of the call how
    many bytes were written to TXBUF, and that while the channel is armed an edge is pending exactly when TXBUF
    is empty: so no write, of CPU or channel, meets an occupied TXBUF. `InOrder` and `AcceptedWhenDone`
    follow.
  * SPI, for slices of every length: `SpiInv` counts each byte once on its way through the pass, from what
    was put into TXBUF over the shift register to what was stored. The channel that stores is never
    overtaken by the one that feeds, so `transfer_in_place_dma` may read and write one memory, and when a call
    returns nothing is left on the way. `Exchanged` and `QuietAtReturn` follow.
  * The converter, for any number of calls, and of members of a sequence: `AdcInv` says which conversions can be
    under way, flagged, latched or in MEMx at each place of the call, and that everything older has been scrubbed
    before the call reads its first result. `OwnResults` and `HonestReport` follow.
* `I2c_proofs`, from `TransactionsAssumption` and `SegmentsAssumption`.
  * The master: any transactions, any number of calls, any slave, and with or without `Prompt`. `BusInv` follows
    a requested STOP from its request to the end of the call; `NackInv` says at which points of the call
    the flag can be trusted; `SentInv` says of a write run that what was written is ACKed but for
    the bytes in TXBUF and in the shift register, in this order. `FreshReadCorrect` has two hypotheses of its
    own: `Prompt`, and `ReadsLast`, that a read is the last run of its transaction and reads something. Without
    them the code leaves a byte in RXBUF (see "Not modelled"). `FreshInv` says that a run begins with nothing of
    the one before but the last byte of a write, and of a read that the bus goes idle behind its last byte.
  * The slave, polled in time, with reads that end by STOP, as in the run; for any number of segments and of bytes.
    `SlaveDeliveryInv` is the heart of it: what was put on the bus is what was delivered, and then what RXBUF and
    the flags still hold, in that order. `SlaveBusInv` and `SlavePollInv` say which flags can be up together
    with which state of the bus, and so why the order in which `poll` looks at them is the order of the
    bus; `SlaveReadInv`, that the byte being clocked out was supplied for this read.
* `Timers_proofs`, from `WidthAssumption`, `DelayAssumption` and the assumptions of `MCInterrupts`.
  * The timestamp: `Linearizable` needs to know, at every step of the call, which times have already passed: the
    invariant says that the present time is always in the window, that after `Enter` the tally copied belongs to
    the present lap unless a wrap is flagged, and that after `Recount` the pair <<tally, count>> is in the window.
  * The wake: `WakeInv` follows the distance from the counter to the target through the steps of the program; it is
    needed because `WakesOnTime` says nothing while the program sleeps. `WakeImplementsCounter` is a refinement:
    the counter with the compare channel beside it does nothing `Counter32` does not allow, so `Linearizable`
    carries over (`TimestampBesideWakes`).
  * The capture, for spans of any number of periods: `CapChannelInv` says which edge the stamp in CCR is, `CapSumInv` that
    the stamps taken and the edges missed add up to the edges that came, and `CapPulseInv` the same of the
    three stamps of a pulse.
  * The calendar, for any number of fields and values: a reader between the two looks at RTCRDY has read fields of one
    time (`slipped` excepted), and the flag of the alarm is up exactly when the alarm matched and nobody has taken
    it, outside a rewrite of `RTCCTL01`.
* `PortInterrupts_proofs`. The wake program, for any set of buttons: the invariant adds that nothing can run
  between `ReadMask` and `ClearMask` because GIE is off. The port, for every number of pins: the image a
  rewrite holds contains only flags that are still up, an edge it does not contain is in `raced`, and
  critical sections keep two rewrites apart; from these follows that no other edge is lost.

A run that holds several components has them beside each other, so each of its steps is a step of one of them and
leaves the others alone: this is a refinement with no mapping to speak of (`SpiRefined`, `SlaveRefined`, ...), and it
carries the theorems about a component over to the properties the run checks.

Every invariant that a passing run checks is proved. Only model-checked are the liveness properties, since
the prover has no rules for fairness and ENABLED, and what the violations show, which is a matter of a behaviour
that exists. No module here needs a recursive operator.
The inductive invariants are in the proof modules, as nothing else uses them.

## Not modelled, and why

The peripheral access crate is 73 of the 103 thousand lines of the repository: generated register
accessors without behaviour of their own. What is modelled is a part of the other 30 thousand, of which
wiring, register setup, arithmetic with host tests, and self-checks that print what they measure
make up most. `PROJECT.json` says of each component what is left out; in short:

Register layout, pin multiplexing, baud and clock arithmetic, unit conversions (pure
functions with host tests); formatting and output of the self-checks; the
generated crate; blocking data-path hardware (CRC, AES). STATW error bits other than the
overrun do not change the control flow. In `read_exact_dma` the window of one instruction
between STATW and RXBUF is in the model (`torn`), and the properties are stated for runs that
do not hit it: there the silicon itself replaces the byte.

Of the I2C master, a read of nothing and a read followed by a write within one transaction are
not among the transactions of the runs: both leave a byte the slave has sent in RXBUF, and the next
read returns it first. So does a NACK of the last byte of a write that arrives just after the flag was
cleared for the read that follows; `FreshRead` excepts it through `lastNacked`.

Of the drivers in the models, `init` and `new` are left out (they run before anything else does), and
so are the software capture on CCR1 and `enable_overflow_interrupt`, called once before the first
timestamp; the window comparator; block copies by DMA; the prescaler interrupts of the calendar;
and the software-fired capture.
LPMx.5 ends in a reset: nothing runs beside the boot that follows, whose order (pins configured, then
unlocked, then the wake flag read) the application chooses.
Watchdog, MPU, capacitive touch and comparator are sequences of register writes, most under a
password, with a handler that counts or a loop that waits.

Of the rig, the record of the role in FRAM and an unprovisioned board are left out, the firmware
revision, unknown bytes, the values measured, the dumps after a failure, and bytes left in the receiver
of eUSCI_A1, which the initiator drains and the echoing board may count.

## Plan

What would be worth adding, in this order:

1. The software capture on CCR1 beside the one-shot wake and the overflow, on the same counter.
2. The window comparator of the converter, with its interrupt beside a conversion.
3. The boot after LPMx.5, with the reset causes, the pin latch and the calendar that went on.
4. The MPU's violation handler against a reconfiguration.
