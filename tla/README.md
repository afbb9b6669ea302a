# Formal models of ticktrace

ticktrace (`src/`) is an SDK for the RP2350 written in Thumb-2 assembly: drivers
for the chip's peripherals, a USB CDC stack, an interrupt-driven task scheduler,
a lock-free byte queue and a two-stage A/B bootloader, with C and Rust bridges and
three Rust programs on top.  This directory holds TLA+ models of the parts whose correctness depends on
interleaving, ordering, resets and power loss, the TLC configurations that check
them, and proofs checked by TLAPS.  File and line references are to the tree
under `src/`; `PROJECT.json` maps every definition to the lines it models.

## 1. Inventory

Everything runs on one Cortex-M33 core: thread code, and interrupt handlers that
preempt it (and each other, by priority) between any two instructions.  Nothing
is shared between cores except through the SIO FIFO and spinlocks.  So a model's
*step* is a run of instructions with at most one access to shared state, wherever
a handler, the host or the hardware can come in between.  Where the only other
actor is a peripheral (I2C, SPI, the UART), the step is one turn of a polling loop.

| Component (source) | State | Operations | What is hard | Correct means |
|---|---|---|---|---|
| Byte queue (`spsc.S`, `spsc.inc`) | `head`, `tail`, `mask`, data | `spsc_byte_push`, `_pop`, `_count`, `spsc_reset` | two sides, no lock; index wrap; counts read in two loads | a bounded FIFO; a slot never has two users |
| Scheduler (`sched.S`, `sched.inc`) | NVIC enable, pending, priority registers, vectors, PRIMASK, BASEPRI | `sched_init`, `task_create`, `task_post(_n)`, `task_clear`, `sched_run`, `critical_enter/exit(_basepri)` | preemption between the stores of a creation and between reading and setting a mask; nested sections; starvation | run to completion within a priority; sections keep out what they promise |
| NVIC, start-up (`nvic.S`, `startup.S`) | vector table in flash and RAM | install, enable, disable, set priority | table size against interrupt numbers | the handler entered is the one installed |
| USB CDC data (`usb.S`) | TX and RX rings, `cdc_in_busy`, toggles, EP1 buffers and `buf_ctrl` | `cdc_putc`, `cdc_getc`, `_cdc_try_flush_tx`, `_cdc_drain_ep1_out`, handler | thread, handler and host all touch the endpoint | bytes in order, none lost but to a full ring, no wedge |
| USB control (`usb.S`) | pending address, multi-packet IN, `usb_setlc_pending`, `cdc_dtr`, EP0 | `_usb_handle_setup`, `_usb_handle_buff_status`, bus reset | shared EP0 buffer, deferred actions, abandoned transfers | enumeration completes; address changes at the right moment; BOOTSEL only when asked |
| Boot chain (`ssbl.S`, `tsbl_ab.S`, `boot_api.S`) | flash slots and footers, watchdog scratch 6 and 7 | validate, select, mark attempt, hand off, confirm, request | power loss in an update, watchdog resets, rollback | never a torn image; a failed slot is not retried; a healthy slot is reached |
| Watchdog (`watchdog.S`) | LOAD, CTRL, scratch | enable, disable, feed | width of the counter | fires when not fed |
| CRC-32, SHA-256 (`crc32.S`, `sha256.S`) | none | compute | padding and lengths at boundaries | equals the standard function |
| Packing tools (`tools/`) | none | footer, UF2 blocks | order and addresses of blocks | what the bootloader validates |
| Multicore, spinlocks (`multicore.S`, `spinlock.S`) | SIO FIFO, launch sequence, lock registers | drain, push, pop, launch, lock | stale words, restarts, WFE wake-ups | core 1 starts with the three values given |
| Scheduler statistics (`sched_stats.S`, `trace.S`) | counters per task | trampolines, getters, reset | read-modify-write around preemption | every invocation counted once |
| Rust runtime (`rp-asm-rt`, `runtime.S`) | `HEAP_NEXT`, `.bss` | `alloc`, `heap_used`, `entry!`, `panic_blink` | compare-and-swap races with handlers, the limit, alignment; what survives a warm reset | blocks disjoint and aligned; a call is refused only when nothing fits; statics start from zero |
| Rust HAL (`rp-asm-hal`) | none of its own | `I2cBus::transaction`, the `SpiBus` calls, `Delay`, `Uart`, `Pin`, `PwmChannel` | operations that fail half-way, slices sent and received in place, `u64` cut to `u32` | Ok and Err mean what happened on the wire; nothing is left for the next call |
| Rust programs (`rust_apps`) | a counter, the LED, the display | bring-up, greeting, counting, drawing, measuring, waiting, panicking | order of the bring-up, resets, absent sensors, reads that never return, number formatting | output at the right baud rate, numbers that read back, signs of life |
| I2C (`i2c.S`) | controller FIFOs, TX_ABRT | blocking write and read, with and without STOP | targets that refuse, FIFOs longer and shorter than the transfer | every byte once and in order; every call returns |
| SPI (`spi.S`) | PL022 FIFOs and shift register | blocking write, read, write-read | the two FIFOs run apart; a full RX FIFO loses bytes | every byte once and in order; idle on return |
| UART (`uart.S`), clocks (`clocks.S`, `pll.S`, `xosc.S`) | TX FIFO, baud divisors; which sources run | init, output, baud fixup; enable and poll | order; divisors for another clock | intelligible output |
| Timer, DWT (`timer.S`, `tick.S`, `systick.S`, `trace.S`) | latch, alarms, CYCCNT | time, delay, alarm set, cancel, clear | wrap, shared latch, stale flags | delays at least as long as asked |
| DMA, GPIO, PWM, PIO, ADC, TRNG, OTP, QMI, POWMAN, boot ROM | registers | setters, polling | little beyond register values | - |

How they interact: tasks, handlers and the main loop call each other only through
the scheduler (a post is an NVIC pend), through byte queues, and through the USB
rings.  The application reaches the bootloader only through the watchdog scratch
registers and flash, across a reset.  A Rust program reaches the drivers through
the HAL, which calls one assembly routine per operation and turns its return value
into Ok or Err, and owes its statics to the runtime.

## 2. Modules

| Module | Models | Kind |
|---|---|---|
| `ByteFifo` | what a byte queue promises | abstract specification |
| `Spsc` | `spsc.S`, one action per memory access of each side | refines `ByteFifo` |
| `SpscProofs` | theorems about `Spsc` | proofs |
| `Sched` | `sched.S`, with what it uses of `nvic.S` and `startup.S`, over a model of NVIC dispatch | component |
| `SchedProofs` | theorems about `Sched` | proofs |
| `UsbCdc` | the EP1 data path of `usb.S` | component |
| `UsbCdcProofs` | theorems about `UsbCdc` | proofs |
| `UsbControl` | the EP0 control path of `usb.S` | component |
| `UsbControlProofs` | theorems about `UsbControl` | proofs |
| `AbPolicy` | what the A/B bootloader promises | abstract specification |
| `BootChain` | `ssbl.S`, `tsbl_ab.S`, `boot_api.S`, `watchdog.S`, updates and power cycles | refines `AbPolicy` |
| `BootChainProofs` | theorems about `BootChain` | proofs |
| `Heap` | what a heap that never frees promises | abstract specification |
| `BumpHeap` | the allocator of `rp-asm-rt` under preemption | refines `Heap` |
| `BumpHeapProofs` | theorems about `BumpHeap` | proofs |
| `I2cTransaction` | `I2cBus::transaction` over `i2c.S`, with controller and target | composition |
| `SpiTransfer` | the `SpiBus` calls over `spi.S`, with the PL022 | composition |
| `BusProofs` | theorems about `I2cTransaction`, and as `Spi!` about `SpiTransfer` | proofs |
| `RustApps` | the three Rust programs, runtime and HAL, clocks and UART | composition |
| `RustAppsProofs` | theorems about `RustApps` | proofs |
| `MC...` | constants of the TLC instances | model checking |

**Spsc.** `head`, `tail` and `data` are the queue's words; the other variables are
the registers and places of the producer and of the consumer.  Push is four
actions (load head, load tail and test, store the byte, publish), pop four, count
two on either side.  `spsc_reset` "is NOT safe to call concurrently with push /
pop", and is taken only when both sides are idle.  `Contents` is the refinement
mapping to `ByteFifo`.

**Sched.** `stack` holds the active contexts, `main` first and then the handlers that
preempted it.  `Enter(l)` is the hardware taking the best pending, enabled line
whose priority beats every active handler, PRIMASK and BASEPRI; `Return` is the
exception return.  Every context makes kernel calls, of which `task_create` is
three actions (vector, priority, enable) and the enter functions two (read the
mask, set it).  A device line stands for any other interrupt; it may pend
spontaneously.  `asked` remembers the priority `task_create` was given.  Memory
past the vector table is modelled by `NeighbourStore`: a store to the variable
that happens to lie there.

**UsbCdc.** Thread code is one place in `cdc_putc` or `cdc_getc` at a time; the handler is
another, and while it is active the thread stands still.  `_cdc_try_flush_tx` is
written once and parameterised by who runs it.  The host completes IN and OUT
transactions whenever the endpoint is armed and the toggle fits, configures the
device and resets the bus.  Bytes are numbered, so that order, loss and
duplication can be told from what is received.  `QuickHost` says whether a
transaction may complete while the routine that armed the endpoint is still in
its next few instructions; `Reconfigure` whether SET_CONFIGURATION may come twice.

**UsbControl.** The handler runs a block of `usb_device_isr` at a time.  The host runs
control transfers stage by stage, with the toggles of the USB specification; it
may abandon a transfer for a new SETUP and reset the bus.  `LateIsr` says whether
a SETUP may arrive before the handler is done with the transfer before it.  An answer
is a sequence of packets; the EP0 buffer holds "answer", "baud1200" or "otherBaud",
which is all the 1200-baud test can tell apart.

**BootChain.** Flash is three slots (TSBL, A, B) of pages and a footer; a page holds a
piece of one build.  `Valid` is `tsbl_validate`: magic, size bound and CRC, where
the CRC matches when every page covered is of the build the footer describes.
`SsblCheck`, `TsblValidateA/B`, `TsblSelect`, `TsblMark` and `TsblHandoff` are the
steps of the boot; the application confirms, requests DFU, arms the watchdog, or
hangs; the watchdog fires; power goes off at any point; BOOTSEL writes an update page by
page in the order `firmware.Pack` emits its blocks.  `Wired` says whether
PSM_WDSEL has been written, without which the watchdog resets nothing.

**BumpHeap.** Each context (main, and the handlers stacked on it) has its place in
`alloc`: load `HEAP_NEXT`, compute, try the swap.  Only the innermost context runs.
`compare_exchange_weak` may fail after an exception although the word has not changed,
as LDREX/STREX do.  The mapping to `Heap` answers a call at its swap, or at the test
that refuses it.  `Base` is where the linker puts `HEAP`; `BaseAligned` says that
this suits every layout asked for, which `align(8)` gives for layouts up to 8 only.

**I2cTransaction.** The CPU runs one driver call per operation: disable and enable
the controller, push a command whenever TFNF, pop whenever RFNE, wait for the
master to be idle, look at TX_ABRT.  The controller takes commands from its FIFO,
sends the address first after it was enabled, and may meet a NACK at the address
or at any byte written.  `wire` records what went over the bus.  It is taken from
`docs/i2c.md:139-155` that the controller keeps the bus over the IC_ENABLE toggle when no
STOP was asked for, and reports MST_ACTIVITY while commands are left.

**SpiTransfer.** A turn of the blocking loops sends if TNF and receives if RNE; the
write loop drains.  The PL022 moves a byte from the TX FIFO to the shift register
and, a frame later, one byte to MOSI and one to the RX FIFO, which loses it when
full.  Frames are slower than a turn of the loop; `Late` bounds how many frames
interrupts can make the CPU fall behind in one call.

**RustApps.** `Calls` lists the bring-up calls of each program in the order of its source;
a call that polls is two actions, enable and ready, and the hardware settles in
between in its own time.  `Restarted` is a warm reset: every peripheral off, SRAM as it
was.  `shown`, `heard` and `slept` record what an observer of the display, of the UART and
of a clock sees.  What the display and sensor crates compute is external: they answer Ok
or Err, or panic, or never return.  The last is the read of `i2c_nack` below: a sensor that
refuses its address for a read leaves `bme280_demo` at `i2c.S:470` (`ReadHangs`, `Spins`),
in `sensor.init` or in `read_sample`, until a reset.  The display is only written to, and
a write that is refused returns Err.  These programs enable no interrupt, so no RX FIFO overflows under them.
`Cycles` is taken modulo 2^32 as `delay_ns` takes it; a `u32` of nanoseconds at 1000 MHz
or less never needs it.

USB control and data are separate modules because they share no variable but the
two events (SET_CONFIGURATION, bus reset) that `UsbCdc` keeps.

## 3. Runs

Passing runs:

| Run | Instance | Shows |
|---|---|---|
| `spsc` | 4 slots (the smallest queue the macro declares), 2 byte values | `IsFifo` (refinement), `NoSharedSlot`, `CountsAreSafe`; indices wrap without bound, the ring fills and empties |
| `sched` | 2 tasks (1, and 4, which has no vector table entry of its own), 1 device line, 3 priorities in every assignment, 2 thresholds, 4 calls by `main`, 1 by each activation, sections nested to 2 | `OnlyHigherPreempts`, `EntersAsCreated`, `SectionsHold`, `MasksRestored`, and the liveness property `OnlyBetterLinesStarve` |
| `cdc` | rings of 4, packets of 2, 5 bytes out and 4 in | `StreamsIntact`, `NoStomp`, `TogglesAgree`, and the liveness property `Delivered` |
| `cdc_reset` | the same rings, 3 bytes out, 1 in, 2 bus resets | `OutAlive`, `TxDrains`: neither direction is wedged by a reset at any point |
| `control` | 4 transfers out of every kind of request, one of them may be abandoned, 1 bus reset | `AddressAfterStatus`, `AddressAgrees`, `AnswersIntact`, `BootselExactlyWhenAsked`, `TransfersComplete` |
| `boot` | every factory state of three slots of 2 pages, 2 builds (one hangs), 2 updates, 2 power cycles | `NoTornImage`, `NoRetry`, `ImplementsPolicy` (refinement), and the liveness property `RollbackRecovers` |
| `heap` | 16 bytes, layouts of 1 to 8 bytes with alignments 1 to 8, main and 2 handlers on top of each other, 6 calls and exceptions | `IsHeap` (refinement), `UsedIsExact`, and the liveness property `AllocReturns` |
| `i2c` | 3 transactions out of 6 (register read, gathered write, long read, long write, three operations, none), FIFOs of 3 | `OkMeansDone`, `ErrMeansRefused`, and the liveness property `TransactionEnds` |
| `spi` | 2 calls out of every kind, up to 7 bytes, FIFOs of 3, 2 frames late | `Exchanged`, and the liveness property `TransferEnds` |
| `apps` | the three programs, 1 reset at any point, a CYCCNT of 4 bits, delays of 9 and 11 cycles, temperatures of either sign, a TX FIFO of 2 | `Intelligible`, `CountsUp`, `NumbersReadBack`, `DelayLongEnough`, and the liveness property `KeepsBlinking`: the LED goes on blinking unless the program is stuck in a read whose address was refused |

The runs of `UsbCdc`, `UsbControl`, `I2cTransaction` and `SpiTransfer` check the type invariant
too; the types of the other components are only proved (section 4).

Why the bounds suffice: a ring of four with more bytes than slots fills, empties and
wraps; a packet of two with an odd number of bytes gives full and short packets;
two tasks and a device give equal, higher and lower priority in every pair, and
three levels of preemption; four transfers put every request before and after
every other, with the toggles in either state; two updates and two power cycles
allow an update torn on top of a torn update; three contexts allow a swap that
fails twice, and a handler that allocates between the load and the swap of one that
was itself a handler; transfers of twice the FIFO depth stop on a full TX FIFO and on
an empty RX FIFO; the third transaction follows one that failed and one that did
not; and a counter of 16 wraps inside most delays of 9 or 11 from most starting points.

`control` lets the host abandon a transfer and reset the bus, but promises the address
and the answers only to a host that has done neither (`Undisturbed`); what happens
otherwise is in the table of further configurations.  `BootselExactlyWhenAsked`
holds with both.  `i2c` keeps the CPU from falling behind by a whole RX FIFO, and its
target does not refuse its address for a read; `i2c_nack` is the other case.

`CHECK_DEADLOCK FALSE` is given where the system may rightly stop: a board with no
valid slot halts, a device that reset into BOOTSEL is gone, and the thread or the
host or the caller of a bounded run has nothing more to say.  `spsc` and `apps` are
checked for deadlock.

Runs that TLC refutes, each a claim of a comment:

| Run | Claim | What the code does |
|---|---|---|
| `i2c_nack` | "r0 = -1 on TX_ABRT" (`i2c.S:394`) | once all read commands are issued, `i2c_read_blocking` polls RFNE only (`i2c.S:470`); if the target does not acknowledge its address, no byte ever comes and the call does not return |
| `apps_vectors` | "Default-handler = _halt so a stray IRQ parks the core" (`startup.S:56-57`) | `_ram_vectors` is in `.bss`, and `_c_runtime_init` zeroes `.bss` after `_reset` has filled it (`runtime.S:29`): every vector of a Rust program is 0 |

Further configurations reproduce divergences that are not listed as runs; TLC
refutes the property of each:

| Configuration | Property | What it shows |
|---|---|---|
| `MCSchedTable` | `EverySlotEntersAsCreated` | slots 4..7 are interrupts 52..55, and the vector table ends at 51 (`startup.S:141-151`, `212-214`); the handler is stored in somebody else's memory |
| `MCSchedNest` | `SectionsHold` | a BASEPRI section nested in a stricter one lowers the threshold of the outer one (`sched.S:231`) |
| `MCUsbCdcQuickRx` | `OutAlive` | the handler re-arms EP1 OUT and then clears the status bit (`usb.S:1013`); a packet in between is never noticed, and reception stops |
| `MCUsbCdcQuickTx` | `BusyMeansShipping` | a completion between arming and setting `cdc_in_busy` is forgotten, and output stops (`usb.S:1104-1118`) |
| `MCUsbCdcStomp` | `NoStomp` | a bus reset clears `cdc_in_busy` with the packet still armed (`usb.S:570`) |
| `MCUsbCdcReconf` | `TogglesAgree` | a second SET_CONFIGURATION arms EP1 OUT with a toggle of its own (`usb.S:662`) |
| `MCUsbControlShort` | `TransfersCompleteAll` | GET_CONFIGURATION, GET_STATUS and GET_LINE_CODING do not arm EP0 OUT for their status stage, against `usb.S:596-598` |
| `MCUsbControlReset` | `AddressAgreesAlways` | `usb_ep0_tx_remaining` survives a bus reset, and the status completion of SET_ADDRESS ships the stale chunk instead |
| `MCUsbControlAbort` | `AddressAfterStatusAlways` | an abandoned SET_ADDRESS is applied by a later completion (`usb.S:957`) |
| `MCUsbControlLate` | `TransfersComplete` | SETUP_REC is cleared after its handler (`usb.S:531`) |
| `MCBootChainInert` | `RollbackRecovers` | the hanging demo never writes PSM_WDSEL, so nothing is reset and no rollback begins, against `docs/bootloader.md:198` |
| `MCBootChainRequest` | `RequestConsumed` | no stage reads scratch 7 (`tsbl_ab.S:234`) |
| `MCBootChainKept` | `ConfirmedIsKept` | after a rollback and a confirmation, the next reset starts the failed slot again (`tsbl_ab.S:161`) |
| `MCBootChainBad` | `BadNeverBoots` | the status word of a footer is never looked at (`tsbl_ab.S:94`) |
| `MCI2cTransactionRestart` | `RestartOnlyToTurn` | every operation toggles IC_ENABLE, so each begins with a restart, although "no restart" separates operations of one direction (`rp-asm-hal/src/lib.rs:250-252`) |
| `MCI2cTransactionProbe` | `OkMeansDone` | an empty write, "just bus probe" (`i2c.S:348`), sends nothing and returns Ok |
| `MCRustAppsBelowZero` | `NumbersReadBack` | -0.5 degrees is printed as "0.500" (`bme280_demo/src/main.rs:65`) |

Four more cases need one line of a configuration changed: `DtrMeansOpen` as an
invariant of `MCUsbControl` fails, since `cdc_dtr` survives a bus reset
(`usb.S:550`); `SpiTransfer` with `Late = 3`
loses a byte and `TransferEnds` fails; `BumpHeap` with `MCWideRequest` and one handler
gives a 16-byte-aligned layout an address that is not, and `IsHeap` fails; and
`I2cTransaction` with `LongInterrupts = TRUE` waits for a byte the RX FIFO lost, and
`TransactionEnds` fails.

### Fairness

* `Sched`: the processor goes on with the running context, returns from a handler that has
  finished, and takes a line that stays eligible.  Nothing makes a device ask or a
  program post.
* `UsbCdc`: calls of the thread finish, the handler runs when it is asked for and the
  thread polls `cdc_getc`, as the demo loops do; the host polls EP1 IN and
  configures the device, as any host does.  The host need not send and the
  thread need not write.
* `UsbControl`: the handler runs, and the host goes on with the transfer it has begun.
  It need not begin another, so no property asks for one.
* `BootChain`: the boot code runs; a healthy application confirms; a hanging one has
  enabled the watchdog first, as `blinky_buggy_demo.S` does, and it runs out.
  Updates, power cycles and early resets of a healthy application are possible,
  never required, and the latter bounded.
* `BumpHeap`: the innermost context goes on with its call, and handlers return.
* `I2cTransaction`, `SpiTransfer`: the polling loops turn, and the controller executes
  what is queued.  The target need not acknowledge anything.
* `RustApps`: the core runs, a device that was enabled becomes ready, and the UART
  drains.  No sensor or display need answer, and a read that hangs turns its loop for
  ever: `KeepsBlinking` names that place (`StuckInRead`) as its one exception.

## 4. Proofs

All proofs hold for every value of the constants that satisfies the named
assumptions, and are checked by TLAPS to the last leaf.

* **`SpscProofs`** (any size of at least 2, any bytes).  `IInv` adds to the types what
  each side knows while it is in the middle of a call: the index it loaded is
  still the index it owns, a writing producer has room, a reading consumer has a
  byte, the byte in its register is the byte in the ring.  From it:
  `TypeCorrect`, `SlotsAreExclusive`, `CountsAreSound`, and `RingImplementsFifo`: every
  step maps to a step of `ByteFifo` or to a stutter.  The heart is the arithmetic
  of indices modulo the size and one lemma for how `Contents` changes when an
  index advances.
* **`SchedProofs`** (any tasks, devices, priorities and nesting).  `IInv` is the shape of the
  stack (only `main` at the bottom, no line twice, effective priorities strictly
  rising) and what a half-created line looks like.  `RunToCompletion` follows: a
  handler is preempted only by one created with strictly higher priority.
  `CreationIsSafe` speaks of the handler only for lines that have an entry in the
  vector table; `MCSchedTable` shows what happens to the others.  `TypeCorrect` is its
  typing part.  Two more invariants are about critical sections.  `MaskInv` follows the
  masks through contexts and sections: each section saved what the sections around
  it had made of its context's masks, and a preempted context left them as the
  context above it found them.  It gives `MasksAreRestored` with no assumption.
  `SectionInv` adds that within a context thresholds only get stricter and that what
  preempted a context is outside what its sections promise.  It gives
  `SectionsKeepOut`, assuming `~NestWeaker`: `MCSchedNest` is the counterexample without.
* **`UsbCdcProofs`** (any ring size of at least 2, packet size and number of bytes).
  `TypeCorrect` holds with every behaviour of the host, and is more than a typing: no
  ring index leaves its ring and no copy leaves the endpoint buffer.
  `ReceiverStaysAlive` allows any number of resets and configurations, and assumes
  `~QuickHost`: without it the property is false (`MCUsbCdcQuickRx`).  The other three also
  assume no reset after enumeration (`NoReset`), and the last two that the host
  configures once (`~Reconfigure`): `MCUsbCdcStomp` and `MCUsbCdcReconf` are the
  counterexamples without.  What remains is still every interleaving of the thread, the
  handler and the host.  The inductive invariant has four parts.  `InInv`: of the thread, the
  handler, the armed buffer and the status bit, at most one owns the EP1 IN packet,
  so the two flushes exclude each other although nothing locks them; from it
  `BufferNotStomped`.  `ToggleInv`: the toggle saved, loaded or armed is a fixed number of
  completions away from the host's; from it `TogglesStayInStep`.  `TxInv`: received,
  armed and held bytes are consecutive numbers that end at the last one written, and
  the copy loop keeps that split while it moves.  `RxInv`: what was read, what is
  held and what waits are increasing, and cover what was sent but for what was
  dropped.  The last two give `StreamsStayIntact`, with the lemma that reads them
  off the concatenation `RxStream`.
* **`UsbControlProofs`** (any requests, addresses, lengths of answers and number of
  transfers).  `TypeCorrect` and `BootselOnlyIfAsked`, the safety half of
  `BootselExactlyWhenAsked`, hold with every host: one that abandons transfers, resets
  the bus and does not wait for the handler.  `AddressesAgree`, `AnswersStayIntact` and
  `AddressWaitsForStatus` assume that the handler is done before the next SETUP
  (`~LateIsr`; `MCUsbControlLate` is the case without), and speak, like the
  properties, of hosts that have not yet disturbed a transfer (`MCUsbControlAbort` and
  `MCUsbControlReset`).  The inductive invariant `TransferInv` ties the device to the
  stage the host is in.  `HandlerInv`: what the handler has read and not yet
  acknowledged still stands.  `UnseenInv`: a SETUP it has not acted on finds nothing
  left of the transfer before.  `DataInInv`: what the host lacks of an answer is the
  packet armed followed by the packets saved, and both toggles agree.  `StageInv`:
  in the other stages EP0 is armed for what the host does next and for nothing else.
  `AddressInv`: an address waits from its SETUP to the completion of its own status stage.
* **`BootChainProofs`** (any builds, sizes, slot size and bounds).  `IInv` ties the registers of
  the TSBL to flash at each place, the slot running to its validation, and the
  scratch register to the attempt.  From it: `TypeCorrect`, `NoTornImageHolds`,
  `NoRetryHolds`, and `Refinement`: the chain implements `AbPolicy`.
* **`BumpHeapProofs`** (any heap size, layouts and depth of preemption).  `IInv` says that
  `HEAP_NEXT` is the end of the last block, and that no context ever loaded more than
  it now is.  From it: `TypeCorrect`, `UsedCoversBlocks`, `BlocksNeverOverlap`, and,
  assuming `BaseAligned`, `BumpImplementsHeap`.  The one difficulty is a refusal: a
  context refuses on a value it loaded earlier, and nothing fits now because
  nothing fitted then.
* **`BusProofs`, I2C** (any lists of operations, FIFO depth and number of transactions).
  `TypeInv` adds to the types what is left of an operation at each place of a driver;
  from it `I2cTypeCorrect`.  `DoneInv` has five parts.  `Queue`: the TX FIFO holds exactly the
  commands pushed and not executed.  `Holding`: the bus is held from the first address
  to the last byte or a NACK.  `Outward`: the wire is the operations before this one,
  whole, then the part of this one that is done, or it ends with its only NACK.
  `Inward`: what came back is stored or in the RX FIFO, unless that lost a byte, and
  then the count can never be reached.  `Outcome`: what the last call left.  From it
  `OkIsDone` and `ErrIsRefused`, for a target that refuses whatever it likes and also when the
  RX FIFO overflows.  They assume `NonEmpty`, that no operation is empty:
  `MCI2cTransactionProbe` is the counterexample without.  `OnTheWire` joins the operations
  with `FlattenSeq`; `UptoJoins` unfolds it one operation at a time.  `ReadsAreAnswered` is the safety
  half of `TransactionEnds`: a driver that polls RFNE with all its commands pushed always has
  commands executing.  It assumes that no read is refused (`MCI2cTransactionNack` is the
  case without) and that no byte is lost (`LongInterrupts`).
* **`BusProofs`, SPI** (any calls, lengths and FIFO depth, assuming `KeepsPace`: the CPU
  falls behind by fewer frames than the RX FIFO holds).  `SpiInv` follows every byte:
  outward through slice, TX FIFO, shift register and wire, inward through RX FIFO
  and slice; the receive index never passes the send index, which is why
  transferring in place is safe.  From it: `SpiTypeCorrect`, `CallsExchange`, and
  `ExchangesAreAnswered`, the safety half of `TransferEnds` for the calls that receive.  Both
  modules use names like `Init` and `pc`, so `SpiTransfer` comes in as an instance: the
  theorems speak of `Spi!Spec` and take its assumption `Spi!SpiAssumption` as a hypothesis.
* **`RustAppsProofs`** (any clock, delays, temperatures, FIFO and number of resets).
  `IInv` says what has been brought up by which call.  From it: `TypeCorrect` and
  `OutputIsIntelligible`.  `DelaysAreLongEnough` adds that, while a delay lasts,
  the difference of CYCCNT modulo 2^32 is the time that has passed; it assumes `Fits`,
  that the delay and one poll together stay below one turn of the counter.
  `NumbersAreRead`: every count drawn and every temperature printed reads back.  `NumberInv` carries
  it through the line and the TX FIFO; `DigitsRead` is the arithmetic, that the digits
  `format_u32` produces stand for the number, for every number.  It assumes
  `SignShows`, that no temperature lies strictly between -1 and 0 degrees:
  `MCRustAppsBelowZero` is the counterexample without.  `TogglesAreNumbered`: `CountInv` orders
  everything in flight, line and FIFO together; every second word from the end is a
  toggle, and their numbers run from the one after the last heard to the last one
  counted.  After a reset, which empties the FIFO,
  `_c_runtime_init` clears the count before anything is printed.

`Digits`, `Read` and `FlattenSeq` are recursive functions.  That such a function meets its
equation, and what it yields for every number or sequence, is proved by induction;
the induction theorem of the library takes an operator and cannot be applied here,
so `SetInduction` proves induction for a set, from the pigeonhole principle on finite sets.

Left to TLC: liveness under fairness (`OnlyBetterLinesStarve`, `Delivered`, `TxDrains`,
`TransfersComplete`, the second half of `BootselExactlyWhenAsked`, `RollbackRecovers`,
`AllocReturns`, `TransactionEnds`, `TransferEnds`, `KeepsBlinking`), which this prover does
not reach.  Every invariant and every safety property of a step that a passing run checks is
proved, under the assumptions named above.

## 5. What the models leave out

* Timing.  A watchdog "runs out" at any time it is enabled; a PLL locks at any time
  after the crystal is stable.
* Hardware errors: CRC errors on the USB bus appear only as retransmission through the
  toggles, flash writes do not fail half-way through a page, the I2C target does
  not stretch the clock for ever and there is no second master.
* Byte-level footers.  A payload of zero pages is left out; `tsbl_validate` accepts one
  (size 0, CRC 0).
* Memory order: a single core, and the code relies on program order only.
* `BL_STATUS` words other than BAD, the semantic version and the hash fields of a
  footer, which nothing in the boot chain reads.

## 6. Not modelled

* *Multicore launch, inter-core FIFO, spinlocks*: the other side of the handshake is the
  boot ROM of core 1, which is not in the repository; a model would check the peer
  it assumes.
* *Alarms and the 64-bit timer*: every routine is a few register accesses; what may come
  between them is up to callers the repository does not have.  The latch and the
  stale flag are listed as hazards.
* *DMA, PIO, interpolators, ADC, TRNG, OTP, QMI, POWMAN, boot ROM lookup*: registers are
  written as given, and the behaviour is the hardware's.
* *SHA-256 padding and CRC-32 arithmetic*: sequential byte processing, which the test
  vectors in `tests/` exercise.  `BootChain` takes the CRC to match exactly for whole builds.
* *Scheduler statistics*: diagnostics that no decision depends on.
* *`Pin`, `PwmChannel`, `Uart::read`* of the HAL: one driver call each.  `rp-asm-sys` and the
  build scripts: declarations and linker arguments.
* *Configuration of the controllers* (`i2c_init`, `spi_init`, divisor arithmetic): done
  once, before the modelled behaviour begins.

Reading these parts turned up points that no model here covers:

* `gpio_init` leaves the pad's input enable clear, and `Pin` does not set it, so `is_high` and
  `is_set_high` read 0 whatever the pin does, against `rp-asm-hal/src/lib.rs:149-153`.
* `ssd1306_demo` calls the baud fixup with UART0 in reset, where the stores are lost; it
  prints nothing, so nothing follows from it (`RustApps` has both).
* `spi_set_baudrate` with baud 0 returns with the controller disabled (`spi.S:201`).
* `i2c_init` always selects fast mode, against the table of `docs/i2c.md:130-133`, and
  `i2c_set_baudrate` disables the controller and leaves it so, where `docs/i2c.md:83-84`
  has it re-enabled.
