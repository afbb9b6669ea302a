------------------------------ MODULE RustApps ------------------------------
(***************************************************************************)
(* The programs of src/rust_apps on the runtime of rp-asm-rt and the HAL   *)
(* of rp-asm-hal: what they bring up in which order, what they print or    *)
(* show, how they wait and how they panic.                                 *)
(*                                                                         *)
(* Beside the program run the oscillator, the PLLs and the UART, which     *)
(* report themselves ready in their own time, and a reset may come at any  *)
(* moment: it stops every device and leaves the SRAM as it is.  The I2C    *)
(* transactions of the display and sensor crates return Ok or Err, but for *)
(* a read whose address is refused, which does not return (module          *)
(* I2cTransaction, RefusesReads); what the crates compute is external.     *)
(***************************************************************************)
EXTENDS Integers, SequencesExt

CONSTANTS
  Apps,         \* The programs, of hello_rust, ssd1306_demo, bme280_demo.
  Word,         \* 2^32: a u32, and CYCCNT, count up to it.
  Mhz,          \* clk_sys in MHz, what Delay::new is told.
  Delay,        \* Nanoseconds each program asks delay_ns for.
  Gap,          \* Bound: cycles between two reads of CYCCNT in delay_ns.
  Temperatures, \* What the sensor measures, in thousandths of a degree.
  FifoDepth,    \* Bytes, here words of a line, in the UART's TX FIFO.
  MaxResets     \* Bound: resets.

ASSUME AppsAssumption ==
  /\ Apps \subseteq {"hello_rust", "ssd1306_demo", "bme280_demo"}
  /\ Word \in Nat \ {0} /\ Mhz \in Nat /\ Gap \in Nat \ {0}
  /\ Delay \in [Apps -> Nat]
  /\ Temperatures \subseteq Int
  /\ FifoDepth \in Nat \ {0} /\ MaxResets \in Nat

VARIABLES
  app,     \* The program in flash.
  pc,      \* Where it is,
  step,    \* which call of its bring-up it is in,
  line,    \* what it is printing and
  next,    \* where it goes on then.
  started, settled, \* Devices enabled, and those of them that are ready.
  peri,    \* clk_peri in MHz, 0 while it is off.
  divisor, \* The clk_peri UART0's baud divisors are made for, 0 for none.
  txf,     \* UART0's TX FIFO.
  count,   \* TOGGLE_COUNT of hello_rust, counter of ssd1306_demo.
  led,     \* The LED's pin: "isolated", "low" or "high".
  shown,   \* The number on the display, and what it was drawn for.
  dwt, cyccnt, start, \* CYCCNT: does it count, what, and since when.
  vectors, \* What _ram_vectors hold: "halt" or "zero".
  slept,   \* Cycles the present delay has taken (history).
  heard,   \* The last number UART0 sent (history).
  resets   \* Resets so far (bound).

devices == <<started, settled, peri, divisor>>
clock == <<dwt, cyccnt, start, slept>>
vars == <<app, pc, step, line, next, devices, txf, count, led, shown, clock,
          vectors, heard, resets>>

\* A word of a line: what it says, its number, and for a temperature the
\* digits after the point and the value they stand for.
Dark == [digits |-> <<>>, of |-> 0]
Say(word, n) == [word |-> word, n |-> n, frac |-> 0, of |-> n]

-----------------------------------------------------------------------------
(* Reset.                                                                  *)

\* _reset fills _ram_vectors and goes to main; SRAM is as it was.
Restarted ==
  /\ pc' = "bringup" /\ step' = 1 /\ line' = <<>> /\ next' = "loop"
  /\ started' = {} /\ settled' = {} /\ peri' = 0 /\ divisor' = 0
  /\ txf' = <<>> /\ led' = "isolated" /\ shown' = Dark
  /\ dwt' = FALSE /\ cyccnt' = 0 /\ start' = 0 /\ slept' = 0
  /\ vectors' = "halt" /\ heard' = 0

Init ==
  /\ app \in Apps
  /\ count \in {0, Word - 1}  \* whatever SRAM held at power-on
  /\ pc = "bringup" /\ step = 1 /\ line = <<>> /\ next = "loop"
  /\ started = {} /\ settled = {} /\ peri = 0 /\ divisor = 0
  /\ txf = <<>> /\ led = "isolated" /\ shown = Dark
  /\ dwt = FALSE /\ cyccnt = 0 /\ start = 0 /\ slept = 0
  /\ vectors = "halt" /\ heard = 0
  /\ resets = 0

Reset ==
  /\ resets < MaxResets
  /\ resets' = resets + 1
  /\ Restarted
  /\ UNCHANGED <<app, count>>

-----------------------------------------------------------------------------
(* Bring-up.                                                               *)

\* main of hello_rust.
HelloCalls ==
  <<"_c_runtime_init", "xosc_init", "pll_sys_150_mhz", "pll_usb_48_mhz",
    "clocks_init", "gpio_led_init", "uart0_init",
    "clocks_post_pll_uart_baud_fixup", "dwt_init">>

\* What main of entry! calls before app_main.
EntryCall == "_c_runtime_init"

SsdCalls ==
  <<EntryCall, "xosc_init", "pll_sys_150_mhz", "pll_usb_48_mhz", "clocks_init",
    "clocks_post_pll_uart_baud_fixup", "gpio_led_init", "dwt_init">>

\* Mutant of BmeCalls: the baud fixup where ssd1306_demo has it.
BmeCallsFixupFirst ==
  <<EntryCall, "xosc_init", "pll_sys_150_mhz", "pll_usb_48_mhz", "clocks_init",
    "clocks_post_pll_uart_baud_fixup", "gpio_led_init", "uart0_init",
    "dwt_init">>

BmeCalls ==
  <<EntryCall, "xosc_init", "pll_sys_150_mhz", "pll_usb_48_mhz", "clocks_init",
    "gpio_led_init", "uart0_init", "clocks_post_pll_uart_baud_fixup",
    "dwt_init">>

Calls == IF app = "hello_rust" THEN HelloCalls
         ELSE IF app = "ssd1306_demo" THEN SsdCalls
         ELSE BmeCalls

Calling(f) == pc = "bringup" /\ step <= Len(Calls) /\ Calls[step] = f
Returns == step' = step + 1
Elsewhere == <<app, pc, line, next, txf, shown, heard, resets>>

\* The device a call enables and then polls until it is ready.
Device == [xosc_init |-> "xosc", pll_sys_150_mhz |-> "pll_sys",
           pll_usb_48_mhz |-> "pll_usb", uart0_init |-> "uart0"]
Polling == DOMAIN Device

\* Mutant of CRuntimeInit: .bss keeps what SRAM held.
CRuntimeInitSkipped ==
  /\ Calling("_c_runtime_init")
  /\ Returns
  /\ vectors' = "zero"
  /\ UNCHANGED <<Elsewhere, devices, led, clock, count>>

\* All of .bss is zeroed, with the statics and, in it, _ram_vectors.
CRuntimeInit ==
  /\ Calling("_c_runtime_init")
  /\ Returns
  /\ count' = 0
  /\ vectors' = "zero"
  /\ UNCHANGED <<Elsewhere, devices, led, clock>>

Enable(f) ==
  /\ Calling(f)
  /\ Device[f] \notin started
  /\ started' = started \cup {Device[f]}
  /\ UNCHANGED <<Elsewhere, step, settled, peri, divisor, count, led, clock,
                 vectors>>

\* uart0_init then programs the divisors for 12 MHz.
Ready(f) ==
  /\ Calling(f)
  /\ Device[f] \in settled
  /\ Returns
  /\ divisor' = IF f = "uart0_init" THEN 12 ELSE divisor
  /\ UNCHANGED <<Elsewhere, started, settled, peri, count, led, clock,
                 vectors>>

\* The muxes acknowledge only sources that run.
ClocksInit ==
  /\ Calling("clocks_init")
  /\ {"xosc", "pll_sys"} \subseteq settled
  /\ Returns
  /\ peri' = 150
  /\ UNCHANGED <<Elsewhere, started, settled, divisor, count, led, clock,
                 vectors>>

\* A UART held in reset ignores the stores.
BaudFixup ==
  /\ Calling("clocks_post_pll_uart_baud_fixup")
  /\ Returns
  /\ divisor' = IF "uart0" \in settled THEN 150 ELSE divisor
  /\ UNCHANGED <<Elsewhere, started, settled, peri, count, led, clock, vectors>>

LedInit ==
  /\ Calling("gpio_led_init")
  /\ Returns
  /\ led' = "low"
  /\ UNCHANGED <<Elsewhere, devices, count, clock, vectors>>

DwtInit ==
  /\ Calling("dwt_init")
  /\ Returns
  /\ dwt' = TRUE /\ cyccnt' = 0
  /\ UNCHANGED <<Elsewhere, devices, count, led, start, slept, vectors>>

Bringup ==
  \/ CRuntimeInit \/ ClocksInit \/ BaudFixup \/ LedInit \/ DwtInit
  \/ \E f \in Polling : Enable(f) \/ Ready(f)

\* PLLs lock on a stable crystal; RESET_DONE of UART0 needs clk_peri.
Settle ==
  \E d \in started \ settled :
    /\ d \in {"pll_sys", "pll_usb"} => "xosc" \in settled
    /\ d = "uart0" => peri # 0
    /\ settled' = settled \cup {d}
    /\ UNCHANGED <<app, pc, step, line, next, started, peri, divisor, txf,
                   count, led, shown, clock, vectors, heard, resets>>

-----------------------------------------------------------------------------
(* Printing.                                                               *)

Prints(words, then) == line' = words /\ next' = then /\ pc' = "print"

Txff == Len(txf) >= FifoDepth

\* One word more, once TXFF is clear; a UART in reset takes nothing.
Putc ==
  /\ pc = "print"
  /\ ~Txff
  /\ txf' = IF "uart0" \in settled THEN Append(txf, Head(line)) ELSE txf
  /\ line' = Tail(line)
  /\ pc' = IF Len(line) = 1 THEN next ELSE "print"
  /\ UNCHANGED <<app, step, next, devices, count, led, shown, clock, vectors,
                 heard, resets>>

Transmit ==
  /\ txf # <<>>
  /\ txf' = Tail(txf)
  /\ heard' = IF Head(txf).word = "toggle" THEN Head(txf).n ELSE heard
  /\ UNCHANGED <<app, pc, step, line, next, devices, count, led, shown, clock,
                 vectors, resets>>

-----------------------------------------------------------------------------
(* Waiting: delay_ns.                                                      *)

Cycles == ((Delay[app] * Mhz) \div 1000) % Word

\* Mutant of Since: the difference is not taken modulo 2^32.
SinceUnwrapped(now) == now - start

\* dwt_cycles_since.
Since(now) == (now - start) % Word

\* Too short to be worth a loop, or: remember CYCCNT, whatever it is by now.
DelayStarts(then) ==
  /\ next' = then
  /\ slept' = 0
  /\ pc' = IF Cycles < 4 THEN then ELSE "delay"
  /\ \E now \in IF dwt THEN 0 .. Word - 1 ELSE {cyccnt} :
       cyccnt' = now /\ start' = now

\* One turn of the loop; interrupts may take up to Gap cycles of it.
Poll ==
  /\ pc = "delay"
  /\ \E cycles \in 1 .. Gap :
       /\ slept' = IF slept < Word THEN slept + cycles ELSE slept
       /\ cyccnt' = IF dwt THEN (cyccnt + cycles) % Word ELSE cyccnt
  /\ pc' = IF Since(cyccnt') < Cycles THEN "delay" ELSE next
  /\ UNCHANGED <<app, step, line, next, devices, txf, count, led, shown, dwt,
                 start, vectors, heard, resets>>

-----------------------------------------------------------------------------
(* The programs.                                                           *)

\* An isolated pin stays so.
Toggled == led' = IF led = "low" THEN "high"
                  ELSE IF led = "high" THEN "low" ELSE led
BroughtUp(a) == app = a /\ pc = "bringup" /\ step > Len(Calls)
At(a, place) == app = a /\ pc = place
Kept == <<app, step, devices, txf, heard, vectors, resets>>

HelloGreets ==
  /\ BroughtUp("hello_rust")
  /\ Prints(<<Say("hello", 0)>>, "loop")
  /\ UNCHANGED <<Kept, count, led, shown, clock>>

\* Toggle, count, print "toggle <n> took <elapsed> cycles".
HelloToggles ==
  /\ At("hello_rust", "loop")
  /\ Toggled
  /\ count' = (count + 1) % Word
  /\ Prints(<<Say("toggle", count'), Say("took", 0)>>, "loop")
  /\ UNCHANGED <<Kept, shown, clock>>

\* The digits while v > 0, each put before the ones already there.
Digits[v \in Nat] ==
  IF v = 0 THEN <<>> ELSE Append(Digits[v \div 10], v % 10)

\* Mutant of FormatU32: the digits come out in the order they are computed.
FormatU32Reversed(v) == IF v = 0 THEN <<0>> ELSE Reverse(Digits[v])

\* format_u32.
FormatU32(v) == IF v = 0 THEN <<0>> ELSE Digits[v]

\* Clear, draw and flush; the errors of display are ignored.
Draw(picture) == \E ok \in BOOLEAN : shown' = IF ok THEN picture ELSE shown

SsdStarts ==
  /\ BroughtUp("ssd1306_demo")
  /\ Draw(Dark)
  /\ count' = 0
  /\ pc' = "loop"
  /\ UNCHANGED <<Kept, line, next, led, clock>>

SsdToggles ==
  /\ At("ssd1306_demo", "loop")
  /\ Toggled
  /\ count' = (count + 1) % Word
  /\ DelayStarts("draw")
  /\ UNCHANGED <<Kept, line, shown, dwt>>

SsdDraws ==
  /\ At("ssd1306_demo", "draw")
  /\ Draw([digits |-> FormatU32(count), of |-> count])
  /\ pc' = "loop"
  /\ UNCHANGED <<Kept, count, line, next, led, clock>>

BmeStarts ==
  /\ BroughtUp("bme280_demo")
  /\ Prints(<<Say("probing", 0)>>, "init")
  /\ UNCHANGED <<Kept, count, led, shown, clock>>

\* The sensor refuses its address for a read: no byte comes, and
\* i2c_read_blocking, all its commands pushed, waits for one.
ReadHangs == pc' = "hung" /\ UNCHANGED <<line, next>>

BmeInits ==
  /\ At("bme280_demo", "init")
  /\ \/ \E answer \in {"init OK", "init FAILED"} :
          Prints(<<Say(answer, 0)>>, "loop")
     \/ ReadHangs
  /\ UNCHANGED <<Kept, count, led, shown, clock>>

\* Rust's / and % round towards zero.
Whole(t) == IF t >= 0 THEN t \div 1000 ELSE -((-t) \div 1000)
Fraction(t) == (IF t >= 0 THEN t ELSE -t) % 1000
Temperature(t) ==
  [word |-> "T", n |-> Whole(t), frac |-> Fraction(t), of |-> t]

BmeSamples ==
  /\ At("bme280_demo", "loop")
  /\ \/ \E t \in Temperatures : Prints(<<Temperature(t)>>, "toggle")
     \/ Prints(<<Say("read error", 0)>>, "toggle")
     \/ ReadHangs
  /\ UNCHANGED <<Kept, count, led, shown, clock>>

BmeToggles ==
  /\ At("bme280_demo", "toggle")
  /\ Toggled
  /\ DelayStarts("loop")
  /\ UNCHANGED <<Kept, count, line, shown, dwt>>

\* 7b: RFNE stays clear, and nothing else is looked at.
Spins ==
  /\ pc = "hung"
  /\ UNCHANGED vars

\* A crate panics while it draws or measures.
Panics ==
  /\ \/ At("ssd1306_demo", "draw")
     \/ \E place \in {"init", "loop"} : At("bme280_demo", place)
  /\ pc' = "panic"
  /\ led' = "low"
  /\ UNCHANGED <<Kept, count, line, next, shown, clock>>

\* Mutant of Blinks: the panic handler only parks the core.
BlinksNot ==
  /\ pc = "panic"
  /\ UNCHANGED vars

\* panic_blink.
Blinks ==
  /\ pc = "panic"
  /\ Toggled
  /\ UNCHANGED <<Kept, pc, count, line, next, shown, clock>>

Hello == HelloGreets \/ HelloToggles
Ssd == SsdStarts \/ SsdToggles \/ SsdDraws
Bme == BmeStarts \/ BmeInits \/ BmeSamples \/ BmeToggles \/ Spins
Program == Bringup \/ Putc \/ Poll \/ Hello \/ Ssd \/ Bme \/ Panics \/ Blinks

Next == Program \/ Settle \/ Transmit \/ Reset

\* The core runs, what is enabled becomes ready and the UART drains.
Spec == Init /\ [][Next]_vars
        /\ WF_vars(Program) /\ WF_vars(Settle) /\ WF_vars(Transmit)

-----------------------------------------------------------------------------
(* Properties.                                                             *)

\* The state is well formed, and only what was enabled is ever ready.
TypeOK ==
  /\ app \in Apps /\ step \in 1 .. Len(Calls) + 1
  /\ pc \in {"bringup", "print", "delay", "loop", "draw", "init", "toggle",
             "panic", "hung"}
  /\ settled \subseteq started
  /\ started \subseteq {"xosc", "pll_sys", "pll_usb", "uart0"}
  /\ peri \in {0, 150} /\ divisor \in {0, 12, 150}
  /\ Len(txf) <= FifoDepth /\ count \in 0 .. Word - 1
  /\ led \in {"isolated", "low", "high"} /\ vectors \in {"halt", "zero"}
  /\ cyccnt \in 0 .. Word - 1 /\ start \in 0 .. Word - 1
  /\ resets \in 0 .. MaxResets

\* Nothing leaves UART0 at a baud rate made for another clk_peri: neither
\* before the fixup nor after a reset has stopped the PLLs.
Intelligible == [][Transmit => divisor = peri]_vars

\* hello_rust numbers its toggles 1, 2, 3, ... after power-on and after every
\* reset, whatever .bss held, and no line of them is lost on the way.
CountsUp ==
  [][heard' # heard => \/ heard' = (heard + 1) % Word
                       \/ resets' # resets]_vars

\* The number that digits stand for.
Read(digits) ==
  LET value[i \in 0 .. Len(digits)] ==
        IF i = 0 THEN 0 ELSE value[i - 1] * 10 + digits[i]
  IN  value[Len(digits)]
ReadsBack(w) ==
  IF w.n < 0 THEN w.n * 1000 - w.frac = w.of ELSE w.n * 1000 + w.frac = w.of

\* A temperature on its way out reads as the one that was measured, its sign
\* included, and the number on the display as the count it was drawn for.
NumbersReadBack ==
  /\ \A i \in DOMAIN txf : txf[i].word = "T" => ReadsBack(txf[i])
  /\ shown.digits # <<>> => Read(shown.digits) = shown.of

\* delay_ns returns no sooner than the cycles asked for, and no later than
\* one poll after them, also when CYCCNT wraps in between.
DelayLongEnough ==
  [][pc = "delay" /\ pc' # "delay" /\ resets' = resets =>
       slept' \in Cycles .. Cycles + Gap - 1]_vars

\* bme280_demo is in a read that will not return.
StuckInRead == app = "bme280_demo" /\ pc = "hung"

\* After the last reset the LED never stops blinking: with or without a display,
\* after an error and through a panic.  The one exception is a
\* sensor that refuses its address for a read: i2c.S:470 never gives up, in
\* sensor.init or read_sample (bme280_demo, main.rs:47 and 54).
KeepsBlinking ==
  \/ []<>(led = "high") /\ []<>(led = "low")
  \/ <>[]StuckInRead

\* src/src/startup.S: a stray interrupt finds _halt and parks the core.
StrayIrqParks == vectors = "halt"
=============================================================================
