--------------------------- MODULE RustAppsProofs ---------------------------
(***************************************************************************)
(* Proofs about RustApps for every clock, delay, temperature, FIFO depth   *)
(* and number of resets.                                                   *)
(***************************************************************************)
EXTENDS RustApps, FiniteSetTheorems, SequenceTheorems, TLAPS

\* The lines they come from are these words, with any number.
Said == {"hello", "toggle", "took", "probing", "init OK", "init FAILED",
         "read error", "T"}
Word_ == [word : Said, n : Int, frac : Nat, of : Int]

\* What the types leave out: places to go on to, and lines of words.
Lines ==
  /\ next \in {"loop", "init", "toggle", "draw"}
  /\ line \in Seq(Word_)
  /\ pc = "print" => line # << >>
  /\ txf \in Seq(Word_)

\* What has been brought up by when, and that words are in the FIFO only of a
\* UART that is.
Order ==
  /\ app = "ssd1306_demo" => "uart0" \notin started
  /\ step > 5 => peri = 150
  /\ app # "ssd1306_demo" /\ step > 7 => "uart0" \in settled
  /\ app # "ssd1306_demo" /\ step > 8 => divisor = 150
  /\ step > Len(Calls) => dwt
  /\ pc # "bringup" => step > Len(Calls)
  /\ txf # << >> => pc # "bringup" /\ "uart0" \in settled

IInv == TypeOK /\ Lines /\ Order

-----------------------------------------------------------------------------
(* The lists of calls.                                                     *)

\* How many calls there are, and at which place each of them is.
LEMMA Places ==
  ASSUME app \in Apps
  PROVE  /\ Len(Calls) = IF app = "ssd1306_demo" THEN 8 ELSE 9
         /\ step \in 1 .. Len(Calls) =>
              \A f : Calling(f) =>
                /\ f = "_c_runtime_init" => step = 1
                /\ f \in {"xosc_init", "pll_sys_150_mhz", "pll_usb_48_mhz"}
                     => step \in 2 .. 4
                /\ f = "clocks_init" => step = 5
                /\ f = "gpio_led_init"
                     => step = IF app = "ssd1306_demo" THEN 7 ELSE 6
                /\ f = "uart0_init" => app # "ssd1306_demo" /\ step = 7
                /\ f = "clocks_post_pll_uart_baud_fixup"
                     => step = IF app = "ssd1306_demo" THEN 6 ELSE 8
                /\ f = "dwt_init" => step = Len(Calls)
<1>1. CASE app = "hello_rust"
  <2>1. Calls = HelloCalls
    BY <1>1 DEF Calls
  <2>2. QED
    BY <1>1, <2>1 DEF HelloCalls, Calling
<1>2. CASE app = "ssd1306_demo"
  <2>1. Calls = SsdCalls
    BY <1>2 DEF Calls
  <2>2. QED
    BY <1>2, <2>1 DEF SsdCalls, EntryCall, Calling
<1>3. CASE app = "bme280_demo"
  <2>1. Calls = BmeCalls
    BY <1>3 DEF Calls
  <2>2. QED
    BY <1>3, <2>1 DEF BmeCalls, EntryCall, Calling
<1>4. QED
  BY <1>1, <1>2, <1>3, AppsAssumption

-----------------------------------------------------------------------------
(* The invariant.                                                          *)

LEMMA Initially == Init => IInv
<1> SUFFICES ASSUME Init PROVE IInv
  OBVIOUS
<1>1. Len(Calls) \in {8, 9}
  BY Places DEF Init
<1>2. TypeOK
  BY <1>1, AppsAssumption DEF Init, TypeOK
<1>3. Lines
  BY DEF Init, Lines
<1>4. Order
  BY <1>1 DEF Init, Order
<1>5. QED
  BY <1>2, <1>3, <1>4 DEF IInv

\* A call of the bring-up leaves everything as the order says.
LEMMA BringupSteps == IInv /\ Bringup => IInv'
<1> SUFFICES ASSUME IInv, Bringup PROVE IInv'
  OBVIOUS
<1> USE AppsAssumption
<1>c. /\ Len(Calls) = IF app = "ssd1306_demo" THEN 8 ELSE 9
      /\ step \in 1 .. Len(Calls) + 1
  BY Places DEF IInv, TypeOK
<1>1. CASE CRuntimeInit
  <2>1. /\ app' = app /\ pc' = pc /\ line' = line /\ next' = next
        /\ txf' = txf /\ resets' = resets /\ step' = step + 1
    BY <1>1 DEF CRuntimeInit, Elsewhere, Returns
  <2>2. /\ step = 1
        /\ pc = "bringup" /\ step <= Len(Calls)
    BY <1>1, <1>c, Places DEF CRuntimeInit, Calling, IInv, TypeOK
  <2>3. Len(Calls') = Len(Calls)
    BY <2>1 DEF Calls
  <2>4. TypeOK'
    BY <1>1, <1>c, <2>1, <2>2, <2>3 DEF CRuntimeInit, devices, clock, IInv, TypeOK
  <2>5. Lines'
    BY <2>1 DEF IInv, Lines
  <2>6. Order'
    BY <1>1, <1>c, <2>1, <2>2, <2>3 DEF CRuntimeInit, devices, clock, IInv, TypeOK, Order
  <2>7. QED
    BY <2>4, <2>5, <2>6 DEF IInv
<1>2. ASSUME NEW f \in Polling, Enable(f)
      PROVE  IInv'
  <2>1. /\ app' = app /\ pc' = pc /\ line' = line /\ next' = next
        /\ txf' = txf /\ resets' = resets /\ step' = step
    BY <1>2 DEF Enable, Elsewhere
  <2>2. /\ Calling(f)
        /\ f = "uart0_init" => app # "ssd1306_demo"
    BY <1>2, <1>c, Places DEF Enable, Calling, IInv, TypeOK
  <2>3. Len(Calls') = Len(Calls)
    BY <2>1 DEF Calls
  <2>4. /\ Device[f] \in {"xosc", "pll_sys", "pll_usb", "uart0"}
        /\ Device[f] = "uart0" => f = "uart0_init"
    BY DEF Polling, Device
  <2>5. /\ started' \subseteq {"xosc", "pll_sys", "pll_usb", "uart0"}
        /\ settled' \subseteq started'
    BY <1>2, <2>4 DEF Enable, IInv, TypeOK
  <2>6. TypeOK'
    BY <1>2, <1>c, <2>1, <2>3, <2>5 DEF Enable, clock, IInv, TypeOK
  <2>7. Lines'
    BY <2>1 DEF IInv, Lines
  <2>8. Order'
    BY <1>2, <2>1, <2>2, <2>3, <2>4 DEF Enable, clock, IInv, Order
  <2>9. QED
    BY <2>6, <2>7, <2>8 DEF IInv
<1>3. ASSUME NEW f \in Polling, Ready(f)
      PROVE  IInv'
  <2>1. /\ app' = app /\ pc' = pc /\ line' = line /\ next' = next
        /\ txf' = txf /\ resets' = resets /\ step' = step + 1
    BY <1>3 DEF Ready, Elsewhere, Returns
  <2>2. /\ pc = "bringup" /\ step <= Len(Calls) /\ step \in 2 .. 7 \ {5}
        /\ step = 7 => f = "uart0_init" /\ app # "ssd1306_demo"
        /\ step # 7 => f # "uart0_init" /\ step <= 4
    BY <1>3, <1>c, Places DEF Ready, Calling, IInv, TypeOK, Polling, Device
  <2>3. Len(Calls') = Len(Calls)
    BY <2>1 DEF Calls
  <2>4. Device["uart0_init"] = "uart0"
    BY DEF Device
  <2>5. TypeOK'
    BY <1>3, <1>c, <2>1, <2>2, <2>3 DEF Ready, clock, IInv, TypeOK
  <2>6. Lines'
    BY <2>1 DEF IInv, Lines
  <2>7. Order'
    BY <1>3, <1>c, <2>1, <2>2, <2>3, <2>4 DEF Ready, clock, IInv, Order
  <2>8. QED
    BY <2>5, <2>6, <2>7 DEF IInv
<1>4. CASE ClocksInit
  <2>1. /\ app' = app /\ pc' = pc /\ line' = line /\ next' = next
        /\ txf' = txf /\ resets' = resets /\ step' = step + 1
    BY <1>4 DEF ClocksInit, Elsewhere, Returns
  <2>2. /\ step = 5
        /\ pc = "bringup" /\ step <= Len(Calls)
    BY <1>4, <1>c, Places DEF ClocksInit, Calling, IInv, TypeOK
  <2>3. Len(Calls') = Len(Calls)
    BY <2>1 DEF Calls
  <2>4. TypeOK'
    BY <1>4, <1>c, <2>1, <2>2, <2>3 DEF ClocksInit, devices, clock, IInv, TypeOK
  <2>5. Lines'
    BY <2>1 DEF IInv, Lines
  <2>6. Order'
    BY <1>4, <1>c, <2>1, <2>2, <2>3 DEF ClocksInit, devices, clock, IInv, TypeOK, Order
  <2>7. QED
    BY <2>4, <2>5, <2>6 DEF IInv
<1>5. CASE BaudFixup
  <2>1. /\ app' = app /\ pc' = pc /\ line' = line /\ next' = next
        /\ txf' = txf /\ resets' = resets /\ step' = step + 1
    BY <1>5 DEF BaudFixup, Elsewhere, Returns
  <2>2. /\ step = IF app = "ssd1306_demo" THEN 6 ELSE 8
        /\ pc = "bringup" /\ step <= Len(Calls)
    BY <1>5, <1>c, Places DEF BaudFixup, Calling, IInv, TypeOK
  <2>3. Len(Calls') = Len(Calls)
    BY <2>1 DEF Calls
  <2>4. TypeOK'
    BY <1>5, <1>c, <2>1, <2>2, <2>3 DEF BaudFixup, devices, clock, IInv, TypeOK
  <2>5. Lines'
    BY <2>1 DEF IInv, Lines
  <2>6. Order'
    BY <1>5, <1>c, <2>1, <2>2, <2>3 DEF BaudFixup, devices, clock, IInv, TypeOK, Order
  <2>7. QED
    BY <2>4, <2>5, <2>6 DEF IInv
<1>6. CASE LedInit
  <2>1. /\ app' = app /\ pc' = pc /\ line' = line /\ next' = next
        /\ txf' = txf /\ resets' = resets /\ step' = step + 1
    BY <1>6 DEF LedInit, Elsewhere, Returns
  <2>2. /\ step = IF app = "ssd1306_demo" THEN 7 ELSE 6
        /\ pc = "bringup" /\ step <= Len(Calls)
    BY <1>6, <1>c, Places DEF LedInit, Calling, IInv, TypeOK
  <2>3. Len(Calls') = Len(Calls)
    BY <2>1 DEF Calls
  <2>4. TypeOK'
    BY <1>6, <1>c, <2>1, <2>2, <2>3 DEF LedInit, devices, clock, IInv, TypeOK
  <2>5. Lines'
    BY <2>1 DEF IInv, Lines
  <2>6. Order'
    BY <1>6, <1>c, <2>1, <2>2, <2>3 DEF LedInit, devices, clock, IInv, TypeOK, Order
  <2>7. QED
    BY <2>4, <2>5, <2>6 DEF IInv
<1>7. CASE DwtInit
  <2>1. /\ app' = app /\ pc' = pc /\ line' = line /\ next' = next
        /\ txf' = txf /\ resets' = resets /\ step' = step + 1
    BY <1>7 DEF DwtInit, Elsewhere, Returns
  <2>2. /\ step = Len(Calls)
        /\ pc = "bringup" /\ step <= Len(Calls)
    BY <1>7, <1>c, Places DEF DwtInit, Calling, IInv, TypeOK
  <2>3. Len(Calls') = Len(Calls)
    BY <2>1 DEF Calls
  <2>4. TypeOK'
    BY <1>7, <1>c, <2>1, <2>2, <2>3 DEF DwtInit, devices, clock, IInv, TypeOK
  <2>5. Lines'
    BY <2>1 DEF IInv, Lines
  <2>6. Order'
    BY <1>7, <1>c, <2>1, <2>2, <2>3 DEF DwtInit, devices, clock, IInv, TypeOK, Order
  <2>7. QED
    BY <2>4, <2>5, <2>6 DEF IInv
<1>8. QED
  BY <1>1, <1>2, <1>3, <1>4, <1>5, <1>6, <1>7 DEF Bringup

\* What a step of a program that is brought up leaves alone, and what it owes
\* the invariant for the rest.
Runs ==
  /\ step > Len(Calls)
  /\ app' = app /\ step' = step /\ started' = started /\ settled' = settled
  /\ peri' = peri /\ divisor' = divisor /\ dwt' = dwt
  /\ vectors' = vectors /\ resets' = resets
  /\ pc' \in {"print", "delay", "loop", "draw", "init", "toggle", "panic",
             "hung"}
  /\ Lines'
  /\ count' \in 0 .. Word - 1
  /\ led' \in {"isolated", "low", "high"}
  /\ cyccnt' \in 0 .. Word - 1 /\ start' \in 0 .. Word - 1
  /\ Len(txf') <= FifoDepth
  /\ txf' # << >> => "uart0" \in settled

LEMMA RunningSteps == IInv /\ Runs => IInv'
<1> SUFFICES ASSUME IInv, Runs PROVE IInv'
  OBVIOUS
<1>1. Len(Calls') = Len(Calls)
  BY DEF Runs, Calls
<1>2. /\ Len(Calls) = IF app = "ssd1306_demo" THEN 8 ELSE 9
      /\ step \in 1 .. Len(Calls) + 1
  BY Places DEF IInv, TypeOK
<1>3. TypeOK'
  BY <1>1, <1>2 DEF Runs, IInv, TypeOK
<1>4. Order'
  BY <1>1, <1>2 DEF Runs, IInv, Order
<1>5. QED
  BY <1>3, <1>4 DEF Runs, IInv

\* The LED's pin stays a pin.
LEMMA Toggling ==
  ASSUME led \in {"isolated", "low", "high"}, Toggled
  PROVE  led' \in {"isolated", "low", "high"}
BY DEF Toggled

\* What reading CYCCNT and entering the loop of delay_ns come to.
LEMMA Starting ==
  ASSUME NEW then \in {"draw", "loop"}, DelayStarts(then), IInv
  PROVE  /\ next' = then /\ pc' \in {then, "delay"}
         /\ cyccnt' \in 0 .. Word - 1 /\ start' = cyccnt'
BY DEF DelayStarts, IInv, TypeOK

LEMMA Adding == \A a, b \in Nat : (a + b) % Word \in 0 .. Word - 1
BY AppsAssumption

\* What the programs print are words.
LEMMA Temperatures_ ==
  ASSUME NEW t \in Int
  PROVE  Temperature(t) \in Word_
<1>1. Whole(t) \in Int
  BY DEF Whole
<1>2. Fraction(t) \in Nat
  BY DEF Fraction
<1>3. QED
  BY <1>1, <1>2 DEF Temperature, Word_, Said

\* The sensor answers bme280_demo, or it leaves it in a read for ever.
Answered == (BmeInits \/ BmeSamples) /\ ~ReadHangs
Hangs == (BmeInits \/ BmeSamples) /\ ReadHangs

\* What is left of a sequence without its head.
LEMMA Rest ==
  ASSUME NEW S, NEW s \in Seq(S), s # << >>
  PROVE  /\ Head(s) \in S /\ Tail(s) \in Seq(S) /\ Len(Tail(s)) = Len(s) - 1
         /\ Len(s) # 1 => Tail(s) # << >>
<1>1. Head(s) \in S /\ Tail(s) \in Seq(S) /\ Len(Tail(s)) = Len(s) - 1
  OBVIOUS
<1>2. QED
  BY <1>1

LEMMA ProgramSteps ==
  IInv /\ (Putc \/ Poll \/ Hello \/ Ssd \/ Bme \/ Panics \/ Blinks) => IInv'
<1> SUFFICES ASSUME IInv, Putc \/ Poll \/ Hello \/ Ssd \/ Bme \/ Panics \/ Blinks
             PROVE  IInv'
  OBVIOUS
<1> USE AppsAssumption
<1>i. TypeOK /\ Lines /\ Order
  BY DEF IInv
<1>u. txf # << >> => "uart0" \in settled
  BY <1>i DEF Order
<1>l. pc # "bringup" => step > Len(Calls)
  BY <1>i DEF Order
<1>1. CASE Putc
  <2>1. pc = "print" /\ line # << >> /\ line \in Seq(Word_) /\ txf \in Seq(Word_)
    BY <1>1, <1>i DEF Putc, Lines
  <2>2. Head(line) \in Word_ /\ Tail(line) \in Seq(Word_)
        /\ (Len(line) # 1 => Tail(line) # << >>)
    BY <2>1, Rest
  <2>3. txf' \in Seq(Word_) /\ Len(txf') <= FifoDepth
    BY <1>1, <1>i, <2>1, <2>2 DEF Putc, Txff, TypeOK
  <2>4. pc' \in {"print", "loop", "init", "toggle", "draw"} /\ next' = next
        /\ line' = Tail(line) /\ (pc' = "print" => Len(line) # 1)
    BY <1>1, <1>i DEF Putc, Lines
  <2>5. Lines'
    BY <1>i, <2>2, <2>3, <2>4 DEF Lines
  <2>6. Runs
    BY <1>1, <1>i, <1>u, <1>l, <2>1, <2>3, <2>4, <2>5 DEF Putc, Runs, devices, clock, TypeOK
  <2>7. QED
    BY <2>6, RunningSteps
<1>2. CASE Poll
  <2>1. PICK cycles \in 1 .. Gap :
          cyccnt' = IF dwt THEN (cyccnt + cycles) % Word ELSE cyccnt
    BY <1>2 DEF Poll
  <2>2. cyccnt' \in 0 .. Word - 1
    <3>1. CASE dwt
      <4>1. cyccnt \in Nat /\ cycles \in Nat
        BY <1>i DEF TypeOK
      <4>2. QED
        BY <3>1, <4>1, <2>1, Adding
    <3>2. CASE ~dwt
      BY <3>2, <1>i, <2>1 DEF TypeOK
    <3>3. QED
      BY <3>1, <3>2
  <2>3. pc = "delay" /\ pc' \in {"delay", "loop", "init", "toggle", "draw"}
    BY <1>2, <1>i DEF Poll, Lines
  <2>4. Lines'
    BY <1>2, <1>i, <2>3 DEF Poll, Lines
  <2>5. Runs
    BY <1>2, <1>i, <1>u, <1>l, <2>2, <2>3, <2>4 DEF Poll, Runs, devices, TypeOK
  <2>6. QED
    BY <2>5, RunningSteps
<1>3. CASE HelloGreets
  <2>1. /\ pc' = "print" /\ next' = "loop" /\ line' = <<Say("hello", 0)>>
        /\ txf' = txf
    BY <1>3 DEF HelloGreets, Prints, Kept
  <2>2. line' \in Seq(Word_) /\ line' # << >>
    BY <2>1 DEF Say, Word_, Said
  <2>3. Lines'
    BY <1>i, <2>1, <2>2 DEF Lines
  <2>4. Runs
    BY <1>3, <1>i, <1>u, <1>l, <2>1, <2>3 DEF HelloGreets, BroughtUp, Runs, Kept, devices, clock, TypeOK
  <2>5. QED
    BY <2>4, RunningSteps
<1>4. CASE HelloToggles
  <2>1. count' \in 0 .. Word - 1
    BY <1>4, <1>i, Adding DEF HelloToggles, TypeOK
  <2>2. /\ pc' = "print" /\ next' = "loop" /\ txf' = txf
        /\ line' = <<Say("toggle", count'), Say("took", 0)>>
    BY <1>4 DEF HelloToggles, Prints, Kept
  <2>3. Say("toggle", count') \in Word_ /\ Say("took", 0) \in Word_
    BY <2>1 DEF Say, Word_, Said
  <2>4. Lines'
    BY <1>i, <2>2, <2>3 DEF Lines
  <2>5. led' \in {"isolated", "low", "high"}
    BY <1>4, <1>i, Toggling DEF HelloToggles, TypeOK
  <2>6. Runs
    BY <1>4, <1>i, <1>u, <1>l, <2>1, <2>2, <2>4, <2>5 DEF HelloToggles, At, Runs, Kept, devices, clock, TypeOK
  <2>7. QED
    BY <2>6, RunningSteps
<1>5. CASE SsdStarts
  <2>1. /\ pc' \in {"loop"} /\ next' = next /\ line' = line /\ txf' = txf
        /\ led' \in {"isolated", "low", "high"}
    BY <1>5, <1>i DEF SsdStarts, Kept, TypeOK
  <2>2. Lines'
    BY <1>i, <2>1 DEF Lines
  <2>3. Runs
    BY <1>5, <1>i, <1>u, <1>l, <2>1, <2>2 DEF SsdStarts, BroughtUp, Runs, Kept, devices, clock, TypeOK
  <2>4. QED
    BY <2>3, RunningSteps
<1>6. CASE SsdToggles
  <2>1. /\ next' = "draw" /\ pc' \in {"draw", "delay"} /\ line' = line
        /\ txf' = txf /\ cyccnt' \in 0 .. Word - 1 /\ start' = cyccnt'
        /\ led' \in {"isolated", "low", "high"}
    BY <1>6, <1>i, Starting, Toggling DEF SsdToggles, Kept, IInv, TypeOK
  <2>2. Lines'
    BY <1>i, <2>1 DEF Lines
  <2>3. count' \in 0 .. Word - 1
    BY <1>6, <1>i, Adding DEF SsdToggles, TypeOK
  <2>4. Runs
    BY <1>6, <1>i, <1>u, <1>l, <2>1, <2>2, <2>3 DEF SsdToggles, At, Runs, Kept, devices, TypeOK
  <2>5. QED
    BY <2>4, RunningSteps
<1>7. CASE SsdDraws
  <2>1. /\ pc' \in {"loop"} /\ next' = next /\ line' = line /\ txf' = txf
        /\ led' \in {"isolated", "low", "high"}
    BY <1>7, <1>i DEF SsdDraws, Kept, TypeOK
  <2>2. Lines'
    BY <1>i, <2>1 DEF Lines
  <2>3. Runs
    BY <1>7, <1>i, <1>u, <1>l, <2>1, <2>2 DEF SsdDraws, At, Runs, Kept, devices, clock, TypeOK
  <2>4. QED
    BY <2>3, RunningSteps
<1>8. CASE BmeStarts
  <2>1. /\ pc' = "print" /\ next' = "init" /\ line' = <<Say("probing", 0)>>
        /\ txf' = txf
    BY <1>8 DEF BmeStarts, Prints, Kept
  <2>2. line' \in Seq(Word_) /\ line' # << >>
    BY <2>1 DEF Say, Word_, Said
  <2>3. Lines'
    BY <1>i, <2>1, <2>2 DEF Lines
  <2>4. Runs
    BY <1>8, <1>i, <1>u, <1>l, <2>1, <2>3 DEF BmeStarts, BroughtUp, Runs, Kept, devices, clock, TypeOK
  <2>5. QED
    BY <2>4, RunningSteps
<1>9. CASE BmeInits /\ ~ReadHangs
  <2>1. pc' = "print" /\ next' = "loop" /\ txf' = txf
    BY <1>9 DEF BmeInits, Prints, Kept
  <2>2. PICK w \in Word_ : line' = <<w>>
    <3>1. line' \in {<<Say("init OK", 0)>>, <<Say("init FAILED", 0)>>}
      BY <1>9 DEF BmeInits, Prints
    <3>2. Say("init OK", 0) \in Word_ /\ Say("init FAILED", 0) \in Word_
      BY DEF Say, Word_, Said
    <3>3. QED
      BY <3>1, <3>2
  <2>3. Lines'
    BY <1>i, <2>1, <2>2 DEF Lines
  <2>4. Runs
    BY <1>9, <1>i, <1>u, <1>l, <2>1, <2>3 DEF BmeInits, At, Runs, Kept, devices, clock, TypeOK
  <2>5. QED
    BY <2>4, RunningSteps
<1>10. CASE BmeSamples /\ ~ReadHangs
  <2>1. pc' = "print" /\ next' = "toggle" /\ txf' = txf
    BY <1>10 DEF BmeSamples, Prints, Kept
  <2>2. PICK w \in Word_ : line' = <<w>>
    <3>1. \/ \E t \in Temperatures : line' = <<Temperature(t)>>
          \/ line' = <<Say("read error", 0)>>
      BY <1>10 DEF BmeSamples, Prints
    <3>2. Say("read error", 0) \in Word_
      BY DEF Say, Word_, Said
    <3>3. \A t \in Temperatures : Temperature(t) \in Word_
      BY Temperatures_
    <3>4. QED
      BY <3>1, <3>2, <3>3
  <2>3. Lines'
    BY <1>i, <2>1, <2>2 DEF Lines
  <2>4. Runs
    BY <1>10, <1>i, <1>u, <1>l, <2>1, <2>3 DEF BmeSamples, At, Runs, Kept, devices, clock, TypeOK
  <2>5. QED
    BY <2>4, RunningSteps
<1>11. CASE BmeToggles
  <2>1. /\ next' = "loop" /\ pc' \in {"loop", "delay"} /\ line' = line
        /\ txf' = txf /\ cyccnt' \in 0 .. Word - 1 /\ start' = cyccnt'
        /\ led' \in {"isolated", "low", "high"}
    BY <1>11, <1>i, Starting, Toggling DEF BmeToggles, Kept, IInv, TypeOK
  <2>2. Lines'
    BY <1>i, <2>1 DEF Lines
  <2>3. count' \in 0 .. Word - 1
    BY <1>11, <1>i, Adding DEF BmeToggles, TypeOK
  <2>4. Runs
    BY <1>11, <1>i, <1>u, <1>l, <2>1, <2>2, <2>3 DEF BmeToggles, At, Runs, Kept, devices, TypeOK
  <2>5. QED
    BY <2>4, RunningSteps
<1>12. CASE Panics
  <2>1. /\ pc' \in {"panic"} /\ next' = next /\ line' = line /\ txf' = txf
        /\ led' \in {"isolated", "low", "high"}
    BY <1>12, <1>i DEF Panics, Kept, TypeOK
  <2>2. Lines'
    BY <1>i, <2>1 DEF Lines
  <2>3. Runs
    BY <1>12, <1>i, <1>u, <1>l, <2>1, <2>2 DEF Panics, At, Runs, Kept, devices, clock, TypeOK
  <2>4. QED
    BY <2>3, RunningSteps
<1>13. CASE Blinks
  <2>1. /\ pc' \in {"panic"} /\ next' = next /\ line' = line /\ txf' = txf
        /\ led' \in {"isolated", "low", "high"}
    BY <1>13, <1>i DEF Blinks, Kept, TypeOK, Toggled
  <2>2. Lines'
    BY <1>i, <2>1 DEF Lines
  <2>3. Runs
    BY <1>13, <1>i, <1>u, <1>l, <2>1, <2>2 DEF Blinks, At, Runs, Kept, devices, clock, TypeOK
  <2>4. QED
    BY <2>3, RunningSteps
<1>14. CASE Hangs
  <2>1. /\ pc' \in {"hung"} /\ next' = next /\ line' = line /\ txf' = txf
        /\ pc \in {"init", "loop"}
    BY <1>14 DEF Hangs, ReadHangs, BmeInits, BmeSamples, At, Kept
  <2>2. UNCHANGED <<Kept, count, led, shown, clock>>
    BY <1>14 DEF Hangs, BmeInits, BmeSamples
  <2>3. Lines'
    BY <1>i, <2>1 DEF Lines
  <2>4. Runs
    BY <1>i, <1>u, <1>l, <2>1, <2>2, <2>3 DEF Runs, Kept, devices, clock, TypeOK
  <2>5. QED
    BY <2>4, RunningSteps
<1>15. CASE Spins
  <2>1. /\ pc' \in {"hung"} /\ next' = next /\ line' = line /\ txf' = txf
        /\ pc = "hung"
    BY <1>15 DEF Spins, vars
  <2>2. Lines'
    BY <1>i, <2>1 DEF Lines
  <2>3. Runs
    BY <1>15, <1>i, <1>u, <1>l, <2>1, <2>2 DEF Spins, vars, Runs, devices, clock, TypeOK
  <2>4. QED
    BY <2>3, RunningSteps
<1>16. QED
  BY <1>1, <1>2, <1>3, <1>4, <1>5, <1>6, <1>7, <1>8, <1>9, <1>10, <1>11, <1>12,
     <1>13, <1>14, <1>15 DEF Hello, Ssd, Bme, Hangs

\* The devices, the UART and a reset.
LEMMA OtherSteps == IInv /\ (Settle \/ Transmit \/ Reset \/ UNCHANGED vars) => IInv'
<1> SUFFICES ASSUME IInv, Settle \/ Transmit \/ Reset \/ UNCHANGED vars PROVE IInv'
  OBVIOUS
<1> USE AppsAssumption
<1>i. TypeOK /\ Lines /\ Order
  BY DEF IInv
<1>c. /\ Len(Calls) = IF app = "ssd1306_demo" THEN 8 ELSE 9
      /\ step \in 1 .. Len(Calls) + 1
  BY Places DEF IInv, TypeOK
<1>a. Len(Calls') = Len(Calls) \/ app' # app
  BY DEF Calls
<1>1. CASE Settle
  <2>1. PICK d \in started \ settled :
          /\ settled' = settled \cup {d}
          /\ UNCHANGED <<app, pc, step, line, next, started, peri, divisor, txf,
                         count, led, shown, clock, vectors, heard, resets>>
    BY <1>1 DEF Settle
  <2>2. settled' \subseteq started' /\ settled \subseteq settled'
    BY <1>i, <2>1 DEF TypeOK
  <2>3. TypeOK'
    BY <1>i, <1>c, <1>a, <2>1, <2>2 DEF TypeOK, clock
  <2>4. Lines'
    BY <1>i, <2>1 DEF Lines
  <2>5. Order'
    BY <1>i, <1>c, <1>a, <2>1, <2>2 DEF Order, clock
  <2>6. QED
    BY <2>3, <2>4, <2>5 DEF IInv
<1>2. CASE Transmit
  <2>1. /\ txf # << >> /\ txf' = Tail(txf) /\ txf \in Seq(Word_)
        /\ UNCHANGED <<app, pc, step, line, next, devices, count, led, shown,
                       clock, vectors, resets>>
    BY <1>2, <1>i DEF Transmit, Lines
  <2>2. txf' \in Seq(Word_) /\ Len(txf') \in Nat /\ Len(txf) \in Nat
        /\ Len(txf') <= Len(txf)
    BY <2>1, Rest
  <2>3. TypeOK'
    <3>1. Len(txf') <= FifoDepth
      BY <1>i, <2>2 DEF TypeOK
    <3>2. QED
      BY <1>i, <1>c, <1>a, <2>1, <3>1 DEF TypeOK, clock, devices
  <2>4. Lines'
    BY <1>i, <2>1, <2>2 DEF Lines
  <2>5. Order'
    BY <1>i, <1>c, <1>a, <2>1 DEF Order, clock, devices
  <2>6. QED
    BY <2>3, <2>4, <2>5 DEF IInv
<1>3. CASE Reset
  <2>1. resets' \in 0 .. MaxResets /\ app' = app /\ count' = count /\ Restarted
    BY <1>3, <1>i DEF Reset, TypeOK
  <2>2. TypeOK'
    BY <1>i, <1>c, <1>a, <2>1 DEF TypeOK, Restarted
  <2>3. Lines'
    <3>1. /\ pc' = "bringup" /\ next' = "loop" /\ line' = << >> /\ txf' = << >>
      BY <2>1 DEF Restarted
    <3>2. QED
      BY <3>1 DEF Lines
  <2>4. Order'
    <3>1. /\ pc' = "bringup" /\ step' = 1 /\ started' = {} /\ txf' = << >>
      BY <2>1 DEF Restarted
    <3>2. Len(Calls') \in {8, 9}
      BY <1>c, <1>a, <2>1
    <3>3. txf' = << >> /\ "uart0" \notin started' /\ pc' = "bringup"
      BY <3>1
    <3>4. ~(step' > 5) /\ ~(step' > 7) /\ ~(step' > 8) /\ ~(step' > Len(Calls'))
      BY <3>1, <3>2
    <3>5. QED
      BY <3>3, <3>4 DEF Order
  <2>5. QED
    BY <2>2, <2>3, <2>4 DEF IInv
<1>4. CASE UNCHANGED vars
  <2>1. TypeOK'
    BY <1>4, <1>i, <1>c, <1>a DEF TypeOK, vars, devices, clock
  <2>2. Lines'
    BY <1>4, <1>i DEF Lines, vars
  <2>3. Order'
    BY <1>4, <1>i, <1>c, <1>a DEF Order, vars, devices, clock
  <2>4. QED
    BY <2>1, <2>2, <2>3 DEF IInv
<1>5. QED
  BY <1>1, <1>2, <1>3, <1>4

THEOREM Invariance == Spec => []IInv
<1>1. IInv /\ [Next]_vars => IInv'
  BY BringupSteps, ProgramSteps, OtherSteps DEF Next, Program
<1>2. QED
  BY Initially, <1>1, PTL DEF Spec

\* The state is well formed, whatever the clock, the delays, the temperatures
\* and the number of resets.
THEOREM TypeCorrect == Spec => []TypeOK
BY Invariance, PTL DEF IInv

\* Nothing ever leaves UART0 at a baud rate made for another clk_peri: the
\* FIFO is fed only after the fixup, and a reset that stops the PLLs takes
\* what is left in it along.
THEOREM OutputIsIntelligible == Spec => Intelligible
<1>1. IInv => [Transmit => divisor = peri]_vars
  <2> SUFFICES ASSUME IInv, Transmit PROVE divisor = peri
    OBVIOUS
  <2>1. txf # << >>
    BY DEF Transmit
  <2>2. app # "ssd1306_demo" /\ step > Len(Calls)
    BY <2>1 DEF IInv, Order, TypeOK
  <2>3. Len(Calls) = 9 /\ step \in Nat
    BY <2>2, Places DEF IInv, TypeOK
  <2>4. QED
    BY <2>2, <2>3 DEF IInv, Order
<1>2. QED
  BY Invariance, <1>1, PTL DEF Intelligible

-----------------------------------------------------------------------------
(* Delays.                                                                 *)

\* No program asks for so many cycles that they and one poll do not fit
\* CYCCNT: for 32 bits and 150 MHz, 28 s.
Fits == \A a \in Apps : (((Delay[a] * Mhz) \div 1000) % Word) + Gap <= Word

\* While a delay lasts, CYCCNT counts, and what has passed since its start is
\* what dwt_cycles_since makes of it.
Timing ==
  pc = "delay" =>
    dwt /\ slept \in Nat /\ slept < Cycles /\ Since(cyccnt) = slept

LEMMA CyclesFit ==
  ASSUME Fits, IInv
  PROVE  Cycles \in Nat /\ Cycles + Gap <= Word
<1>1. app \in Apps /\ Delay[app] \in Nat
  BY AppsAssumption DEF IInv, TypeOK
<1>2. Delay[app] * Mhz \in Nat
  BY <1>1, AppsAssumption
<1>3. (Delay[app] * Mhz) \div 1000 \in Nat
  BY <1>2
<1>4. Cycles \in Nat
  BY <1>3, AppsAssumption DEF Cycles
<1>5. QED
  BY <1>1, <1>4 DEF Fits, Cycles

\* Turning the counter on by c turns the difference on by c, wrapped or not.
LEMMA Wraps ==
  ASSUME NEW x \in 0 .. Word - 1, NEW s \in 0 .. Word - 1, NEW c \in Nat,
         c < Word, ((x - s) % Word) + c < Word
  PROVE  (((x + c) % Word) - s) % Word = ((x - s) % Word) + c
<1> USE AppsAssumption
<1>1. \A y \in Int : /\ (0 <= y /\ y < Word => y % Word = y)
                    /\ (Word <= y /\ y < 2 * Word => y % Word = y - Word)
                    /\ (-Word <= y /\ y < 0 => y % Word = y + Word)
  OBVIOUS
<1>2. (x - s) % Word = IF x >= s THEN x - s ELSE x - s + Word
  BY <1>1
<1>3. (x + c) % Word = IF x + c < Word THEN x + c ELSE x + c - Word
  BY <1>1
<1>4. CASE x + c < Word
  BY <1>1, <1>2, <1>3, <1>4
<1>5. CASE ~(x + c < Word)
  BY <1>1, <1>2, <1>3, <1>5
<1>6. QED
  BY <1>4, <1>5

\* One turn of the loop.
LEMMA Polls ==
  ASSUME Fits, IInv, Timing, Poll
  PROVE  /\ slept' \in Nat /\ dwt' /\ Cycles' = Cycles
         /\ Since(cyccnt') = slept' /\ slept' < Cycles + Gap /\ start' = start
         /\ pc' = IF slept' < Cycles THEN "delay" ELSE next
<1>1. Cycles \in Nat /\ Cycles + Gap <= Word
  BY CyclesFit
<1>2. dwt /\ slept \in Nat /\ slept < Cycles /\ Since(cyccnt) = slept
  BY DEF Timing, Poll
<1>3. cyccnt \in 0 .. Word - 1 /\ start \in 0 .. Word - 1
  BY DEF IInv, TypeOK
<1>4. dwt' = dwt /\ start' = start /\ app' = app
  BY DEF Poll
<1>5. PICK c \in 1 .. Gap :
        /\ slept' = IF slept < Word THEN slept + c ELSE slept
        /\ cyccnt' = IF dwt THEN (cyccnt + c) % Word ELSE cyccnt
  BY DEF Poll
<1>6. slept' = slept + c /\ slept + c < Word /\ c < Word /\ c \in Nat
      /\ slept + c < Cycles + Gap
  BY <1>1, <1>2, <1>5, AppsAssumption
<1>7. (cyccnt' - start) % Word = slept'
  BY <1>2, <1>3, <1>5, <1>6, Wraps DEF Since
<1>8. pc' = IF Since(cyccnt') < Cycles THEN "delay" ELSE next
  BY DEF Poll
<1>9. Cycles' = Cycles
  BY <1>4 DEF Cycles
<1>10. QED
  BY <1>2, <1>4, <1>6, <1>7, <1>8, <1>9 DEF Since

\* No other step disturbs a delay under way, and entering one starts at 0.
LEMMA TimingKept ==
  ASSUME Fits, IInv, Timing, [Next]_vars
  PROVE  Timing'
<1>c. Cycles \in Nat /\ Word \in Nat \ {0} /\ Word > 0
  BY CyclesFit, AppsAssumption
<1>0. pc = "delay" => dwt /\ slept \in Nat /\ slept < Cycles /\ Since(cyccnt) = slept
  BY DEF Timing
<1>1. CASE Poll
  <2>1. /\ slept' \in Nat /\ dwt' /\ Cycles' = Cycles
        /\ Since(cyccnt') = slept' /\ start' = start
        /\ pc' = IF slept' < Cycles THEN "delay" ELSE next
    BY <1>1, Polls
  <2>2. next # "delay"
    BY DEF IInv, Lines
  <2>3. Since(cyccnt)' = slept'
    BY <2>1 DEF Since
  <2>4. pc' = "delay" => slept' < Cycles
    BY <2>1, <2>2
  <2>5. QED
    BY <2>1, <2>3, <2>4 DEF Timing
<1>2. ASSUME NEW then \in {"draw", "loop"}, DelayStarts(then), step > Len(Calls),
             app' = app, dwt' = dwt
      PROVE  Timing'
  <2>1. slept' = 0 /\ cyccnt' = start' /\ cyccnt' \in Int
    BY <1>2 DEF DelayStarts, IInv, TypeOK
  <2>2. Cycles' = Cycles
    BY <1>2 DEF Cycles
  <2>3. Since(cyccnt)' = 0
    <3>1. 0 % Word = 0
      BY <1>c
    <3>2. start' \in Int /\ \A x \in Int : x - x = 0
      BY <2>1
    <3>3. QED
      BY <2>1, <3>1, <3>2 DEF Since
  <2>4. dwt'
    BY <1>2 DEF IInv, Order
  <2>5. pc' = "delay" => ~(Cycles < 4)
    BY <1>2 DEF DelayStarts
  <2>6. QED
    BY <1>c, <2>1, <2>2, <2>3, <2>4, <2>5 DEF Timing
<1>3. CASE SsdToggles
  <2>1. step > Len(Calls) /\ app' = app /\ dwt' = dwt /\ DelayStarts("draw")
    BY <1>3 DEF SsdToggles, At, Kept, IInv, Order
  <2>2. QED
    BY <1>2, <2>1
<1>4. CASE BmeToggles
  <2>1. step > Len(Calls) /\ app' = app /\ dwt' = dwt /\ DelayStarts("loop")
    BY <1>4 DEF BmeToggles, At, Kept, IInv, Order
  <2>2. QED
    BY <1>2, <2>1
<1>5. CASE pc' # "delay"
  BY <1>5 DEF Timing
<1>6. CASE UNCHANGED <<app, pc, clock>>
  BY <1>6, <1>0 DEF Timing, clock, Since, Cycles
<1>7. CASE Bringup
  <2>1. pc' = pc /\ pc = "bringup"
    BY <1>7 DEF Bringup, Calling, Elsewhere, CRuntimeInit, Enable, Ready,
       ClocksInit, BaudFixup, LedInit, DwtInit
  <2>2. QED
    BY <1>5, <2>1
<1>8. CASE Putc
  <2>1. pc' # "delay"
    BY <1>8 DEF Putc, IInv, Lines
  <2>2. QED
    BY <1>5, <2>1
<1>9. CASE HelloGreets \/ HelloToggles \/ SsdStarts \/ SsdDraws \/ BmeStarts
           \/ BmeInits \/ BmeSamples \/ Panics
  <2>1. pc' # "delay"
    BY <1>9 DEF HelloGreets, HelloToggles, SsdStarts, SsdDraws, BmeStarts,
       BmeInits, BmeSamples, ReadHangs, Panics, Prints
  <2>2. QED
    BY <1>5, <2>1
<1>10. CASE Blinks \/ Spins \/ Settle \/ Transmit \/ UNCHANGED vars
  <2>1. UNCHANGED <<app, pc, clock>>
    BY <1>10 DEF Blinks, Spins, Settle, Transmit, Kept, vars
  <2>2. QED
    BY <1>6, <2>1
<1>11. CASE Reset
  <2>1. pc' # "delay"
    BY <1>11 DEF Reset, Restarted
  <2>2. QED
    BY <1>5, <2>1
<1>12. QED
  BY <1>1, <1>3, <1>4, <1>7, <1>8, <1>9, <1>10, <1>11
  DEF Next, Program, Hello, Ssd, Bme

\* Only the loop of delay_ns ends a delay, or a reset.
LEMMA DelayEnds ==
  ASSUME Fits, IInv, Timing, [Next]_vars,
         pc = "delay", pc' # "delay", resets' = resets
  PROVE  slept' \in Cycles .. Cycles + Gap - 1
<1>1. Poll
  <2>1. ~Reset
    BY AppsAssumption DEF Reset, IInv, TypeOK
  <2>2. ~UNCHANGED vars /\ ~Settle /\ ~Transmit
    BY DEF vars, Settle, Transmit
  <2>3. ~Bringup
    BY DEF Bringup, Calling, CRuntimeInit, Enable, Ready, ClocksInit,
       BaudFixup, LedInit, DwtInit
  <2>4. ~Putc /\ ~Hello /\ ~Ssd /\ ~Bme /\ ~Panics /\ ~Blinks
    BY DEF Putc, Hello, HelloGreets, HelloToggles, Ssd, SsdStarts, SsdToggles,
       SsdDraws, Bme, BmeStarts, BmeInits, BmeSamples, BmeToggles, Panics,
       Blinks, Spins, BroughtUp, At
  <2>5. QED
    BY <2>1, <2>2, <2>3, <2>4 DEF Next, Program
<1>2. /\ slept' \in Nat /\ slept' < Cycles + Gap
      /\ pc' = IF slept' < Cycles THEN "delay" ELSE next
  BY <1>1, Polls
<1>3. Cycles \in Nat /\ Gap \in Nat
  BY CyclesFit, AppsAssumption
<1>4. QED
  BY <1>2, <1>3

\* delay_ns returns no sooner than the cycles asked for and less than one
\* poll after them, for every clock, duration and starting value of CYCCNT
\* that leave room for one poll.
THEOREM DelaysAreLongEnough ==
  ASSUME Fits
  PROVE  Spec => DelayLongEnough
<1>1. Init => Timing
  BY DEF Init, Timing
<1>2. IInv /\ Timing /\ [Next]_vars => Timing'
  BY TimingKept
<1>3. IInv /\ Timing /\ [Next]_vars =>
        [pc = "delay" /\ pc' # "delay" /\ resets' = resets =>
           slept' \in Cycles .. Cycles + Gap - 1]_vars
  BY DelayEnds
<1>4. QED
  BY Invariance, <1>1, <1>2, <1>3, PTL DEF Spec, DelayLongEnough

-----------------------------------------------------------------------------
(* What the recursive functions of the model compute.                      *)

\* Induction, for a set instead of a formula: were m the first number not in
\* S, the numbers up to m that are would map one to one to all of them but 0.
LEMMA SetInduction ==
  ASSUME NEW S, 0 \in S, \A n \in Nat : n \in S => n + 1 \in S
  PROVE  Nat \subseteq S
<1> SUFFICES ASSUME NEW m \in Nat, m \notin S PROVE FALSE
  OBVIOUS
<1> DEFINE A == {x \in 0 .. m : x \in S}
           f == [x \in A |-> x + 1]
<1>1. IsFiniteSet(0 .. m)
  BY FS_Interval
<1>2. 0 \in A /\ A \in SUBSET (0 .. m)
  OBVIOUS
<1>3. f \in [A -> A \ {0}] /\ \A x, y \in A : f[x] = f[y] => x = y
  OBVIOUS
<1> HIDE DEF A, f
<1>4. IsFiniteSet(A)
  BY <1>1, <1>2, FS_Subset
<1>5. IsFiniteSet(A \ {0}) /\ Cardinality(A \ {0}) = Cardinality(A) - 1
  BY <1>2, <1>4, FS_RemoveElement
<1>6. Cardinality(A) \in Nat
  BY <1>4, FS_CardinalityType
<1>7. \E x, y \in A : x # y /\ f[x] = f[y]
  BY <1>3, <1>4, <1>5, <1>6, FS_PigeonHole
<1>8. QED
  BY <1>3, <1>7

\* What Digits says of v, said of any function g.
Ends(g, v) == g[v] = IF v = 0 THEN <<>> ELSE Append(g[v \div 10], v % 10)

\* The quotient format_u32 goes on with is smaller.
LEMMA Tenth == \A v \in Nat : v # 0 => v \div 10 \in Nat /\ v \div 10 < v
OBVIOUS

\* Two functions that do so up to n agree up to n.
LEMMA SegmentsAgree ==
  ASSUME NEW a \in Nat, NEW g, NEW h,
         \A v \in 0 .. a : Ends(g, v) /\ Ends(h, v)
  PROVE  \A v \in 0 .. a : g[v] = h[v]
<1> DEFINE S == {n \in Nat : \A v \in 0 .. a : v <= n => g[v] = h[v]}
<1>1. 0 \in S
  BY DEF Ends
<1>2. ASSUME NEW n \in Nat, n \in S PROVE n + 1 \in S
  <2>1. \A v \in 0 .. a : v <= n => g[v] = h[v]
    BY <1>2
  <2>2. ASSUME NEW v \in 0 .. a, v <= n + 1 PROVE g[v] = h[v]
    <3>1. CASE v = 0
      BY <3>1 DEF Ends
    <3>2. CASE v # 0
      <4>1. v \div 10 \in 0 .. a /\ v \div 10 <= n
        BY <2>2, <3>2, Tenth
      <4>2. g[v \div 10] = h[v \div 10]
        BY <2>1, <4>1
      <4>3. QED
        BY <3>2, <4>2 DEF Ends
    <3>3. QED
      BY <3>1, <3>2
  <2>3. QED
    BY <2>2
<1>3. Nat \subseteq S
  <2> HIDE DEF S
  <2>1. QED
    BY <1>1, <1>2, SetInduction
<1>4. QED
  BY <1>3

\* For every n there is one.
LEMMA SegmentExists ==
  \A n \in Nat : \E g : \A v \in 0 .. n : Ends(g, v)
<1> DEFINE S == {n \in Nat : \E g : \A v \in 0 .. n : Ends(g, v)}
<1>1. 0 \in S
  <2>1. \A v \in 0 .. 0 : Ends([x \in {0} |-> <<>>], v)
    BY DEF Ends
  <2>2. QED
    BY <2>1
<1>2. ASSUME NEW n \in Nat, n \in S PROVE n + 1 \in S
  <2>1. PICK g : \A v \in 0 .. n : Ends(g, v)
    BY <1>2
  <2> DEFINE h == [v \in 0 .. n + 1 |->
                     IF v <= n THEN g[v]
                     ELSE Append(g[v \div 10], v % 10)]
  <2>2. ASSUME NEW v \in 0 .. n + 1 PROVE Ends(h, v)
    <3>1. v # 0 => v \div 10 \in 0 .. n
      BY Tenth
    <3>2. v # 0 => h[v \div 10] = g[v \div 10]
      BY <3>1
    <3>3. CASE v <= n
      <4>1. h[v] = g[v] /\ Ends(g, v)
        BY <2>1, <3>3
      <4>2. QED
        BY <3>2, <4>1 DEF Ends
    <3>4. CASE ~(v <= n)
      <4>1. h[v] = Append(g[v \div 10], v % 10) /\ v # 0
        BY <3>4
      <4>2. QED
        BY <3>2, <4>1 DEF Ends
    <3>5. QED
      BY <3>3, <3>4
  <2> HIDE DEF h
  <2>3. \E f : \A v \in 0 .. n + 1 : Ends(f, v)
    BY <2>2
  <2>4. QED
    BY <2>3
<1>3. Nat \subseteq S
  <2> HIDE DEF S
  <2>1. QED
    BY <1>1, <1>2, SetInduction
<1>4. QED
  BY <1>3

\* So Digits, put together of them, is what its definition says.
LEMMA DigitsEnd == \A v \in Nat : Ends(Digits, v)
<1> DEFINE segment(n) == CHOOSE g : \A v \in 0 .. n : Ends(g, v)
           whole == [n \in Nat |-> segment(n)[n]]
<1>1. \A n \in Nat : \A v \in 0 .. n : Ends(segment(n), v)
  BY SegmentExists
<1> HIDE DEF segment
<1>2. \A n \in Nat : \A v \in 0 .. n : whole[v] = segment(n)[v]
  <2>1. ASSUME NEW n \in Nat, NEW v \in 0 .. n
        PROVE  segment(v)[v] = segment(n)[v]
    <3>1. \A w \in 0 .. v : Ends(segment(v), w) /\ Ends(segment(n), w)
      BY <1>1
    <3>2. QED
      BY <3>1, SegmentsAgree
  <2>2. \A v \in Nat : whole[v] = segment(v)[v]
    OBVIOUS
  <2> HIDE DEF whole
  <2>3. QED
    BY <2>1, <2>2
<1>3. ASSUME NEW v \in Nat
      PROVE  whole[v] = IF v = 0 THEN <<>>
                        ELSE Append(whole[v \div 10], v % 10)
  <2>1. v # 0 => v \div 10 \in 0 .. v
    BY Tenth
  <2>2. whole[v] = segment(v)[v] /\ Ends(segment(v), v)
    BY <1>1
  <2>3. v # 0 => whole[v \div 10] = segment(v)[v \div 10]
    BY <1>2, <2>1
  <2> HIDE DEF whole
  <2>4. QED
    BY <2>2, <2>3 DEF Ends
<1>a. whole = [v \in Nat |-> IF v = 0 THEN <<>>
                             ELSE Append(whole[v \div 10], v % 10)]
  <2>1. DOMAIN whole = Nat /\ whole = [v \in Nat |-> whole[v]]
    OBVIOUS
  <2> HIDE DEF whole
  <2>2. QED
    BY <1>3, <2>1
<1> HIDE DEF whole
<1>4. Digits = [v \in Nat |-> IF v = 0 THEN <<>>
                              ELSE Append(Digits[v \div 10], v % 10)]
  BY <1>a DEF Digits
<1>5. QED
  BY <1>4 DEF Ends

Decimal == 0 .. 9

\* format_u32 writes nothing but decimal digits.
LEMMA DigitsAreDigits == \A v \in Nat : Digits[v] \in Seq(Decimal)
<1> DEFINE S == {n \in Nat : \A v \in 0 .. n : Digits[v] \in Seq(Decimal)}
<1>1. 0 \in S
  <2>1. Digits[0] = << >> /\ << >> \in Seq(Decimal)
    BY DigitsEnd DEF Ends
  <2>2. \A v \in 0 .. 0 : v = 0
    OBVIOUS
  <2>3. \A v \in 0 .. 0 : Digits[v] \in Seq(Decimal)
    BY <2>1, <2>2
  <2>4. QED
    BY <2>3
<1>2. ASSUME NEW n \in Nat, n \in S PROVE n + 1 \in S
  <2>1. n + 1 # 0 /\ (n + 1) \div 10 \in 0 .. n /\ (n + 1) % 10 \in Decimal
    BY Tenth DEF Decimal
  <2>2. Digits[(n + 1) \div 10] \in Seq(Decimal)
    BY <1>2, <2>1
  <2>3. Digits[n + 1] = Append(Digits[(n + 1) \div 10], (n + 1) % 10)
    <3>1. Ends(Digits, n + 1)
      BY DigitsEnd
    <3>2. QED
      BY <2>1, <3>1 DEF Ends
  <2>4. Digits[n + 1] \in Seq(Decimal)
    BY <2>1, <2>2, <2>3
  <2>5. \A v \in 0 .. n + 1 : v \in 0 .. n \/ v = n + 1
    OBVIOUS
  <2>6. QED
    BY <1>2, <2>4, <2>5
<1>3. Nat \subseteq S
  <2> HIDE DEF S
  <2>1. QED
    BY <1>1, <1>2, SetInduction
<1>4. QED
  BY <1>3

\* What Read says of a prefix of s, said of any function g, and of all.
Adds(s, g, i) == g[i] = IF i = 0 THEN 0 ELSE g[i - 1] * 10 + s[i]
Sums(s, g) == \A i \in 0 .. Len(s) : Adds(s, g, i)

\* There is a function that says so.
LEMMA SumExists ==
  ASSUME NEW s, Len(s) \in Nat
  PROVE  \E g : g = [i \in 0 .. Len(s) |-> IF i = 0 THEN 0 ELSE g[i - 1] * 10 + s[i]]
<1> DEFINE S == {n \in Nat : \E g : \A i \in 0 .. n : Adds(s, g, i)}
<1>1. 0 \in S
  <2> DEFINE g == [i \in 0 .. 0 |-> 0]
  <2>1. \A i \in 0 .. 0 : Adds(s, g, i)
    BY DEF Adds
  <2> HIDE DEF g
  <2>2. QED
    BY <2>1
<1>2. ASSUME NEW n \in Nat, n \in S PROVE n + 1 \in S
  <2>1. PICK g : \A i \in 0 .. n : Adds(s, g, i)
    BY <1>2
  <2> DEFINE h == [i \in 0 .. n + 1 |-> IF i <= n THEN g[i] ELSE g[n] * 10 + s[n + 1]]
  <2>2. ASSUME NEW i \in 0 .. n + 1 PROVE Adds(s, h, i)
    <3>1. CASE i <= n
      <4>1. h[i] = g[i] /\ (i # 0 => h[i - 1] = g[i - 1]) /\ Adds(s, g, i)
        BY <2>1, <3>1
      <4> HIDE DEF h
      <4>2. QED
        BY <4>1 DEF Adds
    <3>2. CASE ~(i <= n)
      <4>1. i = n + 1 /\ i # 0 /\ i - 1 = n /\ n \in 0 .. n + 1
        BY <3>2
      <4>2. h[n + 1] = g[n] * 10 + s[n + 1] /\ h[n] = g[n]
        OBVIOUS
      <4> HIDE DEF h
      <4>3. QED
        BY <4>1, <4>2 DEF Adds
    <3>3. QED
      BY <3>1, <3>2
  <2> HIDE DEF h
  <2>3. \E f : \A i \in 0 .. n + 1 : Adds(s, f, i)
    BY <2>2
  <2>4. QED
    BY <2>3
<1>3. Len(s) \in S
  <2> HIDE DEF S
  <2>1. QED
    BY <1>1, <1>2, SetInduction
<1>4. PICK g : \A i \in 0 .. Len(s) : Adds(s, g, i)
  BY <1>3
<1> DEFINE h == [i \in 0 .. Len(s) |-> g[i]]
<1>5. \A i \in 0 .. Len(s) : h[i] = IF i = 0 THEN 0 ELSE h[i - 1] * 10 + s[i]
  BY <1>4 DEF Adds
<1>6. h = [i \in 0 .. Len(s) |-> h[i]]
  OBVIOUS
<1> HIDE DEF h
<1>7. h = [i \in 0 .. Len(s) |-> IF i = 0 THEN 0 ELSE h[i - 1] * 10 + s[i]]
  BY <1>5, <1>6
<1>8. QED
  BY <1>7

\* Read returns its last value.
LEMMA ReadSum ==
  ASSUME NEW s, Len(s) \in Nat
  PROVE  \E g : Sums(s, g) /\ Read(s) = g[Len(s)]
<1> DEFINE value == CHOOSE f : f = [i \in 0 .. Len(s) |->
                      IF i = 0 THEN 0 ELSE f[i - 1] * 10 + s[i]]
<1>3. value = [i \in 0 .. Len(s) |-> IF i = 0 THEN 0 ELSE value[i - 1] * 10 + s[i]]
  BY SumExists
<1>4. Read(s) = value[Len(s)]
  BY DEF Read
<1> HIDE DEF value
<1>5. \A i \in 0 .. Len(s) : Adds(s, value, i)
  BY <1>3 DEF Adds
<1>6. QED
  BY <1>4, <1>5 DEF Sums

\* It reads equal prefixes as equal numbers.
LEMMA SumsAgree ==
  ASSUME NEW s \in Seq(Decimal), NEW d \in Decimal, NEW g, NEW h,
         Sums(s, g), Sums(Append(s, d), h)
  PROVE  g[Len(s)] \in Nat /\ h[Len(s) + 1] = g[Len(s)] * 10 + d
<1>1. /\ Len(s) \in Nat /\ Len(Append(s, d)) = Len(s) + 1
      /\ \A i \in 1 .. Len(s) : Append(s, d)[i] = s[i] /\ s[i] \in Nat
      /\ Append(s, d)[Len(s) + 1] = d
  BY DEF Decimal
<1> DEFINE S == {n \in Nat : n <= Len(s) => g[n] = h[n] /\ g[n] \in Nat}
<1>2. 0 \in S
  BY <1>1 DEF Sums, Adds
<1>3. ASSUME NEW n \in Nat, n \in S PROVE n + 1 \in S
  <2> SUFFICES ASSUME n + 1 <= Len(s)
               PROVE  g[n + 1] = h[n + 1] /\ g[n + 1] \in Nat
    OBVIOUS
  <2>1. g[n] = h[n] /\ g[n] \in Nat
    BY <1>1, <1>3
  <2>2. n + 1 # 0 /\ n + 1 \in 0 .. Len(s) /\ n + 1 \in 0 .. Len(s) + 1
        /\ (n + 1) - 1 = n
    BY <1>1
  <2>3. Adds(s, g, n + 1) /\ Adds(Append(s, d), h, n + 1)
    BY <1>1, <2>2 DEF Sums
  <2>4. g[n + 1] = g[n] * 10 + s[n + 1] /\ h[n + 1] = h[n] * 10 + s[n + 1]
    BY <1>1, <2>2, <2>3 DEF Adds
  <2>5. QED
    BY <1>1, <2>1, <2>4
<1>4. Len(s) \in S
  <2> HIDE DEF S
  <2>1. QED
    BY <1>1, <1>2, <1>3, SetInduction
<1>5. Adds(Append(s, d), h, Len(s) + 1)
  BY <1>1 DEF Sums
<1>6. QED
  BY <1>1, <1>4, <1>5 DEF Adds

\* No digit reads as 0, and one digit more as ten times as much and itself.
LEMMA Reading ==
  /\ Read(<< >>) = 0
  /\ \A s \in Seq(Decimal), d \in Decimal :
       Read(s) \in Nat /\ Read(Append(s, d)) = Read(s) * 10 + d
<1>1. Read(<< >>) = 0
  <2>1. Len(<< >>) = 0
    OBVIOUS
  <2>2. PICK g : Sums(<< >>, g) /\ Read(<< >>) = g[0]
    BY <2>1, ReadSum
  <2>3. QED
    BY <2>1, <2>2 DEF Sums, Adds
<1>2. ASSUME NEW s \in Seq(Decimal), NEW d \in Decimal
      PROVE  Read(s) \in Nat /\ Read(Append(s, d)) = Read(s) * 10 + d
  <2> DEFINE t == Append(s, d)
  <2>1. Len(s) \in Nat /\ Len(t) = Len(s) + 1 /\ Len(t) \in Nat
    OBVIOUS
  <2>2. PICK g : Sums(s, g) /\ Read(s) = g[Len(s)]
    BY <2>1, ReadSum
  <2>3. ASSUME NEW h, Sums(t, h), Read(t) = h[Len(t)]
        PROVE  Read(s) \in Nat /\ Read(t) = Read(s) * 10 + d
    BY <2>1, <2>2, <2>3, SumsAgree
  <2> HIDE DEF t
  <2>4. \E h : Sums(t, h) /\ Read(t) = h[Len(t)]
    BY <2>1, ReadSum
  <2>5. Read(s) \in Nat /\ Read(t) = Read(s) * 10 + d
    BY <2>3, <2>4
  <2>6. QED
    BY <2>5 DEF t
<1>3. QED
  BY <1>1, <1>2

\* So what format_u32 computes of v reads as v.
LEMMA DigitsRead == \A v \in Nat : Read(Digits[v]) = v
<1> DEFINE S == {n \in Nat : \A v \in 0 .. n : Read(Digits[v]) = v}
<1>1. 0 \in S
  <2>1. Digits[0] = << >>
    BY DigitsEnd DEF Ends
  <2>2. \A v \in 0 .. 0 : v = 0
    OBVIOUS
  <2>3. \A v \in 0 .. 0 : Read(Digits[v]) = v
    BY <2>1, <2>2, Reading
  <2>4. QED
    BY <2>3
<1>2. ASSUME NEW n \in Nat, n \in S PROVE n + 1 \in S
  <2> DEFINE q == (n + 1) \div 10
             d == (n + 1) % 10
  <2>1. n + 1 # 0 /\ q \in 0 .. n /\ d \in Decimal /\ n + 1 = q * 10 + d
    BY Tenth DEF Decimal
  <2>2. Read(Digits[q]) = q
    BY <1>2, <2>1
  <2>3. Digits[n + 1] = Append(Digits[q], d)
    <3>1. Ends(Digits, n + 1)
      BY DigitsEnd
    <3>2. QED
      BY <2>1, <3>1 DEF Ends
  <2>4. Digits[q] \in Seq(Decimal)
    BY <2>1, DigitsAreDigits
  <2> HIDE DEF q, d
  <2>5. Read(Digits[n + 1]) = n + 1
    BY <2>1, <2>2, <2>3, <2>4, Reading
  <2>6. \A v \in 0 .. n + 1 : v \in 0 .. n \/ v = n + 1
    OBVIOUS
  <2>7. QED
    BY <1>2, <2>5, <2>6
<1>3. Nat \subseteq S
  <2> HIDE DEF S
  <2>1. QED
    BY <1>1, <1>2, SetInduction
<1>4. QED
  BY <1>3

-----------------------------------------------------------------------------
(* Numbers read back.                                                      *)

\* A temperature between -1 and 0 degrees would lose its sign with the zero
\* before the point.
SignShows == \A t \in Temperatures : t \notin -999 .. -1

\* Words that read as what they stand for.
Truthful == {w \in Word_ : w.word = "T" => ReadsBack(w)}

\* The inductive invariant: they are truthful before they reach the FIFO.
NumberInv ==
  /\ line \in Seq(Truthful) /\ txf \in Seq(Truthful)
  /\ shown.digits # << >> => Read(shown.digits) = shown.of

\* What SsdDraws draws reads as the number it is drawn for.
LEMMA FormatReads == \A v \in Nat : Read(FormatU32(v)) = v
<1> SUFFICES ASSUME NEW v \in Nat PROVE Read(FormatU32(v)) = v
  OBVIOUS
<1>1. CASE v = 0
  <2> DEFINE none == << >>
  <2>1. none \in Seq(Decimal) /\ Read(none) = 0 /\ Append(none, 0) = <<0>>
    BY Reading
  <2> HIDE DEF none
  <2>2. Read(Append(none, 0)) = 0
    BY <2>1, Reading DEF Decimal
  <2>3. FormatU32(v) = Append(none, 0)
    BY <1>1, <2>1 DEF FormatU32
  <2>4. QED
    BY <1>1, <2>2, <2>3
<1>2. CASE v # 0
  BY <1>2, DigitsRead DEF FormatU32
<1>3. QED
  BY <1>1, <1>2

\* What BmeSamples prints reads as the temperature.
LEMMA TemperatureReads ==
  ASSUME SignShows, NEW t \in Temperatures
  PROVE  Temperature(t) \in Truthful
<1>1. t \in Int /\ t \notin -999 .. -1
  BY AppsAssumption DEF SignShows
<1>2. Temperature(t) \in Word_
  BY <1>1, Temperatures_
<1>3. ReadsBack(Temperature(t))
  <2>1. CASE t >= 0
    <3>1. Whole(t) = t \div 1000 /\ Fraction(t) = t % 1000
      BY <1>1, <2>1 DEF Whole, Fraction
    <3>2. t = (t \div 1000) * 1000 + (t % 1000) /\ t \div 1000 >= 0
      BY <1>1, <2>1
    <3>3. QED
      BY <1>1, <3>1, <3>2 DEF ReadsBack, Temperature
  <2>2. CASE ~(t >= 0)
    <3> DEFINE u == -t
    <3>1. u \in Nat /\ u >= 1000
      BY <1>1, <2>2
    <3>2. Whole(t) = -(u \div 1000) /\ Fraction(t) = u % 1000
      BY <1>1, <2>2 DEF Whole, Fraction
    <3>3. u = (u \div 1000) * 1000 + (u % 1000) /\ u \div 1000 > 0
          /\ u \div 1000 \in Int /\ u % 1000 \in Int
      BY <3>1
    <3>4. t = -u
      BY <1>1
    <3> HIDE DEF u
    <3>5. QED
      BY <3>1, <3>2, <3>3, <3>4 DEF ReadsBack, Temperature
  <2>3. QED
    BY <2>1, <2>2
<1>4. QED
  BY <1>2, <1>3 DEF Truthful

\* The lines a program may print, and what it may draw.
LEMMA PrintsTruthfully ==
  ASSUME SignShows, IInv,
         HelloGreets \/ HelloToggles \/ BmeStarts \/ Answered
  PROVE  line' \in Seq(Truthful) /\ txf' = txf /\ shown' = shown
<1>1. \A w \in Said : Say(w, 0) \in Truthful
  <2>1. \A w \in Said : Say(w, 0) \in Word_
    BY DEF Say, Word_
  <2>2. \A w : ReadsBack(Say(w, 0))
    BY DEF ReadsBack, Say
  <2>3. QED
    BY <2>1, <2>2 DEF Truthful
<1>2. CASE HelloGreets
  <2>1. line' = <<Say("hello", 0)>> /\ txf' = txf /\ shown' = shown
    BY <1>2 DEF HelloGreets, Prints, Kept
  <2>2. Say("hello", 0) \in Truthful
    BY <1>1, Zenon DEF Said
  <2>3. QED
    BY <2>1, <2>2
<1>3. CASE HelloToggles
  <2>1. /\ line' = <<Say("toggle", count'), Say("took", 0)>>
        /\ txf' = txf /\ shown' = shown /\ count' = (count + 1) % Word
    BY <1>3 DEF HelloToggles, Prints, Kept
  <2>2. count' \in Int
    BY <2>1, AppsAssumption DEF IInv, TypeOK
  <2>3. Say("toggle", count') \in Truthful /\ Say("took", 0) \in Truthful
    BY <2>2 DEF Say, Truthful, Word_, Said
  <2>4. QED
    BY <2>1, <2>3
<1>4. CASE BmeStarts
  <2>1. line' = <<Say("probing", 0)>> /\ txf' = txf /\ shown' = shown
    BY <1>4 DEF BmeStarts, Prints, Kept
  <2>2. Say("probing", 0) \in Truthful
    BY <1>1, Zenon DEF Said
  <2>3. QED
    BY <2>1, <2>2
<1>5. CASE BmeInits /\ ~ReadHangs
  <2>1. txf' = txf /\ shown' = shown
    BY <1>5 DEF BmeInits, Kept
  <2>2. line' \in {<<Say("init OK", 0)>>, <<Say("init FAILED", 0)>>}
    BY <1>5 DEF BmeInits, Prints
  <2>3. Say("init OK", 0) \in Truthful /\ Say("init FAILED", 0) \in Truthful
    BY <1>1, Zenon DEF Said
  <2>4. PICK w \in Truthful : line' = <<w>>
    BY <2>2, <2>3, Zenon
  <2>5. QED
    BY <2>1, <2>4
<1>6. CASE BmeSamples /\ ~ReadHangs
  <2>1. txf' = txf /\ shown' = shown
    BY <1>6 DEF BmeSamples, Kept
  <2>2. \/ \E t \in Temperatures : line' = <<Temperature(t)>>
        \/ line' = <<Say("read error", 0)>>
    BY <1>6 DEF BmeSamples, Prints
  <2>3. Say("read error", 0) \in Truthful
    BY <1>1, Zenon DEF Said
  <2>4. \A t \in Temperatures : Temperature(t) \in Truthful
    BY TemperatureReads
  <2>5. PICK w \in Truthful : line' = <<w>>
    BY <2>2, <2>3, <2>4, Zenon
  <2>6. QED
    BY <2>1, <2>5
<1>7. QED
  BY <1>2, <1>3, <1>4, <1>5, <1>6 DEF Answered

\* No step makes another number of what is on its way.
LEMMA NumbersKept ==
  ASSUME SignShows, IInv, NumberInv, [Next]_vars
  PROVE  NumberInv'
<1>0. line \in Seq(Truthful) /\ txf \in Seq(Truthful)
      /\ (shown.digits # << >> => Read(shown.digits) = shown.of)
  BY DEF NumberInv
<1>1. CASE HelloGreets \/ HelloToggles \/ BmeStarts \/ Answered
  BY <1>0, <1>1, PrintsTruthfully DEF NumberInv
<1>2. CASE Putc
  <2>1. line # << >> /\ shown' = shown /\ line' = Tail(line)
        /\ txf' \in {txf, Append(txf, Head(line))}
    BY <1>2 DEF Putc, IInv, Lines
  <2>2. Head(line) \in Truthful /\ Tail(line) \in Seq(Truthful)
    BY <1>0, <2>1, Rest
  <2>3. Append(txf, Head(line)) \in Seq(Truthful)
    BY <1>0, <2>2
  <2>4. QED
    BY <1>0, <2>1, <2>2, <2>3 DEF NumberInv
<1>3. CASE Transmit
  <2>1. txf # << >> /\ txf' = Tail(txf) /\ line' = line /\ shown' = shown
    BY <1>3 DEF Transmit
  <2>2. QED
    BY <1>0, <2>1, Rest DEF NumberInv
<1>4. CASE SsdStarts \/ SsdDraws
  <2>1. line' = line /\ txf' = txf
        /\ shown' \in {shown, Dark, [digits |-> FormatU32(count), of |-> count]}
    BY <1>4 DEF SsdStarts, SsdDraws, Draw, Kept
  <2>2. Read(FormatU32(count)) = count
    BY FormatReads DEF IInv, TypeOK
  <2>3. QED
    BY <1>0, <2>1, <2>2 DEF NumberInv, Dark
<1>5. CASE Reset
  <2>1. line' = << >> /\ txf' = << >> /\ shown' = Dark
    BY <1>5 DEF Reset, Restarted
  <2>2. QED
    BY <2>1 DEF NumberInv, Dark
<1>6. CASE UNCHANGED <<line, txf, shown>>
  BY <1>0, <1>6 DEF NumberInv
<1>7. CASE Bringup
  <2>1. UNCHANGED <<line, txf, shown>>
    BY <1>7 DEF Bringup, Elsewhere, CRuntimeInit, Enable, Ready, ClocksInit,
       BaudFixup, LedInit, DwtInit
  <2>2. QED
    BY <1>6, <2>1
<1>8. CASE Poll \/ SsdToggles \/ BmeToggles \/ Hangs \/ Spins \/ Panics
           \/ Blinks \/ Settle \/ UNCHANGED vars
  <2>1. UNCHANGED <<line, txf, shown>>
    BY <1>8 DEF Poll, SsdToggles, BmeToggles, Hangs, BmeInits, BmeSamples,
       ReadHangs, Spins, Panics, Blinks, Settle, Kept, vars
  <2>2. QED
    BY <1>6, <2>1
<1>9. QED
  BY <1>1, <1>2, <1>3, <1>4, <1>5, <1>7, <1>8
  DEF Next, Program, Hello, Ssd, Bme, Answered, Hangs

\* A temperature on its way out reads as the one that was measured, and the
\* number on the display as the count it was drawn for, for every count and
\* every temperature whose sign its whole part can show.
THEOREM NumbersAreRead ==
  ASSUME SignShows
  PROVE  Spec => []NumbersReadBack
<1>1. Init => NumberInv
  BY DEF Init, NumberInv, Dark
<1>2. IInv /\ NumberInv /\ [Next]_vars => NumberInv'
  BY NumbersKept
<1>3. NumberInv => NumbersReadBack
  <2> SUFFICES ASSUME NumberInv PROVE NumbersReadBack
    OBVIOUS
  <2>1. \A i \in DOMAIN txf : txf[i] \in Truthful
    BY DEF NumberInv
  <2>2. QED
    BY <2>1 DEF NumberInv, NumbersReadBack, Truthful
<1>4. QED
  BY Invariance, <1>1, <1>2, <1>3, PTL DEF Spec

-----------------------------------------------------------------------------
(* The numbers of hello_rust's toggles.                                    *)

\* What is on its way out: the words in the FIFO and those still to go there.
Stream == txf \o line

\* After the number h has been heard and the number c printed, every second
\* word of s from its end is a toggle, and their numbers go from h + 1 to c.
Counting(s, c, h) ==
  /\ \A i \in 1 .. Len(s) : s[i].word = "toggle" <=> (Len(s) - i) % 2 = 1
  /\ \A i \in 1 .. Len(s) - 2 :
       s[i].word = "toggle" => s[i + 2].n = (s[i].n + 1) % Word
  /\ \A i \in 1 .. Len(s) :
       i <= 2 /\ s[i].word = "toggle" => s[i].n = (h + 1) % Word
  /\ IF Len(s) >= 2 THEN s[Len(s) - 1].n = c ELSE h = c

\* The inductive invariant: the toggles of hello_rust on their way are the
\* ones after the last one heard, and no other program says toggle.
CountInv ==
  /\ pc # "print" => line = << >>
  /\ app = "ssd1306_demo" => pc # "print"
  /\ app = "hello_rust" =>
       /\ pc \in {"bringup", "print", "loop"} /\ next = "loop"
       /\ IF step = 1 THEN heard = 0 ELSE Counting(Stream, count, heard)
  /\ app # "hello_rust" =>
       \A i \in 1 .. Len(Stream) : Stream[i].word # "toggle"

\* The first word of s leaves.
LEMMA CountHeard ==
  ASSUME NEW s, NEW t, NEW c, NEW h, Len(s) \in Nat \ {0}, Counting(s, c, h),
         Len(t) = Len(s) - 1, \A i \in 1 .. Len(t) : t[i] = s[i + 1]
  PROVE  IF s[1].word = "toggle"
         THEN s[1].n = (h + 1) % Word /\ Counting(t, c, s[1].n)
         ELSE Counting(t, c, h)
<1>1. CASE s[1].word = "toggle"
  <2>1. Len(s) >= 2 /\ s[1].n = (h + 1) % Word
    BY <1>1 DEF Counting
  <2>2. \A i \in 1 .. Len(t) : t[i].word = "toggle" <=> (Len(t) - i) % 2 = 1
    BY DEF Counting
  <2>3. ASSUME NEW i \in 1 .. Len(t) - 2, t[i].word = "toggle"
        PROVE  t[i + 2].n = (t[i].n + 1) % Word
    <3>1. i + 1 \in 1 .. Len(s) - 2 /\ t[i] = s[i + 1]
          /\ t[i + 2] = s[(i + 2) + 1] /\ (i + 2) + 1 = (i + 1) + 2
      OBVIOUS
    <3>2. QED
      BY <2>3, <3>1 DEF Counting
  <2>4. ASSUME NEW i \in 1 .. Len(t), i <= 2, t[i].word = "toggle"
        PROVE  t[i].n = (s[1].n + 1) % Word
    <3>1. i = 2
      BY <1>1, <2>1, <2>4 DEF Counting
    <3>2. 1 \in 1 .. Len(s) - 2 /\ t[2] = s[3] /\ 1 + 2 = 3
      BY <2>4, <3>1
    <3>3. QED
      BY <1>1, <3>1, <3>2 DEF Counting
  <2>5. IF Len(t) >= 2 THEN t[Len(t) - 1].n = c ELSE s[1].n = c
    <3>1. CASE Len(t) >= 2
      BY <3>1 DEF Counting
    <3>2. CASE ~(Len(t) >= 2)
      BY <2>1, <3>2 DEF Counting
    <3>3. QED
      BY <3>1, <3>2
  <2>6. Counting(t, c, s[1].n)
    BY <2>2, <2>3, <2>4, <2>5 DEF Counting
  <2>7. QED
    BY <1>1, <2>1, <2>6
<1>2. CASE s[1].word # "toggle"
  <2>1. \A i \in 1 .. Len(t) : t[i].word = "toggle" <=> (Len(t) - i) % 2 = 1
    BY DEF Counting
  <2>2. ASSUME NEW i \in 1 .. Len(t) - 2, t[i].word = "toggle"
        PROVE  t[i + 2].n = (t[i].n + 1) % Word
    <3>1. i + 1 \in 1 .. Len(s) - 2 /\ t[i] = s[i + 1]
          /\ t[i + 2] = s[(i + 2) + 1] /\ (i + 2) + 1 = (i + 1) + 2
      OBVIOUS
    <3>2. QED
      BY <2>2, <3>1 DEF Counting
  <2>3. ASSUME NEW i \in 1 .. Len(t), i <= 2, t[i].word = "toggle"
        PROVE  t[i].n = (h + 1) % Word
    <3>1. i = 1
      BY <1>2, <2>3 DEF Counting
    <3>2. QED
      BY <2>3, <3>1 DEF Counting
  <2>4. IF Len(t) >= 2 THEN t[Len(t) - 1].n = c ELSE h = c
    <3>1. CASE Len(t) >= 2
      BY <3>1 DEF Counting
    <3>2. CASE ~(Len(t) >= 2)
      <4>1. Len(s) # 2
        <5>1. 1 \in 1 .. Len(s) /\ (2 - 1) % 2 = 1
          OBVIOUS
        <5>2. QED
          BY <1>2, <5>1 DEF Counting
      <4>2. QED
        BY <4>1, <3>2 DEF Counting
    <3>3. QED
      BY <3>1, <3>2
  <2>5. Counting(t, c, h)
    BY <2>1, <2>2, <2>3, <2>4 DEF Counting
  <2>6. QED
    BY <1>2, <2>5
<1>3. QED
  BY <1>1, <1>2

\* A toggle is printed.
LEMMA CountPrinted ==
  ASSUME NEW s, NEW t, NEW c, NEW h, Len(s) \in Nat, Counting(s, c, h),
         Len(t) = Len(s) + 2, \A i \in 1 .. Len(s) : t[i] = s[i],
         t[Len(s) + 1].word = "toggle", t[Len(s) + 1].n = (c + 1) % Word,
         t[Len(s) + 2].word # "toggle"
  PROVE  Counting(t, (c + 1) % Word, h)
<1>1. \A i \in 1 .. Len(t) :
        \/ i \in 1 .. Len(s) /\ t[i] = s[i]
        \/ i = Len(s) + 1
        \/ i = Len(s) + 2
  OBVIOUS
<1>2. ASSUME NEW i \in 1 .. Len(t)
      PROVE  t[i].word = "toggle" <=> (Len(t) - i) % 2 = 1
  <2>1. CASE i \in 1 .. Len(s) /\ t[i] = s[i]
    <3>1. (Len(t) - i) % 2 = (Len(s) - i) % 2
      BY <2>1
    <3>2. QED
      BY <2>1, <3>1 DEF Counting
  <2>2. CASE i = Len(s) + 1
    <3>1. Len(t) - i = 1 /\ 1 % 2 = 1
      BY <2>2
    <3>2. QED
      BY <2>2, <3>1
  <2>3. CASE i = Len(s) + 2
    <3>1. Len(t) - i = 0 /\ 0 % 2 = 0
      BY <2>3
    <3>2. QED
      BY <2>3, <3>1
  <2>4. QED
    BY <1>1, <2>1, <2>2, <2>3
<1>3. ASSUME NEW i \in 1 .. Len(t) - 2, t[i].word = "toggle"
      PROVE  t[i + 2].n = (t[i].n + 1) % Word
  <2>1. i \in 1 .. Len(s) /\ t[i] = s[i] /\ s[i].word = "toggle"
    BY <1>3
  <2>2. CASE i <= Len(s) - 2
    BY <2>1, <2>2 DEF Counting
  <2>3. CASE ~(i <= Len(s) - 2)
    <3>1. i = Len(s) - 1 /\ Len(s) >= 2 /\ i + 2 = Len(s) + 1
      BY <2>1, <2>3 DEF Counting
    <3>2. s[i].n = c
      BY <3>1 DEF Counting
    <3>3. QED
      BY <2>1, <3>1, <3>2
  <2>4. QED
    BY <2>2, <2>3
<1>4. ASSUME NEW i \in 1 .. Len(t), i <= 2, t[i].word = "toggle"
      PROVE  t[i].n = (h + 1) % Word
  <2>1. CASE i <= Len(s)
    BY <1>4, <2>1 DEF Counting
  <2>2. CASE ~(i <= Len(s))
    <3>1. i = Len(s) + 1 /\ ~(Len(s) >= 2)
      BY <1>4, <2>2
    <3>2. h = c
      BY <3>1 DEF Counting
    <3>3. QED
      BY <3>1, <3>2
  <2>3. QED
    BY <2>1, <2>2
<1>5. Len(t) >= 2 /\ t[Len(t) - 1].n = (c + 1) % Word
  <2>1. Len(t) - 1 = Len(s) + 1
    OBVIOUS
  <2>2. QED
    BY <2>1
<1>6. QED
  BY <1>2, <1>3, <1>4, <1>5 DEF Counting

\* What the three kinds of step make of the stream.
LEMMA StreamTyped ==
  ASSUME IInv
  PROVE  /\ txf \in Seq(Word_) /\ line \in Seq(Word_) /\ Stream \in Seq(Word_)
         /\ Len(Stream) = Len(txf) + Len(line) /\ Len(Stream) \in Nat
         /\ line = << >> => Stream = txf
         /\ txf # << >> => Stream[1] = Head(txf) /\ Len(Stream) # 0
<1>1. txf \in Seq(Word_) /\ line \in Seq(Word_)
  BY DEF IInv, Lines
<1>2. /\ Stream \in Seq(Word_) /\ Len(Stream) = Len(txf) + Len(line)
      /\ \A i \in 1 .. Len(txf) + Len(line) :
           Stream[i] = IF i <= Len(txf) THEN txf[i] ELSE line[i - Len(txf)]
  BY <1>1, ConcatProperties DEF Stream
<1>3. Len(txf) \in Nat /\ Len(line) \in Nat /\ (txf # << >> => Len(txf) # 0)
  BY <1>1, LenProperties, EmptySeq
<1>4. line = << >> => Stream = txf
  BY <1>1, ConcatEmptySeq DEF Stream
<1>5. txf # << >> => Head(txf) = txf[1]
  BY <1>1
<1>6. QED
  BY <1>1, <1>2, <1>3, <1>4, <1>5

LEMMA StreamMoves ==
  ASSUME IInv, line # << >>,
         txf' = Append(txf, Head(line)), line' = Tail(line)
  PROVE  Stream' = Stream
<1>1. txf \in Seq(Word_) /\ line \in Seq(Word_) /\ Stream \in Seq(Word_)
  BY StreamTyped
<1>2. /\ Head(line) \in Word_ /\ Tail(line) \in Seq(Word_)
      /\ line = <<Head(line)>> \o Tail(line)
  BY <1>1
<1>3. Append(txf, Head(line)) = txf \o <<Head(line)>>
  BY <1>1, <1>2, AppendIsConcat
<1>4. <<Head(line)>> \in Seq(Word_)
  BY <1>2
<1>5. (txf \o <<Head(line)>>) \o Tail(line) = txf \o (<<Head(line)>> \o Tail(line))
  BY <1>1, <1>2, <1>4, ConcatAssociative
<1>6. QED
  BY <1>2, <1>3, <1>5 DEF Stream

LEMMA StreamLeaves ==
  ASSUME IInv, txf # << >>, txf' = Tail(txf), line' = line
  PROVE  /\ Len(Stream') = Len(Stream) - 1
         /\ \A i \in 1 .. Len(Stream') : Stream'[i] = Stream[i + 1]
<1>1. /\ txf \in Seq(Word_) /\ line \in Seq(Word_)
      /\ Tail(txf) \in Seq(Word_) /\ Len(Tail(txf)) = Len(txf) - 1
      /\ \A i \in 1 .. Len(Tail(txf)) : Tail(txf)[i] = txf[i + 1]
  BY StreamTyped, HeadTailProperties
<1>2. /\ Len(Stream) = Len(txf) + Len(line)
      /\ \A i \in 1 .. Len(txf) + Len(line) :
           Stream[i] = IF i <= Len(txf) THEN txf[i] ELSE line[i - Len(txf)]
  BY <1>1, ConcatProperties DEF Stream
<1>3. Stream' = Tail(txf) \o line
  BY DEF Stream
<1>4. /\ Len(Stream') = Len(Tail(txf)) + Len(line)
      /\ \A i \in 1 .. Len(Tail(txf)) + Len(line) :
           Stream'[i] = IF i <= Len(Tail(txf)) THEN Tail(txf)[i]
                        ELSE line[i - Len(Tail(txf))]
  BY <1>1, <1>3, ConcatProperties
<1>5. Len(txf) \in Nat /\ Len(line) \in Nat
  BY <1>1, LenProperties
<1>6. ASSUME NEW i \in 1 .. Len(Stream') PROVE Stream'[i] = Stream[i + 1]
  <2>1. CASE i <= Len(Tail(txf))
    BY <1>1, <1>2, <1>4, <1>5, <2>1
  <2>2. CASE ~(i <= Len(Tail(txf)))
    <3>1. i - Len(Tail(txf)) = (i + 1) - Len(txf)
      BY <1>1, <1>5
    <3>2. QED
      BY <1>1, <1>2, <1>4, <1>5, <2>2, <3>1
  <2>3. QED
    BY <2>1, <2>2
<1>7. QED
  BY <1>1, <1>2, <1>4, <1>5, <1>6

LEMMA StreamGrows ==
  ASSUME IInv, line = << >>, txf' = txf, line' \in Seq(Word_)
  PROVE  /\ Len(Stream') = Len(Stream) + Len(line')
         /\ \A i \in 1 .. Len(Stream) : Stream'[i] = Stream[i]
         /\ \A i \in 1 .. Len(line') : Stream'[Len(Stream) + i] = line'[i]
<1>1. Stream = txf /\ txf \in Seq(Word_) /\ Stream' = txf \o line'
  BY StreamTyped DEF Stream
<1>2. /\ Len(txf \o line') = Len(txf) + Len(line')
      /\ \A i \in 1 .. Len(txf) + Len(line') :
           (txf \o line')[i] = IF i <= Len(txf) THEN txf[i]
                               ELSE line'[i - Len(txf)]
  BY <1>1, ConcatProperties
<1>3. Len(txf) \in Nat /\ Len(line') \in Nat
  BY <1>1, LenProperties
<1>4. QED
  BY <1>1, <1>2, <1>3

\* Words that are no toggle leave the numbering alone.
LEMMA CountGreets ==
  ASSUME NEW t, NEW c, Len(t) = 1, t[1].word # "toggle"
  PROVE  Counting(t, c, c)
<1>1. \A i \in 1 .. Len(t) : i = 1 /\ Len(t) - i = 0
  OBVIOUS
<1>2. 0 % 2 = 0
  OBVIOUS
<1>3. QED
  BY <1>1, <1>2 DEF Counting

\* A call of the bring-up.
LEMMA CountBringup ==
  ASSUME IInv, CountInv, Bringup
  PROVE  CountInv' /\ heard' = heard
<1> DEFINE Others == {"xosc_init", "pll_sys_150_mhz", "pll_usb_48_mhz",
                      "uart0_init", "clocks_init", "gpio_led_init", "dwt_init",
                      "clocks_post_pll_uart_baud_fixup"}
<1>1. /\ UNCHANGED <<app, pc, line, next, txf, heard>> /\ pc = "bringup"
      /\ \/ CRuntimeInit /\ count' = 0 /\ step' = step + 1
         \/ /\ count' = count /\ step' \in {step, step + 1}
            /\ \E f \in Others : Calling(f)
  <2>1. CASE CRuntimeInit
    BY <2>1 DEF CRuntimeInit, Elsewhere, Calling, Returns
  <2>2. ASSUME NEW f \in Polling, Enable(f) \/ Ready(f)
        PROVE  /\ UNCHANGED <<app, pc, line, next, txf, heard, count>>
               /\ pc = "bringup" /\ step' \in {step, step + 1}
               /\ f \in Others /\ Calling(f)
    BY <2>2 DEF Enable, Ready, Elsewhere, Calling, Returns, Polling, Device
  <2>3. CASE ClocksInit \/ BaudFixup \/ LedInit \/ DwtInit
    BY <2>3 DEF ClocksInit, BaudFixup, LedInit, DwtInit, Elsewhere, Calling,
       Returns
  <2>4. QED
    BY <2>1, <2>2, <2>3 DEF Bringup
<1>2. txf = << >> /\ line = << >>
  BY <1>1 DEF IInv, Order, CountInv
<1>3. Stream = << >> /\ Stream' = << >> /\ Len(<< >>) = 0
  <2>1. Stream = << >> \o << >> /\ Stream' = << >> \o << >>
    BY <1>1, <1>2 DEF Stream
  <2>2. QED
    BY <2>1
<1>4. step \in Nat /\ step >= 1
  <2>1. Len(Calls) \in Nat
    BY Places DEF IInv, TypeOK
  <2>2. QED
    BY <2>1 DEF IInv, TypeOK
<1>5. \A c : Counting(<< >>, c, c)
  BY <1>3 DEF Counting
<1>6. app = "hello_rust" => IF step' = 1 THEN heard' = 0
                            ELSE Counting(<< >>, count', heard')
  <2>1. CASE CRuntimeInit /\ count' = 0 /\ step' = step + 1
    <3>1. step = 1
      <4>1. step \in 1 .. Len(Calls)
        BY <1>4, <2>1 DEF CRuntimeInit, Calling
      <4>2. QED
        BY <2>1, <4>1, Places DEF CRuntimeInit, IInv, TypeOK
    <3>2. app = "hello_rust" => heard' = 0
      BY <1>1, <3>1 DEF CountInv
    <3>3. QED
      BY <1>5, <2>1, <3>1, <3>2
  <2>2. CASE /\ count' = count /\ step' \in {step, step + 1}
             /\ \E f \in Others : Calling(f)
    <3>1. step # 1
      <4>1. step \in 1 .. Len(Calls)
        BY <1>4, <2>2 DEF Calling
      <4>2. PICK f \in Others : Calling(f)
        BY <2>2
      <4>3. /\ f \in {"xosc_init", "pll_sys_150_mhz", "pll_usb_48_mhz"}
                 => step \in 2 .. 4
            /\ f = "clocks_init" => step = 5
            /\ f = "gpio_led_init" => step \in {6, 7}
            /\ f = "uart0_init" => step = 7
            /\ f = "clocks_post_pll_uart_baud_fixup" => step \in {6, 8}
            /\ f = "dwt_init" => step \in {8, 9}
        BY <4>1, <4>2, Places DEF IInv, TypeOK
      <4>4. QED
        BY <4>2, <4>3
    <3>2. step' # 1
      BY <1>4, <2>2, <3>1
    <3>3. app = "hello_rust" => Counting(<< >>, count, heard)
      BY <1>3, <3>1 DEF CountInv
    <3>4. QED
      BY <1>1, <2>2, <3>2, <3>3
  <2>3. QED
    BY <1>1, <2>1, <2>2
<1>7. QED
  BY <1>1, <1>2, <1>3, <1>6 DEF CountInv

\* Every other step.
LEMMA CountOthers ==
  ASSUME IInv, CountInv,
         Putc \/ Poll \/ Hello \/ Ssd \/ Bme \/ Panics \/ Blinks \/ Settle
         \/ Transmit \/ Reset \/ UNCHANGED vars
  PROVE  /\ CountInv'
         /\ heard' # heard => heard' = (heard + 1) % Word \/ resets' # resets
<1>0. /\ Stream \in Seq(Word_) /\ Len(Stream) \in Nat
      /\ (pc # "print" => line = << >> /\ Stream = txf)
  BY StreamTyped DEF CountInv
<1>c. Len(Calls) \in {8, 9} /\ step \in 1 .. Len(Calls) + 1
      /\ (app = "hello_rust" => Len(Calls) = 9)
  BY Places DEF IInv, TypeOK
<1>n. pc # "bringup" => step > Len(Calls)
  BY DEF IInv, Order
<1>s. pc # "bringup" => step > Len(Calls) /\ step > 7 /\ step # 1
  <2>1. CASE Len(Calls) = 8
    BY <1>c, <1>n, <2>1
  <2>2. CASE Len(Calls) = 9
    BY <1>c, <1>n, <2>2
  <2>3. QED
    BY <1>c, <2>1, <2>2
<1>1. CASE Putc
  <2>1. /\ line # << >> /\ pc = "print" /\ next # "print"
        /\ UNCHANGED <<app, step, next, count, heard>>
        /\ line' = Tail(line) /\ pc' \in {"print", next}
        /\ txf' = IF "uart0" \in settled THEN Append(txf, Head(line)) ELSE txf
        /\ (pc' # "print" => Len(line) = 1)
    BY <1>1 DEF Putc, IInv, Lines
  <2>2. pc' # "print" => line' = << >>
    <3>1. ASSUME Len(line) = 1 PROVE Tail(line) = << >>
      <4>1. Tail(line) \in Seq(Word_) /\ Len(Tail(line)) = 0
        BY <2>1, <3>1, StreamTyped, HeadTailProperties
      <4>2. QED
        BY <4>1, EmptySeq
    <3>2. QED
      BY <2>1, <3>1
  <2>3. CASE "uart0" \in settled
    <3>1. Stream' = Stream
      BY <2>1, <2>3, StreamMoves
    <3>2. QED
      BY <2>1, <2>2, <3>1 DEF CountInv
  <2>4. CASE "uart0" \notin settled
    <3>1. app = "ssd1306_demo"
      BY <1>s, <2>1, <2>4 DEF IInv, Order
    <3>2. QED
      BY <2>1, <3>1 DEF CountInv
  <2>5. QED
    BY <2>3, <2>4
<1>2. CASE Transmit
  <2>1. /\ txf # << >> /\ txf' = Tail(txf)
        /\ UNCHANGED <<app, pc, step, line, next, count>>
        /\ heard' = IF Head(txf).word = "toggle" THEN Head(txf).n ELSE heard
    BY <1>2 DEF Transmit
  <2>2. Stream[1] = Head(txf) /\ Len(Stream) \in Nat \ {0}
    BY <2>1, StreamTyped
  <2>3. /\ Len(Stream') = Len(Stream) - 1
        /\ \A i \in 1 .. Len(Stream') : Stream'[i] = Stream[i + 1]
    BY <2>1, StreamLeaves
  <2>4. step # 1
    BY <1>s, <2>1 DEF IInv, Order
  <2>5. CASE app = "hello_rust"
    <3>1. Counting(Stream, count, heard)
      BY <2>4, <2>5 DEF CountInv
    <3>2. IF Stream[1].word = "toggle"
          THEN /\ Stream[1].n = (heard + 1) % Word
               /\ Counting(Stream', count, Stream[1].n)
          ELSE Counting(Stream', count, heard)
      BY <2>2, <2>3, <3>1, CountHeard
    <3>3. Counting(Stream', count, heard')
          /\ (heard' # heard => heard' = (heard + 1) % Word)
      BY <2>1, <2>2, <3>2
    <3>4. QED
      BY <2>1, <2>4, <2>5, <3>3 DEF CountInv
  <2>6. CASE app # "hello_rust"
    <3>1. \A i \in 1 .. Len(Stream) : Stream[i].word # "toggle"
      BY <2>6 DEF CountInv
    <3>2. Stream[1].word # "toggle"
      BY <2>2, <3>1
    <3>3. \A i \in 1 .. Len(Stream') : Stream'[i].word # "toggle"
      BY <2>2, <2>3, <3>1
    <3>4. QED
      BY <2>1, <2>2, <2>6, <3>2, <3>3 DEF CountInv
  <2>7. QED
    BY <2>5, <2>6
<1>3. CASE Reset
  <2>1. /\ pc' = "bringup" /\ next' = "loop" /\ line' = << >> /\ txf' = << >>
        /\ step' = 1 /\ heard' = 0 /\ resets' # resets
    BY <1>3, AppsAssumption DEF Reset, Restarted, IInv, TypeOK
  <2>2. Stream' = << >> \o << >>
    BY <2>1 DEF Stream
  <2>3. Len(Stream') = 0
    BY <2>2
  <2>4. QED
    BY <2>1, <2>3 DEF CountInv
<1>4. CASE HelloGreets
  <2>1. /\ app = "hello_rust" /\ pc = "bringup" /\ step > Len(Calls)
        /\ line' = <<Say("hello", 0)>> /\ next' = "loop" /\ pc' = "print"
        /\ UNCHANGED <<app, step, txf, count, heard>>
    BY <1>4 DEF HelloGreets, BroughtUp, Prints, Kept
  <2>2. line = << >> /\ txf = << >> /\ Len(Stream) = 0
    BY <1>0, <2>1 DEF IInv, Order
  <2>3. Say("hello", 0) \in Word_ /\ Say("hello", 0).word # "toggle"
    BY DEF Say, Word_, Said
  <2>4. line' \in Seq(Word_) /\ Len(line') = 1 /\ line'[1] = Say("hello", 0)
    BY <2>1, <2>3
  <2>5. Len(Stream') = 1 /\ Stream'[1].word # "toggle"
    BY <2>1, <2>2, <2>3, <2>4, StreamGrows
  <2>6. step # 1
    BY <1>c, <2>1
  <2>7. count = heard
    BY <2>1, <2>2, <2>6 DEF CountInv, Counting
  <2>8. Counting(Stream', count, heard)
    BY <2>5, <2>7, CountGreets
  <2>9. QED
    BY <2>1, <2>6, <2>8 DEF CountInv
<1>5. CASE HelloToggles
  <2>1. /\ app = "hello_rust" /\ pc = "loop" /\ count' = (count + 1) % Word
        /\ line' = <<Say("toggle", count'), Say("took", 0)>>
        /\ next' = "loop" /\ pc' = "print"
        /\ UNCHANGED <<app, step, txf, heard>>
    BY <1>5 DEF HelloToggles, At, Prints, Kept
  <2>2. line = << >> /\ step # 1
    BY <1>0, <1>s, <2>1
  <2>3. count' \in Int
    BY <2>1, AppsAssumption DEF IInv, TypeOK
  <2>4. /\ Say("toggle", count') \in Word_ /\ Say("took", 0) \in Word_
        /\ Say("toggle", count').word = "toggle" /\ Say("toggle", count').n = count'
        /\ Say("took", 0).word # "toggle"
    BY <2>3 DEF Say, Word_, Said
  <2>5. /\ line' \in Seq(Word_) /\ Len(line') = 2
        /\ line'[1] = Say("toggle", count') /\ line'[2] = Say("took", 0)
    BY <2>1, <2>4
  <2>6. /\ Len(Stream') = Len(Stream) + 2
        /\ \A i \in 1 .. Len(Stream) : Stream'[i] = Stream[i]
        /\ Stream'[Len(Stream) + 1] = Say("toggle", count')
        /\ Stream'[Len(Stream) + 2] = Say("took", 0)
    BY <2>1, <2>2, <2>5, StreamGrows
  <2>7. Counting(Stream, count, heard)
    BY <2>1, <2>2 DEF CountInv
  <2>8. Counting(Stream', count', heard)
    BY <1>0, <2>1, <2>4, <2>6, <2>7, CountPrinted
  <2>9. QED
    BY <2>1, <2>2, <2>8 DEF CountInv
<1>6. CASE BmeStarts \/ Answered
  <2>1. /\ app = "bme280_demo" /\ pc # "print" /\ pc' = "print"
        /\ UNCHANGED <<app, txf, heard>>
    BY <1>6 DEF BmeStarts, Answered, BmeInits, BmeSamples, At, BroughtUp, Prints,
       Kept
  <2>2. PICK w \in Word_ : line' = <<w>> /\ w.word # "toggle"
    <3>1. \A x : x \in Said => Say(x, 0) \in Word_ /\ Say(x, 0).word = x
      BY DEF Say, Word_
    <3>2. ASSUME NEW x \in Said, x # "toggle", line' = <<Say(x, 0)>>
          PROVE  \E w \in Word_ : line' = <<w>> /\ w.word # "toggle"
      BY <3>1, <3>2
    <3>3. \A t \in Temperatures :
            Temperature(t) \in Word_ /\ Temperature(t).word = "T"
      <4>1. \A t : Temperature(t).word = "T"
        BY DEF Temperature
      <4>2. ASSUME NEW t \in Temperatures PROVE Temperature(t) \in Word_
        BY Temperatures_, AppsAssumption
      <4>3. QED
        BY <4>1, <4>2, Zenon
    <3>4. CASE BmeStarts
      <4>1. line' = <<Say("probing", 0)>>
        BY <3>4 DEF BmeStarts, Prints
      <4>2. "probing" \in Said /\ "probing" # "toggle"
        BY Zenon DEF Said
      <4>3. QED
        BY <3>2, <4>1, <4>2
    <3>5. CASE BmeInits /\ ~ReadHangs
      <4>1. \E x \in {"init OK", "init FAILED"} : line' = <<Say(x, 0)>>
        BY <3>5 DEF BmeInits, Prints
      <4>2. \A x \in {"init OK", "init FAILED"} : x \in Said /\ x # "toggle"
        BY Zenon DEF Said
      <4>3. QED
        BY <3>2, <4>1, <4>2
    <3>6. CASE BmeSamples /\ ~ReadHangs
      <4>1. \/ \E t \in Temperatures : line' = <<Temperature(t)>>
            \/ line' = <<Say("read error", 0)>>
        BY <3>6 DEF BmeSamples, Prints
      <4>2. "read error" \in Said /\ "read error" # "toggle"
        BY Zenon DEF Said
      <4>3. ASSUME NEW t \in Temperatures, line' = <<Temperature(t)>>
            PROVE  \E w \in Word_ : line' = <<w>> /\ w.word # "toggle"
        BY <3>3, <4>3
      <4>4. QED
        BY <3>2, <4>1, <4>2, <4>3, Zenon
    <3>7. QED
      BY <1>6, <3>4, <3>5, <3>6 DEF Answered
  <2>3. line' \in Seq(Word_) /\ Len(line') = 1 /\ line'[1] = w
    BY <2>2
  <2>4. /\ Len(Stream') = Len(Stream) + 1
        /\ \A i \in 1 .. Len(Stream) : Stream'[i] = Stream[i]
        /\ Stream'[Len(Stream) + 1] = w
    BY <1>0, <2>1, <2>3, StreamGrows
  <2>5. \A i \in 1 .. Len(Stream) : Stream[i].word # "toggle"
    BY <2>1 DEF CountInv
  <2>6. \A i \in 1 .. Len(Stream') : Stream'[i].word # "toggle"
    BY <1>0, <2>2, <2>4, <2>5
  <2>7. QED
    BY <2>1, <2>6 DEF CountInv
<1>7. ASSUME UNCHANGED <<app, line, txf, heard>>, app # "hello_rust",
             pc # "print", pc' # "print"
      PROVE  CountInv'
  <2>1. Stream' = Stream
    BY <1>7 DEF Stream
  <2>2. QED
    BY <1>7, <2>1 DEF CountInv
<1>8. CASE Poll \/ Ssd \/ BmeToggles \/ Hangs \/ Panics
  <2>1. /\ UNCHANGED <<app, line, txf, heard>>
        /\ pc # "print" /\ pc' # "print" /\ app # "hello_rust"
    BY <1>8 DEF Poll, Ssd, SsdStarts, SsdToggles, SsdDraws, BmeToggles, Panics,
       Hangs, ReadHangs, BmeInits, BmeSamples, At, BroughtUp, Kept, DelayStarts, IInv, Lines, CountInv
  <2>2. QED
    BY <1>7, <2>1
<1>9. CASE Blinks \/ Spins \/ Settle \/ UNCHANGED vars
  <2>1. UNCHANGED <<app, pc, step, line, next, txf, count, heard>>
    BY <1>9 DEF Blinks, Spins, Settle, Kept, vars
  <2>2. Stream' = Stream
    BY <2>1 DEF Stream
  <2>3. QED
    BY <2>1, <2>2 DEF CountInv
<1>10. QED
  BY <1>1, <1>2, <1>3, <1>4, <1>5, <1>6, <1>8, <1>9
  DEF Hello, Bme, Answered, Hangs

\* hello_rust numbers the toggles it reports 1, 2, 3, ... after power-on and
\* after every reset, whatever .bss held, and no line of them is lost.
THEOREM TogglesAreNumbered == Spec => CountsUp
<1>1. Init => CountInv
  <2> SUFFICES ASSUME Init PROVE CountInv
    OBVIOUS
  <2>1. Stream = << >> \o << >>
    BY DEF Init, Stream
  <2>2. Len(Stream) = 0
    BY <2>1
  <2>3. QED
    BY <2>2 DEF Init, CountInv
<1>2. IInv /\ CountInv /\ [Next]_vars => CountInv'
  BY CountBringup, CountOthers DEF Next, Program
<1>3. IInv /\ CountInv /\ [Next]_vars =>
        [heard' # heard => \/ heard' = (heard + 1) % Word
                           \/ resets' # resets]_vars
  BY CountBringup, CountOthers DEF Next, Program
<1>4. QED
  BY Invariance, <1>1, <1>2, <1>3, PTL DEF Spec, CountsUp
=============================================================================
