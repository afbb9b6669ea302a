------------------------------- MODULE UsbCdc -------------------------------
(***************************************************************************)
(* The CDC data path of src/usb.S: the TX and RX rings between the         *)
(* firmware's thread code (cdc_putc, cdc_getc) and the two bulk endpoint   *)
(* buffers, which usb_device_isr and the host's transfers share.           *)
(*                                                                         *)
(* Three actors: the thread, the interrupt handler, which may start        *)
(* between any two instructions of the thread and runs to completion       *)
(* before the thread goes on, and the host (with the controller), which    *)
(* may complete a transfer at any time.  _cdc_try_flush_tx runs in either  *)
(* of the first two.  Control transfers are in UsbControl; here they are   *)
(* reduced to SET_CONFIGURATION and bus reset, which touch the endpoints.  *)
(*                                                                         *)
(* Bytes are numbered in the order they are written, from 1.               *)
(***************************************************************************)
EXTENDS Integers, Sequences, FiniteSets, SequencesExt

CONSTANTS
  RingSize,      \* CDC_RING_SIZE.
  MaxPacket,     \* USB_EP_BULK_MAX_PACKET.
  TxBytes,       \* Bound: bytes the firmware writes.
  RxBytes,       \* Bound: bytes the host sends.
  MaxResets,     \* Bound: bus resets after the first enumeration.
  QuickHost,     \* May a transfer complete while the routine that armed its
                 \* buffer has not finished?
  Reconfigure    \* May the host repeat SET_CONFIGURATION?

ASSUME SizeAssumption ==
  /\ RingSize \in Nat \ {0, 1}
  /\ MaxPacket \in Nat \ {0}
ASSUME BoundAssumption ==
  /\ TxBytes \in Nat /\ RxBytes \in Nat /\ MaxResets \in Nat
  /\ QuickHost \in BOOLEAN /\ Reconfigure \in BOOLEAN

Slot == 0 .. RingSize - 1
Code == {"thread", "isr"}

VARIABLES
  tx,         \* cdc_tx_buf, cdc_tx_head (next to send), cdc_tx_tail.
  rx,         \* cdc_rx_buf, cdc_rx_head (next to read), cdc_rx_tail.
  busy,       \* cdc_in_busy.
  inPid,      \* usb_ep1_in_pid: the toggle of the next IN packet.
  outPid,     \* usb_ep1_out_pid: the toggle of the next OUT arming.
  epIn,       \* EP1 IN: its buffer and its buf_ctrl word.
  epOut,      \* EP1 OUT: its buffer and its buf_ctrl word.
  buffStatus, \* BUFF_STATUS: endpoints with a completed transfer.
  sie,        \* Pending bus reset and SETUP.
  pc, reg,    \* Where each of Code is, and its registers.
  todo,       \* What the handler's INTS or BUFF_STATUS reads still ask for.
  host,       \* The host: configured?, its toggles, what it sent and got.
  wrote,      \* Bytes cdc_putc has accepted (history).
  got,        \* What cdc_getc has returned (history).
  dropped,    \* Bytes the drain found no room for (history).
  resets

fifos == <<tx, rx>>
shadow == <<busy, inPid, outPid>>
endpoints == <<epIn, epOut>>
code == <<pc, reg, todo>>
history == <<wrote, got, dropped, resets>>
vars == <<fifos, shadow, endpoints, buffStatus, sie, code, host, history>>

After(i) == (i + 1) % RingSize
Free(ring) == (ring.head - ring.tail - 1) % RingSize
EmptyRing == [buf |-> [i \in Slot |-> 0], head |-> 0, tail |-> 0]
EmptyBuffer == [data |-> [i \in 1 .. MaxPacket |-> 0], avail |-> FALSE,
                len |-> 0, pid |-> 0]
NoReg == [head |-> 0, tail |-> 0, count |-> 0, pid |-> 0]

\* The bytes between head and tail of a ring, oldest first.
Held(ring) ==
  [k \in 1 .. (ring.tail - ring.head) % RingSize |->
     ring.buf[(ring.head + k - 1) % RingSize]]

\* The contents of a buffer whose transfer completed, up to its LENGTH.
Payload(ep) == SubSeq(ep.data, 1, ep.len)

\* usb_device_init, and the bus reset that opens enumeration handled.
Init ==
  /\ tx = EmptyRing /\ rx = EmptyRing
  /\ busy = FALSE /\ inPid = 0 /\ outPid = 0
  /\ epIn = EmptyBuffer /\ epOut = EmptyBuffer
  /\ buffStatus = {} /\ sie = {}
  /\ pc = [thread |-> "ready", isr |-> "idle"]
  /\ reg = [c \in Code |-> NoReg]
  /\ todo = {}
  /\ host = [ready |-> FALSE, asked |-> FALSE, inPid |-> 0, outPid |-> 0,
             sent |-> 0, got |-> << >>]
  /\ wrote = 0 /\ got = << >> /\ dropped = {} /\ resets = 0

\* The thread runs only while no handler is active.
At(c, label) == pc[c] = label /\ (c = "thread" => pc["isr"] = "idle")
Goto(c, label) == pc' = [pc EXCEPT ![c] = label]
SetReg(c, r) == reg' = [reg EXCEPT ![c] = r]

-----------------------------------------------------------------------------
(* cdc_putc, up to its call of _cdc_try_flush_tx.                          *)

\* Load head and tail; a full ring drops the byte.
PutCheck ==
  /\ At("thread", "ready")
  /\ wrote < TxBytes
  /\ Free(tx) # 0
  /\ Goto("thread", "putStore")
  /\ SetReg("thread", [NoReg EXCEPT !.tail = tx.tail])
  /\ UNCHANGED <<fifos, shadow, endpoints, buffStatus, sie, todo, host,
                 history>>

PutStore ==
  /\ At("thread", "putStore")
  /\ tx' = [tx EXCEPT !.buf[reg["thread"].tail] = wrote + 1]
  /\ Goto("thread", "putPublish")
  /\ UNCHANGED <<rx, shadow, endpoints, buffStatus, sie, reg, todo, host,
                 history>>

PutPublish ==
  /\ At("thread", "putPublish")
  /\ tx' = [tx EXCEPT !.tail = After(reg["thread"].tail)]
  /\ wrote' = wrote + 1
  /\ SetReg("thread", NoReg)
  /\ Goto("thread", "flush")
  /\ UNCHANGED <<rx, shadow, endpoints, buffStatus, sie, todo, host, got,
                 dropped, resets>>

-----------------------------------------------------------------------------
(* _cdc_try_flush_tx, in the thread or in the handler.                     *)

FlushReturn(c) == IF c = "thread" THEN "ready" ELSE "inAck"

\* Busy: the completion of the packet in flight will flush.
FlushBusy(c) ==
  /\ At(c, "flush")
  /\ busy
  /\ Goto(c, FlushReturn(c))
  /\ UNCHANGED <<fifos, shadow, endpoints, buffStatus, sie, reg, todo, host,
                 history>>

FlushIdle(c) ==
  /\ At(c, "flush")
  /\ ~busy
  /\ Goto(c, "load")
  /\ UNCHANGED <<fifos, shadow, endpoints, buffStatus, sie, reg, todo, host,
                 history>>

\* Load head and tail.  The only step that finds the ring empty.
FlushLoad(c) ==
  /\ At(c, "load")
  /\ IF tx.head = tx.tail
     THEN Goto(c, FlushReturn(c)) /\ UNCHANGED reg
     ELSE /\ Goto(c, "copy")
          /\ SetReg(c, [NoReg EXCEPT !.head = tx.head, !.tail = tx.tail])
  /\ UNCHANGED <<fifos, shadow, endpoints, buffStatus, sie, todo, host,
                 history>>

\* The copy loop, one byte a step.
MoreToCopy(r) == r.count < MaxPacket /\ r.head # r.tail

FlushCopy(c) ==
  /\ At(c, "copy")
  /\ MoreToCopy(reg[c])
  /\ LET r == reg[c] IN
       /\ epIn' = [epIn EXCEPT !.data[r.count + 1] = tx.buf[r.head]]
       /\ SetReg(c, [r EXCEPT !.head = After(@), !.count = @ + 1])
  /\ UNCHANGED <<fifos, shadow, epOut, buffStatus, sie, pc, todo, host,
                 history>>

\* Store head, load the toggle.
FlushSaveHead(c) ==
  /\ At(c, "copy")
  /\ ~MoreToCopy(reg[c])
  /\ tx' = [tx EXCEPT !.head = reg[c].head]
  /\ SetReg(c, [reg[c] EXCEPT !.pid = inPid])
  /\ Goto(c, "savePid")
  /\ UNCHANGED <<rx, shadow, endpoints, buffStatus, sie, todo, host, history>>

FlushSavePid(c) ==
  /\ At(c, "savePid")
  /\ inPid' = 1 - reg[c].pid
  /\ Goto(c, "arm")
  /\ UNCHANGED <<fifos, busy, outPid, endpoints, buffStatus, sie, reg, todo,
                 host, history>>

\* The buf_ctrl store: from here on the host may take the packet ...
FlushArm(c) ==
  /\ At(c, "arm")
  /\ epIn' = [epIn EXCEPT !.avail = TRUE, !.len = reg[c].count,
                          !.pid = reg[c].pid]
  /\ Goto(c, "markBusy")
  /\ UNCHANGED <<fifos, shadow, epOut, buffStatus, sie, reg, todo, host,
                 history>>

\* Mutant of FlushMarkBusy: cdc_in_busy is not set.
FlushMarkBusyForgotten(c) ==
  /\ At(c, "markBusy")
  /\ SetReg(c, NoReg)
  /\ Goto(c, FlushReturn(c))
  /\ UNCHANGED <<fifos, shadow, endpoints, buffStatus, sie, todo, host,
                 history>>

\* ... and only then cdc_in_busy = 1.
FlushMarkBusy(c) ==
  /\ At(c, "markBusy")
  /\ busy' = TRUE
  /\ SetReg(c, NoReg)
  /\ Goto(c, FlushReturn(c))
  /\ UNCHANGED <<fifos, inPid, outPid, endpoints, buffStatus, sie, todo, host,
                 history>>

Flush(c) ==
  \/ FlushBusy(c) \/ FlushIdle(c) \/ FlushLoad(c) \/ FlushCopy(c)
  \/ FlushSaveHead(c) \/ FlushSavePid(c) \/ FlushArm(c) \/ FlushMarkBusy(c)

-----------------------------------------------------------------------------
(* cdc_getc.                                                               *)

\* Load head and tail; an empty ring returns -1, which changes nothing.
GetCheck ==
  /\ At("thread", "ready")
  /\ rx.head # rx.tail
  /\ SetReg("thread", [NoReg EXCEPT !.head = rx.head])
  /\ Goto("thread", "getLoad")
  /\ UNCHANGED <<fifos, shadow, endpoints, buffStatus, sie, todo, host,
                 history>>

GetLoad ==
  /\ At("thread", "getLoad")
  /\ got' = Append(got, rx.buf[reg["thread"].head])
  /\ Goto("thread", "getStore")
  /\ UNCHANGED <<fifos, shadow, endpoints, buffStatus, sie, reg, todo, host,
                 wrote, dropped, resets>>

\* Mutant of GetStore: the index is not masked.
GetStoreUnmasked ==
  /\ At("thread", "getStore")
  /\ rx' = [rx EXCEPT !.head = @ + 1]
  /\ SetReg("thread", NoReg)
  /\ Goto("thread", "ready")
  /\ UNCHANGED <<tx, shadow, endpoints, buffStatus, sie, todo, host, history>>

GetStore ==
  /\ At("thread", "getStore")
  /\ rx' = [rx EXCEPT !.head = After(reg["thread"].head)]
  /\ SetReg("thread", NoReg)
  /\ Goto("thread", "ready")
  /\ UNCHANGED <<tx, shadow, endpoints, buffStatus, sie, todo, host, history>>

Thread ==
  \/ PutCheck \/ PutStore \/ PutPublish \/ Flush("thread")
  \/ GetCheck \/ GetLoad \/ GetStore

-----------------------------------------------------------------------------
(* usb_device_isr.  "todo" is what its reads of INTS, then of BUFF_STATUS, *)
(* said; the blocks run in the code's order.                               *)

Ints == sie \cup (IF buffStatus # {} THEN {"buff"} ELSE {})

IsrEnter ==
  /\ pc["isr"] = "idle"
  /\ Ints # {}
  /\ todo' = Ints
  /\ Goto("isr", "dispatch")
  /\ UNCHANGED <<fifos, shadow, endpoints, buffStatus, sie, reg, host,
                 history>>

IsrReturn ==
  /\ At("isr", "dispatch")
  /\ todo = {}
  /\ Goto("isr", "idle")
  /\ UNCHANGED <<fifos, shadow, endpoints, buffStatus, sie, reg, todo, host,
                 history>>

\* _usb_handle_bus_reset, and the W1C of BUS_RESET.
IsrBusReset ==
  /\ At("isr", "dispatch")
  /\ "reset" \in todo
  /\ inPid' = 0 /\ outPid' = 0 /\ busy' = FALSE
  /\ sie' = sie \ {"reset"}
  /\ todo' = todo \ {"reset"}
  /\ UNCHANGED <<fifos, endpoints, buffStatus, pc, reg, host, history>>

\* Mutant of ArmOut: the toggle is not advanced.
ArmOutSamePid ==
  /\ epOut' = [epOut EXCEPT !.avail = TRUE, !.len = MaxPacket, !.pid = outPid]
  /\ outPid' = outPid

\* usb_ep_receive_arm(1, 64).
ArmOut ==
  /\ epOut' = [epOut EXCEPT !.avail = TRUE, !.len = MaxPacket, !.pid = outPid]
  /\ outPid' = 1 - outPid

\* SET_CONFIGURATION in _usb_handle_setup: enable the endpoints, arm EP1
\* OUT, send the status ZLP (on which the host resets its toggles, if it
\* still waits for it).
IsrSetConfiguration ==
  /\ At("isr", "dispatch")
  /\ "reset" \notin todo /\ "setup" \in todo
  /\ ArmOut
  /\ host' = IF host.asked
             THEN [host EXCEPT !.ready = TRUE, !.asked = FALSE,
                               !.inPid = 0, !.outPid = 0]
             ELSE host
  /\ sie' = sie \ {"setup"}
  /\ todo' = todo \ {"setup"}
  /\ UNCHANGED <<fifos, busy, inPid, epIn, buffStatus, pc, reg, history>>

\* _usb_handle_buff_status: read BUFF_STATUS.
IsrReadBuffStatus ==
  /\ At("isr", "dispatch")
  /\ todo = {"buff"}
  /\ todo' = buffStatus
  /\ UNCHANGED <<fifos, shadow, endpoints, buffStatus, sie, pc, reg, host,
                 history>>

Completions == {"in", "out"}

\* Mutant of IsrInDone: cdc_in_busy is left set.
IsrInDoneStillBusy ==
  /\ At("isr", "dispatch")
  /\ todo \subseteq Completions /\ "in" \in todo
  /\ Goto("isr", "flush")
  /\ UNCHANGED <<fifos, shadow, endpoints, buffStatus, sie, reg, todo, host,
                 history>>

\* EP1 IN completed: cdc_in_busy = 0, _cdc_try_flush_tx ...
IsrInDone ==
  /\ At("isr", "dispatch")
  /\ todo \subseteq Completions /\ "in" \in todo
  /\ busy' = FALSE
  /\ Goto("isr", "flush")
  /\ UNCHANGED <<fifos, inPid, outPid, endpoints, buffStatus, sie, reg, todo,
                 host, history>>

\* ... and only then the W1C of bit 2.
IsrInAck ==
  /\ At("isr", "inAck")
  /\ buffStatus' = buffStatus \ {"in"}
  /\ todo' = todo \ {"in"}
  /\ Goto("isr", "dispatch")
  /\ UNCHANGED <<fifos, shadow, endpoints, sie, reg, host, history>>

\* Mutant of Drained: the whole packet, whatever the room.
DrainedAll == epOut.len

\* EP1 OUT completed: _cdc_drain_ep1_out copies until the ring is full and
\* leaves the rest of the packet ...
Drained == LET room == Free(rx) IN IF epOut.len < room THEN epOut.len ELSE room

IsrDrain ==
  /\ At("isr", "dispatch")
  /\ todo = {"out"}
  /\ rx' = [rx EXCEPT
       !.buf = [i \in Slot |->
                  LET k == ((i - rx.tail) % RingSize) + 1
                  IN  IF k <= Drained THEN epOut.data[k] ELSE @[i]],
       !.tail = (@ + Drained) % RingSize]
  /\ dropped' = dropped \cup {epOut.data[k] : k \in Drained + 1 .. epOut.len}
  /\ Goto("isr", "rearm")
  /\ UNCHANGED <<tx, shadow, endpoints, buffStatus, sie, reg, todo, host,
                 wrote, got, resets>>

\* Mutant of IsrRearm: nothing is armed.
IsrRearmForgotten ==
  /\ At("isr", "rearm")
  /\ Goto("isr", "outAck")
  /\ UNCHANGED <<fifos, shadow, endpoints, buffStatus, sie, reg, todo, host,
                 history>>

\* ... re-arm ...
IsrRearm ==
  /\ At("isr", "rearm")
  /\ ArmOut
  /\ Goto("isr", "outAck")
  /\ UNCHANGED <<fifos, busy, inPid, epIn, buffStatus, sie, reg, todo, host,
                 history>>

\* ... and only then the W1C of bit 3.
IsrOutAck ==
  /\ At("isr", "outAck")
  /\ buffStatus' = buffStatus \ {"out"}
  /\ todo' = todo \ {"out"}
  /\ Goto("isr", "dispatch")
  /\ UNCHANGED <<fifos, shadow, endpoints, sie, reg, host, history>>

Isr ==
  \/ IsrEnter \/ IsrReturn \/ IsrBusReset \/ IsrSetConfiguration
  \/ IsrReadBuffStatus \/ IsrInDone \/ Flush("isr") \/ IsrInAck
  \/ IsrDrain \/ IsrRearm \/ IsrOutAck

-----------------------------------------------------------------------------
(* The host and the controller.                                            *)

\* The endpoints whose arming routine has not finished: thread or handler
\* stands between the buf_ctrl store and its last instruction.
InWindow == pc["thread"] = "markBusy" \/ pc["isr"] \in {"markBusy", "inAck"}
OutWindow == pc["isr"] = "outAck"

\* The host reads EP1 IN.  A packet with the wrong toggle is acknowledged
\* and thrown away, as a retransmission.
HostIn ==
  /\ host.ready
  /\ epIn.avail
  /\ QuickHost \/ ~InWindow
  /\ host' = IF epIn.pid = host.inPid
             THEN [host EXCEPT !.got = @ \o Payload(epIn), !.inPid = 1 - @]
             ELSE host
  /\ epIn' = [epIn EXCEPT !.avail = FALSE]
  /\ buffStatus' = buffStatus \cup {"in"}
  /\ UNCHANGED <<fifos, shadow, epOut, sie, code, history>>

\* The host sends the next n bytes on EP1 OUT.
HostOut ==
  /\ host.ready
  /\ epOut.avail
  /\ QuickHost \/ ~OutWindow
  /\ \E n \in 1 .. MaxPacket :
       /\ host.sent + n <= RxBytes
       /\ host' = [host EXCEPT !.sent = @ + n, !.outPid = 1 - @]
       /\ IF epOut.pid = host.outPid
          THEN /\ epOut' = [epOut EXCEPT !.avail = FALSE, !.len = n,
                    !.data = [k \in 1 .. MaxPacket |->
                                IF k <= n THEN host.sent + k ELSE @[k]]]
               /\ buffStatus' = buffStatus \cup {"out"}
          ELSE UNCHANGED <<epOut, buffStatus>>
  /\ UNCHANGED <<fifos, shadow, epIn, sie, code, history>>

\* The host configures the device, after each bus reset and, if it likes,
\* again.  (Reset recovery, 10 ms, leaves the handler time to run.)
HostSetConfiguration ==
  /\ sie = {} /\ ~host.asked
  /\ Reconfigure \/ ~host.ready
  /\ sie' = {"setup"}
  /\ host' = [host EXCEPT !.asked = TRUE]
  /\ UNCHANGED <<fifos, shadow, endpoints, buffStatus, code, history>>

HostBusReset ==
  /\ resets < MaxResets
  /\ resets' = resets + 1
  /\ sie' = sie \cup {"reset"}
  /\ host' = [host EXCEPT !.ready = FALSE, !.asked = FALSE]
  /\ UNCHANGED <<fifos, shadow, endpoints, buffStatus, code, wrote, got,
                 dropped>>

Next ==
  \/ Thread \/ Isr
  \/ HostIn \/ HostOut \/ HostSetConfiguration \/ HostBusReset

(***************************************************************************)
(* Fairness: the core executes (the thread finishes the calls it makes,    *)
(* and the firmware's loop goes on reading), the interrupt is taken, and   *)
(* the host keeps polling a configured device and configures it.           *)
(***************************************************************************)
FinishCall == pc["thread"] # "ready" /\ Thread

Fairness ==
  /\ WF_vars(FinishCall)
  /\ WF_vars(GetCheck)
  /\ WF_vars(Isr)
  /\ WF_vars(HostIn)
  /\ WF_vars(HostSetConfiguration)

Spec == Init /\ [][Next]_vars /\ Fairness

-----------------------------------------------------------------------------
Byte == 0 .. TxBytes + RxBytes
Ring == [buf : [Slot -> Byte], head : Slot, tail : Slot]
Endpoint == [data : [1 .. MaxPacket -> Byte], avail : BOOLEAN,
             len : 0 .. MaxPacket, pid : {0, 1}]
Host == [ready : BOOLEAN, asked : BOOLEAN, inPid : {0, 1}, outPid : {0, 1},
         sent : 0 .. RxBytes, got : Seq(Byte)]
Reg == [head : Slot, tail : Slot, count : 0 .. MaxPacket, pid : {0, 1}]
ThreadPlace == {"ready", "putStore", "putPublish", "flush", "load", "copy",
                "savePid", "arm", "markBusy", "getLoad", "getStore"}
IsrPlace == {"idle", "dispatch", "flush", "load", "copy", "savePid", "arm",
             "markBusy", "inAck", "rearm", "outAck"}
Label == [thread : ThreadPlace, isr : IsrPlace]

TypeOK ==
  /\ tx \in Ring /\ rx \in Ring
  /\ busy \in BOOLEAN /\ inPid \in {0, 1} /\ outPid \in {0, 1}
  /\ epIn \in Endpoint /\ epOut \in Endpoint
  /\ buffStatus \subseteq Completions
  /\ sie \subseteq {"reset", "setup"}
  /\ pc \in Label
  /\ reg \in [Code -> Reg]
  /\ todo \subseteq {"reset", "setup", "buff"} \cup Completions
  /\ host \in Host
  /\ wrote \in 0 .. TxBytes /\ got \in Seq(Byte) /\ dropped \subseteq Byte
  /\ resets \in 0 .. MaxResets

(***************************************************************************)
(* "cdc_in_busy: non-zero while EP1 IN buffer is currently shipping and we *)
(* must not stomp on it": nothing writes the buffer, or its buf_ctrl, that *)
(* the controller may be sending from.                                     *)
(***************************************************************************)
NoStomp ==
  [][epIn.avail => epIn'.data = epIn.data /\ epIn'.len = epIn.len]_vars

(***************************************************************************)
(* cdc_in_busy is set only while a packet is in flight or its completion   *)
(* is still to be handled: otherwise no completion will ever clear it, and *)
(* nothing is sent again until a bus reset.                                *)
(***************************************************************************)
BusyMeansShipping == busy => epIn.avail \/ "in" \in buffStatus

(***************************************************************************)
(* A configured device can always receive: EP1 OUT is armed, or holds a    *)
(* packet the handler is going to drain before it re-arms.                 *)
(***************************************************************************)
OutAlive == host.ready => epOut.avail \/ "out" \in buffStatus

(***************************************************************************)
(* An armed bulk endpoint carries the data toggle the host expects; with   *)
(* the other one the packet is silently lost.                              *)
(***************************************************************************)
TogglesAgree ==
  host.ready => /\ epIn.avail => epIn.pid = host.inPid
                /\ epOut.avail => epOut.pid = host.outPid

\* What the firmware has read, what waits in the ring and what waits in the
\* endpoint buffer, in order.
Read == IF pc["thread"] = "getStore" THEN Front(got) ELSE got
Undrained ==
  IF "out" \in buffStatus /\ pc["isr"] \notin {"rearm", "outAck"}
  THEN Payload(epOut) ELSE << >>
RxStream == Read \o Held(rx) \o Undrained

(***************************************************************************)
(* The host receives the bytes cdc_putc accepted, each once and in order,  *)
(* although the thread and the handler both flush the same ring; the bytes *)
(* the host sends are read in order, each once, and the only ones missing  *)
(* are those the drain found no room for.                                  *)
(***************************************************************************)
StreamsIntact ==
  /\ \A i \in DOMAIN host.got : host.got[i] = i
  /\ \A i \in 1 .. Len(RxStream) - 1 : RxStream[i] < RxStream[i + 1]
  /\ ToSet(RxStream) \cup dropped = 1 .. host.sent

(***************************************************************************)
(* Every byte cdc_putc accepts reaches the host: no completion is missed   *)
(* and no byte is left in the ring with nothing in flight to flush it; and *)
(* every byte the host sends is read by the firmware, or dropped for lack  *)
(* of room.                                                                *)
(***************************************************************************)
Delivered ==
  /\ \A n \in 1 .. TxBytes : wrote = n ~> Len(host.got) >= n
  /\ \A n \in 1 .. RxBytes : host.sent = n ~> n \in ToSet(got) \cup dropped

(***************************************************************************)
(* Whatever a bus reset loses, it does not wedge the transmitter: the ring *)
(* is emptied again and again.                                             *)
(***************************************************************************)
TxDrains == []<>(tx.head = tx.tail /\ ~busy)
=============================================================================
