---------------------------- MODULE UsbCdcProofs ----------------------------
(***************************************************************************)
(* Proofs about UsbCdc for every ring size, packet size and number of      *)
(* bytes.                                                                  *)
(*                                                                         *)
(* The type invariant needs nothing of the host.  That the device stays    *)
(* able to receive needs a host that lets the handler finish what it       *)
(* started on a buffer (~QuickHost).  The others also need a bus that is   *)
(* not reset once it is configured (NoReset) and a host that configures    *)
(* the device once (~Reconfigure), since the source loses packets          *)
(* otherwise.                                                              *)
(***************************************************************************)
EXTENDS UsbCdc, SequenceTheorems, TLAPS

\* The bus is not reset after enumeration.
NoReset == MaxResets = 0

-----------------------------------------------------------------------------
(* Ring indices are masked: the index operators without "%".               *)

\* The number of slots from a up to b, going round.
Dist(a, b) == (b - a) % RingSize

\* What the arithmetic needs to know of a slot.
LEMMA SlotInt ==
  /\ RingSize \in Int /\ RingSize > 1 /\ 0 \in Slot
  /\ \A x \in Slot : x \in Int /\ 0 <= x /\ x < RingSize
  /\ \A x \in Int : 0 <= x /\ x < RingSize => x \in Slot
BY SizeAssumption DEF Slot

\* The index after i, as "adds; and mask" computes it.
LEMMA AfterValue ==
  ASSUME NEW i \in Slot
  PROVE  /\ After(i) \in Slot
         /\ After(i) = IF i = RingSize - 1 THEN 0 ELSE i + 1
BY SizeAssumption DEF After, Slot

\* A remainder of a number that wraps at most once.
LEMMA Wrap ==
  ASSUME NEW x \in Int, -RingSize <= x, x < 2 * RingSize
  PROVE  x % RingSize = IF x < 0 THEN x + RingSize
                        ELSE IF x < RingSize THEN x ELSE x - RingSize
<1>1. RingSize \in Int /\ RingSize > 0
  BY SizeAssumption
<1>2. CASE x < 0
  BY <1>1, <1>2
<1>3. CASE 0 <= x /\ x < RingSize
  BY <1>1, <1>3
<1>4. CASE RingSize <= x
  BY <1>1, <1>4
<1>5. QED
  BY <1>1, <1>2, <1>3, <1>4

LEMMA WrapSum ==
  ASSUME NEW x \in Int, NEW y \in Int, 0 <= x + y, x + y < 2 * RingSize
  PROVE  (x + y) % RingSize = IF x + y < RingSize THEN x + y
                                                  ELSE x + y - RingSize
BY SizeAssumption

LEMMA DistValue ==
  ASSUME NEW a \in Slot, NEW b \in Slot
  PROVE  /\ Dist(a, b) \in Slot
         /\ Dist(a, b) = IF b >= a THEN b - a ELSE b - a + RingSize
<1>1. /\ a \in Int /\ 0 <= a /\ a < RingSize
      /\ b \in Int /\ 0 <= b /\ b < RingSize /\ RingSize \in Int
  BY SlotInt
<1>2. b - a \in Int /\ -RingSize <= b - a /\ b - a < 2 * RingSize
  BY <1>1
<1>3. Dist(a, b) = IF b - a < 0 THEN b - a + RingSize
                   ELSE IF b - a < RingSize THEN b - a ELSE b - a - RingSize
  BY <1>2, Wrap DEF Dist
<1>4. Dist(a, b) = IF b >= a THEN b - a ELSE b - a + RingSize
  BY <1>1, <1>3
<1>5. QED
  BY <1>1, <1>4, SlotInt

\* One slot stays free: what cdc_putc and the drain compute as room.
LEMMA FreeValue ==
  ASSUME NEW ring \in Ring
  PROVE  /\ Free(ring) \in Slot
         /\ Free(ring) = RingSize - 1 - Dist(ring.head, ring.tail)
<1> DEFINE h == ring.head
           t == ring.tail
<1>1. h \in Slot /\ t \in Slot
  BY DEF Ring
<1>2. Free(ring) = (h - t - 1) % RingSize
  BY DEF Free
<1> HIDE DEF h, t
<1>3. /\ h - t - 1 \in Int
      /\ -RingSize <= h - t - 1 /\ h - t - 1 < 2 * RingSize
  BY <1>1, SizeAssumption DEF Slot
<1>4. (h - t - 1) % RingSize
        = IF h - t - 1 < 0 THEN h - t - 1 + RingSize ELSE h - t - 1
  BY <1>1, <1>3, Wrap, SizeAssumption DEF Slot
<1>5. Free(ring) \in Slot /\ Free(ring) = RingSize - 1 - Dist(h, t)
  <2>1. /\ Dist(h, t) = IF t >= h THEN t - h ELSE t - h + RingSize
        /\ h \in Int /\ t \in Int /\ RingSize \in Int
        /\ 0 <= h /\ h < RingSize /\ 0 <= t /\ t < RingSize
    BY <1>1, DistValue, SlotInt
  <2>2. /\ Free(ring) \in Int /\ 0 <= Free(ring) /\ Free(ring) < RingSize
        /\ Free(ring) = RingSize - 1 - Dist(h, t)
    BY <1>2, <1>4, <2>1
  <2>3. QED
    BY <2>2, SlotInt
<1>6. QED
  BY <1>5 DEF h, t

\* Distances from a fixed slot tell slots apart, and grow by one a slot.
LEMMA DistSteps ==
  ASSUME NEW a \in Slot, NEW b \in Slot
  PROVE  /\ Dist(a, a) = 0
         /\ Dist(a, b) = 0 => a = b
         /\ \A s \in Slot : Dist(a, s) = Dist(a, b) => s = b
         /\ Dist(a, b) # RingSize - 1 => Dist(a, After(b)) = Dist(a, b) + 1
         /\ a # b => /\ Dist(After(a), b) = Dist(a, b) - 1
                     /\ \A s \in Slot \ {a} :
                          Dist(After(a), s) = Dist(a, s) - 1
<1>1. After(a) \in Slot /\ After(b) \in Slot
  BY AfterValue
<1>2. /\ After(a) = IF a = RingSize - 1 THEN 0 ELSE a + 1
      /\ After(b) = IF b = RingSize - 1 THEN 0 ELSE b + 1
  BY AfterValue
<1>3. \A x, y \in Slot : Dist(x, y) = IF y >= x THEN y - x
                                      ELSE y - x + RingSize
  BY DistValue
<1>4. Dist(a, a) = 0 /\ (Dist(a, b) = 0 => a = b)
  BY <1>3, SizeAssumption DEF Slot
<1>5. \A s \in Slot : Dist(a, s) = Dist(a, b) => s = b
  BY <1>3, SizeAssumption DEF Slot
<1>6. Dist(a, b) # RingSize - 1 => Dist(a, After(b)) = Dist(a, b) + 1
  BY <1>1, <1>2, <1>3, SizeAssumption DEF Slot
<1>7. \A s \in Slot \ {a} : Dist(After(a), s) = Dist(a, s) - 1
  BY <1>1, <1>2, <1>3, SizeAssumption DEF Slot
<1>8. QED
  BY <1>4, <1>5, <1>6, <1>7

-----------------------------------------------------------------------------
(* Steps of the program counters and of the registers.                     *)

LEMMA GotoThread ==
  ASSUME TypeOK, NEW l \in ThreadPlace, Goto("thread", l)
  PROVE  pc' \in Label /\ pc'["thread"] = l /\ pc'["isr"] = pc["isr"]
BY DEF TypeOK, Label, ThreadPlace, Goto

LEMMA GotoIsr ==
  ASSUME TypeOK, NEW l \in IsrPlace, Goto("isr", l)
  PROVE  pc' \in Label /\ pc'["isr"] = l /\ pc'["thread"] = pc["thread"]
BY DEF TypeOK, Label, IsrPlace, Goto

\* A place both may be at, of either.
Shared == ThreadPlace \cap IsrPlace
LEMMA GotoShared ==
  ASSUME TypeOK, NEW c \in Code, NEW l, Goto(c, l),
         l \in Shared \/ l = FlushReturn(c)
  PROVE  /\ pc' \in Label /\ pc'[c] = l
         /\ \A d \in Code \ {c} : pc'[d] = pc[d]
<1>1. CASE c = "thread"
  <2>1. l \in ThreadPlace
    BY <1>1 DEF FlushReturn, Shared, ThreadPlace
  <2>2. QED
    BY <1>1, <2>1, GotoThread DEF Code
<1>2. CASE c = "isr"
  <2>1. l \in IsrPlace
    BY <1>2 DEF FlushReturn, Shared, IsrPlace
  <2>2. QED
    BY <1>2, <2>1, GotoIsr DEF Code
<1>3. QED
  BY <1>1, <1>2 DEF Code

LEMMA RegStep ==
  ASSUME TypeOK, NEW c \in Code, NEW r \in Reg, SetReg(c, r)
  PROVE  /\ reg' \in [Code -> Reg] /\ reg'[c] = r
         /\ \A d \in Code \ {c} : reg'[d] = reg[d]
BY DEF TypeOK, SetReg

LEMMA NoRegType == NoReg \in Reg
BY SizeAssumption DEF NoReg, Reg, Slot

-----------------------------------------------------------------------------
(* Types.                                                                  *)

\* TypeOK with what keeps the number of the byte being stored in range.
TypeInv ==
  /\ TypeOK
  /\ pc["thread"] \in {"putStore", "putPublish"} => wrote < TxBytes

LEMMA TypeInit == Init => TypeInv
<1> SUFFICES ASSUME Init PROVE TypeInv
  OBVIOUS
<1> USE DEF Init
<1>1. EmptyRing \in Ring
  BY SizeAssumption, BoundAssumption DEF EmptyRing, Ring, Slot, Byte
<1>2. EmptyBuffer \in Endpoint
  BY SizeAssumption, BoundAssumption DEF EmptyBuffer, Endpoint, Byte
<1>3. pc \in Label
  BY DEF Label, ThreadPlace, IsrPlace
<1>4. reg \in [Code -> Reg]
  BY NoRegType
<1>5. host \in Host
  BY EmptySeq, BoundAssumption DEF Host
<1>6. wrote \in 0 .. TxBytes /\ resets \in 0 .. MaxResets
  BY BoundAssumption
<1>7. got \in Seq(Byte)
  BY EmptySeq
<1>8. QED
  BY <1>1, <1>2, <1>3, <1>4, <1>5, <1>6, <1>7 DEF TypeInv, TypeOK

\* cdc_putc and cdc_getc keep the types.
LEMMA ThreadType ==
  ASSUME TypeInv, PutCheck \/ PutStore \/ PutPublish \/ GetCheck \/ GetLoad
                  \/ GetStore
  PROVE  TypeInv'
<1> USE DEF TypeInv
<1>0. "thread" \in Code
  BY DEF Code
<1>1. CASE PutCheck
  <2>1. pc' \in Label /\ pc'["thread"] = "putStore"
    BY <1>1, GotoThread DEF PutCheck, ThreadPlace
  <2>2. [NoReg EXCEPT !.tail = tx.tail] \in Reg
    BY NoRegType DEF TypeOK, Reg, Ring
  <2>3. reg' \in [Code -> Reg]
    BY <1>0, <1>1, <2>2, RegStep DEF PutCheck
  <2>4. wrote < TxBytes
    BY <1>1 DEF PutCheck
  <2>5. QED
    BY <1>1, <2>1, <2>3, <2>4
       DEF TypeOK, PutCheck, fifos, shadow, endpoints, history
<1>2. CASE PutStore
  <2>1. pc' \in Label
    BY <1>2, GotoThread DEF PutStore, ThreadPlace
  <2>2. wrote + 1 \in Byte
    BY <1>2, BoundAssumption DEF PutStore, At, TypeOK, Byte
  <2>3. tx' \in Ring
    BY <1>2, <2>2 DEF TypeOK, PutStore, Ring
  <2>4. wrote < TxBytes
    BY <1>2 DEF PutStore, At
  <2>5. QED
    BY <1>2, <2>1, <2>3, <2>4 DEF TypeOK, PutStore, shadow, endpoints, history
<1>3. CASE PutPublish
  <2>1. pc' \in Label /\ pc'["thread"] = "flush"
    BY <1>3, GotoThread DEF PutPublish, ThreadPlace
  <2>2. tx' \in Ring
    BY <1>0, <1>3, AfterValue DEF TypeOK, PutPublish, Ring, Reg
  <2>3. wrote' \in 0 .. TxBytes
    BY <1>3, BoundAssumption DEF PutPublish, At, TypeOK
  <2>4. reg' \in [Code -> Reg]
    BY <1>0, <1>3, NoRegType, RegStep DEF PutPublish
  <2>5. QED
    BY <1>3, <2>1, <2>2, <2>3, <2>4 DEF TypeOK, PutPublish, shadow, endpoints
<1>4. CASE GetCheck
  <2>1. pc' \in Label /\ pc'["thread"] = "getLoad"
    BY <1>4, GotoThread DEF GetCheck, ThreadPlace
  <2>2. [NoReg EXCEPT !.head = rx.head] \in Reg
    BY NoRegType DEF TypeOK, Reg, Ring
  <2>3. reg' \in [Code -> Reg]
    BY <1>0, <1>4, <2>2, RegStep DEF GetCheck
  <2>4. QED
    BY <1>4, <2>1, <2>3 DEF TypeOK, GetCheck, fifos, shadow, endpoints, history
<1>5. CASE GetLoad
  <2>1. pc' \in Label /\ pc'["thread"] = "getStore"
    BY <1>5, GotoThread DEF GetLoad, ThreadPlace
  <2>2. rx.buf[reg["thread"].head] \in Byte
    BY <1>0 DEF TypeOK, Ring, Reg
  <2>3. got' \in Seq(Byte)
    BY <1>5, <2>2, AppendProperties DEF TypeOK, GetLoad
  <2>4. QED
    BY <1>5, <2>1, <2>3 DEF TypeOK, GetLoad, fifos, shadow, endpoints
<1>6. CASE GetStore
  <2>1. pc' \in Label /\ pc'["thread"] = "ready"
    BY <1>6, GotoThread DEF GetStore, ThreadPlace
  <2>2. rx' \in Ring
    BY <1>0, <1>6, AfterValue DEF TypeOK, GetStore, Ring, Reg
  <2>3. reg' \in [Code -> Reg]
    BY <1>0, <1>6, NoRegType, RegStep DEF GetStore
  <2>4. QED
    BY <1>6, <2>1, <2>2, <2>3 DEF TypeOK, GetStore, shadow, endpoints, history
<1>7. QED
  BY <1>1, <1>2, <1>3, <1>4, <1>5, <1>6


\* Places in _cdc_try_flush_tx: while it fills the endpoint buffer, and all.
Filling == {"load", "copy", "savePid", "arm"}
Flushing == Filling \cup {"flush", "markBusy"}

\* What cdc_putc and cdc_getc leave alone.
LEMMA ThreadFrame ==
  ASSUME TypeOK, PutCheck \/ PutStore \/ PutPublish \/ GetCheck \/ GetLoad
                 \/ GetStore
  PROVE  /\ UNCHANGED <<busy, inPid, outPid, epIn, epOut, buffStatus, sie,
                        todo, host, dropped, resets>>
         /\ pc' \in Label /\ pc'["isr"] = "idle" /\ pc["isr"] = "idle"
         /\ {pc["thread"], pc'["thread"]} \cap (Filling \cup {"markBusy"}) = {}
         /\ reg' \in [Code -> Reg] => reg'["isr"] = reg["isr"]
<1> USE GotoThread DEF At, shadow, endpoints, history, ThreadPlace, Filling,
                       SetReg, TypeOK, Code
<1>1. CASE PutCheck
  BY <1>1 DEF PutCheck
<1>2. CASE PutStore
  BY <1>2 DEF PutStore
<1>3. CASE PutPublish
  BY <1>3 DEF PutPublish
<1>4. CASE GetCheck
  BY <1>4 DEF GetCheck
<1>5. CASE GetLoad
  BY <1>5 DEF GetLoad
<1>6. CASE GetStore
  BY <1>6 DEF GetStore
<1>7. QED
  BY <1>1, <1>2, <1>3, <1>4, <1>5, <1>6

\* What _cdc_try_flush_tx leaves alone.
LEMMA FlushFrame ==
  ASSUME TypeOK, NEW c \in Code, Flush(c)
  PROVE  /\ UNCHANGED <<rx, outPid, epOut, buffStatus, sie, todo, host, wrote,
                        got, dropped, resets>>
         /\ tx'.tail = tx.tail /\ tx'.buf = tx.buf
<1> USE DEF fifos, shadow, endpoints, history
<1>1. CASE FlushBusy(c) \/ FlushIdle(c) \/ FlushLoad(c)
  BY <1>1 DEF FlushBusy, FlushIdle, FlushLoad
<1>2. CASE FlushCopy(c) \/ FlushSavePid(c) \/ FlushArm(c) \/ FlushMarkBusy(c)
  BY <1>2 DEF FlushCopy, FlushSavePid, FlushArm, FlushMarkBusy
<1>3. CASE FlushSaveHead(c)
  BY <1>3 DEF FlushSaveHead, TypeOK, Ring
<1>4. QED
  BY <1>1, <1>2, <1>3 DEF Flush

\* Where it is: between its first instruction and its return, the thread
\* only while no handler runs.
LEMMA FlushPlace ==
  ASSUME TypeOK, NEW c \in Code, Flush(c)
  PROVE  /\ pc' \in Label
         /\ \A d \in Code \ {c} : pc'[d] = pc[d]
         /\ pc[c] \in Flushing
         /\ pc'[c] \in Filling \cup {"markBusy", FlushReturn(c)}
         /\ c = "thread" => pc["isr"] = "idle"
<1> USE DEF Shared, ThreadPlace, IsrPlace, Filling, Flushing, At
<1>1. CASE FlushBusy(c)
  BY <1>1, GotoShared DEF FlushBusy
<1>2. CASE FlushIdle(c)
  BY <1>2, GotoShared DEF FlushIdle
<1>3. CASE FlushLoad(c)
  BY <1>3, GotoShared DEF FlushLoad
<1>4. CASE FlushCopy(c)
  BY <1>4 DEF FlushCopy, TypeOK
<1>5. CASE FlushSaveHead(c)
  BY <1>5, GotoShared DEF FlushSaveHead
<1>6. CASE FlushSavePid(c)
  BY <1>6, GotoShared DEF FlushSavePid
<1>7. CASE FlushArm(c)
  BY <1>7, GotoShared DEF FlushArm
<1>8. CASE FlushMarkBusy(c)
  BY <1>8, GotoShared DEF FlushMarkBusy
<1>9. QED
  BY <1>1, <1>2, <1>3, <1>4, <1>5, <1>6, <1>7, <1>8 DEF Flush

\* So does _cdc_try_flush_tx, in the thread and in the handler.
LEMMA FlushType ==
  ASSUME TypeInv, NEW c \in Code, Flush(c)
  PROVE  TypeInv'
<1> USE DEF TypeInv
<1>0. reg[c] \in Reg
  BY DEF TypeOK
<1> DEFINE Moved == /\ tx' \in Ring /\ inPid' \in {0, 1} /\ busy' \in BOOLEAN
                    /\ epIn' \in Endpoint /\ reg' \in [Code -> Reg]
<1> SUFFICES Moved
  <2>1. Moved => TypeOK'
    BY FlushPlace, FlushFrame DEF TypeOK
  <2>2. pc'["thread"] \in {"putStore", "putPublish"} => wrote' < TxBytes
    BY FlushPlace, FlushFrame DEF Code, Filling, FlushReturn
  <2>3. QED
    BY <2>1, <2>2
<1>1. CASE FlushBusy(c)
  BY <1>1 DEF FlushBusy, TypeOK, fifos, shadow, endpoints
<1>2. CASE FlushIdle(c)
  BY <1>2 DEF FlushIdle, TypeOK, fifos, shadow, endpoints
<1>3. CASE FlushLoad(c)
  <2>1. [NoReg EXCEPT !.head = tx.head, !.tail = tx.tail] \in Reg
    BY NoRegType DEF TypeOK, Reg, Ring
  <2>2. reg' \in [Code -> Reg]
    BY <1>3, <2>1, RegStep DEF FlushLoad, TypeOK
  <2>3. QED
    BY <1>3, <2>2 DEF FlushLoad, TypeOK, fifos, shadow, endpoints
<1>4. CASE FlushCopy(c)
  <2>1. reg[c].count + 1 \in 1 .. MaxPacket
    BY <1>0, <1>4, SizeAssumption DEF FlushCopy, MoreToCopy, Reg
  <2>2. tx.buf[reg[c].head] \in Byte /\ After(reg[c].head) \in Slot
    BY <1>0, AfterValue DEF TypeOK, Ring, Reg
  <2>3. epIn' \in Endpoint
    BY <1>4, <2>1, <2>2 DEF FlushCopy, TypeOK, Endpoint
  <2>4. [reg[c] EXCEPT !.head = After(@), !.count = @ + 1] \in Reg
    <3>1. reg[c].count + 1 \in 0 .. MaxPacket
      BY <2>1
    <3>2. QED
      BY <1>0, <2>2, <3>1 DEF Reg
  <2>5. reg' \in [Code -> Reg]
    BY <1>4, <2>4, RegStep DEF FlushCopy
  <2>6. QED
    BY <1>4, <2>3, <2>5 DEF FlushCopy, TypeOK, fifos, shadow
<1>5. CASE FlushSaveHead(c)
  <2>1. tx' \in Ring
    BY <1>0, <1>5 DEF FlushSaveHead, TypeOK, Ring, Reg
  <2>2. [reg[c] EXCEPT !.pid = inPid] \in Reg
    BY <1>0 DEF TypeOK, Reg
  <2>3. reg' \in [Code -> Reg]
    BY <1>5, <2>2, RegStep DEF FlushSaveHead
  <2>4. QED
    BY <1>5, <2>1, <2>3 DEF FlushSaveHead, TypeOK, shadow, endpoints
<1>6. CASE FlushSavePid(c)
  <2>1. inPid' \in {0, 1}
    BY <1>0, <1>6 DEF FlushSavePid, Reg
  <2>2. QED
    BY <1>6, <2>1 DEF FlushSavePid, TypeOK, fifos, endpoints
<1>7. CASE FlushArm(c)
  <2>1. epIn' \in Endpoint
    BY <1>0, <1>7 DEF FlushArm, TypeOK, Endpoint, Reg
  <2>2. QED
    BY <1>7, <2>1 DEF FlushArm, TypeOK, fifos, shadow
<1>8. CASE FlushMarkBusy(c)
  <2>1. reg' \in [Code -> Reg]
    BY <1>8, NoRegType, RegStep DEF FlushMarkBusy
  <2>2. QED
    BY <1>8, <2>1 DEF FlushMarkBusy, TypeOK, fifos, endpoints
<1>9. QED
  BY <1>1, <1>2, <1>3, <1>4, <1>5, <1>6, <1>7, <1>8 DEF Flush

LEMMA ArmOutType ==
  ASSUME TypeOK, ArmOut
  PROVE  epOut' \in Endpoint /\ outPid' \in {0, 1}
<1>1. MaxPacket \in 0 .. MaxPacket
  BY SizeAssumption
<1>2. epOut' \in Endpoint
  BY <1>1 DEF TypeOK, ArmOut, Endpoint
<1>3. outPid' \in {0, 1}
  BY DEF TypeOK, ArmOut
<1>4. QED
  BY <1>2, <1>3

\* What the drain copies: never more than the packet, nor than the room.
LEMMA DrainedValue ==
  ASSUME TypeOK
  PROVE  /\ Drained \in 0 .. MaxPacket
         /\ Drained <= epOut.len /\ Drained <= Free(rx)
         /\ Drained = epOut.len \/ Drained = Free(rx)
BY FreeValue, SizeAssumption DEF TypeOK, Drained, Endpoint, Slot

\* usb_device_isr keeps the types.
LEMMA IsrType ==
  ASSUME TypeInv, Isr, ~Flush("isr")
  PROVE  TypeInv'
<1> USE DEF TypeInv, IsrPlace
<1>1. CASE IsrEnter
  BY <1>1, GotoIsr
     DEF IsrEnter, TypeOK, Ints, fifos, shadow, endpoints, history
<1>2. CASE IsrReturn
  BY <1>2, GotoIsr DEF IsrReturn, TypeOK, fifos, shadow, endpoints, history
<1>3. CASE IsrBusReset
  BY <1>3 DEF IsrBusReset, TypeOK, fifos, endpoints, history
<1>4. CASE IsrSetConfiguration
  <2>1. host' \in Host
    BY <1>4 DEF IsrSetConfiguration, TypeOK, Host
  <2>2. epOut' \in Endpoint /\ outPid' \in {0, 1}
    BY <1>4, ArmOutType DEF IsrSetConfiguration
  <2>3. QED
    BY <1>4, <2>1, <2>2 DEF IsrSetConfiguration, TypeOK, fifos, history
<1>5. CASE IsrReadBuffStatus
  BY <1>5 DEF IsrReadBuffStatus, TypeOK, fifos, shadow, endpoints, history
<1>6. CASE IsrInDone
  BY <1>6, GotoIsr DEF IsrInDone, TypeOK, fifos, endpoints, history
<1>7. CASE IsrInAck
  BY <1>7, GotoIsr DEF IsrInAck, TypeOK, fifos, shadow, endpoints, history
<1>8. CASE IsrDrain
  <2>1. pc' \in Label /\ pc'["thread"] = pc["thread"]
    BY <1>8, GotoIsr DEF IsrDrain
  <2>2. \A k \in 1 .. epOut.len : epOut.data[k] \in Byte
    BY SizeAssumption DEF TypeOK, Endpoint
  <2>3. rx' \in Ring
    <3>1. (rx.tail + Drained) % RingSize \in Slot
      BY DrainedValue, SizeAssumption DEF TypeOK, Ring, Slot
    <3>2. ASSUME NEW i \in Slot
          PROVE  LET k == ((i - rx.tail) % RingSize) + 1
                 IN  (IF k <= Drained THEN epOut.data[k] ELSE rx.buf[i])
                        \in Byte
      <4>1. Dist(rx.tail, i) \in Nat
        BY DistValue DEF TypeOK, Ring, Slot
      <4>2. QED
        BY <2>2, <4>1, DrainedValue DEF TypeOK, Ring, Dist, Endpoint
    <3>3. QED
      BY <1>8, <3>1, <3>2 DEF IsrDrain, TypeOK, Ring
  <2>4. dropped' \subseteq Byte
    BY <1>8, <2>2, DrainedValue DEF IsrDrain, TypeOK, Endpoint
  <2>5. QED
    BY <1>8, <2>1, <2>3, <2>4 DEF IsrDrain, TypeOK, shadow, endpoints
<1>9. CASE IsrRearm
  <2>1. epOut' \in Endpoint /\ outPid' \in {0, 1}
    BY <1>9, ArmOutType DEF IsrRearm
  <2>2. QED
    BY <1>9, <2>1, GotoIsr DEF IsrRearm, TypeOK, fifos, history
<1>10. CASE IsrOutAck
  BY <1>10, GotoIsr DEF IsrOutAck, TypeOK, fifos, shadow, endpoints, history
<1>11. QED
  BY <1>1, <1>2, <1>3, <1>4, <1>5, <1>6, <1>7, <1>8, <1>9, <1>10 DEF Isr

\* A packet the host takes is a sequence of the bytes in the buffer.
LEMMA PayloadIn ==
  ASSUME TypeOK
  PROVE  /\ Payload(epIn) \in Seq(Byte) /\ Len(Payload(epIn)) = epIn.len
         /\ \A i \in 1 .. epIn.len : Payload(epIn)[i] = epIn.data[i]
<1>1. /\ epIn.len \in 0 .. MaxPacket
      /\ \A i \in 1 .. epIn.len : epIn.data[i] \in Byte
  BY SizeAssumption DEF TypeOK, Endpoint
<1>2. QED
  BY <1>1, SubSeqProperties DEF Payload

\* The packet the host sends.
HostSends(n) ==
  /\ host.sent + n <= RxBytes
  /\ host' = [host EXCEPT !.sent = @ + n, !.outPid = 1 - @]
  /\ IF epOut.pid = host.outPid
     THEN /\ epOut' = [epOut EXCEPT !.avail = FALSE, !.len = n,
               !.data = [k \in 1 .. MaxPacket |->
                           IF k <= n THEN host.sent + k ELSE @[k]]]
          /\ buffStatus' = buffStatus \cup {"out"}
     ELSE UNCHANGED <<epOut, buffStatus>>

LEMMA HostType ==
  ASSUME TypeInv, HostIn \/ HostOut \/ HostSetConfiguration \/ HostBusReset
  PROVE  TypeInv'
<1> USE DEF TypeInv
<1>1. CASE HostIn
  <2>1. host' \in Host
    <3>1. host.got \o Payload(epIn) \in Seq(Byte)
      BY PayloadIn, ConcatProperties DEF TypeOK, Host
    <3>2. 1 - host.inPid \in {0, 1}
      BY DEF TypeOK, Host
    <3>3. QED
      BY <1>1, <3>1, <3>2 DEF HostIn, TypeOK, Host
  <2>2. epIn' \in Endpoint /\ buffStatus' \subseteq Completions
    BY <1>1 DEF HostIn, TypeOK, Endpoint, Completions
  <2>3. QED
    BY <1>1, <2>1, <2>2 DEF HostIn, TypeOK, fifos, shadow, code, history
<1>2. CASE HostOut
  <2>1. PICK n \in 1 .. MaxPacket : HostSends(n)
    BY <1>2 DEF HostOut, HostSends
  <2>2. host' \in Host
    <3>1. host.sent + n \in 0 .. RxBytes /\ 1 - host.outPid \in {0, 1}
      BY <2>1, SizeAssumption, BoundAssumption DEF HostSends, TypeOK, Host
    <3>2. QED
      BY <2>1, <3>1 DEF HostSends, TypeOK, Host
  <2>3. \A k \in 1 .. MaxPacket : k <= n => host.sent + k \in Byte
    BY <2>1, SizeAssumption, BoundAssumption
       DEF HostSends, TypeOK, Host, Byte
  <2>4. epOut' \in Endpoint
    <3>1. [k \in 1 .. MaxPacket |->
             IF k <= n THEN host.sent + k ELSE epOut.data[k]]
            \in [1 .. MaxPacket -> Byte]
      BY <2>3 DEF TypeOK, Endpoint
    <3>2. n \in 0 .. MaxPacket
      OBVIOUS
    <3>3. QED
      BY <2>1, <3>1, <3>2 DEF HostSends, TypeOK, Endpoint
  <2>5. buffStatus' \subseteq Completions
    BY <2>1 DEF HostSends, TypeOK, Completions
  <2>6. QED
    BY <1>2, <2>2, <2>4, <2>5 DEF HostOut, TypeOK, fifos, shadow, code,
       history
<1>3. CASE HostSetConfiguration
  <2>1. host' \in Host
    BY <1>3 DEF HostSetConfiguration, TypeOK, Host
  <2>2. QED
    BY <1>3, <2>1 DEF HostSetConfiguration, TypeOK, fifos, shadow,
       endpoints, code, history
<1>4. CASE HostBusReset
  <2>1. host' \in Host
    BY <1>4 DEF HostBusReset, TypeOK, Host
  <2>2. resets' \in 0 .. MaxResets
    BY <1>4, BoundAssumption DEF HostBusReset, TypeOK
  <2>3. QED
    BY <1>4, <2>1, <2>2 DEF HostBusReset, TypeOK, fifos, shadow, endpoints,
       code
<1>5. QED
  BY <1>1, <1>2, <1>3, <1>4

LEMMA TypeNext == TypeInv /\ [Next]_vars => TypeInv'
<1> SUFFICES ASSUME TypeInv, [Next]_vars PROVE TypeInv'
  OBVIOUS
<1>1. CASE Thread
  BY <1>1, ThreadType, FlushType DEF Thread, Code
<1>2. CASE Isr
  BY <1>2, IsrType, FlushType DEF Code
<1>3. CASE HostIn \/ HostOut \/ HostSetConfiguration \/ HostBusReset
  BY <1>3, HostType
<1>4. CASE UNCHANGED vars
  BY <1>4 DEF vars, fifos, shadow, endpoints, code, history, TypeInv, TypeOK
<1>5. QED
  BY <1>1, <1>2, <1>3, <1>4 DEF Next

LEMMA TypeInvariance == Spec => []TypeInv
BY TypeInit, TypeNext, PTL DEF Spec

\* Type correctness, whatever the host does: no index leaves its ring, no
\* packet is longer than the buffer, no handler or thread place is reached
\* that the code does not have.
THEOREM TypeCorrect == Spec => []TypeOK
<1>1. TypeInv => TypeOK
  BY DEF TypeInv
<1>2. QED
  BY <1>1, TypeInvariance, PTL

-----------------------------------------------------------------------------
(* EP1 OUT stays armed or full.                                            *)

\* When the handler is about to acknowledge an OUT packet, the endpoint is
\* armed again and the packet that will follow it has not come.
OutAliveInv ==
  /\ TypeInv
  /\ OutAlive
  /\ pc["isr"] = "outAck" => epOut.avail

LEMMA OutAliveNext ==
  ASSUME ~QuickHost
  PROVE  OutAliveInv /\ [Next]_vars => OutAliveInv'
<1> SUFFICES ASSUME OutAliveInv, [Next]_vars PROVE OutAliveInv'
  OBVIOUS
<1> USE DEF OutAliveInv, OutAlive
<1>0. TypeInv' /\ TypeOK
  BY TypeNext DEF TypeInv
<1>1. CASE PutCheck \/ PutStore \/ PutPublish \/ GetCheck \/ GetLoad
           \/ GetStore
  BY <1>0, <1>1, ThreadFrame
<1>2. ASSUME NEW c \in Code, Flush(c) PROVE OutAliveInv'
  BY <1>0, <1>2, FlushPlace, FlushFrame
     DEF Code, Filling, Flushing, FlushReturn
<1> USE DEF IsrPlace
<1>3. CASE IsrEnter
  BY <1>0, <1>3, GotoIsr DEF IsrEnter, endpoints
<1>4. CASE IsrReturn
  BY <1>0, <1>4, GotoIsr DEF IsrReturn, endpoints
<1>5. CASE IsrBusReset
  BY <1>0, <1>5 DEF IsrBusReset, endpoints
<1>6. CASE IsrSetConfiguration
  <2>1. epOut'.avail
    BY <1>0, <1>6 DEF IsrSetConfiguration, ArmOut, TypeOK, Endpoint
  <2>2. QED
    BY <1>0, <2>1
<1>7. CASE IsrReadBuffStatus
  BY <1>0, <1>7 DEF IsrReadBuffStatus, endpoints
<1>8. CASE IsrInDone
  BY <1>0, <1>8, GotoIsr DEF IsrInDone, endpoints
<1>9. CASE IsrInAck
  BY <1>0, <1>9, GotoIsr DEF IsrInAck, endpoints
<1>10. CASE IsrDrain
  BY <1>0, <1>10, GotoIsr DEF IsrDrain, endpoints
<1>11. CASE IsrRearm
  <2>1. epOut'.avail
    BY <1>0, <1>11 DEF IsrRearm, ArmOut, TypeOK, Endpoint
  <2>2. QED
    BY <1>0, <2>1
<1>12. CASE IsrOutAck
  BY <1>0, <1>12, GotoIsr DEF IsrOutAck, At, endpoints
<1>13. CASE HostIn
  BY <1>0, <1>13 DEF HostIn, TypeOK, Host, code
<1>14. CASE HostOut
  <2>1. PICK n \in 1 .. MaxPacket : HostSends(n)
    BY <1>14 DEF HostOut, HostSends
  <2>2. pc["isr"] # "outAck" /\ pc' = pc
    BY <1>14 DEF HostOut, OutWindow, code
  <2>3. host'.ready = host.ready
    BY <1>0, <2>1 DEF HostSends, TypeOK, Host
  <2>4. epOut'.avail \/ "out" \in buffStatus'
    BY <1>14, <2>1 DEF HostSends, HostOut
  <2>5. QED
    BY <1>0, <2>2, <2>3, <2>4
<1>15. CASE HostSetConfiguration
  BY <1>0, <1>15 DEF HostSetConfiguration, TypeOK, Host, endpoints, code
<1>16. CASE HostBusReset
  BY <1>0, <1>16 DEF HostBusReset, TypeOK, Host, endpoints, code
<1>17. CASE UNCHANGED vars
  BY <1>0, <1>17 DEF vars, endpoints, code
<1>18. QED
  BY <1>1, <1>2, <1>3, <1>4, <1>5, <1>6, <1>7, <1>8, <1>9, <1>10, <1>11,
     <1>12, <1>13, <1>14, <1>15, <1>16, <1>17 DEF Next, Thread, Isr, Code

\* A configured device can always receive, through any number of bus resets
\* and configurations: OUT armed, or a packet the handler has yet to drain.
THEOREM ReceiverStaysAlive == ASSUME ~QuickHost PROVE Spec => []OutAlive
<1>1. Init => OutAliveInv
  BY TypeInit DEF Init, OutAliveInv, OutAlive
<1>2. OutAliveInv /\ [Next]_vars => OutAliveInv'
  BY OutAliveNext
<1>3. OutAliveInv => OutAlive
  BY DEF OutAliveInv
<1>4. QED
  BY <1>1, <1>2, <1>3, PTL DEF Spec

-----------------------------------------------------------------------------
(* EP1 IN: who may write the buffer.                                       *)

\* The thread and the handler flush under the same flag, which neither sets
\* before the packet is armed.  What keeps them, and the host, apart:
\* whoever fills the buffer saw cdc_in_busy clear, no packet is armed then,
\* and the handler flushes only for a completion, of which there is none
\* while the thread fills.
InInv ==
  /\ "reset" \notin sie /\ "reset" \notin todo
  /\ "in" \in todo => "in" \in buffStatus
  /\ pc["thread"] \in Filling \cup {"markBusy"} => "in" \notin buffStatus
  /\ \A c \in Code : pc[c] \in Filling => ~busy /\ ~epIn.avail
  /\ \A c \in Code : pc[c] = "markBusy" => ~busy /\ epIn.avail
  /\ pc["isr"] = "flush" => ~busy /\ ~epIn.avail
  /\ pc["isr"] \in Flushing \cup {"inAck"} =>
       "in" \in todo /\ todo \subseteq Completions
  /\ epIn.avail => busy \/ \E c \in Code : pc[c] = "markBusy"
  /\ "in" \in buffStatus => busy \/ pc["isr"] \in Flushing \cup {"inAck"}
  /\ epIn.avail /\ "in" \in buffStatus => pc["isr"] \in {"markBusy", "inAck"}

LEMMA InInit == Init => InInv
<1> SUFFICES ASSUME Init PROVE InInv
  OBVIOUS
<1>1. /\ pc["thread"] = "ready" /\ pc["isr"] = "idle" /\ ~epIn.avail
      /\ sie = {} /\ todo = {} /\ buffStatus = {}
  BY DEF Init, EmptyBuffer
<1>2. QED
  BY <1>1 DEF InInv, Filling, Flushing, Code

LEMMA FlushIn ==
  ASSUME TypeInv, InInv, NEW c \in Code, Flush(c)
  PROVE  InInv'
<1> USE DEF InInv, Filling, Flushing, FlushReturn, Code
<1>0. /\ UNCHANGED <<sie, todo, buffStatus>>
      /\ pc' \in Label
      /\ \A d \in Code \ {c} : pc'[d] = pc[d]
      /\ c = "thread" => pc["isr"] = "idle"
      /\ TypeOK
  BY FlushFrame, FlushPlace DEF TypeInv
<1>1. CASE FlushBusy(c)
  BY <1>0, <1>1, GotoShared DEF FlushBusy, At, shadow, endpoints
<1>2. CASE FlushIdle(c)
  <2>1. pc[c] = "flush" /\ pc'[c] = "load" /\ UNCHANGED <<busy, epIn>> /\ ~busy
    BY <1>0, <1>2, GotoShared
       DEF FlushIdle, At, shadow, endpoints, Shared, ThreadPlace, IsrPlace
  <2>2. QED
    BY <1>0, <2>1
<1>3. CASE FlushLoad(c)
  <2>1. /\ pc[c] = "load" /\ pc'[c] \in {"copy", FlushReturn(c)}
        /\ UNCHANGED <<busy, epIn>>
    BY <1>0, <1>3, GotoShared
       DEF FlushLoad, At, shadow, endpoints, Shared, ThreadPlace, IsrPlace
  <2>2. QED
    BY <1>0, <2>1
<1>4. CASE FlushCopy(c)
  <2>1. pc' = pc /\ UNCHANGED busy /\ epIn'.avail = epIn.avail
    BY <1>0, <1>4 DEF FlushCopy, shadow, TypeOK, Endpoint
  <2>2. QED
    BY <1>0, <2>1
<1>5. CASE FlushSaveHead(c)
  <2>1. pc[c] = "copy" /\ pc'[c] = "savePid" /\ UNCHANGED <<busy, epIn>>
    BY <1>0, <1>5, GotoShared
       DEF FlushSaveHead, At, shadow, endpoints, Shared, ThreadPlace, IsrPlace
  <2>2. QED
    BY <1>0, <2>1
<1>6. CASE FlushSavePid(c)
  <2>1. pc[c] = "savePid" /\ pc'[c] = "arm" /\ UNCHANGED <<busy, epIn>>
    BY <1>0, <1>6, GotoShared
       DEF FlushSavePid, At, endpoints, Shared, ThreadPlace, IsrPlace
  <2>2. QED
    BY <1>0, <2>1
<1>7. CASE FlushArm(c)
  <2>1. pc[c] = "arm" /\ pc'[c] = "markBusy" /\ UNCHANGED busy /\ epIn'.avail
    BY <1>0, <1>7, GotoShared
       DEF FlushArm, At, shadow, Shared, ThreadPlace, IsrPlace, TypeOK,
           Endpoint
  <2>2. QED
    BY <1>0, <2>1
<1>8. CASE FlushMarkBusy(c)
  <2>1. pc[c] = "markBusy" /\ pc'[c] = FlushReturn(c) /\ busy' /\ epIn' = epIn
    BY <1>0, <1>8, GotoShared DEF FlushMarkBusy, At, endpoints
  <2>2. QED
    BY <1>0, <2>1
<1>9. QED
  BY <1>1, <1>2, <1>3, <1>4, <1>5, <1>6, <1>7, <1>8 DEF Flush

LEMMA InNext ==
  ASSUME ~QuickHost, NoReset, TypeInv, InInv, [Next]_vars
  PROVE  InInv'
<1> USE DEF InInv, Filling, Flushing, Code, shadow, endpoints, code, IsrPlace
<1>0. TypeOK
  BY DEF TypeInv
<1>1. CASE PutCheck \/ PutStore \/ PutPublish \/ GetCheck \/ GetLoad
           \/ GetStore
  BY <1>0, <1>1, ThreadFrame
<1>2. ASSUME NEW c \in Code, Flush(c) PROVE InInv'
  BY <1>2, FlushIn
<1>3. CASE IsrEnter
  <2>1. "in" \notin Ints /\ "reset" \notin Ints
    BY <1>0 DEF Ints, TypeOK
  <2>2. QED
    BY <1>0, <1>3, <2>1, GotoIsr DEF IsrEnter
<1>4. CASE IsrReturn
  BY <1>0, <1>4, GotoIsr DEF IsrReturn, At
<1>5. CASE IsrBusReset
  BY <1>5 DEF IsrBusReset
<1>6. CASE IsrSetConfiguration
  BY <1>0, <1>6 DEF IsrSetConfiguration, At
<1>7. CASE IsrReadBuffStatus
  BY <1>0, <1>7 DEF IsrReadBuffStatus, TypeOK, Completions, At
<1>8. CASE IsrInDone
  BY <1>0, <1>8, GotoIsr DEF IsrInDone, At
<1>9. CASE IsrInAck
  BY <1>0, <1>9, GotoIsr DEF IsrInAck, At
<1>10. CASE IsrDrain
  BY <1>0, <1>10, GotoIsr DEF IsrDrain, At
<1>11. CASE IsrRearm
  BY <1>0, <1>11, GotoIsr DEF IsrRearm, At
<1>12. CASE IsrOutAck
  BY <1>0, <1>12, GotoIsr DEF IsrOutAck, At
<1>13. CASE HostIn
  <2>1. ~epIn'.avail /\ epIn.avail
    BY <1>0, <1>13 DEF HostIn, TypeOK, Endpoint
  <2>2. ~InWindow /\ UNCHANGED <<busy, sie, pc, todo>>
    BY <1>13 DEF HostIn
  <2>3. buffStatus' = buffStatus \cup {"in"}
    BY <1>13 DEF HostIn
  <2>4. QED
    BY <1>0, <2>1, <2>2, <2>3 DEF InWindow
<1>14. CASE HostOut
  <2>1. PICK n \in 1 .. MaxPacket : HostSends(n)
    BY <1>14 DEF HostOut, HostSends
  <2>2. buffStatus' = buffStatus \/ buffStatus' = buffStatus \cup {"out"}
    BY <2>1 DEF HostSends
  <2>3. QED
    BY <1>0, <1>14, <2>2 DEF HostOut
<1>15. CASE HostSetConfiguration
  BY <1>15 DEF HostSetConfiguration
<1>16. CASE HostBusReset
  BY <1>0, <1>16 DEF HostBusReset, TypeOK, NoReset
<1>17. CASE UNCHANGED vars
  BY <1>17 DEF vars
<1>18. QED
  BY <1>1, <1>2, <1>3, <1>4, <1>5, <1>6, <1>7, <1>8, <1>9, <1>10, <1>11,
     <1>12, <1>13, <1>14, <1>15, <1>16, <1>17 DEF Next, Thread, Isr

LEMMA InInvariance ==
  ASSUME ~QuickHost, NoReset
  PROVE  Spec => [](TypeInv /\ InInv)
<1>1. Init => TypeInv /\ InInv
  BY TypeInit, InInit
<1>2. TypeInv /\ InInv /\ [Next]_vars => (TypeInv /\ InInv)'
  BY TypeNext, InNext
<1>3. QED
  BY <1>1, <1>2, PTL DEF Spec

\* "cdc_in_busy: non-zero while EP1 IN buffer is currently shipping and we
\* must not stomp on it": neither thread nor handler writes the buffer of an
\* armed endpoint.
THEOREM BufferNotStomped ==
  ASSUME ~QuickHost, NoReset
  PROVE  Spec => NoStomp
<1>1. TypeInv /\ InInv /\ [Next]_vars
        => [epIn.avail => epIn'.data = epIn.data /\ epIn'.len = epIn.len]_vars
  <2> SUFFICES ASSUME TypeInv, InInv, Next, epIn.avail
               PROVE  epIn'.data = epIn.data /\ epIn'.len = epIn.len
    OBVIOUS
  <2>0. TypeOK
    BY DEF TypeInv
  <2>1. ASSUME NEW c \in Code, Flush(c)
        PROVE  epIn'.data = epIn.data /\ epIn'.len = epIn.len
    <3>1. pc[c] \notin Filling
      BY <2>0 DEF InInv
    <3>2. ~FlushCopy(c) /\ ~FlushArm(c)
      BY <3>1 DEF FlushCopy, FlushArm, At, Filling
    <3>3. epIn' = epIn
      BY <2>1, <3>2 DEF Flush, FlushBusy, FlushIdle, FlushLoad,
         FlushSaveHead, FlushSavePid, FlushMarkBusy, endpoints
    <3>4. QED
      BY <3>3
  <2>2. CASE PutCheck \/ PutStore \/ PutPublish \/ GetCheck \/ GetLoad
             \/ GetStore
    BY <2>0, <2>2, ThreadFrame
  <2>3. CASE Isr /\ ~Flush("isr")
    BY <2>3 DEF Isr, IsrEnter, IsrReturn, IsrBusReset, IsrSetConfiguration,
       IsrReadBuffStatus, IsrInDone, IsrInAck, IsrDrain, IsrRearm, IsrOutAck,
       endpoints
  <2>4. CASE HostIn
    BY <2>0, <2>4 DEF HostIn, TypeOK, Endpoint
  <2>5. CASE HostOut \/ HostSetConfiguration \/ HostBusReset
    BY <2>5 DEF HostOut, HostSetConfiguration, HostBusReset, endpoints
  <2>6. QED
    BY <2>1, <2>2, <2>3, <2>4, <2>5 DEF Next, Thread, Code
<1>2. QED
  BY <1>1, InInvariance, PTL DEF Spec, NoStomp

-----------------------------------------------------------------------------
(* Toggles.                                                                *)

\* Enumeration happens once: the host waits for the SETUP it sent, which is
\* handled before it takes the device for configured, and until then no OUT
\* packet is armed and no transfer completes.
EnumInv ==
  /\ "setup" \in todo => "setup" \in sie
  /\ "setup" \in sie => host.asked
  /\ host.asked => ~host.ready
  /\ ~host.ready => /\ buffStatus = {} /\ ~epOut.avail
                    /\ host.inPid = 0 /\ host.outPid = 0

\* The handler drains and re-arms an empty endpoint, then acknowledges one
\* that is armed.
OutInv ==
  /\ "out" \in todo => "out" \in buffStatus
  /\ pc["isr"] = "rearm" => todo = {"out"} /\ ~epOut.avail
  /\ pc["isr"] = "outAck" => todo = {"out"} /\ epOut.avail
  /\ epOut.avail /\ "out" \in buffStatus => pc["isr"] = "outAck"

\* Each shadow toggle is the host's, one packet further while a packet with
\* the old value is armed or about to be.
InToggle ==
  /\ \A c \in Code : pc[c] = "savePid" => reg[c].pid = inPid
  /\ \A c \in Code : pc[c] = "arm" => reg[c].pid = 1 - inPid
  /\ epIn.avail => epIn.pid = 1 - inPid
  /\ inPid = IF epIn.avail \/ \E c \in Code : pc[c] = "arm"
             THEN 1 - host.inPid ELSE host.inPid
OutToggle ==
  /\ epOut.avail => epOut.pid = 1 - outPid
  /\ outPid = IF epOut.avail THEN 1 - host.outPid ELSE host.outPid

ToggleInv == EnumInv /\ OutInv /\ InToggle /\ OutToggle

LEMMA ToggleInit == Init => ToggleInv
<1> SUFFICES ASSUME Init PROVE ToggleInv
  OBVIOUS
<1>1. /\ pc["thread"] = "ready" /\ pc["isr"] = "idle" /\ ~epIn.avail
      /\ ~epOut.avail /\ inPid = 0 /\ outPid = 0 /\ sie = {} /\ todo = {}
      /\ buffStatus = {} /\ ~host.ready /\ ~host.asked
      /\ host.inPid = 0 /\ host.outPid = 0
  BY DEF Init, EmptyBuffer
<1>2. QED
  BY <1>1 DEF ToggleInv, EnumInv, OutInv, InToggle, OutToggle, Code

\* A flush touches the toggle of IN alone.
LEMMA FlushToggle ==
  ASSUME TypeInv, InInv, ToggleInv, NEW c \in Code, Flush(c)
  PROVE  ToggleInv'
<1>0. /\ UNCHANGED <<outPid, epOut, sie, todo, buffStatus, host>>
      /\ pc' \in Label
      /\ \A d \in Code \ {c} : pc'[d] = pc[d]
      /\ c = "thread" => pc["isr"] = "idle"
      /\ pc'[c] \in Filling \cup {"markBusy", FlushReturn(c)}
      /\ pc[c] \in Flushing
      /\ TypeOK
  BY FlushFrame, FlushPlace DEF TypeInv
<1>1. EnumInv' /\ OutInv' /\ OutToggle'
  BY <1>0 DEF ToggleInv, EnumInv, OutInv, OutToggle, Code, FlushReturn,
     Filling, Flushing
<1> DEFINE other == CHOOSE d \in Code : d # c
<1>2. other \in Code /\ other # c /\ Code = {c, other}
  BY DEF Code
<1> HIDE DEF other
<1>3. pc'[other] = pc[other]
  BY <1>0, <1>2
\* The other is not between its first and its last store.
<1>4. pc[other] \notin Filling
  BY <1>0, <1>2 DEF InInv, Filling, Flushing, Code
<1>5. /\ (\E d \in Code : pc[d] = "arm") <=> pc[c] = "arm"
      /\ (\E d \in Code : pc'[d] = "arm") <=> pc'[c] = "arm"
      /\ pc[other] # "savePid" /\ pc'[other] # "savePid"
  BY <1>2, <1>3, <1>4 DEF Filling
<1>6. /\ pc[c] = "savePid" => reg[c].pid = inPid
      /\ pc[c] = "arm" => reg[c].pid = 1 - inPid
      /\ epIn.avail => epIn.pid = 1 - inPid
      /\ inPid = IF epIn.avail \/ pc[c] = "arm" THEN 1 - host.inPid
                                                ELSE host.inPid
      /\ pc[c] \in Filling => ~epIn.avail
      /\ inPid \in {0, 1} /\ host.inPid \in {0, 1} /\ host' = host
  BY <1>0, <1>5 DEF ToggleInv, InToggle, InInv, TypeOK, Host
<1>7. SUFFICES
        /\ pc'[c] = "savePid" => reg'[c].pid = inPid'
        /\ pc'[c] = "arm" => reg'[c].pid = 1 - inPid'
        /\ epIn'.avail => epIn'.pid = 1 - inPid'
        /\ inPid' = IF epIn'.avail \/ pc'[c] = "arm" THEN 1 - host.inPid
                                                     ELSE host.inPid
  BY <1>1, <1>2, <1>3, <1>4, <1>5, <1>6 DEF ToggleInv, InToggle, Filling
<1> USE DEF At, shadow, endpoints, Shared, ThreadPlace, IsrPlace, Filling,
            FlushReturn
<1>8. CASE FlushBusy(c)
  <2>1. pc'[c] = FlushReturn(c) /\ UNCHANGED <<inPid, epIn>> /\ pc[c] = "flush"
    BY <1>0, <1>8, GotoShared DEF FlushBusy
  <2>2. QED
    BY <1>6, <2>1
<1>9. CASE FlushIdle(c)
  <2>1. pc'[c] = "load" /\ UNCHANGED <<inPid, epIn>> /\ pc[c] = "flush"
    BY <1>0, <1>9, GotoShared DEF FlushIdle
  <2>2. QED
    BY <1>6, <2>1
<1>10. CASE FlushLoad(c)
  <2>1. /\ pc'[c] \in {"copy", FlushReturn(c)} /\ UNCHANGED <<inPid, epIn>>
        /\ pc[c] = "load"
    BY <1>0, <1>10, GotoShared DEF FlushLoad
  <2>2. QED
    BY <1>6, <2>1
<1>11. CASE FlushCopy(c)
  <2>1. /\ pc' = pc /\ pc[c] = "copy" /\ UNCHANGED inPid
        /\ epIn'.avail = epIn.avail
    BY <1>0, <1>11 DEF FlushCopy, TypeOK, Endpoint
  <2>2. QED
    BY <1>6, <2>1
<1>12. CASE FlushSaveHead(c)
  <2>1. pc'[c] = "savePid" /\ UNCHANGED <<inPid, epIn>> /\ pc[c] = "copy"
    BY <1>0, <1>12, GotoShared DEF FlushSaveHead
  <2>2. reg[c] \in Reg /\ SetReg(c, [reg[c] EXCEPT !.pid = inPid])
    BY <1>0, <1>12 DEF FlushSaveHead, TypeOK
  <2>3. reg'[c].pid = inPid
    BY <1>0, <2>2 DEF SetReg, TypeOK, Reg
  <2>4. QED
    BY <1>6, <2>1, <2>3
<1>13. CASE FlushSavePid(c)
  <2>1. /\ pc'[c] = "arm" /\ UNCHANGED <<epIn, reg>> /\ pc[c] = "savePid"
        /\ inPid' = 1 - reg[c].pid
    BY <1>0, <1>13, GotoShared DEF FlushSavePid
  <2>2. QED
    BY <1>6, <2>1
<1>14. CASE FlushArm(c)
  <2>1. pc'[c] = "markBusy" /\ UNCHANGED <<inPid, reg>> /\ pc[c] = "arm"
    BY <1>0, <1>14, GotoShared DEF FlushArm
  <2>2. epIn'.avail /\ epIn'.pid = reg[c].pid
    BY <1>0, <1>14 DEF FlushArm, TypeOK, Endpoint
  <2>3. QED
    BY <1>6, <2>1, <2>2
<1>15. CASE FlushMarkBusy(c)
  <2>1. /\ pc'[c] = FlushReturn(c) /\ UNCHANGED <<inPid, epIn>>
        /\ pc[c] = "markBusy"
    BY <1>0, <1>15, GotoShared DEF FlushMarkBusy
  <2>2. QED
    BY <1>6, <2>1
<1>16. QED
  BY <1>8, <1>9, <1>10, <1>11, <1>12, <1>13, <1>14, <1>15 DEF Flush

LEMMA ToggleNext ==
  ASSUME ~QuickHost, ~Reconfigure, NoReset, TypeInv, InInv, ToggleInv,
         [Next]_vars
  PROVE  ToggleInv'
<1> USE DEF ToggleInv, EnumInv, OutInv, InToggle, OutToggle, Code, shadow,
            endpoints, code, IsrPlace
<1>0. TypeOK
  BY DEF TypeInv
<1>1. CASE PutCheck \/ PutStore \/ PutPublish \/ GetCheck \/ GetLoad
           \/ GetStore
  BY <1>0, <1>1, ThreadFrame DEF Filling
<1>2. ASSUME NEW c \in Code, Flush(c) PROVE ToggleInv'
  BY <1>2, FlushToggle
<1>3. CASE IsrEnter
  <2>1. "out" \notin Ints /\ ("setup" \in Ints => "setup" \in sie)
    BY <1>0 DEF Ints, TypeOK
  <2>2. QED
    BY <1>0, <1>3, <2>1, GotoIsr DEF IsrEnter
<1>4. CASE IsrReturn
  BY <1>0, <1>4, GotoIsr DEF IsrReturn, At
<1>5. CASE IsrBusReset
  BY <1>5 DEF IsrBusReset, InInv
<1>6. CASE IsrSetConfiguration
  <2>1. host.asked /\ ~host.ready /\ pc["isr"] = "dispatch" /\ buffStatus = {}
    BY <1>6 DEF IsrSetConfiguration, At
  <2>2. /\ host' = [host EXCEPT !.ready = TRUE, !.asked = FALSE,
                                !.inPid = 0, !.outPid = 0]
    BY <1>6, <2>1 DEF IsrSetConfiguration
  <2>3. /\ host'.ready /\ ~host'.asked
        /\ host'.inPid = host.inPid /\ host'.outPid = host.outPid
    BY <1>0, <2>1, <2>2 DEF TypeOK, Host
  <2>4. epOut'.avail /\ epOut'.pid = outPid /\ outPid' = 1 - outPid
    BY <1>0, <1>6 DEF IsrSetConfiguration, ArmOut, TypeOK, Endpoint
  <2>5. UNCHANGED <<inPid, epIn, buffStatus, pc, reg>>
    BY <1>6 DEF IsrSetConfiguration
  <2>6. "setup" \notin sie' /\ todo' = todo \ {"setup"}
    BY <1>6 DEF IsrSetConfiguration
  <2>7. outPid \in {0, 1} /\ host.outPid \in {0, 1}
    BY <1>0 DEF TypeOK, Host
  <2>8. OutToggle'
    BY <2>1, <2>3, <2>4, <2>7
  <2>9. InToggle'
    BY <2>3, <2>5
  <2>10. EnumInv' /\ OutInv'
    BY <2>1, <2>3, <2>5, <2>6
  <2>11. QED
    BY <2>8, <2>9, <2>10
<1>7. CASE IsrReadBuffStatus
  BY <1>0, <1>7 DEF IsrReadBuffStatus, TypeOK, Completions, At
<1>8. CASE IsrInDone
  BY <1>0, <1>8, GotoIsr DEF IsrInDone, At
<1>9. CASE IsrInAck
  BY <1>0, <1>9, GotoIsr DEF IsrInAck, At
<1>10. CASE IsrDrain
  BY <1>0, <1>10, GotoIsr DEF IsrDrain, At
<1>11. CASE IsrRearm
  <2>1. epOut'.avail /\ epOut'.pid = outPid /\ outPid' = 1 - outPid
    BY <1>0, <1>11 DEF IsrRearm, ArmOut, TypeOK, Endpoint
  <2>2. /\ pc["isr"] = "rearm" /\ pc'["isr"] = "outAck"
        /\ pc'["thread"] = pc["thread"]
    BY <1>0, <1>11, GotoIsr DEF IsrRearm, At
  <2>3. outPid \in {0, 1} /\ host.outPid \in {0, 1}
    BY <1>0 DEF TypeOK, Host
  <2>4. UNCHANGED <<inPid, epIn, buffStatus, sie, reg, todo, host>>
    BY <1>11 DEF IsrRearm
  <2>5. OutToggle'
    BY <2>1, <2>2, <2>3, <2>4
  <2>6. InToggle'
    BY <2>2, <2>4
  <2>7. EnumInv' /\ OutInv'
    BY <2>1, <2>2, <2>4
  <2>8. QED
    BY <2>5, <2>6, <2>7
<1>12. CASE IsrOutAck
  BY <1>0, <1>12, GotoIsr DEF IsrOutAck, At
<1>13. CASE HostIn
  <2>1. /\ host.ready /\ epIn.avail
        /\ UNCHANGED <<inPid, outPid, epOut, sie, pc, reg, todo>>
    BY <1>13 DEF HostIn
  <2>2. ~epIn'.avail
    BY <1>0, <1>13 DEF HostIn, TypeOK, Endpoint
  <2>3. inPid \in {0, 1} /\ host.inPid \in {0, 1}
    BY <1>0 DEF TypeOK, Host
  <2>4. epIn.pid = host.inPid
    BY <2>1, <2>3
  <2>5. /\ host'.inPid = 1 - host.inPid /\ host'.outPid = host.outPid
        /\ host'.ready = host.ready /\ host'.asked = host.asked
    BY <1>0, <1>13, <2>4 DEF HostIn, TypeOK, Host
  <2>6. \A c \in Code : pc[c] # "arm"
    BY <2>1 DEF InInv, Filling
  <2>7. buffStatus' = buffStatus \cup {"in"}
    BY <1>13 DEF HostIn
  <2>8. QED
    BY <2>1, <2>2, <2>3, <2>4, <2>5, <2>6, <2>7
<1>14. CASE HostOut
  <2>1. PICK n \in 1 .. MaxPacket : HostSends(n)
    BY <1>14 DEF HostOut, HostSends
  <2>2. /\ host.ready /\ epOut.avail /\ pc["isr"] # "outAck"
        /\ UNCHANGED <<inPid, outPid, epIn, sie, pc, reg, todo>>
    BY <1>14 DEF HostOut, OutWindow
  <2>3. outPid \in {0, 1} /\ host.outPid \in {0, 1}
    BY <1>0 DEF TypeOK, Host
  <2>4. epOut.pid = host.outPid
    BY <2>2, <2>3
  <2>5. /\ host'.outPid = 1 - host.outPid /\ host'.inPid = host.inPid
        /\ host'.ready = host.ready /\ host'.asked = host.asked
    BY <1>0, <2>1 DEF HostSends, TypeOK, Host
  <2>6. ~epOut'.avail /\ buffStatus' = buffStatus \cup {"out"}
    BY <1>0, <2>1, <2>4 DEF HostSends, TypeOK, Endpoint
  <2>7. QED
    BY <2>2, <2>3, <2>4, <2>5, <2>6
<1>15. CASE HostSetConfiguration
  <2>1. /\ ~host.ready /\ host'.asked /\ host'.ready = host.ready
        /\ host'.inPid = host.inPid /\ host'.outPid = host.outPid
    BY <1>0, <1>15 DEF HostSetConfiguration, TypeOK, Host
  <2>2. QED
    BY <1>15, <2>1 DEF HostSetConfiguration
<1>16. CASE HostBusReset
  BY <1>0, <1>16 DEF HostBusReset, TypeOK, NoReset
<1>17. CASE UNCHANGED vars
  BY <1>17 DEF vars
<1>18. QED
  BY <1>1, <1>2, <1>3, <1>4, <1>5, <1>6, <1>7, <1>8, <1>9, <1>10, <1>11,
     <1>12, <1>13, <1>14, <1>15, <1>16, <1>17 DEF Next, Thread, Isr

LEMMA ToggleInvariance ==
  ASSUME ~QuickHost, ~Reconfigure, NoReset
  PROVE  Spec => [](TypeInv /\ InInv /\ ToggleInv)
<1>1. Init => TypeInv /\ InInv /\ ToggleInv
  BY TypeInit, InInit, ToggleInit
<1>2. TypeInv /\ InInv /\ ToggleInv /\ [Next]_vars
        => (TypeInv /\ InInv /\ ToggleInv)'
  BY TypeNext, InNext, ToggleNext
<1>3. QED
  BY <1>1, <1>2, PTL DEF Spec

\* An armed bulk endpoint carries the toggle the host expects, although the
\* driver keeps its toggles apart from the host's and never compares them.
THEOREM TogglesStayInStep ==
  ASSUME ~QuickHost, ~Reconfigure, NoReset
  PROVE  Spec => []TogglesAgree
<1>1. TypeInv /\ InInv /\ ToggleInv => TogglesAgree
  BY DEF TypeInv, TypeOK, Host, ToggleInv, InToggle, OutToggle, TogglesAgree
<1>2. QED
  BY <1>1, ToggleInvariance, PTL

-----------------------------------------------------------------------------
(* The bytes on their way to the host.                                     *)

\* From the second slot of two on, distances are those from the first, less.
LEMMA DistShift ==
  ASSUME NEW a \in Slot, NEW b \in Slot, NEW s \in Slot
  PROVE  /\ Dist(a, s) >= Dist(a, b) => Dist(b, s) = Dist(a, s) - Dist(a, b)
         /\ Dist(b, s) + Dist(a, b) < RingSize
              => Dist(a, s) = Dist(b, s) + Dist(a, b)
<1>1. \A x, y \in Slot : Dist(x, y) = IF y >= x THEN y - x
                                      ELSE y - x + RingSize
  BY DistValue
<1>2. QED
  BY <1>1, SizeAssumption DEF Slot

\* Bytes that have left the ring and not reached the host: those of the
\* packet that is armed, or is about to be.
InFlight ==
  IF epIn.avail THEN epIn.len
  ELSE IF pc["thread"] \in {"savePid", "arm"} THEN reg["thread"].count
  ELSE IF pc["isr"] \in {"savePid", "arm"} THEN reg["isr"].count ELSE 0
Shipped == Len(host.got) + InFlight

\* The host has got the first bytes, the buffer holds the next ...
PacketInv ==
  /\ \A i \in 1 .. Len(host.got) : host.got[i] = i
  /\ \A i \in 1 .. InFlight : epIn.data[i] = Len(host.got) + i
\* ... and the ring the rest, in order.
TxRingInv ==
  /\ Shipped + Dist(tx.head, tx.tail) = wrote
  /\ \A s \in Slot : Dist(tx.head, s) < Dist(tx.head, tx.tail)
                       => tx.buf[s] = Shipped + 1 + Dist(tx.head, s)
\* The copy loop has taken the oldest, with the tail nobody has moved since.
CopyInv(c) ==
  pc[c] = "copy" =>
    /\ reg[c].tail = tx.tail
    /\ reg[c].count <= Dist(tx.head, tx.tail)
    /\ reg[c].count = Dist(tx.head, reg[c].head)
    /\ \A i \in 1 .. reg[c].count : epIn.data[i] = Len(host.got) + i
\* cdc_putc writes a slot outside the held ones, and publishes it.
PutInv ==
  /\ pc["thread"] \in {"putStore", "putPublish"} =>
       /\ reg["thread"].tail = tx.tail
       /\ Dist(tx.head, tx.tail) # RingSize - 1
  /\ pc["thread"] = "putPublish" => tx.buf[tx.tail] = wrote + 1

TxInv == PacketInv /\ TxRingInv /\ (\A c \in Code : CopyInv(c)) /\ PutInv

LEMMA TxInit == Init => TxInv
<1> SUFFICES ASSUME Init PROVE TxInv
  OBVIOUS
<1>1. /\ pc["thread"] = "ready" /\ pc["isr"] = "idle" /\ ~epIn.avail
      /\ tx.head = 0 /\ tx.tail = 0 /\ host.got = << >> /\ wrote = 0
  BY DEF Init, EmptyBuffer, EmptyRing
<1>2. Dist(tx.head, tx.tail) = 0
  BY <1>1, DistSteps, SizeAssumption DEF Slot
<1>3. Len(host.got) = 0 /\ InFlight = 0
  BY <1>1, EmptySeq DEF InFlight
<1>4. \A s \in Slot : Dist(tx.head, s) \in Slot
  <2>1. tx.head \in Slot
    BY <1>1, SizeAssumption DEF Slot
  <2>2. QED
    BY <2>1, DistValue
<1>5. PacketInv
  BY <1>3 DEF PacketInv
<1>6. TxRingInv
  BY <1>1, <1>2, <1>3, <1>4 DEF TxRingInv, Shipped, Slot
<1>7. (\A c \in Code : CopyInv(c)) /\ PutInv
  BY <1>1 DEF CopyInv, PutInv, Code
<1>8. QED
  BY <1>5, <1>6, <1>7 DEF TxInv

\* Steps that move no byte.
LEMMA TxFrame ==
  ASSUME TxInv, UNCHANGED <<tx, epIn, wrote>>, host'.got = host.got,
         \A c \in Code :
           pc[c] \in {"copy", "savePid", "arm"}
           \/ pc'[c] \in {"copy", "savePid", "arm"}
             => pc'[c] = pc[c] /\ reg'[c] = reg[c],
         pc'["thread"] \in {"putStore", "putPublish"} =>
           pc'["thread"] = pc["thread"] /\ reg'["thread"] = reg["thread"]
  PROVE  TxInv'
<1>1. InFlight' = InFlight
  BY DEF InFlight, Code
<1>2. PacketInv'
  BY <1>1 DEF TxInv, PacketInv
<1>3. TxRingInv'
  BY <1>1 DEF TxInv, TxRingInv, Shipped
<1>4. \A c \in Code : CopyInv(c)'
  BY DEF TxInv, CopyInv
<1>5. PutInv'
  BY DEF TxInv, PutInv
<1>6. QED
  BY <1>2, <1>3, <1>4, <1>5 DEF TxInv

\* The types the arithmetic below needs.
LEMMA TxTypes ==
  ASSUME TypeOK
  PROVE  /\ tx.head \in Slot /\ tx.tail \in Slot
         /\ Dist(tx.head, tx.tail) \in Slot
         /\ \A s \in Slot : Dist(tx.head, s) \in Slot
         /\ epIn.len \in 0 .. MaxPacket
         /\ \A c \in Code : reg[c] \in Reg
         /\ InFlight \in 0 .. MaxPacket
         /\ Len(host.got) \in Nat /\ host.got \in Seq(Byte)
         /\ Shipped \in Nat /\ wrote \in Nat
<1>1. tx.head \in Slot /\ tx.tail \in Slot
  BY DEF TypeOK, Ring
<1>2. \A s \in Slot : Dist(tx.head, s) \in Slot
  BY <1>1, DistValue
<1>3. epIn.len \in 0 .. MaxPacket
  BY DEF TypeOK, Endpoint
<1>4. \A c \in Code : reg[c] \in Reg
  BY DEF TypeOK
<1>5. \A c \in {"thread", "isr"} : reg[c].count \in 0 .. MaxPacket
  BY <1>4 DEF Reg, Code
<1>6. InFlight \in 0 .. MaxPacket
  BY <1>3, <1>5, SizeAssumption DEF InFlight
<1>7. host.got \in Seq(Byte)
  BY DEF TypeOK, Host
<1>8. Len(host.got) \in Nat
  BY <1>7, LenProperties
<1>9. Shipped \in Nat
  BY <1>6, <1>8 DEF Shipped
<1>10. wrote \in Nat
  BY BoundAssumption DEF TypeOK
<1>11. QED
  BY <1>1, <1>2, <1>3, <1>4, <1>6, <1>7, <1>8, <1>9, <1>10

\* cdc_putc appends.
LEMMA PutTx ==
  ASSUME TypeInv, InInv, TxInv, PutCheck \/ PutStore \/ PutPublish
  PROVE  TxInv'
<1>0. TypeOK /\ "thread" \in Code
  BY DEF TypeInv, Code
<1>1. /\ UNCHANGED <<epIn, host>> /\ pc["isr"] = "idle" /\ pc'["isr"] = "idle"
      /\ {pc["thread"], pc'["thread"]} \cap (Filling \cup {"markBusy"}) = {}
  BY <1>0, ThreadFrame
<1>2. InFlight' = InFlight /\ Shipped' = Shipped
  BY <1>1 DEF InFlight, Shipped, Filling
<1>3. PacketInv' /\ \A c \in Code : CopyInv(c)'
  BY <1>1, <1>2 DEF TxInv, PacketInv, CopyInv, Code, Filling
<1> USE TxTypes
<1> DEFINE D == Dist(tx.head, tx.tail)
<1>4. CASE PutCheck
  <2>1. tx' = tx /\ wrote' = wrote /\ pc'["thread"] = "putStore"
    BY <1>0, <1>4, GotoThread DEF PutCheck, fifos, history, ThreadPlace
  <2>2. D # RingSize - 1
    BY <1>0, <1>4, FreeValue, SizeAssumption DEF PutCheck, TypeOK, Slot
  <2>3. reg'["thread"].tail = tx.tail
    BY <1>0, <1>4 DEF PutCheck, SetReg, NoReg, TypeOK
  <2>4. TxRingInv'
    BY <1>2, <2>1 DEF TxInv, TxRingInv
  <2>5. PutInv'
    BY <2>1, <2>2, <2>3 DEF PutInv
  <2>6. QED
    BY <1>3, <2>4, <2>5 DEF TxInv
<1>5. CASE PutStore
  <2>1. /\ wrote' = wrote /\ reg' = reg
        /\ pc["thread"] = "putStore" /\ pc'["thread"] = "putPublish"
    BY <1>0, <1>5, GotoThread DEF PutStore, At, history, ThreadPlace
  <2>2. reg["thread"].tail = tx.tail /\ D # RingSize - 1
    BY <2>1 DEF TxInv, PutInv
  <2>3. /\ tx'.head = tx.head /\ tx'.tail = tx.tail
        /\ \A s \in Slot : tx'.buf[s] = IF s = tx.tail THEN wrote + 1
                                                       ELSE tx.buf[s]
    BY <1>0, <1>5, <2>2 DEF PutStore, TypeOK, Ring
  <2>4. \A s \in Slot : Dist(tx.head, s) < D => s # tx.tail
    BY <1>0 DEF Slot
  <2>5. TxRingInv'
    BY <1>2, <2>1, <2>3, <2>4 DEF TxInv, TxRingInv
  <2>6. PutInv'
    BY <1>0, <2>1, <2>2, <2>3 DEF PutInv
  <2>7. QED
    BY <1>3, <2>5, <2>6 DEF TxInv
<1>6. CASE PutPublish
  <2>1. /\ wrote' = wrote + 1
        /\ pc["thread"] = "putPublish" /\ pc'["thread"] = "flush"
    BY <1>0, <1>6, GotoThread DEF PutPublish, At, ThreadPlace
  <2>2. /\ reg["thread"].tail = tx.tail /\ D # RingSize - 1
        /\ tx.buf[tx.tail] = wrote + 1
    BY <2>1 DEF TxInv, PutInv
  <2>3. tx'.head = tx.head /\ tx'.tail = After(tx.tail) /\ tx'.buf = tx.buf
    BY <1>0, <1>6, <2>2 DEF PutPublish, TypeOK, Ring
  <2>4. Dist(tx'.head, tx'.tail) = D + 1
    BY <1>0, <2>2, <2>3, DistSteps
  <2>5. ASSUME NEW s \in Slot, Dist(tx.head, s) < D + 1
        PROVE  Dist(tx.head, s) < D \/ s = tx.tail
    <3>1. Dist(tx.head, s) \in Int /\ D \in Int
      BY <1>0, DistValue, SlotInt
    <3>2. CASE Dist(tx.head, s) = D
      BY <1>0, <3>2, DistSteps
    <3>3. QED
      BY <2>5, <3>1, <3>2
  <2>6. TxRingInv'
    <3>1. Shipped + D = wrote
      BY DEF TxInv, TxRingInv
    <3>2. Shipped' + (D + 1) = wrote'
      BY <1>0, <1>2, <2>1, <3>1 DEF Slot
    <3>3. ASSUME NEW s \in Slot, Dist(tx.head, s) < D + 1
          PROVE  tx.buf[s] = Shipped + 1 + Dist(tx.head, s)
      <4>1. CASE Dist(tx.head, s) < D
        BY <4>1 DEF TxInv, TxRingInv
      <4>2. CASE s = tx.tail
        <5>1. D \in Int /\ Shipped \in Int /\ Shipped + 1 + D = wrote + 1
          BY <1>0, <3>1, SlotInt
        <5>2. QED
          BY <2>2, <4>2, <5>1
      <4>3. QED
        BY <2>5, <3>3, <4>1, <4>2
    <3>4. QED
      BY <1>2, <2>3, <2>4, <3>2, <3>3 DEF TxRingInv
  <2>7. PutInv'
    BY <2>1 DEF PutInv
  <2>8. QED
    BY <1>3, <2>6, <2>7 DEF TxInv
<1>7. QED
  BY <1>4, <1>5, <1>6

\* While c flushes, the other is not between taking a byte and arming.
LEMMA FlushAlone ==
  ASSUME TypeInv, InInv, NEW c \in Code, Flush(c), NEW d \in Code \ {c}
  PROVE  /\ pc[d] \notin Filling /\ pc'[d] = pc[d]
         /\ pc[c] \in Filling => ~epIn.avail
         /\ Code = {c, d}
<1>1. /\ pc[c] \in Flushing /\ pc'[d] = pc[d]
      /\ c = "thread" => pc["isr"] = "idle"
  BY FlushPlace DEF TypeInv
<1>2. QED
  BY <1>1 DEF InInv, Filling, Flushing, Code

\* What a flush step must still show, of c alone.
LEMMA FlushTxFrame ==
  ASSUME TypeInv, InInv, TxInv, NEW c \in Code, Flush(c),
         \A d \in Code \ {c} : reg'[d] = reg[d],
         PacketInv', TxRingInv', CopyInv(c)',
         Dist(tx'.head, tx'.tail) # RingSize - 1
           \/ Dist(tx.head, tx.tail) = RingSize - 1
  PROVE  TxInv'
<1>1. PICK d \in Code : d # c
  BY DEF Code
<1>2. /\ pc[d] \notin Filling /\ pc'[d] = pc[d] /\ Code = {c, d}
      /\ reg'[d] = reg[d]
  BY <1>1, FlushAlone
<1>3. CopyInv(d)'
  BY <1>2 DEF CopyInv, Filling
<1>4. PutInv'
  <2>1. /\ tx'.tail = tx.tail /\ tx'.buf = tx.buf /\ wrote' = wrote
        /\ pc'[c] \in Filling \cup {"markBusy", FlushReturn(c)}
    BY FlushFrame, FlushPlace DEF TypeInv
  <2>2. pc'["thread"] \in {"putStore", "putPublish"} =>
          d = "thread"
    BY <1>2, <2>1 DEF Filling, FlushReturn, Code
  <2>3. QED
    BY <1>2, <2>1, <2>2 DEF TxInv, PutInv
<1>5. QED
  BY <1>2, <1>3, <1>4 DEF TxInv

\* _cdc_try_flush_tx moves the oldest bytes from the ring to the packet.
LEMMA FlushTx ==
  ASSUME TypeInv, InInv, TxInv, NEW c \in Code, Flush(c)
  PROVE  TxInv'
<1>0. TypeOK /\ reg[c] \in Reg
  BY DEF TypeInv, TypeOK
<1>1. PICK d \in Code : d # c
  BY DEF Code
<1>2. /\ pc[d] \notin Filling /\ pc'[d] = pc[d]
      /\ pc[c] \in Filling => ~epIn.avail
      /\ Code = {c, d}
  BY <1>1, FlushAlone
<1>3. /\ InFlight = IF epIn.avail THEN epIn.len
                    ELSE IF pc[c] \in {"savePid", "arm"} THEN reg[c].count
                    ELSE 0
      /\ InFlight' = IF epIn'.avail THEN epIn'.len
                     ELSE IF pc'[c] \in {"savePid", "arm"} THEN reg'[c].count
                     ELSE 0
  BY <1>1, <1>2 DEF InFlight, Filling, Code
<1>4. UNCHANGED <<host, wrote>> /\ tx'.tail = tx.tail /\ tx'.buf = tx.buf
  BY <1>0, FlushFrame
<1>5. pc'[c] \in {"putStore", "putPublish"} => FALSE
  BY <1>0, FlushPlace DEF Filling, FlushReturn
<1> DEFINE D == Dist(tx.head, tx.tail)
<1>6. /\ tx.head \in Slot /\ tx.tail \in Slot /\ D \in Slot
      /\ \A s \in Slot : Dist(tx.head, s) \in Slot
      /\ Len(host.got) \in Nat /\ Shipped \in Nat /\ wrote \in Nat
  BY <1>0, TxTypes
<1> USE DEF At, shadow, endpoints, Shared, ThreadPlace, IsrPlace
<1>7. CASE FlushBusy(c)
  <2>1. /\ pc[c] = "flush" /\ pc'[c] = FlushReturn(c)
        /\ UNCHANGED <<tx, epIn, reg>>
    BY <1>0, <1>7, GotoShared DEF FlushBusy, fifos
  <2>2. InFlight' = InFlight
    BY <1>3, <2>1 DEF FlushReturn
  <2>3. PacketInv' /\ TxRingInv' /\ CopyInv(c)'
    BY <1>4, <2>1, <2>2
       DEF TxInv, PacketInv, TxRingInv, Shipped, CopyInv, FlushReturn
  <2>4. QED
    BY <1>2, <2>1, <2>3, FlushTxFrame
<1>8. CASE FlushIdle(c)
  <2>1. pc[c] = "flush" /\ pc'[c] = "load" /\ UNCHANGED <<tx, epIn, reg>>
    BY <1>0, <1>8, GotoShared DEF FlushIdle, fifos
  <2>2. InFlight' = InFlight
    BY <1>3, <2>1
  <2>3. PacketInv' /\ TxRingInv' /\ CopyInv(c)'
    BY <1>4, <2>1, <2>2
       DEF TxInv, PacketInv, TxRingInv, Shipped, CopyInv
  <2>4. QED
    BY <1>2, <2>1, <2>3, FlushTxFrame
<1>9. CASE FlushLoad(c)
  <2>1. pc[c] = "load" /\ UNCHANGED <<tx, epIn>>
    BY <1>9 DEF FlushLoad, fifos
  <2>2. CASE tx.head = tx.tail
    <3>1. pc'[c] = FlushReturn(c) /\ reg' = reg
      BY <1>0, <1>9, <2>2, GotoShared DEF FlushLoad
    <3>2. InFlight' = InFlight
      BY <1>3, <2>1, <3>1 DEF FlushReturn
    <3>3. PacketInv' /\ TxRingInv' /\ CopyInv(c)'
      BY <1>4, <2>1, <3>1, <3>2
         DEF TxInv, PacketInv, TxRingInv, Shipped, CopyInv, FlushReturn
    <3>4. QED
      BY <1>2, <2>1, <3>1, <3>3, FlushTxFrame
  <2>3. CASE tx.head # tx.tail
    <3>1. pc'[c] = "copy"
      BY <1>0, <1>9, <2>3, GotoShared DEF FlushLoad
    <3>2. SetReg(c, [NoReg EXCEPT !.head = tx.head, !.tail = tx.tail])
      BY <1>9, <2>3 DEF FlushLoad
    <3>3. /\ reg'[c].head = tx.head /\ reg'[c].tail = tx.tail
          /\ reg'[c].count = 0 /\ reg'[d] = reg[d]
      BY <1>0, <1>1, <3>2 DEF SetReg, NoReg, TypeOK
    <3>4. InFlight' = InFlight
      BY <1>3, <2>1, <3>1
    <3>5. PacketInv' /\ TxRingInv'
      BY <1>4, <2>1, <3>4 DEF TxInv, PacketInv, TxRingInv, Shipped
    <3>6. CopyInv(c)'
      BY <1>6, <2>1, <3>3, DistSteps DEF CopyInv, Slot
    <3>7. QED
      BY <1>2, <2>1, <3>3, <3>5, <3>6, FlushTxFrame
  <2>4. QED
    BY <2>2, <2>3
<1>10. CASE FlushCopy(c)
  <2> DEFINE n == reg[c].count
             h == reg[c].head
  <2>1. /\ pc[c] = "copy" /\ pc' = pc /\ tx' = tx /\ h # reg[c].tail
        /\ n < MaxPacket
    BY <1>10 DEF FlushCopy, fifos, MoreToCopy
  <2>2. /\ reg[c].tail = tx.tail /\ n <= D /\ n = Dist(tx.head, h)
        /\ \A i \in 1 .. n : epIn.data[i] = Len(host.got) + i
    BY <2>1 DEF TxInv, CopyInv
  <2>3. h \in Slot /\ n \in 0 .. MaxPacket /\ n \in Nat
    BY <1>0, SizeAssumption DEF Reg
  <2>4. n < D
    <3>1. Dist(tx.head, h) # D
      BY <1>6, <2>1, <2>2, <2>3, DistSteps
    <3>2. QED
      BY <1>6, <2>2, <2>3, <3>1 DEF Slot
  <2>5. InFlight = 0 /\ InFlight' = 0
    <3>1. ~epIn.avail /\ epIn'.avail = epIn.avail
      BY <1>0, <1>2, <1>10, <2>1 DEF Filling, FlushCopy, TypeOK, Endpoint
    <3>2. QED
      BY <1>3, <2>1, <3>1
  <2>6. tx.buf[h] = Len(host.got) + n + 1
    BY <1>6, <2>2, <2>3, <2>4, <2>5 DEF TxInv, TxRingInv, Shipped
  <2>7. epIn' = [epIn EXCEPT !.data[n + 1] = tx.buf[h]]
    BY <1>10 DEF FlushCopy
  <2>8. \A i \in 1 .. MaxPacket :
          epIn'.data[i] = IF i = n + 1 THEN tx.buf[h] ELSE epIn.data[i]
    <3>1. n + 1 \in 1 .. MaxPacket
      BY <2>1, <2>3, SizeAssumption
    <3>2. QED
      BY <1>0, <2>7, <3>1 DEF TypeOK, Endpoint
  <2>9. SetReg(c, [reg[c] EXCEPT !.head = After(@), !.count = @ + 1])
    BY <1>10 DEF FlushCopy
  <2>10. /\ reg'[c].head = After(h) /\ reg'[c].tail = tx.tail
         /\ reg'[c].count = n + 1 /\ reg'[d] = reg[d]
    BY <1>0, <1>1, <2>2, <2>9 DEF SetReg, TypeOK, Reg
  <2>11. Dist(tx.head, After(h)) = n + 1
    <3>1. Dist(tx.head, h) # RingSize - 1
      BY <1>6, <2>2, <2>3, <2>4, SizeAssumption DEF Slot
    <3>2. QED
      BY <1>6, <2>2, <2>3, <3>1, DistSteps
  <2> HIDE DEF n, h
  <2>12. \A i \in 1 .. n + 1 : epIn'.data[i] = Len(host.got) + i
    <3> DEFINE base == Len(host.got)
    <3>1. /\ base \in Int /\ tx.buf[h] = base + n + 1
          /\ \A i \in 1 .. n : epIn.data[i] = base + i
      BY <1>6, <2>2, <2>6
    <3> HIDE DEF base
    <3>2. ASSUME NEW i \in 1 .. n + 1
          PROVE  epIn'.data[i] = base + i
      <4>1. i \in 1 .. MaxPacket /\ (i # n + 1 => i \in 1 .. n) /\ n \in Int
        BY <2>1, <2>3, SizeAssumption
      <4>2. epIn'.data[i] = IF i = n + 1 THEN tx.buf[h] ELSE epIn.data[i]
        BY <2>8, <4>1
      <4>3. QED
        BY <3>1, <4>1, <4>2
    <3>3. QED
      BY <3>2 DEF base
  <2>13. n + 1 <= D
    BY <1>6, <2>3, <2>4 DEF Slot
  <2>14. CopyInv(c)'
    BY <1>4, <2>1, <2>10, <2>11, <2>12, <2>13 DEF CopyInv
  <2>15. PacketInv' /\ TxRingInv'
    BY <1>4, <2>1, <2>5 DEF TxInv, PacketInv, TxRingInv, Shipped
  <2>16. QED
    BY <1>1, <1>2, <2>1, <2>10, <2>14, <2>15, FlushTxFrame
<1>11. CASE FlushSaveHead(c)
  <2> DEFINE n == reg[c].count
             h == reg[c].head
  <2>1. pc[c] = "copy" /\ pc'[c] = "savePid" /\ epIn' = epIn
    BY <1>0, <1>11, GotoShared DEF FlushSaveHead
  <2>2. /\ reg[c].tail = tx.tail /\ n <= D /\ n = Dist(tx.head, h)
        /\ \A i \in 1 .. n : epIn.data[i] = Len(host.got) + i
    BY <2>1 DEF TxInv, CopyInv
  <2>3. h \in Slot /\ n \in 0 .. MaxPacket /\ n \in Nat
    BY <1>0, SizeAssumption DEF Reg
  <2>4. ~epIn.avail
    BY <1>2, <2>1 DEF Filling
  <2>5. SetReg(c, [reg[c] EXCEPT !.pid = inPid])
    BY <1>11 DEF FlushSaveHead
  <2>6. reg'[c].count = n /\ reg'[d] = reg[d]
    BY <1>0, <1>1, <2>5 DEF SetReg, TypeOK, Reg
  <2>7. tx'.head = h
    BY <1>0, <1>11 DEF FlushSaveHead, TypeOK, Ring
  <2>8. InFlight = 0 /\ InFlight' = n
    BY <1>3, <2>1, <2>4, <2>6
  <2>9. Shipped = Len(host.got) /\ Shipped' = Len(host.got) + n
    BY <1>4, <1>6, <2>8 DEF Shipped
  <2>10. \A s \in Slot : /\ Dist(h, s) \in Slot
                         /\ Dist(tx.head, s) >= n
                              => Dist(h, s) = Dist(tx.head, s) - n
                         /\ Dist(h, s) + n < RingSize
                              => Dist(tx.head, s) = Dist(h, s) + n
    BY <1>6, <2>2, <2>3, DistShift, DistValue
  <2> HIDE DEF n, h
  <2>11. Dist(h, tx.tail) = D - n
    BY <1>6, <2>2, <2>3, <2>10 DEF Slot
  <2>12. Shipped + D = wrote
    BY DEF TxInv, TxRingInv
  <2>13. ASSUME NEW s \in Slot, Dist(h, s) < D - n
         PROVE  tx.buf[s] = Shipped' + 1 + Dist(h, s)
    <3>1. /\ Dist(h, s) \in Int /\ Dist(tx.head, s) \in Int /\ D \in Int
          /\ D < RingSize /\ RingSize \in Int
          /\ Dist(h, s) + n < RingSize => Dist(tx.head, s) = Dist(h, s) + n
      <4>1. /\ Dist(h, s) \in Slot /\ Dist(tx.head, s) \in Slot /\ D \in Slot
            /\ Dist(h, s) + n < RingSize => Dist(tx.head, s) = Dist(h, s) + n
        BY <1>6, <2>10
      <4>2. \A x \in Slot : x \in Int /\ x < RingSize
        BY SizeAssumption DEF Slot
      <4>3. QED
        BY <4>1, <4>2, SizeAssumption
    <3>2. Dist(tx.head, s) = Dist(h, s) + n /\ Dist(tx.head, s) < D
      BY <2>3, <2>13, <3>1
    <3>3. tx.buf[s] = Shipped + 1 + Dist(tx.head, s)
      BY <3>2 DEF TxInv, TxRingInv
    <3>4. Len(host.got) \in Int /\ n \in Int
      BY <1>6, <2>3
    <3>5. QED
      BY <2>9, <3>1, <3>2, <3>3, <3>4
  <2>14. Shipped' + (D - n) = wrote
    BY <1>6, <2>3, <2>9, <2>12 DEF Slot
  <2>15. TxRingInv'
    BY <1>4, <2>7, <2>11, <2>13, <2>14 DEF TxRingInv
  <2>16. PacketInv'
    BY <1>4, <2>1, <2>2, <2>8 DEF TxInv, PacketInv
  <2>17. CopyInv(c)'
    BY <2>1 DEF CopyInv
  <2>18. Dist(tx'.head, tx'.tail) # RingSize - 1 \/ D = RingSize - 1
    BY <1>4, <1>6, <2>3, <2>7, <2>11, SizeAssumption DEF Slot
  <2>19. QED
    BY <1>1, <1>2, <2>6, <2>15, <2>16, <2>17, <2>18, FlushTxFrame
<1>12. CASE FlushSavePid(c)
  <2>1. pc[c] = "savePid" /\ pc'[c] = "arm" /\ UNCHANGED <<tx, epIn, reg>>
    BY <1>0, <1>12, GotoShared DEF FlushSavePid, fifos
  <2>2. InFlight' = InFlight
    BY <1>3, <2>1
  <2>3. PacketInv' /\ TxRingInv' /\ CopyInv(c)'
    BY <1>4, <2>1, <2>2 DEF TxInv, PacketInv, TxRingInv, Shipped, CopyInv
  <2>4. QED
    BY <1>2, <2>1, <2>3, FlushTxFrame
<1>13. CASE FlushArm(c)
  <2>1. pc[c] = "arm" /\ pc'[c] = "markBusy" /\ UNCHANGED <<tx, reg>>
    BY <1>0, <1>13, GotoShared DEF FlushArm, fifos
  <2>2. epIn'.avail /\ epIn'.len = reg[c].count /\ epIn'.data = epIn.data
    BY <1>0, <1>13 DEF FlushArm, TypeOK, Endpoint
  <2>3. InFlight' = InFlight
    BY <1>2, <1>3, <2>1, <2>2 DEF Filling
  <2>4. PacketInv' /\ TxRingInv' /\ CopyInv(c)'
    BY <1>4, <2>1, <2>2, <2>3
       DEF TxInv, PacketInv, TxRingInv, Shipped, CopyInv
  <2>5. QED
    BY <1>2, <2>1, <2>4, FlushTxFrame
<1>14. CASE FlushMarkBusy(c)
  <2>1. /\ pc[c] = "markBusy" /\ pc'[c] = FlushReturn(c)
        /\ UNCHANGED <<tx, epIn>>
    BY <1>0, <1>14, GotoShared DEF FlushMarkBusy, fifos
  <2>2. epIn.avail
    BY <2>1 DEF InInv
  <2>3. InFlight' = InFlight
    BY <1>3, <2>1, <2>2
  <2>4. PacketInv' /\ TxRingInv' /\ CopyInv(c)'
    BY <1>4, <2>1, <2>3
       DEF TxInv, PacketInv, TxRingInv, Shipped, CopyInv, FlushReturn
  <2>5. reg'[d] = reg[d]
    BY <1>0, <1>1, <1>14 DEF FlushMarkBusy, SetReg, TypeOK
  <2>6. QED
    BY <1>2, <2>1, <2>4, <2>5, FlushTxFrame
<1>15. QED
  BY <1>7, <1>8, <1>9, <1>10, <1>11, <1>12, <1>13, <1>14 DEF Flush

\* The host takes the packet.
LEMMA HostInTx ==
  ASSUME ~QuickHost, TypeInv, InInv, ToggleInv, TxInv, HostIn
  PROVE  TxInv'
<1>0. TypeOK
  BY DEF TypeInv
<1>1. /\ host.ready /\ epIn.avail /\ ~InWindow
      /\ UNCHANGED <<tx, wrote, pc, reg>>
  BY DEF HostIn, fifos, code, history
<1>2. ~epIn'.avail /\ epIn'.data = epIn.data
  BY <1>0 DEF HostIn, TypeOK, Endpoint
<1>3. epIn.pid = host.inPid
  BY <1>0, <1>1 DEF ToggleInv, InToggle, TypeOK, Host
<1>4. host'.got = host.got \o Payload(epIn)
  BY <1>0, <1>3 DEF HostIn, TypeOK, Host
<1>5. \A c \in Code : pc[c] \notin Filling
  BY <1>1 DEF InInv
<1>6. InFlight = epIn.len /\ InFlight' = 0
  BY <1>1, <1>2, <1>5 DEF InFlight, Filling, Code
<1> DEFINE p == Payload(epIn)
           g == host.got
<1>7. /\ p \in Seq(Byte) /\ Len(p) = epIn.len
      /\ \A i \in 1 .. epIn.len : p[i] = epIn.data[i]
  BY <1>0, PayloadIn
<1>8. g \in Seq(Byte) /\ Len(g) \in Nat /\ epIn.len \in Nat
  BY <1>0, TxTypes, SizeAssumption
<1>9. /\ Len(g \o p) = Len(g) + Len(p)
      /\ \A i \in 1 .. Len(g) + Len(p) :
           (g \o p)[i] = IF i <= Len(g) THEN g[i] ELSE p[i - Len(g)]
  BY <1>7, <1>8, ConcatProperties
<1>10. /\ \A i \in 1 .. Len(g) : g[i] = i
       /\ \A i \in 1 .. epIn.len : epIn.data[i] = Len(g) + i
  BY <1>6 DEF TxInv, PacketInv
<1> HIDE DEF p, g
<1>11. \A i \in 1 .. Len(g) + epIn.len : (g \o p)[i] = i
  <2> SUFFICES ASSUME NEW i \in 1 .. Len(g) + epIn.len
               PROVE  (g \o p)[i] = i
    OBVIOUS
  <2>1. CASE i <= Len(g)
    BY <1>7, <1>8, <1>9, <1>10, <2>1
  <2>2. CASE i > Len(g)
    <3>1. i - Len(g) \in 1 .. epIn.len
      BY <1>8, <2>2
    <3>2. (g \o p)[i] = p[i - Len(g)]
      BY <1>7, <1>8, <1>9, <2>2
    <3>3. p[i - Len(g)] = Len(g) + (i - Len(g))
      BY <1>7, <1>10, <3>1
    <3>4. QED
      BY <1>8, <3>2, <3>3
  <2>3. i <= Len(g) \/ i > Len(g)
    BY <1>8
  <2>4. QED
    BY <2>1, <2>2, <2>3
<1>12. host'.got = g \o p /\ Len(host'.got) = Len(g) + epIn.len
  BY <1>4, <1>7, <1>9 DEF p, g
<1>13. PacketInv'
  BY <1>6, <1>11, <1>12 DEF PacketInv
<1>14. Shipped' = Shipped
  BY <1>6, <1>8, <1>12 DEF Shipped, g
<1>15. TxRingInv'
  BY <1>1, <1>14 DEF TxInv, TxRingInv
<1>16. (\A c \in Code : CopyInv(c)') /\ PutInv'
  BY <1>1, <1>5 DEF TxInv, CopyInv, PutInv, Filling
<1>17. QED
  BY <1>13, <1>15, <1>16 DEF TxInv

-----------------------------------------------------------------------------
(* The bytes from the host.                                                *)

\* A packet waits in the buffer until the drain; what came before it is
\* settled: read, held in the ring or dropped.
Waiting == "out" \in buffStatus /\ pc["isr"] \notin {"rearm", "outAck"}
Settled == IF Waiting THEN host.sent - epOut.len ELSE host.sent

\* A slot of the RX ring that holds a byte.
HeldAt(s) == Dist(rx.head, s) < Dist(rx.head, rx.tail)

\* The bytes cdc_getc has returned and taken out of the ring.
NRead == IF pc["thread"] = "getStore" THEN Len(got) - 1 ELSE Len(got)

WaitingInv ==
  /\ Settled >= 0
  /\ Waiting => \A k \in 1 .. epOut.len : epOut.data[k] = Settled + k
\* What was read comes before what is held, each in order, and both before
\* what waits.
OrderInv ==
  /\ \A i \in 1 .. NRead : got[i] \in 1 .. Settled
  /\ \A i, j \in 1 .. NRead : i < j => got[i] < got[j]
  /\ \A s \in Slot : HeldAt(s) => rx.buf[s] \in 1 .. Settled
  /\ \A s, t \in Slot : HeldAt(t) /\ Dist(rx.head, s) < Dist(rx.head, t)
                          => rx.buf[s] < rx.buf[t]
  /\ \A i \in 1 .. NRead : \A s \in Slot : HeldAt(s) => got[i] < rx.buf[s]
\* Nothing settled is missing but what was dropped.
CoverInv ==
  /\ dropped \subseteq 1 .. Settled
  /\ \A n \in 1 .. Settled :
       \/ n \in dropped
       \/ \E i \in 1 .. NRead : got[i] = n
       \/ \E s \in Slot : HeldAt(s) /\ rx.buf[s] = n
\* cdc_getc works on the oldest byte, which the drain leaves in its place.
GetInv ==
  /\ pc["thread"] \in {"getLoad", "getStore"} =>
       reg["thread"].head = rx.head /\ rx.head # rx.tail
  /\ pc["thread"] = "getStore" =>
       Len(got) > 0 /\ got[Len(got)] = rx.buf[rx.head]

RxInv == WaitingInv /\ OrderInv /\ CoverInv /\ GetInv

LEMMA RxInit == Init => RxInv
<1> SUFFICES ASSUME Init PROVE RxInv
  OBVIOUS
<1>1. /\ pc["thread"] = "ready" /\ buffStatus = {} /\ host.sent = 0
      /\ rx.head = 0 /\ rx.tail = 0 /\ got = << >> /\ dropped = {}
  BY DEF Init, EmptyRing
<1>2. Dist(rx.head, rx.tail) = 0
  BY <1>1, DistSteps, SizeAssumption DEF Slot
<1>3. NRead = 0 /\ ~Waiting /\ Settled = 0
  BY <1>1, EmptySeq DEF NRead, Waiting, Settled
<1>4. \A s \in Slot : ~HeldAt(s)
  <2>1. 0 \in Slot
    BY SizeAssumption DEF Slot
  <2>2. \A s \in Slot : Dist(rx.head, s) \in Slot
    BY <1>1, <2>1, DistValue
  <2>3. QED
    BY <1>2, <2>2 DEF HeldAt, Slot
<1>5. WaitingInv /\ CoverInv /\ GetInv
  BY <1>1, <1>3 DEF WaitingInv, CoverInv, GetInv
<1>6. OrderInv
  BY <1>3, <1>4 DEF OrderInv
<1>7. QED
  BY <1>5, <1>6 DEF RxInv

\* Steps that move no byte.
LEMMA RxFrame ==
  ASSUME RxInv, UNCHANGED <<rx, got, dropped>>,
         NRead' = NRead, Settled' = Settled,
         Waiting' => Waiting /\ UNCHANGED epOut,
         GetInv'
  PROVE  RxInv'
<1>1. \A s \in Slot : HeldAt(s)' <=> HeldAt(s)
  BY DEF HeldAt
<1>2. WaitingInv'
  BY DEF RxInv, WaitingInv
<1>3. OrderInv'
  BY <1>1 DEF RxInv, OrderInv
<1>4. CoverInv'
  BY <1>1 DEF RxInv, CoverInv
<1>5. QED
  BY <1>2, <1>3, <1>4 DEF RxInv

LEMMA RxTypes ==
  ASSUME TypeOK
  PROVE  /\ rx.head \in Slot /\ rx.tail \in Slot
         /\ Dist(rx.head, rx.tail) \in Slot
         /\ \A s \in Slot : Dist(rx.head, s) \in Slot
         /\ epOut.len \in 0 .. MaxPacket /\ epOut.len \in Nat
         /\ host.sent \in Nat /\ got \in Seq(Byte) /\ Len(got) \in Nat
         /\ Settled \in Int
         /\ \A i \in 1 .. Len(got) : got[i] \in Byte
         /\ \A s \in Slot : rx.buf[s] \in Byte
<1>1. /\ rx.head \in Slot /\ rx.tail \in Slot
      /\ \A s \in Slot : rx.buf[s] \in Byte
  BY DEF TypeOK, Ring
<1>2. \A s \in Slot : Dist(rx.head, s) \in Slot
  BY <1>1, DistValue
<1>3. epOut.len \in 0 .. MaxPacket /\ epOut.len \in Nat
  BY SizeAssumption DEF TypeOK, Endpoint
<1>4. host.sent \in Nat
  BY BoundAssumption DEF TypeOK, Host
<1>5. Settled \in Int
  BY <1>3, <1>4 DEF Settled
<1>6. got \in Seq(Byte)
  BY DEF TypeOK
<1>7. Len(got) \in Nat /\ \A i \in 1 .. Len(got) : got[i] \in Byte
  BY <1>6, LenProperties, ElementOfSeq
<1>8. QED
  BY <1>1, <1>2, <1>3, <1>4, <1>5, <1>6, <1>7

\* cdc_getc moves the oldest byte of the ring to the end of what was read.
LEMMA GetRx ==
  ASSUME TypeInv, RxInv, GetCheck \/ GetLoad \/ GetStore
  PROVE  RxInv'
<1>0. TypeOK /\ "thread" \in Code
  BY DEF TypeInv, Code
<1>1. UNCHANGED <<epOut, buffStatus, host, dropped>> /\ pc'["isr"] = pc["isr"]
  BY <1>0, ThreadFrame
<1>2. Waiting' = Waiting /\ Settled' = Settled /\ UNCHANGED epOut
  BY <1>1 DEF Waiting, Settled
<1>3. CASE GetCheck
  <2>1. /\ pc["thread"] = "ready" /\ pc'["thread"] = "getLoad"
        /\ UNCHANGED <<rx, got>> /\ rx.head # rx.tail
    BY <1>0, <1>3, GotoThread DEF GetCheck, At, fifos, history, ThreadPlace
  <2>2. reg'["thread"].head = rx.head
    BY <1>0, <1>3 DEF GetCheck, SetReg, NoReg, TypeOK
  <2>3. NRead' = NRead /\ GetInv'
    BY <2>1, <2>2 DEF NRead, GetInv
  <2>4. QED
    BY <1>1, <1>2, <2>1, <2>3, RxFrame
<1>4. CASE GetLoad
  <2>1. /\ pc["thread"] = "getLoad" /\ pc'["thread"] = "getStore"
        /\ UNCHANGED <<rx, reg>>
        /\ got' = Append(got, rx.buf[reg["thread"].head])
    BY <1>0, <1>4, GotoThread DEF GetLoad, At, fifos, ThreadPlace
  <2>2. reg["thread"].head = rx.head /\ rx.head # rx.tail
    BY <2>1 DEF RxInv, GetInv
  <2>3. rx.buf[rx.head] \in Byte /\ got \in Seq(Byte) /\ Len(got) \in Nat
    BY <1>0, RxTypes
  <2>4. /\ Len(got') = Len(got) + 1
        /\ \A i \in 1 .. Len(got) : got'[i] = got[i]
        /\ got'[Len(got) + 1] = rx.buf[rx.head]
    BY <2>1, <2>2, <2>3, AppendProperties
  <2>5. NRead = Len(got) /\ NRead' = NRead
    BY <2>1, <2>3, <2>4 DEF NRead
  <2>6. \A s \in Slot : HeldAt(s)' <=> HeldAt(s)
    BY <2>1 DEF HeldAt
  <2>7. WaitingInv'
    BY <1>2 DEF RxInv, WaitingInv
  <2>8. OrderInv'
    BY <1>2, <2>1, <2>4, <2>5, <2>6 DEF RxInv, OrderInv
  <2>9. CoverInv'
    BY <1>1, <1>2, <2>1, <2>4, <2>5, <2>6 DEF RxInv, CoverInv
  <2>10. GetInv'
    BY <2>1, <2>2, <2>3, <2>4 DEF GetInv
  <2>11. QED
    BY <2>7, <2>8, <2>9, <2>10 DEF RxInv
<1>5. CASE GetStore
  <2> DEFINE h == rx.head
             D == Dist(h, rx.tail)
  <2>1. /\ pc["thread"] = "getStore" /\ pc'["thread"] = "ready"
        /\ got' = got
    BY <1>0, <1>5, GotoThread DEF GetStore, At, history, ThreadPlace
  <2>2. /\ reg["thread"].head = h /\ h # rx.tail
        /\ Len(got) > 0 /\ got[Len(got)] = rx.buf[h]
    BY <2>1 DEF RxInv, GetInv
  <2>3. rx'.head = After(h) /\ rx'.tail = rx.tail /\ rx'.buf = rx.buf
    BY <1>0, <1>5, <2>2 DEF GetStore, TypeOK, Ring
  <2>4. /\ h \in Slot /\ rx.tail \in Slot /\ D \in Slot /\ Len(got) \in Nat
        /\ \A s \in Slot : Dist(h, s) \in Slot
        /\ \A s \in Slot : Dist(After(h), s) \in Slot
    BY <1>0, RxTypes, AfterValue, DistValue
  <2>5. /\ Dist(After(h), rx.tail) = D - 1 /\ D # 0 /\ Dist(h, h) = 0
        /\ \A s \in Slot \ {h} : Dist(After(h), s) = Dist(h, s) - 1
    BY <2>2, <2>4, DistSteps
  <2>6. Dist(After(h), h) = RingSize - 1
    <3>1. After(h) \in Slot /\ After(h) = IF h = RingSize - 1 THEN 0 ELSE h + 1
      BY <2>4, AfterValue
    <3>2. Dist(After(h), h) = IF h >= After(h) THEN h - After(h)
                                               ELSE h - After(h) + RingSize
      BY <2>4, <3>1, DistValue
    <3>3. h \in Int /\ 0 <= h /\ h < RingSize
      BY <2>4, SlotInt
    <3>4. QED
      BY <3>1, <3>2, <3>3, SizeAssumption
  <2>7. \A s \in Slot : /\ HeldAt(s)' <=> HeldAt(s) /\ s # h
                        /\ HeldAt(h)
    <3>1. \A x \in Slot : x \in Int /\ 0 <= x /\ x < RingSize
      BY SizeAssumption DEF Slot
    <3>2. TAKE s \in Slot
    <3>3. HeldAt(s)' <=> Dist(After(h), s) < D - 1
      BY <2>3, <2>5 DEF HeldAt
    <3>4. HeldAt(s) <=> Dist(h, s) < D
      BY DEF HeldAt
    <3>5. HeldAt(h)
      BY <2>4, <2>5, <3>1 DEF HeldAt
    <3>6. CASE s = h
      BY <2>4, <2>6, <3>1, <3>3, <3>5, <3>6, SizeAssumption
    <3>7. CASE s # h
      BY <2>4, <2>5, <3>1, <3>3, <3>4, <3>5, <3>7
    <3>8. QED
      BY <3>6, <3>7
  <2>8. NRead = Len(got) - 1 /\ NRead' = Len(got)
    BY <2>1 DEF NRead
  <2>9. \A i \in 1 .. Len(got) : i \in 1 .. NRead \/ i = Len(got)
    BY <2>4, <2>8
  <2>10. OrderInv'
    <3>1. \A i \in 1 .. Len(got) : got[i] \in 1 .. Settled
      BY <2>2, <2>4, <2>7, <2>9 DEF RxInv, OrderInv
    <3>2. \A i, j \in 1 .. Len(got) : i < j => got[i] < got[j]
      <4> SUFFICES ASSUME NEW i \in 1 .. Len(got), NEW j \in 1 .. Len(got),
                          i < j
                   PROVE  got[i] < got[j]
        OBVIOUS
      <4>1. i \in 1 .. NRead
        BY <2>4, <2>8
      <4>2. CASE j \in 1 .. NRead
        BY <4>1, <4>2 DEF RxInv, OrderInv
      <4>3. CASE j = Len(got)
        BY <2>2, <2>4, <2>7, <4>1, <4>3 DEF RxInv, OrderInv
      <4>4. QED
        BY <2>9, <4>2, <4>3
    <3>3. \A s \in Slot : HeldAt(s)' => rx'.buf[s] \in 1 .. Settled
      BY <2>3, <2>7 DEF RxInv, OrderInv
    <3>4. ASSUME NEW s \in Slot, NEW t \in Slot, HeldAt(t)',
                 Dist(rx'.head, s) < Dist(rx'.head, t)
          PROVE  rx'.buf[s] < rx'.buf[t]
      <4>1. HeldAt(t) /\ t # h
        BY <2>7, <3>4
      <4>2. s # h
        <5>1. \A x \in Slot : x \in Int /\ x < RingSize
          BY SizeAssumption DEF Slot
        <5>2. QED
          BY <2>3, <2>4, <2>6, <3>4, <5>1, SizeAssumption
      <4>3. Dist(h, s) < Dist(h, t)
        <5>1. Dist(h, s) \in Int /\ Dist(h, t) \in Int
          BY <2>4 DEF Slot
        <5>2. QED
          BY <2>3, <2>5, <3>4, <4>1, <4>2, <5>1
      <4>4. QED
        BY <2>3, <4>1, <4>3 DEF RxInv, OrderInv
    <3>5. ASSUME NEW i \in 1 .. Len(got), NEW s \in Slot, HeldAt(s)'
          PROVE  got[i] < rx'.buf[s]
      <4>1. HeldAt(s) /\ s # h
        BY <2>7, <3>5
      <4>2. CASE i \in 1 .. NRead
        BY <2>3, <4>1, <4>2 DEF RxInv, OrderInv
      <4>3. CASE i = Len(got)
        <5>1. Dist(h, h) < Dist(h, s)
          <6>1. Dist(h, s) \in Int /\ Dist(h, s) >= 0
            BY <2>4 DEF Slot
          <6>2. Dist(h, s) # 0
            BY <2>4, <4>1, DistSteps
          <6>3. QED
            BY <2>5, <6>1, <6>2
        <5>2. rx.buf[h] < rx.buf[s]
          BY <2>4, <4>1, <5>1 DEF RxInv, OrderInv
        <5>3. QED
          BY <2>2, <2>3, <4>3, <5>2
      <4>4. QED
        BY <2>9, <4>2, <4>3
    <3>6. QED
      BY <1>2, <2>1, <2>8, <3>1, <3>2, <3>3, <3>4, <3>5 DEF OrderInv
  <2>11. CoverInv'
    <3>1. dropped' \subseteq 1 .. Settled'
      BY <1>1, <1>2 DEF RxInv, CoverInv
    <3>2. ASSUME NEW n \in 1 .. Settled, n \notin dropped
          PROVE  \/ \E i \in 1 .. Len(got) : got[i] = n
                 \/ \E s \in Slot : HeldAt(s)' /\ rx'.buf[s] = n
      <4>1. CASE \E i \in 1 .. NRead : got[i] = n
        BY <2>4, <2>8, <4>1
      <4>2. CASE \E s \in Slot : HeldAt(s) /\ rx.buf[s] = n
        <5>1. PICK s \in Slot : HeldAt(s) /\ rx.buf[s] = n
          BY <4>2
        <5>2. CASE s = h
          BY <2>2, <2>4, <5>1, <5>2
        <5>3. CASE s # h
          BY <2>3, <2>7, <5>1, <5>3
        <5>4. QED
          BY <5>2, <5>3
      <4>3. QED
        BY <3>2, <4>1, <4>2 DEF RxInv, CoverInv
    <3>3. QED
      BY <1>1, <1>2, <2>1, <2>8, <3>1, <3>2 DEF CoverInv
  <2>12. WaitingInv' /\ GetInv'
    BY <1>2, <2>1 DEF RxInv, WaitingInv, GetInv
  <2>13. QED
    BY <2>10, <2>11, <2>12 DEF RxInv
<1>6. QED
  BY <1>3, <1>4, <1>5

\* _cdc_drain_ep1_out: what it leaves in the ring.
LEMMA DrainShape ==
  ASSUME TypeOK, IsrDrain
  PROVE  LET D == Dist(rx.head, rx.tail) IN
         /\ rx'.head = rx.head /\ Dist(rx'.head, rx'.tail) = D + Drained
         /\ \A s \in Slot : Dist(rx.head, s) < D => rx'.buf[s] = rx.buf[s]
         /\ \A s \in Slot : D <= Dist(rx.head, s)
                              /\ Dist(rx.head, s) < D + Drained
              => rx'.buf[s] = epOut.data[Dist(rx.head, s) - D + 1]
<1> DEFINE h == rx.head
           t == rx.tail
           D == Dist(h, t)
           m == Drained
<1>1. h \in Slot /\ t \in Slot /\ D \in Slot
      /\ \A s \in Slot : Dist(h, s) \in Slot /\ Dist(t, s) \in Slot
  BY RxTypes, DistValue
<1>2. m \in 0 .. MaxPacket /\ m \in Nat /\ m <= RingSize - 1 - D
  <2>1. Drained \in 0 .. MaxPacket /\ Drained <= Free(rx)
    BY DrainedValue
  <2>2. Free(rx) = RingSize - 1 - D
    BY FreeValue DEF TypeOK
  <2>3. QED
    BY <2>1, <2>2, SizeAssumption
<1>3. /\ rx'.head = h /\ rx'.tail = (t + m) % RingSize
      /\ rx'.buf = [i \in Slot |->
                      LET k == ((i - t) % RingSize) + 1
                      IN  IF k <= m THEN epOut.data[k] ELSE rx.buf[i]]
  BY DEF IsrDrain, TypeOK, Ring
<1>4. \A s \in Slot : rx'.buf[s] = IF Dist(t, s) + 1 <= m
                                   THEN epOut.data[Dist(t, s) + 1]
                                   ELSE rx.buf[s]
  BY <1>3 DEF Dist
<1> HIDE DEF h, t, m
<1>5. t + m \in Int /\ -RingSize <= t + m /\ t + m < 2 * RingSize
  BY <1>1, <1>2, SizeAssumption DEF Slot
<1>6. (t + m) % RingSize = IF t + m < RingSize THEN t + m
                                               ELSE t + m - RingSize
  <2>1. /\ t \in Int /\ m \in Int
        /\ 0 <= t + m /\ t + m < 2 * RingSize
    BY <1>1, <1>2, <1>5, SlotInt
  <2>2. QED
    BY <2>1, WrapSum
<1>7. D = IF t >= h THEN t - h ELSE t - h + RingSize
  BY <1>1, DistValue
<1>8. Dist(rx'.head, rx'.tail) = D + m
  <2>1. rx'.tail \in Slot
    BY <1>1, <1>2, <1>3, <1>6, SizeAssumption DEF Slot
  <2>2. Dist(h, rx'.tail) = IF rx'.tail >= h THEN rx'.tail - h
                                             ELSE rx'.tail - h + RingSize
    BY <1>1, <2>1, DistValue
  <2>3. h \in Int /\ t \in Int /\ h >= 0 /\ t >= 0 /\ h < RingSize
        /\ t < RingSize /\ RingSize \in Int
    BY <1>1, SizeAssumption DEF Slot
  <2>4. QED
    BY <1>2, <1>3, <1>6, <1>7, <2>2, <2>3
<1> HIDE DEF D
<1>9. \A s \in Slot : /\ Dist(h, s) < D
                           => Dist(t, s) = Dist(h, s) - D + RingSize
                      /\ Dist(h, s) >= D => Dist(t, s) = Dist(h, s) - D
  <2> SUFFICES ASSUME NEW s \in Slot
               PROVE  /\ Dist(h, s) < D
                           => Dist(t, s) = Dist(h, s) - D + RingSize
                      /\ Dist(h, s) >= D => Dist(t, s) = Dist(h, s) - D
    OBVIOUS
  <2>1. /\ Dist(h, s) = IF s >= h THEN s - h ELSE s - h + RingSize
        /\ Dist(t, s) = IF s >= t THEN s - t ELSE s - t + RingSize
    BY <1>1, DistValue
  <2>2. /\ h \in Int /\ t \in Int /\ s \in Int /\ h >= 0 /\ t >= 0 /\ s >= 0
        /\ h < RingSize /\ t < RingSize /\ s < RingSize /\ RingSize \in Int
    BY <1>1, SizeAssumption DEF Slot
  <2>3. QED
    BY <1>7, <2>1, <2>2
<1>10. \A x \in Slot : x \in Int /\ 0 <= x /\ x < RingSize
  BY SizeAssumption DEF Slot
<1>11. \A s \in Slot : Dist(h, s) < D => rx'.buf[s] = rx.buf[s]
  BY <1>1, <1>2, <1>4, <1>9, <1>10, SizeAssumption
<1>12. \A s \in Slot : D <= Dist(h, s) /\ Dist(h, s) < D + m
         => rx'.buf[s] = epOut.data[Dist(h, s) - D + 1]
  BY <1>1, <1>2, <1>4, <1>9, <1>10, SizeAssumption
<1>13. QED
  BY <1>3, <1>8, <1>11, <1>12 DEF h, t, m, D

\* Every distance below the ring's size is that of a slot.
LEMMA SlotOf ==
  ASSUME NEW a \in Slot, NEW k \in Slot
  PROVE  (a + k) % RingSize \in Slot /\ Dist(a, (a + k) % RingSize) = k
<1>1. /\ a \in Int /\ k \in Int /\ 0 <= a /\ 0 <= k /\ a < RingSize
      /\ k < RingSize
  BY SizeAssumption DEF Slot
<1>2. a + k \in Int /\ -RingSize <= a + k /\ a + k < 2 * RingSize
  BY <1>1, SizeAssumption
<1> DEFINE s == (a + k) % RingSize
<1>3. s = IF a + k < RingSize THEN a + k ELSE a + k - RingSize
  <2>1. /\ a \in Int /\ k \in Int
        /\ 0 <= a + k /\ a + k < 2 * RingSize
    BY <1>1, <1>2
  <2>2. QED
    BY <2>1, WrapSum
<1> HIDE DEF s
<1>4. s \in Slot
  BY <1>1, <1>3, SizeAssumption DEF Slot
<1>5. Dist(a, s) = IF s >= a THEN s - a ELSE s - a + RingSize
  BY <1>4, DistValue
<1>6. Dist(a, s) = k
  BY <1>1, <1>3, <1>5, SizeAssumption
<1>7. QED
  BY <1>4, <1>6 DEF s

\* The drain moves the first bytes of the packet to the end of the ring and
\* drops the others.
LEMMA DrainRx ==
  ASSUME TypeInv, OutInv, RxInv, IsrDrain
  PROVE  RxInv'
<1>0. TypeOK
  BY DEF TypeInv
<1> DEFINE h == rx.head
           D == Dist(h, rx.tail)
           m == Drained
           len == epOut.len
           old == Settled
<1>1. /\ pc["isr"] = "dispatch" /\ pc'["isr"] = "rearm"
      /\ pc'["thread"] = pc["thread"] /\ todo = {"out"}
      /\ UNCHANGED <<epOut, buffStatus, reg, host, got>>
  BY <1>0, GotoIsr DEF IsrDrain, At, endpoints, IsrPlace
<1>2. Waiting /\ ~Waiting'
  BY <1>1 DEF OutInv, Waiting
<1>3. old = host.sent - len /\ Settled' = host.sent
  BY <1>1, <1>2 DEF Settled
<1>4. /\ old >= 0 /\ old \in Int /\ len \in Nat
      /\ \A k \in 1 .. len : epOut.data[k] = old + k
      /\ h \in Slot /\ D \in Slot /\ \A s \in Slot : Dist(h, s) \in Slot
      /\ Len(got) \in Nat
      /\ \A i \in 1 .. Len(got) : got[i] \in Byte
      /\ \A s \in Slot : rx.buf[s] \in Byte
  BY <1>0, <1>2, RxTypes DEF RxInv, WaitingInv
<1>5. m \in Nat /\ m <= len /\ m <= RingSize - 1 - D
  <2>1. /\ Drained \in 0 .. MaxPacket
        /\ Drained <= epOut.len /\ Drained <= Free(rx)
    BY <1>0, DrainedValue
  <2>2. Free(rx) = RingSize - 1 - D
    BY <1>0, FreeValue DEF TypeOK
  <2>3. QED
    BY <2>1, <2>2, SizeAssumption
<1>6. /\ rx'.head = h /\ Dist(rx'.head, rx'.tail) = D + m
      /\ \A s \in Slot : Dist(h, s) < D => rx'.buf[s] = rx.buf[s]
      /\ \A s \in Slot : D <= Dist(h, s) /\ Dist(h, s) < D + m
                           => rx'.buf[s] = epOut.data[Dist(h, s) - D + 1]
  BY <1>0, DrainShape
<1>7. dropped' = dropped \cup {epOut.data[k] : k \in m + 1 .. len}
  BY DEF IsrDrain
<1>8. NRead' = NRead /\ NRead <= Len(got) /\ NRead \in Int
  BY <1>1, <1>4 DEF NRead
<1>9. \A s \in Slot : /\ HeldAt(s) <=> Dist(h, s) < D
                      /\ HeldAt(s)' <=> Dist(h, s) < D + m
  BY <1>6 DEF HeldAt
<1>10. Settled' = old + len
  BY <1>0, <1>3, <1>4, RxTypes
<1>11. \A x \in Slot : x \in Int /\ 0 <= x /\ x < RingSize
  BY SizeAssumption DEF Slot
<1> HIDE DEF m, old, len
\* A slot held now holds an old byte, or the one of the packet that its
\* distance says.
<1>12. ASSUME NEW s \in Slot, HeldAt(s)'
       PROVE  \/ HeldAt(s) /\ rx'.buf[s] = rx.buf[s]
              \/ /\ Dist(h, s) >= D
                 /\ rx'.buf[s] = old + (Dist(h, s) - D + 1)
  <2>1. Dist(h, s) < D + m /\ Dist(h, s) \in Int /\ D \in Int
    BY <1>4, <1>9, <1>11, <1>12
  <2>2. CASE Dist(h, s) < D
    BY <1>6, <1>9, <2>2
  <2>3. CASE Dist(h, s) >= D
    <3>1. Dist(h, s) - D + 1 \in 1 .. len
      BY <1>4, <1>5, <2>1, <2>3
    <3>2. QED
      BY <1>4, <1>6, <2>1, <2>3, <3>1
  <2>4. QED
    BY <2>1, <2>2, <2>3
<1>13. WaitingInv'
  BY <1>2, <1>4, <1>10 DEF WaitingInv
<1>14. OrderInv'
  <2>1. \A i \in 1 .. NRead : got[i] \in 1 .. Settled'
    BY <1>4, <1>10 DEF RxInv, OrderInv, old
  <2>2. \A i, j \in 1 .. NRead : i < j => got[i] < got[j]
    BY DEF RxInv, OrderInv
  <2>3. ASSUME NEW s \in Slot, HeldAt(s)'
        PROVE  /\ rx'.buf[s] \in 1 .. Settled'
               /\ Dist(h, s) >= D => rx'.buf[s] > old
    <3>1. CASE HeldAt(s) /\ rx'.buf[s] = rx.buf[s]
      <4>1. rx.buf[s] \in 1 .. old
        BY <3>1 DEF RxInv, OrderInv, old
      <4>2. ~(Dist(h, s) >= D)
        BY <1>4, <1>9, <1>11, <3>1
      <4>3. QED
        BY <1>4, <1>10, <3>1, <4>1, <4>2
    <3>2. CASE Dist(h, s) >= D /\ rx'.buf[s] = old + (Dist(h, s) - D + 1)
      <4>1. Dist(h, s) < D + m /\ Dist(h, s) \in Int /\ D \in Int
        BY <1>4, <1>9, <1>11, <2>3
      <4>2. QED
        BY <1>4, <1>5, <1>10, <3>2, <4>1
    <3>3. QED
      BY <1>12, <2>3, <3>1, <3>2
  <2>4. ASSUME NEW s \in Slot, NEW t \in Slot, HeldAt(t)',
               Dist(h, s) < Dist(h, t)
        PROVE  rx'.buf[s] < rx'.buf[t]
    <3>1. /\ Dist(h, s) \in Int /\ Dist(h, t) \in Int /\ D \in Int
          /\ Dist(h, t) < D + m
      BY <1>4, <1>9, <1>11, <2>4
    <3>2. HeldAt(s)'
      BY <1>5, <1>9, <2>4, <3>1
    <3>3. CASE Dist(h, t) < D
      <4>1. HeldAt(s) /\ HeldAt(t)
        BY <1>9, <2>4, <3>1, <3>3
      <4>2. rx'.buf[s] = rx.buf[s] /\ rx'.buf[t] = rx.buf[t]
        BY <1>6, <1>9, <4>1
      <4>3. QED
        BY <2>4, <4>1, <4>2 DEF RxInv, OrderInv
    <3>4. CASE Dist(h, t) >= D
      <4>1. rx'.buf[t] = old + (Dist(h, t) - D + 1)
        BY <1>9, <1>12, <2>4, <3>1, <3>4
      <4>2. CASE Dist(h, s) < D
        <5>1. rx'.buf[s] \in 1 .. old
          BY <1>6, <1>9, <4>2 DEF RxInv, OrderInv, old
        <5>2. QED
          BY <1>4, <3>1, <3>4, <4>1, <5>1
      <4>3. CASE Dist(h, s) >= D
        <5>1. rx'.buf[s] = old + (Dist(h, s) - D + 1)
          BY <1>9, <1>12, <3>1, <3>2, <4>3
        <5>2. QED
          BY <1>4, <2>4, <3>1, <4>1, <5>1
      <4>4. QED
        BY <3>1, <4>2, <4>3
    <3>5. QED
      BY <3>1, <3>3, <3>4
  <2>5. ASSUME NEW i \in 1 .. NRead, NEW s \in Slot, HeldAt(s)'
        PROVE  got[i] < rx'.buf[s]
    <3>1. CASE HeldAt(s) /\ rx'.buf[s] = rx.buf[s]
      BY <3>1 DEF RxInv, OrderInv
    <3>2. CASE Dist(h, s) >= D
      <4>1. rx'.buf[s] > old /\ rx'.buf[s] \in Int
        BY <2>3, <2>5, <3>2
      <4>2. got[i] \in 1 .. old
        BY DEF RxInv, OrderInv, old
      <4>3. QED
        BY <1>4, <4>1, <4>2
    <3>3. QED
      BY <1>12, <2>5, <3>1, <3>2
  <2>6. QED
    BY <1>1, <1>6, <1>8, <2>1, <2>2, <2>3, <2>4, <2>5 DEF OrderInv
<1>15. CoverInv'
  <2>1. \A k \in m + 1 .. len : epOut.data[k] = old + k
    BY <1>4, <1>5
  <2>2. dropped' \subseteq 1 .. Settled'
    <3>1. dropped \subseteq 1 .. old
      BY DEF RxInv, CoverInv, old
    <3>2. \A k \in m + 1 .. len : epOut.data[k] \in 1 .. old + len
      BY <1>4, <1>5, <2>1
    <3>3. 1 .. old \subseteq 1 .. old + len
      BY <1>4
    <3>4. QED
      BY <1>7, <1>10, <3>1, <3>2, <3>3
  <2>3. ASSUME NEW n \in 1 .. Settled', n \notin dropped'
        PROVE  \/ \E i \in 1 .. NRead : got[i] = n
               \/ \E s \in Slot : HeldAt(s)' /\ rx'.buf[s] = n
    <3>1. CASE n <= old
      <4>1. n \in 1 .. old /\ n \notin dropped
        BY <1>4, <1>7, <2>3, <3>1
      <4>2. \/ \E i \in 1 .. NRead : got[i] = n
            \/ \E s \in Slot : HeldAt(s) /\ rx.buf[s] = n
        BY <4>1 DEF RxInv, CoverInv, old
      <4>3. \A s \in Slot : HeldAt(s) => HeldAt(s)' /\ rx'.buf[s] = rx.buf[s]
        BY <1>4, <1>5, <1>6, <1>9, <1>11
      <4>4. QED
        BY <4>2, <4>3
    <3>2. CASE n > old
      <4>1. n - old \in 1 .. len
        BY <1>4, <1>10, <3>2
      <4>2. n - old <= m
        <5>1. SUFFICES ASSUME ~(n - old <= m) PROVE FALSE
          OBVIOUS
        <5>2. n - old \in m + 1 .. len
          BY <1>4, <1>5, <4>1, <5>1
        <5>3. epOut.data[n - old] = n
          BY <1>4, <2>1, <5>2
        <5>4. QED
          BY <1>7, <2>3, <5>2, <5>3
      <4>3. D + (n - old) - 1 \in Slot
        <5>1. D \in Int /\ 0 <= D
          BY <1>4, <1>11
        <5>2. QED
          BY <1>4, <1>5, <4>1, <4>2, <5>1, SlotInt
      <4>4. PICK s \in Slot : Dist(h, s) = D + (n - old) - 1
        BY <1>4, <4>3, SlotOf
      <4>5. D \in Int
        BY <1>4, <1>11
      <4>6. HeldAt(s)' /\ Dist(h, s) >= D
        BY <1>4, <1>5, <1>9, <4>1, <4>2, <4>4, <4>5
      <4>7. ~HeldAt(s)
        BY <1>9, <4>1, <4>4, <4>5, <1>4
      <4>8. rx'.buf[s] = old + (Dist(h, s) - D + 1)
        BY <1>12, <4>6, <4>7
      <4>9. rx'.buf[s] = n
        BY <1>4, <4>1, <4>4, <4>5, <4>8
      <4>10. QED
        BY <4>6, <4>9
    <3>3. QED
      BY <1>4, <3>1, <3>2
  <2>4. QED
    BY <1>1, <1>8, <2>2, <2>3 DEF CoverInv
<1>16. GetInv'
  <2>1. CASE pc["thread"] \in {"getLoad", "getStore"}
    <3>1. /\ reg["thread"].head = h /\ h # rx.tail
          /\ pc["thread"] = "getStore" =>
               Len(got) > 0 /\ got[Len(got)] = rx.buf[h]
      BY <2>1 DEF RxInv, GetInv
    <3>2. D # 0 /\ Dist(h, h) = 0
      BY <1>0, <1>4, <3>1, DistSteps, RxTypes
    <3>3. rx'.buf[h] = rx.buf[h]
      BY <1>4, <1>6, <1>11, <3>2
    <3>4. rx'.head # rx'.tail
      <4>1. D + m # 0
        BY <1>4, <1>5, <1>11, <3>2
      <4>2. QED
        BY <1>6, <3>2, <4>1
    <3>5. QED
      BY <1>1, <1>6, <3>1, <3>3, <3>4 DEF GetInv
  <2>2. CASE pc["thread"] \notin {"getLoad", "getStore"}
    BY <1>1, <2>2 DEF GetInv
  <2>3. QED
    BY <2>1, <2>2
<1>17. QED
  BY <1>13, <1>14, <1>15, <1>16 DEF RxInv

\* The host's packet waits behind everything it sent before.
LEMMA HostOutRx ==
  ASSUME ~QuickHost, TypeInv, ToggleInv, RxInv, HostOut
  PROVE  RxInv'
<1>0. TypeOK
  BY DEF TypeInv
<1>1. PICK n \in 1 .. MaxPacket : HostSends(n)
  BY DEF HostOut, HostSends
<1>2. /\ epOut.avail /\ pc["isr"] # "outAck"
      /\ UNCHANGED <<rx, got, dropped, pc, reg>>
  BY DEF HostOut, OutWindow, fifos, code, history
<1>3. "out" \notin buffStatus /\ pc["isr"] # "rearm"
  BY <1>2 DEF ToggleInv, OutInv
<1>4. epOut.pid = host.outPid
  BY <1>0, <1>2 DEF ToggleInv, OutToggle, TypeOK, Host
<1>5. /\ host'.sent = host.sent + n /\ buffStatus' = buffStatus \cup {"out"}
      /\ epOut'.len = n
      /\ epOut'.data = [k \in 1 .. MaxPacket |->
                          IF k <= n THEN host.sent + k ELSE epOut.data[k]]
  BY <1>0, <1>1, <1>4 DEF HostSends, TypeOK, Host, Endpoint
<1>6. host.sent \in Nat /\ n \in Nat /\ n <= MaxPacket
  BY <1>0, RxTypes, SizeAssumption
<1>7. ~Waiting /\ Settled = host.sent
  BY <1>3 DEF Waiting, Settled
<1>8. Waiting' /\ Settled' = host.sent
  BY <1>2, <1>3, <1>5, <1>6 DEF Waiting, Settled
<1>9. \A k \in 1 .. n : epOut'.data[k] = host.sent + k
  BY <1>5, <1>6, SizeAssumption
<1>10. NRead' = NRead /\ \A s \in Slot : HeldAt(s)' <=> HeldAt(s)
  BY <1>2 DEF NRead, HeldAt
<1>11. WaitingInv'
  BY <1>5, <1>6, <1>8, <1>9 DEF WaitingInv
<1>12. OrderInv'
  BY <1>2, <1>7, <1>8, <1>10 DEF RxInv, OrderInv
<1>13. CoverInv'
  BY <1>2, <1>7, <1>8, <1>10 DEF RxInv, CoverInv
<1>14. GetInv'
  BY <1>2 DEF RxInv, GetInv
<1>15. QED
  BY <1>11, <1>12, <1>13, <1>14 DEF RxInv

LEMMA RxNext ==
  ASSUME ~QuickHost, ~Reconfigure, NoReset, TypeInv, InInv, ToggleInv, RxInv,
         [Next]_vars
  PROVE  RxInv'
<1>0. TypeOK
  BY DEF TypeInv
\* Most steps change nothing the invariant is about.
<1> DEFINE Still == /\ UNCHANGED <<rx, got, dropped, epOut>>
                    /\ host'.sent = host.sent
                    /\ Waiting' = Waiting
                    /\ pc'["thread"] = pc["thread"]
                       \/ {pc["thread"], pc'["thread"]}
                            \cap {"getLoad", "getStore"} = {}
                    /\ pc["thread"] \in {"getLoad", "getStore"}
                         => reg'["thread"] = reg["thread"]
<1>1. Still => RxInv'
  <2> SUFFICES ASSUME Still PROVE RxInv'
    OBVIOUS
  <2>1. NRead' = NRead /\ Settled' = Settled
    BY DEF NRead, Settled
  <2>2. GetInv'
    BY DEF RxInv, GetInv
  <2>3. QED
    BY <2>1, <2>2, RxFrame
<1> HIDE DEF Still
<1>2. CASE GetCheck \/ GetLoad \/ GetStore
  BY <1>2, GetRx
<1> USE DEF Still, Waiting, At, fifos, endpoints, history, code, IsrPlace,
            ThreadPlace
<1>3. CASE PutCheck
  BY <1>0, <1>1, <1>3, GotoThread DEF PutCheck
<1>4. CASE PutStore
  BY <1>0, <1>1, <1>4, GotoThread DEF PutStore
<1>5. CASE PutPublish
  BY <1>0, <1>1, <1>5, GotoThread DEF PutPublish
<1>6. ASSUME NEW c \in Code, Flush(c) PROVE RxInv'
  <2>1. UNCHANGED <<rx, got, dropped, epOut, host, buffStatus>>
    BY <1>0, <1>6, FlushFrame
  <2>2. /\ \A d \in Code \ {c} : pc'[d] = pc[d]
        /\ pc[c] \in Flushing
        /\ pc'[c] \in Filling \cup {"markBusy", FlushReturn(c)}
    BY <1>0, <1>6, FlushPlace
  <2>3. CASE c = "thread"
    BY <1>1, <2>1, <2>2, <2>3 DEF Code, Flushing, Filling, FlushReturn
  <2>4. CASE c = "isr"
    <3>1. reg'["thread"] = reg["thread"]
      BY <1>0, <1>6, <2>4
         DEF Flush, FlushBusy, FlushIdle, FlushLoad, FlushCopy, FlushSaveHead,
             FlushSavePid, FlushArm, FlushMarkBusy, SetReg, TypeOK, Code
    <3>2. QED
      BY <1>1, <2>1, <2>2, <2>4, <3>1
         DEF Code, Flushing, Filling, FlushReturn
  <2>5. QED
    BY <2>3, <2>4 DEF Code
<1>7. CASE IsrEnter
  BY <1>0, <1>1, <1>7, GotoIsr DEF IsrEnter
<1>8. CASE IsrReturn
  BY <1>0, <1>1, <1>8, GotoIsr DEF IsrReturn
<1>9. CASE IsrBusReset
  BY <1>9 DEF IsrBusReset, InInv
<1>10. CASE IsrSetConfiguration
  <2>1. ~host.ready /\ buffStatus = {} /\ UNCHANGED <<buffStatus, pc, reg>>
    BY <1>10 DEF IsrSetConfiguration, ToggleInv, EnumInv
  <2>2. host'.sent = host.sent /\ UNCHANGED <<rx, got, dropped>>
    BY <1>0, <1>10 DEF IsrSetConfiguration, TypeOK, Host
  <2>3. ~Waiting /\ ~Waiting' /\ Settled' = Settled /\ NRead' = NRead
    BY <2>1, <2>2 DEF Settled, NRead
  <2>4. GetInv'
    BY <2>1, <2>2 DEF RxInv, GetInv
  <2>5. QED
    BY <2>2, <2>3, <2>4, RxFrame
<1>11. CASE IsrReadBuffStatus
  BY <1>0, <1>1, <1>11 DEF IsrReadBuffStatus
<1>12. CASE IsrInDone
  BY <1>0, <1>1, <1>12, GotoIsr DEF IsrInDone
<1>13. CASE IsrInAck
  BY <1>0, <1>1, <1>13, GotoIsr DEF IsrInAck
<1>14. CASE IsrDrain
  BY <1>14, DrainRx DEF ToggleInv
<1>15. CASE IsrRearm
  <2>1. /\ pc["isr"] = "rearm" /\ pc'["isr"] = "outAck"
        /\ pc'["thread"] = pc["thread"]
        /\ UNCHANGED <<rx, got, dropped, buffStatus, reg, host>>
    BY <1>0, <1>15, GotoIsr DEF IsrRearm
  <2>2. ~Waiting /\ ~Waiting' /\ Settled' = Settled /\ NRead' = NRead
    BY <2>1 DEF Settled, NRead
  <2>3. GetInv'
    BY <2>1 DEF RxInv, GetInv
  <2>4. QED
    BY <2>1, <2>2, <2>3, RxFrame
<1>16. CASE IsrOutAck
  BY <1>0, <1>1, <1>16, GotoIsr DEF IsrOutAck
<1>17. CASE HostIn
  <2>1. host'.sent = host.sent
    BY <1>0, <1>17 DEF HostIn, TypeOK, Host
  <2>2. UNCHANGED <<rx, got, dropped, epOut, pc, reg>> /\ Waiting' = Waiting
    BY <1>17 DEF HostIn
  <2>3. QED
    BY <1>1, <2>1, <2>2
<1>18. CASE HostOut
  BY <1>18, HostOutRx
<1>19. CASE HostSetConfiguration
  <2>1. host'.sent = host.sent
    BY <1>0, <1>19 DEF HostSetConfiguration, TypeOK, Host
  <2>2. QED
    BY <1>1, <1>19, <2>1 DEF HostSetConfiguration
<1>20. CASE HostBusReset
  BY <1>0, <1>20 DEF HostBusReset, TypeOK, NoReset
<1>21. CASE UNCHANGED vars
  BY <1>1, <1>21 DEF vars
<1>22. QED
  BY <1>2, <1>3, <1>4, <1>5, <1>6, <1>7, <1>8, <1>9, <1>10, <1>11, <1>12,
     <1>13, <1>14, <1>15, <1>16, <1>17, <1>18, <1>19, <1>20, <1>21
     DEF Next, Thread, Isr, Code

LEMMA TxNext ==
  ASSUME ~QuickHost, TypeInv, InInv, ToggleInv, TxInv, [Next]_vars
  PROVE  TxInv'
<1>0. TypeOK
  BY DEF TypeInv
<1>1. CASE PutCheck \/ PutStore \/ PutPublish
  BY <1>1, PutTx
<1>2. ASSUME NEW c \in Code, Flush(c) PROVE TxInv'
  BY <1>2, FlushTx
<1>3. CASE HostIn
  BY <1>3, HostInTx
\* The others leave the ring, the buffer and the flush alone.
<1> DEFINE Places == {"copy", "savePid", "arm"}
           Still == /\ UNCHANGED <<tx, epIn, wrote>> /\ host'.got = host.got
                    /\ pc'["thread"] = pc["thread"]
                         \/ {pc["thread"], pc'["thread"]} \cap
                              (Places \cup {"putStore", "putPublish"}) = {}
                    /\ pc'["isr"] = pc["isr"]
                         \/ {pc["isr"], pc'["isr"]} \cap Places = {}
                    /\ \/ reg' = reg
                       \/ /\ {pc["thread"], pc'["thread"]} \cap
                               (Places \cup {"putStore", "putPublish"}) = {}
                          /\ reg'["isr"] = reg["isr"]
<1>4. Still => TxInv'
  <2> SUFFICES ASSUME Still PROVE TxInv'
    OBVIOUS
  <2>1. \A c \in Code : pc[c] \in Places \/ pc'[c] \in Places
                          => pc'[c] = pc[c] /\ reg'[c] = reg[c]
    BY DEF Code
  <2>2. QED
    BY <2>1, TxFrame
<1> HIDE DEF Still
<1> USE DEF Still, At, fifos, endpoints, history, code, IsrPlace, ThreadPlace
<1>5. CASE GetCheck
  <2>1. reg'["isr"] = reg["isr"]
    BY <1>0, <1>5 DEF GetCheck, SetReg, TypeOK, Code
  <2>2. QED
    BY <1>0, <1>4, <1>5, <2>1, GotoThread DEF GetCheck
<1>6. CASE GetLoad
  BY <1>0, <1>4, <1>6, GotoThread DEF GetLoad
<1>7. CASE GetStore
  <2>1. reg'["isr"] = reg["isr"]
    BY <1>0, <1>7 DEF GetStore, SetReg, TypeOK, Code
  <2>2. QED
    BY <1>0, <1>4, <1>7, <2>1, GotoThread DEF GetStore
<1>8. CASE IsrEnter
  BY <1>0, <1>4, <1>8, GotoIsr DEF IsrEnter
<1>9. CASE IsrReturn
  BY <1>0, <1>4, <1>9, GotoIsr DEF IsrReturn
<1>10. CASE IsrBusReset
  BY <1>0, <1>4, <1>10 DEF IsrBusReset
<1>11. CASE IsrSetConfiguration
  <2>1. host'.got = host.got
    BY <1>0, <1>11 DEF IsrSetConfiguration, TypeOK, Host
  <2>2. QED
    BY <1>4, <1>11, <2>1 DEF IsrSetConfiguration
<1>12. CASE IsrReadBuffStatus
  BY <1>4, <1>12 DEF IsrReadBuffStatus
<1>13. CASE IsrInDone
  BY <1>0, <1>4, <1>13, GotoIsr DEF IsrInDone
<1>14. CASE IsrInAck
  BY <1>0, <1>4, <1>14, GotoIsr DEF IsrInAck
<1>15. CASE IsrDrain
  BY <1>0, <1>4, <1>15, GotoIsr DEF IsrDrain
<1>16. CASE IsrRearm
  BY <1>0, <1>4, <1>16, GotoIsr DEF IsrRearm
<1>17. CASE IsrOutAck
  BY <1>0, <1>4, <1>17, GotoIsr DEF IsrOutAck
<1>18. CASE HostOut
  <2>1. PICK n \in 1 .. MaxPacket : HostSends(n)
    BY <1>18 DEF HostOut, HostSends
  <2>2. host'.got = host.got
    BY <1>0, <2>1 DEF HostSends, TypeOK, Host
  <2>3. QED
    BY <1>4, <1>18, <2>2 DEF HostOut
<1>19. CASE HostSetConfiguration \/ HostBusReset
  <2>1. host'.got = host.got
    BY <1>0, <1>19 DEF HostSetConfiguration, HostBusReset, TypeOK, Host
  <2>2. QED
    BY <1>4, <1>19, <2>1 DEF HostSetConfiguration, HostBusReset
<1>20. CASE UNCHANGED vars
  BY <1>4, <1>20 DEF vars
<1>21. QED
  BY <1>1, <1>2, <1>3, <1>5, <1>6, <1>7, <1>8, <1>9, <1>10, <1>11, <1>12,
     <1>13, <1>14, <1>15, <1>16, <1>17, <1>18, <1>19, <1>20
     DEF Next, Thread, Isr, Code


-----------------------------------------------------------------------------
(* The streams.                                                            *)

Inv == TypeInv /\ InInv /\ ToggleInv /\ TxInv /\ RxInv

LEMMA StreamInvariance ==
  ASSUME ~QuickHost, ~Reconfigure, NoReset
  PROVE  Spec => []Inv
<1>1. Init => Inv
  BY TypeInit, InInit, ToggleInit, TxInit, RxInit DEF Inv
<1>2. Inv /\ [Next]_vars => Inv'
  BY TypeNext, InNext, ToggleNext, TxNext, RxNext DEF Inv
<1>3. QED
  BY <1>1, <1>2, PTL DEF Spec

\* The three parts of RxStream as sequences.
LEMMA ReadSeq ==
  ASSUME Inv
  PROVE  /\ Read \in Seq(Byte) /\ Len(Read) = NRead /\ NRead \in Nat
         /\ \A i \in 1 .. NRead : Read[i] = got[i]
<1>1. got \in Seq(Byte) /\ Len(got) \in Nat
  BY RxTypes DEF Inv, TypeInv
<1>2. CASE pc["thread"] = "getStore"
  <2>1. Len(got) > 0
    BY <1>2 DEF Inv, RxInv, GetInv
  <2>2. /\ Len(got) - 1 \in Nat /\ Read = SubSeq(got, 1, Len(got) - 1)
        /\ NRead = Len(got) - 1
    BY <1>1, <1>2, <2>1 DEF Read, Front, NRead
  <2>3. \A i \in 1 .. Len(got) - 1 : got[i] \in Byte
    BY <1>1, ElementOfSeq
  <2>4. /\ SubSeq(got, 1, Len(got) - 1) \in Seq(Byte)
        /\ Len(SubSeq(got, 1, Len(got) - 1)) = Len(got) - 1
        /\ \A i \in 1 .. Len(got) - 1 :
             SubSeq(got, 1, Len(got) - 1)[i] = got[i]
    <3> DEFINE n == Len(got) - 1
    <3>1. n \in Int /\ n \in Nat
      BY <2>2
    <3>2. \A i \in 1 .. n : got[i] \in Byte
      BY <2>3
    <3> HIDE DEF n
    <3>3. /\ SubSeq(got, 1, n) \in Seq(Byte)
          /\ Len(SubSeq(got, 1, n)) = IF 1 <= n THEN n - 1 + 1 ELSE 0
          /\ \A i \in 1 .. n - 1 + 1 : SubSeq(got, 1, n)[i] = got[1 + i - 1]
      BY <3>1, <3>2, SubSeqProperties
    <3>4. /\ Len(SubSeq(got, 1, n)) = n
          /\ \A i \in 1 .. n : SubSeq(got, 1, n)[i] = got[i]
      BY <3>1, <3>3
    <3>5. QED
      BY <3>3, <3>4 DEF n
  <2>5. QED
    BY <2>2, <2>4
<1>3. CASE pc["thread"] # "getStore"
  BY <1>1, <1>3 DEF Read, NRead
<1>4. QED
  BY <1>2, <1>3

LEMMA HeldSeq ==
  ASSUME Inv
  PROVE  /\ Held(rx) \in Seq(Byte)
         /\ Len(Held(rx)) = Dist(rx.head, rx.tail)
         /\ Dist(rx.head, rx.tail) \in Nat
         /\ \A k \in 1 .. Dist(rx.head, rx.tail) :
              \E s \in Slot : /\ HeldAt(s) /\ Dist(rx.head, s) = k - 1
                              /\ Held(rx)[k] = rx.buf[s]
         /\ \A s \in Slot : HeldAt(s) =>
              /\ Dist(rx.head, s) + 1 \in 1 .. Dist(rx.head, rx.tail)
              /\ Held(rx)[Dist(rx.head, s) + 1] = rx.buf[s]
<1> DEFINE h == rx.head
           D == Dist(h, rx.tail)
           at(k) == (h + k - 1) % RingSize
<1>1. /\ h \in Slot /\ rx.tail \in Slot /\ D \in Slot
      /\ \A s \in Slot : Dist(h, s) \in Slot
      /\ \A s \in Slot : rx.buf[s] \in Byte
  BY RxTypes DEF Inv, TypeInv
<1>2. D \in Nat /\ D < RingSize
  BY <1>1, SlotInt
<1>3. Held(rx) = [k \in 1 .. D |-> rx.buf[at(k)]]
  BY DEF Held, Dist
<1> HIDE DEF h, D
<1>4. ASSUME NEW k \in 1 .. D
      PROVE  at(k) \in Slot /\ Dist(h, at(k)) = k - 1
  <2>1. k - 1 \in Slot
    BY <1>2, SlotInt
  <2>2. h + (k - 1) = h + k - 1
    BY <1>1, <1>2, SlotInt
  <2>3. (h + (k - 1)) % RingSize \in Slot
        /\ Dist(h, (h + (k - 1)) % RingSize) = k - 1
    BY <1>1, <2>1, SlotOf
  <2>4. QED
    BY <2>2, <2>3
<1> HIDE DEF at
<1>5. Held(rx) \in [1 .. D -> Byte] /\ DOMAIN Held(rx) = 1 .. D
  BY <1>1, <1>3, <1>4
<1>6. Held(rx) \in Seq(Byte)
  BY <1>2, <1>5, SeqDef
<1>7. Len(Held(rx)) = D
  BY <1>2, <1>5, <1>6, LenProperties
<1>8. \A k \in 1 .. D : \E s \in Slot : /\ HeldAt(s) /\ Dist(h, s) = k - 1
                                        /\ Held(rx)[k] = rx.buf[s]
  <2> SUFFICES ASSUME NEW k \in 1 .. D
               PROVE  /\ at(k) \in Slot /\ HeldAt(at(k))
                      /\ Dist(h, at(k)) = k - 1
                      /\ Held(rx)[k] = rx.buf[at(k)]
    OBVIOUS
  <2>1. k - 1 < D
    BY <1>2
  <2>2. HeldAt(at(k))
    BY <1>4, <2>1 DEF HeldAt, h, D
  <2>3. QED
    BY <1>3, <1>4, <2>2
<1>9. ASSUME NEW s \in Slot, HeldAt(s)
      PROVE  Dist(h, s) + 1 \in 1 .. D /\ Held(rx)[Dist(h, s) + 1] = rx.buf[s]
  <2>1. Dist(h, s) < D
    BY <1>9 DEF HeldAt, h, D
  <2>2. Dist(h, s) \in Nat
    BY <1>1, SlotInt
  <2> DEFINE k == Dist(h, s) + 1
  <2>3. k \in 1 .. D /\ k - 1 = Dist(h, s)
    BY <1>2, <2>1, <2>2
  <2> HIDE DEF k
  <2>4. PICK t \in Slot : Dist(h, t) = k - 1 /\ Held(rx)[k] = rx.buf[t]
    BY <1>8, <2>3
  <2>5. t = s
    BY <1>1, <2>3, <2>4, DistSteps
  <2>6. QED
    BY <2>3, <2>4, <2>5 DEF k
<1>10. QED
  BY <1>2, <1>6, <1>7, <1>8, <1>9 DEF h, D

LEMMA UndrainedSeq ==
  ASSUME Inv
  PROVE  /\ Undrained \in Seq(Byte)
         /\ Len(Undrained) = host.sent - Settled
         /\ \A k \in 1 .. host.sent - Settled : Undrained[k] = Settled + k
         /\ host.sent \in Nat /\ Settled \in Nat /\ Settled <= host.sent
<1>1. /\ epOut.len \in 0 .. MaxPacket /\ epOut.len \in Nat
      /\ host.sent \in Nat /\ Settled \in Int
  BY RxTypes DEF Inv, TypeInv
<1>2. Settled >= 0
  BY DEF Inv, RxInv, WaitingInv
<1>3. CASE Waiting
  <2>1. Settled = host.sent - epOut.len
    BY <1>3 DEF Settled
  <2>2. \A k \in 1 .. epOut.len : epOut.data[k] = Settled + k
    BY <1>3 DEF Inv, RxInv, WaitingInv
  <2>3. \A k \in 1 .. epOut.len : epOut.data[k] \in Byte
    <3>1. MaxPacket \in Nat /\ epOut.data \in [1 .. MaxPacket -> Byte]
      BY SizeAssumption DEF Inv, TypeInv, TypeOK, Endpoint
    <3>2. QED
      BY <1>1, <3>1
  <2>4. Undrained = SubSeq(epOut.data, 1, epOut.len)
    BY <1>3 DEF Undrained, Waiting, Payload
  <2> DEFINE n == epOut.len
             d == epOut.data
  <2>5. n \in Int /\ n \in Nat /\ \A k \in 1 .. n : d[k] \in Byte
    BY <1>1, <2>3
  <2> HIDE DEF n, d
  <2>6. /\ SubSeq(d, 1, n) \in Seq(Byte)
        /\ Len(SubSeq(d, 1, n)) = IF 1 <= n THEN n - 1 + 1 ELSE 0
        /\ \A k \in 1 .. n - 1 + 1 : SubSeq(d, 1, n)[k] = d[1 + k - 1]
    BY <2>5, SubSeqProperties
  <2>7. /\ Len(SubSeq(d, 1, n)) = n
        /\ \A k \in 1 .. n : SubSeq(d, 1, n)[k] = d[k]
    BY <2>5, <2>6
  <2>8. /\ Undrained \in Seq(Byte) /\ Len(Undrained) = epOut.len
        /\ \A k \in 1 .. epOut.len : Undrained[k] = epOut.data[k]
    BY <2>4, <2>6, <2>7 DEF n, d
  <2>9. host.sent - Settled = epOut.len /\ Settled <= host.sent
    BY <1>1, <2>1
  <2>10. QED
    BY <1>1, <1>2, <2>2, <2>8, <2>9
<1>4. CASE ~Waiting
  <2>1. Settled = host.sent /\ Undrained = << >>
    BY <1>4 DEF Settled, Undrained, Waiting
  <2>2. QED
    BY <1>1, <2>1, EmptySeq
<1>5. QED
  BY <1>3, <1>4

\* A sequence in three parts increases when each part does and each ends
\* below where the next begins.
LEMMA IncreasingParts ==
  ASSUME NEW a \in Seq(Byte), NEW b \in Seq(Byte), NEW c \in Seq(Byte),
         \A i, j \in 1 .. Len(a) : i < j => a[i] < a[j],
         \A i, j \in 1 .. Len(b) : i < j => b[i] < b[j],
         \A i, j \in 1 .. Len(c) : i < j => c[i] < c[j],
         \A i \in 1 .. Len(a) : \A j \in 1 .. Len(b) : a[i] < b[j],
         \A i \in 1 .. Len(a) : \A j \in 1 .. Len(c) : a[i] < c[j],
         \A i \in 1 .. Len(b) : \A j \in 1 .. Len(c) : b[i] < c[j]
  PROVE  LET s == a \o b \o c
         IN  \A i \in 1 .. Len(s) - 1 : s[i] < s[i + 1]
<1> DEFINE ab == a \o b
           s == ab \o c
<1>1. Len(a) \in Nat /\ Len(b) \in Nat /\ Len(c) \in Nat
  BY LenProperties
<1>2. /\ ab \in Seq(Byte) /\ Len(ab) = Len(a) + Len(b)
      /\ \A i \in 1 .. Len(a) + Len(b) :
           ab[i] = IF i <= Len(a) THEN a[i] ELSE b[i - Len(a)]
  BY ConcatProperties
<1> HIDE DEF ab
<1>3. /\ Len(s) = Len(ab) + Len(c)
      /\ \A i \in 1 .. Len(ab) + Len(c) :
           s[i] = IF i <= Len(ab) THEN ab[i] ELSE c[i - Len(ab)]
  <2>1. ab \in Seq(Byte) /\ c \in Seq(Byte)
    BY <1>2
  <2>2. QED
    BY <2>1, ConcatProperties
<1> HIDE DEF s
<1> SUFFICES ASSUME NEW i \in 1 .. Len(s) - 1
             PROVE  s[i] < s[i + 1]
  BY DEF s, ab
<1>4. /\ i \in 1 .. Len(ab) + Len(c) /\ i + 1 \in 1 .. Len(ab) + Len(c)
      /\ i \in Int
  BY <1>1, <1>2, <1>3
<1>5. CASE i + 1 <= Len(a)
  <2>1. i \in 1 .. Len(a) /\ i + 1 \in 1 .. Len(a) /\ i < i + 1
    BY <1>1, <1>4, <1>5
  <2>2. s[i] = a[i] /\ s[i + 1] = a[i + 1]
    BY <1>1, <1>2, <1>3, <1>4, <2>1
  <2>3. QED
    BY <2>1, <2>2
<1>6. CASE i = Len(a) /\ i + 1 <= Len(ab)
  <2>1. i \in 1 .. Len(a) /\ 1 \in 1 .. Len(b) /\ i + 1 - Len(a) = 1
    BY <1>1, <1>2, <1>4, <1>6
  <2>2. s[i] = a[i] /\ s[i + 1] = b[1]
    BY <1>1, <1>2, <1>3, <1>4, <1>6, <2>1
  <2>3. QED
    BY <2>1, <2>2
<1>7. CASE i > Len(a) /\ i + 1 <= Len(ab)
  <2>1. /\ i - Len(a) \in 1 .. Len(b) /\ i + 1 - Len(a) \in 1 .. Len(b)
        /\ i - Len(a) < i + 1 - Len(a)
    BY <1>1, <1>2, <1>4, <1>7
  <2>2. s[i] = b[i - Len(a)] /\ s[i + 1] = b[i + 1 - Len(a)]
    BY <1>1, <1>2, <1>3, <1>4, <1>7, <2>1
  <2>3. QED
    BY <2>1, <2>2
<1>8. CASE i = Len(ab)
  <2>1. 1 \in 1 .. Len(c) /\ i + 1 - Len(ab) = 1
    BY <1>1, <1>2, <1>4, <1>8
  <2>2. s[i] = ab[i] /\ s[i + 1] = c[1]
    BY <1>1, <1>2, <1>3, <1>4, <1>8, <2>1
  <2>3. CASE i <= Len(a)
    <3>1. i \in 1 .. Len(a) /\ ab[i] = a[i]
      BY <1>1, <1>2, <1>4, <1>8, <2>3
    <3>2. QED
      BY <2>1, <2>2, <3>1
  <2>4. CASE ~(i <= Len(a))
    <3>1. i - Len(a) \in 1 .. Len(b) /\ ab[i] = b[i - Len(a)]
      BY <1>1, <1>2, <1>4, <1>8, <2>4
    <3>2. QED
      BY <2>1, <2>2, <3>1
  <2>5. QED
    BY <2>3, <2>4
<1>9. CASE i > Len(ab)
  <2>1. /\ i - Len(ab) \in 1 .. Len(c) /\ i + 1 - Len(ab) \in 1 .. Len(c)
        /\ i - Len(ab) < i + 1 - Len(ab)
    BY <1>1, <1>2, <1>4, <1>9
  <2>2. s[i] = c[i - Len(ab)] /\ s[i + 1] = c[i + 1 - Len(ab)]
    BY <1>1, <1>2, <1>3, <1>4, <1>9, <2>1
  <2>3. QED
    BY <2>1, <2>2
<1>10. QED
  BY <1>1, <1>2, <1>4, <1>5, <1>6, <1>7, <1>8, <1>9

\* Its elements are those of its parts.
LEMMA ToSetParts ==
  ASSUME NEW a \in Seq(Byte), NEW b \in Seq(Byte), NEW n
  PROVE  n \in ToSet(a \o b) <=> \/ \E i \in 1 .. Len(a) : a[i] = n
                                 \/ \E i \in 1 .. Len(b) : b[i] = n
<1> DEFINE s == a \o b
<1>1. Len(a) \in Nat /\ Len(b) \in Nat
  BY LenProperties
<1>2. /\ s \in Seq(Byte) /\ Len(s) = Len(a) + Len(b)
      /\ \A i \in 1 .. Len(a) + Len(b) :
           s[i] = IF i <= Len(a) THEN a[i] ELSE b[i - Len(a)]
  BY ConcatProperties
<1> HIDE DEF s
<1>3. DOMAIN s = 1 .. Len(a) + Len(b)
  BY <1>2, LenProperties
<1>4. n \in ToSet(s) <=> \E i \in 1 .. Len(a) + Len(b) : s[i] = n
  BY <1>3 DEF ToSet
<1>5. ASSUME NEW i \in 1 .. Len(a), a[i] = n
      PROVE  n \in ToSet(s)
  BY <1>1, <1>2, <1>4, <1>5
<1>6. ASSUME NEW i \in 1 .. Len(b), b[i] = n
      PROVE  n \in ToSet(s)
  <2>1. /\ i + Len(a) \in 1 .. Len(a) + Len(b)
        /\ ~(i + Len(a) <= Len(a)) /\ i + Len(a) - Len(a) = i
    BY <1>1
  <2>2. s[i + Len(a)] = n
    BY <1>2, <1>6, <2>1
  <2>3. QED
    BY <1>4, <2>1, <2>2
<1>7. ASSUME NEW i \in 1 .. Len(a) + Len(b), s[i] = n
      PROVE  \/ \E j \in 1 .. Len(a) : a[j] = n
             \/ \E j \in 1 .. Len(b) : b[j] = n
  <2>1. CASE i <= Len(a)
    BY <1>1, <1>2, <1>7, <2>1
  <2>2. CASE ~(i <= Len(a))
    <3>1. i - Len(a) \in 1 .. Len(b)
      BY <1>1, <2>2
    <3>2. b[i - Len(a)] = n
      BY <1>2, <1>7, <2>2
    <3>3. QED
      BY <3>1, <3>2
  <2>3. QED
    BY <2>1, <2>2
<1>8. QED
  BY <1>4, <1>5, <1>6, <1>7 DEF s

LEMMA RxStreamIncreases ==
  ASSUME Inv
  PROVE  \A i \in 1 .. Len(RxStream) - 1 : RxStream[i] < RxStream[i + 1]
<1> DEFINE a == Read
           b == Held(rx)
           c == Undrained
           D == Dist(rx.head, rx.tail)
<1>1. /\ a \in Seq(Byte) /\ Len(a) = NRead /\ NRead \in Nat
      /\ \A i \in 1 .. NRead : a[i] = got[i]
  BY ReadSeq
<1>2. /\ b \in Seq(Byte) /\ Len(b) = D /\ D \in Nat
      /\ \A k \in 1 .. D :
           \E s \in Slot : /\ HeldAt(s) /\ Dist(rx.head, s) = k - 1
                           /\ b[k] = rx.buf[s]
  BY HeldSeq
<1>3. /\ c \in Seq(Byte) /\ Len(c) = host.sent - Settled
      /\ \A k \in 1 .. host.sent - Settled : c[k] = Settled + k
      /\ host.sent \in Nat /\ Settled \in Nat /\ Settled <= host.sent
  BY UndrainedSeq
<1>4. OrderInv
  BY DEF Inv, RxInv
<1>5. RxStream = a \o b \o c
  BY DEF RxStream
<1> HIDE DEF a, b, c, D
<1>6. \A i, j \in 1 .. Len(a) : i < j => a[i] < a[j]
  BY <1>1, <1>4 DEF OrderInv
<1>7. \A i, j \in 1 .. Len(b) : i < j => b[i] < b[j]
  <2> SUFFICES ASSUME NEW i \in 1 .. Len(b), NEW j \in 1 .. Len(b), i < j
               PROVE  b[i] < b[j]
    OBVIOUS
  <2>1. i - 1 < j - 1
    BY <1>2
  <2>2. PICK s \in Slot : Dist(rx.head, s) = i - 1 /\ b[i] = rx.buf[s]
    BY <1>2
  <2>3. PICK t \in Slot : /\ HeldAt(t) /\ Dist(rx.head, t) = j - 1
                          /\ b[j] = rx.buf[t]
    BY <1>2
  <2>4. QED
    BY <1>4, <2>1, <2>2, <2>3 DEF OrderInv
<1>8. \A i, j \in 1 .. Len(c) : i < j => c[i] < c[j]
  BY <1>3
<1>9. \A i \in 1 .. Len(a) : \A j \in 1 .. Len(b) : a[i] < b[j]
  BY <1>1, <1>2, <1>4 DEF OrderInv
<1>10. \A i \in 1 .. Len(a) : \A j \in 1 .. Len(c) : a[i] < c[j]
  <2> SUFFICES ASSUME NEW i \in 1 .. Len(a), NEW j \in 1 .. Len(c)
               PROVE  a[i] < c[j]
    OBVIOUS
  <2>1. a[i] \in 1 .. Settled
    BY <1>1, <1>4 DEF OrderInv
  <2>2. c[j] = Settled + j /\ j \in Int /\ j >= 1
    BY <1>3
  <2>3. QED
    BY <1>3, <2>1, <2>2
<1>11. \A i \in 1 .. Len(b) : \A j \in 1 .. Len(c) : b[i] < c[j]
  <2> SUFFICES ASSUME NEW i \in 1 .. Len(b), NEW j \in 1 .. Len(c)
               PROVE  b[i] < c[j]
    OBVIOUS
  <2>1. b[i] \in 1 .. Settled
    BY <1>2, <1>4 DEF OrderInv
  <2>2. c[j] = Settled + j /\ j \in Int /\ j >= 1
    BY <1>3
  <2>3. QED
    BY <1>3, <2>1, <2>2
<1>12. QED
  BY <1>1, <1>2, <1>3, <1>5, <1>6, <1>7, <1>8, <1>9, <1>10, <1>11,
     IncreasingParts

LEMMA RxStreamCovers ==
  ASSUME Inv
  PROVE  ToSet(RxStream) \cup dropped = 1 .. host.sent
<1> DEFINE a == Read
           b == Held(rx)
           c == Undrained
           D == Dist(rx.head, rx.tail)
<1>1. /\ a \in Seq(Byte) /\ Len(a) = NRead /\ NRead \in Nat
      /\ \A i \in 1 .. NRead : a[i] = got[i]
  BY ReadSeq
<1>2. /\ b \in Seq(Byte) /\ Len(b) = D /\ D \in Nat
      /\ \A k \in 1 .. D : \E s \in Slot : HeldAt(s) /\ b[k] = rx.buf[s]
      /\ \A s \in Slot : HeldAt(s) => /\ Dist(rx.head, s) + 1 \in 1 .. D
                                      /\ b[Dist(rx.head, s) + 1] = rx.buf[s]
  BY HeldSeq
<1>3. /\ c \in Seq(Byte) /\ Len(c) = host.sent - Settled
      /\ \A k \in 1 .. host.sent - Settled : c[k] = Settled + k
      /\ host.sent \in Nat /\ Settled \in Nat /\ Settled <= host.sent
  BY UndrainedSeq
<1>4. OrderInv /\ CoverInv
  BY DEF Inv, RxInv
<1>5. RxStream = a \o b \o c
  BY DEF RxStream
<1> HIDE DEF a, b, c, D
<1>6. ASSUME NEW n
      PROVE  n \in ToSet(RxStream) <=> \/ \E i \in 1 .. Len(a) : a[i] = n
                                       \/ \E i \in 1 .. Len(b) : b[i] = n
                                       \/ \E i \in 1 .. Len(c) : c[i] = n
  <2> DEFINE ab == a \o b
  <2>0. a \in Seq(Byte) /\ b \in Seq(Byte)
    BY <1>1, <1>2
  <2>1. ab \in Seq(Byte)
    BY <2>0, ConcatProperties
  <2>2. n \in ToSet(ab) <=> \/ \E i \in 1 .. Len(a) : a[i] = n
                            \/ \E i \in 1 .. Len(b) : b[i] = n
    BY <2>0, ToSetParts
  <2>3. n \in ToSet(ab) <=> \E i \in 1 .. Len(ab) : ab[i] = n
    <3>1. DOMAIN ab = 1 .. Len(ab)
      BY <2>1, LenProperties
    <3> HIDE DEF ab
    <3>2. QED
      BY <3>1 DEF ToSet
  <2> HIDE DEF ab
  <2>4. n \in ToSet(ab \o c) <=> \/ \E i \in 1 .. Len(ab) : ab[i] = n
                                 \/ \E i \in 1 .. Len(c) : c[i] = n
    BY <1>3, <2>1, ToSetParts
  <2>5. RxStream = ab \o c
    BY <1>5 DEF ab
  <2>6. QED
    BY <2>2, <2>3, <2>4, <2>5
<1>7. 1 .. Settled \subseteq 1 .. host.sent
  BY <1>3
<1>8. ASSUME NEW n \in ToSet(RxStream)
      PROVE  n \in 1 .. host.sent
  <2>1. CASE \E i \in 1 .. Len(a) : a[i] = n
    BY <1>1, <1>4, <1>7, <2>1 DEF OrderInv
  <2>2. CASE \E i \in 1 .. Len(b) : b[i] = n
    BY <1>2, <1>4, <1>7, <2>2 DEF OrderInv
  <2>3. CASE \E i \in 1 .. Len(c) : c[i] = n
    BY <1>3, <2>3
  <2>4. QED
    BY <1>6, <1>8, <2>1, <2>2, <2>3
<1>9. dropped \subseteq 1 .. host.sent
  BY <1>4, <1>7 DEF CoverInv
<1>10. ASSUME NEW n \in 1 .. host.sent, n \notin dropped
       PROVE  n \in ToSet(RxStream)
  <2>1. CASE n \in 1 .. Settled
    <3>1. CASE \E i \in 1 .. NRead : got[i] = n
      BY <1>1, <1>6, <3>1
    <3>2. CASE \E s \in Slot : HeldAt(s) /\ rx.buf[s] = n
      BY <1>2, <1>6, <3>2
    <3>3. QED
      BY <1>4, <1>10, <2>1, <3>1, <3>2 DEF CoverInv
  <2>2. CASE n \notin 1 .. Settled
    <3>1. /\ n - Settled \in 1 .. host.sent - Settled
          /\ Settled + (n - Settled) = n
      BY <1>3, <2>2
    <3>2. c[n - Settled] = n
      BY <1>3, <3>1
    <3>3. QED
      BY <1>3, <1>6, <3>1, <3>2
  <2>3. QED
    BY <2>1, <2>2
<1>11. QED
  BY <1>8, <1>9, <1>10

(***************************************************************************)
(* No byte is lost, doubled or reordered in either direction, except what  *)
(* the drain found no room for, whatever the sizes and however the thread, *)
(* the handler and the host interleave.                                    *)
(***************************************************************************)
THEOREM StreamsStayIntact ==
  ASSUME ~QuickHost, ~Reconfigure, NoReset
  PROVE  Spec => []StreamsIntact
<1>1. Inv => StreamsIntact
  <2> SUFFICES ASSUME Inv PROVE StreamsIntact
    OBVIOUS
  <2>1. host.got \in Seq(Byte)
    BY DEF Inv, TypeInv, TypeOK, Host
  <2>2. DOMAIN host.got = 1 .. Len(host.got)
    BY <2>1, LenProperties
  <2>3. \A i \in DOMAIN host.got : host.got[i] = i
    BY <2>2 DEF Inv, TxInv, PacketInv
  <2>4. QED
    BY <2>3, RxStreamIncreases, RxStreamCovers DEF StreamsIntact
<1>2. QED
  BY <1>1, StreamInvariance, PTL

=============================================================================
