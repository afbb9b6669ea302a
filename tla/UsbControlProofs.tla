-------------------------- MODULE UsbControlProofs --------------------------
(***************************************************************************)
(* Proofs about UsbControl for every set of requests and addresses and any *)
(* number of transfers.                                                    *)
(*                                                                         *)
(* The types, and what is said of BOOTSEL, hold of every host.  What is    *)
(* said of addresses and answers is promised, in UsbControl already, to a  *)
(* host that is Undisturbed, and proved for a SETUP that waits for the     *)
(* handler to finish (~LateIsr): the source mistakes one transfer for      *)
(* another otherwise.                                                      *)
(***************************************************************************)
EXTENDS UsbControl, SequenceTheorems, TLAPS

-----------------------------------------------------------------------------
(* The packets of an answer.                                               *)

LEMMA AnswerValue ==
  ASSUME NEW r \in Requests
  PROVE  /\ Answer(r) \in Seq(Packet)
         /\ r.kind = "getDescriptor" => Len(Answer(r)) = r.arg /\ r.arg > 0
         /\ r.kind = "getShort" => Len(Answer(r)) = 1
         /\ r.kind \notin {"getDescriptor", "getShort"}
              => Answer(r) = << >> /\ Len(Answer(r)) = 0
<1>1. r.arg \in Nat /\ (r.kind = "getDescriptor" => r.arg > 0)
  BY RequestAssumption
<1>2. \A k \in Nat \ {0} : <<r, k>> \in Packet
  BY DEF Packet
<1>3. CASE r.kind = "getDescriptor"
  <2>1. Answer(r) = [k \in 1 .. r.arg |-> <<r, k>>]
    BY <1>3 DEF Answer
  <2>2. Answer(r) \in [1 .. r.arg -> Packet] /\ DOMAIN Answer(r) = 1 .. r.arg
    BY <1>1, <1>2, <2>1
  <2>3. Answer(r) \in Seq(Packet)
    BY <1>1, <2>2, SeqDef
  <2>4. Len(Answer(r)) = r.arg
    BY <1>1, <2>2, <2>3, LenProperties
  <2>5. QED
    BY <1>1, <1>3, <2>3, <2>4
<1>4. CASE r.kind = "getShort"
  <2>1. Answer(r) = << <<r, 1>> >>
    BY <1>4 DEF Answer
  <2>2. <<r, 1>> \in Packet
    BY <1>2
  <2>3. QED
    BY <1>4, <2>1, <2>2
<1>5. CASE r.kind \notin {"getDescriptor", "getShort"}
  BY <1>5, EmptySeq DEF Answer
<1>6. QED
  BY <1>3, <1>4, <1>5

\* The stage a request begins with, by the length of its answer.
LEMMA FirstStageValue ==
  ASSUME NEW r \in Requests
  PROVE  /\ FirstStage(r) \in {"dataIn", "dataOut", "statusIn"}
         /\ FirstStage(r) = "dataIn" <=> Len(Answer(r)) > 0
         /\ FirstStage(r) = "dataIn"
              <=> r.kind \in {"getDescriptor", "getShort"}
         /\ FirstStage(r) = "dataOut" <=> r.kind = "setLineCoding"
<1>1. Answer(r) # << >> <=> Len(Answer(r)) > 0
  BY AnswerValue, EmptySeq
<1>2. Len(Answer(r)) > 0 <=> r.kind \in {"getDescriptor", "getShort"}
  BY AnswerValue
<1>3. QED
  BY <1>1, <1>2 DEF FirstStage

-----------------------------------------------------------------------------
(* Types.                                                                  *)

LEMMA Toggled == \A p \in Pids : 1 - p \in Pids
BY DEF Pids

LEMMA TypeInit == Init => TypeOK
<1> SUFFICES ASSUME Init PROVE TypeOK
  OBVIOUS
<1> USE DEF Init
<1>1. rest \in Seq(Packet) /\ << >> \in Packet
  BY EmptySeq DEF Packet
<1>2. epIn \in InControl /\ epOut \in OutControl
  BY <1>1 DEF Idle, NotArmed, InControl, OutControl, Pids
<1>3. host \in Host
  <2>1. host.got \in Seq(Packet)
    BY EmptySeq
  <2>2. QED
    BY <2>1 DEF Host, Stages, Pids
<1>4. count \in Count
  BY BoundAssumption DEF Count
<1>5. setup \in Requests \cup {NoRequest} /\ pids \in [in : Pids, out : Pids]
  BY DEF Pids
<1>6. QED
  BY <1>1, <1>2, <1>3, <1>4, <1>5 DEF TypeOK

LEMMA SendType ==
  ASSUME TypeOK, NEW packet \in Packet, NEW pid \in Pids, Send(packet, pid)
  PROVE  /\ epIn' \in InControl
         /\ buf' \in {"zero", "answer", "baud1200", "otherBaud"}
BY DEF TypeOK, Send, InControl

LEMMA ArmType ==
  ASSUME NEW pid \in Pids, Arm(pid)
  PROVE  epOut' \in OutControl
BY DEF Arm, OutControl

\* The branches of _usb_handle_setup.
Setup ==
  \/ SetupSetAddress \/ SetupGetDescriptor \/ SetupGetShort
  \/ SetupSetConfiguration \/ SetupSetLineCoding \/ SetupSetControlLineState
  \/ SetupUnknown

\* What all of them leave alone.
LEMMA SetupFrame ==
  ASSUME Setup
  PROVE  /\ pc = "dispatch" /\ "setup" \in todo /\ pc' = "setupAck"
         /\ UNCHANGED <<address, setup, sie, buffStatus, todo, bootsel, host,
                        count>>
<1> USE DEF InSetup, At, status
<1>1. CASE SetupSetAddress
  BY <1>1 DEF SetupSetAddress
<1>2. CASE SetupGetDescriptor
  BY <1>2 DEF SetupGetDescriptor
<1>3. CASE SetupGetShort
  BY <1>3 DEF SetupGetShort
<1>4. CASE SetupSetConfiguration
  BY <1>4 DEF SetupSetConfiguration
<1>5. CASE SetupSetLineCoding
  BY <1>5 DEF SetupSetLineCoding
<1>6. CASE SetupSetControlLineState
  BY <1>6 DEF SetupSetControlLineState
<1>7. CASE SetupUnknown
  BY <1>7 DEF SetupUnknown
<1>8. QED
  BY <1>1, <1>2, <1>3, <1>4, <1>5, <1>6, <1>7 DEF Setup

LEMMA SetupType ==
  ASSUME TypeOK, Setup
  PROVE  TypeOK'
<1>1. /\ pc = "dispatch" /\ "setup" \in todo /\ pc' = "setupAck"
      /\ UNCHANGED <<address, setup, sie, buffStatus, todo, bootsel, host,
                     count>>
  BY SetupFrame
<1>2. << >> \in Packet /\ 0 \in Pids /\ 1 \in Pids
  BY DEF Packet, Pids
<1>3. ASSUME NEW a \in Pids, NEW b \in Pids
      PROVE  [in |-> a, out |-> b] \in [in : Pids, out : Pids]
  OBVIOUS
<1>4. ASSUME setup.kind # "unknown"
      PROVE  setup \in Requests /\ setup.arg \in Nat
  <2>1. NoRequest.kind = "unknown"
    BY DEF NoRequest
  <2>2. setup \in Requests
    BY <1>4, <2>1 DEF TypeOK
  <2>3. QED
    BY <2>2, RequestAssumption
<1>5. SUFFICES
        /\ pending' \in Address \cup {0} /\ configured' \in Nat
        /\ dtr' \in {0, 1} /\ setlc' \in BOOLEAN /\ rest' \in Seq(Packet)
        /\ pids' \in [in : Pids, out : Pids]
        /\ epIn' \in InControl /\ epOut' \in OutControl
        /\ buf' \in {"zero", "answer", "baud1200", "otherBaud"}
  BY <1>1 DEF TypeOK
<1>6. CASE SetupSetAddress
  <2>1. setup.arg \in Address
    BY <1>4, <1>6, RequestAssumption DEF SetupSetAddress, InSetup
  <2>2. /\ epIn' \in InControl
        /\ buf' \in {"zero", "answer", "baud1200", "otherBaud"}
    BY <1>2, <1>6, SendType DEF SetupSetAddress
  <2>3. QED
    BY <1>2, <1>3, <1>6, <2>1, <2>2 DEF TypeOK, SetupSetAddress
<1>7. CASE SetupGetDescriptor
  <2>1. setup \in Requests /\ setup.kind = "getDescriptor"
    BY <1>4, <1>7 DEF SetupGetDescriptor, InSetup
  <2>2. /\ Answer(setup) \in Seq(Packet) /\ Answer(setup) # << >>
        /\ Answer(setup)[1] \in Packet
    <3>1. Answer(setup) \in Seq(Packet) /\ Len(Answer(setup)) \in Nat \ {0}
      BY <2>1, AnswerValue, RequestAssumption
    <3>2. QED
      BY <3>1, ElementOfSeq, EmptySeq
  <2>3. Tail(Answer(setup)) \in Seq(Packet)
    BY <2>2, HeadTailProperties
  <2>4. /\ epIn' \in InControl
        /\ buf' \in {"zero", "answer", "baud1200", "otherBaud"}
    BY <1>2, <1>7, <2>2, SendType DEF SetupGetDescriptor
  <2>5. epOut' \in OutControl
    BY <1>2, <1>7, ArmType DEF SetupGetDescriptor
  <2>6. QED
    BY <1>2, <1>3, <1>7, <2>3, <2>4, <2>5 DEF TypeOK, SetupGetDescriptor
<1>8. CASE SetupGetShort
  <2>1. setup \in Requests /\ setup.kind = "getShort"
    BY <1>4, <1>8 DEF SetupGetShort, InSetup
  <2>2. Answer(setup)[1] \in Packet
    <3>1. Answer(setup) \in Seq(Packet) /\ Len(Answer(setup)) = 1
      BY <2>1, AnswerValue
    <3>2. QED
      BY <3>1, ElementOfSeq
  <2>3. /\ epIn' \in InControl
        /\ buf' \in {"zero", "answer", "baud1200", "otherBaud"}
    BY <1>2, <1>8, <2>2, SendType DEF SetupGetShort
  <2>4. QED
    BY <1>2, <1>3, <1>8, <2>3 DEF TypeOK, SetupGetShort
<1>9. CASE SetupSetConfiguration
  <2>1. setup.arg \in Nat
    BY <1>4, <1>9 DEF SetupSetConfiguration, InSetup
  <2>2. /\ epIn' \in InControl
        /\ buf' \in {"zero", "answer", "baud1200", "otherBaud"}
    BY <1>2, <1>9, SendType DEF SetupSetConfiguration
  <2>3. QED
    BY <1>2, <1>3, <1>9, <2>1, <2>2 DEF TypeOK, SetupSetConfiguration
<1>10. CASE SetupSetLineCoding
  <2>1. /\ epIn' \in InControl
        /\ buf' \in {"zero", "answer", "baud1200", "otherBaud"}
    BY <1>2, <1>10, SendType DEF SetupSetLineCoding
  <2>2. epOut' \in OutControl
    BY <1>2, <1>10, ArmType DEF SetupSetLineCoding
  <2>3. QED
    BY <1>2, <1>3, <1>10, <2>1, <2>2 DEF TypeOK, SetupSetLineCoding
<1>11. CASE SetupSetControlLineState
  <2>1. setup.arg \in Nat
    BY <1>4, <1>11 DEF SetupSetControlLineState, InSetup
  <2>2. setup.arg % 2 \in {0, 1}
    BY <2>1
  <2>3. /\ epIn' \in InControl
        /\ buf' \in {"zero", "answer", "baud1200", "otherBaud"}
    BY <1>2, <1>11, SendType DEF SetupSetControlLineState
  <2>4. QED
    BY <1>2, <1>3, <1>11, <2>2, <2>3 DEF TypeOK, SetupSetControlLineState
<1>12. CASE SetupUnknown
  <2>1. epIn' \in InControl
    BY <1>2, <1>12 DEF SetupUnknown, Stall, InControl
  <2>2. QED
    BY <1>2, <1>3, <1>12, <2>1 DEF TypeOK, SetupUnknown
<1>13. QED
  BY <1>6, <1>7, <1>8, <1>9, <1>10, <1>11, <1>12 DEF Setup

\* The other steps of the handler.
LEMMA IsrType ==
  ASSUME TypeOK, Isr
  PROVE  TypeOK'
<1> USE DEF TypeOK, device, dpram, status, isr
<1>1. CASE IsrEnter
  BY <1>1 DEF IsrEnter, Ints, At
<1>2. CASE IsrReturn
  BY <1>2 DEF IsrReturn, At
<1>3. CASE IsrBusReset
  BY <1>3 DEF IsrBusReset, At, Pids
<1>4. CASE IsrSetupAck
  BY <1>4 DEF IsrSetupAck, At
<1>5. CASE IsrReadBuffStatus
  BY <1>5 DEF IsrReadBuffStatus, At
<1>6. CASE IsrInContinue
  <2>1. Head(rest) \in Packet /\ Tail(rest) \in Seq(Packet)
    BY <1>6, HeadTailProperties DEF IsrInContinue
  <2>2. pids.in \in Pids
    OBVIOUS
  <2>3. pids' \in [in : Pids, out : Pids]
    <3>1. 1 - pids.in \in Pids
      BY <2>2, Toggled
    <3>2. pids' = [pids EXCEPT !.in = 1 - @]
      BY <1>6 DEF IsrInContinue
    <3>3. QED
      BY <3>1, <3>2
  <2>4. /\ epIn' \in InControl
        /\ buf' \in {"zero", "answer", "baud1200", "otherBaud"}
    BY <1>6, <2>1, <2>2, SendType DEF IsrInContinue
  <2>5. QED
    BY <1>6, <2>1, <2>3, <2>4 DEF IsrInContinue, InDone
<1>7. CASE IsrInApply
  BY <1>7 DEF IsrInApply, InDone
<1>8. CASE IsrOutDone
  BY <1>8 DEF IsrOutDone, At
<1>9. CASE IsrOutAck
  BY <1>9 DEF IsrOutAck, At
<1>10. CASE Setup
  BY <1>10, SetupType
<1>11. QED
  BY <1>1, <1>2, <1>3, <1>4, <1>5, <1>6, <1>7, <1>8, <1>9, <1>10
     DEF Isr, Setup

\* What a step of the host leaves alone, and what it may change.
LEMMA HostFrame ==
  ASSUME TypeOK, UNCHANGED <<device, isr>>,
         setup' \in Requests \cup {NoRequest},
         epIn' \in InControl, epOut' \in OutControl,
         buf' \in {"zero", "answer", "baud1200", "otherBaud"},
         sie' \subseteq {"reset", "setup"},
         buffStatus' \subseteq {"in", "out"},
         host' \in Host, count' \in Count
  PROVE  TypeOK'
BY DEF TypeOK, device, isr

LEMMA HostType ==
  ASSUME TypeOK, HostToken \/ (\E r \in Requests : HostSetup(r))
                 \/ HostBusReset
  PROVE  TypeOK'
<1>0. /\ host \in Host /\ epIn \in InControl /\ epOut \in OutControl
      /\ setup \in Requests \cup {NoRequest} /\ count \in Count
      /\ buf \in {"zero", "answer", "baud1200", "otherBaud"}
      /\ sie \subseteq {"reset", "setup"} /\ buffStatus \subseteq {"in", "out"}
  BY DEF TypeOK
<1>1. ASSUME NEW r \in Requests, HostSetup(r)
      PROVE  TypeOK'
  <2>1. FirstStage(r) \in Stages /\ << >> \in Seq(Packet) /\ 1 \in Pids
    BY FirstStageValue, EmptySeq DEF Stages, Pids
  <2>2. host' \in Host
    BY <1>0, <1>1, <2>1 DEF HostSetup, Host
  <2>3. epIn' \in InControl
    BY <1>0, <1>1 DEF HostSetup, InControl
  <2>4. count' \in Count
    <3>1. /\ count \in Count /\ count.transfers < MaxTransfers
          /\ host.stage # "idle" => count.aborts < MaxAborts
          /\ count' = [count EXCEPT !.transfers = @ + 1,
               !.aborts = IF host.stage = "idle" THEN @ ELSE @ + 1]
      BY <1>1 DEF TypeOK, HostSetup
    <3>2. /\ count.transfers \in 0 .. MaxTransfers
          /\ count.aborts \in 0 .. MaxAborts
      BY <3>1 DEF Count
    <3>3. count.transfers + 1 \in 0 .. MaxTransfers
      BY <3>1, <3>2, BoundAssumption
    <3>4. (IF host.stage = "idle" THEN count.aborts ELSE count.aborts + 1)
            \in 0 .. MaxAborts
      BY <3>1, <3>2, BoundAssumption
    <3>5. QED
      BY <3>1, <3>3, <3>4 DEF Count
  <2>5. QED
    <3>1. /\ UNCHANGED <<device, isr, epOut, buf, buffStatus>>
          /\ setup' = r /\ sie' = sie \cup {"setup"}
      BY <1>1 DEF HostSetup
    <3>2. QED
      BY <1>0, <2>2, <2>3, <2>4, <3>1, HostFrame
<1>2. CASE HostStalled
  <2>1. host' \in Host
    BY <1>0, <1>2 DEF HostStalled, Host, Stages
  <2>2. QED
    BY <1>0, <1>2, <2>1, HostFrame DEF HostStalled, dpram, status
<1>3. ASSUME TakesIn, host' \in Host
      PROVE  TypeOK'
  <2>1. /\ epIn' = [epIn EXCEPT !.avail = FALSE]
        /\ buffStatus' = buffStatus \cup {"in"}
        /\ UNCHANGED <<device, isr, epOut, buf, setup, sie, count>>
    BY <1>3 DEF TakesIn
  <2>2. epIn' \in InControl /\ buffStatus' \subseteq {"in", "out"}
    BY <1>0, <2>1 DEF InControl
  <2>3. QED
    BY <1>0, <1>3, <2>1, <2>2, HostFrame
<1>4. CASE HostDataIn
  <2>1. Append(host.got, epIn.packet) \in Seq(Packet)
    <3>1. host.got \in Seq(Packet) /\ epIn.packet \in Packet
      BY <1>0 DEF Host, InControl
    <3>2. QED
      BY <3>1, AppendProperties
  <2>2. host' \in Host
    <3>1. CASE epIn.pid # host.pid
      BY <1>0, <1>4, <3>1 DEF HostDataIn
    <3>2. CASE epIn.pid = host.pid
      <4> DEFINE got == Append(host.got, epIn.packet)
                 last == Len(got) = Len(Answer(host.req))
                 wrong == host.confused \/
                            epIn.packet # Answer(host.req)[Len(got)]
                 pid == IF last THEN 1 ELSE 1 - host.pid
                 stage == IF last THEN "statusOut" ELSE "dataIn"
      <4>1. host' = [host EXCEPT !.got = got, !.confused = wrong,
                                 !.stage = stage, !.pid = pid]
        BY <1>4, <3>2 DEF HostDataIn
      <4> HIDE DEF last
      <4>2. wrong \in BOOLEAN /\ stage \in Stages
        BY DEF Stages
      <4>3. pid \in Pids
        <5>1. host.pid \in {0, 1}
          BY <1>0 DEF Host, Pids
        <5>2. QED
          BY <5>1 DEF Pids
      <4>4. got \in Seq(Packet)
        BY <2>1
      <4> HIDE DEF got, wrong, pid, stage
      <4>5. QED
        BY <1>0, <4>1, <4>2, <4>3, <4>4 DEF Host
    <3>3. QED
      BY <3>1, <3>2
  <2>3. QED
    BY <1>3, <1>4, <2>2 DEF HostDataIn
<1>5. CASE HostStatusIn
  <2>1. host.req.kind = "setAddress" => host.req.arg \in Address
    <3>1. host.req \in Requests \cup {NoRequest}
      BY <1>0 DEF Host
    <3>2. QED
      BY <3>1, RequestAssumption DEF NoRequest
  <2>2. host' \in Host
    <3> DEFINE wrong == host.confused \/ epIn.packet # << >>
               addr == IF host.req.kind = "setAddress" THEN host.req.arg
                       ELSE host.addr
               open == IF host.req.kind = "setControlLineState"
                       THEN host.req.arg % 2 = 1 ELSE host.open
    <3>1. host' = [host EXCEPT !.stage = "idle", !.confused = wrong,
                               !.addr = addr, !.open = open]
      BY <1>5 DEF HostStatusIn
    <3>2. wrong \in BOOLEAN /\ "idle" \in Stages
      BY DEF Stages
    <3>3. addr \in Address \cup {0}
      BY <1>0, <2>1 DEF Host
    <3>4. open \in BOOLEAN
      BY <1>0 DEF Host
    <3> HIDE DEF wrong, addr, open
    <3>5. QED
      BY <1>0, <3>1, <3>2, <3>3, <3>4 DEF Host
  <2>3. QED
    BY <1>3, <1>5, <2>2 DEF HostStatusIn
<1>6. ASSUME SendsOut, host' \in Host,
             buf' \in {"zero", "answer", "baud1200", "otherBaud"}
      PROVE  TypeOK'
  <2>1. UNCHANGED <<device, isr, epIn, setup, sie, count>>
    BY <1>6 DEF SendsOut
  <2>2. epOut' \in OutControl /\ buffStatus' \subseteq {"in", "out"}
    <3>1. CASE epOut.pid = host.pid
      <4>1. /\ epOut' = [epOut EXCEPT !.avail = FALSE]
            /\ buffStatus' = buffStatus \cup {"out"}
        BY <1>6, <3>1 DEF SendsOut
      <4>2. QED
        BY <1>0, <4>1 DEF OutControl
    <3>2. CASE epOut.pid # host.pid
      BY <1>0, <1>6, <3>2 DEF SendsOut
    <3>3. QED
      BY <3>1, <3>2
  <2>3. QED
    BY <1>0, <1>6, <2>1, <2>2, HostFrame
<1>7. CASE HostDataOut
  <2>1. host' \in Host
    <3> DEFINE said == host.said1200 \/ host.req.arg = 1200
    <3>1. host' = [host EXCEPT !.stage = "statusIn", !.pid = 1,
                               !.said1200 = said]
      BY <1>7 DEF HostDataOut
    <3>2. said \in BOOLEAN /\ "statusIn" \in Stages /\ 1 \in Pids
      BY DEF Stages, Pids
    <3> HIDE DEF said
    <3>3. QED
      BY <1>0, <3>1, <3>2 DEF Host
  <2>2. buf' \in {"zero", "answer", "baud1200", "otherBaud"}
    <3>1. buf' = buf \/ buf' = "baud1200" \/ buf' = "otherBaud"
      BY <1>7 DEF HostDataOut
    <3>2. QED
      BY <1>0, <3>1
  <2>3. QED
    BY <1>6, <1>7, <2>1, <2>2 DEF HostDataOut
<1>8. CASE HostStatusOut
  <2>1. host' \in Host
    BY <1>0, <1>8 DEF HostStatusOut, Host, Stages
  <2>2. QED
    BY <1>0, <1>6, <1>8, <2>1 DEF HostStatusOut
<1>9. CASE HostBusReset
  <2>1. host' \in Host
    BY <1>0, <1>9 DEF HostBusReset, Host, Stages
  <2>2. count' \in Count
    <3>1. /\ count \in Count /\ count.resets < MaxResets
          /\ count' = [count EXCEPT !.resets = @ + 1]
      BY <1>9 DEF HostBusReset, TypeOK
    <3>2. count.resets + 1 \in 0 .. MaxResets
      BY <3>1, BoundAssumption DEF Count
    <3>3. QED
      BY <3>1, <3>2 DEF Count
  <2>3. QED
    <3>1. UNCHANGED <<device, isr, epIn, epOut, buf, setup, buffStatus>>
          /\ sie' = sie \cup {"reset"}
      BY <1>9 DEF HostBusReset, dpram
    <3>2. QED
      BY <1>0, <2>1, <2>2, <3>1, HostFrame
<1>10. QED
  BY <1>1, <1>2, <1>4, <1>5, <1>7, <1>8, <1>9 DEF HostToken

LEMMA TypeNext == TypeOK /\ [Next]_vars => TypeOK'
<1> SUFFICES ASSUME TypeOK, [Next]_vars PROVE TypeOK'
  OBVIOUS
<1>1. CASE Next
  BY <1>1, IsrType, HostType DEF Next
<1>2. CASE UNCHANGED vars
  BY <1>2 DEF TypeOK, vars, device, dpram, status, isr
<1>3. QED
  BY <1>1, <1>2

(***************************************************************************)
(* The words and buffers of the control endpoint keep their types with     *)
(* every host: in particular ADDR_ENDP only ever holds 0 or an address the *)
(* host assigned, and what is left of an answer is packets of an answer.   *)
(***************************************************************************)
THEOREM TypeCorrect == Spec => []TypeOK
<1>1. QED
  BY TypeInit, TypeNext, PTL DEF Spec

-----------------------------------------------------------------------------
(* BOOTSEL.                                                                *)

\* The word compared with 1200 is 1200 only if the host sent it, whatever
\* answers have gone through the buffer since.
BootselInv == (buf = "baud1200" => host.said1200) /\ BootselIsAsked

LEMMA DataOutSaid ==
  ASSUME host \in Host, HostDataOut,
         host.said1200 \/ host.req.arg = 1200
  PROVE  host'.said1200
<1> DEFINE said == host.said1200 \/ host.req.arg = 1200
<1>1. host' = [host EXCEPT !.stage = "statusIn", !.pid = 1,
                           !.said1200 = said]
  BY DEF HostDataOut
<1>2. said
  OBVIOUS
<1> HIDE DEF said
<1>3. host'.said1200 = said
  BY <1>1 DEF Host
<1>4. QED
  BY <1>2, <1>3

LEMMA BootselNext == TypeOK /\ BootselInv /\ [Next]_vars => BootselInv'
<1> SUFFICES ASSUME TypeOK, BootselInv, [Next]_vars
             PROVE  BootselInv'
  OBVIOUS
<1> USE DEF BootselInv, BootselIsAsked
<1>1. ASSUME NEW packet, NEW pid, Send(packet, pid)
      PROVE  buf' = "baud1200" => buf = "baud1200"
  BY <1>1 DEF Send
<1>2. CASE Setup
  <2>1. UNCHANGED <<host, bootsel>>
    BY <1>2, SetupFrame
  <2>2. buf' = "baud1200" => buf = "baud1200"
    BY <1>1, <1>2 DEF Setup, SetupSetAddress, SetupGetDescriptor,
       SetupGetShort, SetupSetConfiguration, SetupSetLineCoding,
       SetupSetControlLineState, SetupUnknown
  <2>3. QED
    BY <2>1, <2>2
<1>3. CASE IsrEnter \/ IsrReturn \/ IsrBusReset \/ IsrSetupAck
           \/ IsrReadBuffStatus \/ IsrInApply \/ IsrOutAck
  BY <1>3 DEF IsrEnter, IsrReturn, IsrBusReset, IsrSetupAck,
     IsrReadBuffStatus, IsrInApply, IsrOutAck, InDone, dpram, isr
<1>4. CASE IsrInContinue
  BY <1>1, <1>4 DEF IsrInContinue, InDone
<1>5. CASE IsrOutDone
  BY <1>5 DEF IsrOutDone, dpram
<1>6. host \in Host
  BY DEF TypeOK
<1>7. ASSUME NEW r \in Requests, HostSetup(r)
      PROVE  BootselInv'
  BY <1>6, <1>7 DEF HostSetup, Host, isr
<1>8. CASE HostStalled \/ HostBusReset
  <2>1. UNCHANGED <<buf, bootsel>>
    BY <1>8 DEF HostStalled, HostBusReset, dpram, isr
  <2>2. host'.said1200 = host.said1200
    <3>1. CASE HostStalled
      BY <1>6, <3>1 DEF HostStalled, Host
    <3>2. CASE HostBusReset
      BY <1>6, <3>2 DEF HostBusReset, Host
    <3>3. QED
      BY <1>8, <3>1, <3>2
  <2>3. QED
    BY <2>1, <2>2
<1>9. CASE HostDataIn
  <2>1. host'.said1200 = host.said1200
    <3>1. CASE epIn.pid # host.pid
      BY <1>9, <3>1 DEF HostDataIn
    <3>2. CASE epIn.pid = host.pid
      BY <1>6, <1>9, <3>2 DEF HostDataIn, Host
    <3>3. QED
      BY <3>1, <3>2
  <2>2. QED
    BY <1>9, <2>1 DEF HostDataIn, TakesIn, isr
<1>10. CASE HostStatusIn
  BY <1>6, <1>10 DEF HostStatusIn, TakesIn, Host, isr
<1>11. CASE HostDataOut
  <2>1. UNCHANGED bootsel
    BY <1>11 DEF HostDataOut, SendsOut, isr
  <2>2. host.said1200 \/ host.req.arg = 1200 => host'.said1200
    BY <1>6, <1>11, DataOutSaid
  <2>3. buf' = "baud1200" => buf = "baud1200" \/ host.req.arg = 1200
    BY <1>11 DEF HostDataOut
  <2>4. QED
    BY <2>1, <2>2, <2>3
<1>12. CASE HostStatusOut
  BY <1>6, <1>12 DEF HostStatusOut, SendsOut, Host, isr
<1>13. CASE UNCHANGED vars
  BY <1>13 DEF vars, dpram, isr
<1>14. QED
  BY <1>2, <1>3, <1>4, <1>5, <1>7, <1>8, <1>9, <1>10, <1>11, <1>12, <1>13
     DEF Next, Isr, Setup, HostToken

(***************************************************************************)
(* The device resets into BOOTSEL only if the host sent 1200 baud, however *)
(* many transfers it abandons, however late the handler is and whenever    *)
(* the bus is reset: the safety half of BootselExactlyWhenAsked.           *)
(***************************************************************************)
THEOREM BootselOnlyIfAsked == Spec => []BootselIsAsked
<1>1. Init => BootselInv
  BY DEF Init, BootselInv, BootselIsAsked
<1>2. BootselInv => BootselIsAsked
  BY DEF BootselInv
<1>3. QED
  BY <1>1, <1>2, BootselNext, TypeInit, TypeNext, PTL DEF Spec

-----------------------------------------------------------------------------
(* One transfer after the other.                                           *)

\* The handler works on what it read, and on nothing else: a SETUP alone,
\* or completions still to be acknowledged.
HandlerInv ==
  /\ "reset" \notin sie /\ "reset" \notin todo
  /\ pc = "idle" => todo = {}
  /\ pc = "setupAck" => "setup" \in todo
  /\ pc = "outAck" => todo = {"out"}
  /\ "setup" \in todo => todo = {"setup"} /\ "setup" \in sie
  /\ "setup" \in sie => pc = "idle" \/ todo = {"setup"}
  /\ "buff" \in todo => todo = {"buff"}
  /\ "in" \in todo => "in" \in buffStatus
  /\ "out" \in todo => "out" \in buffStatus

\* A SETUP the handler has not acted on finds nothing left of the transfer
\* before it.
Unseen == "setup" \in sie /\ pc # "setupAck"
UnseenInv ==
  /\ buffStatus = {} /\ ~epIn.avail /\ ~epIn.stall /\ ~epOut.avail
  /\ rest = << >> /\ pending = 0 /\ address = host.addr
  /\ setup = host.req /\ host.req \in Requests
  /\ host.stage = FirstStage(host.req) /\ host.pid = 1 /\ host.got = << >>

\* While the host reads an answer, what it lacks is the packet armed and
\* the packets saved, or, until the handler ships the next, the latter.
Packets == Answer(host.req)
NGot == Len(host.got)
DataInInv ==
  /\ host.req \in Requests /\ NGot < Len(Packets)
  /\ ~epIn.stall /\ pending = 0
  /\ epIn.avail =>
       /\ "in" \notin buffStatus
       /\ epIn.pid = host.pid /\ pids.in = 1 - host.pid
       /\ epIn.packet = Packets[NGot + 1]
       /\ Len(rest) = Len(Packets) - NGot - 1
       /\ \A k \in 1 .. Len(rest) : rest[k] = Packets[NGot + 1 + k]
  /\ ~epIn.avail =>
       /\ "in" \in buffStatus
       /\ pids.in = host.pid
       /\ Len(rest) = Len(Packets) - NGot
       /\ \A k \in 1 .. Len(rest) : rest[k] = Packets[NGot + k]

\* In the other stages EP0 is armed for what the host does next, if at all,
\* and for nothing else.
StageInv ==
  /\ host.stage # "dataIn" => rest = << >>
  /\ host.stage \in {"idle", "statusOut"} => ~epIn.avail
  /\ host.stage \in {"idle", "statusIn"} => ~epOut.avail
  /\ host.stage \in {"statusOut", "dataOut"} => host.pid = 1
  /\ epOut.avail => epOut.pid = 1
  /\ host.stage \in {"dataOut", "statusIn"} =>
       /\ "in" \notin buffStatus
       /\ epIn.avail => epIn.packet = << >>
       /\ epIn.stall => ~epIn.avail
  /\ host.stage = "dataOut" =>
       ~epIn.stall /\ epOut.avail /\ host.req.kind = "setLineCoding"

\* An address waits from its SETUP to the completion of its status stage.
AddressInv ==
  /\ pending = 0 => address = host.addr
  /\ pending # 0 =>
       \/ host.stage = "statusIn" /\ epIn.avail
       \/ host.stage = "idle" /\ "in" \in buffStatus /\ pending = host.addr
  /\ host.stage = "statusIn" =>
       /\ host.req \in Requests
       /\ pending = IF host.req.kind = "setAddress" THEN host.req.arg ELSE 0

TransferInv ==
  /\ HandlerInv /\ ~host.confused
  /\ Unseen => UnseenInv
  /\ ~Unseen => /\ host.stage = "dataIn" => DataInInv
                /\ StageInv /\ AddressInv

LEMMA TransferInit == Init => TransferInv
BY DEF Init, TransferInv, HandlerInv, Unseen, StageInv, AddressInv, Idle,
   NotArmed

\* Steps that concern only the handler's place and what it has read.
LEMMA HandlerFrame ==
  ASSUME TransferInv, HandlerInv', Unseen' = Unseen,
         UNCHANGED <<address, pending, rest, pids, epIn, epOut, setup, host>>,
         "in" \in buffStatus' <=> "in" \in buffStatus,
         Unseen => UNCHANGED buffStatus
  PROVE  TransferInv'
<1>1. UnseenInv /\ Unseen => UnseenInv'
  BY DEF UnseenInv
<1>2. DataInInv => DataInInv'
  BY DEF DataInInv, Packets, NGot
<1>3. StageInv => StageInv'
  BY DEF StageInv
<1>4. AddressInv => AddressInv'
  BY DEF AddressInv
<1>5. QED
  BY <1>1, <1>2, <1>3, <1>4 DEF TransferInv

LEMMA IsrFrameTransfer ==
  ASSUME TypeOK, TransferInv,
         IsrEnter \/ IsrReturn \/ IsrBusReset \/ IsrSetupAck
           \/ IsrReadBuffStatus \/ IsrOutDone \/ IsrOutAck
  PROVE  TransferInv'
<1> USE DEF device, dpram, status, isr, At
<1>1. HandlerInv /\ (Unseen => buffStatus = {})
  BY DEF TransferInv, UnseenInv
<1>2. /\ sie \subseteq {"reset", "setup"} /\ buffStatus \subseteq {"in", "out"}
      /\ todo \subseteq {"reset", "setup", "buff", "in", "out"}
  BY DEF TypeOK
<1>3. CASE IsrEnter
  <2>1. HandlerInv' /\ Unseen' = Unseen
    BY <1>1, <1>2, <1>3 DEF IsrEnter, Ints, HandlerInv, Unseen
  <2>2. QED
    BY <1>3, <2>1, HandlerFrame DEF IsrEnter
<1>4. CASE IsrReturn
  <2>1. HandlerInv' /\ Unseen' = Unseen
    BY <1>1, <1>2, <1>4 DEF IsrReturn, HandlerInv, Unseen
  <2>2. QED
    BY <1>4, <2>1, HandlerFrame DEF IsrReturn
<1>5. CASE IsrBusReset
  BY <1>1, <1>5 DEF IsrBusReset, HandlerInv
<1>6. CASE IsrSetupAck
  <2>1. HandlerInv' /\ Unseen' = Unseen
    BY <1>1, <1>2, <1>6 DEF IsrSetupAck, HandlerInv, Unseen
  <2>2. QED
    BY <1>6, <2>1, HandlerFrame DEF IsrSetupAck
<1>7. CASE IsrReadBuffStatus
  <2>1. HandlerInv' /\ Unseen' = Unseen
    BY <1>1, <1>2, <1>7 DEF IsrReadBuffStatus, HandlerInv, Unseen
  <2>2. QED
    BY <1>7, <2>1, HandlerFrame DEF IsrReadBuffStatus
<1>8. CASE IsrOutDone
  <2>1. "setup" \notin sie
    BY <1>1, <1>8 DEF IsrOutDone, HandlerInv
  <2>2. pc' \in {"bootsel", "outAck"}
    BY <1>8 DEF IsrOutDone
  <2>3. HandlerInv' /\ Unseen' = Unseen
    BY <1>1, <1>8, <2>1, <2>2 DEF IsrOutDone, HandlerInv, Unseen
  <2>4. QED
    BY <1>8, <2>3, HandlerFrame DEF IsrOutDone
<1>9. CASE IsrOutAck
  <2>1. HandlerInv' /\ Unseen' = Unseen /\ ~Unseen
    BY <1>1, <1>2, <1>9 DEF IsrOutAck, HandlerInv, Unseen
  <2>2. QED
    BY <1>9, <2>1, HandlerFrame DEF IsrOutAck
<1>10. QED
  BY <1>3, <1>4, <1>5, <1>6, <1>7, <1>8, <1>9

\* _usb_handle_setup starts the transfer the host expects.
LEMMA SetupTransfer ==
  ASSUME TypeOK, TransferInv, Setup
  PROVE  TransferInv'
<1>1. /\ pc = "dispatch" /\ "setup" \in todo /\ pc' = "setupAck"
      /\ UNCHANGED <<address, setup, sie, buffStatus, todo, bootsel, host,
                     count>>
  BY SetupFrame
<1>2. HandlerInv' /\ Unseen /\ ~Unseen'
  BY <1>1 DEF TransferInv, HandlerInv, Unseen
<1>3. UnseenInv /\ ~host.confused /\ setup \in Requests
  BY <1>2 DEF TransferInv, UnseenInv
<1> DEFINE r == setup
<1>4. /\ r = host.req /\ host.stage = FirstStage(r)
      /\ Len(host.got) = 0 /\ host.pid = 1 /\ buffStatus = {}
      /\ ~epIn.avail /\ ~epOut.avail /\ rest = << >> /\ pending = 0
      /\ address = host.addr
  BY <1>3, EmptySeq DEF UnseenInv
<1>5. /\ Answer(r) \in Seq(Packet)
      /\ Len(Answer(r)) = 0 \/ Len(Answer(r)) > 0
      /\ Len(Answer(r)) \in Nat
  BY <1>3, AnswerValue, LenProperties
<1>6. SUFFICES /\ host.stage = "dataIn" => DataInInv'
               /\ StageInv' /\ AddressInv'
  BY <1>1, <1>2, <1>3 DEF TransferInv
<1>7. CASE SetupGetDescriptor \/ SetupGetShort
  <2>1. /\ r.kind \in {"getDescriptor", "getShort"}
        /\ epIn' = [avail |-> TRUE, stall |-> FALSE, pid |-> 1,
                    packet |-> Answer(r)[1]]
        /\ pids'.in = 0 /\ UNCHANGED pending
    BY <1>7 DEF SetupGetDescriptor, SetupGetShort, InSetup, Send
  <2>2. host.stage = "dataIn" /\ Len(Answer(r)) > 0 /\ Answer(r) # << >>
    BY <1>3, <1>4, <2>1, FirstStageValue, EmptySeq
  <2>3. /\ rest' \in Seq(Packet) /\ Len(rest') = Len(Answer(r)) - 1
        /\ \A k \in 1 .. Len(rest') : rest'[k] = Answer(r)[1 + k]
    <3>1. CASE SetupGetDescriptor
      <4>1. rest' = Tail(Answer(r))
        BY <3>1 DEF SetupGetDescriptor
      <4>2. QED
        BY <1>5, <2>2, <4>1, HeadTailProperties
    <3>2. CASE SetupGetShort
      <4>1. rest' = << >> /\ r.kind = "getShort"
        BY <1>4, <3>2 DEF SetupGetShort, InSetup
      <4>2. Len(Answer(r)) = 1
        BY <1>3, <4>1, AnswerValue
      <4>3. QED
        BY <4>1, <4>2, EmptySeq
    <3>3. QED
      BY <1>7, <3>1, <3>2
  <2>4. epOut'.avail => epOut'.pid = 1
    BY <1>4, <1>7 DEF SetupGetDescriptor, SetupGetShort, Arm
  <2>5. DataInInv'
    BY <1>1, <1>3, <1>4, <1>5, <2>1, <2>2, <2>3 DEF DataInInv, Packets, NGot
  <2>6. StageInv' /\ AddressInv'
    BY <1>1, <1>4, <2>1, <2>2, <2>4 DEF StageInv, AddressInv
  <2>7. QED
    BY <2>5, <2>6
<1>8. CASE SetupSetLineCoding
  <2>1. /\ r.kind = "setLineCoding" /\ UNCHANGED <<pending, rest>>
        /\ epIn' = [avail |-> TRUE, stall |-> FALSE, pid |-> 1,
                    packet |-> << >>]
        /\ epOut' = [avail |-> TRUE, pid |-> 1]
    BY <1>8 DEF SetupSetLineCoding, InSetup, Send, Arm
  <2>2. host.stage = "dataOut"
    BY <1>3, <1>4, <2>1, FirstStageValue
  <2>3. QED
    BY <1>1, <1>4, <2>1, <2>2 DEF StageInv, AddressInv
<1>9. CASE SetupSetAddress \/ SetupSetConfiguration
           \/ SetupSetControlLineState
  <2>1. /\ r.kind \in {"setAddress", "setConfiguration",
                       "setControlLineState"}
        /\ epIn' = [avail |-> TRUE, stall |-> FALSE, pid |-> 1,
                    packet |-> << >>]
        /\ UNCHANGED <<rest, epOut>>
        /\ pending' = IF r.kind = "setAddress" THEN r.arg ELSE pending
    BY <1>9 DEF SetupSetAddress, SetupSetConfiguration,
       SetupSetControlLineState, InSetup, Send
  <2>2. host.stage = "statusIn"
    BY <1>3, <1>4, <2>1, FirstStageValue
  <2>3. r.kind = "setAddress" => r.arg # 0
    BY <1>3, RequestAssumption
  <2>4. StageInv'
    BY <1>1, <1>4, <2>1, <2>2 DEF StageInv
  <2>5. AddressInv'
    BY <1>1, <1>3, <1>4, <2>1, <2>2, <2>3 DEF AddressInv
  <2>6. QED
    BY <2>2, <2>4, <2>5
<1>10. CASE SetupUnknown
  <2>1. /\ r.kind = "unknown"
        /\ epIn' = [avail |-> FALSE, stall |-> TRUE, pid |-> 0,
                    packet |-> << >>]
        /\ UNCHANGED <<rest, epOut, pending>>
    BY <1>10 DEF SetupUnknown, InSetup, Stall
  <2>2. host.stage = "statusIn"
    BY <1>3, <1>4, <2>1, FirstStageValue
  <2>3. QED
    BY <1>1, <1>3, <1>4, <2>1, <2>2 DEF StageInv, AddressInv
<1>11. QED
  BY <1>7, <1>8, <1>9, <1>10 DEF Setup

\* The completion of EP0 IN ships the next packet ...
LEMMA ContinueTransfer ==
  ASSUME TypeOK, TransferInv, IsrInContinue
  PROVE  TransferInv'
<1>1. /\ pc = "dispatch" /\ "in" \in todo /\ todo \subseteq {"in", "out"}
      /\ todo' = todo \ {"in"} /\ buffStatus' = buffStatus \ {"in"}
      /\ rest # << >> /\ rest' = Tail(rest)
      /\ epIn' = [avail |-> TRUE, stall |-> FALSE, pid |-> pids.in,
                  packet |-> Head(rest)]
      /\ pids' = [pids EXCEPT !.in = 1 - @]
      /\ UNCHANGED <<address, pending, epOut, setup, sie, pc, bootsel, host,
                     count>>
  BY DEF IsrInContinue, InDone, At, Send
<1>2. "in" \in buffStatus /\ HandlerInv' /\ ~Unseen /\ ~Unseen'
  BY <1>1 DEF TransferInv, HandlerInv, Unseen
<1>3. host.stage = "dataIn" /\ DataInInv /\ StageInv /\ AddressInv
  BY <1>1, <1>2 DEF TransferInv, StageInv
<1>4. /\ ~epIn.avail /\ pids.in = host.pid
      /\ Len(rest) = Len(Packets) - NGot
      /\ \A k \in 1 .. Len(rest) : rest[k] = Packets[NGot + k]
  BY <1>2, <1>3 DEF DataInInv
<1>5. /\ rest \in Seq(Packet) /\ Len(rest) \in Nat /\ NGot \in Nat
      /\ Len(Packets) \in Nat
  <2>1. rest \in Seq(Packet) /\ host.got \in Seq(Packet)
    BY DEF TypeOK, Host
  <2>2. Packets \in Seq(Packet)
    BY <1>3, AnswerValue DEF DataInInv, Packets
  <2>3. QED
    BY <2>1, <2>2, LenProperties DEF NGot
<1>6. /\ Len(rest) > 0 /\ Head(rest) = rest[1] /\ Len(rest') = Len(rest) - 1
      /\ \A k \in 1 .. Len(rest') : rest'[k] = rest[k + 1]
  BY <1>1, <1>5, EmptySeq, HeadTailProperties
<1>7. pids'.in = 1 - host.pid
  BY <1>1, <1>4 DEF TypeOK
<1>8. /\ Head(rest) = Packets[NGot + 1]
      /\ Len(rest') = Len(Packets) - NGot - 1
      /\ \A k \in 1 .. Len(rest') : rest'[k] = Packets[NGot + 1 + k]
  <2>1. 1 \in 1 .. Len(rest)
    BY <1>5, <1>6
  <2>2. ASSUME NEW k \in 1 .. Len(rest')
        PROVE  rest'[k] = Packets[NGot + 1 + k]
    <3>1. k + 1 \in 1 .. Len(rest) /\ NGot + (k + 1) = NGot + 1 + k
      BY <1>5, <1>6
    <3>2. QED
      BY <1>4, <1>6, <3>1
  <2>3. QED
    BY <1>4, <1>5, <1>6, <2>1, <2>2
<1>9. Packets' = Packets /\ NGot' = NGot
  BY <1>1 DEF Packets, NGot
<1>10. DataInInv'
  BY <1>1, <1>3, <1>4, <1>7, <1>8, <1>9 DEF DataInInv
<1>11. StageInv' /\ AddressInv'
  BY <1>1, <1>3 DEF StageInv, AddressInv, DataInInv
<1>12. QED
  BY <1>1, <1>2, <1>10, <1>11 DEF TransferInv

\* ... or, at the end of a transfer, finds the host at the new address.
LEMMA ApplyWhen ==
  ASSUME TypeOK, TransferInv, IsrInApply
  PROVE  /\ host.stage \in {"idle", "statusOut"}
         /\ pending # 0 => pending = host.addr
         /\ "in" \in buffStatus /\ ~Unseen
<1>1. /\ pc = "dispatch" /\ "in" \in todo /\ todo \subseteq {"in", "out"}
      /\ rest = << >>
  BY DEF IsrInApply, InDone, At
<1>2. "in" \in buffStatus /\ ~Unseen
  BY <1>1 DEF TransferInv, HandlerInv, Unseen
<1>3. /\ host.stage = "dataIn" => DataInInv
      /\ StageInv /\ AddressInv
  BY <1>2 DEF TransferInv
<1>4. host.stage # "dataIn"
  <2>1. Len(rest) = 0
    BY <1>1, EmptySeq
  <2>2. SUFFICES ASSUME DataInInv PROVE FALSE
    BY <1>3
  <2>3. Len(Packets) \in Nat /\ NGot \in Nat
    <3>1. host.got \in Seq(Packet)
      BY DEF TypeOK, Host
    <3>2. Packets \in Seq(Packet)
      BY <2>2, AnswerValue DEF DataInInv, Packets
    <3>3. QED
      BY <3>1, <3>2, LenProperties DEF NGot
  <2>4. Len(rest) = Len(Packets) - NGot /\ NGot < Len(Packets)
    BY <1>2, <2>2 DEF DataInInv
  <2>5. QED
    BY <2>1, <2>3, <2>4
<1>5. host.stage \in {"idle", "statusOut"}
  BY <1>2, <1>3, <1>4 DEF TypeOK, Host, Stages, StageInv
<1>6. QED
  BY <1>2, <1>3, <1>5 DEF AddressInv

LEMMA ApplyTransfer ==
  ASSUME TypeOK, TransferInv, IsrInApply
  PROVE  TransferInv'
<1>1. /\ pc = "dispatch" /\ "in" \in todo /\ todo \subseteq {"in", "out"}
      /\ todo' = todo \ {"in"} /\ buffStatus' = buffStatus \ {"in"}
      /\ IF pending # 0 THEN address' = pending /\ pending' = 0
         ELSE UNCHANGED <<address, pending>>
      /\ UNCHANGED <<rest, pids, epIn, epOut, setup, sie, pc, host>>
  BY DEF IsrInApply, InDone, At
<1>2. /\ host.stage \in {"idle", "statusOut"}
      /\ pending # 0 => pending = host.addr
      /\ "in" \in buffStatus /\ ~Unseen
  BY ApplyWhen
<1>3. HandlerInv' /\ ~Unseen'
  BY <1>1, <1>2 DEF TransferInv, HandlerInv, Unseen
<1>4. StageInv /\ AddressInv /\ ~host.confused
  BY <1>2 DEF TransferInv
<1>5. StageInv'
  BY <1>1, <1>2, <1>4 DEF StageInv
<1>6. AddressInv'
  BY <1>1, <1>2, <1>4 DEF AddressInv
<1>7. QED
  BY <1>1, <1>2, <1>3, <1>4, <1>5, <1>6 DEF TransferInv

-----------------------------------------------------------------------------
(* The host.                                                               *)

\* A SETUP that abandons nothing finds the control endpoint at rest.
LEMMA HostSetupTransfer ==
  ASSUME ~LateIsr, TypeOK, TransferInv, host.stage = "idle",
         NEW r \in Requests, HostSetup(r)
  PROVE  TransferInv'
<1>1. /\ pc = "idle" /\ Ints = {} /\ setup' = r /\ sie' = sie \cup {"setup"}
      /\ epIn' = [epIn EXCEPT !.stall = FALSE]
      /\ host' = [host EXCEPT !.stage = FirstStage(r), !.req = r, !.pid = 1,
                              !.got = << >>]
      /\ UNCHANGED <<address, pending, rest, epOut, buffStatus, pc, todo>>
  BY DEF HostSetup, device, isr
<1>2. host \in Host /\ epIn \in InControl
  BY DEF TypeOK
<1>3. /\ host'.stage = FirstStage(r) /\ host'.req = r /\ host'.pid = 1
      /\ host'.got = << >> /\ host'.addr = host.addr
      /\ host'.confused = host.confused
  BY <1>1, <1>2 DEF Host
<1>4. ~epIn'.stall /\ epIn'.avail = epIn.avail
  BY <1>1, <1>2 DEF InControl
<1>5. sie = {} /\ buffStatus = {}
  BY <1>1 DEF Ints
<1>6. ~Unseen /\ StageInv /\ AddressInv /\ HandlerInv /\ ~host.confused
  BY <1>5 DEF TransferInv, Unseen
<1>7. /\ rest = << >> /\ ~epIn.avail /\ ~epOut.avail
      /\ pending = 0 /\ address = host.addr
  BY <1>5, <1>6 DEF StageInv, AddressInv
<1>8. UnseenInv' /\ Unseen'
  BY <1>1, <1>3, <1>4, <1>5, <1>7 DEF UnseenInv, Unseen
<1>9. HandlerInv'
  BY <1>1, <1>5, <1>6 DEF HandlerInv
<1>10. QED
  BY <1>3, <1>6, <1>8, <1>9 DEF TransferInv

\* No packet moves before the handler has seen the SETUP.
LEMMA TokenSeen ==
  ASSUME ~LateIsr, TransferInv, SetupSeen
  PROVE  /\ ~Unseen /\ HandlerInv /\ ~host.confused
         /\ host.stage = "dataIn" => DataInInv
         /\ StageInv /\ AddressInv
BY DEF TransferInv, SetupSeen, Unseen

LEMMA StalledTransfer ==
  ASSUME TypeOK, TransferInv, HostStalled
  PROVE  TransferInv'
<1>1. /\ host.stage \in {"dataIn", "statusIn"} /\ epIn.stall
      /\ UNCHANGED <<device, dpram, status, isr>>
  BY DEF HostStalled
<1>2. ~Unseen
  BY <1>1 DEF TransferInv, UnseenInv
<1>3. /\ host.stage = "statusIn" /\ StageInv /\ AddressInv
      /\ HandlerInv /\ ~host.confused
  BY <1>1, <1>2 DEF TransferInv, DataInInv
<1>4. host'.stage = "idle" /\ host'.addr = host.addr
      /\ host'.confused = host.confused
  BY DEF HostStalled, TypeOK, Host
<1>5. pending = 0 /\ ~epIn.avail
  BY <1>1, <1>3 DEF StageInv, AddressInv
<1>6. HandlerInv' /\ ~Unseen'
  BY <1>1, <1>2, <1>3 DEF HandlerInv, Unseen, status, isr
<1>7. StageInv' /\ AddressInv'
  BY <1>1, <1>3, <1>4, <1>5 DEF StageInv, AddressInv, device, dpram, status
<1>8. QED
  BY <1>3, <1>4, <1>6, <1>7 DEF TransferInv

\* The host takes the packet it expects, once.
LEMMA DataInTransfer ==
  ASSUME ~LateIsr, TypeOK, TransferInv, HostDataIn
  PROVE  TransferInv'
<1>1. /\ SetupSeen /\ epIn.avail /\ host.stage = "dataIn"
      /\ epIn' = [epIn EXCEPT !.avail = FALSE]
      /\ buffStatus' = buffStatus \cup {"in"}
      /\ UNCHANGED <<address, pending, rest, pids, epOut, setup, sie, pc,
                     todo>>
  BY DEF HostDataIn, TakesIn, device, isr
<1>2. /\ ~Unseen /\ HandlerInv /\ ~host.confused
      /\ DataInInv /\ StageInv /\ AddressInv
  BY <1>1, TokenSeen
<1>3. /\ host.req \in Requests /\ NGot < Len(Packets)
      /\ ~epIn.stall /\ pending = 0
      /\ epIn.pid = host.pid /\ pids.in = 1 - host.pid
      /\ epIn.packet = Packets[NGot + 1]
      /\ Len(rest) = Len(Packets) - NGot - 1
      /\ \A k \in 1 .. Len(rest) : rest[k] = Packets[NGot + 1 + k]
  BY <1>1, <1>2 DEF DataInInv
<1>4. /\ host.got \in Seq(Packet) /\ epIn.packet \in Packet
      /\ host \in Host /\ epIn \in InControl /\ rest \in Seq(Packet)
  BY DEF TypeOK, Host, InControl
<1>5. NGot \in Nat /\ Len(Packets) \in Nat /\ Len(rest) \in Nat
  <2>1. Packets \in Seq(Packet)
    BY <1>3, AnswerValue DEF Packets
  <2>2. QED
    BY <1>4, <2>1, LenProperties DEF NGot
<1> DEFINE got == Append(host.got, epIn.packet)
           last == Len(got) = Len(Packets)
<1>6. Len(got) = NGot + 1
  BY <1>4, AppendProperties DEF NGot
<1>7. /\ host'.got = got /\ host'.req = host.req /\ host'.addr = host.addr
      /\ host'.confused = host.confused
      /\ host'.stage = IF last THEN "statusOut" ELSE "dataIn"
      /\ host'.pid = IF last THEN 1 ELSE 1 - host.pid
  <2>1. host' = [host EXCEPT
          !.got = got,
          !.confused = @ \/ epIn.packet # Packets[Len(got)],
          !.stage = IF last THEN "statusOut" ELSE "dataIn",
          !.pid = IF last THEN 1 ELSE 1 - @]
    BY <1>3 DEF HostDataIn, Packets
  <2>2. epIn.packet = Packets[Len(got)]
    BY <1>3, <1>6
  <2> HIDE DEF got, last
  <2>3. /\ host'.got = got /\ host'.req = host.req /\ host'.addr = host.addr
        /\ host'.stage = IF last THEN "statusOut" ELSE "dataIn"
        /\ host'.pid = IF last THEN 1 ELSE 1 - host.pid
    BY <1>4, <2>1 DEF Host
  <2>4. host'.confused = (host.confused \/ epIn.packet # Packets[Len(got)])
    BY <1>4, <2>1 DEF Host
  <2>5. host.confused \in BOOLEAN
    BY <1>4 DEF Host
  <2>6. QED
    BY <2>2, <2>3, <2>4, <2>5
<1>8. Packets' = Packets /\ NGot' = NGot + 1
  BY <1>6, <1>7 DEF Packets, NGot
<1> HIDE DEF got
<1>9. /\ ~epIn'.avail /\ epIn'.stall = epIn.stall
      /\ epIn'.packet = epIn.packet
  BY <1>1, <1>4 DEF InControl
<1>10. HandlerInv' /\ ~Unseen'
  BY <1>1, <1>2 DEF HandlerInv, Unseen
<1>11. CASE last
  <2>1. rest = << >>
    BY <1>3, <1>4, <1>5, <1>6, <1>11, EmptySeq
  <2>2. host'.stage = "statusOut" /\ host'.pid = 1
    BY <1>7, <1>11
  <2>3. StageInv' /\ AddressInv'
    BY <1>1, <1>2, <1>3, <1>7, <1>9, <2>1, <2>2 DEF StageInv, AddressInv
  <2>4. QED
    BY <1>2, <1>7, <1>10, <2>2, <2>3 DEF TransferInv
<1>12. CASE ~last
  <2>1. host'.stage = "dataIn" /\ host'.pid = 1 - host.pid
    BY <1>7, <1>12
  <2>2. NGot + 1 < Len(Packets)
    BY <1>3, <1>5, <1>6, <1>12
  <2>3. /\ Len(rest) = Len(Packets) - (NGot + 1)
    BY <1>3, <1>5
  <2>4. DataInInv'
    BY <1>1, <1>3, <1>7, <1>8, <1>9, <2>1, <2>2, <2>3 DEF DataInInv
  <2>5. StageInv' /\ AddressInv'
    BY <1>1, <1>2, <1>3, <1>7, <1>9, <2>1 DEF StageInv, AddressInv
  <2>6. QED
    BY <1>2, <1>7, <1>10, <2>1, <2>4, <2>5 DEF TransferInv
<1>13. QED
  BY <1>11, <1>12

\* The status stage of a control write ends the transfer; from here on the
\* host talks to the address it has assigned.
LEMMA StatusInTransfer ==
  ASSUME ~LateIsr, TypeOK, TransferInv, HostStatusIn
  PROVE  TransferInv'
<1>1. /\ SetupSeen /\ epIn.avail /\ host.stage = "statusIn"
      /\ epIn' = [epIn EXCEPT !.avail = FALSE]
      /\ buffStatus' = buffStatus \cup {"in"}
      /\ UNCHANGED <<address, pending, rest, pids, epOut, setup, sie, pc,
                     todo>>
  BY DEF HostStatusIn, TakesIn, device, isr
<1>2. /\ ~Unseen /\ HandlerInv /\ ~host.confused /\ StageInv /\ AddressInv
  BY <1>1, TokenSeen
<1>3. epIn.packet = << >> /\ host.req \in Requests
  BY <1>1, <1>2 DEF StageInv, AddressInv
<1>4. /\ host'.stage = "idle"
      /\ host'.confused = (host.confused \/ epIn.packet # << >>)
      /\ host'.addr = IF host.req.kind = "setAddress" THEN host.req.arg
                      ELSE host.addr
  BY DEF HostStatusIn, TypeOK, Host
<1>5. ~epIn'.avail
  BY <1>1 DEF TypeOK, InControl
<1>6. HandlerInv' /\ ~Unseen'
  BY <1>1, <1>2 DEF HandlerInv, Unseen
<1>7. StageInv'
  BY <1>1, <1>2, <1>4, <1>5 DEF StageInv
<1>8. AddressInv'
  <2>1. host.req.kind = "setAddress" => host.req.arg # 0
    BY <1>3, RequestAssumption
  <2>2. QED
    BY <1>1, <1>2, <1>4, <2>1 DEF AddressInv
<1>9. ~host'.confused
  BY <1>2, <1>3, <1>4
<1>10. QED
  BY <1>4, <1>6, <1>7, <1>8, <1>9 DEF TransferInv

LEMMA OutTransfer ==
  ASSUME ~LateIsr, TypeOK, TransferInv, HostDataOut \/ HostStatusOut
  PROVE  TransferInv'
<1>1. /\ SetupSeen /\ epOut.avail /\ host.stage \in {"dataOut", "statusOut"}
      /\ UNCHANGED <<address, pending, rest, pids, epIn, setup, sie, pc,
                     todo>>
  BY DEF HostDataOut, HostStatusOut, SendsOut, device, isr
<1>2. /\ ~Unseen /\ HandlerInv /\ ~host.confused /\ StageInv /\ AddressInv
  BY <1>1, TokenSeen
<1>3. epOut.pid = host.pid
  BY <1>1, <1>2 DEF StageInv
<1>4. /\ epOut' = [epOut EXCEPT !.avail = FALSE]
      /\ buffStatus' = buffStatus \cup {"out"}
  BY <1>3 DEF HostDataOut, HostStatusOut, SendsOut
<1>5. ~epOut'.avail
  BY <1>4 DEF TypeOK, OutControl
<1>6. /\ host'.stage = IF host.stage = "dataOut" THEN "statusIn" ELSE "idle"
      /\ host'.addr = host.addr /\ host'.req = host.req
      /\ host'.confused = host.confused
  <2>0. host \in Host
    BY DEF TypeOK
  <2>1. CASE HostDataOut
    <3> DEFINE said == host.said1200 \/ host.req.arg = 1200
    <3>1. /\ host' = [host EXCEPT !.stage = "statusIn", !.pid = 1,
                                  !.said1200 = said]
          /\ host.stage = "dataOut"
      BY <2>1 DEF HostDataOut
    <3> HIDE DEF said
    <3>2. QED
      BY <2>0, <3>1 DEF Host
  <2>2. CASE HostStatusOut
    <3>1. /\ host' = [host EXCEPT !.stage = "idle"]
          /\ host.stage = "statusOut"
      BY <2>2 DEF HostStatusOut
    <3>2. QED
      BY <2>0, <3>1 DEF Host
  <2>3. QED
    BY <2>1, <2>2
<1>7. pending = 0 /\ address = host.addr
  BY <1>1, <1>2 DEF AddressInv
<1>8. HandlerInv' /\ ~Unseen'
  BY <1>1, <1>2, <1>4 DEF HandlerInv, Unseen
<1>9. StageInv'
  BY <1>1, <1>2, <1>4, <1>5, <1>6 DEF StageInv
<1>10. AddressInv'
  <2>1. CASE host.stage = "dataOut"
    <3>1. host.req.kind = "setLineCoding" /\ host'.stage = "statusIn"
      BY <1>2, <1>6, <2>1 DEF StageInv
    <3>2. host.req \in Requests \cup {NoRequest}
      BY DEF TypeOK, Host
    <3>3. host.req \in Requests
      BY <3>1, <3>2 DEF NoRequest
    <3>4. QED
      BY <1>1, <1>2, <1>6, <1>7, <3>1, <3>3 DEF AddressInv
  <2>2. CASE host.stage = "statusOut"
    BY <1>1, <1>2, <1>6, <1>7, <2>2 DEF AddressInv
  <2>3. QED
    BY <1>1, <2>1, <2>2
<1>11. host'.stage # "dataIn"
  BY <1>6
<1>12. QED
  BY <1>2, <1>6, <1>8, <1>9, <1>10, <1>11 DEF TransferInv

-----------------------------------------------------------------------------
(* All steps.                                                              *)

\* Who is undisturbed now was so before, and is not resetting the bus.
LEMMA StaysUndisturbed ==
  ASSUME TypeOK, [Next]_vars, Undisturbed'
  PROVE  /\ Undisturbed /\ ~HostBusReset
         /\ \A r \in Requests : HostSetup(r) => host.stage = "idle"
<1>1. count \in Count
  BY DEF TypeOK
<1>2. count.aborts \in Nat /\ count.resets \in Nat
  BY <1>1, BoundAssumption DEF Count
<1>3. ASSUME HostBusReset PROVE FALSE
  <2>1. count'.resets = count.resets + 1
    BY <1>1, <1>3 DEF HostBusReset, Count
  <2>2. QED
    BY <1>2, <2>1 DEF Undisturbed
<1>4. ASSUME NEW r \in Requests, HostSetup(r)
      PROVE  Undisturbed /\ host.stage = "idle"
  <2>1. count' = [count EXCEPT !.transfers = @ + 1,
          !.aborts = IF host.stage = "idle" THEN @ ELSE @ + 1]
    BY <1>4 DEF HostSetup
  <2>2. /\ count'.resets = count.resets
        /\ count'.aborts = IF host.stage = "idle" THEN count.aborts
                           ELSE count.aborts + 1
    BY <1>1, <2>1 DEF Count
  <2>3. QED
    BY <1>2, <2>2 DEF Undisturbed
<1>5. ASSUME Isr \/ HostToken \/ UNCHANGED vars
      PROVE  UNCHANGED count
  <2>1. CASE Setup
    BY <2>1, SetupFrame
  <2>2. CASE Isr /\ ~Setup
    BY <2>2 DEF Isr, Setup, IsrEnter, IsrReturn, IsrBusReset, IsrSetupAck,
       IsrReadBuffStatus, IsrInContinue, IsrInApply, InDone, IsrOutDone,
       IsrOutAck
  <2>3. CASE HostToken
    BY <2>3 DEF HostToken, HostStalled, HostDataIn, HostStatusIn, TakesIn,
       HostDataOut, HostStatusOut, SendsOut
  <2>4. CASE UNCHANGED vars
    BY <2>4 DEF vars
  <2>5. QED
    BY <1>5, <2>1, <2>2, <2>3, <2>4
<1>6. QED
  BY <1>3, <1>4, <1>5 DEF Next, Undisturbed

TransferNow == Undisturbed => TransferInv

LEMMA TransferNext ==
  ASSUME ~LateIsr, TypeOK, TransferNow, [Next]_vars
  PROVE  TransferNow'
<1> SUFFICES ASSUME Undisturbed' PROVE TransferInv'
  BY DEF TransferNow
<1>1. /\ Undisturbed /\ ~HostBusReset
      /\ \A r \in Requests : HostSetup(r) => host.stage = "idle"
  BY StaysUndisturbed
<1>2. TransferInv
  BY <1>1 DEF TransferNow
<1>3. CASE Isr
  BY <1>2, <1>3, IsrFrameTransfer, SetupTransfer, ContinueTransfer,
     ApplyTransfer DEF Isr, Setup
<1>4. CASE HostToken
  BY <1>2, <1>4, StalledTransfer, DataInTransfer, StatusInTransfer,
     OutTransfer DEF HostToken
<1>5. ASSUME NEW r \in Requests, HostSetup(r)
      PROVE  TransferInv'
  BY <1>1, <1>2, <1>5, HostSetupTransfer
<1>6. CASE UNCHANGED vars
  <2>1. UNCHANGED <<address, pending, rest, pids, epIn, epOut, setup, host,
                    sie, buffStatus, pc, todo>>
    BY <1>6 DEF vars, device, dpram, status, isr
  <2>2. HandlerInv' /\ Unseen' = Unseen
    BY <1>2, <2>1 DEF TransferInv, HandlerInv, Unseen
  <2>3. QED
    BY <1>2, <2>1, <2>2, HandlerFrame
<1>7. QED
  BY <1>1, <1>3, <1>4, <1>5, <1>6 DEF Next

LEMMA TransferInvariance ==
  ASSUME ~LateIsr
  PROVE  Spec => [](TypeOK /\ TransferNow)
<1>1. Init => TransferNow
  BY TransferInit DEF TransferNow
<1>2. TypeOK /\ TransferNow /\ [Next]_vars => TransferNow'
  BY TransferNext
<1>3. QED
  BY <1>1, <1>2, TypeInit, TypeNext, PTL DEF Spec

(***************************************************************************)
(* Between transfers the device answers to the address the host talks to:  *)
(* the deferred address is neither lost nor applied for another transfer,  *)
(* whatever requests come in whatever order.                               *)
(***************************************************************************)
THEOREM AddressesAgree == ASSUME ~LateIsr PROVE Spec => []AddressAgrees
<1>1. TypeOK /\ TransferNow => AddressAgrees
  <2> SUFFICES ASSUME TransferNow, Undisturbed, Quiet, host.stage = "idle"
               PROVE  address = host.addr
    BY DEF AddressAgrees
  <2>1. sie = {} /\ buffStatus = {}
    BY DEF Quiet, Ints
  <2>2. AddressInv
    BY <2>1 DEF TransferNow, TransferInv, Unseen
  <2>3. QED
    BY <2>1, <2>2 DEF AddressInv
<1>2. QED
  BY <1>1, TransferInvariance, PTL

(***************************************************************************)
(* The host gets the answer to the request it made, every packet once and  *)
(* in order, for answers of any length.                                    *)
(***************************************************************************)
THEOREM AnswersStayIntact == ASSUME ~LateIsr PROVE Spec => []AnswersIntact
<1>1. TypeOK /\ TransferNow => AnswersIntact
  BY DEF TransferNow, TransferInv, AnswersIntact
<1>2. QED
  BY <1>1, TransferInvariance, PTL

(***************************************************************************)
(* The device takes a new address only when the host has completed the     *)
(* status stage that assigns it.                                           *)
(***************************************************************************)
THEOREM AddressWaitsForStatus ==
  ASSUME ~LateIsr
  PROVE  Spec => AddressAfterStatus
<1>1. TypeOK /\ TransferNow /\ [Next]_vars =>
        [address' # address /\ Undisturbed => address' \in {0, host.addr}]_vars
  <2> SUFFICES ASSUME TypeOK, TransferNow, [Next]_vars, Undisturbed,
                      address' # address
               PROVE  address' \in {0, host.addr}
    OBVIOUS
  <2>1. IsrBusReset \/ IsrInApply
    <3>1. CASE Setup
      BY <3>1, SetupFrame
    <3>2. CASE Isr /\ ~Setup
      BY <3>2 DEF Isr, Setup, IsrEnter, IsrReturn, IsrSetupAck,
         IsrReadBuffStatus, IsrInContinue, InDone, IsrOutDone, IsrOutAck,
         device
    <3>3. CASE HostToken
      BY <3>3 DEF HostToken, HostStalled, HostDataIn, HostStatusIn, TakesIn,
         HostDataOut, HostStatusOut, SendsOut, device
    <3>4. CASE HostBusReset \/ \E r \in Requests : HostSetup(r)
      BY <3>4 DEF HostBusReset, HostSetup, device
    <3>5. CASE UNCHANGED vars
      BY <3>5 DEF vars, device
    <3>6. QED
      BY <3>1, <3>2, <3>3, <3>4, <3>5 DEF Next
  <2>2. CASE IsrBusReset
    BY <2>2 DEF IsrBusReset
  <2>3. CASE IsrInApply
    <3>1. TransferInv
      BY DEF TransferNow
    <3>2. pending # 0 => pending = host.addr
      BY <2>3, <3>1, ApplyWhen
    <3>3. QED
      BY <2>3, <3>2 DEF IsrInApply
  <2>4. QED
    BY <2>1, <2>2, <2>3
<1>2. QED
  BY <1>1, TransferInvariance, PTL DEF Spec, AddressAfterStatus

=============================================================================
