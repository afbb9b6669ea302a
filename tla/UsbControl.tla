----------------------------- MODULE UsbControl -----------------------------
(***************************************************************************)
(* Control transfers on endpoint 0 of src/usb.S: the SETUP handler, the    *)
(* multi-packet IN transfer, the deferred SET_ADDRESS, the line coding     *)
(* data stage with its 1200-baud reset to BOOTSEL, and bus reset, against  *)
(* a host that runs control transfers and may give them up.                *)
(*                                                                         *)
(* The handler runs one block of usb_device_isr at a time; the host may    *)
(* act between any two.  A packet of a control read is a pair              *)
(* <<request, k>>, the k-th packet of the answer; <<>> is a ZLP.           *)
(***************************************************************************)
EXTENDS Integers, Sequences, FiniteSets, SequencesExt

CONSTANTS
  Requests,      \* The requests the host makes: [kind, arg] records.
  Address,       \* The addresses it assigns.
  MaxTransfers,  \* Bound: SETUP packets.
  MaxAborts,     \* Bound: transfers given up for a new SETUP.
  MaxResets,     \* Bound: bus resets.
  LateIsr        \* May a SETUP come before the handler has finished with
                 \* the previous transfer?

Kinds == {"setAddress", "getDescriptor", "getShort", "setConfiguration",
          "setLineCoding", "setControlLineState", "unknown"}

ASSUME RequestAssumption ==
  /\ \A r \in Requests : r.kind \in Kinds /\ r.arg \in Nat
  /\ Address \subseteq Nat \ {0}
  /\ \A r \in Requests : r.kind = "setAddress" => r.arg \in Address
  /\ \A r \in Requests : r.kind = "getDescriptor" => r.arg > 0
ASSUME BoundAssumption ==
  /\ MaxTransfers \in Nat /\ MaxAborts \in Nat /\ MaxResets \in Nat
  /\ LateIsr \in BOOLEAN

VARIABLES
  address,    \* ADDR_ENDP: the address the controller answers to.
  pending,    \* usb_pending_address.
  configured, \* usb_configured.
  dtr,        \* cdc_dtr.
  setlc,      \* usb_setlc_pending.
  rest,       \* usb_ep0_tx_src and _remaining: the packets still to send.
  pids,       \* usb_ep0_pid and usb_ep0_out_pid.
  epIn,       \* EP0 IN: its buf_ctrl word.
  epOut,      \* EP0 OUT: its buf_ctrl word.
  buf,        \* What EP0_BUF0 holds, which both directions share.
  setup,      \* The SETUP packet in DPRAM.
  sie,        \* BUS_RESET and SETUP_REC of SIE_STATUS.
  buffStatus, \* BUFF_STATUS, bits 0 and 1.
  pc, todo,   \* The handler: its place, and what its reads still ask for.
  bootsel,    \* Has rom_reset_to_bootsel been called?
  host,       \* The host's side of the transfer in progress.
  count       \* Transfers, aborts and resets so far (bounds).

device == <<address, pending, configured, dtr, setlc, rest, pids>>
dpram == <<epIn, epOut, buf, setup>>
status == <<sie, buffStatus>>
isr == <<pc, todo, bootsel>>
vars == <<device, dpram, status, isr, host, count>>

NoRequest == [kind |-> "unknown", arg |-> 0]
Idle == [avail |-> FALSE, stall |-> FALSE, pid |-> 0, packet |-> << >>]
NotArmed == [avail |-> FALSE, pid |-> 0]

\* The packets that answer a control read.
Answer(r) ==
  IF r.kind = "getDescriptor" THEN [k \in 1 .. r.arg |-> <<r, k>>]
  ELSE IF r.kind = "getShort" THEN << <<r, 1>> >> ELSE << >>

Init ==
  /\ address = 0 /\ pending = 0 /\ configured = 0
  /\ dtr = 0 /\ setlc = FALSE /\ rest = << >>
  /\ pids = [in |-> 0, out |-> 0]
  /\ epIn = Idle /\ epOut = NotArmed /\ buf = "zero" /\ setup = NoRequest
  /\ sie = {} /\ buffStatus = {}
  /\ pc = "idle" /\ todo = {} /\ bootsel = FALSE
  /\ host = [stage |-> "idle", req |-> NoRequest, pid |-> 0, got |-> << >>,
             addr |-> 0, open |-> FALSE, confused |-> FALSE,
             said1200 |-> FALSE]
  /\ count = [transfers |-> 0, aborts |-> 0, resets |-> 0]

-----------------------------------------------------------------------------
(* Endpoint primitives, as functions of the toggles.                       *)

\* usb_ep_send(0, ...): copy (nothing, for a ZLP) and arm with the toggle.
Send(packet, pid) ==
  /\ epIn' = [avail |-> TRUE, stall |-> FALSE, pid |-> pid, packet |-> packet]
  /\ buf' = IF packet = << >> THEN buf ELSE "answer"

\* usb_ep_receive_arm(0, ...).
Arm(pid) == epOut' = [avail |-> TRUE, pid |-> pid]

Stall ==
  epIn' = [avail |-> FALSE, stall |-> TRUE, pid |-> 0, packet |-> << >>]

-----------------------------------------------------------------------------
(* usb_device_isr.                                                         *)

Ints == sie \cup (IF buffStatus # {} THEN {"buff"} ELSE {})
At(label) == pc = label

IsrEnter ==
  /\ At("idle")
  /\ Ints # {}
  /\ todo' = Ints
  /\ pc' = "dispatch"
  /\ UNCHANGED <<device, dpram, status, bootsel, host, count>>

IsrReturn ==
  /\ At("dispatch")
  /\ todo = {}
  /\ pc' = "idle"
  /\ UNCHANGED <<device, dpram, status, todo, bootsel, host, count>>

\* _usb_handle_bus_reset: rest, setlc and dtr are left alone.
IsrBusReset ==
  /\ At("dispatch")
  /\ "reset" \in todo
  /\ address' = 0 /\ pending' = 0 /\ configured' = 0
  /\ pids' = [in |-> 0, out |-> 0]
  /\ sie' = sie \ {"reset"}
  /\ todo' = todo \ {"reset"}
  /\ UNCHANGED <<dtr, setlc, rest, dpram, buffStatus, pc, bootsel, host,
                 count>>

\* The branches of _usb_handle_setup.  Each starts from toggles of DATA1
\* and leaves DATA0 for the direction it arms.
InSetup(kind) ==
  /\ At("dispatch")
  /\ "reset" \notin todo /\ "setup" \in todo
  /\ setup.kind = kind
  /\ pc' = "setupAck"
  /\ UNCHANGED <<address, setup, status, todo, bootsel, host, count>>

\* Mutant of SetupSetAddress: the address is applied at once.
SetupSetAddressNow ==
  /\ At("dispatch")
  /\ "reset" \notin todo /\ "setup" \in todo
  /\ setup.kind = "setAddress"
  /\ pc' = "setupAck"
  /\ address' = setup.arg
  /\ Send(<< >>, 1)
  /\ pids' = [in |-> 0, out |-> 1]
  /\ UNCHANGED <<pending, configured, dtr, setlc, rest, epOut, setup, status,
                 todo, bootsel, host, count>>

SetupSetAddress ==
  /\ InSetup("setAddress")
  /\ pending' = setup.arg
  /\ Send(<< >>, 1)
  /\ pids' = [in |-> 0, out |-> 1]
  /\ UNCHANGED <<configured, dtr, setlc, rest, epOut>>

\* Mutant of SetupGetDescriptor: the rest of the answer is not saved.
SetupGetDescriptorFirstOnly ==
  /\ InSetup("getDescriptor")
  /\ Send(Answer(setup)[1], 1)
  /\ Arm(1)
  /\ pids' = [in |-> 0, out |-> 0]
  /\ UNCHANGED <<pending, configured, dtr, setlc, rest>>

\* Mutant of SetupGetDescriptor: the rest includes the packet sent first.
SetupGetDescriptorTwice ==
  /\ InSetup("getDescriptor")
  /\ rest' = Answer(setup)
  /\ Send(Answer(setup)[1], 1)
  /\ Arm(1)
  /\ pids' = [in |-> 0, out |-> 0]
  /\ UNCHANGED <<pending, configured, dtr, setlc>>

\* _usb_send_descriptor and _usb_ep0_start_tx: the first packet, the rest
\* saved, EP0 OUT armed for the host's status ZLP.
SetupGetDescriptor ==
  /\ InSetup("getDescriptor")
  /\ rest' = Tail(Answer(setup))
  /\ Send(Answer(setup)[1], 1)
  /\ Arm(1)
  /\ pids' = [in |-> 0, out |-> 0]
  /\ UNCHANGED <<pending, configured, dtr, setlc>>

\* GET_CONFIGURATION, GET_STATUS, GET_LINE_CODING: one packet, and EP0 OUT
\* is not armed.
SetupGetShort ==
  /\ InSetup("getShort")
  /\ Send(Answer(setup)[1], 1)
  /\ pids' = [in |-> 0, out |-> 1]
  /\ UNCHANGED <<pending, configured, dtr, setlc, rest, epOut>>

SetupSetConfiguration ==
  /\ InSetup("setConfiguration")
  /\ configured' = setup.arg
  /\ Send(<< >>, 1)
  /\ pids' = [in |-> 0, out |-> 1]
  /\ UNCHANGED <<pending, dtr, setlc, rest, epOut>>

\* Mutant of SetupSetLineCoding: the data stage is not announced.
SetupSetLineCodingSilent ==
  /\ InSetup("setLineCoding")
  /\ Arm(1)
  /\ Send(<< >>, 1)
  /\ pids' = [in |-> 0, out |-> 0]
  /\ UNCHANGED <<pending, configured, dtr, setlc, rest>>

\* SET_LINE_CODING: arm the data stage, and at once the status stage.
SetupSetLineCoding ==
  /\ InSetup("setLineCoding")
  /\ setlc' = TRUE
  /\ Arm(1)
  /\ Send(<< >>, 1)
  /\ pids' = [in |-> 0, out |-> 0]
  /\ UNCHANGED <<pending, configured, dtr, rest>>

\* Mutant of SetupSetControlLineState: RTS is taken with DTR.
SetupSetControlLineStateBoth ==
  /\ InSetup("setControlLineState")
  /\ dtr' = setup.arg
  /\ Send(<< >>, 1)
  /\ pids' = [in |-> 0, out |-> 1]
  /\ UNCHANGED <<pending, configured, setlc, rest, epOut>>

\* SET_CONTROL_LINE_STATE: bit 0 of wValue is DTR, bit 1 RTS.
SetupSetControlLineState ==
  /\ InSetup("setControlLineState")
  /\ dtr' = setup.arg % 2
  /\ Send(<< >>, 1)
  /\ pids' = [in |-> 0, out |-> 1]
  /\ UNCHANGED <<pending, configured, setlc, rest, epOut>>

SetupUnknown ==
  /\ InSetup("unknown")
  /\ Stall
  /\ pids' = [in |-> 1, out |-> 1]
  /\ UNCHANGED <<pending, configured, dtr, setlc, rest, epOut, buf>>

\* The W1C of SETUP_REC, after the handler.
IsrSetupAck ==
  /\ At("setupAck")
  /\ sie' = sie \ {"setup"}
  /\ todo' = todo \ {"setup"}
  /\ pc' = "dispatch"
  /\ UNCHANGED <<device, dpram, buffStatus, bootsel, host, count>>

\* _usb_handle_buff_status: read BUFF_STATUS.
IsrReadBuffStatus ==
  /\ At("dispatch")
  /\ todo = {"buff"}
  /\ todo' = buffStatus
  /\ UNCHANGED <<device, dpram, status, pc, bootsel, host, count>>

InDone ==
  /\ At("dispatch")
  /\ todo \subseteq {"in", "out"} /\ "in" \in todo
  /\ todo' = todo \ {"in"}
  /\ buffStatus' = buffStatus \ {"in"}
  /\ UNCHANGED <<configured, dtr, setlc, epOut, setup, sie, pc, bootsel, host,
                 count>>

\* EP0 IN completed: W1C first, then _usb_ep0_tx_continue ...
IsrInContinue ==
  /\ InDone
  /\ rest # << >>
  /\ rest' = Tail(rest)
  /\ Send(Head(rest), pids.in)
  /\ pids' = [pids EXCEPT !.in = 1 - @]
  /\ UNCHANGED <<address, pending>>

\* Mutant of IsrInApply: the address is dropped.
IsrInApplyLost ==
  /\ InDone
  /\ rest = << >>
  /\ pending' = 0
  /\ UNCHANGED <<address, rest, pids, epIn, buf>>

\* ... or, at the end of a transfer, the deferred SET_ADDRESS.
IsrInApply ==
  /\ InDone
  /\ rest = << >>
  /\ IF pending # 0
     THEN address' = pending /\ pending' = 0
     ELSE UNCHANGED <<address, pending>>
  /\ UNCHANGED <<rest, pids, epIn, buf>>

\* EP0 OUT completed: the data stage of SET_LINE_CODING if one is expected,
\* and at 1200 baud the reset to BOOTSEL, which does not return.
IsrOutDone ==
  /\ At("dispatch")
  /\ todo = {"out"}
  /\ setlc' = FALSE
  /\ IF setlc /\ buf = "baud1200"
     THEN bootsel' = TRUE /\ pc' = "bootsel"
     ELSE UNCHANGED bootsel /\ pc' = "outAck"
  /\ UNCHANGED <<address, pending, configured, dtr, rest, pids, dpram, status,
                 todo, host, count>>

IsrOutAck ==
  /\ At("outAck")
  /\ buffStatus' = buffStatus \ {"out"}
  /\ todo' = todo \ {"out"}
  /\ pc' = "dispatch"
  /\ UNCHANGED <<device, dpram, sie, bootsel, host, count>>

Isr ==
  \/ IsrEnter \/ IsrReturn \/ IsrBusReset
  \/ SetupSetAddress \/ SetupGetDescriptor \/ SetupGetShort
  \/ SetupSetConfiguration \/ SetupSetLineCoding \/ SetupSetControlLineState
  \/ SetupUnknown \/ IsrSetupAck
  \/ IsrReadBuffStatus \/ IsrInContinue \/ IsrInApply
  \/ IsrOutDone \/ IsrOutAck

-----------------------------------------------------------------------------
(* The host and the controller.                                            *)

FirstStage(r) ==
  IF Answer(r) # << >> THEN "dataIn"
  ELSE IF r.kind = "setLineCoding" THEN "dataOut" ELSE "statusIn"

\* A SETUP packet, which the controller always accepts; it clears a stall.
\* In the middle of a transfer it abandons it.  Set-address and reset
\* recovery give the handler time to run.
HostSetup(r) ==
  /\ ~bootsel
  /\ count.transfers < MaxTransfers
  /\ host.stage # "idle" => count.aborts < MaxAborts
  /\ address = host.addr
  /\ "reset" \notin sie
  /\ LateIsr \/ (pc = "idle" /\ Ints = {})
  /\ setup' = r
  /\ sie' = sie \cup {"setup"}
  /\ epIn' = [epIn EXCEPT !.stall = FALSE]
  /\ host' = [host EXCEPT !.stage = FirstStage(r), !.req = r, !.pid = 1,
                          !.got = << >>]
  /\ count' = [count EXCEPT !.transfers = @ + 1,
                 !.aborts = IF host.stage = "idle" THEN @ ELSE @ + 1]
  /\ UNCHANGED <<device, epOut, buf, buffStatus, isr>>

HostStalled ==
  /\ host.stage \in {"dataIn", "statusIn"}
  /\ epIn.stall
  /\ host' = [host EXCEPT !.stage = "idle"]
  /\ UNCHANGED <<device, dpram, status, isr, count>>

\* EP0 answers NAK from a SETUP until the handler has acted on it, or so a
\* benign controller and host would have it.
SetupSeen == "setup" \notin sie \/ pc = "setupAck" \/ LateIsr

\* The controller sends the armed packet; with the wrong toggle the host
\* takes it for a retransmission.
TakesIn ==
  /\ ~bootsel
  /\ address = host.addr
  /\ SetupSeen
  /\ epIn.avail
  /\ epIn' = [epIn EXCEPT !.avail = FALSE]
  /\ buffStatus' = buffStatus \cup {"in"}
  /\ UNCHANGED <<device, epOut, buf, setup, sie, isr, count>>

HostDataIn ==
  /\ TakesIn
  /\ host.stage = "dataIn"
  /\ IF epIn.pid # host.pid
     THEN UNCHANGED host
     ELSE LET got == Append(host.got, epIn.packet)
              last == Len(got) = Len(Answer(host.req))
          IN  host' = [host EXCEPT
                !.got = got,
                !.confused = @ \/ epIn.packet # Answer(host.req)[Len(got)],
                !.stage = IF last THEN "statusOut" ELSE "dataIn",
                !.pid = IF last THEN 1 ELSE 1 - @]

HostStatusIn ==
  /\ TakesIn
  /\ host.stage = "statusIn"
  /\ host' = [host EXCEPT
       !.stage = "idle",
       !.confused = @ \/ epIn.packet # << >>,
       !.addr = IF host.req.kind = "setAddress" THEN host.req.arg ELSE @,
       !.open = IF host.req.kind = "setControlLineState"
                THEN host.req.arg % 2 = 1 ELSE @]

\* The host sends an OUT packet, data or the status ZLP.
SendsOut ==
  /\ ~bootsel
  /\ address = host.addr
  /\ SetupSeen
  /\ epOut.avail
  /\ IF epOut.pid = host.pid
     THEN /\ epOut' = [epOut EXCEPT !.avail = FALSE]
          /\ buffStatus' = buffStatus \cup {"out"}
     ELSE UNCHANGED <<epOut, buffStatus>>
  /\ UNCHANGED <<device, epIn, setup, sie, isr, count>>

HostDataOut ==
  /\ SendsOut
  /\ host.stage = "dataOut"
  /\ buf' = IF epOut.pid # host.pid THEN buf
            ELSE IF host.req.arg = 1200 THEN "baud1200" ELSE "otherBaud"
  /\ host' = [host EXCEPT !.stage = "statusIn", !.pid = 1,
                          !.said1200 = @ \/ host.req.arg = 1200]

HostStatusOut ==
  /\ SendsOut
  /\ host.stage = "statusOut"
  /\ host' = [host EXCEPT !.stage = "idle"]
  /\ UNCHANGED buf

HostBusReset ==
  /\ ~bootsel
  /\ count.resets < MaxResets
  /\ count' = [count EXCEPT !.resets = @ + 1]
  /\ sie' = sie \cup {"reset"}
  /\ host' = [host EXCEPT !.stage = "idle", !.addr = 0, !.open = FALSE]
  /\ UNCHANGED <<device, dpram, buffStatus, isr>>

HostToken ==
  HostStalled \/ HostDataIn \/ HostStatusIn \/ HostDataOut \/ HostStatusOut

Next ==
  \/ Isr
  \/ HostToken
  \/ \E r \in Requests : HostSetup(r)
  \/ HostBusReset

(***************************************************************************)
(* Fairness: the handler runs, and the host goes on with the transfer it   *)
(* has begun.  It need not begin another.                                  *)
(***************************************************************************)
Spec == Init /\ [][Next]_vars /\ WF_vars(Isr) /\ WF_vars(HostToken)

-----------------------------------------------------------------------------
Packet == {<< >>} \cup (Requests \X (Nat \ {0}))
Pids == {0, 1}
InControl == [avail : BOOLEAN, stall : BOOLEAN, pid : Pids, packet : Packet]
OutControl == [avail : BOOLEAN, pid : Pids]
Stages == {"idle", "dataIn", "statusOut", "dataOut", "statusIn"}
Host == [stage : Stages, req : Requests \cup {NoRequest}, pid : Pids,
         got : Seq(Packet), addr : Address \cup {0},
         open : BOOLEAN, confused : BOOLEAN, said1200 : BOOLEAN]
Count == [transfers : 0 .. MaxTransfers, aborts : 0 .. MaxAborts,
          resets : 0 .. MaxResets]

TypeOK ==
  /\ address \in Address \cup {0} /\ pending \in Address \cup {0}
  /\ configured \in Nat /\ dtr \in {0, 1} /\ setlc \in BOOLEAN
  /\ rest \in Seq(Packet)
  /\ pids \in [in : Pids, out : Pids]
  /\ epIn \in InControl /\ epOut \in OutControl
  /\ buf \in {"zero", "answer", "baud1200", "otherBaud"}
  /\ setup \in Requests \cup {NoRequest}
  /\ sie \subseteq {"reset", "setup"}
  /\ buffStatus \subseteq {"in", "out"}
  /\ pc \in {"idle", "dispatch", "setupAck", "outAck", "bootsel"}
  /\ todo \subseteq {"reset", "setup", "buff", "in", "out"}
  /\ bootsel = (pc = "bootsel")
  /\ host \in Host /\ count \in Count

Quiet == pc = "idle" /\ Ints = {}

\* The host has neither abandoned a transfer nor reset the bus so far.
Undisturbed == count.aborts = 0 /\ count.resets = 0

(***************************************************************************)
(* SET_ADDRESS is "finished at address zero": the device starts to answer  *)
(* to a new address only once the host has completed the status stage that *)
(* assigns it, whatever other transfers come in between.                   *)
(***************************************************************************)
AddressAfterStatus ==
  [][address' # address /\ Undisturbed => address' \in {0, host.addr}]_vars

(***************************************************************************)
(* "... then start using N": between transfers, once the handler has run,  *)
(* the device answers to the address the host talks to.                    *)
(***************************************************************************)
AddressAgrees ==
  Undisturbed /\ Quiet /\ host.stage = "idle" => address = host.addr

(***************************************************************************)
(* The host receives the answer to the request it made, packet by packet,  *)
(* and an empty packet as the status of a control write.                   *)
(***************************************************************************)
AnswersIntact == Undisturbed => ~host.confused

(***************************************************************************)
(* The device resets into BOOTSEL only if the host sent 1200 baud: the     *)
(* word it inspects lies in a buffer that answers share.                   *)
(***************************************************************************)
BootselIsAsked == bootsel => host.said1200

(***************************************************************************)
(* The device resets into BOOTSEL exactly when it is asked: never before   *)
(* the host has sent 1200 baud, and always after an undisturbed request.   *)
(***************************************************************************)
BootselExactlyWhenAsked ==
  /\ []BootselIsAsked
  /\ host.stage = "statusIn" /\ host.req.kind = "setLineCoding"
       /\ host.req.arg = 1200 ~> bootsel \/ ~Undisturbed

(***************************************************************************)
(* cdc_dtr is "1 when the host has opened the tty, 0 when it's closed",    *)
(* once control transfers and resets have been handled.                    *)
(***************************************************************************)
DtrMeansOpen == Quiet /\ host.stage = "idle" => (dtr = 1) = host.open

(***************************************************************************)
(* Every transfer the host begins is completed, by its status stage or a   *)
(* stall: at each stage the endpoint the host addresses is armed.  The     *)
(* short answers are the exception (TransfersCompleteAll of MCUsbControl). *)
(***************************************************************************)
TransfersComplete ==
  host.stage # "idle" /\ host.req.kind # "getShort"
    ~> host.stage = "idle" \/ bootsel \/ ~Undisturbed

=============================================================================
