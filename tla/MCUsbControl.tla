---------------------------- MODULE MCUsbControl ----------------------------
(***************************************************************************)
(* UsbControl with one request of each kind: a two-packet descriptor (the  *)
(* 67-byte configuration bundle), a one-packet one, and line codings of    *)
(* 1200 baud and another.                                                  *)
(***************************************************************************)
EXTENDS UsbControl

Req(kind, arg) == [kind |-> kind, arg |-> arg]

MCAddress == {1, 2}

\* Without the requests answered by a single usb_ep_send.
MCRequests ==
  { Req("setAddress", 1), Req("setAddress", 2),
    Req("getDescriptor", 1), Req("getDescriptor", 2),
    Req("setConfiguration", 1),
    Req("setLineCoding", 1200), Req("setLineCoding", 0),
    Req("setControlLineState", 2), Req("setControlLineState", 3),
    Req("unknown", 0) }

MCShortRequests == MCRequests \cup { Req("getShort", 0) }

(***************************************************************************)
(* Stronger claims, of the documentation or of a careful reader, that the  *)
(* code does not keep: the configurations below violate them.              *)
(***************************************************************************)
\* docs/usb.md: the address is applied by the status stage that assigns it,
\* even if the host has abandoned a transfer before.
AddressAfterStatusAlways ==
  [][address' # address /\ "reset" \notin sie =>
       address' \in {0, host.addr}]_vars

\* docs/usb.md: "... then start using N", also after a bus reset.
AddressAgreesAlways == Quiet /\ host.stage = "idle" => address = host.addr

\* The header of _usb_handle_setup: EP0 OUT is armed for every status stage.
TransfersCompleteAll ==
  host.stage # "idle" ~> host.stage = "idle" \/ bootsel

=============================================================================
