----------------------------- MODULE MCUsbCdc ------------------------------
(***************************************************************************)
(* UsbCdc with four-slot rings and two-byte packets.  The .cfg files give  *)
(* the bounds of each direction and what the host may do.                  *)
(***************************************************************************)
EXTENDS UsbCdc

=============================================================================
