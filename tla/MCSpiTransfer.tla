--------------------------- MODULE MCSpiTransfer ---------------------------
(* Instances of SpiTransfer for TLC.                                       *)
EXTENDS SpiTransfer

\* One call of each kind, all longer than the FIFOs, slices of different
\* lengths, and an empty one.
MCCalls ==
  {[kind |-> "write", out |-> 7, in |-> 0],
   [kind |-> "read", out |-> 0, in |-> 7],
   [kind |-> "transfer", out |-> 6, in |-> 7],
   [kind |-> "transfer", out |-> 2, in |-> 0],
   [kind |-> "transfer_in_place", out |-> 7, in |-> 0]}
=============================================================================
