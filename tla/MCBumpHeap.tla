----------------------------- MODULE MCBumpHeap -----------------------------
(***************************************************************************)
(* BumpHeap with sixteen bytes, main and two nested handlers: room for a   *)
(* few blocks with padding between them, so that calls are refused before  *)
(* and after a retry.                                                      *)
(***************************************************************************)
EXTENDS BumpHeap

Layout(s, a) == [size |-> s, align |-> a]

MCRequest == { Layout(1, 1), Layout(5, 2), Layout(6, 4), Layout(8, 8) }

\* HEAP is only align(8), and alloc aligns the offset, not the address.
MCWideRequest == MCRequest \cup { Layout(1, 16) }

=============================================================================
