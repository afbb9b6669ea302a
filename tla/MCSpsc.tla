------------------------------- MODULE MCSpsc -------------------------------
(***************************************************************************)
(* Spsc on a four-slot ring, the smallest M_SPSC_BYTE_QUEUE can declare    *)
(* (log2size 2), with two byte values: both indices wrap many times and    *)
(* the ring fills and empties under every interleaving.                    *)
(***************************************************************************)
EXTENDS Spsc

\* Two values tell a stale slot from a written one.
MCByte == {0, 1}
MCSize == 4

=============================================================================
