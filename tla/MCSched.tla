------------------------------ MODULE MCSched -------------------------------
(***************************************************************************)
(* Sched with two tasks, one device line, three priority bands and every   *)
(* assignment of bands to lines.                                           *)
(***************************************************************************)
EXTENDS Sched

MCTask == {0, 1}
MCHighTask == {1, 4}     \* Task 4 is interrupt 52, past the vector table.
MCDevice == {-1}
MCPrio == {0, 1, 2}
MCThreshold == {1, 2}

=============================================================================
