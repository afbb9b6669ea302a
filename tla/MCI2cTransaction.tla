-------------------------- MODULE MCI2cTransaction --------------------------
(* Instances of I2cTransaction for TLC.                                    *)
EXTENDS I2cTransaction

W(n) == [kind |-> "write", len |-> n]
R(n) == [kind |-> "read", len |-> n]

\* A register read, a gathered write, a long read and a long write (both
\* beyond the FIFOs), a turn back to writing, and no operation at all.
MCPrograms ==
  {<<W(1), R(5)>>, <<W(2), W(1)>>, <<R(6)>>, <<W(5)>>, <<R(1), W(2), R(2)>>,
   <<>>}

\* An empty write, which i2c.S calls a bus probe, and an empty read at the end.
MCProbes == {<<W(0)>>, <<W(1), R(0)>>, <<W(1)>>}
=============================================================================
