----------------------------- MODULE MCRustApps -----------------------------
(* Instances of RustApps for TLC.                                          *)
EXTENDS RustApps

MCApps == {"hello_rust", "ssd1306_demo", "bme280_demo"}
\* 9 and 11 cycles of a CYCCNT that wraps at 16.
MCDelay == [hello_rust |-> 0, ssd1306_demo |-> 66, bme280_demo |-> 74]
MCTemperatures == {-1500, 0, 21007}
MCBelowZero == {-500}
=============================================================================
