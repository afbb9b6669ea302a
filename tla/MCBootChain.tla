---------------------------- MODULE MCBootChain ----------------------------
(***************************************************************************)
(* BootChain with a healthy build of two pages and a hanging one of one,   *)
(* in slots of two pages.                                                  *)
(***************************************************************************)
EXTENDS BootChain

CONSTANTS good, hangs

MCBuild == {good, hangs}
MCHealthy == {good}
MCSize == [b \in MCBuild |-> IF b = good THEN 2 ELSE 1]

=============================================================================
