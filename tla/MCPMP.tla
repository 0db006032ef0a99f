------------------------------- MODULE MCPMP -------------------------------
(* Model-checking instance of the boot and the PMP region table: three     *)
(* harts, so that two wait for the cold one; twelve addresses in pages of  *)
(* two, with the monitor in the middle, so that regions of one register    *)
(* and of two fit on both sides; five registers, so that they run out      *)
(* before the memory or the slots do.                                      *)
EXTENDS Boot
=============================================================================
