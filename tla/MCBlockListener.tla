--------------------------- MODULE MCBlockListener ---------------------------
(* Instances of BlockListener for TLC.  The heights go from one digit to two,  *)
(* so that the string order of the recorded heights differs from the order of  *)
(* the numbers, and one block of each instance caches the price.               *)
EXTENDS BlockListener

CONSTANTS i1
=============================================================================
