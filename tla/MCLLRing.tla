------------------------------ MODULE MCLLRing ------------------------------
(* Instances of LLRing for TLC: producers and consumers are model values.  *)
EXTENDS LLRing

CONSTANTS p1, p2, c1, c2
=============================================================================
