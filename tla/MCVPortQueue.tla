---------------------------- MODULE MCVPortQueue ----------------------------
(* The instances of VPortQueue for TLC; every constant is a number.        *)
EXTENDS VPortQueue
=============================================================================
