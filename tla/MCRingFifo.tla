----------------------------- MODULE MCRingFifo ------------------------------
(* Instances of RingFifo for TLC. *)
EXTENDS RingFifo
==============================================================================
