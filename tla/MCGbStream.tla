----------------------------- MODULE MCGbStream ------------------------------
(* Instances of GbStream for TLC. *)
EXTENDS GbStream
==============================================================================
