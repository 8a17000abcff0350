----------------------------- MODULE MCSealLock ------------------------------
(* Instances of SealLock for TLC. *)
EXTENDS SealLock
==============================================================================
