-------------------------- MODULE MCSipRegistration --------------------------
(* Instances of SipRegistration for TLC. *)
EXTENDS SipRegistration
==============================================================================
