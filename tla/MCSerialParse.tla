---------------------------- MODULE MCSerialParse ----------------------------
(* Instances of SerialParse for TLC. *)
EXTENDS SerialParse, TLC

CONSTANTS c1, c2

\* One camera alone, with enough frames for one to lose its middle and a
\* whole one to follow; or both, with a frame each.
MCLoads == {c1 :> 3 @@ c2 :> 0, c1 :> 1 @@ c2 :> 1}
==============================================================================
