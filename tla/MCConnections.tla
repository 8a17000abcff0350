---------------------------- MODULE MCConnections ----------------------------
(* Instances of Connections for TLC. *)
EXTENDS Connections

CONSTANTS c1, c2

Arrive(cam, kind) == [cam |-> cam, kind |-> kind]

\* A camera that connects again after another; every kind of connection; the
\* three connections of a camera.
MCArrivals ==
  {<<Arrive(c1, "msg"), Arrive(c2, "msg")>>,
   <<Arrive(c1, "msg"), Arrive(c2, "file"), Arrive(c2, "video")>>,
   <<Arrive(c1, "file"), Arrive(c1, "video"), Arrive(c1, "msg")>>}
==============================================================================
