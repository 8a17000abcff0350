--------------------------- MODULE MCJt808Params ---------------------------
(* Instances of Jt808Params for TLC. *)
EXTENDS Jt808Params

\* The camera's and the ports' section, the gate's, and the chip's at the end.
MCLayout == <<"IPC", "Gate", "W-800">>

\* The ports alone, and the ports and the gate in one request.
MCLists == {<<3>>, <<3, 6>>}
============================================================================
