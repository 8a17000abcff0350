----------------------------- MODULE BoundedFifo -----------------------------
(***************************************************************************)
(* What the ring of config.cpp promises (config.cpp:382-391, 423-434): a   *)
(* queue of at most Capacity frames, in which ringput appends a frame if   *)
(* there is room and ringget takes out the frame stored first.  Producers  *)
(* that test for room at the same time put up to Slack frames more; such a *)
(* frame takes the place of a stored one too, which is lost.  With one     *)
(* producer Slack is 0.                                                    *)
(***************************************************************************)
EXTENDS Naturals, Sequences

CONSTANTS Frames, Capacity, Slack

VARIABLES queue, taken   \* the stored frames; the frame ringget returned last

Init == queue = <<>> /\ taken \notin Frames

Put(f) ==
  /\ Len(queue) < Capacity
  /\ queue' = Append(queue, f)
  /\ UNCHANGED taken

PutBeyond(f) ==
  /\ Len(queue) >= Capacity /\ Len(queue) < Capacity + Slack
  /\ queue' = Append([queue EXCEPT ![Len(queue) - Capacity + 1] = f], f)
  /\ UNCHANGED taken

Get ==
  /\ queue # <<>>
  /\ taken' = Head(queue)
  /\ queue' = Tail(queue)

Next == Get \/ \E f \in Frames : Put(f) \/ PutBeyond(f)

SafeSpec == Init /\ [][Next]_<<queue, taken>>

\* The sender thread keeps asking for frames.
Spec == SafeSpec /\ WF_<<queue, taken>>(Get)
==============================================================================
