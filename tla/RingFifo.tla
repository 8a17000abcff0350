------------------------------ MODULE RingFifo -------------------------------
(***************************************************************************)
(* The frame ring of one channel (config.cpp, mult_ringfifo[chn] and       *)
(* g_ringinfo[chn]).  The threads of the video connections put the bytes   *)
(* they receive (SipConfig::SendGbStreamData); SendDataThread of the       *)
(* channel takes them out.  Both look at n before they lock fifoMutex, and *)
(* the taker copies the frame after it has unlocked it.                    *)
(*                                                                         *)
(* A step is a test of n, a region under fifoMutex, or the taker's copy.   *)
(* The ring is the one between ringmalloc and ringfree; GbStream models    *)
(* its creation and its end.                                               *)
(***************************************************************************)
EXTENDS Naturals, FiniteSets

CONSTANTS
  Producers,   \* the video connections' threads that feed this channel
  Frames,      \* what a received block of video can be told apart as
  NMAX,        \* the slots of the ring: 32 in the code
  NoFrame      \* the content of a slot ringmalloc has just allocated

ASSUME ProducersFinite == IsFiniteSet(Producers)
ASSUME NMAXPositive == NMAX \in Nat \ {0}
ASSUME NoFrameIsNone == NoFrame \notin Frames

VARIABLES
  slot,        \* mult_ringfifo[chn][i]: buffer, size and frame_type as one value
  iput, iget, n,
  putting,     \* the frame of a producer past its test of n, or NoFrame
  getting,     \* where SendDataThread is in its loop
  Pos,         \* the slot whose buffer ringget handed out
  taken        \* ghost: what was in that slot under the lock

vars == <<slot, iput, iget, n, putting, getting, Pos, taken>>

Slots == 0..(NMAX - 1)
\* Faulty variant: the index does not wrap.
addring_Unwrapped(i) == i + 1
addring(i) == IF i + 1 = NMAX THEN 0 ELSE i + 1

Init ==
  /\ slot = [i \in Slots |-> NoFrame]
  /\ iput = 0 /\ iget = 0 /\ n = 0
  /\ putting = [p \in Producers |-> NoFrame]
  /\ getting = "asks"
  /\ Pos = 0
  /\ taken = NoFrame

------------------------------------------------------------------------------
\* Faulty variant: one too many.
HasRoom_OneMore == n =< NMAX
HasRoom == n < NMAX

\* ringput finds room.  (A frame that finds none is dropped: SendGbStreamData
\* then resets the ring of channel MAX_CHN, which is never this one.)
PutTests(p, f) ==
  /\ putting[p] = NoFrame
  /\ HasRoom
  /\ putting' = [putting EXCEPT ![p] = f]
  /\ UNCHANGED <<slot, iput, iget, n, getting, Pos, taken>>

\* Faulty variant: iput is advanced before the slot is written.
PutLocked_AdvancesFirst(p) ==
  /\ putting[p] # NoFrame
  /\ slot' = [slot EXCEPT ![addring(iput)] = putting[p]]
  /\ iput' = addring(iput)
  /\ n' = n + 1
  /\ putting' = [putting EXCEPT ![p] = NoFrame]
  /\ UNCHANGED <<iget, getting, Pos, taken>>

PutLocked(p) ==
  /\ putting[p] # NoFrame
  /\ slot' = [slot EXCEPT ![iput] = putting[p]]
  /\ iput' = addring(iput)
  /\ n' = n + 1
  /\ putting' = [putting EXCEPT ![p] = NoFrame]
  /\ UNCHANGED <<iget, getting, Pos, taken>>

GetTests ==
  /\ getting = "asks"
  /\ n > 0
  /\ getting' = "locks"
  /\ UNCHANGED <<slot, iput, iget, n, putting, Pos, taken>>

\* Faulty variant: the slot after the oldest one is handed out.
GetLocked_AdvancesFirst ==
  /\ getting = "locks"
  /\ Pos' = addring(iget)
  /\ iget' = addring(iget)
  /\ n' = n - 1
  /\ taken' = slot[iget]
  /\ getting' = "copies"
  /\ UNCHANGED <<slot, iput, putting>>

GetLocked ==
  /\ getting = "locks"
  /\ Pos' = iget
  /\ iget' = addring(iget)
  /\ n' = n - 1
  /\ taken' = slot[iget]
  /\ getting' = "copies"
  /\ UNCHANGED <<slot, iput, putting>>

\* memcpy from the slot's buffer into StreamPack, then packing and sending.
CopyFrame ==
  /\ getting = "copies"
  /\ getting' = "asks"
  /\ UNCHANGED <<slot, iput, iget, n, putting, Pos, taken>>

Producer(p) == PutLocked(p) \/ \E f \in Frames : PutTests(p, f)
SendDataThread == GetTests \/ GetLocked \/ CopyFrame

Next == SendDataThread \/ \E p \in Producers : Producer(p)

\* The sender's loop runs for as long as the stream does.
Spec == Init /\ [][Next]_vars /\ WF_vars(SendDataThread)

------------------------------------------------------------------------------
(* Properties *)

\* Type invariant: the indices stay inside the array.
TypeOK ==
  /\ slot \in [Slots -> Frames \cup {NoFrame}]
  /\ iput \in Slots /\ iget \in Slots /\ n \in Nat
  /\ putting \in [Producers -> Frames \cup {NoFrame}]
  /\ getting \in {"asks", "locks", "copies"}
  /\ Pos \in Slots
  /\ taken \in Frames \cup {NoFrame}

\* Every producer can slip one frame past the test of n, which is made outside
\* the lock: n never exceeds NMAX - 1 by more than the number of producers.
\* With a single producer this is n =< NMAX.
CountBounded == n =< NMAX - 1 + Cardinality(Producers)

\* The frame ringget handed out is still in its slot while SendDataThread
\* copies it, as long as the ring has not become full again.
HeldFrameIntact == getting = "copies" /\ n < NMAX => slot[Pos] = taken

\* The slot k places after iget, for k up to NMAX: with two producers the ring
\* counts at most one frame more than it has slots.
SlotAt(k) == IF iget + k < NMAX THEN iget + k ELSE iget + k - NMAX

\* The stored frames, oldest first.
queue == [i \in 1..n |-> slot[SlotAt(i - 1)]]

\* The ring is a bounded queue, in the order in which the producers lock it, and
\* the sender drains it.  Only a producer that tests n before another one past
\* its test has locked can overfill it, each by one frame.
Fifo == INSTANCE BoundedFifo
          WITH Capacity <- NMAX, Slack <- Cardinality(Producers) - 1
RefinesFifo == Fifo!Spec
==============================================================================
