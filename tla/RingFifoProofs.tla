--------------------------- MODULE RingFifoProofs ----------------------------
(***************************************************************************)
(* Proofs about RingFifo for any number of slots.  CountBounded and        *)
(* HeldFrameIntact hold for any finite set of producers; that no frame is  *)
(* overwritten in the queue needs that one video connection feeds it.      *)
(***************************************************************************)
EXTENDS RingFifo, Integers, TLAPS, FiniteSetTheorems, SequenceTheorems

\* The producers between the test of n and the locked region.
Passed == {p \in Producers : putting[p] # NoFrame}

\* What makes CountBounded inductive: each producer past the test still adds
\* one frame, so it must have been left room for.
RoomForPassed == n + Cardinality(Passed) =< NMAX - 1 + Cardinality(Producers)

\* The taker has seen a frame and nobody else takes one away.
FrameForTaker == getting = "locks" => n > 0

CountInv == TypeOK /\ RoomForPassed /\ FrameForTaker

------------------------------------------------------------------------------
\* addring stays inside the array.
LEMMA AddringInSlots == ASSUME NEW i \in Slots PROVE addring(i) \in Slots
BY NMAXPositive DEF Slots, addring

\* Every step keeps the types: no index leaves the array, and n never becomes
\* negative.
LEMMA TypeStep == TypeOK /\ FrameForTaker /\ [Next]_vars => TypeOK'
<1> SUFFICES ASSUME TypeOK, FrameForTaker, [Next]_vars PROVE TypeOK'
  OBVIOUS
<1> USE DEF TypeOK
<1>1. ASSUME NEW p \in Producers, NEW f \in Frames, PutTests(p, f) PROVE TypeOK'
  BY <1>1 DEF PutTests
<1>2. ASSUME NEW p \in Producers, PutLocked(p) PROVE TypeOK'
  <2>1. iput' \in Slots
    BY <1>2, AddringInSlots DEF PutLocked
  <2> QED BY <1>2, <2>1 DEF PutLocked
<1>3. CASE GetTests
  BY <1>3 DEF GetTests
<1>4. CASE GetLocked
  <2>1. iget' \in Slots
    BY <1>4, AddringInSlots DEF GetLocked
  <2>2. n' \in Nat
    BY <1>4 DEF GetLocked, FrameForTaker
  <2> QED BY <1>4, <2>1, <2>2 DEF GetLocked
<1>5. CASE CopyFrame
  BY <1>5 DEF CopyFrame
<1>6. CASE UNCHANGED vars
  BY <1>6 DEF vars
<1> QED
  BY <1>1, <1>2, <1>3, <1>4, <1>5, <1>6 DEF Next, Producer, SendDataThread

\* Every step keeps FrameForTaker: only the taker lowers n.
LEMMA FrameForTakerStep ==
  TypeOK /\ FrameForTaker /\ [Next]_vars => FrameForTaker'
<1> SUFFICES ASSUME TypeOK, FrameForTaker, [Next]_vars PROVE FrameForTaker'
  OBVIOUS
<1> QED
  BY DEF TypeOK, FrameForTaker, Next, Producer, SendDataThread, PutTests,
         PutLocked, GetTests, GetLocked, CopyFrame, vars

\* Every step keeps RoomForPassed.
LEMMA RoomStep ==
  TypeOK /\ RoomForPassed /\ FrameForTaker /\ [Next]_vars => RoomForPassed'
<1> SUFFICES ASSUME TypeOK, RoomForPassed, FrameForTaker, [Next]_vars
             PROVE  RoomForPassed'
  OBVIOUS
<1>1. IsFiniteSet(Passed) /\ Cardinality(Passed) \in Nat
      /\ Cardinality(Producers) \in Nat
  BY ProducersFinite, FS_Subset, FS_CardinalityType DEF Passed
<1>2. ASSUME NEW p \in Producers, NEW f \in Frames, PutTests(p, f)
      PROVE  RoomForPassed'
  <2>1. Passed' \subseteq Producers
    BY DEF Passed
  <2>2. IsFiniteSet(Passed') /\ Cardinality(Passed') \in Nat
        /\ Cardinality(Passed') =< Cardinality(Producers)
    BY <2>1, ProducersFinite, FS_Subset, FS_CardinalityType
  <2>3. n' = n /\ n =< NMAX - 1
    BY <1>2, NMAXPositive DEF PutTests, HasRoom, TypeOK
  <2> QED BY <1>1, <2>2, <2>3, NMAXPositive DEF RoomForPassed, TypeOK
<1>3. ASSUME NEW p \in Producers, PutLocked(p) PROVE RoomForPassed'
  <2>1. p \in Passed /\ Passed' = Passed \ {p}
    BY <1>3 DEF PutLocked, Passed, TypeOK
  <2>2. Cardinality(Passed') = Cardinality(Passed) - 1
    BY <1>1, <2>1, FS_RemoveElement
  <2>3. n' = n + 1
    BY <1>3 DEF PutLocked
  <2> QED BY <1>1, <2>2, <2>3, NMAXPositive DEF RoomForPassed, TypeOK
<1>4. CASE SendDataThread
  <2>1. Passed' = Passed /\ n' \in {n, n - 1}
    BY <1>4 DEF SendDataThread, GetTests, GetLocked, CopyFrame, Passed
  <2> QED BY <1>1, <2>1, NMAXPositive DEF RoomForPassed, TypeOK
<1>5. CASE UNCHANGED vars
  BY <1>5 DEF vars, RoomForPassed, Passed
<1> QED
  BY <1>2, <1>3, <1>4, <1>5 DEF Next, Producer

\* The invariant holds for any number of producers.
LEMMA CountInvariant == Spec => []CountInv
<1>1. ASSUME Init PROVE CountInv
  <2>1. Passed = {}
    BY <1>1 DEF Init, Passed
  <2>2. Cardinality(Passed) = 0 /\ Cardinality(Producers) \in Nat
    BY <2>1, FS_EmptySet, ProducersFinite, FS_CardinalityType
  <2>3. TypeOK
    BY <1>1, NMAXPositive DEF Init, TypeOK, Slots
  <2> QED
    BY <1>1, <2>2, <2>3, NMAXPositive DEF Init, CountInv, RoomForPassed, FrameForTaker
<1>2. CountInv /\ [Next]_vars => CountInv'
  BY TypeStep, FrameForTakerStep, RoomStep DEF CountInv
<1> QED
  BY <1>1, <1>2, PTL DEF Spec

\* Type correctness of the ring, whatever feeds it.
THEOREM TypeCorrect == Spec => []TypeOK
<1>1. CountInv => TypeOK
  BY DEF CountInv
<1> QED BY <1>1, CountInvariant, PTL

\* The unlocked test of n lets in at most one frame too many per producer
\* beyond the first.
THEOREM OverflowIsBounded == Spec => []CountBounded
<1>1. CountInv => CountBounded
  <2> SUFFICES ASSUME CountInv PROVE CountBounded
    OBVIOUS
  <2>1. Cardinality(Passed) \in Nat /\ Cardinality(Producers) \in Nat
    BY ProducersFinite, FS_Subset, FS_CardinalityType DEF Passed
  <2> QED
    BY <2>1, NMAXPositive DEF CountInv, TypeOK, RoomForPassed, CountBounded
<1> QED BY <1>1, CountInvariant, PTL
------------------------------------------------------------------------------
\* iput is n slots after iget around the ring, also when n counts more frames
\* than there are slots, and the slot the taker reads is the one before iget.
Around == \E q \in Int : iput + q * NMAX = iget + n
Behind == getting = "copies" => addring(Pos) = iget

HeldInv == CountInv /\ Around /\ Behind /\ HeldFrameIntact

LEMMA MultiplesSkip == ASSUME NEW q \in Int PROVE q * NMAX \notin 1..(NMAX - 1)
<1>1. CASE q =< 0
  <2>1. q * NMAX =< 0
    BY <1>1, NMAXPositive
  <2> QED BY <2>1, NMAXPositive
<1>2. CASE q >= 1
  <2>1. (q - 1) * NMAX >= 0
    BY <1>2, NMAXPositive
  <2>2. q * NMAX = (q - 1) * NMAX + NMAX
    BY NMAXPositive
  <2>3. q * NMAX \in Int /\ (q - 1) * NMAX \in Int
    BY NMAXPositive
  <2> QED BY <2>1, <2>2, <2>3, NMAXPositive
<1> QED BY <1>1, <1>2

\* Every step keeps iput around the ring from iget.
LEMMA AroundStep == TypeOK /\ Around /\ [Next]_vars => Around'
<1> SUFFICES ASSUME TypeOK, [Next]_vars,
                    NEW q \in Int, iput + q * NMAX = iget + n
             PROVE  Around'
  BY DEF Around
<1> USE NMAXPositive DEF TypeOK, Slots
<1>0. /\ q * NMAX \in Int /\ (q + 1) * NMAX = q * NMAX + NMAX
      /\ (q - 1) * NMAX = q * NMAX - NMAX
  OBVIOUS
<1>1. ASSUME UNCHANGED <<iput, iget, n>> PROVE Around'
  BY <1>1 DEF Around
<1>2. ASSUME NEW p \in Producers, PutLocked(p) PROVE Around'
  <2>1. iput' = addring(iput) /\ n' = n + 1 /\ iget' = iget
    BY <1>2 DEF PutLocked
  <2>2. CASE iput + 1 = NMAX
    <3>1. q + 1 \in Int /\ iput' + (q + 1) * NMAX = iget' + n'
      BY <1>0, <2>1, <2>2 DEF addring
    <3> QED BY <3>1 DEF Around
  <2>3. CASE iput + 1 # NMAX
    <3>1. iput' + q * NMAX = iget' + n'
      BY <1>0, <2>1, <2>3 DEF addring
    <3> QED BY <3>1 DEF Around
  <2> QED BY <2>2, <2>3
<1>3. CASE GetLocked
  <2>1. iget' = addring(iget) /\ n' = n - 1 /\ iput' = iput
    BY <1>3 DEF GetLocked
  <2>2. CASE iget + 1 = NMAX
    <3>1. q - 1 \in Int /\ iput' + (q - 1) * NMAX = iget' + n'
      BY <1>0, <2>1, <2>2 DEF addring
    <3> QED BY <3>1 DEF Around
  <2>3. CASE iget + 1 # NMAX
    <3>1. iput' + q * NMAX = iget' + n'
      BY <1>0, <2>1, <2>3 DEF addring
    <3> QED BY <3>1 DEF Around
  <2> QED BY <2>2, <2>3
<1> QED
  BY <1>1, <1>2, <1>3 DEF Next, Producer, SendDataThread, PutTests, GetTests, CopyFrame, vars

\* Every step keeps HeldFrameIntact: a put that leaves the ring short of full
\* does not write the slot behind iget.
LEMMA HeldStep == HeldInv /\ [Next]_vars => (Behind /\ HeldFrameIntact)'
<1> SUFFICES ASSUME HeldInv, [Next]_vars PROVE Behind' /\ HeldFrameIntact'
  OBVIOUS
<1> USE NMAXPositive DEF HeldInv, CountInv, TypeOK, Behind, HeldFrameIntact
<1>1. ASSUME NEW p \in Producers, PutLocked(p) PROVE Behind' /\ HeldFrameIntact'
  <2>1. n' = n + 1 /\ UNCHANGED <<iget, getting, Pos, taken>>
        /\ slot' = [slot EXCEPT ![iput] = putting[p]]
    BY <1>1 DEF PutLocked
  <2>2. Behind'
    BY <2>1 DEF addring
  <2>3. ASSUME getting = "copies", n + 1 < NMAX PROVE iput # Pos
    <3> SUFFICES ASSUME iput = Pos PROVE FALSE
      OBVIOUS
    <3>1. PICK q \in Int : iput + q * NMAX = iget + n
      BY DEF Around
    <3>2. iget = IF iput + 1 = NMAX THEN 0 ELSE iput + 1
      BY <2>3 DEF addring
    <3>3. q * NMAX \in Int /\ (q + 1) * NMAX \in Int
          /\ (q + 1) * NMAX = q * NMAX + NMAX
      OBVIOUS
    <3>4. q * NMAX = n + 1 \/ (q + 1) * NMAX = n + 1
      BY <3>1, <3>2, <3>3 DEF Slots
    <3>5. q + 1 \in Int /\ n + 1 \in 1..(NMAX - 1)
      BY <2>3
    <3> HIDE DEF Slots
    <3> QED BY <3>4, <3>5, MultiplesSkip
  <2> QED BY <2>1, <2>2, <2>3
<1>2. CASE GetLocked
  BY <1>2 DEF GetLocked
<1>3. ASSUME NEW p \in Producers, NEW f \in Frames, PutTests(p, f)
      PROVE  Behind' /\ HeldFrameIntact'
  BY <1>3 DEF PutTests, addring
<1>4. CASE GetTests \/ CopyFrame
  BY <1>4 DEF GetTests, CopyFrame
<1>5. CASE UNCHANGED vars
  BY <1>5 DEF vars, addring
<1> QED
  BY <1>1, <1>2, <1>3, <1>4, <1>5 DEF Next, Producer, SendDataThread

\* The frame SendDataThread is copying can change under it only when the ring
\* has become full again since ringget returned, whoever feeds it.
THEOREM HeldFrameSafe == Spec => []HeldFrameIntact
<1>1. Init /\ CountInv => HeldInv
  <2> SUFFICES ASSUME Init, CountInv PROVE HeldInv
    OBVIOUS
  <2>1. 0 + 0 * NMAX = 0 + 0
    BY NMAXPositive
  <2>2. Around
    BY <2>1 DEF Init, Around
  <2> QED BY <2>2 DEF Init, HeldInv, Behind, HeldFrameIntact
<1>2. HeldInv /\ CountInv' /\ [Next]_vars => HeldInv'
  BY AroundStep, HeldStep DEF HeldInv, CountInv
<1>3. HeldInv => HeldFrameIntact
  BY DEF HeldInv
<1> QED
  BY <1>1, <1>2, <1>3, CountInvariant, PTL DEF Spec

------------------------------------------------------------------------------
\* From here on, one video connection feeds the channel.
OneProducer == Cardinality(Producers) = 1

\* The producer's frame has room, and iput is n slots after iget.
RingInv ==
  /\ CountInv
  /\ n =< NMAX
  /\ \A p \in Producers : putting[p] # NoFrame => n < NMAX
  /\ iput = SlotAt(n)

\* Every step of a single producer and the taker keeps RingInv.
LEMMA RingStep ==
  ASSUME OneProducer, RingInv, CountInv', [Next]_vars PROVE RingInv'
<1> USE NMAXPositive DEF RingInv, CountInv, TypeOK
<1>1. PICK only : Producers = {only}
  BY ProducersFinite, FS_Singleton DEF OneProducer
<1>2. ASSUME NEW p \in Producers, NEW f \in Frames, PutTests(p, f) PROVE RingInv'
  <2>1. UNCHANGED <<slot, iput, iget, n, getting, Pos, taken>> /\ n < NMAX
    BY <1>2 DEF PutTests, HasRoom
  <2>2. SlotAt(n)' = SlotAt(n)
    BY <2>1 DEF SlotAt
  <2> QED BY <2>1, <2>2
<1>3. ASSUME NEW p \in Producers, PutLocked(p) PROVE RingInv'
  <2>1. n < NMAX /\ n' = n + 1 /\ UNCHANGED <<iget, getting, Pos, taken>>
        /\ iput' = addring(iput) /\ slot' = [slot EXCEPT ![iput] = putting[p]]
    BY <1>3 DEF PutLocked
  <2>2. \A q \in Producers : putting'[q] = NoFrame
    BY <1>1, <1>3 DEF PutLocked
  <2>3. iput' = SlotAt(n)'
    BY <2>1 DEF SlotAt, addring, Slots
  <2> QED BY <2>1, <2>2, <2>3
<1>4. CASE GetTests
  <2>1. UNCHANGED <<slot, iput, iget, n, putting, Pos, taken>> /\ getting' = "locks"
    BY <1>4 DEF GetTests
  <2>2. SlotAt(n)' = SlotAt(n)
    BY <2>1 DEF SlotAt
  <2> QED BY <2>1, <2>2
<1>5. CASE GetLocked
  <2>1. n > 0 /\ n' = n - 1 /\ Pos' = iget /\ iget' = addring(iget)
        /\ taken' = slot[iget] /\ UNCHANGED <<slot, iput, putting>>
    BY <1>5 DEF GetLocked, FrameForTaker
  <2>2. SlotAt(n)' = SlotAt(n)
    <3>1. iget \in 0..(NMAX - 1) /\ n \in 1..NMAX
      BY <2>1 DEF Slots
    <3>2. CASE iget + 1 = NMAX
      BY <2>1, <3>1, <3>2 DEF SlotAt, addring
    <3>3. CASE iget + 1 # NMAX
      BY <2>1, <3>1, <3>3 DEF SlotAt, addring
    <3> QED BY <3>2, <3>3
  <2> QED BY <2>1, <2>2
<1>6. CASE CopyFrame
  <2>1. UNCHANGED <<slot, iput, iget, n, putting, Pos, taken>> /\ getting' = "asks"
    BY <1>6 DEF CopyFrame
  <2>2. SlotAt(n)' = SlotAt(n)
    BY <2>1 DEF SlotAt
  <2> QED BY <2>1, <2>2
<1>7. CASE UNCHANGED vars
  BY <1>7 DEF vars, SlotAt
<1> QED
  BY <1>2, <1>3, <1>4, <1>5, <1>6, <1>7 DEF Next, Producer, SendDataThread

\* The invariant of a ring with one producer.
LEMMA RingInvariant == ASSUME OneProducer PROVE Spec => []RingInv
<1>1. Init /\ CountInv => RingInv
  BY NMAXPositive DEF Init, RingInv, SlotAt
<1>2. RingInv /\ CountInv' /\ [Next]_vars => RingInv'
  BY RingStep
<1> QED
  BY <1>1, <1>2, CountInvariant, PTL DEF Spec

------------------------------------------------------------------------------
\* Under RingInv the queue is a sequence of the n stored frames.
QueueShape ==
  /\ queue \in Seq(Frames \cup {NoFrame})
  /\ Len(queue) = n
  /\ \A i \in 1..n : queue[i] = slot[SlotAt(i - 1)]

LEMMA QueueIsSeq == RingInv => QueueShape
<1> SUFFICES ASSUME RingInv PROVE QueueShape
  OBVIOUS
<1> USE NMAXPositive DEF RingInv, CountInv, TypeOK
<1>1. \A k \in 0..(n - 1) : SlotAt(k) \in Slots
  BY DEF SlotAt, Slots
<1>2. \A i \in 1..n : slot[SlotAt(i - 1)] \in Frames \cup {NoFrame}
  BY <1>1
<1> QED BY <1>2 DEF QueueShape, queue

LEMMA QueueIsSeqNext == RingInv' => QueueShape'
BY QueueIsSeq, PTL

\* A put under the lock appends its frame to the queue.
LEMMA PutAppends ==
  ASSUME RingInv, RingInv', NEW p \in Producers, PutLocked(p)
  PROVE  queue' = Append(queue, putting[p]) /\ Len(queue) < NMAX
<1> USE NMAXPositive DEF RingInv, CountInv, TypeOK
<1>1. n < NMAX /\ n' = n + 1 /\ iget' = iget
      /\ slot' = [slot EXCEPT ![iput] = putting[p]]
  BY DEF PutLocked
<1>2. \A k \in 0..n : SlotAt(k)' = SlotAt(k) /\ SlotAt(k) \in Slots
  BY <1>1 DEF SlotAt, Slots
<1>3. \A k \in 0..(n - 1) : SlotAt(k) # iput
  BY <1>1 DEF SlotAt, Slots
<1> DEFINE new == Append(queue, putting[p])
           Content == Frames \cup {NoFrame}
<1>4. QueueShape /\ QueueShape'
  BY QueueIsSeq, QueueIsSeqNext
<1>5. new \in Seq(Content) /\ Len(new) = n + 1
      /\ (\A i \in 1..n : new[i] = queue[i]) /\ new[n + 1] = putting[p]
  BY <1>4, AppendProperties DEF QueueShape
<1>6. \A i \in 1..n : queue'[i] = queue[i]
  BY <1>1, <1>2, <1>3, <1>4 DEF QueueShape
<1>7. queue'[n + 1] = putting[p]
  BY <1>1, <1>2, <1>4 DEF QueueShape
<1>8. queue' \in Seq(Content) /\ Len(queue') = Len(new)
  BY <1>1, <1>4, <1>5 DEF QueueShape
<1>9. \A i \in 1..Len(queue') : queue'[i] = new[i]
  BY <1>5, <1>6, <1>7, <1>8
<1>10. queue' = new
  <2> HIDE DEF new, Content
  <2> QED BY <1>5, <1>8, <1>9, SeqEqual
<1> QED BY <1>1, <1>4, <1>10 DEF QueueShape

\* A get under the lock takes the first frame of the queue.
LEMMA GetTakesHead ==
  ASSUME RingInv, RingInv', GetLocked
  PROVE  queue # <<>> /\ taken' = Head(queue) /\ queue' = Tail(queue)
<1> USE NMAXPositive DEF RingInv, CountInv, TypeOK
<1>1. n > 0 /\ n' = n - 1 /\ iget' = addring(iget) /\ taken' = slot[iget]
      /\ slot' = slot
  BY DEF GetLocked, FrameForTaker
<1>2. iget \in 0..(NMAX - 1)
  BY DEF Slots
<1>3. \A k \in 0..(n - 1) : SlotAt(k)' = SlotAt(k + 1)
  <2>1. CASE iget + 1 = NMAX
    BY <1>1, <1>2, <2>1 DEF SlotAt, addring
  <2>2. CASE iget + 1 # NMAX
    BY <1>1, <1>2, <2>2 DEF SlotAt, addring
  <2> QED BY <2>1, <2>2
<1> DEFINE rest == Tail(queue)
           Content == Frames \cup {NoFrame}
<1>4. QueueShape /\ QueueShape'
  BY QueueIsSeq, QueueIsSeqNext
<1>5. queue # <<>>
  BY <1>1, <1>4 DEF QueueShape
<1>6. rest \in Seq(Content) /\ Len(rest) = n - 1
      /\ \A i \in 1..Len(rest) : rest[i] = queue[i + 1]
  BY <1>4, <1>5, HeadTailProperties DEF QueueShape
<1>7. queue' \in Seq(Content) /\ Len(queue') = n - 1
  BY <1>1, <1>4 DEF QueueShape
<1>8. \A i \in 1..Len(queue') : queue'[i] = rest[i]
  <2> SUFFICES ASSUME NEW i \in 1..(n - 1) PROVE queue'[i] = rest[i]
    BY <1>7
  <2>1. queue'[i] = slot[SlotAt(i - 1)']
    BY <1>1, <1>4 DEF QueueShape
  <2>2. SlotAt(i - 1)' = SlotAt(i)
    BY <1>1, <1>3
  <2>3. rest[i] = slot[SlotAt(i)]
    BY <1>1, <1>4, <1>6 DEF QueueShape
  <2> QED BY <2>1, <2>2, <2>3
<1>9. queue' = rest
  <2> HIDE DEF rest, Content
  <2> QED BY <1>6, <1>7, <1>8, SeqEqual
<1>10. taken' = Head(queue)
  <2>1. SlotAt(0) = iget
    BY <1>2 DEF SlotAt
  <2>2. queue[1] = slot[iget]
    BY <1>1, <1>4, <2>1 DEF QueueShape
  <2> QED BY <1>1, <1>4, <1>5, <2>2 DEF QueueShape
<1> QED BY <1>5, <1>9, <1>10

\* With one producer, every step of the ring is a step of the bounded queue or
\* changes nothing it can see: no frame is lost, repeated or reordered.
THEOREM RingIsBoundedFifo == ASSUME OneProducer PROVE Spec => Fifo!SafeSpec
<1>1. Init => Fifo!Init
  BY NoFrameIsNone DEF Init, Fifo!Init, queue
<1>2. ASSUME RingInv, RingInv', [Next]_vars
      PROVE  [Fifo!Next]_<<queue, taken>>
  <2>1. ASSUME NEW p \in Producers, NEW f \in Frames, PutTests(p, f)
        PROVE  UNCHANGED <<queue, taken>>
    BY <2>1 DEF PutTests, queue, SlotAt
  <2>2. ASSUME NEW p \in Producers, PutLocked(p) PROVE Fifo!Next
    <3>1. putting[p] \in Frames /\ taken' = taken
      BY <1>2, <2>2 DEF PutLocked, RingInv, CountInv, TypeOK
    <3> QED BY <1>2, <2>2, <3>1, PutAppends DEF Fifo!Next, Fifo!Put
  <2>3. CASE GetTests
    BY <2>3 DEF GetTests, queue, SlotAt
  <2>4. CASE GetLocked
    BY <1>2, <2>4, GetTakesHead DEF Fifo!Next, Fifo!Get
  <2>5. CASE CopyFrame
    BY <2>5 DEF CopyFrame, queue, SlotAt
  <2>6. CASE UNCHANGED vars
    BY <2>6 DEF vars, queue, SlotAt
  <2> QED
    BY <1>2, <2>1, <2>2, <2>3, <2>4, <2>5, <2>6 DEF Next, Producer, SendDataThread
<1> QED
  BY <1>1, <1>2, RingInvariant, PTL DEF Spec, Fifo!SafeSpec
==============================================================================
