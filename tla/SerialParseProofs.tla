-------------------------- MODULE SerialParseProofs --------------------------
(***************************************************************************)
(* Proofs about SerialParse, for any connections, chunk sizes and frames:  *)
(* the types, what it takes to overflow the shared buffer, and, as long as *)
(* the connections' bytes do not meet in it, that every thread handles its *)
(* own camera's frames in order and sleeps on none but what came late.     *)
(***************************************************************************)
EXTENDS SerialParse, TLAPS, SequenceTheorems, FiniteSetTheorems

\* What makes OverflowNeedsRace inductive: a chunk that has passed the test
\* still fits when it is copied.
RoomForCopying ==
  ~raced => /\ Len(serial_buf) <= Capacity
            /\ \A c \in Conns : reader[c] = "copy" => Len(serial_buf) + Len(chunk[c]) <= Capacity

------------------------------------------------------------------------------
(* Types *)

\* What a camera sends is a piece.
LEMMA NthIsPiece == ASSUME NEW c \in Conns, NEW k \in Nat \ {0} PROVE Nth(c, k) \in Piece
<1>1. (k - 1) \div 3 \in Nat /\ (k - 1) % 3 \in 0..2
  OBVIOUS
<1>2. Parts[((k - 1) % 3) + 1] \in {"flag", "head", "data"}
  BY <1>1 DEF Parts
<1> QED BY <1>1, <1>2 DEF Nth, Piece

\* The parts of TypeOK about the buffer and about the threads.
BufferTypes ==
  /\ frames \in [Conns -> Nat]
  /\ serial_buf \in Seq(Piece)
  /\ received \in [Conns -> Nat]
  /\ chunk \in [Conns -> Seq(Piece)]
  /\ \A c \in Conns : Len(chunk[c]) <= ReadMax
ThreadTypes ==
  /\ reader \in [Conns -> {"none", "read", "room", "copy", "test"}]
  /\ parser \in [Conns -> {"none", "wait", "loop", "find", "parse", "skip", "clear"}]
FlagTypes ==
  /\ data_ready \in [Conns -> BOOLEAN]
  /\ flag_parsing \in [Conns -> BOOLEAN]
  /\ flag_waitdat \in [Conns -> BOOLEAN]
  /\ overlapped \in BOOLEAN /\ raced \in BOOLEAN
OutcomeTypes ==
  /\ unique_id \in [Conns -> Conns \cup {"none"}]
  /\ handled \in [Conns -> Seq(Conns \X Nat)]
  /\ late \in Nat

\* A step, with the thread's actions named.
Action(c) ==
  \/ netctrl_recv(c) \/ Read(c) \/ TestRoom(c) \/ Copy(c) \/ Signal(c) \/ Wake(c)
  \/ LoopTest(c) \/ FindFlag(c) \/ Skip(c) \/ protocol_parse(c) \/ ClearReady(c)

LEMMA NextCases == [Next]_vars => UNCHANGED vars \/ \E c \in Conns : Action(c)
BY Zenon DEF Next, serial_recv, serial_parse, Action

LEMMA BufferTypesStep == BufferTypes /\ [Next]_vars => BufferTypes'
<1> SUFFICES ASSUME BufferTypes, [Next]_vars PROVE BufferTypes'
  OBVIOUS
<1> USE BoundsNat
<1>1. CASE UNCHANGED vars
  BY <1>1 DEF vars, BufferTypes
<1>2. ASSUME NEW c \in Conns, Action(c) PROVE BufferTypes'
  <2>1. CASE netctrl_recv(c)
    BY <2>1 DEF netctrl_recv, BufferTypes
  <2>2. CASE Read(c)
    <3>1. PICK n \in 1..ReadMax :
            /\ received[c] + n <= 3 * frames[c]
            /\ chunk' = [chunk EXCEPT ![c] = [i \in 1..n |-> Nth(c, received[c] + i)]]
            /\ received' = [received EXCEPT ![c] = @ + n]
      BY <2>2 DEF Read
    <3>2. \A i \in 1..n : Nth(c, received[c] + i) \in Piece
      <4> SUFFICES ASSUME NEW i \in 1..n PROVE Nth(c, received[c] + i) \in Piece
        OBVIOUS
      <4>1. received[c] + i \in Nat \ {0}
        BY DEF BufferTypes
      <4> QED BY <4>1, NthIsPiece
    <3> DEFINE new == [i \in 1..n |-> Nth(c, received[c] + i)]
    <3>3. new \in Seq(Piece) /\ Len(new) = n
      BY <3>2
    <3>4. chunk' = [chunk EXCEPT ![c] = new]
      BY <3>1
    <3> HIDE DEF new
    <3>5. chunk' \in [Conns -> Seq(Piece)] /\ \A d \in Conns : Len(chunk'[d]) <= ReadMax
      BY <3>3, <3>4 DEF BufferTypes
    <3>6. received' \in [Conns -> Nat]
      BY <3>1 DEF BufferTypes
    <3> QED BY <2>2, <3>5, <3>6 DEF Read, BufferTypes
  <2>3. CASE TestRoom(c)
    BY <2>3 DEF TestRoom, BufferTypes
  <2>4. CASE Copy(c)
    BY <2>4 DEF Copy, BufferTypes
  <2>5. CASE Signal(c)
    BY <2>5 DEF Signal, BufferTypes
  <2>6. CASE Wake(c)
    BY <2>6 DEF Wake, BufferTypes
  <2>7. CASE LoopTest(c)
    BY <2>7 DEF LoopTest, BufferTypes
  <2>8. CASE FindFlag(c)
    BY <2>8 DEF FindFlag, BufferTypes
  <2>9. CASE Skip(c)
    BY <2>9 DEF Skip, DeleteFirst, BufferTypes
  <2>10. CASE protocol_parse(c)
    BY <2>10 DEF protocol_parse, BufferTypes
  <2>11. CASE ClearReady(c)
    BY <2>11 DEF ClearReady, BufferTypes
  <2> QED BY <1>2, <2>1, <2>2, <2>3, <2>4, <2>5, <2>6, <2>7, <2>8, <2>9, <2>10, <2>11 DEF Action
<1> QED BY <1>1, <1>2, NextCases

LEMMA ThreadTypesStep == ThreadTypes /\ [Next]_vars => ThreadTypes'
<1> SUFFICES ASSUME ThreadTypes, [Next]_vars PROVE ThreadTypes'
  OBVIOUS
<1>1. CASE UNCHANGED vars
  BY <1>1 DEF vars, ThreadTypes
<1>2. ASSUME NEW c \in Conns, Action(c) PROVE ThreadTypes'
  <2>1. CASE netctrl_recv(c)
    BY <2>1 DEF netctrl_recv, ThreadTypes
  <2>2. CASE Read(c) \/ TestRoom(c) \/ Copy(c) \/ Signal(c)
    BY <2>2 DEF Read, TestRoom, Copy, Signal, ThreadTypes
  <2>3. CASE Wake(c) \/ LoopTest(c) \/ FindFlag(c) \/ Skip(c) \/ ClearReady(c)
    BY <2>3 DEF Wake, LoopTest, FindFlag, Skip, ClearReady, ThreadTypes
  <2>4. CASE protocol_parse(c)
    BY <2>4 DEF protocol_parse, ThreadTypes
  <2> QED BY <1>2, <2>1, <2>2, <2>3, <2>4 DEF Action
<1> QED BY <1>1, <1>2, NextCases

LEMMA FlagTypesStep == FlagTypes /\ [Next]_vars => FlagTypes'
<1> SUFFICES ASSUME FlagTypes, [Next]_vars PROVE FlagTypes'
  OBVIOUS
<1>1. CASE UNCHANGED vars
  BY <1>1, Zenon DEF vars, sync, FlagTypes
<1>2. ASSUME NEW c \in Conns, Action(c) PROVE FlagTypes'
  <2>1. CASE netctrl_recv(c) \/ Read(c) \/ TestRoom(c)
    BY <2>1, Zenon DEF netctrl_recv, Read, TestRoom, sync, FlagTypes
  <2>2. CASE Copy(c)
    <3>1. overlapped' \in BOOLEAN
      BY <2>2, Zenon DEF Copy, FlagTypes
    <3> QED BY <2>2, <3>1, Zenon DEF Copy, sync, FlagTypes
  <2>3. CASE Signal(c)
    BY <2>3 DEF Signal, FlagTypes
  <2>4. CASE Wake(c)
    BY <2>4 DEF Wake, FlagTypes
  <2>5. CASE LoopTest(c)
    BY <2>5, Zenon DEF LoopTest, sync, FlagTypes
  <2>6. CASE FindFlag(c)
    BY <2>6 DEF FindFlag, FlagTypes
  <2>7. CASE Skip(c)
    BY <2>7 DEF Skip, FlagTypes
  <2>8. CASE protocol_parse(c)
    BY <2>8 DEF protocol_parse, FlagTypes
  <2>9. CASE ClearReady(c)
    BY <2>9 DEF ClearReady, FlagTypes
  <2> QED BY <1>2, <2>1, <2>2, <2>3, <2>4, <2>5, <2>6, <2>7, <2>8, <2>9 DEF Action
<1> QED BY <1>1, <1>2, NextCases

\* A frame is only found in a buffer that holds it.
LEMMA OutcomeTypesStep == BufferTypes /\ OutcomeTypes /\ [Next]_vars => OutcomeTypes'
<1> SUFFICES ASSUME BufferTypes, OutcomeTypes, [Next]_vars PROVE OutcomeTypes'
  OBVIOUS
<1>1. CASE UNCHANGED vars
  BY <1>1 DEF vars, outcome, OutcomeTypes
<1>2. ASSUME NEW c \in Conns, Action(c) PROVE OutcomeTypes'
  <2>1. CASE netctrl_recv(c) \/ Read(c) \/ TestRoom(c) \/ Signal(c)
    BY <2>1 DEF netctrl_recv, Read, TestRoom, Signal, outcome, OutcomeTypes
  <2>2. CASE Copy(c)
    BY <2>2 DEF Copy, outcome, OutcomeTypes, BufferTypes
  <2>3. CASE Wake(c) \/ LoopTest(c) \/ FindFlag(c) \/ Skip(c) \/ ClearReady(c)
    BY <2>3 DEF Wake, LoopTest, FindFlag, Skip, ClearReady, outcome, OutcomeTypes
  <2>4. CASE protocol_parse(c)
    <3>1. late' \in Nat
      BY <2>4 DEF protocol_parse
    <3>2. PICK ret \in parse_msg_head :
            IF ret = "ok"
            THEN /\ handled' = IF overlapped THEN handled ELSE [handled EXCEPT ![c] =
                                 Append(@, <<serial_buf[1].conn, serial_buf[1].frame>>)]
                 /\ unique_id' = [unique_id EXCEPT ![c] = serial_buf[1].conn]
            ELSE UNCHANGED outcome
      BY <2>4 DEF protocol_parse
    <3>3. CASE ret = "ok"
      <4>1. Len(serial_buf) > 2
        BY <3>3 DEF parse_msg_head
      <4>2. serial_buf \in Seq(Piece) /\ 1 \in 1..Len(serial_buf)
        BY <4>1 DEF BufferTypes
      <4>3. serial_buf[1] \in Piece
        BY <4>2
      <4>4. serial_buf[1].conn \in Conns /\ serial_buf[1].frame \in Nat
        BY <4>3 DEF Piece
      <4> DEFINE entry == <<serial_buf[1].conn, serial_buf[1].frame>>
      <4>5. entry \in Conns \X Nat
        BY <4>4
      <4>6. handled' \in [Conns -> Seq(Conns \X Nat)]
        <5>1. handled' = handled \/ handled' = [handled EXCEPT ![c] = Append(@, entry)]
          BY <3>2, <3>3
        <5> HIDE DEF entry
        <5>2. handled[c] \in Seq(Conns \X Nat)
          BY DEF OutcomeTypes
        <5>3. Append(handled[c], entry) \in Seq(Conns \X Nat)
          BY <4>5, <5>2
        <5> QED BY <5>1, <5>3 DEF OutcomeTypes
      <4>7. unique_id' \in [Conns -> Conns \cup {"none"}]
        BY <3>2, <3>3, <4>4 DEF OutcomeTypes
      <4> QED BY <3>1, <4>6, <4>7 DEF OutcomeTypes
    <3>4. CASE ret # "ok"
      BY <3>1, <3>2, <3>4 DEF outcome, OutcomeTypes
    <3> QED BY <3>3, <3>4
  <2> QED BY <1>2, <2>1, <2>2, <2>3, <2>4 DEF Action
<1> QED BY <1>1, <1>2, NextCases

\* The types together, and the fixed case.
TypeInv == frames \in Loads /\ BufferTypes /\ ThreadTypes /\ FlagTypes /\ OutcomeTypes

LEMMA TypeInvInit == Init => TypeInv
<1> SUFFICES ASSUME Init PROVE TypeInv
  OBVIOUS
<1>1. frames \in Loads /\ BufferTypes
  BY BoundsNat DEF Init, BufferTypes
<1>2. ThreadTypes /\ OutcomeTypes
  BY DEF Init, ThreadTypes, OutcomeTypes
<1>3. FlagTypes
  BY DEF Init, FlagTypes
<1> QED BY <1>1, <1>2, <1>3, Zenon DEF TypeInv

LEMMA TypeInvStep == TypeInv /\ [Next]_vars => TypeInv'
<1> SUFFICES ASSUME TypeInv, [Next]_vars PROVE TypeInv'
  OBVIOUS
<1>1. UNCHANGED frames
  BY NextCases, Zenon DEF Action, vars, netctrl_recv, Read, TestRoom, Copy, Signal, Wake, LoopTest,
     FindFlag, Skip, protocol_parse, ClearReady
<1> QED BY <1>1, BufferTypesStep, ThreadTypesStep, FlagTypesStep, OutcomeTypesStep, Zenon
        DEF TypeInv

\* The types hold for any connections, reads and frames.
THEOREM TypeCorrect == Spec => []TypeOK
<1>1. TypeInv => TypeOK
  BY Zenon DEF TypeInv, BufferTypes, ThreadTypes, FlagTypes, OutcomeTypes, TypeOK
<1> QED BY <1>1, TypeInvInit, TypeInvStep, PTL DEF Spec

------------------------------------------------------------------------------
(* The overflow *)

\* TestRoom makes room for a chunk, Copy uses it, and nobody else's meanwhile;
\* the parsers only shorten the buffer.
LEMMA RoomStep == TypeInv /\ RoomForCopying /\ [Next]_vars => RoomForCopying'
<1> SUFFICES ASSUME TypeInv, RoomForCopying, [Next]_vars, ~raced' PROVE RoomForCopying'
  BY DEF RoomForCopying
<1> USE BoundsNat
<1>a. /\ Len(serial_buf) \in Nat /\ \A c \in Conns : Len(chunk[c]) \in Nat
      /\ chunk \in [Conns -> Seq(Piece)] /\ serial_buf \in Seq(Piece)
      /\ reader \in [Conns -> {"none", "read", "room", "copy", "test"}]
  BY DEF TypeInv, BufferTypes, ThreadTypes
\* A step after which nobody else copies than before, with the same chunk.
<1>1. ASSUME ~raced, Len(serial_buf') \in Nat, Len(serial_buf') <= Len(serial_buf),
             \A c \in Conns : reader'[c] = "copy" => reader[c] = "copy" /\ chunk'[c] = chunk[c]
      PROVE RoomForCopying'
  <2>1. Len(serial_buf) <= Capacity
    BY <1>1 DEF RoomForCopying
  <2>2. ASSUME NEW c \in Conns, reader'[c] = "copy"
        PROVE Len(serial_buf') + Len(chunk'[c]) <= Capacity
    <3>1. Len(serial_buf) + Len(chunk[c]) <= Capacity /\ chunk'[c] = chunk[c]
      BY <1>1, <2>2 DEF RoomForCopying
    <3>2. Len(chunk[c]) \in Nat
      BY <1>a
    <3> QED BY <1>1, <1>a, <3>1, <3>2
  <2> QED BY <1>1, <1>a, <2>1, <2>2 DEF RoomForCopying
<1>2. CASE UNCHANGED vars
  BY <1>1, <1>2, <1>a DEF vars
<1>3. ASSUME NEW c \in Conns, Action(c) PROVE RoomForCopying'
  <2>1. CASE netctrl_recv(c)
    BY <1>1, <1>a, <2>1 DEF netctrl_recv
  <2>2. CASE Read(c)
    BY <1>1, <1>a, <2>2 DEF Read
  <2>3. CASE TestRoom(c)
    <3>1. ~raced /\ serial_buf' = serial_buf /\ Len(serial_buf) <= Capacity
      BY <2>3 DEF TestRoom, RoomForCopying
    <3>2. CASE Len(chunk[c]) <= Capacity - Len(serial_buf)
      <4>1. chunk' = chunk /\ \A d \in Conns : reader'[d] = "copy" => d = c \/ reader[d] = "copy"
        BY <1>a, <2>3, <3>2 DEF TestRoom
      <4>2. Len(serial_buf) + Len(chunk[c]) <= Capacity
        BY <1>a, <3>2
      <4> QED BY <3>1, <4>1, <4>2 DEF RoomForCopying
    <3>3. CASE ~(Len(chunk[c]) <= Capacity - Len(serial_buf))
      <4>1. ~(Len(serial_buf) > Capacity \/ Len(chunk[c]) <= Capacity - Len(serial_buf))
        BY <1>a, <3>1, <3>3
      <4>2. reader' = [reader EXCEPT ![c] = "test"] /\ chunk' = [chunk EXCEPT ![c] = <<>>]
        BY <2>3, <4>1, Zenon DEF TestRoom
      <4> QED BY <1>1, <1>a, <3>1, <4>2
    <3> QED BY <3>2, <3>3
  <2>4. CASE Copy(c)
    <3>1. /\ ~raced /\ reader[c] = "copy" /\ \A d \in Conns \ {c} : reader[d] # "copy"
          /\ reader' = [reader EXCEPT ![c] = "test"]
      BY <2>4 DEF Copy
    <3>2. Len(serial_buf') = Len(serial_buf) + Len(chunk[c])
      BY <1>a, <2>4 DEF Copy
    <3>3. Len(serial_buf') <= Capacity
      BY <3>1, <3>2 DEF RoomForCopying
    <3>4. \A d \in Conns : reader'[d] # "copy"
      BY <1>a, <3>1
    <3> QED BY <3>3, <3>4 DEF RoomForCopying
  <2>5. CASE Signal(c)
    BY <1>1, <1>a, <2>5 DEF Signal
  <2>6. CASE Wake(c) \/ LoopTest(c) \/ FindFlag(c) \/ ClearReady(c)
    BY <1>1, <1>a, <2>6 DEF Wake, LoopTest, FindFlag, ClearReady
  <2>7. CASE Skip(c)
    <3>1. Len(serial_buf') \in Nat /\ Len(serial_buf') <= Len(serial_buf)
      BY <1>a, <2>7 DEF Skip, DeleteFirst
    <3> QED BY <1>1, <2>7, <3>1 DEF Skip
  <2>8. CASE protocol_parse(c)
    BY <1>1, <1>a, <2>8 DEF protocol_parse
  <2> QED BY <1>3, <2>1, <2>2, <2>3, <2>4, <2>5, <2>6, <2>7, <2>8 DEF Action
<1> QED BY <1>2, <1>3, NextCases

\* The buffer overflows only if a chunk was copied while another connection's
\* had passed the test, for any connections and sizes: with one, never.
THEOREM OverflowNeedsRaceHolds == Spec => []OverflowNeedsRace
<1>1. Init => RoomForCopying
  BY BoundsNat DEF Init, RoomForCopying
<1>2. RoomForCopying => OverflowNeedsRace
  BY DEF RoomForCopying, OverflowNeedsRace
<1> QED BY <1>1, <1>2, RoomStep, TypeInvInit, TypeInvStep, PTL DEF Spec

------------------------------------------------------------------------------
(* Who is at the buffer *)

Active(c) == parser[c] \notin {"none", "wait"}

\* A thread exists with its reader, and looks at the buffer only when it does
\* not wait for more.
Started == \A c \in Conns : reader[c] = "none" => parser[c] = "none"
LooksOn == \A c \in Conns : parser[c] \in {"find", "parse", "skip"} => ~flag_waitdat[c]

\* Before an overlap, a parser that is awake is alone with its own bytes.
Alone(c) ==
  /\ \A i \in 1..Len(serial_buf) : serial_buf[i].conn = c
  /\ \A d \in Conns \ {c} : ~Active(d)
  /\ parser[c] \in {"find", "parse", "skip"} => Len(serial_buf) >= 1

ThreadInv == Started /\ LooksOn /\ (~overlapped => \A c \in Conns : Active(c) => Alone(c))

------------------------------------------------------------------------------
(* The order of the bytes *)

\* The place of a piece in its camera's stream, and the pieces copied or lost.
PartIx(part) == IF part = "flag" THEN 1 ELSE IF part = "head" THEN 2 ELSE 3
Ix(p) == 3 * (p.frame - 1) + PartIx(p.part)
Passed(c) == received[c] - Len(chunk[c])

ChunkInOrder == \A c \in Conns : \A i \in 1..Len(chunk[c]) :
                  chunk[c][i].conn = c /\ Ix(chunk[c][i]) = Passed(c) + i
BufferPassed == \A c \in Conns : \A i \in 1..Len(serial_buf) :
                  serial_buf[i].conn = c => Ix(serial_buf[i]) <= Passed(c)
BufferInOrder == \A i, j \in 1..Len(serial_buf) :
                   i < j /\ serial_buf[i].conn = serial_buf[j].conn
                     => Ix(serial_buf[i]) < Ix(serial_buf[j])

StreamInv == ChunkInOrder /\ BufferPassed /\ BufferInOrder

\* OwnFramesInOrder's inductive form: what was handled has passed, and the frames
\* in the buffer are later ones, but for the one that is cut away.
Handled(c) ==
  /\ unique_id[c] \in {"none", c}
  /\ \A i \in 1..Len(handled[c]) : handled[c][i][1] = c /\ 3 * handled[c][i][2] <= Passed(c)
  /\ \A i, j \in 1..Len(handled[c]) : i < j => handled[c][i][2] < handled[c][j][2]
  /\ \A i \in 1..Len(handled[c]) : \A k \in 1..Len(serial_buf) :
       /\ serial_buf[k].conn = c /\ serial_buf[k].part = "flag"
       /\ k # 1 \/ parser[c] # "skip"
       => handled[c][i][2] < serial_buf[k].frame

HandledInv == ~overlapped => \A c \in Conns : Handled(c)

------------------------------------------------------------------------------
(* What is left in the buffer *)

\* A parser that goes to sleep, or will without another look.
Sleepy(c) == \/ parser[c] \in {"none", "wait", "clear"}
             \/ parser[c] = "loop" /\ flag_waitdat[c]

\* SleepsOnlyOnLate's inductive form.
SleepInv ==
  ~overlapped =>
    /\ \A c \in Conns : flag_parsing[c] => /\ Len(serial_buf) >= 1
                                           /\ serial_buf[1].part = "flag"
                                           /\ serial_buf[1].conn = c
    /\ \A c \in Conns : parser[c] = "parse" => flag_parsing[c]
    /\ (\A c \in Conns : Sleepy(c)) => WholeFrames(Len(serial_buf) - late) = {}
------------------------------------------------------------------------------
(* The buffer after a step *)

LEMMA Lengths ==
  ASSUME BufferTypes
  PROVE  /\ Len(serial_buf) \in Nat
         /\ \A i \in 1..Len(serial_buf) : /\ serial_buf[i] \in Piece /\ serial_buf[i].conn \in Conns
                                          /\ serial_buf[i].frame \in Nat
         /\ \A c \in Conns : Len(chunk[c]) \in Nat /\ received[c] \in Nat /\ Passed(c) \in Int
         /\ serial_buf # <<>> => Len(serial_buf) >= 1
<1>1. serial_buf \in Seq(Piece) /\ \A c \in Conns : chunk[c] \in Seq(Piece)
  BY DEF BufferTypes
<1>2. /\ Len(serial_buf) \in Nat /\ \A c \in Conns : Len(chunk[c]) \in Nat
      /\ serial_buf # <<>> => Len(serial_buf) # 0
  BY <1>1, LenProperties, EmptySeq
<1>3. \A c \in Conns : received[c] \in Nat
  BY DEF BufferTypes
<1>4. \A i \in 1..Len(serial_buf) : serial_buf[i] \in Piece
  BY <1>1, ElementOfSeq
<1>5. \A p \in Piece : p.conn \in Conns /\ p.frame \in Nat
  BY DEF Piece
<1> QED BY <1>2, <1>3, <1>4, <1>5 DEF Passed

\* Skip takes the first piece away; an empty buffer stays.
LEMMA AfterSkip ==
  ASSUME BufferTypes, NEW c \in Conns, Skip(c)
  PROVE  \/ Len(serial_buf) = 0 /\ serial_buf' = serial_buf
         \/ /\ Len(serial_buf) >= 1 /\ Len(serial_buf') = Len(serial_buf) - 1
            /\ \A i \in 1..Len(serial_buf') : /\ i + 1 \in 1..Len(serial_buf)
                                              /\ serial_buf'[i] = serial_buf[i + 1]
<1>1. serial_buf \in Seq(Piece)
  BY DEF BufferTypes
<1>2. CASE serial_buf = <<>>
  <2>1. serial_buf' = serial_buf
    BY <1>2, Zenon DEF Skip, DeleteFirst
  <2> QED BY <1>2, <2>1, EmptySeq
<1>3. CASE serial_buf # <<>>
  <2>1. serial_buf' = Tail(serial_buf)
    BY <1>3, Zenon DEF Skip, DeleteFirst
  <2>2. Len(serial_buf) \in Nat /\ Len(serial_buf) >= 1
    BY <1>1, <1>3, LenProperties, EmptySeq
  <2>3. /\ Len(serial_buf') = Len(serial_buf) - 1
        /\ \A i \in 1..Len(serial_buf') : serial_buf'[i] = serial_buf[i + 1]
    BY <1>1, <1>3, <2>1, HeadTailProperties
  <2>4. \A i \in 1..Len(serial_buf') : i + 1 \in 1..Len(serial_buf)
    BY <2>2, <2>3
  <2> QED BY <2>2, <2>3, <2>4
<1> QED BY <1>2, <1>3

\* Copy appends the chunk.
LEMMA AfterCopy ==
  ASSUME BufferTypes, NEW c \in Conns, Copy(c)
  PROVE  /\ Len(serial_buf') = Len(serial_buf) + Len(chunk[c])
         /\ \A i \in 1..Len(serial_buf) : serial_buf'[i] = serial_buf[i]
         /\ \A i \in 1..Len(serial_buf') :
              \/ i \in 1..Len(serial_buf)
              \/ \E j \in 1..Len(chunk[c]) : i = Len(serial_buf) + j /\ serial_buf'[i] = chunk[c][j]
<1>1. serial_buf \in Seq(Piece) /\ chunk[c] \in Seq(Piece)
  BY DEF BufferTypes
<1>2. Len(serial_buf) \in Nat /\ Len(chunk[c]) \in Nat
  BY <1>1, LenProperties
<1>3. serial_buf' = serial_buf \o chunk[c]
  BY Zenon DEF Copy
<1>4. /\ Len(serial_buf') = Len(serial_buf) + Len(chunk[c])
      /\ \A i \in 1..(Len(serial_buf) + Len(chunk[c])) :
            serial_buf'[i] = IF i <= Len(serial_buf) THEN serial_buf[i]
                             ELSE chunk[c][i - Len(serial_buf)]
  BY <1>1, <1>3, ConcatProperties
<1>5. \A i \in 1..Len(serial_buf) : serial_buf'[i] = serial_buf[i]
  BY <1>2, <1>4
<1>6. ASSUME NEW i \in 1..Len(serial_buf'), i \notin 1..Len(serial_buf)
      PROVE  \E j \in 1..Len(chunk[c]) : i = Len(serial_buf) + j /\ serial_buf'[i] = chunk[c][j]
  <2>1. /\ i - Len(serial_buf) \in 1..Len(chunk[c]) /\ i = Len(serial_buf) + (i - Len(serial_buf))
        /\ ~(i <= Len(serial_buf)) /\ i \in 1..(Len(serial_buf) + Len(chunk[c]))
    BY <1>2, <1>4, <1>6
  <2> QED BY <1>4, <2>1
<1> QED BY <1>4, <1>5, <1>6

\* The other steps leave the buffer, and only Copy and Wake end the separation.
LEMMA OtherSteps ==
  ASSUME NEW c \in Conns, Action(c)
  PROVE  /\ Skip(c) \/ Copy(c) \/ UNCHANGED serial_buf
         /\ overlapped => overlapped'
<1>1. netctrl_recv(c) \/ Read(c) \/ TestRoom(c) \/ Signal(c) => UNCHANGED <<serial_buf, overlapped>>
  BY Zenon DEF netctrl_recv, Read, TestRoom, Signal
<1>2. LoopTest(c) \/ FindFlag(c) \/ ClearReady(c) => UNCHANGED <<serial_buf, overlapped>>
  BY Zenon DEF LoopTest, FindFlag, ClearReady
<1>3. protocol_parse(c) => UNCHANGED <<serial_buf, overlapped>>
  BY Zenon DEF protocol_parse
<1>4. Copy(c) \/ Wake(c) \/ Skip(c) => (overlapped => overlapped')
  BY Zenon DEF Copy, Wake, Skip
<1>5. Wake(c) => UNCHANGED serial_buf
  BY Zenon DEF Wake
<1>6. Skip(c) \/ Copy(c) \/ UNCHANGED serial_buf
  BY <1>1, <1>2, <1>3, <1>5, Zenon DEF Action
<1>7. overlapped => overlapped'
  BY <1>1, <1>2, <1>3, <1>4, Zenon DEF Action
<1> QED BY <1>6, <1>7, Zenon

------------------------------------------------------------------------------
(* The parsers do not meet *)

LEMMA ThreadInvStep ==
  ASSUME TypeInv, ThreadInv, ChunkInOrder, NEW c \in Conns, Action(c)
  PROVE  ThreadInv'
<1>1. /\ BufferTypes /\ Started /\ LooksOn
      /\ parser \in [Conns -> {"none", "wait", "loop", "find", "parse", "skip", "clear"}]
      /\ reader \in [Conns -> {"none", "read", "room", "copy", "test"}]
      /\ flag_waitdat \in [Conns -> BOOLEAN]
  BY DEF TypeInv, ThreadTypes, FlagTypes, ThreadInv
<1>2. Started'
  <2>1. CASE netctrl_recv(c) \/ Read(c) \/ TestRoom(c) \/ Copy(c) \/ Signal(c)
    BY <1>1, <2>1 DEF netctrl_recv, Read, TestRoom, Copy, Signal, Started
  <2>2. CASE Wake(c) \/ LoopTest(c) \/ FindFlag(c) \/ Skip(c) \/ ClearReady(c)
    BY <1>1, <2>2 DEF Wake, LoopTest, FindFlag, Skip, ClearReady, Started
  <2>3. CASE protocol_parse(c)
    BY <1>1, <2>3 DEF protocol_parse, Started
  <2> QED BY <2>1, <2>2, <2>3 DEF Action
<1>3. LooksOn'
  <2>1. CASE netctrl_recv(c) \/ Read(c) \/ TestRoom(c) \/ Copy(c) \/ Signal(c)
    BY <1>1, <2>1 DEF netctrl_recv, Read, TestRoom, Copy, Signal, sync, LooksOn
  <2>2. CASE Wake(c) \/ LoopTest(c)
    BY <1>1, <2>2 DEF Wake, LoopTest, sync, LooksOn
  <2>3. CASE FindFlag(c) \/ Skip(c) \/ ClearReady(c)
    BY <1>1, <2>3 DEF FindFlag, Skip, ClearReady, LooksOn
  <2>4. CASE protocol_parse(c)
    BY <1>1, <2>4 DEF protocol_parse, LooksOn
  <2> QED BY <2>1, <2>2, <2>3, <2>4 DEF Action
<1>4. ASSUME ~overlapped', NEW d \in Conns, Active(d)' PROVE Alone(d)'
  <2>1. ~overlapped /\ \A e \in Conns : Active(e) => Alone(e)
    BY <1>4, OtherSteps DEF ThreadInv
  <2>2. CASE netctrl_recv(c)
    <3>1. /\ parser[c] = "none" /\ parser' = [parser EXCEPT ![c] = "wait"]
          /\ UNCHANGED serial_buf
      BY <1>1, <2>2 DEF netctrl_recv, Started
    <3>2. \A e \in Conns : Active(e)' <=> Active(e)
      BY <1>1, <3>1 DEF Active
    <3> QED BY <1>1, <1>4, <2>1, <3>1, <3>2 DEF Alone, Active
  <2>3. CASE Read(c) \/ TestRoom(c) \/ Signal(c)
    <3>1. UNCHANGED <<parser, serial_buf>>
      BY <2>3, Zenon DEF Read, TestRoom, Signal
    <3> QED BY <1>4, <2>1, <3>1 DEF Alone, Active
  <2>4. CASE Copy(c)
    <3>1. UNCHANGED parser /\ ~Busy(c)
      BY <1>4, <2>4, Zenon DEF Copy
    <3>2. /\ d = c /\ \A e \in Conns \ {c} : ~Active(e)
      BY <1>4, <3>1 DEF Active, Busy
    <3>3. \A i \in 1..Len(serial_buf) : serial_buf[i].conn = c
      BY <1>1, <3>1 DEF Busy, BufferTypes
    <3>4. \A i \in 1..Len(serial_buf') : serial_buf'[i].conn = c
      <4>1. \A j \in 1..Len(chunk[c]) : chunk[c][j].conn = c
        BY DEF ChunkInOrder
      <4>2. /\ \A i \in 1..Len(serial_buf) : serial_buf'[i] = serial_buf[i]
            /\ \A i \in 1..Len(serial_buf') :
                 \/ i \in 1..Len(serial_buf)
                 \/ \E j \in 1..Len(chunk[c]) : serial_buf'[i] = chunk[c][j]
        BY <1>1, <2>4, AfterCopy
      <4> QED BY <3>3, <4>1, <4>2
    <3>5. Len(serial_buf') >= Len(serial_buf)
      BY <1>1, <2>4, AfterCopy, Lengths
    <3>6. Len(serial_buf) \in Nat /\ Len(serial_buf') \in Nat
      BY <1>1, <2>4, AfterCopy, Lengths
    <3>7. Active(d)
      BY <1>4, <3>1 DEF Active
    <3>8. parser'[c] \in {"find", "parse", "skip"} => Len(serial_buf') >= 1
      BY <2>1, <3>1, <3>2, <3>5, <3>6, <3>7 DEF Alone
    <3> QED BY <3>1, <3>2, <3>4, <3>8 DEF Alone, Active
  <2>5. CASE Wake(c)
    <3>1. /\ parser' = [parser EXCEPT ![c] = "loop"] /\ UNCHANGED serial_buf /\ ~Busy(c)
      BY <1>4, <2>5, Zenon DEF Wake
    <3>2. d = c /\ \A e \in Conns \ {c} : ~Active(e)'
      BY <1>1, <1>4, <3>1 DEF Active, Busy
    <3>3. \A i \in 1..Len(serial_buf) : serial_buf[i].conn = c
      BY <1>1, <3>1 DEF Busy, BufferTypes
    <3> QED BY <1>1, <3>1, <3>2, <3>3 DEF Alone
  <2>6. ASSUME parser[c] \in {"loop", "find", "parse", "skip", "clear"},
               \A e \in Conns \ {c} : parser'[e] = parser[e]
        PROVE  Alone(c) /\ d = c /\ \A e \in Conns \ {c} : ~Active(e)'
    <3>1. Alone(c)
      BY <2>1, <2>6 DEF Active
    <3>2. \A e \in Conns \ {c} : ~Active(e)'
      BY <1>1, <2>6, <3>1 DEF Alone, Active
    <3> QED BY <1>4, <3>1, <3>2
  <2>7. CASE LoopTest(c)
    <3>1. PICK at : /\ parser' = [parser EXCEPT ![c] = at] /\ UNCHANGED serial_buf
                    /\ parser[c] = "loop"
                    /\ serial_buf = <<>> => at = "clear"
      BY <2>7 DEF LoopTest
    <3>2. at # "clear" => Len(serial_buf) >= 1
      BY <1>1, <3>1, Lengths
    <3>5. /\ parser[c] \in {"loop", "find", "parse", "skip", "clear"}
          /\ \A e \in Conns \ {c} : parser'[e] = parser[e]
      BY <1>1, <3>1
    <3>3. Alone(c) /\ d = c /\ \A e \in Conns \ {c} : ~Active(e)'
      BY <2>6, <3>5
    <3>4. Alone(c)'
      BY <1>1, <3>1, <3>2, <3>3 DEF Alone
    <3> QED BY <3>3, <3>4
  <2>8. CASE FindFlag(c) \/ protocol_parse(c) \/ ClearReady(c)
    <3>1. PICK at : /\ parser' = [parser EXCEPT ![c] = at] /\ UNCHANGED serial_buf
                    /\ parser[c] \in {"find", "parse", "clear"}
                    /\ parser[c] = "clear" => at = "wait"
      BY <2>8 DEF FindFlag, protocol_parse, ClearReady
    <3>4. /\ parser[c] \in {"loop", "find", "parse", "skip", "clear"}
          /\ \A e \in Conns \ {c} : parser'[e] = parser[e]
      BY <1>1, <3>1
    <3>2. Alone(c) /\ d = c /\ \A e \in Conns \ {c} : ~Active(e)'
      BY <2>6, <3>4
    <3>3. Alone(c)'
      BY <1>1, <3>1, <3>2 DEF Alone
    <3> QED BY <3>2, <3>3
  <2>9. CASE Skip(c)
    <3>1. parser[c] = "skip" /\ parser' = [parser EXCEPT ![c] = "loop"]
      BY <2>9, Zenon DEF Skip
    <3>4. /\ parser[c] \in {"loop", "find", "parse", "skip", "clear"}
          /\ \A e \in Conns \ {c} : parser'[e] = parser[e]
      BY <1>1, <3>1
    <3>2. Alone(c) /\ d = c /\ \A e \in Conns \ {c} : ~Active(e)'
      BY <2>6, <3>4
    <3>3. \A i \in 1..Len(serial_buf') : serial_buf'[i].conn = c
      BY <1>1, <2>9, <3>2, AfterSkip DEF Alone
    <3> QED BY <1>1, <3>1, <3>2, <3>3 DEF Alone
  <2> QED BY <2>2, <2>3, <2>4, <2>5, <2>7, <2>8, <2>9 DEF Action
<1> QED BY <1>2, <1>3, <1>4 DEF ThreadInv
------------------------------------------------------------------------------
(* The bytes come in the order sent *)

LEMMA NthIx == ASSUME NEW c \in Conns, NEW k \in Nat \ {0}
               PROVE  Nth(c, k).conn = c /\ Ix(Nth(c, k)) = k
<1> DEFINE q == (k - 1) \div 3
           r == (k - 1) % 3
<1>1. q \in Nat /\ r \in 0..2 /\ k - 1 = 3 * q + r
  OBVIOUS
<1>2. Nth(c, k).conn = c /\ Nth(c, k).frame = q + 1 /\ Nth(c, k).part = Parts[r + 1]
  BY DEF Nth
<1> HIDE DEF q, r
<1>3. PartIx(Parts[r + 1]) = r + 1
  <2>1. Parts[1] = "flag" /\ Parts[2] = "head" /\ Parts[3] = "data"
    BY DEF Parts
  <2>2. r = 0 \/ r = 1 \/ r = 2
    BY <1>1
  <2>3. PartIx("flag") = 1 /\ PartIx("head") = 2 /\ PartIx("data") = 3
    BY DEF PartIx
  <2>4. CASE r = 0
    BY <2>1, <2>3, <2>4
  <2>5. CASE r = 1
    BY <2>1, <2>3, <2>5
  <2>6. CASE r = 2
    BY <2>1, <2>3, <2>6
  <2> QED BY <2>2, <2>4, <2>5, <2>6
<1>4. Ix(Nth(c, k)) = 3 * ((q + 1) - 1) + (r + 1)
  BY <1>2, <1>3 DEF Ix
<1> QED BY <1>1, <1>2, <1>4

LEMMA IxInt == ASSUME NEW p \in Piece PROVE Ix(p) \in Int /\ PartIx(p.part) \in 1..3
BY DEF Piece, Ix, PartIx

\* What a reader has passed on, or lost, only grows.
LEMMA PassedGrows ==
  ASSUME BufferTypes, NEW c \in Conns, Action(c)
  PROVE  /\ \A d \in Conns : Passed(d) \in Int /\ Passed(d)' \in Int /\ Passed(d)' >= Passed(d)
         /\ Copy(c) => Passed(c)' = Passed(c) + Len(chunk[c])
         /\ ChunkInOrder => ChunkInOrder'
<1>1. \A d \in Conns : Len(chunk[d]) \in Nat /\ received[d] \in Nat /\ Passed(d) \in Int
  BY Lengths
<1>2. chunk \in [Conns -> Seq(Piece)] /\ received \in [Conns -> Nat]
  BY DEF BufferTypes
<1>3. CASE UNCHANGED <<chunk, received>>
  <2>1. Copy(c) => Len(chunk[c]) = 0
    <3>1. Copy(c) => chunk' = [chunk EXCEPT ![c] = <<>>]
      BY DEF Copy
    <3>2. Copy(c) => chunk[c] = <<>>
      BY <1>2, <1>3, <3>1
    <3> QED BY <3>2, EmptySeq
  <2> QED BY <1>1, <1>3, <2>1 DEF Passed, ChunkInOrder
<1>4. CASE Copy(c) \/ TestRoom(c)
  <2>1. UNCHANGED received
    BY <1>4, Zenon DEF Copy, TestRoom
  <2>2. UNCHANGED chunk \/ chunk' = [chunk EXCEPT ![c] = <<>>]
    BY <1>4 DEF Copy, TestRoom
  <2>3. CASE chunk' = [chunk EXCEPT ![c] = <<>>]
    <3>1. /\ Len(chunk'[c]) = 0 /\ \A d \in Conns \ {c} : chunk'[d] = chunk[d]
      BY <1>2, <2>3, EmptySeq
    <3>2. Passed(c)' = received[c] /\ \A d \in Conns \ {c} : Passed(d)' = Passed(d)
      BY <1>1, <2>1, <3>1 DEF Passed
    <3>3. Passed(c)' = Passed(c) + Len(chunk[c])
      BY <1>1, <3>2 DEF Passed
    <3>4. \A i \in 1..Len(chunk'[c]) : FALSE
      BY <3>1
    <3>5. ChunkInOrder => ChunkInOrder'
      BY <3>1, <3>2, <3>4 DEF ChunkInOrder
    <3>6. \A d \in Conns : Passed(d)' \in Int /\ Passed(d)' >= Passed(d)
      BY <1>1, <3>2, <3>3
    <3> QED BY <1>1, <3>3, <3>5, <3>6
  <2> QED BY <1>3, <1>1, <2>1, <2>2, <2>3
<1>5. CASE Read(c)
  <2>1. PICK n \in 1..ReadMax :
          /\ chunk' = [chunk EXCEPT ![c] = [i \in 1..n |-> Nth(c, received[c] + i)]]
          /\ received' = [received EXCEPT ![c] = @ + n]
    BY <1>5 DEF Read
  <2>2. n \in Nat
    BY BoundsNat
  <2>3. /\ chunk'[c] = [i \in 1..n |-> Nth(c, received[c] + i)]
        /\ received'[c] = received[c] + n
        /\ \A d \in Conns \ {c} : chunk'[d] = chunk[d] /\ received'[d] = received[d]
    BY <1>2, <2>1
  <2>4. Len(chunk'[c]) = n /\ \A i \in 1..n : chunk'[c][i] = Nth(c, received[c] + i)
    BY <2>2, <2>3
  <2>5. Passed(c)' = received[c] /\ \A d \in Conns \ {c} : Passed(d)' = Passed(d)
    BY <1>1, <2>2, <2>3, <2>4 DEF Passed
  <2>6. \A i \in 1..n : chunk'[c][i].conn = c /\ Ix(chunk'[c][i]) = received[c] + i
    <3> SUFFICES ASSUME NEW i \in 1..n
                 PROVE  chunk'[c][i].conn = c /\ Ix(chunk'[c][i]) = received[c] + i
      OBVIOUS
    <3>1. received[c] + i \in Nat \ {0}
      BY <1>1, <2>2
    <3>2. chunk'[c][i] = Nth(c, received[c] + i)
      BY <2>4
    <3>3. Nth(c, received[c] + i).conn = c /\ Ix(Nth(c, received[c] + i)) = received[c] + i
      BY <3>1, NthIx
    <3> QED BY <3>2, <3>3
  <2>7. ChunkInOrder => ChunkInOrder'
    <3> SUFFICES ASSUME ChunkInOrder, NEW d \in Conns, NEW i \in 1..Len(chunk'[d])
                 PROVE  chunk'[d][i].conn = d /\ Ix(chunk'[d][i]) = Passed(d)' + i
      BY DEF ChunkInOrder, Ix
    <3>1. CASE d = c
      BY <2>4, <2>5, <2>6, <3>1
    <3>2. CASE d # c
      <4>1. chunk'[d] = chunk[d] /\ Passed(d)' = Passed(d)
        BY <2>3, <2>5, <3>2
      <4>2. chunk[d][i].conn = d /\ Ix(chunk[d][i]) = Passed(d) + i
        BY <4>1 DEF ChunkInOrder
      <4> QED BY <4>1, <4>2
    <3> QED BY <3>1, <3>2
  <2>8. \A d \in Conns : Passed(d)' \in Int /\ Passed(d)' >= Passed(d)
    <3>1. received[c] >= Passed(c)
      BY <1>1 DEF Passed
    <3> QED BY <1>1, <2>5, <3>1
  <2>9. ~Copy(c)
    BY <1>5, Zenon DEF Read, Copy
  <2> QED BY <1>1, <2>7, <2>8, <2>9
<1>6. Read(c) \/ TestRoom(c) \/ Copy(c) \/ UNCHANGED <<chunk, received>>
  BY Zenon DEF Action, netctrl_recv, Signal, Wake, LoopTest, FindFlag, Skip, protocol_parse, ClearReady
<1> QED BY <1>1, <1>3, <1>4, <1>5, <1>6

LEMMA StreamInvStep ==
  ASSUME TypeInv, StreamInv, NEW c \in Conns, Action(c)
  PROVE  StreamInv'
<1>1. BufferTypes /\ ChunkInOrder /\ BufferPassed /\ BufferInOrder
  BY DEF TypeInv, StreamInv
<1>2. /\ \A d \in Conns : Passed(d) \in Int /\ Passed(d)' \in Int /\ Passed(d)' >= Passed(d)
      /\ Copy(c) => Passed(c)' = Passed(c) + Len(chunk[c])
      /\ ChunkInOrder'
  BY <1>1, PassedGrows
<1>3. /\ Len(serial_buf) \in Nat
      /\ \A i \in 1..Len(serial_buf) : serial_buf[i].conn \in Conns /\ Ix(serial_buf[i]) \in Int
  BY <1>1, IxInt, Lengths
<1>4. CASE UNCHANGED serial_buf
  <2>1. BufferPassed'
    <3> SUFFICES ASSUME NEW d \in Conns, NEW i \in 1..Len(serial_buf), serial_buf[i].conn = d
                 PROVE  Ix(serial_buf[i]) <= Passed(d)'
      BY <1>4 DEF BufferPassed, Ix
    <3>1. Ix(serial_buf[i]) <= Passed(d)
      BY <1>1 DEF BufferPassed
    <3> QED BY <1>2, <1>3, <3>1
  <2>2. BufferInOrder'
    BY <1>1, <1>4 DEF BufferInOrder, Ix
  <2> QED BY <1>2, <2>1, <2>2 DEF StreamInv
<1>5. CASE Skip(c)
  <2>1. CASE serial_buf' = serial_buf
    BY <1>4, <2>1
  <2>2. CASE /\ Len(serial_buf) >= 1 /\ Len(serial_buf') = Len(serial_buf) - 1
             /\ \A i \in 1..Len(serial_buf') : /\ i + 1 \in 1..Len(serial_buf)
                                               /\ serial_buf'[i] = serial_buf[i + 1]
    <3>1. BufferPassed'
      <4> SUFFICES ASSUME NEW d \in Conns, NEW i \in 1..Len(serial_buf'), serial_buf'[i].conn = d
                   PROVE  Ix(serial_buf'[i]) <= Passed(d)'
        BY DEF BufferPassed, Ix
      <4>1. i + 1 \in 1..Len(serial_buf) /\ serial_buf'[i] = serial_buf[i + 1]
        BY <2>2
      <4>2. Ix(serial_buf[i + 1]) <= Passed(d)
        BY <1>1, <4>1 DEF BufferPassed
      <4>3. Ix(serial_buf[i + 1]) <= Passed(d)'
        BY <1>2, <1>3, <4>1, <4>2
      <4> QED BY <4>1, <4>3
    <3>2. BufferInOrder'
      <4> SUFFICES ASSUME NEW i \in 1..Len(serial_buf'), NEW j \in 1..Len(serial_buf'), i < j,
                          serial_buf'[i].conn = serial_buf'[j].conn
                   PROVE  Ix(serial_buf'[i]) < Ix(serial_buf'[j])
        BY DEF BufferInOrder, Ix
      <4>1. i + 1 < j + 1
        BY <1>3, <2>2
      <4> QED BY <1>1, <2>2, <4>1 DEF BufferInOrder
    <3> QED BY <1>2, <3>1, <3>2 DEF StreamInv
  <2> QED BY <1>1, <1>5, <2>1, <2>2, AfterSkip
<1>6. CASE Copy(c)
  <2>1. /\ Len(serial_buf') = Len(serial_buf) + Len(chunk[c])
        /\ \A i \in 1..Len(serial_buf) : serial_buf'[i] = serial_buf[i]
        /\ \A i \in 1..Len(serial_buf') :
             \/ i \in 1..Len(serial_buf)
             \/ \E j \in 1..Len(chunk[c]) : i = Len(serial_buf) + j /\ serial_buf'[i] = chunk[c][j]
    BY <1>1, <1>6, AfterCopy
  <2>2. Len(chunk[c]) \in Nat /\ Passed(c)' = Passed(c) + Len(chunk[c])
    BY <1>1, <1>2, <1>6, Lengths
  <2>3. \A j \in 1..Len(chunk[c]) : chunk[c][j].conn = c /\ Ix(chunk[c][j]) = Passed(c) + j
    BY <1>1 DEF ChunkInOrder
  <2>4. BufferPassed'
    <3> SUFFICES ASSUME NEW d \in Conns, NEW i \in 1..Len(serial_buf'), serial_buf'[i].conn = d
                 PROVE  Ix(serial_buf'[i]) <= Passed(d)'
      BY DEF BufferPassed, Ix
    <3>1. CASE i \in 1..Len(serial_buf)
      <4>1. serial_buf'[i] = serial_buf[i] /\ Ix(serial_buf[i]) <= Passed(d)
        BY <1>1, <2>1, <3>1 DEF BufferPassed
      <4>2. Ix(serial_buf[i]) <= Passed(d)'
        BY <1>2, <1>3, <3>1, <4>1
      <4> QED BY <4>1, <4>2
    <3>2. ASSUME NEW j \in 1..Len(chunk[c]), serial_buf'[i] = chunk[c][j]
          PROVE  Ix(serial_buf'[i]) <= Passed(d)'
      <4>1. d = c /\ Ix(serial_buf'[i]) = Passed(c) + j
        BY <2>3, <3>2
      <4>2. Passed(c) + j <= Passed(c)'
        BY <1>2, <2>2
      <4> QED BY <4>1, <4>2
    <3> QED BY <2>1, <3>1, <3>2
  <2>5. BufferInOrder'
    <3> SUFFICES ASSUME NEW i \in 1..Len(serial_buf'), NEW j \in 1..Len(serial_buf'), i < j,
                        serial_buf'[i].conn = serial_buf'[j].conn
                 PROVE  Ix(serial_buf'[i]) < Ix(serial_buf'[j])
      BY DEF BufferInOrder, Ix
    <3>1. CASE j \in 1..Len(serial_buf)
      <4>1. i \in 1..Len(serial_buf)
        BY <1>3, <3>1
      <4> QED BY <1>1, <2>1, <3>1, <4>1 DEF BufferInOrder
    <3>2. ASSUME NEW k \in 1..Len(chunk[c]), j = Len(serial_buf) + k, serial_buf'[j] = chunk[c][k]
          PROVE  Ix(serial_buf'[i]) < Ix(serial_buf'[j])
      <4>1. serial_buf'[j].conn = c /\ Ix(serial_buf'[j]) = Passed(c) + k
        BY <2>3, <3>2
      <4>2. CASE i \in 1..Len(serial_buf)
        <5>1. serial_buf'[i] = serial_buf[i] /\ serial_buf[i].conn = c
          BY <2>1, <4>1, <4>2
        <5>2. Ix(serial_buf[i]) <= Passed(c)
          BY <1>1, <4>2, <5>1 DEF BufferPassed
        <5>3. Passed(c) < Passed(c) + k
          BY <1>2
        <5> QED BY <1>2, <1>3, <4>1, <4>2, <5>1, <5>2, <5>3
      <4>3. ASSUME NEW l \in 1..Len(chunk[c]), i = Len(serial_buf) + l, serial_buf'[i] = chunk[c][l]
            PROVE  Ix(serial_buf'[i]) < Ix(serial_buf'[j])
        <5>1. Ix(serial_buf'[i]) = Passed(c) + l
          BY <2>3, <4>3
        <5>2. l < k
          BY <1>3, <3>2, <4>3
        <5> QED BY <1>2, <4>1, <5>1, <5>2
      <4> QED BY <2>1, <4>2, <4>3
    <3> QED BY <2>1, <3>1, <3>2
  <2> QED BY <1>2, <2>4, <2>5 DEF StreamInv
<1> QED BY <1>4, <1>5, <1>6, OtherSteps
------------------------------------------------------------------------------
(* What was handled came in order *)

\* The steps but Copy, Skip and protocol_parse look at the buffer only.
LEMMA QuietSteps ==
  ASSUME TypeInv, Started, NEW c \in Conns, Action(c), ~Copy(c), ~Skip(c), ~protocol_parse(c)
  PROVE  /\ UNCHANGED <<serial_buf, handled, unique_id>>
         /\ \A d \in Conns : parser[d] = "skip" => parser'[d] = "skip"
<1>1. netctrl_recv(c) \/ Read(c) \/ TestRoom(c) \/ Signal(c) \/ Wake(c) \/ LoopTest(c)
      \/ FindFlag(c) \/ ClearReady(c)
  BY Zenon DEF Action
<1>2. UNCHANGED <<serial_buf, outcome>>
  BY <1>1, Zenon DEF netctrl_recv, Read, TestRoom, Signal, Wake, LoopTest, FindFlag, ClearReady,
     outcome
<1>3. UNCHANGED parser \/ (parser[c] # "skip" /\ \E to : parser' = [parser EXCEPT ![c] = to])
  <2>1. CASE netctrl_recv(c)
    BY <2>1 DEF netctrl_recv, Started
  <2>2. CASE Read(c) \/ TestRoom(c) \/ Signal(c)
    BY <2>2, Zenon DEF Read, TestRoom, Signal
  <2>3. CASE Wake(c) \/ LoopTest(c) \/ ClearReady(c)
    BY <2>3 DEF Wake, LoopTest, ClearReady
  <2>4. CASE FindFlag(c)
    BY <2>4 DEF FindFlag
  <2> QED BY <1>1, <2>1, <2>2, <2>3, <2>4
<1>4. parser \in [Conns -> {"none", "wait", "loop", "find", "parse", "skip", "clear"}]
  BY DEF TypeInv, ThreadTypes
<1>5. \A d \in Conns : parser[d] = "skip" => parser'[d] = "skip"
  BY <1>3, <1>4
<1>6. UNCHANGED <<handled, unique_id>>
  BY <1>2, Zenon DEF outcome
<1> QED BY <1>2, <1>5, <1>6

\* A whole frame ends where its data end.
LEMMA WholeFrame ==
  ASSUME BufferTypes, NEW i \in 1..Len(serial_buf), i + 2 <= Len(serial_buf), FrameAt(i, 3)
  PROVE  /\ serial_buf[i].part = "flag" /\ i + 2 \in 1..Len(serial_buf)
         /\ serial_buf[i + 2].conn = serial_buf[i].conn
         /\ Ix(serial_buf[i]) = 3 * serial_buf[i].frame - 2
         /\ Ix(serial_buf[i + 2]) = 3 * serial_buf[i].frame
<1>1. Len(serial_buf) \in Nat /\ i + 2 \in 1..Len(serial_buf) /\ serial_buf[i].frame \in Nat
  BY Lengths
<1>2. /\ serial_buf[i + 0].part = Parts[0 + 1]
      /\ serial_buf[i + 2].part = Parts[2 + 1] /\ serial_buf[i + 2].frame = serial_buf[i].frame
      /\ serial_buf[i + 2].conn = serial_buf[i].conn
  <2>1. 0 \in 0..(3 - 1) /\ 2 \in 0..(3 - 1)
    OBVIOUS
  <2> QED BY <2>1, Zenon DEF FrameAt
<1>3. i + 0 = i /\ Parts[0 + 1] = "flag" /\ Parts[2 + 1] = "data"
  BY DEF Parts
<1>4. PartIx("flag") = 1 /\ PartIx("data") = 3
  BY DEF PartIx
<1>5. serial_buf[i].part = "flag" /\ serial_buf[i + 2].part = "data"
  BY <1>2, <1>3
<1>6. /\ Ix(serial_buf[i]) = 3 * (serial_buf[i].frame - 1) + 1
      /\ Ix(serial_buf[i + 2]) = 3 * (serial_buf[i].frame - 1) + 3
  BY <1>2, <1>4, <1>5 DEF Ix
<1> QED BY <1>1, <1>2, <1>5, <1>6

LEMMA HandledTypes ==
  ASSUME TypeInv, NEW c \in Conns
  PROVE  /\ handled[c] \in Seq(Conns \X Nat) /\ Len(handled[c]) \in Nat
         /\ \A i \in 1..Len(handled[c]) : handled[c][i][1] \in Conns /\ handled[c][i][2] \in Nat
<1>1. handled[c] \in Seq(Conns \X Nat)
  BY DEF TypeInv, OutcomeTypes
<1>2. \A i \in 1..Len(handled[c]) : handled[c][i] \in Conns \X Nat
  BY <1>1, ElementOfSeq
<1> QED BY <1>1, <1>2, LenProperties

\* Frames that were handled stay before those in the buffer.
LEMMA HandledKept ==
  ASSUME TypeInv, NEW c \in Conns, Handled(c), UNCHANGED <<handled[c], unique_id[c]>>,
         Passed(c) \in Int, Passed(c)' \in Int, Passed(c)' >= Passed(c),
         \A k \in 1..Len(serial_buf') :
           /\ serial_buf'[k].conn = c /\ serial_buf'[k].part = "flag"
           /\ k # 1 \/ parser'[c] # "skip"
           => \A i \in 1..Len(handled[c]) : handled[c][i][2] < serial_buf'[k].frame
  PROVE  Handled(c)'
<1>1. \A i \in 1..Len(handled[c]) : 3 * handled[c][i][2] <= Passed(c)'
  BY HandledTypes DEF Handled
<1> QED BY <1>1 DEF Handled

LEMMA HandledCopy ==
  ASSUME TypeInv, StreamInv, NEW c \in Conns, Copy(c), NEW d \in Conns, Handled(d)
  PROVE  Handled(d)'
<1>1. BufferTypes /\ Action(c)
  BY DEF TypeInv, Action
<1>2. /\ Passed(d) \in Int /\ Passed(d)' \in Int /\ Passed(d)' >= Passed(d)
      /\ Passed(c) \in Int
  BY <1>1, PassedGrows
<1>3. UNCHANGED <<handled, unique_id, parser>>
  BY Zenon DEF Copy, outcome
<1>4. /\ \A i \in 1..Len(serial_buf) : serial_buf'[i] = serial_buf[i]
      /\ \A i \in 1..Len(serial_buf') :
           \/ i \in 1..Len(serial_buf)
           \/ \E j \in 1..Len(chunk[c]) : i = Len(serial_buf) + j /\ serial_buf'[i] = chunk[c][j]
  BY <1>1, AfterCopy
<1>5. ASSUME NEW k \in 1..Len(serial_buf'), serial_buf'[k].conn = d, serial_buf'[k].part = "flag",
             k # 1 \/ parser'[d] # "skip", NEW i \in 1..Len(handled[d])
      PROVE  handled[d][i][2] < serial_buf'[k].frame
  <2>1. CASE k \in 1..Len(serial_buf)
    BY <1>3, <1>4, <1>5, <2>1 DEF Handled
  <2>2. ASSUME NEW j \in 1..Len(chunk[c]), serial_buf'[k] = chunk[c][j]
        PROVE  handled[d][i][2] < serial_buf'[k].frame
    <3>1. d = c /\ Ix(chunk[c][j]) = Passed(c) + j
      BY <1>5, <2>2 DEF StreamInv, ChunkInOrder
    <3>2. chunk[c][j] \in Piece
      <4>1. chunk[c] \in Seq(Piece)
        BY <1>1 DEF BufferTypes
      <4> QED BY <4>1, ElementOfSeq
    <3>3. chunk[c][j].frame \in Nat
      BY <3>2 DEF Piece
    <3>4. Ix(chunk[c][j]) = 3 * (chunk[c][j].frame - 1) + 1
      BY <1>5, <2>2 DEF Ix, PartIx
    <3>5. 3 * handled[d][i][2] <= Passed(c) /\ handled[d][i][2] \in Nat
      BY <3>1, HandledTypes DEF Handled
    <3>6. handled[d][i][2] < chunk[c][j].frame
      <4> DEFINE h == handled[d][i][2]
                 f == chunk[c][j].frame
                 p == Passed(c)
      <4>1. h \in Nat /\ f \in Nat /\ p \in Int /\ j \in Nat /\ j >= 1
        BY <1>2, <3>3, <3>5
      <4>2. 3 * h <= p /\ 3 * (f - 1) + 1 = p + j
        BY <3>1, <3>4, <3>5
      <4> HIDE DEF h, f, p
      <4>3. h < f
        BY <4>1, <4>2
      <4> QED BY <4>3 DEF h, f
    <3> QED BY <2>2, <3>6
  <2> QED BY <1>4, <2>1, <2>2
<1> QED BY <1>2, <1>3, <1>5, HandledKept

LEMMA HandledSkip ==
  ASSUME TypeInv, ThreadInv, ~overlapped, NEW c \in Conns, Skip(c), NEW d \in Conns, Handled(d)
  PROVE  Handled(d)'
<1>1. BufferTypes /\ Action(c)
  BY DEF TypeInv, Action
<1>2. Passed(d) \in Int /\ Passed(d)' \in Int /\ Passed(d)' >= Passed(d)
  BY <1>1, PassedGrows
<1>3. UNCHANGED <<handled, unique_id>> /\ parser[c] = "skip"
  BY Zenon DEF Skip, outcome
<1>4. \A i \in 1..Len(serial_buf) : serial_buf[i].conn = c
  BY <1>3 DEF ThreadInv, Active, Alone
<1>5. Len(serial_buf) >= 1
  BY <1>3 DEF ThreadInv, Active, Alone
<1>6. \A i \in 1..Len(serial_buf') : /\ i + 1 \in 1..Len(serial_buf) /\ i + 1 # 1
                                     /\ serial_buf'[i] = serial_buf[i + 1]
  BY <1>1, <1>5, AfterSkip
<1>7. ASSUME NEW k \in 1..Len(serial_buf'), serial_buf'[k].conn = d, serial_buf'[k].part = "flag",
             NEW i \in 1..Len(handled[d])
      PROVE  handled[d][i][2] < serial_buf'[k].frame
  BY <1>6, <1>7 DEF Handled
<1> QED BY <1>2, <1>3, <1>7, HandledKept

LEMMA HandledParse ==
  ASSUME TypeInv, ThreadInv, StreamInv, ~overlapped, NEW c \in Conns, protocol_parse(c),
         NEW d \in Conns, Handled(d)
  PROVE  Handled(d)'
<1>1. BufferTypes /\ Action(c)
  BY DEF TypeInv, Action
<1>2. /\ parser \in [Conns -> {"none", "wait", "loop", "find", "parse", "skip", "clear"}]
      /\ handled \in [Conns -> Seq(Conns \X Nat)] /\ unique_id \in [Conns -> Conns \cup {"none"}]
  BY DEF TypeInv, ThreadTypes, OutcomeTypes
<1>3. Passed(d) \in Int /\ Passed(d)' \in Int /\ Passed(d)' >= Passed(d)
  BY <1>1, PassedGrows
<1>4. /\ UNCHANGED serial_buf /\ parser[c] = "parse"
      /\ \A e \in Conns \ {c} : parser'[e] = parser[e]
  BY <1>2 DEF protocol_parse
<1>5. CASE UNCHANGED <<handled[d], unique_id[d]>>
  <2>1. parser'[d] # "skip" => parser[d] # "skip"
    BY <1>4
  <2> QED BY <1>3, <1>4, <1>5, <2>1, HandledKept DEF Handled
<1>6. CASE ~UNCHANGED <<handled[d], unique_id[d]>>
  <2>1. PICK ret \in parse_msg_head :
          /\ parser' = [parser EXCEPT ![c] = IF ret = "short" THEN "loop" ELSE "skip"]
          /\ IF ret = "ok"
             THEN /\ handled' = [handled EXCEPT ![c] =
                                   Append(@, <<serial_buf[1].conn, serial_buf[1].frame>>)]
                  /\ unique_id' = [unique_id EXCEPT ![c] = serial_buf[1].conn]
             ELSE UNCHANGED outcome
    BY DEF protocol_parse
  <2>2. ret = "ok" /\ d = c
    <3>1. ret = "ok"
      BY <1>6, <2>1 DEF outcome
    <3> QED BY <1>2, <1>6, <2>1, <3>1
  <2>3. Len(serial_buf) > 2 /\ FrameAt(1, 3)
    BY <2>2 DEF parse_msg_head
  <2>4. 1 \in 1..Len(serial_buf) /\ 1 + 2 <= Len(serial_buf) /\ serial_buf[1].conn = c
    BY <1>1, <1>4, <2>3, Lengths DEF ThreadInv, Active, Alone
  <2> DEFINE f == serial_buf[1].frame
  <2>5. /\ serial_buf[1].part = "flag" /\ 3 \in 1..Len(serial_buf) /\ serial_buf[3].conn = c
        /\ Ix(serial_buf[1]) = 3 * f - 2 /\ Ix(serial_buf[3]) = 3 * f /\ f \in Nat
    <3>1. 1 + 2 = 3
      OBVIOUS
    <3> QED BY <1>1, <2>3, <2>4, <3>1, WholeFrame, Lengths
  <2>6. /\ handled'[c] = Append(handled[c], <<c, f>>) /\ unique_id'[c] = c
        /\ parser'[c] = "skip"
    BY <1>2, <2>1, <2>2, <2>4
  <2> PICK n \in Nat : n = Len(handled[c])
    BY HandledTypes
  <2>7. /\ Len(handled'[c]) = n + 1 /\ handled'[c][n + 1] = <<c, f>>
        /\ \A i \in 1..n : handled'[c][i] = handled[c][i]
    <3>1. <<c, f>> \in Conns \X Nat
      BY <2>5
    <3> QED BY <2>6, <3>1, HandledTypes, AppendProperties
  <2>8. \A i \in 1..n : /\ handled[c][i][1] = c /\ handled[c][i][2] \in Nat
                        /\ 3 * handled[c][i][2] <= Passed(c)'
    BY <1>3, <2>2, HandledTypes DEF Handled
  <2>9. 3 * f <= Passed(c)'
    <3>1. 3 * f <= Passed(c)
      BY <2>5 DEF StreamInv, BufferPassed
    <3> QED BY <1>3, <2>2, <2>5, <3>1
  <2>10. \A i \in 1..n : handled[c][i][2] < f
    BY <1>4, <2>2, <2>4, <2>5 DEF Handled
  <2>11. \A i \in 1..(n + 1) : i \in 1..n \/ i = n + 1
    OBVIOUS
  <2>12. \A i \in 1..(n + 1) : handled'[c][i][1] = c /\ 3 * handled'[c][i][2] <= Passed(c)'
    <3> SUFFICES ASSUME NEW i \in 1..(n + 1)
                 PROVE  handled'[c][i][1] = c /\ 3 * handled'[c][i][2] <= Passed(c)'
      OBVIOUS
    <3>1. CASE i \in 1..n
      BY <2>7, <2>8, <3>1
    <3>2. CASE i = n + 1
      BY <2>7, <2>9, <3>2
    <3> QED BY <2>11, <3>1, <3>2
  <2>13. ASSUME NEW i \in 1..(n + 1), NEW j \in 1..(n + 1), i < j
         PROVE  handled'[c][i][2] < handled'[c][j][2]
    <3>1. i \in 1..n /\ (j \in 1..n \/ j = n + 1)
      BY <2>13
    <3>2. CASE j \in 1..n
      BY <2>2, <2>7, <2>13, <3>1, <3>2 DEF Handled
    <3>3. CASE j = n + 1
      BY <2>7, <2>10, <3>1, <3>3
    <3> QED BY <3>1, <3>2, <3>3
  <2>14. ASSUME NEW i \in 1..(n + 1), NEW k \in 1..Len(serial_buf), serial_buf[k].conn = c,
                serial_buf[k].part = "flag", k # 1
         PROVE  handled'[c][i][2] < serial_buf[k].frame
    <3>1. CASE i \in 1..n
      <4>1. handled[c][i][2] < serial_buf[k].frame
        BY <2>2, <2>14, <3>1 DEF Handled
      <4> QED BY <2>7, <3>1, <4>1
    <3>2. CASE i = n + 1
      <4>1. Ix(serial_buf[1]) < Ix(serial_buf[k])
        <5>1. 1 < k
          BY <2>14
        <5> QED BY <2>4, <2>14, <5>1 DEF StreamInv, BufferInOrder
      <4>2. Ix(serial_buf[k]) = 3 * (serial_buf[k].frame - 1) + 1 /\ serial_buf[k].frame \in Nat
        BY <1>1, <2>14, Lengths DEF Ix, PartIx
      <4>3. f < serial_buf[k].frame
        BY <2>5, <4>1, <4>2
      <4> QED BY <2>7, <3>2, <4>3
    <3> QED BY <2>11, <3>1, <3>2
  <2> QED BY <1>4, <2>2, <2>6, <2>7, <2>12, <2>13, <2>14 DEF Handled
<1> QED BY <1>5, <1>6

LEMMA HandledInvStep ==
  ASSUME TypeInv, ThreadInv, StreamInv, HandledInv, NEW c \in Conns, Action(c)
  PROVE  HandledInv'
<1> SUFFICES ASSUME ~overlapped', NEW d \in Conns PROVE Handled(d)'
  BY DEF HandledInv
<1>1. ~overlapped /\ Handled(d)
  BY OtherSteps DEF HandledInv
<1>2. CASE ~Copy(c) /\ ~Skip(c) /\ ~protocol_parse(c)
  <2>1. /\ UNCHANGED <<serial_buf, handled, unique_id>>
        /\ parser'[d] # "skip" => parser[d] # "skip"
    BY <1>2, QuietSteps DEF ThreadInv
  <2>2. Passed(d) \in Int /\ Passed(d)' \in Int /\ Passed(d)' >= Passed(d)
    BY PassedGrows DEF TypeInv
  <2> QED BY <1>1, <2>1, <2>2, HandledKept DEF Handled
<1> QED BY <1>1, <1>2, HandledCopy, HandledSkip, HandledParse

\* As long as the connections' bytes do not meet in the buffer, every thread
\* handles its own camera's frames only, each once and in the order sent, and
\* registers the direction for its own camera.
THEOREM OwnFramesAreInOrder == Spec => []OwnFramesInOrder
<1> DEFINE Inv == TypeInv /\ ThreadInv /\ StreamInv /\ HandledInv
<1>1. Init => Inv
  <2> SUFFICES ASSUME Init PROVE Inv
    OBVIOUS
  <2>1. TypeInv
    BY TypeInvInit
  <2>2. serial_buf = <<>> /\ Len(serial_buf) = 0 /\ \A i \in 1..Len(serial_buf) : FALSE
    BY EmptySeq DEF Init
  <2>3. \A c \in Conns : /\ Len(chunk[c]) = 0 /\ Len(handled[c]) = 0
                         /\ parser[c] = "none" /\ unique_id[c] = "none"
    BY EmptySeq DEF Init
  <2>4. ThreadInv
    BY <2>3 DEF ThreadInv, Started, LooksOn, Active
  <2>5. StreamInv
    BY <2>2, <2>3 DEF StreamInv, ChunkInOrder, BufferPassed, BufferInOrder
  <2>6. HandledInv
    BY <2>2, <2>3 DEF HandledInv, Handled
  <2> QED BY <2>1, <2>4, <2>5, <2>6
<1>2. Inv /\ [Next]_vars => Inv'
  <2> SUFFICES ASSUME Inv, [Next]_vars PROVE Inv'
    OBVIOUS
  <2>1. TypeInv'
    BY TypeInvStep
  <2>2. ASSUME NEW c \in Conns, Action(c) PROVE ThreadInv' /\ StreamInv' /\ HandledInv'
    BY <2>2, ThreadInvStep, StreamInvStep, HandledInvStep DEF StreamInv
  <2>3. CASE UNCHANGED vars
    <3>1. UNCHANGED <<serial_buf, received, reader, chunk, parser, flag_waitdat, unique_id, handled,
                      overlapped>>
      BY <2>3, Zenon DEF vars, sync, outcome
    <3>2. ThreadInv'
      BY <3>1 DEF ThreadInv, Started, LooksOn, Active, Alone
    <3>3. StreamInv'
      BY <3>1 DEF StreamInv, ChunkInOrder, BufferPassed, BufferInOrder, Passed, Ix
    <3>4. HandledInv'
      BY <3>1 DEF HandledInv, Handled, Passed
    <3> QED BY <2>1, <3>2, <3>3, <3>4
  <2> QED BY <2>1, <2>2, <2>3, NextCases
<1>3. Inv => OwnFramesInOrder
  <2> SUFFICES ASSUME Inv, ~overlapped, NEW c \in Conns
               PROVE  /\ \A i, j \in DOMAIN handled[c] : i < j => handled[c][i][2] < handled[c][j][2]
                      /\ \A i \in DOMAIN handled[c] : handled[c][i][1] = c
                      /\ unique_id[c] \in {"none", c}
    BY DEF OwnFramesInOrder
  <2>1. DOMAIN handled[c] = 1..Len(handled[c]) /\ Handled(c)
    BY HandledTypes, LenProperties DEF HandledInv
  <2> QED BY <2>1 DEF Handled
<1> QED BY <1>1, <1>2, <1>3, PTL DEF Spec
------------------------------------------------------------------------------
(* Parsers sleep on nothing but what came late *)

\* A parser that waits for more has looked for a second flag.
LEMMA ShortLeavesNone ==
  ASSUME BufferTypes, "short" \in parse_msg_head, Len(serial_buf) >= 1, serial_buf[1].part = "flag"
  PROVE  WholeFrames(Len(serial_buf)) = {}
<1> SUFFICES ASSUME NEW i \in 1..Len(serial_buf), i + 2 <= Len(serial_buf), FrameAt(i, 3)
             PROVE  FALSE
  BY DEF WholeFrames
<1> DEFINE flags == {k \in DOMAIN serial_buf : serial_buf[k].part = "flag"}
<1>1. Len(serial_buf) \in Nat /\ Len(serial_buf) > 2 /\ ~(Len(serial_buf) < 2)
  BY Lengths
<1>2. i # 1 /\ ~FrameAt(1, 3)
  BY <1>1 DEF parse_msg_head
<1>3. serial_buf[i].part = "flag"
  BY WholeFrame
<1>4. DOMAIN serial_buf = 1..Len(serial_buf)
  BY LenProperties DEF BufferTypes
<1>5. IsFiniteSet(flags) /\ {1, i} \subseteq flags
  <2>1. IsFiniteSet(1..Len(serial_buf))
    BY <1>1, FS_Interval
  <2>2. flags \subseteq 1..Len(serial_buf)
    BY <1>4
  <2>3. IsFiniteSet(flags)
    BY <2>1, <2>2, FS_Subset
  <2>4. 1 \in flags /\ i \in flags
    BY <1>1, <1>3, <1>4
  <2> QED BY <2>3, <2>4
<1>6. Cardinality({1, i}) = 2
  <2>1. Cardinality({1}) = 1 /\ IsFiniteSet({1})
    BY FS_Singleton
  <2>2. Cardinality({1} \cup {i}) = Cardinality({1}) + 1
    BY <1>2, <2>1, FS_AddElement
  <2>3. {1} \cup {i} = {1, i}
    OBVIOUS
  <2>4. Cardinality({1, i}) = Cardinality({1} \cup {i})
    BY <2>3, Zenon
  <2> QED BY <2>1, <2>2, <2>4
<1>7. Cardinality({1, i}) <= Cardinality(flags) /\ Cardinality(flags) \in Nat
  BY <1>5, FS_Subset, FS_CardinalityType
<1>8. Truncated
  BY <1>6, <1>7 DEF Truncated, get_remain_frames
<1>9. i + 1 \in DOMAIN serial_buf /\ serial_buf[i + 1].part = "head"
  <2>1. serial_buf[i + 1].part = Parts[2]
    BY DEF FrameAt
  <2> QED BY <1>1, <1>4, <2>1 DEF Parts
<1>10. ~HeadMissing
  BY <1>1, <1>9 DEF HeadMissing
<1> QED BY <1>1, <1>2, <1>8, <1>9, <1>10, Zenon DEF parse_msg_head

\* The head of the buffer, while a parser has a flag there.
HeadInv == /\ \A c \in Conns : flag_parsing[c] => /\ Len(serial_buf) >= 1
                                                  /\ serial_buf[1].part = "flag"
                                                  /\ serial_buf[1].conn = c
           /\ \A c \in Conns : parser[c] = "parse" => flag_parsing[c]
AllSleepy == \A c \in Conns : Sleepy(c)
LeftLate == AllSleepy => WholeFrames(Len(serial_buf) - late) = {}

LEMMA SleepParts == SleepInv <=> (~overlapped => HeadInv /\ LeftLate)
BY Zenon DEF SleepInv, HeadInv, LeftLate, AllSleepy

LEMMA HeadInvStep ==
  ASSUME TypeInv, ThreadInv, ~overlapped, HeadInv, NEW c \in Conns, Action(c)
  PROVE  HeadInv'
<1>1. /\ BufferTypes /\ Len(serial_buf) \in Nat
      /\ parser \in [Conns -> {"none", "wait", "loop", "find", "parse", "skip", "clear"}]
      /\ flag_parsing \in [Conns -> BOOLEAN]
  BY Lengths DEF TypeInv, ThreadTypes, FlagTypes
<1>2. CASE netctrl_recv(c) \/ Read(c) \/ TestRoom(c) \/ Signal(c) \/ Wake(c) \/ ClearReady(c)
  <2>1. UNCHANGED <<serial_buf, flag_parsing>>
    BY <1>2, Zenon DEF netctrl_recv, Read, TestRoom, Signal, Wake, ClearReady, sync
  <2>2. UNCHANGED parser \/ \E to \in {"wait", "loop"} : parser' = [parser EXCEPT ![c] = to]
    BY <1>2 DEF netctrl_recv, Read, TestRoom, Signal, Wake, ClearReady
  <2> QED BY <1>1, <2>1, <2>2 DEF HeadInv
<1>3. CASE Copy(c)
  <2>1. UNCHANGED <<parser, flag_parsing>>
    BY <1>3, Zenon DEF Copy, sync
  <2>2. /\ Len(serial_buf') >= Len(serial_buf)
        /\ \A i \in 1..Len(serial_buf) : serial_buf'[i] = serial_buf[i]
    BY <1>1, <1>3, AfterCopy, Lengths
  <2>3. Len(serial_buf') \in Int
    BY <1>1, <1>3, AfterCopy, Lengths
  <2>4. Len(serial_buf) >= 1 => Len(serial_buf') >= 1 /\ serial_buf'[1] = serial_buf[1]
    BY <1>1, <2>2, <2>3
  <2> QED BY <2>1, <2>4 DEF HeadInv
<1>4. CASE LoopTest(c)
  <2>1. UNCHANGED <<serial_buf, flag_parsing>>
    BY <1>4, Zenon DEF LoopTest, sync
  <2>2. /\ parser'[c] = "parse" => flag_parsing[c]
        /\ \A d \in Conns \ {c} : parser'[d] = parser[d]
    BY <1>1, <1>4 DEF LoopTest
  <2> QED BY <2>1, <2>2 DEF HeadInv
<1>5. CASE FindFlag(c)
  <2>1. parser[c] = "find" /\ UNCHANGED serial_buf
    BY <1>5, Zenon DEF FindFlag
  <2>2. Len(serial_buf) >= 1 /\ serial_buf[1].conn = c /\ serial_buf # <<>>
    <3>1. Alone(c) /\ Len(serial_buf) >= 1
      BY <2>1 DEF ThreadInv, Active, Alone
    <3>2. serial_buf # <<>>
      BY <3>1, EmptySeq
    <3> QED BY <1>1, <3>1, <3>2 DEF Alone
  <2>3. /\ parser' = [parser EXCEPT ![c] = IF serial_buf[1].part = "flag" THEN "parse" ELSE "skip"]
        /\ flag_parsing' = [flag_parsing EXCEPT ![c] = (serial_buf[1].part = "flag")]
    BY <1>5, <2>2 DEF FindFlag
  <2> QED BY <1>1, <2>1, <2>2, <2>3 DEF HeadInv
<1>6. CASE Skip(c)
  <2>1. /\ parser[c] = "skip" /\ parser' = [parser EXCEPT ![c] = "loop"]
        /\ flag_parsing' = [flag_parsing EXCEPT ![c] = FALSE]
    BY <1>6, Zenon DEF Skip
  <2>2. Len(serial_buf) >= 1 /\ serial_buf[1].conn = c
    <3>1. Alone(c) /\ Len(serial_buf) >= 1
      BY <2>1 DEF ThreadInv, Active, Alone
    <3> QED BY <1>1, <3>1 DEF Alone
  <2>3. \A d \in Conns : ~flag_parsing'[d]
    BY <1>1, <2>1, <2>2 DEF HeadInv
  <2>4. \A d \in Conns : ~(parser'[d] = "parse")
    BY <1>1, <2>1, <2>2 DEF HeadInv
  <2> QED BY <2>3, <2>4 DEF HeadInv
<1>7. CASE protocol_parse(c)
  <2>1. /\ UNCHANGED <<serial_buf, flag_parsing>>
        /\ \E to \in {"loop", "skip"} : parser' = [parser EXCEPT ![c] = to]
    BY <1>7 DEF protocol_parse
  <2> QED BY <1>1, <2>1 DEF HeadInv
<1> QED BY <1>2, <1>3, <1>4, <1>5, <1>6, <1>7 DEF Action

LEMMA LeftLateStep ==
  ASSUME TypeInv, ThreadInv, ~overlapped, HeadInv, LeftLate, NEW c \in Conns, Action(c)
  PROVE  LeftLate'
<1>1. /\ BufferTypes /\ Len(serial_buf) \in Nat /\ late \in Nat
      /\ parser \in [Conns -> {"none", "wait", "loop", "find", "parse", "skip", "clear"}]
      /\ flag_waitdat \in [Conns -> BOOLEAN]
  BY Lengths DEF TypeInv, ThreadTypes, FlagTypes, OutcomeTypes
<1>2. ASSUME UNCHANGED <<serial_buf, late>>, AllSleepy' => AllSleepy PROVE LeftLate'
  BY <1>2 DEF LeftLate, WholeFrames, FrameAt
<1>3. ASSUME ~Sleepy(c)' PROVE LeftLate'
  BY <1>3 DEF LeftLate, AllSleepy
<1>4. CASE netctrl_recv(c)
  <2>1. /\ UNCHANGED <<serial_buf, late, flag_waitdat>>
        /\ parser[c] = "none" /\ parser' = [parser EXCEPT ![c] = "wait"]
    BY <1>4 DEF netctrl_recv, sync, ThreadInv, Started
  <2> QED BY <1>1, <1>2, <2>1 DEF AllSleepy, Sleepy
<1>5. CASE Read(c) \/ TestRoom(c) \/ Signal(c)
  <2>1. UNCHANGED <<serial_buf, late, parser, flag_waitdat>>
    BY <1>5, Zenon DEF Read, TestRoom, Signal, sync
  <2> QED BY <1>2, <2>1 DEF AllSleepy, Sleepy
<1>6. CASE ClearReady(c)
  <2>1. /\ UNCHANGED <<serial_buf, late, flag_waitdat>>
        /\ parser[c] = "clear" /\ parser' = [parser EXCEPT ![c] = "wait"]
    BY <1>6, Zenon DEF ClearReady
  <2> QED BY <1>1, <1>2, <2>1 DEF AllSleepy, Sleepy
<1>7. CASE Copy(c)
  <2>1. UNCHANGED <<parser, flag_waitdat>> /\ late' = late + Len(chunk[c])
    BY <1>7, Zenon DEF Copy, sync
  <2>2. /\ Len(serial_buf') = Len(serial_buf) + Len(chunk[c]) /\ Len(chunk[c]) \in Nat
        /\ \A i \in 1..Len(serial_buf) : serial_buf'[i] = serial_buf[i]
    BY <1>1, <1>7, AfterCopy, Lengths
  <2>3. Len(serial_buf') - late' = Len(serial_buf) - late
    BY <1>1, <2>1, <2>2
  <2> SUFFICES ASSUME AllSleepy', NEW i \in 1..(Len(serial_buf) - late),
                      i + 2 <= Len(serial_buf) - late, FrameAt(i, 3)'
               PROVE  FALSE
    BY <2>3 DEF LeftLate, WholeFrames, FrameAt
  <2>4. AllSleepy
    BY <2>1 DEF AllSleepy, Sleepy
  <2>5. \A k \in 0..2 : i + k \in 1..Len(serial_buf)
    BY <1>1
  <2>6. serial_buf'[i] = serial_buf[i] /\ \A k \in 0..2 : serial_buf'[i + k] = serial_buf[i + k]
    <3>1. i \in 1..Len(serial_buf)
      BY <1>1
    <3> QED BY <2>2, <2>5, <3>1
  <2>7. FrameAt(i, 3)
    BY <2>6 DEF FrameAt
  <2> QED BY <2>4, <2>7 DEF LeftLate, WholeFrames
<1>8. CASE Wake(c)
  <2>1. /\ flag_waitdat' = [flag_waitdat EXCEPT ![c] = FALSE]
        /\ parser' = [parser EXCEPT ![c] = "loop"]
    BY <1>8, Zenon DEF Wake
  <2> QED BY <1>1, <1>3, <2>1 DEF Sleepy
<1>9. CASE LoopTest(c)
  <2>1. /\ UNCHANGED <<serial_buf, flag_waitdat>> /\ parser[c] = "loop"
        /\ \A d \in Conns \ {c} : parser'[d] = parser[d]
        /\ late' = IF flag_waitdat[c] THEN late ELSE 0
        /\ parser'[c] \in {"parse", "find"} \/ serial_buf = <<>> \/ flag_waitdat[c]
    BY <1>1, <1>9 DEF LoopTest, sync
  <2>2. CASE parser'[c] \in {"parse", "find"}
    BY <1>3, <2>2 DEF Sleepy
  <2>3. CASE flag_waitdat[c]
    <3>1. AllSleepy' => AllSleepy
      BY <2>1, <2>3 DEF AllSleepy, Sleepy
    <3> QED BY <1>2, <2>1, <2>3, <3>1
  <2>4. CASE serial_buf = <<>> /\ ~flag_waitdat[c]
    <3>1. Len(serial_buf') = 0 /\ late' = 0
      BY <2>1, <2>4, EmptySeq
    <3>2. Len(serial_buf') - late' = 0 /\ \A i \in 1..0 : FALSE
      BY <3>1
    <3> QED BY <3>2 DEF LeftLate, WholeFrames
  <2> QED BY <2>1, <2>2, <2>3, <2>4
<1>10. CASE FindFlag(c)
  <2>1. parser'[c] \in {"parse", "skip"}
    BY <1>1, <1>10 DEF FindFlag
  <2> QED BY <1>3, <2>1 DEF Sleepy
<1>11. CASE Skip(c)
  <2>1. /\ UNCHANGED flag_waitdat /\ parser[c] = "skip"
        /\ parser' = [parser EXCEPT ![c] = "loop"]
    BY <1>11, Zenon DEF Skip
  <2>2. ~flag_waitdat[c]
    BY <2>1 DEF ThreadInv, LooksOn
  <2> QED BY <1>1, <1>3, <2>1, <2>2 DEF Sleepy
<1>12. CASE protocol_parse(c)
  <2>1. PICK ret \in parse_msg_head :
          parser' = [parser EXCEPT ![c] = IF ret = "short" THEN "loop" ELSE "skip"]
    BY <1>12, Zenon DEF protocol_parse
  <2>2. parser[c] = "parse" /\ UNCHANGED serial_buf /\ late' = 0
    BY <1>12 DEF protocol_parse
  <2>3. CASE ret # "short"
    BY <1>1, <1>3, <2>1, <2>3 DEF Sleepy
  <2>4. CASE ret = "short"
    <3>1. Len(serial_buf) >= 1 /\ serial_buf[1].part = "flag"
      BY <2>2 DEF HeadInv
    <3>2. WholeFrames(Len(serial_buf)) = {}
      BY <1>1, <2>4, <3>1, ShortLeavesNone
    <3>3. Len(serial_buf') - late' = Len(serial_buf)
      BY <1>1, <2>2
    <3> QED BY <2>2, <3>2, <3>3 DEF LeftLate, WholeFrames, FrameAt
  <2> QED BY <2>3, <2>4
<1> QED BY <1>4, <1>5, <1>6, <1>7, <1>8, <1>9, <1>10, <1>11, <1>12 DEF Action

\* As long as the connections' bytes do not meet in the buffer, parsers that are
\* all asleep have left no whole frame behind but in what was appended after
\* their last look.
THEOREM SleepsOnlyOnLateHolds == Spec => []SleepsOnlyOnLate
<1> DEFINE Inv == TypeInv /\ ThreadInv /\ StreamInv /\ SleepInv
<1>1. Init => Inv
  <2> SUFFICES ASSUME Init PROVE Inv
    OBVIOUS
  <2>1. TypeInv
    BY TypeInvInit
  <2>2. serial_buf = <<>> /\ Len(serial_buf) = 0 /\ \A i \in 1..Len(serial_buf) : FALSE
    BY EmptySeq DEF Init
  <2>3. \A c \in Conns : Len(chunk[c]) = 0 /\ parser[c] = "none" /\ ~flag_parsing[c]
    BY EmptySeq DEF Init
  <2>4. ThreadInv
    BY <2>3 DEF ThreadInv, Started, LooksOn, Active
  <2>5. StreamInv
    BY <2>2, <2>3 DEF StreamInv, ChunkInOrder, BufferPassed, BufferInOrder
  <2>6. late = 0
    BY DEF Init
  <2>7. SleepInv
    BY <2>2, <2>3, <2>6 DEF SleepInv, WholeFrames
  <2> QED BY <2>1, <2>4, <2>5, <2>7
<1>2. Inv /\ [Next]_vars => Inv'
  <2> SUFFICES ASSUME Inv, [Next]_vars PROVE Inv'
    OBVIOUS
  <2>1. TypeInv'
    BY TypeInvStep
  <2>2. ASSUME NEW c \in Conns, Action(c) PROVE ThreadInv' /\ StreamInv' /\ SleepInv'
    <3>1. ThreadInv' /\ StreamInv'
      BY <2>2, ThreadInvStep, StreamInvStep DEF StreamInv
    <3>2. ASSUME ~overlapped' PROVE HeadInv' /\ LeftLate'
      <4>1. ~overlapped /\ HeadInv /\ LeftLate
        BY <2>2, <3>2, OtherSteps, SleepParts
      <4> QED BY <2>2, <4>1, HeadInvStep, LeftLateStep
    <3>3. SleepInv' <=> (~overlapped' => HeadInv' /\ LeftLate')
      BY SleepParts, PTL
    <3> QED BY <3>1, <3>2, <3>3
  <2>3. CASE UNCHANGED vars
    <3>1. UNCHANGED <<serial_buf, received, reader, chunk, parser, flag_waitdat, flag_parsing, late,
                      overlapped>>
      BY <2>3, Zenon DEF vars, sync
    <3>2. ThreadInv'
      BY <3>1 DEF ThreadInv, Started, LooksOn, Active, Alone
    <3>3. StreamInv'
      BY <3>1 DEF StreamInv, ChunkInOrder, BufferPassed, BufferInOrder, Passed, Ix
    <3>4. SleepInv'
      BY <3>1 DEF SleepInv, Sleepy, WholeFrames, FrameAt
    <3> QED BY <2>1, <3>2, <3>3, <3>4
  <2> QED BY <2>1, <2>2, <2>3, NextCases
<1>3. Inv => SleepsOnlyOnLate
  BY DEF SleepInv, SleepsOnlyOnLate, Sleepy
<1> QED BY <1>1, <1>2, <1>3, PTL DEF Spec
==============================================================================
