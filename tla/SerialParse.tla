----------------------------- MODULE SerialParse -----------------------------
(***************************************************************************)
(* How the cameras' messages are received (listen_socket.cpp): every       *)
(* message connection has a thread serial_recv, which appends what it      *)
(* reads to serial_buf, and a thread serial_parse, which searches the      *)
(* buffer for frames.  The two share a ParseSync_t (mutex, cond,           *)
(* data_ready); serial_buf is shared by the threads of ALL connections.    *)
(*                                                                         *)
(* The bytes of a frame are three pieces: the start flag 0xAA55, the rest  *)
(* of the head (with the length), the data.  A read may end after any      *)
(* piece.  Assumed: the CRC is right only on a whole frame, and no other   *)
(* byte pair looks like the flag.  A look at the buffer by                 *)
(* protocol_parse, which takes no lock, is one step.                       *)
(***************************************************************************)
EXTENDS Naturals, Sequences, FiniteSets

CONSTANTS
  Conns,       \* the message connections
  Capacity,    \* ARRAY_BUFFER_CAPACITY, in pieces
  ReadMax,     \* ONE_FRAME_MAX_LEN, the size of a read, in pieces
  Loads        \* a bound: how many frames each camera sends, the cases checked

ASSUME ConnsFinite == IsFiniteSet(Conns)
ASSUME BoundsNat == Capacity \in Nat /\ ReadMax \in Nat /\ Loads \subseteq [Conns -> Nat]

Parts == <<"flag", "head", "data">>
Piece == [conn : Conns, frame : Nat, part : {"flag", "head", "data"}]

VARIABLES
  frames,      \* the case: it does not change
  serial_buf,
  received,                               \* pieces a reader has taken from its socket
  reader, chunk,                          \* serial_recv: where it is, its buffer
  parser,                                 \* serial_parse: where it is
  data_ready, flag_parsing, flag_waitdat, \* the connection's ParseSync_t
  unique_id,   \* the direction registered for a connection's camera, or "none"
  \* Ghosts: read by the properties only, handled and late not kept once overlapped.
  handled,     \* frames handled by each connection's parser, in order
  late,        \* pieces appended since a parser's last look at the length
  overlapped,  \* a chunk came, or a parser woke, while another connection was busy
  raced        \* a chunk came while another reader's had passed the test of the room

sync == <<data_ready, flag_parsing, flag_waitdat>>
outcome == <<unique_id, handled>>
vars == <<frames, serial_buf, received, reader, chunk, parser, sync, outcome, late, overlapped, raced>>

\* A camera's stream: the k-th piece it sends.
Nth(c, k) == [conn |-> c, frame |-> ((k - 1) \div 3) + 1, part |-> Parts[((k - 1) % 3) + 1]]

Init ==
  /\ frames \in Loads
  /\ serial_buf = <<>>
  /\ received = [c \in Conns |-> 0]
  /\ reader = [c \in Conns |-> "none"] /\ parser = [c \in Conns |-> "none"]
  /\ chunk = [c \in Conns |-> <<>>]
  /\ data_ready = [c \in Conns |-> FALSE]
  /\ flag_parsing = [c \in Conns |-> FALSE]
  /\ flag_waitdat = [c \in Conns |-> FALSE]
  /\ unique_id = [c \in Conns |-> "none"]
  /\ handled = [c \in Conns |-> <<>>]
  /\ late = 0
  /\ overlapped = FALSE
  /\ raced = FALSE

\* netctrl_recv: a new ParseSync_t and two threads; serial_buf is not reset.
netctrl_recv(c) ==
  /\ reader[c] = "none"
  /\ reader' = [reader EXCEPT ![c] = "read"]
  /\ parser' = [parser EXCEPT ![c] = "wait"]
  /\ UNCHANGED <<frames, serial_buf, received, chunk, sync, outcome, late, overlapped, raced>>

------------------------------------------------------------------------------
(* serial_recv *)

\* Faulty variant: a read one piece larger than the buffer.
Read_TooMuch(c) ==
  /\ reader[c] = "read"
  /\ received[c] + ReadMax < 3 * frames[c]
  /\ chunk' = [chunk EXCEPT ![c] = [i \in 1..(ReadMax + 1) |-> Nth(c, received[c] + i)]]
  /\ received' = [received EXCEPT ![c] = @ + ReadMax + 1]
  /\ reader' = [reader EXCEPT ![c] = "room"]
  /\ UNCHANGED <<frames, serial_buf, parser, sync, outcome, late, overlapped, raced>>
Read(c) ==
  /\ reader[c] = "read"
  /\ \E n \in 1..ReadMax :
       /\ received[c] + n <= 3 * frames[c]
       /\ chunk' = [chunk EXCEPT ![c] = [i \in 1..n |-> Nth(c, received[c] + i)]]
       /\ received' = [received EXCEPT ![c] = @ + n]
  /\ reader' = [reader EXCEPT ![c] = "room"]
  /\ UNCHANGED <<frames, serial_buf, parser, sync, outcome, late, overlapped, raced>>

\* Faulty variant: the fill level is not looked at.
TestRoom_Skipped(c) ==
  /\ reader[c] = "room"
  /\ reader' = [reader EXCEPT ![c] = "copy"]
  /\ UNCHANGED <<frames, serial_buf, received, chunk, parser, sync, outcome, late, overlapped, raced>>
\* arraybuf_add: the room is tested in one critical section (a chunk that
\* does not fit is lost), the chunk is copied in another.  The room is a size_t:
\* it is never negative, an overfull buffer's would be huge (see Intact).
TestRoom(c) ==
  /\ reader[c] = "room"
  /\ LET fits == Len(serial_buf) > Capacity \/ Len(chunk[c]) <= Capacity - Len(serial_buf) IN
     /\ reader' = [reader EXCEPT ![c] = IF fits THEN "copy" ELSE "test"]
     /\ chunk' = IF fits THEN chunk ELSE [chunk EXCEPT ![c] = <<>>]
  /\ UNCHANGED <<frames, serial_buf, received, parser, sync, outcome, late, overlapped, raced>>

\* Another connection's bytes are in the buffer or being parsed.
Busy(c) == \/ \E i \in DOMAIN serial_buf : serial_buf[i].conn # c
           \/ \E d \in Conns \ {c} : \/ parser[d] \notin {"none", "wait"}
                                     \/ reader[d] \in {"room", "copy", "test"}

Copy(c) ==
  /\ reader[c] = "copy"
  /\ serial_buf' = serial_buf \o chunk[c]
  /\ late' = IF overlapped THEN 0 ELSE late + Len(chunk[c])
  /\ overlapped' = (overlapped \/ Busy(c))
  /\ raced' = (raced \/ \E d \in Conns \ {c} : reader[d] = "copy")
  /\ chunk' = [chunk EXCEPT ![c] = <<>>]
  /\ reader' = [reader EXCEPT ![c] = "test"]
  /\ UNCHANGED <<frames, received, parser, sync, outcome>>

\* data_ready is read without the mutex: while it is set, nobody is woken.
\* Cleared, it is set under the mutex, which the parser holds unless it waits.
Signal(c) ==
  /\ reader[c] = "test"
  /\ data_ready[c] \/ parser[c] = "wait"
  /\ data_ready' = [data_ready EXCEPT ![c] = TRUE]
  /\ reader' = [reader EXCEPT ![c] = "read"]
  /\ UNCHANGED <<frames, serial_buf, received, chunk, parser, flag_parsing, flag_waitdat,
                 outcome, late, overlapped, raced>>

serial_recv(c) == Read(c) \/ TestRoom(c) \/ Copy(c) \/ Signal(c)

------------------------------------------------------------------------------
(* serial_parse *)

Wake(c) ==
  /\ parser[c] = "wait"
  /\ data_ready[c]
  /\ flag_waitdat' = [flag_waitdat EXCEPT ![c] = FALSE]
  /\ parser' = [parser EXCEPT ![c] = "loop"]
  /\ overlapped' = (overlapped \/ Busy(c))
  /\ UNCHANGED <<frames, serial_buf, received, reader, chunk, data_ready, flag_parsing,
                 outcome, late, raced>>

\* Faulty variant: the parser does not leave the buffer to wait for more.
LoopTest_Spins(c) ==
  /\ parser[c] = "loop"
  /\ parser' = [parser EXCEPT ![c] =
       IF serial_buf = <<>> THEN "clear" ELSE IF flag_parsing[c] THEN "parse" ELSE "find"]
  /\ late' = 0
  /\ UNCHANGED <<frames, serial_buf, received, reader, chunk, sync, outcome, overlapped, raced>>
LoopTest(c) ==
  /\ parser[c] = "loop"
  /\ parser' = [parser EXCEPT ![c] =
       IF serial_buf = <<>> \/ flag_waitdat[c] THEN "clear"
       ELSE IF flag_parsing[c] THEN "parse" ELSE "find"]
  /\ late' = IF flag_waitdat[c] THEN late ELSE 0
  /\ UNCHANGED <<frames, serial_buf, received, reader, chunk, sync, outcome, overlapped, raced>>

\* The first two bytes are compared with the flag; another parser may have
\* emptied the buffer meanwhile, and then old bytes are compared.
FindFlag(c) ==
  /\ parser[c] = "find"
  /\ \E isFlag \in IF serial_buf = <<>> THEN BOOLEAN
                   ELSE {serial_buf[1].part = "flag"} :
       /\ parser' = [parser EXCEPT ![c] = IF isFlag THEN "parse" ELSE "skip"]
       /\ flag_parsing' = [flag_parsing EXCEPT ![c] = isFlag]
  /\ UNCHANGED <<frames, serial_buf, received, reader, chunk, data_ready, flag_waitdat,
                 outcome, late, overlapped, raced>>

DeleteFirst == serial_buf' = IF serial_buf = <<>> THEN <<>> ELSE Tail(serial_buf)

\* arraybuf_del(1): after a mismatch, or after protocol_parse.
Skip(c) ==
  /\ parser[c] = "skip"
  /\ DeleteFirst
  /\ flag_parsing' = [flag_parsing EXCEPT ![c] = FALSE]
  /\ parser' = [parser EXCEPT ![c] = "loop"]
  /\ UNCHANGED <<frames, received, reader, chunk, data_ready, flag_waitdat, outcome,
                 late, overlapped, raced>>

\* get_remain_frames: the flags in the buffer, the first one included.
get_remain_frames == Cardinality({i \in DOMAIN serial_buf : serial_buf[i].part = "flag"})

\* Faulty variant: one more flag is waited for.
Truncated_TwoMore == get_remain_frames > 2
\* A later flag is there: the frame at the start will not be completed.
Truncated == get_remain_frames > 1

\* The first pieces are of one frame, in order.
FrameAt(i, n) == \A k \in 0..(n - 1) : /\ serial_buf[i + k].part = Parts[k + 1]
                                       /\ serial_buf[i + k].frame = serial_buf[i].frame
                                       /\ serial_buf[i + k].conn = serial_buf[i].conn

\* Fewer bytes than a head's twelve: flags alone, or the rest of a head; or a
\* flag and its head, which is short too, as its data are missing.
HeadMissing == \/ Len(serial_buf) <= 5 /\ \A i \in DOMAIN serial_buf : serial_buf[i].part = "flag"
               \/ Len(serial_buf) = 1 /\ serial_buf[1].part = "head"
               \/ Len(serial_buf) = 2 /\ FrameAt(1, 2)

\* parse_msg_head: -2 ("short"), -1 ("bad") or 0 ("ok").  The length in a head
\* that is not the frame's own can be any number; too few bytes for it are
\* waited for unless a second flag is there, and a later frame's flag and head
\* are bytes enough for a head.
parse_msg_head ==
  IF Len(serial_buf) > 2 /\ FrameAt(1, 3) THEN {"ok"}
  ELSE IF HeadMissing THEN {"short"}
  ELSE IF Truncated /\ \E i \in DOMAIN serial_buf : serial_buf[i].part = "head" THEN {"bad"}
  ELSE {"short", "bad"}

\* Faulty variant: the frame is cut out of the buffer without a new search.
protocol_parse_Again(c) ==
  /\ parser[c] = "parse"
  /\ \E ret \in parse_msg_head :
       /\ parser' = [parser EXCEPT ![c] = IF ret = "bad" THEN "skip" ELSE "loop"]
       /\ flag_waitdat' = [flag_waitdat EXCEPT ![c] = ret = "short"]
       /\ IF ret = "ok"
          THEN /\ handled' = IF overlapped THEN handled ELSE [handled EXCEPT ![c] =
                               Append(@, <<serial_buf[1].conn, serial_buf[1].frame>>)]
               /\ unique_id' = [unique_id EXCEPT ![c] = serial_buf[1].conn]
          ELSE UNCHANGED outcome
       /\ late' = 0
  /\ UNCHANGED <<frames, serial_buf, received, reader, chunk, data_ready, flag_parsing,
                 overlapped, raced>>
\* protocol_parse: a heartbeat answer registers its direction for the
\* connection whose THREAD found it (process_heart_beat_resp).
protocol_parse(c) ==
  /\ parser[c] = "parse"
  /\ \E ret \in parse_msg_head :
       /\ parser' = [parser EXCEPT ![c] = IF ret = "short" THEN "loop" ELSE "skip"]
       /\ flag_waitdat' = [flag_waitdat EXCEPT ![c] = ret = "short"]
       /\ IF ret = "ok"
          THEN /\ handled' = IF overlapped THEN handled ELSE [handled EXCEPT ![c] =
                               Append(@, <<serial_buf[1].conn, serial_buf[1].frame>>)]
               /\ unique_id' = [unique_id EXCEPT ![c] = serial_buf[1].conn]
          ELSE UNCHANGED outcome
       /\ late' = 0
  /\ UNCHANGED <<frames, serial_buf, received, reader, chunk, data_ready, flag_parsing,
                 overlapped, raced>>

\* data_ready is cleared whatever has come in since the last look.
ClearReady(c) ==
  /\ parser[c] = "clear"
  /\ data_ready' = [data_ready EXCEPT ![c] = FALSE]
  /\ parser' = [parser EXCEPT ![c] = "wait"]
  /\ UNCHANGED <<frames, serial_buf, received, reader, chunk, flag_parsing, flag_waitdat,
                 outcome, late, overlapped, raced>>

serial_parse(c) == Wake(c) \/ LoopTest(c) \/ FindFlag(c) \/ Skip(c)
                   \/ protocol_parse(c) \/ ClearReady(c)

\* A chunk that goes beyond the buffer overwrites its length, which lies behind
\* it: what happens then is undefined, and the model ends.
Intact == Len(serial_buf) <= Capacity

Next == Intact /\ \E c \in Conns : netctrl_recv(c) \/ serial_recv(c) \/ serial_parse(c)

\* A running thread keeps running; when a camera sends is its own business
\* (Read); one that has closed sends no more.
Fairness ==
  \A c \in Conns : /\ WF_vars(Intact /\ serial_parse(c))
                   /\ WF_vars(Intact /\ (TestRoom(c) \/ Copy(c) \/ Signal(c)))

Spec == Init /\ [][Next]_vars /\ Fairness

------------------------------------------------------------------------------
(* Properties *)

\* Type invariant.
TypeOK ==
  /\ frames \in Loads
  /\ serial_buf \in Seq(Piece)
  /\ received \in [Conns -> Nat]
  /\ reader \in [Conns -> {"none", "read", "room", "copy", "test"}]
  /\ parser \in [Conns -> {"none", "wait", "loop", "find", "parse", "skip", "clear"}]
  /\ chunk \in [Conns -> Seq(Piece)]
  /\ \A c \in Conns : Len(chunk[c]) <= ReadMax
  /\ data_ready \in [Conns -> BOOLEAN]
  /\ flag_parsing \in [Conns -> BOOLEAN]
  /\ flag_waitdat \in [Conns -> BOOLEAN]
  /\ unique_id \in [Conns -> Conns \cup {"none"}]
  /\ handled \in [Conns -> Seq(Conns \X Nat)]
  /\ late \in Nat
  /\ overlapped \in BOOLEAN
  /\ raced \in BOOLEAN

\* arraybuf_add tests the room and copies under two separate locks.  The buffer
\* overflows only if a chunk was copied while another connection's had passed
\* the test already: with one camera, or cameras whose chunks come apart, never.
OverflowNeedsRace == ~raced => Len(serial_buf) <= Capacity

\* As long as the connections' bytes do not meet in the shared buffer, every
\* thread handles only its own camera's frames, each once and in the order
\* sent, whatever chunks were lost, and the direction goes to the right camera.
OwnFramesInOrder ==
  ~overlapped => \A c \in Conns :
    /\ \A i, j \in DOMAIN handled[c] : i < j => handled[c][i][2] < handled[c][j][2]
    /\ \A i \in DOMAIN handled[c] : handled[c][i][1] = c
    /\ unique_id[c] \in {"none", c}

WholeFrames(last) == {i \in 1..last : i + 2 <= last /\ FrameAt(i, 3)}

\* Parsers that are all asleep have left no whole frame behind, also not one
\* behind the rest of a frame that lost a chunk, except in what was appended
\* after their last look (data_ready was still set then, so nobody woke it).
SleepsOnlyOnLate ==
  ~overlapped /\ (\A c \in Conns : parser[c] \in {"none", "wait"})
    => WholeFrames(Len(serial_buf) - late) = {}

\* A parser's pass over the buffer ends, also while another one deletes from
\* the buffer: it does not spin on a frame that is not complete.
PassEnds == \A c \in Conns : parser[c] = "loop" ~> (parser[c] = "wait" \/ ~Intact)
==============================================================================
