------------------------------- MODULE GbStream ------------------------------
(***************************************************************************)
(* One channel of the GB28181 client (gb28181/SipClient.cpp): how a stream *)
(* is started and stopped.                                                 *)
(*                                                                         *)
(* The SIP thread handles the platform's events one after the other: an    *)
(* INVITE sets the session, an ACK starts the sender thread, a BYE stops   *)
(* it.  The sender is SendDataThread (live video out of the ring) or       *)
(* SendFileDataThread (a recording).  The threads of the video connections *)
(* put what they receive into the ring when usefifo is set.  All of them   *)
(* share g_rtpsendPs[chn], plain variables without a lock.                 *)
(*                                                                         *)
(* What happens inside a live ring is in RingFifo.  mRun is left out: only *)
(* rtpsendPs_stop reads it, to wait up to 3 s before it joins anyway.      *)
(***************************************************************************)
EXTENDS Naturals

CONSTANTS Producers   \* the video connections' threads

Sessions == {"Play", "File", "Other"}   \* File: Playback and Download

VARIABLES
  sessionName, mQuit, mPlay, usefifo,   \* g_rtpsendPs[chn]
  mSockFd,       \* "none" (0), "open", or "stale": the number of a closed one
  joinable,      \* pid_thread holds a thread nobody has joined
  ring,          \* the channel's buffers: "none" (NULL) or "live"
  is_gb,         \* the camera was told to send, and not to stop
  sip, handling, \* where the SIP thread is, and in which event
  sender,        \* where the sender thread is
  producer,      \* per producer: "idle", or "puts" past its test of usefifo
  down           \* the process has been killed

cfg == <<sessionName, mQuit, mPlay, usefifo>>
vars == <<cfg, mSockFd, joinable, ring, is_gb, sip, handling, sender, producer,
          down>>

Init ==
  /\ sessionName = "Other"
  /\ mQuit = TRUE /\ mPlay = FALSE /\ usefifo = FALSE
  /\ mSockFd = "none" /\ joinable = FALSE /\ ring = "none"
  /\ is_gb = FALSE
  /\ sip = "idle" /\ handling = "none"
  /\ sender = "none"
  /\ producer = [p \in Producers |-> "idle"]
  /\ down = FALSE

------------------------------------------------------------------------------
(* The SIP thread *)

\* response_invite stores what the SDP asks for.
Invite(session) ==
  /\ sip = "idle"
  /\ sessionName' = session
  /\ UNCHANGED <<mQuit, mPlay, usefifo, mSockFd, joinable, ring, is_gb, sip,
                 handling, sender, producer, down>>

\* response_playback_control: PLAY or PAUSE.
PlaybackControl(play) ==
  /\ sip = "idle"
  /\ mPlay' = play
  /\ UNCHANGED <<sessionName, mQuit, usefifo, mSockFd, joinable, ring, is_gb,
                 sip, handling, sender, producer, down>>

Ack ==
  /\ sip = "idle"
  /\ sip' = "test" /\ handling' = "ack"
  /\ UNCHANGED <<cfg, mSockFd, joinable, ring, is_gb, sender, producer, down>>

\* response_bye tells the camera to stop before it looks at mQuit.
Bye ==
  /\ sip = "idle"
  /\ sip' = "test" /\ handling' = "bye"
  /\ is_gb' = FALSE
  /\ UNCHANGED <<cfg, mSockFd, joinable, ring, sender, producer, down>>

AfterStop == IF handling = "ack" THEN "init" ELSE "idle"

TestQuit ==
  /\ sip = "test"
  /\ sip' = IF mQuit THEN AfterStop ELSE "stop"
  /\ UNCHANGED <<cfg, mSockFd, joinable, ring, is_gb, handling, sender, producer,
                 down>>

\* rtpsendPs_stop, up to the wait for the sender.
\* Faulty variant: the sender is not told.
StopSignals_NotQuit ==
  /\ sip = "stop"
  /\ mPlay' = FALSE /\ usefifo' = FALSE
  /\ sip' = "join"
  /\ UNCHANGED <<sessionName, mQuit, mSockFd, joinable, ring, is_gb, handling,
                 sender, producer, down>>
StopSignals ==
  /\ sip = "stop"
  /\ mQuit' = TRUE /\ mPlay' = FALSE /\ usefifo' = FALSE
  /\ sip' = "join"
  /\ UNCHANGED <<sessionName, mSockFd, joinable, ring, is_gb, handling, sender,
                 producer, down>>

\* Faulty variant: the thread is given up after the 3 s.
StopJoins_GivesUp ==
  /\ sip = "join"
  /\ sip' = "release"
  /\ UNCHANGED <<cfg, mSockFd, joinable, ring, is_gb, handling, sender, producer,
                 down>>
\* pid_thread.join().
StopJoins ==
  /\ sip = "join"
  /\ sender = "ended"
  /\ joinable' = FALSE
  /\ sender' = "none"
  /\ sip' = "release"
  /\ UNCHANGED <<cfg, mSockFd, ring, is_gb, handling, producer, down>>

\* What is left of the socket and of the ring is released.
StopReleases ==
  /\ sip = "release"
  /\ mSockFd' = "none"
  /\ ring' = "none"
  /\ sip' = AfterStop
  /\ UNCHANGED <<cfg, joinable, is_gb, handling, sender, producer, down>>

\* rtpsendPs_init opens a socket; when bind or connect fails it closes it and
\* keeps its number in mSockFd.
InitSocket ==
  /\ sip = "init"
  /\ \/ mSockFd' = "open" /\ sip' = "start"
     \/ mSockFd' = "stale" /\ sip' = "idle"
  /\ UNCHANGED <<cfg, joinable, ring, is_gb, handling, sender, producer, down>>

\* Faulty variant: the session name is not checked.
Start_AnySession ==
  /\ sip = "start"
  /\ sip' = "idle"
  /\ joinable' = TRUE
  /\ sender' = IF sessionName = "Play" THEN "begin" ELSE sessionName
  /\ UNCHANGED <<cfg, mSockFd, ring, is_gb, handling, producer, down>>

\* rtpsendPs_start creates the thread; assigning to a joinable std::thread
\* calls std::terminate.
Start ==
  /\ sip = "start"
  /\ sip' = "idle"
  /\ IF mQuit /\ sessionName # "Other"
     THEN /\ down' = joinable
          /\ joinable' = TRUE
          /\ sender' = IF joinable THEN sender
                       ELSE IF sessionName = "Play" THEN "begin" ELSE "find"
     ELSE UNCHANGED <<down, joinable, sender>>
  /\ UNCHANGED <<cfg, mSockFd, ring, is_gb, handling, producer>>

------------------------------------------------------------------------------
(* SendDataThread *)

RingMalloc ==
  /\ sender = "begin"
  /\ ring' = "live"
  /\ sender' = "callback"
  /\ UNCHANGED <<cfg, mSockFd, joinable, is_gb, sip, handling, producer, down>>

\* onGbChannel_callback tells the camera to send.
TellCamera ==
  /\ sender = "callback"
  /\ is_gb' = TRUE
  /\ sender' = "running"
  /\ UNCHANGED <<cfg, mSockFd, joinable, ring, sip, handling, producer, down>>

MarkRunning ==
  /\ sender = "running"
  /\ mQuit' = FALSE
  /\ sender' = "opening"
  /\ UNCHANGED <<sessionName, mPlay, usefifo, mSockFd, joinable, ring, is_gb, sip,
                 handling, producer, down>>

OpenFifo ==
  /\ sender = "opening"
  /\ usefifo' = TRUE
  /\ sender' = "loop"
  /\ UNCHANGED <<sessionName, mQuit, mPlay, mSockFd, joinable, ring, is_gb, sip,
                 handling, producer, down>>

\* Faulty variant: usefifo stays set.
LeaveLoop_KeepsFifo ==
  /\ sender = "loop"
  /\ mQuit
  /\ sender' = "free"
  /\ UNCHANGED <<cfg, mSockFd, joinable, ring, is_gb, sip, handling, producer,
                 down>>
LeaveLoop ==
  /\ sender = "loop"
  /\ mQuit
  /\ usefifo' = FALSE
  /\ sender' = "free"
  /\ UNCHANGED <<sessionName, mQuit, mPlay, mSockFd, joinable, ring, is_gb, sip,
                 handling, producer, down>>

RingFree ==
  /\ sender = "free"
  /\ ring' = "none"
  /\ sender' = "cleanup"
  /\ UNCHANGED <<cfg, mSockFd, joinable, is_gb, sip, handling, producer, down>>

\* cleanup_resources closes whatever mSockFd names.
Cleanup ==
  /\ sender = "cleanup"
  /\ mSockFd' = "none"
  /\ mPlay' = FALSE
  /\ mQuit' = TRUE
  /\ sender' = "ended"
  /\ UNCHANGED <<sessionName, usefifo, joinable, ring, is_gb, sip, handling,
                 producer, down>>

SendDataThread == RingMalloc \/ TellCamera \/ MarkRunning \/ OpenFifo
                  \/ LeaveLoop \/ RingFree \/ Cleanup

------------------------------------------------------------------------------
(* SendFileDataThread *)

FindFile ==
  /\ sender = "find"
  /\ \/ sender' = "cleanup" /\ UNCHANGED mPlay
     \/ sender' = "file" /\ mPlay' = TRUE
  /\ UNCHANGED <<sessionName, mQuit, usefifo, mSockFd, joinable, ring, is_gb, sip,
                 handling, producer, down>>

\* One turn of the loop: it sends while mQuit is false, and pauses while mPlay
\* is.  The end of the file ends it too.
FileLoop ==
  /\ sender = "file"
  /\ mQuit \/ mPlay
  /\ sender' \in IF mQuit THEN {"cleanup"} ELSE {"file", "cleanup"}
  /\ UNCHANGED <<cfg, mSockFd, joinable, ring, is_gb, sip, handling, producer,
                 down>>

SendFileDataThread == FindFile \/ FileLoop

------------------------------------------------------------------------------
(* Receive_h264_video and SendGbStreamData *)

PutTests(p) ==
  /\ producer[p] = "idle"
  /\ usefifo
  /\ producer' = [producer EXCEPT ![p] = "puts"]
  /\ UNCHANGED <<cfg, mSockFd, joinable, ring, is_gb, sip, handling, sender, down>>

\* ringput: unless the ring was full when it ended, it locks fifoMutex and
\* copies into the slot's buffer.
Put(p) ==
  /\ producer[p] = "puts"
  /\ producer' = [producer EXCEPT ![p] = "idle"]
  /\ down' \in IF ring = "live" THEN {down} ELSE BOOLEAN
  /\ UNCHANGED <<cfg, mSockFd, joinable, ring, is_gb, sip, handling, sender>>

------------------------------------------------------------------------------
Event == Ack \/ Bye \/ (\E session \in Sessions : Invite(session))
         \/ (\E play \in BOOLEAN : PlaybackControl(play))
Handle == TestQuit \/ StopSignals \/ StopJoins \/ StopReleases \/ InitSocket \/ Start
Sender == SendDataThread \/ SendFileDataThread
Producer(p) == PutTests(p) \/ Put(p)

Next == ~down /\ (Event \/ Handle \/ Sender \/ \E p \in Producers : Producer(p))

\* Both threads keep running once they have something to do.
Fairness == WF_vars(~down /\ Handle) /\ WF_vars(~down /\ Sender)

Spec == Init /\ [][Next]_vars /\ Fairness

------------------------------------------------------------------------------
(* Properties *)

\* Type invariant.
TypeOK ==
  /\ sessionName \in Sessions
  /\ mQuit \in BOOLEAN /\ mPlay \in BOOLEAN /\ usefifo \in BOOLEAN
  /\ mSockFd \in {"none", "open", "stale"}
  /\ joinable \in BOOLEAN /\ ring \in {"none", "live"} /\ is_gb \in BOOLEAN
  /\ sip \in {"idle", "test", "stop", "join", "release", "init", "start"}
  /\ handling \in {"none", "ack", "bye"}
  /\ sender \in {"none", "begin", "callback", "running", "opening", "loop", "free",
                 "cleanup", "find", "file", "ended"}
  /\ producer \in [Producers -> {"idle", "puts"}]
  /\ down \in BOOLEAN

\* SendDataThread reads the ring only while it exists: neither a BYE nor a new
\* ACK frees it under the running loop.
LoopHasRing == sender \in {"running", "opening", "loop"} => ring = "live"

\* No producer that tests usefifo now is let into a ring that is gone: usefifo
\* is cleared before every release of the buffers.
FifoOpenHasRing == usefifo => ring = "live"

\* Stopping a stream ends: rtpsendPs_stop cannot wait forever in join, so the
\* SIP thread gets back to its events.
StopEnds == sip = "stop" ~> (sip = "idle" \/ down)

\* When rtpsendPs_stop returns the stream has stopped: no sender runs and no
\* late assignment of the old one can open the ring or clear mQuit again.
StopIsComplete ==
  [][sip = "release" /\ sip' # "release" =>
       sender' = "none" /\ mQuit' /\ ~usefifo']_vars
==============================================================================
