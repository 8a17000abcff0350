--------------------------- MODULE GbStreamProofs ----------------------------
(***************************************************************************)
(* The ring of a channel outlives its readers: LoopHasRing and             *)
(* FifoOpenHasRing for any number of video connections.                    *)
(***************************************************************************)
EXTENDS GbStream, TLAPS

\* SendDataThread owns the ring from ringmalloc to ringfree.
OwnsRing == {"callback", "running", "opening", "loop", "free"}

\* The two properties are not inductive: the SIP thread frees the ring as
\* well, but only after join; a new sender starts where the last one was
\* joined; and usefifo is only set inside the loop.
RingInv ==
  /\ sender \in OwnsRing => ring = "live"
  /\ sip = "release" => sender = "none"
  /\ usefifo => sender = "loop"
  /\ sender # "none" => joinable
  /\ sender \in {"none", "ended"} => mQuit

Session == \E session \in Sessions : Invite(session)
Playback == \E play \in BOOLEAN : PlaybackControl(play)

------------------------------------------------------------------------------
\* Next, one case per action.
LEMMA NextCases ==
  ASSUME Next
  PROVE  \/ Session \/ Playback \/ Ack \/ Bye
         \/ TestQuit \/ StopSignals \/ StopJoins \/ StopReleases \/ InitSocket \/ Start
         \/ RingMalloc \/ TellCamera \/ MarkRunning \/ OpenFifo \/ LeaveLoop
         \/ RingFree \/ Cleanup \/ FindFile \/ FileLoop
         \/ \E p \in Producers : PutTests(p) \/ Put(p)
BY Zenon DEF Next, Event, Handle, Sender, SendDataThread, SendFileDataThread,
             Producer, Session, Playback

\* The types: of the switches, and of everything else.
Switches ==
  /\ mQuit \in BOOLEAN /\ mPlay \in BOOLEAN /\ usefifo \in BOOLEAN
  /\ joinable \in BOOLEAN /\ is_gb \in BOOLEAN
  /\ down \in BOOLEAN
States ==
  /\ sessionName \in Sessions
  /\ mSockFd \in {"none", "open", "stale"} /\ ring \in {"none", "live"}
  /\ sip \in {"idle", "test", "stop", "join", "release", "init", "start"}
  /\ handling \in {"none", "ack", "bye"}
  /\ sender \in {"none", "begin", "callback", "running", "opening", "loop", "free",
                 "cleanup", "find", "file", "ended"}
  /\ producer \in [Producers -> {"idle", "puts"}]

\* Every step keeps the switches TRUE or FALSE.
LEMMA SwitchStep == ASSUME Switches, [Next]_vars PROVE Switches'
<1> USE DEF Switches, cfg
<1>1. CASE Session
  BY Zenon, <1>1 DEF Session, Invite
<1>2. CASE Playback
  BY Zenon, <1>2 DEF Playback, PlaybackControl
<1>3. CASE Ack
  BY Zenon, <1>3 DEF Ack
<1>4. CASE Bye
  BY Zenon, <1>4 DEF Bye
<1>5. CASE TestQuit
  BY Zenon, <1>5 DEF TestQuit, AfterStop
<1>6. CASE StopSignals
  BY Zenon, <1>6 DEF StopSignals
<1>7. CASE StopJoins
  BY Zenon, <1>7 DEF StopJoins
<1>8. CASE StopReleases
  BY Zenon, <1>8 DEF StopReleases, AfterStop
<1>9. CASE InitSocket
  BY Zenon, <1>9 DEF InitSocket
<1>10. CASE Start
  BY Zenon, <1>10 DEF Start
<1>11. CASE RingMalloc
  BY Zenon, <1>11 DEF RingMalloc
<1>12. CASE TellCamera
  BY Zenon, <1>12 DEF TellCamera
<1>13. CASE MarkRunning
  BY Zenon, <1>13 DEF MarkRunning
<1>14. CASE OpenFifo
  BY Zenon, <1>14 DEF OpenFifo
<1>15. CASE LeaveLoop
  BY Zenon, <1>15 DEF LeaveLoop
<1>16. CASE RingFree
  BY Zenon, <1>16 DEF RingFree
<1>17. CASE Cleanup
  BY Zenon, <1>17 DEF Cleanup
<1>18. CASE FindFile
  BY Zenon, <1>18 DEF FindFile
<1>19. CASE FileLoop
  BY Zenon, <1>19 DEF FileLoop
<1>20. CASE \E p \in Producers : PutTests(p) \/ Put(p)
  BY Zenon, <1>20 DEF PutTests, Put
<1>21. CASE UNCHANGED vars
  BY Zenon, <1>21 DEF vars
<1> QED
  BY <1>1, <1>2, <1>3, <1>4, <1>5, <1>6, <1>7, <1>8, <1>9, <1>10, <1>11,
     <1>12, <1>13, <1>14, <1>15, <1>16, <1>17, <1>18, <1>19, <1>20, <1>21, NextCases

\* Every step keeps the other types.
LEMMA StateStep == ASSUME States, [Next]_vars PROVE States'
<1> USE DEF States, Sessions, cfg
<1>1. CASE Session
  BY <1>1 DEF Session, Invite
<1>2. CASE Playback
  BY <1>2 DEF Playback, PlaybackControl
<1>3. CASE Ack
  BY <1>3 DEF Ack
<1>4. CASE Bye
  BY <1>4 DEF Bye
<1>5. CASE TestQuit
  BY <1>5 DEF TestQuit, AfterStop
<1>6. CASE StopSignals
  BY <1>6 DEF StopSignals
<1>7. CASE StopJoins
  BY <1>7 DEF StopJoins
<1>8. CASE StopReleases
  BY <1>8 DEF StopReleases, AfterStop
<1>9. CASE InitSocket
  BY <1>9 DEF InitSocket
<1>10. CASE Start
  BY <1>10 DEF Start
<1>11. CASE RingMalloc
  BY <1>11 DEF RingMalloc
<1>12. CASE TellCamera
  BY <1>12 DEF TellCamera
<1>13. CASE MarkRunning
  BY <1>13 DEF MarkRunning
<1>14. CASE OpenFifo
  BY <1>14 DEF OpenFifo
<1>15. CASE LeaveLoop
  BY <1>15 DEF LeaveLoop
<1>16. CASE RingFree
  BY <1>16 DEF RingFree
<1>17. CASE Cleanup
  BY <1>17 DEF Cleanup
<1>18. CASE FindFile
  BY <1>18 DEF FindFile
<1>19. CASE FileLoop
  BY <1>19 DEF FileLoop
<1>20. CASE \E p \in Producers : PutTests(p) \/ Put(p)
  BY <1>20 DEF PutTests, Put
<1>21. CASE UNCHANGED vars
  BY <1>21 DEF vars
<1> QED
  BY <1>1, <1>2, <1>3, <1>4, <1>5, <1>6, <1>7, <1>8, <1>9, <1>10, <1>11,
     <1>12, <1>13, <1>14, <1>15, <1>16, <1>17, <1>18, <1>19, <1>20, <1>21, NextCases

\* The SIP thread releases the ring only when no sender exists, and the sender
\* closes it to the producers before it frees it.
LEMMA RingStep == ASSUME RingInv, [Next]_vars PROVE RingInv'
<1> USE DEF RingInv, OwnsRing, cfg
<1>1. CASE Session
  BY <1>1 DEF Session, Invite
<1>2. CASE Playback
  BY <1>2 DEF Playback, PlaybackControl
<1>3. CASE Ack
  BY <1>3 DEF Ack
<1>4. CASE Bye
  BY <1>4 DEF Bye
<1>5. CASE TestQuit
  BY <1>5 DEF TestQuit, AfterStop
<1>6. CASE StopSignals
  BY <1>6 DEF StopSignals
<1>7. CASE StopJoins
  BY <1>7 DEF StopJoins
<1>8. CASE StopReleases
  BY <1>8 DEF StopReleases, AfterStop
<1>9. CASE InitSocket
  BY <1>9 DEF InitSocket
<1>10. CASE Start
  BY <1>10 DEF Start
<1>11. CASE RingMalloc
  BY <1>11 DEF RingMalloc
<1>12. CASE TellCamera
  BY <1>12 DEF TellCamera
<1>13. CASE MarkRunning
  BY <1>13 DEF MarkRunning
<1>14. CASE OpenFifo
  BY <1>14 DEF OpenFifo
<1>15. CASE LeaveLoop
  BY <1>15 DEF LeaveLoop
<1>16. CASE RingFree
  BY <1>16 DEF RingFree
<1>17. CASE Cleanup
  BY <1>17 DEF Cleanup
<1>18. CASE FindFile
  BY <1>18 DEF FindFile
<1>19. CASE FileLoop
  BY <1>19 DEF FileLoop
<1>20. CASE \E p \in Producers : PutTests(p) \/ Put(p)
  BY <1>20 DEF PutTests, Put
<1>21. CASE UNCHANGED vars
  BY <1>21 DEF vars
<1> QED
  BY <1>1, <1>2, <1>3, <1>4, <1>5, <1>6, <1>7, <1>8, <1>9, <1>10, <1>11,
     <1>12, <1>13, <1>14, <1>15, <1>16, <1>17, <1>18, <1>19, <1>20, <1>21, NextCases

\* The invariant of the channel.
LEMMA RingInvariant == Spec => []RingInv
<1>1. Init => RingInv
  BY DEF Init, RingInv, OwnsRing
<1>2. RingInv /\ [Next]_vars => RingInv'
  BY RingStep
<1> QED BY <1>1, <1>2, PTL DEF Spec

\* Type correctness of a channel.
THEOREM TypeCorrect == Spec => []TypeOK
<1>1. Init => Switches /\ States
  BY DEF Init, Switches, States, Sessions
<1>2. Switches /\ [Next]_vars => Switches'
  BY SwitchStep
<1>3. States /\ [Next]_vars => States'
  BY StateStep
<1>4. Switches /\ States => TypeOK
  BY Zenon DEF Switches, States, TypeOK
<1> QED BY <1>1, <1>2, <1>3, <1>4, PTL DEF Spec

\* However BYE and ACK fall between the sender's steps, its loop never reads a
\* ring that has been freed.
THEOREM SenderNeverReadsFreedRing == Spec => []LoopHasRing
<1>1. RingInv => LoopHasRing
  BY DEF RingInv, OwnsRing, LoopHasRing
<1> QED BY <1>1, RingInvariant, PTL

\* usefifo admits producers only while the ring exists.
THEOREM FifoClosedBeforeFree == Spec => []FifoOpenHasRing
<1>1. RingInv => FifoOpenHasRing
  BY DEF RingInv, OwnsRing, FifoOpenHasRing
<1> QED BY <1>1, RingInvariant, PTL

\* Whatever the old sender was doing, rtpsendPs_stop returns only when it is
\* gone and has left mQuit set and the ring closed.
THEOREM StopLeavesNothing == Spec => StopIsComplete
<1>1. RingInv /\ [Next]_vars
        => (sip = "release" /\ sip' # "release" =>
              sender' = "none" /\ mQuit' /\ ~usefifo')
  <2> SUFFICES ASSUME RingInv, [Next]_vars, sip = "release", sip' # "release"
               PROVE  sender' = "none" /\ mQuit' /\ ~usefifo'
    OBVIOUS
  <2>1. sender = "none" /\ mQuit /\ ~usefifo
    BY DEF RingInv
  <2>2. Next
    BY DEF vars
  <2>3. CASE StopReleases
    BY <2>1, <2>3 DEF StopReleases, cfg
  <2>4. ~Session /\ ~Playback /\ ~Ack /\ ~Bye
    BY DEF Session, Playback, Invite, PlaybackControl, Ack, Bye
  <2>5. ~TestQuit /\ ~StopSignals /\ ~StopJoins /\ ~InitSocket /\ ~Start
    BY DEF TestQuit, StopSignals, StopJoins, InitSocket, Start
  <2>6. /\ ~RingMalloc /\ ~TellCamera /\ ~MarkRunning /\ ~OpenFifo /\ ~LeaveLoop
        /\ ~RingFree /\ ~Cleanup /\ ~FindFile /\ ~FileLoop
    BY <2>1 DEF RingMalloc, TellCamera, MarkRunning, OpenFifo, LeaveLoop, RingFree,
                Cleanup, FindFile, FileLoop
  <2>7. ~\E p \in Producers : PutTests(p) \/ Put(p)
    BY DEF PutTests, Put
  <2> QED BY <2>2, <2>3, <2>4, <2>5, <2>6, <2>7, NextCases
<1> QED BY <1>1, RingInvariant, PTL DEF Spec, StopIsComplete
==============================================================================
