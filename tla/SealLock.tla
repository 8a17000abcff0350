------------------------------- MODULE SealLock ------------------------------
(***************************************************************************)
(* The lock commands of the platform (message 0x0314, answered by 0x0315): *)
(* Packag::Packag_0315 and the lock reader behind it, class ReaderLock.    *)
(*                                                                         *)
(* For each seal or unseal item of a push, Packag_0315 connects to the     *)
(* reader, commands the mother lock and, if that returns 0, the child      *)
(* lock, and closes the connection.  Every connection starts a detached    *)
(* TCPRecvThread.  The command and the receiving threads share the members *)
(* of the one ReaderLock without a lock: wait_for_response takes mutex,    *)
(* the thread that sets m_bResult does not.                                *)
(*                                                                         *)
(* Two threads run Packag_0315: func_recvthread for the platform's pushes  *)
(* and func_sendthread once at start.  The device answers a command at any *)
(* later time or never, with one message per command.                      *)
(***************************************************************************)
EXTENDS Naturals, Sequences

CONSTANTS
  Handlers,   \* the threads that run Packag_0315
  MaxItems,   \* a bound: the items each of them handles
  None,       \* no answer yet; server_fd -1
  CheckByte   \* the byte after the 19 + c of a message: it is left in the buffer

VARIABLES
  server_fd,       \* the open connection, None for -1
  m_nHaveReq, m_bResult,
  m_retInfo,       \* 0, 1, or Garbage: ReaderInit does not set it
  m_recvData,      \* its first m_RecvLen bytes: messages cut at packetLength
  hpc, item, lock, sealLockStatus,   \* per handler, where it is in Packag_0315
  rpc, rfd, onePack,                 \* per connection, its TCPRecvThread
  outstanding,     \* commands the device has not answered yet
  down,            \* the process has been killed by a memmove of negative size
  \* Ghosts: read by the properties only.
  both,            \* handlers whose two commands for this item returned 0
  told,            \* what the device answered to the handler's command, or None
  trouble          \* some wait has timed out, or an answer was unknown

reader == <<server_fd, m_nHaveReq, m_bResult, m_retInfo, m_recvData>>
handlers == <<hpc, item, lock, sealLockStatus>>
receivers == <<rpc, rfd, onePack>>
ghosts == <<both, told, trouble>>
vars == <<reader, handlers, receivers, outstanding, down, ghosts>>

\* A connection is named by the handler and the item it is opened for.
Conns == Handlers \X (1..MaxItems)
Garbage == 2

Locks == {"mother", "child"}
Commands == [by : Handlers, item : 1..MaxItems, lock : Locks, conn : Conns]

\* The answers: the lock's result 0x00, its 0x01 or 0x02, another value of
\* the result byte, and the reader's own errors (cmdType 0, 1 and 2).
Results == {"ok", "refused", "unknown", "unreachable"}
Answers == [cmd : Commands, result : Results]

ASSUME MaxItemsNat == MaxItems \in Nat \ {0}
ASSUME NoneIsNoAnswer == None \notin Answers /\ None \notin Results /\ None \notin Conns
ASSUME CheckByteIsNoAnswer == CheckByte \notin Answers

Init ==
  /\ server_fd = None /\ m_nHaveReq = FALSE /\ m_bResult = FALSE
  /\ m_retInfo \in {0, 1, Garbage}
  /\ m_recvData = <<>>
  /\ hpc = [h \in Handlers |-> "idle"]
  /\ item = [h \in Handlers |-> 0]
  /\ lock = [h \in Handlers |-> "mother"]
  /\ sealLockStatus = [h \in Handlers |-> 1]
  /\ rpc = [r \in Conns |-> "none"]
  /\ rfd = [r \in Conns |-> None]
  /\ onePack = [r \in Conns |-> None]
  /\ outstanding = {}
  /\ down = FALSE
  /\ both = {} /\ trouble = FALSE
  /\ told = [h \in Handlers |-> None]

GoTo(h, label) == hpc' = [hpc EXCEPT ![h] = label]

------------------------------------------------------------------------------
(* Packag_0315 *)

StartItem(h) ==
  /\ item[h] < MaxItems
  /\ item' = [item EXCEPT ![h] = @ + 1]
  /\ lock' = [lock EXCEPT ![h] = "mother"]
  /\ both' = both \ {h}
  /\ GoTo(h, "connect")
  /\ UNCHANGED <<reader, receivers, outstanding, down, told, trouble>>

\* A push arrives: sealLockStatus starts as failed.
StartPush(h) ==
  /\ hpc[h] = "idle"
  /\ sealLockStatus' = [sealLockStatus EXCEPT ![h] = 1]
  /\ StartItem(h)

\* The next item of the same push.
NextItem(h) ==
  /\ hpc[h] = "next"
  /\ UNCHANGED sealLockStatus
  /\ StartItem(h)

EndPush(h) ==
  /\ hpc[h] = "next"
  /\ GoTo(h, "idle")
  /\ UNCHANGED <<reader, item, lock, sealLockStatus, receivers, outstanding, down, ghosts>>

\* TCPConnect: the new connection replaces server_fd and gets a thread.
Connect(h) ==
  /\ hpc[h] = "connect"
  /\ server_fd' = <<h, item[h]>>
  /\ rpc' = [rpc EXCEPT ![<<h, item[h]>>] = "top"]
  /\ GoTo(h, "send")
  /\ UNCHANGED <<m_nHaveReq, m_bResult, m_retInfo, m_recvData, item, lock,
                 sealLockStatus, rfd, onePack, outstanding, down, ghosts>>

ConnectFails(h) ==
  /\ hpc[h] = "connect"
  /\ server_fd' = None
  /\ GoTo(h, "reply")
  /\ UNCHANGED <<m_nHaveReq, m_bResult, m_retInfo, m_recvData, item, lock,
                 sealLockStatus, receivers, outstanding, down, ghosts>>

\* socket() itself fails: TCPConnect returns 0, as after a connection.
SocketFails(h) ==
  /\ hpc[h] = "connect"
  /\ server_fd' = None
  /\ GoTo(h, "send")
  /\ UNCHANGED <<m_nHaveReq, m_bResult, m_retInfo, m_recvData, item, lock,
                 sealLockStatus, receivers, outstanding, down, ghosts>>

\* jt808_value_set_byte with the item's status, then close_sock.
Reply(h) ==
  /\ hpc[h] = "reply"
  /\ server_fd' = None
  /\ GoTo(h, "next")
  /\ UNCHANGED <<m_nHaveReq, m_bResult, m_retInfo, m_recvData, item, lock,
                 sealLockStatus, receivers, outstanding, down, ghosts>>

------------------------------------------------------------------------------
(* NetSealLock, NetL666_SealLock and the two for unsealing *)

Send(h) ==
  /\ hpc[h] = "send"
  /\ outstanding' = IF server_fd = None THEN outstanding
                    ELSE outstanding \cup {[by |-> h, item |-> item[h],
                                            lock |-> lock[h], conn |-> server_fd]}
  /\ told' = [told EXCEPT ![h] = None]
  /\ GoTo(h, "arm")
  /\ UNCHANGED <<reader, item, lock, sealLockStatus, receivers, down, both, trouble>>

Arm(h) ==
  /\ hpc[h] = "arm"
  /\ m_nHaveReq' = TRUE
  /\ GoTo(h, "wait")
  /\ UNCHANGED <<server_fd, m_bResult, m_retInfo, m_recvData, item, lock,
                 sealLockStatus, receivers, outstanding, down, ghosts>>

\* wait_for_response finds m_bResult false and sleeps on cond.
Sleep(h) ==
  /\ hpc[h] = "wait"
  /\ ~m_bResult
  /\ GoTo(h, "asleep")
  /\ UNCHANGED <<reader, item, lock, sealLockStatus, receivers, outstanding, down, ghosts>>

SeesResult(h) ==
  /\ hpc[h] \in {"wait", "asleep"}
  /\ m_bResult
  /\ GoTo(h, "finish")
  /\ UNCHANGED <<reader, item, lock, sealLockStatus, receivers, outstanding,
                 down, both, told, trouble>>

\* The 7 s are over.  m_bResult is not looked at again, and may be set by now:
\* cond is signalled without mutex, so the signal may have found nobody.
TimesOut(h) ==
  /\ hpc[h] = "asleep"
  /\ trouble' = TRUE
  /\ GoTo(h, "finish")
  /\ UNCHANGED <<reader, item, lock, sealLockStatus, receivers, outstanding,
                 down, both, told>>

\* Faulty variant: m_bResult is not cleared for the next command.
Finish_KeepsResult(h) ==
  /\ hpc[h] = "finish"
  /\ m_recvData' = <<>>
  /\ m_nHaveReq' = FALSE
  /\ GoTo(h, "return")
  /\ UNCHANGED <<server_fd, m_bResult, m_retInfo, item, lock, sealLockStatus,
                 receivers, outstanding, down, ghosts>>

Finish(h) ==
  /\ hpc[h] = "finish"
  /\ m_recvData' = <<>>
  /\ m_nHaveReq' = FALSE
  /\ m_bResult' = FALSE
  /\ GoTo(h, "return")
  /\ UNCHANGED <<server_fd, m_retInfo, item, lock, sealLockStatus, receivers,
                 outstanding, down, ghosts>>

\* The command returns m_retInfo; Packag_0315 goes on to the child lock or
\* decides the item's status.
Return(h) ==
  /\ hpc[h] = "return"
  /\ IF m_retInfo = 0 /\ lock[h] = "mother"
     THEN /\ lock' = [lock EXCEPT ![h] = "child"]
          /\ GoTo(h, "send")
          /\ UNCHANGED <<sealLockStatus, both>>
     ELSE /\ sealLockStatus' = [sealLockStatus EXCEPT ![h] = IF m_retInfo = 0 THEN 0 ELSE @]
          /\ both' = IF m_retInfo = 0 THEN both \cup {h} ELSE both
          /\ GoTo(h, "reply")
          /\ UNCHANGED lock
  /\ UNCHANGED <<reader, item, receivers, outstanding, down, told, trouble>>

------------------------------------------------------------------------------
(* TCPRecvThread of connection r, and NetRecvOnePack *)

RGoTo(r, label) == rpc' = [rpc EXCEPT ![r] = label]

\* while (server_fd != -1): it reads whatever connection is current.
RecvTop(r) ==
  /\ rpc[r] = "top"
  /\ rfd' = [rfd EXCEPT ![r] = server_fd]
  /\ RGoTo(r, IF server_fd = None THEN "gone" ELSE "recv")
  /\ UNCHANGED <<reader, handlers, onePack, outstanding, down, ghosts>>

IsAnswer(unit) == unit # CheckByte

\* The device answers a command and recv appends the answer to the buffer.
\* A whole message at its head is dispatched; anything else there loses one
\* byte and the message waits for the next recv.
RecvAnswer(r, cmd, result) ==
  /\ rpc[r] = "recv"
  /\ cmd \in outstanding
  /\ cmd.conn = rfd[r]
  /\ outstanding' = outstanding \ {cmd}
  /\ told' = [told EXCEPT ![cmd.by] = IF cmd.item = item[cmd.by] /\ cmd.lock = lock[cmd.by]
                                      THEN result ELSE @]
  /\ trouble' = (trouble \/ result = "unknown")
  /\ LET buffer == m_recvData \o <<[cmd |-> cmd, result |-> result], CheckByte>>
         first == Head(buffer)
     IN IF IsAnswer(first)
        THEN /\ m_recvData' = buffer
             /\ onePack' = [onePack EXCEPT ![r] = first]
             /\ RGoTo(r, IF first.result = "unreachable" THEN "gone" ELSE "dispatch")
        ELSE /\ m_recvData' = Tail(buffer)
             /\ RGoTo(r, "top")
             /\ UNCHANGED onePack
  /\ UNCHANGED <<server_fd, m_nHaveReq, m_bResult, m_retInfo, handlers,
                 rfd, down, both>>

\* recv returns -1: the connection was reset.
RecvFails(r) ==
  /\ rpc[r] = "recv"
  /\ RGoTo(r, "gone")
  /\ UNCHANGED <<reader, handlers, rfd, onePack, outstanding, down, ghosts>>

\* The first line of NetRecvOnePack: nobody is waiting, drop the message.
Dispatch(r) ==
  /\ rpc[r] = "dispatch"
  /\ RGoTo(r, IF m_nHaveReq THEN "store" ELSE "trim")
  /\ UNCHANGED <<reader, handlers, rfd, onePack, outstanding, down, ghosts>>

\* Faulty variant: an unknown result byte is stored as it came.
Store_Raw(r) ==
  /\ rpc[r] = "store"
  /\ m_retInfo' = CASE onePack[r].result = "ok" -> 0
                    [] onePack[r].result = "refused" -> 1
                    [] OTHER -> 7
  /\ m_bResult' = TRUE
  /\ RGoTo(r, "trim")
  /\ UNCHANGED <<server_fd, m_nHaveReq, m_recvData, handlers, rfd,
                 onePack, outstanding, down, ghosts>>

\* The rest of it, after unescaping and decryption.
Store(r) ==
  /\ rpc[r] = "store"
  /\ m_retInfo' = CASE onePack[r].result = "ok" -> 0
                    [] onePack[r].result = "refused" -> 1
                    [] OTHER -> m_retInfo
  /\ m_bResult' = TRUE
  /\ RGoTo(r, "trim")
  /\ UNCHANGED <<server_fd, m_nHaveReq, m_recvData, handlers, rfd,
                 onePack, outstanding, down, ghosts>>

\* packetLength bytes are taken out: there may be fewer by now.
Trim(r) ==
  /\ rpc[r] = "trim"
  /\ IF m_recvData # <<>> /\ IsAnswer(Head(m_recvData))
     THEN m_recvData' = Tail(m_recvData) /\ UNCHANGED down
     ELSE down' = TRUE /\ UNCHANGED m_recvData
  /\ RGoTo(r, "top")
  /\ UNCHANGED <<server_fd, m_nHaveReq, m_bResult, m_retInfo, handlers,
                 rfd, onePack, outstanding, ghosts>>

------------------------------------------------------------------------------
Push(h) == StartPush(h) \/ NextItem(h) \/ EndPush(h) \/ Connect(h)
           \/ ConnectFails(h) \/ SocketFails(h) \/ Reply(h)
Command(h) == Send(h) \/ Arm(h) \/ Sleep(h) \/ SeesResult(h) \/ TimesOut(h)
              \/ Finish(h) \/ Return(h)
Handler(h) == ~down /\ (Push(h) \/ Command(h))

TCPRecvThread(r) ==
  /\ ~down
  /\ \/ RecvTop(r) \/ Dispatch(r) \/ Store(r) \/ Trim(r) \/ RecvFails(r)
     \/ \E cmd \in outstanding, result \in Results : RecvAnswer(r, cmd, result)

Next ==
  \/ \E h \in Handlers : Handler(h)
  \/ \E r \in Conns : TCPRecvThread(r)

\* A push that is being handled goes on: connect returns and waits time out.
Fairness == \A h \in Handlers : WF_vars(hpc[h] # "idle" /\ Handler(h))

Spec == Init /\ [][Next]_vars /\ Fairness

------------------------------------------------------------------------------
(* Properties *)

\* Type invariant.
TypeOK ==
  /\ server_fd \in Conns \cup {None}
  /\ m_nHaveReq \in BOOLEAN /\ m_bResult \in BOOLEAN
  /\ m_retInfo \in {0, 1, Garbage}
  /\ m_recvData \in Seq(Answers \cup {CheckByte})
  /\ hpc \in [Handlers -> {"idle", "connect", "send", "arm", "wait", "asleep",
                           "finish", "return", "reply", "next"}]
  /\ item \in [Handlers -> 0..MaxItems]
  /\ lock \in [Handlers -> Locks]
  /\ sealLockStatus \in [Handlers -> {0, 1}]
  /\ rpc \in [Conns -> {"none", "top", "recv", "dispatch", "store", "trim", "gone"}]
  /\ rfd \in [Conns -> Conns \cup {None}]
  /\ onePack \in [Conns -> Answers \cup {None}]
  /\ outstanding \subseteq Commands
  /\ down \in BOOLEAN /\ trouble \in BOOLEAN
  /\ both \subseteq Handlers
  /\ told \in [Handlers -> Results \cup {None}]

\* With one handler and as long as no wait has timed out and no unknown result
\* came, a command returns what its own lock answered: no answer of an earlier
\* command, of another connection or from another thread is taken for it.
ReturnsOwnAnswer ==
  ~trouble => \A h \in Handlers :
    hpc[h] = "return" => \/ told[h] = "ok" /\ m_retInfo = 0
                         \/ told[h] = "refused" /\ m_retInfo = 1

\* jt808_Pack.cpp:294 says the status becomes 0 only if both lock operations
\* succeed: an item is answered 0 only when its own two commands returned 0.
ItemNeedsBothLocks ==
  \A h \in Handlers : hpc[h] = "reply" /\ sealLockStatus[h] = 0 => h \in both
==============================================================================
