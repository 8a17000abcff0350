---------------------------- MODULE SealLockProofs ----------------------------
(***************************************************************************)
(* Proofs about SealLock, for any number of items and for what a device    *)
(* may answer: the types, with any handlers; and, with one handler, that a *)
(* command returns its own lock's answer.                                  *)
(***************************************************************************)
EXTENDS SealLock, TLAPS

HandlerStep(h) ==
  \/ StartPush(h) \/ NextItem(h) \/ EndPush(h) \/ Connect(h) \/ ConnectFails(h)
  \/ SocketFails(h) \/ Reply(h) \/ Send(h) \/ Arm(h) \/ Sleep(h) \/ SeesResult(h)
  \/ TimesOut(h) \/ Finish(h) \/ Return(h)
ReceiverStep(r) ==
  \/ RecvTop(r) \/ Dispatch(r) \/ Store(r) \/ Trim(r) \/ RecvFails(r)
  \/ \E cmd \in outstanding, result \in Results : RecvAnswer(r, cmd, result)

LEMMA NextCases ==
  [Next]_vars => \/ UNCHANGED vars
                 \/ \E h \in Handlers : HandlerStep(h)
                 \/ \E r \in Conns : ReceiverStep(r)
BY Zenon DEF Next, Handler, Push, Command, TCPRecvThread, HandlerStep, ReceiverStep

------------------------------------------------------------------------------
(* Types *)

\* Whoever is past "idle" has an item, and so a name for its connection.
HasItem == \A h \in Handlers : hpc[h] # "idle" => item[h] \in 1..MaxItems

HandlerTypes ==
  /\ hpc \in [Handlers -> {"idle", "connect", "send", "arm", "wait", "asleep",
                           "finish", "return", "reply", "next"}]
  /\ item \in [Handlers -> 0..MaxItems]
  /\ lock \in [Handlers -> Locks]
  /\ sealLockStatus \in [Handlers -> {0, 1}]
  /\ both \subseteq Handlers
  /\ HasItem
ReaderTypes ==
  /\ server_fd \in Conns \cup {None}
  /\ m_nHaveReq \in BOOLEAN /\ m_bResult \in BOOLEAN
  /\ m_retInfo \in {0, 1, Garbage}
ReceiverTypes ==
  /\ m_recvData \in Seq(Answers \cup {CheckByte})
  /\ rpc \in [Conns -> {"none", "top", "recv", "dispatch", "store", "trim", "gone"}]
  /\ rfd \in [Conns -> Conns \cup {None}]
  /\ onePack \in [Conns -> Answers \cup {None}]
  /\ outstanding \subseteq Commands
  /\ told \in [Handlers -> Results \cup {None}]
FlagTypes == down \in BOOLEAN /\ trouble \in BOOLEAN

TypeInv == HandlerTypes /\ ReaderTypes /\ ReceiverTypes /\ FlagTypes

LEMMA HandlerTypesStep == HandlerTypes /\ [Next]_vars => HandlerTypes'
<1> SUFFICES ASSUME HandlerTypes, [Next]_vars PROVE HandlerTypes'
  OBVIOUS
<1>1. CASE UNCHANGED vars
  BY <1>1 DEF vars, handlers, ghosts, HandlerTypes, HasItem
<1>2. ASSUME NEW h \in Handlers, HandlerStep(h) PROVE HandlerTypes'
  <2>1. CASE StartPush(h) \/ NextItem(h)
    <3>1. /\ item[h] < MaxItems
          /\ item' = [item EXCEPT ![h] = @ + 1]
          /\ lock' = [lock EXCEPT ![h] = "mother"]
          /\ both' = both \ {h}
          /\ hpc' = [hpc EXCEPT ![h] = "connect"]
      BY <2>1 DEF StartPush, NextItem, StartItem, GoTo
    <3>2. sealLockStatus' \in [Handlers -> {0, 1}]
      BY <2>1 DEF StartPush, NextItem, HandlerTypes
    <3>3. item'[h] \in 1..MaxItems /\ item' \in [Handlers -> 0..MaxItems]
      BY <3>1, MaxItemsNat DEF HandlerTypes
    <3>4. HasItem'
      BY <3>1, <3>3 DEF HandlerTypes, HasItem
    <3> QED BY <3>1, <3>2, <3>3, <3>4 DEF HandlerTypes, Locks
  <2>2. CASE EndPush(h) \/ Connect(h) \/ ConnectFails(h) \/ SocketFails(h) \/ Reply(h)
    BY <2>2 DEF EndPush, Connect, ConnectFails, SocketFails, Reply, GoTo, ghosts,
                HandlerTypes, HasItem
  <2>3. CASE Send(h) \/ Arm(h) \/ Sleep(h) \/ SeesResult(h) \/ TimesOut(h) \/ Finish(h)
    BY <2>3 DEF Send, Arm, Sleep, SeesResult, TimesOut, Finish, GoTo, ghosts,
                HandlerTypes, HasItem
  <2>4. CASE Return(h)
    BY <2>4 DEF Return, GoTo, HandlerTypes, HasItem, Locks
  <2> QED BY <1>2, <2>1, <2>2, <2>3, <2>4 DEF HandlerStep
<1>3. ASSUME NEW r \in Conns, ReceiverStep(r) PROVE HandlerTypes'
  <2>1. UNCHANGED <<handlers, both>>
    BY <1>3, Zenon DEF ReceiverStep, RecvTop, Dispatch, Store, Trim, RecvFails, RecvAnswer, ghosts
  <2> QED BY <2>1 DEF handlers, HandlerTypes, HasItem
<1> QED BY <1>1, <1>2, <1>3, NextCases

LEMMA ReaderTypesStep == HandlerTypes /\ ReaderTypes /\ [Next]_vars => ReaderTypes'
<1> SUFFICES ASSUME HandlerTypes, ReaderTypes, [Next]_vars PROVE ReaderTypes'
  OBVIOUS
<1>1. CASE UNCHANGED vars
  BY <1>1 DEF vars, reader, ReaderTypes
<1>2. ASSUME NEW h \in Handlers, HandlerStep(h) PROVE ReaderTypes'
  <2>1. CASE StartPush(h) \/ NextItem(h) \/ EndPush(h) \/ ConnectFails(h) \/ SocketFails(h)
             \/ Reply(h)
    BY <2>1 DEF StartPush, NextItem, StartItem, EndPush, ConnectFails, SocketFails, Reply,
                reader, ReaderTypes
  <2>2. CASE Connect(h)
    <3>1. <<h, item[h]>> \in Conns
      BY <2>2 DEF Connect, HandlerTypes, HasItem, Conns
    <3> QED BY <2>2, <3>1 DEF Connect, ReaderTypes
  <2>3. CASE Send(h) \/ Arm(h) \/ Sleep(h) \/ SeesResult(h) \/ TimesOut(h) \/ Finish(h) \/ Return(h)
    BY <2>3 DEF Send, Arm, Sleep, SeesResult, TimesOut, Finish, Return, reader, ReaderTypes
  <2> QED BY <1>2, <2>1, <2>2, <2>3 DEF HandlerStep
<1>3. ASSUME NEW r \in Conns, ReceiverStep(r) PROVE ReaderTypes'
  <2>1. CASE Store(r)
    BY <2>1 DEF Store, ReaderTypes
  <2>2. CASE ~Store(r)
    <3>1. UNCHANGED <<server_fd, m_nHaveReq, m_bResult, m_retInfo>>
      BY <1>3, <2>2, Zenon DEF ReceiverStep, RecvTop, Dispatch, Trim, RecvFails, RecvAnswer, reader
    <3> QED BY <3>1 DEF ReaderTypes
  <2> QED BY <2>1, <2>2
<1> QED BY <1>1, <1>2, <1>3, NextCases

\* What recv leaves in the buffer, and the message NetRecvOnePack takes from it.
LEMMA RecvAnswerCases ==
  ASSUME ReceiverTypes, NEW r \in Conns, NEW cmd \in outstanding, NEW result \in Results,
         RecvAnswer(r, cmd, result)
  PROVE  LET answer == [cmd |-> cmd, result |-> result]
             buffer == m_recvData \o <<answer, CheckByte>>
         IN /\ cmd \in Commands /\ answer \in Answers
            /\ buffer \in Seq(Answers \cup {CheckByte})
            /\ \/ /\ Head(buffer) \in Answers /\ m_recvData' = buffer
                  /\ onePack' = [onePack EXCEPT ![r] = Head(buffer)]
                  /\ rpc' = [rpc EXCEPT ![r] = IF Head(buffer).result = "unreachable"
                                               THEN "gone" ELSE "dispatch"]
               \/ /\ Head(buffer) = CheckByte /\ m_recvData' = Tail(buffer)
                  /\ rpc' = [rpc EXCEPT ![r] = "top"]
                  /\ UNCHANGED onePack
<1> DEFINE answer == [cmd |-> cmd, result |-> result]
           buffer == m_recvData \o <<answer, CheckByte>>
<1>1. cmd \in Commands /\ answer \in Answers
  BY DEF ReceiverTypes, Answers
<1>2. buffer \in Seq(Answers \cup {CheckByte}) /\ buffer # <<>>
  BY <1>1 DEF ReceiverTypes
<1>3. Head(buffer) \in Answers \cup {CheckByte}
  BY <1>2
<1>4. IF IsAnswer(Head(buffer))
      THEN /\ m_recvData' = buffer
           /\ onePack' = [onePack EXCEPT ![r] = Head(buffer)]
           /\ RGoTo(r, IF Head(buffer).result = "unreachable" THEN "gone" ELSE "dispatch")
      ELSE /\ m_recvData' = Tail(buffer)
           /\ RGoTo(r, "top")
           /\ UNCHANGED onePack
  BY Zenon DEF RecvAnswer
<1> HIDE DEF buffer
<1>5. CASE Head(buffer) = CheckByte
  BY <1>1, <1>2, <1>4, <1>5 DEF IsAnswer, RGoTo, buffer
<1>6. CASE Head(buffer) # CheckByte
  BY <1>1, <1>2, <1>3, <1>4, <1>6 DEF IsAnswer, RGoTo, buffer
<1> QED BY <1>5, <1>6

LEMMA ReceiverTypesStep ==
  HandlerTypes /\ ReaderTypes /\ ReceiverTypes /\ [Next]_vars => ReceiverTypes'
<1> SUFFICES ASSUME HandlerTypes, ReaderTypes, ReceiverTypes, [Next]_vars PROVE ReceiverTypes'
  OBVIOUS
<1>1. CASE UNCHANGED vars
  BY <1>1 DEF vars, reader, receivers, ghosts, ReceiverTypes
<1>2. ASSUME NEW h \in Handlers, HandlerStep(h) PROVE ReceiverTypes'
  <2>1. CASE StartPush(h) \/ NextItem(h) \/ EndPush(h) \/ ConnectFails(h) \/ SocketFails(h)
             \/ Reply(h)
    BY <2>1 DEF StartPush, NextItem, StartItem, EndPush, ConnectFails, SocketFails, Reply,
                reader, receivers, ghosts, ReceiverTypes
  <2>2. CASE Connect(h)
    BY <2>2 DEF Connect, ghosts, ReceiverTypes
  <2>3. CASE Send(h)
    <3> DEFINE new == [by |-> h, item |-> item[h], lock |-> lock[h], conn |-> server_fd]
    <3>1. outstanding' \subseteq Commands
      <4>1. server_fd # None => new \in Commands
        BY <2>3 DEF Send, HandlerTypes, HasItem, ReaderTypes, Commands
      <4>2. outstanding' = IF server_fd = None THEN outstanding ELSE outstanding \cup {new}
        BY <2>3 DEF Send
      <4> HIDE DEF new
      <4> QED BY <4>1, <4>2 DEF ReceiverTypes
    <3> QED BY <2>3, <3>1 DEF Send, reader, receivers, ReceiverTypes
  <2>4. CASE Arm(h) \/ Sleep(h) \/ SeesResult(h) \/ TimesOut(h) \/ Return(h)
    BY <2>4 DEF Arm, Sleep, SeesResult, TimesOut, Return, reader, receivers, ghosts,
                ReceiverTypes
  <2>5. CASE Finish(h)
    BY <2>5 DEF Finish, receivers, ghosts, ReceiverTypes
  <2> QED BY <1>2, <2>1, <2>2, <2>3, <2>4, <2>5 DEF HandlerStep
<1>3. ASSUME NEW r \in Conns, ReceiverStep(r) PROVE ReceiverTypes'
  <2>1. CASE RecvTop(r)
    BY <2>1 DEF RecvTop, RGoTo, reader, ghosts, ReceiverTypes, ReaderTypes
  <2>2. CASE Dispatch(r) \/ Store(r) \/ RecvFails(r)
    BY <2>2 DEF Dispatch, Store, RecvFails, RGoTo, reader, ghosts, ReceiverTypes
  <2>3. CASE Trim(r)
    BY <2>3 DEF Trim, RGoTo, ghosts, ReceiverTypes
  <2>4. ASSUME NEW cmd \in outstanding, NEW result \in Results, RecvAnswer(r, cmd, result)
        PROVE  ReceiverTypes'
    <3> DEFINE buffer == m_recvData \o <<[cmd |-> cmd, result |-> result], CheckByte>>
    <3>1. /\ cmd \in Commands /\ buffer \in Seq(Answers \cup {CheckByte})
          /\ \/ /\ Head(buffer) \in Answers /\ m_recvData' = buffer
                /\ onePack' = [onePack EXCEPT ![r] = Head(buffer)]
                /\ rpc' = [rpc EXCEPT ![r] = IF Head(buffer).result = "unreachable"
                                             THEN "gone" ELSE "dispatch"]
             \/ /\ Head(buffer) = CheckByte /\ m_recvData' = Tail(buffer)
                /\ rpc' = [rpc EXCEPT ![r] = "top"]
                /\ UNCHANGED onePack
      BY <2>4, RecvAnswerCases
    <3>2. buffer # <<>>
      BY DEF ReceiverTypes
    <3>3. told' \in [Handlers -> Results \cup {None}]
      BY <2>4 DEF RecvAnswer, ReceiverTypes
    <3>4. outstanding' \subseteq Commands /\ UNCHANGED rfd
      BY <2>4 DEF RecvAnswer, ReceiverTypes
    <3> HIDE DEF buffer
    <3>5. m_recvData' \in Seq(Answers \cup {CheckByte})
      BY <3>1, <3>2
    <3> QED BY <3>1, <3>3, <3>4, <3>5 DEF ReceiverTypes
  <2> QED BY <1>3, <2>1, <2>2, <2>3, <2>4 DEF ReceiverStep
<1> QED BY <1>1, <1>2, <1>3, NextCases

LEMMA FlagTypesStep == FlagTypes /\ [Next]_vars => FlagTypes'
<1> SUFFICES ASSUME FlagTypes, [Next]_vars PROVE FlagTypes'
  OBVIOUS
<1>1. CASE UNCHANGED vars
  BY <1>1, Zenon DEF vars, ghosts, FlagTypes
<1>2. ASSUME NEW h \in Handlers, HandlerStep(h) PROVE FlagTypes'
  <2>1. UNCHANGED down /\ (UNCHANGED trouble \/ trouble' = TRUE)
    BY <1>2, Zenon DEF HandlerStep, StartPush, NextItem, StartItem, EndPush, Connect, ConnectFails,
       SocketFails, Reply, Send, Arm, Sleep, SeesResult, TimesOut, Finish, Return, ghosts
  <2> QED BY <2>1, Zenon DEF FlagTypes
<1>3. ASSUME NEW r \in Conns, ReceiverStep(r) PROVE FlagTypes'
  <2>1. UNCHANGED down \/ down' = TRUE
    BY <1>3, Zenon DEF ReceiverStep, RecvTop, Dispatch, Store, Trim, RecvFails, RecvAnswer
  <2>2. UNCHANGED trouble \/ \E result \in Results : trouble' = (trouble \/ result = "unknown")
    BY <1>3, Zenon DEF ReceiverStep, RecvTop, Dispatch, Store, Trim, RecvFails, RecvAnswer, ghosts
  <2> QED BY <2>1, <2>2, Zenon DEF FlagTypes
<1> QED BY <1>1, <1>2, <1>3, NextCases

LEMMA TypeInvInit == Init => TypeInv
<1> SUFFICES ASSUME Init PROVE TypeInv
  OBVIOUS
<1>1. HandlerTypes
  BY MaxItemsNat DEF Init, HandlerTypes, HasItem, Locks
<1>2. ReaderTypes
  <2>1. m_nHaveReq \in BOOLEAN /\ m_bResult \in BOOLEAN
    BY Zenon DEF Init
  <2> QED BY <2>1 DEF Init, ReaderTypes
<1>3. ReceiverTypes
  BY DEF Init, ReceiverTypes
<1>4. FlagTypes
  BY Zenon DEF Init, FlagTypes
<1> QED BY <1>1, <1>2, <1>3, <1>4 DEF TypeInv

LEMMA TypeInvStep == TypeInv /\ [Next]_vars => TypeInv'
BY HandlerTypesStep, ReaderTypesStep, ReceiverTypesStep, FlagTypesStep, Zenon DEF TypeInv

\* The types hold for any handlers and items.
THEOREM TypeCorrect == Spec => []TypeOK
<1>1. TypeInv => TypeOK
  BY Zenon DEF TypeInv, HandlerTypes, ReaderTypes, ReceiverTypes, FlagTypes, TypeOK
<1> QED BY <1>1, TypeInvInit, TypeInvStep, PTL DEF Spec

------------------------------------------------------------------------------
(* A command returns its own lock's answer *)

\* The receivers between a message of the device and m_bResult.
Answering == {r \in Conns : rpc[r] \in {"dispatch", "store"}}

Own(h, cmd) == cmd.by = h /\ cmd.item = item[h] /\ cmd.lock = lock[h]

Got(h) == \/ told[h] = "ok" /\ m_retInfo = 0
          \/ told[h] = "refused" /\ m_retInfo = 1

\* Between its commands, and from "return" on, nothing of a command is left.
Between(h) == hpc[h] \in {"idle", "connect", "send", "return", "reply", "next"}
Nothing == outstanding = {} /\ Answering = {}

\* The answer is to come, and finds the buffer empty; or one receiver has it.
Asked(h) == /\ Answering = {} /\ m_recvData = <<>>
            /\ \E cmd \in Commands : outstanding = {cmd} /\ Own(h, cmd)
Answered(h) == /\ outstanding = {} /\ told[h] \in {"ok", "refused"}
               /\ \E r \in Conns : Answering = {r} /\ onePack[r].result = told[h]

\* ReturnsOwnAnswer's inductive form: where the one command is.
OneCommand(h) ==
  /\ m_nHaveReq <=> hpc[h] \in {"wait", "asleep", "finish"}
  /\ Between(h) => Nothing /\ m_recvData = <<>> /\ ~m_bResult
  /\ hpc[h] = "arm" => ~m_bResult /\ \A r \in Conns : rpc[r] # "store"
  /\ hpc[h] = "finish" => m_bResult
  /\ hpc[h] = "return" => Got(h)
  /\ m_bResult => Nothing /\ Got(h)
  /\ hpc[h] \in {"arm", "wait", "asleep"} /\ ~m_bResult => Nothing \/ Asked(h) \/ Answered(h)

AnswerInv == ~trouble => \A h \in Handlers : OneCommand(h)

\* With one handler, the steps of it and of a receiver keep the invariant.
LEMMA PushStep ==
  ASSUME TypeInv, NEW h \in Handlers, OneCommand(h),
         StartPush(h) \/ NextItem(h) \/ EndPush(h) \/ Connect(h) \/ ConnectFails(h)
         \/ SocketFails(h) \/ Reply(h)
  PROVE  OneCommand(h)'
<1>1. Between(h) /\ Between(h)' /\ hpc'[h] # "return"
  BY DEF StartPush, NextItem, StartItem, EndPush, Connect, ConnectFails, SocketFails, Reply, GoTo,
         Between, TypeInv, HandlerTypes
<1>2. UNCHANGED <<m_nHaveReq, m_bResult, m_recvData, outstanding>>
  BY Zenon DEF StartPush, NextItem, StartItem, EndPush, Connect, ConnectFails, SocketFails, Reply,
     reader
<1>3. Answering' = Answering
  <2>1. CASE Connect(h)
    <3>1. Answering = {} /\ rpc' = [rpc EXCEPT ![<<h, item[h]>>] = "top"]
      BY <1>1, <2>1, Zenon DEF Connect, OneCommand, Nothing
    <3> QED BY <3>1 DEF Answering, TypeInv, ReceiverTypes
  <2>2. CASE ~Connect(h)
    <3>1. UNCHANGED rpc
      BY <2>2, Zenon DEF StartPush, NextItem, StartItem, EndPush, ConnectFails, SocketFails, Reply,
         receivers
    <3> QED BY <3>1, Zenon DEF Answering
  <2> QED BY <2>1, <2>2
<1>4. Nothing' /\ m_recvData' = <<>> /\ ~m_bResult'
  BY <1>1, <1>2, <1>3 DEF OneCommand, Nothing
<1>5. hpc'[h] \notin {"arm", "wait", "asleep", "finish"}
  BY <1>1 DEF Between
<1>6. ~m_nHaveReq'
  BY <1>1, <1>2 DEF OneCommand, Between
<1> QED BY <1>1, <1>4, <1>5, <1>6 DEF OneCommand

LEMMA CommandStep ==
  ASSUME TypeInv, NEW h \in Handlers, OneCommand(h), ~trouble',
         Send(h) \/ Arm(h) \/ Sleep(h) \/ SeesResult(h) \/ TimesOut(h) \/ Finish(h) \/ Return(h)
  PROVE  OneCommand(h)'
<1> USE DEF TypeInv
<1>1. CASE Send(h)
  <2>1. hpc[h] = "send" /\ hpc'[h] = "arm"
    BY <1>1 DEF Send, GoTo, HandlerTypes
  <2>2. UNCHANGED <<m_nHaveReq, m_bResult, m_recvData, rpc, item, lock>>
    BY <1>1, Zenon DEF Send, reader, receivers
  <2>3. Answering' = {} /\ m_recvData' = <<>> /\ ~m_bResult' /\ outstanding = {}
    BY <2>1, <2>2 DEF OneCommand, Between, Nothing, Answering
  <2>4. Nothing' \/ Asked(h)'
    <3> DEFINE new == [by |-> h, item |-> item[h], lock |-> lock[h], conn |-> server_fd]
    <3>1. CASE server_fd = None
      BY <1>1, <2>3, <3>1 DEF Send, Nothing
    <3>2. CASE server_fd # None
      <4>1. outstanding' = {new}
        BY <1>1, <2>3, <3>2 DEF Send
      <4>2. new \in Commands
        BY <2>1, <3>2 DEF HandlerTypes, HasItem, ReaderTypes, Commands
      <4>3. new.by = h /\ new.item = item'[h] /\ new.lock = lock'[h]
        BY <2>2
      <4> HIDE DEF new
      <4> QED BY <2>3, <4>1, <4>2, <4>3 DEF Asked, Own
    <3> QED BY <3>1, <3>2
  <2>5. \A r \in Conns : rpc'[r] # "store"
    BY <2>3 DEF Answering
  <2>6. ~m_nHaveReq'
    BY <2>1, <2>2 DEF OneCommand
  <2> QED BY <2>1, <2>3, <2>4, <2>5, <2>6 DEF OneCommand, Between
<1>2. CASE Arm(h)
  <2>1. hpc[h] = "arm" /\ hpc'[h] = "wait" /\ m_nHaveReq'
    BY <1>2 DEF Arm, GoTo, HandlerTypes
  <2>2. UNCHANGED <<m_bResult, m_retInfo, m_recvData, rpc, onePack, item, lock, outstanding, told>>
    BY <1>2, Zenon DEF Arm, receivers, ghosts
  <2>3. Nothing \/ Asked(h) \/ Answered(h)
    BY <2>1 DEF OneCommand
  <2>4. Nothing' \/ Asked(h)' \/ Answered(h)'
    BY <2>2, <2>3, Zenon DEF Nothing, Asked, Answered, Answering, Own
  <2>5. ~m_bResult'
    BY <2>1, <2>2 DEF OneCommand
  <2> QED BY <2>1, <2>4, <2>5 DEF OneCommand, Between
<1>3. CASE Sleep(h) \/ SeesResult(h)
  <2>1. /\ hpc[h] \in {"wait", "asleep"}
        /\ \/ hpc'[h] = "asleep" /\ ~m_bResult
           \/ hpc'[h] = "finish" /\ m_bResult
    BY <1>3 DEF Sleep, SeesResult, GoTo, HandlerTypes
  <2>2. UNCHANGED <<m_nHaveReq, m_bResult, m_retInfo, m_recvData, rpc, onePack, item, lock,
                    outstanding, told>>
    BY <1>3, Zenon DEF Sleep, SeesResult, reader, receivers, ghosts
  <2>3. /\ m_bResult => Nothing /\ Got(h)
        /\ ~m_bResult => Nothing \/ Asked(h) \/ Answered(h)
    BY <2>1 DEF OneCommand
  <2>4. /\ m_bResult' => Nothing' /\ Got(h)'
        /\ ~m_bResult' => Nothing' \/ Asked(h)' \/ Answered(h)'
    BY <2>2, <2>3, Zenon DEF Nothing, Asked, Answered, Answering, Own, Got
  <2>5. m_nHaveReq'
    BY <2>1, <2>2 DEF OneCommand
  <2> QED BY <2>1, <2>2, <2>4, <2>5 DEF OneCommand, Between
<1>4. CASE TimesOut(h)
  BY <1>4 DEF TimesOut
<1>5. CASE Finish(h)
  <2>1. /\ hpc[h] = "finish" /\ hpc'[h] = "return" /\ ~m_nHaveReq' /\ ~m_bResult'
        /\ m_recvData' = <<>>
    BY <1>5 DEF Finish, GoTo, HandlerTypes
  <2>2. UNCHANGED <<m_retInfo, rpc, outstanding, told>>
    BY <1>5, Zenon DEF Finish, receivers, ghosts
  <2>3. Nothing /\ Got(h)
    BY <2>1 DEF OneCommand
  <2>4. Nothing' /\ Got(h)'
    BY <2>2, <2>3, Zenon DEF Nothing, Answering, Got
  <2> QED BY <2>1, <2>4 DEF OneCommand
<1>6. CASE Return(h)
  <2>1. hpc[h] = "return" /\ hpc'[h] \in {"send", "reply"}
    BY <1>6 DEF Return, GoTo, HandlerTypes
  <2>2. UNCHANGED <<m_nHaveReq, m_bResult, m_recvData, rpc, outstanding>>
    BY <1>6, Zenon DEF Return, reader, receivers
  <2>3. Nothing' /\ m_recvData' = <<>> /\ ~m_bResult' /\ ~m_nHaveReq'
    BY <2>1, <2>2 DEF OneCommand, Between, Nothing, Answering
  <2> QED BY <2>1, <2>3 DEF OneCommand
<1> QED BY <1>1, <1>2, <1>3, <1>4, <1>5, <1>6

\* A receiver that takes nothing from the device leaves the command where it is.
LEMMA QuietStep ==
  ASSUME NEW h \in Handlers, OneCommand(h),
         Answering' = Answering, \A r \in Conns : rpc'[r] = "store" => rpc[r] = "store",
         UNCHANGED <<m_nHaveReq, m_bResult, m_retInfo, hpc, item, lock, onePack, outstanding, told>>,
         m_recvData = <<>> => m_recvData' = <<>>
  PROVE  OneCommand(h)'
<1>1. /\ Nothing => Nothing'
      /\ Asked(h) => Asked(h)'
      /\ Answered(h) => Answered(h)'
      /\ Got(h) => Got(h)'
      /\ Between(h)' <=> Between(h)
  BY Zenon DEF Nothing, Asked, Answered, Got, Between, Own
<1> QED BY <1>1 DEF OneCommand

LEMMA ReceiverKeeps ==
  ASSUME TypeInv, NEW h \in Handlers, \A g \in Handlers : g = h, OneCommand(h), ~trouble',
         NEW r \in Conns, ReceiverStep(r)
  PROVE  OneCommand(h)'
<1> USE DEF TypeInv
<1>1. CASE RecvTop(r) \/ RecvFails(r)
  <2>1. rpc[r] \in {"top", "recv"} /\ \E s \in {"gone", "recv"} : rpc' = [rpc EXCEPT ![r] = s]
    BY <1>1 DEF RecvTop, RecvFails, RGoTo
  <2>2. Answering' = Answering /\ \A q \in Conns : rpc'[q] = "store" => rpc[q] = "store"
    BY <2>1 DEF Answering, ReceiverTypes
  <2>3. UNCHANGED <<reader, handlers, onePack, outstanding, ghosts>>
    BY <1>1, Zenon DEF RecvTop, RecvFails
  <2> QED BY <2>2, <2>3, QuietStep DEF reader, handlers, ghosts
<1>2. CASE Trim(r)
  <2>1. rpc[r] = "trim" /\ rpc' = [rpc EXCEPT ![r] = "top"]
        /\ (m_recvData = <<>> => m_recvData' = <<>>)
    BY <1>2 DEF Trim, RGoTo
  <2>2. Answering' = Answering /\ \A q \in Conns : rpc'[q] = "store" => rpc[q] = "store"
    BY <2>1 DEF Answering, ReceiverTypes
  <2>3. UNCHANGED <<m_nHaveReq, m_bResult, m_retInfo, handlers, onePack, outstanding, ghosts>>
    BY <1>2, Zenon DEF Trim
  <2> QED BY <2>1, <2>2, <2>3, QuietStep DEF handlers, ghosts
<1>3. CASE Dispatch(r)
  <2>1. /\ rpc[r] = "dispatch"
        /\ rpc' = [rpc EXCEPT ![r] = IF m_nHaveReq THEN "store" ELSE "trim"]
    BY <1>3 DEF Dispatch, RGoTo
  <2>2. UNCHANGED <<m_nHaveReq, m_bResult, m_retInfo, m_recvData, handlers, onePack, outstanding,
                    told>>
    BY <1>3, Zenon DEF Dispatch, reader, ghosts
  <2>3. r \in Answering /\ ~Nothing /\ ~Asked(h)
    BY <2>1 DEF Answering, Nothing, Asked
  <2>4. ~m_bResult /\ Answered(h) /\ hpc[h] \in {"arm", "wait", "asleep"}
    BY <2>3 DEF OneCommand, Between, HandlerTypes
  <2>5. outstanding' = {} /\ Answering = {r} /\ onePack[r].result = told[h]
    BY <2>2, <2>3, <2>4 DEF Answered
  <2>6. CASE m_nHaveReq
    <3>1. Answering' = Answering
      BY <2>1, <2>6 DEF Answering, ReceiverTypes
    <3>2. Answered(h)'
      BY <2>2, <2>4, <3>1 DEF Answered
    <3>3. hpc'[h] \in {"wait", "asleep"} /\ m_nHaveReq' /\ ~m_bResult'
      BY <2>2, <2>4, <2>6 DEF OneCommand, handlers
    <3> QED BY <3>2, <3>3 DEF OneCommand, Between
  <2>7. CASE ~m_nHaveReq
    <3>1. Answering' = {}
      BY <2>1, <2>5, <2>7 DEF Answering, ReceiverTypes
    <3>2. hpc'[h] = "arm" /\ ~m_nHaveReq' /\ ~m_bResult'
      BY <2>2, <2>4, <2>7 DEF OneCommand, handlers
    <3>3. \A q \in Conns : rpc'[q] # "store"
      BY <3>1 DEF Answering
    <3> QED BY <2>5, <3>1, <3>2, <3>3 DEF OneCommand, Between, Nothing
  <2> QED BY <2>6, <2>7
<1>4. CASE Store(r)
  <2>1. /\ rpc[r] = "store" /\ rpc' = [rpc EXCEPT ![r] = "trim"] /\ m_bResult' = TRUE
        /\ m_retInfo' = CASE onePack[r].result = "ok" -> 0
                          [] onePack[r].result = "refused" -> 1
                          [] OTHER -> m_retInfo
    BY <1>4 DEF Store, RGoTo
  <2>2. UNCHANGED <<m_nHaveReq, hpc, outstanding, told>>
    BY <1>4, Zenon DEF Store, handlers, ghosts
  <2>3. r \in Answering /\ ~Nothing /\ ~Asked(h)
    BY <2>1 DEF Answering, Nothing, Asked
  <2>4. ~m_bResult /\ Answered(h) /\ hpc[h] \in {"wait", "asleep"}
    BY <2>1, <2>3 DEF OneCommand, Between, HandlerTypes
  <2>5. outstanding' = {} /\ Answering = {r} /\ onePack[r].result = told[h]
        /\ told[h] \in {"ok", "refused"}
    BY <2>2, <2>3, <2>4 DEF Answered
  <2>6. Answering' = {}
    BY <2>1, <2>5 DEF Answering, ReceiverTypes
  <2>7. Got(h)'
    BY <2>1, <2>2, <2>5 DEF Got
  <2>8. m_nHaveReq' /\ hpc'[h] \in {"wait", "asleep"}
    BY <2>2, <2>4 DEF OneCommand
  <2> QED BY <2>1, <2>5, <2>6, <2>7, <2>8 DEF OneCommand, Nothing, Between
<1>5. ASSUME NEW cmd \in outstanding, NEW result \in Results, RecvAnswer(r, cmd, result)
      PROVE  OneCommand(h)'
  <2> DEFINE answer == [cmd |-> cmd, result |-> result]
  <2>1. ~Nothing /\ ~Answered(h)
    BY DEF Nothing, Answered
  <2>2. ~m_bResult /\ Asked(h) /\ hpc[h] \in {"arm", "wait", "asleep"}
    BY <2>1 DEF OneCommand, Between, HandlerTypes
  <2>3. outstanding = {cmd} /\ Own(h, cmd) /\ Answering = {} /\ m_recvData = <<>>
    BY <2>2 DEF Asked
  <2>4. /\ rpc[r] = "recv" /\ outstanding' = {} /\ result # "unknown"
        /\ told' = [told EXCEPT ![h] = result]
    BY <1>5, <2>3 DEF RecvAnswer, Own
  <2>5. UNCHANGED <<m_nHaveReq, m_bResult, hpc>>
    BY <1>5, Zenon DEF RecvAnswer, handlers
  <2>6. /\ answer \in Answers /\ Head(m_recvData \o <<answer, CheckByte>>) = answer
    BY <1>5, <2>3, RecvAnswerCases
  <2>7. /\ onePack' = [onePack EXCEPT ![r] = answer]
        /\ rpc' = [rpc EXCEPT ![r] = IF result = "unreachable" THEN "gone" ELSE "dispatch"]
    BY <1>5, <2>6, RecvAnswerCases, CheckByteIsNoAnswer
  <2>8. told'[h] = result /\ onePack'[r].result = result
    BY <2>4, <2>7 DEF ReceiverTypes
  <2>9. CASE result = "unreachable"
    <3>1. Answering' = {}
      BY <2>3, <2>4, <2>7, <2>9 DEF Answering, ReceiverTypes
    <3>2. \A q \in Conns : rpc'[q] # "store"
      BY <3>1 DEF Answering
    <3> QED BY <2>2, <2>4, <2>5, <3>1, <3>2 DEF OneCommand, Nothing, Between
  <2>10. CASE result \in {"ok", "refused"}
    <3>1. Answering' = {r}
      BY <2>3, <2>4, <2>7, <2>10 DEF Answering, ReceiverTypes
    <3>2. \A q \in Conns : rpc'[q] # "store"
      BY <2>3, <2>7, <2>10 DEF Answering, ReceiverTypes
    <3>3. Answered(h)'
      BY <2>4, <2>8, <2>10, <3>1 DEF Answered
    <3> QED BY <2>2, <2>5, <3>2, <3>3 DEF OneCommand, Between
  <2> QED BY <2>4, <2>9, <2>10 DEF Results
<1> QED BY <1>1, <1>2, <1>3, <1>4, <1>5 DEF ReceiverStep

\* Whoever the wait of one command ended badly for, stays marked.
LEMMA TroubleStays == FlagTypes /\ [Next]_vars => (trouble => trouble')
<1> SUFFICES ASSUME [Next]_vars, trouble PROVE trouble'
  OBVIOUS
<1>1. CASE UNCHANGED vars
  BY <1>1, Zenon DEF vars, ghosts
<1>2. ASSUME NEW h \in Handlers, HandlerStep(h) PROVE trouble'
  BY <1>2, Zenon DEF HandlerStep, StartPush, NextItem, StartItem, EndPush, Connect, ConnectFails,
     SocketFails, Reply, Send, Arm, Sleep, SeesResult, TimesOut, Finish, Return, ghosts
<1>3. ASSUME NEW r \in Conns, ReceiverStep(r) PROVE trouble'
  BY <1>3, Zenon DEF ReceiverStep, RecvTop, Dispatch, Store, Trim, RecvFails, RecvAnswer, ghosts
<1> QED BY <1>1, <1>2, <1>3, NextCases

LEMMA AnswerInvInit == Init => AnswerInv
<1> SUFFICES ASSUME Init, NEW h \in Handlers PROVE OneCommand(h)
  BY DEF AnswerInv
<1>1. hpc[h] = "idle" /\ Nothing /\ m_recvData = <<>> /\ ~m_bResult /\ ~m_nHaveReq
  BY DEF Init, Nothing, Answering
<1> QED BY <1>1 DEF OneCommand

LEMMA AnswerInvStep ==
  ASSUME \A g, h \in Handlers : g = h
  PROVE  TypeInv /\ AnswerInv /\ [Next]_vars => AnswerInv'
<1> SUFFICES ASSUME TypeInv, AnswerInv, [Next]_vars, ~trouble', NEW h \in Handlers
             PROVE  OneCommand(h)'
  BY DEF AnswerInv
<1>1. OneCommand(h)
  BY TroubleStays DEF TypeInv, AnswerInv
<1>2. CASE UNCHANGED vars
  <2>1. UNCHANGED <<m_nHaveReq, m_bResult, m_retInfo, m_recvData, hpc, item, lock, rpc, onePack,
                    outstanding, told>>
    BY <1>2, Zenon DEF vars, reader, handlers, receivers, ghosts
  <2>2. Answering' = Answering
    BY <2>1, Zenon DEF Answering
  <2> QED BY <1>1, <2>1, <2>2, QuietStep
<1>3. ASSUME NEW g \in Handlers, HandlerStep(g) PROVE OneCommand(h)'
  <2>1. HandlerStep(h)
    BY <1>3
  <2> QED BY <1>1, <2>1, PushStep, CommandStep, Zenon DEF HandlerStep
<1>4. ASSUME NEW r \in Conns, ReceiverStep(r) PROVE OneCommand(h)'
  BY <1>1, <1>4, ReceiverKeeps
<1> QED BY <1>2, <1>3, <1>4, NextCases

\* With one handler and no wait that timed out, a command returns what its own
\* lock answered, for any number of items and connections.
THEOREM OwnAnswerReturned ==
  ASSUME \A g, h \in Handlers : g = h
  PROVE  Spec => []ReturnsOwnAnswer
<1>1. AnswerInv => ReturnsOwnAnswer
  BY Zenon DEF AnswerInv, OneCommand, Got, ReturnsOwnAnswer
<1> QED BY <1>1, TypeInvInit, TypeInvStep, AnswerInvInit, AnswerInvStep, PTL DEF Spec
==============================================================================
