----------------------------- MODULE Connections -----------------------------
(***************************************************************************)
(* The cameras' connections: main's select loop (main.cpp) accepts on      *)
(* three servers, enters the descriptor in sockets and the camera in       *)
(* ip_to_connection and starts the connection's threads, which work with   *)
(* the descriptor NUMBER until one of them finds the connection broken     *)
(* and calls remove_socket (listen_socket.cpp).                            *)
(*                                                                         *)
(* remove_socket runs in the caller's thread without a lock; its search,   *)
(* its close, its erase and its look at ip_to_connection are steps of      *)
(* their own.  The kernel gives a new connection the lowest free number,   *)
(* so a number that was closed soon belongs to another camera.             *)
(*                                                                         *)
(* Not in the model: the content of the messages (SerialParse), and what   *)
(* an unlocked vector or map does when it is reallocated under a reader.   *)
(***************************************************************************)
EXTENDS Integers, Sequences, FiniteSets

CONSTANTS
  Cams,       \* the cameras, each with its own address, of 14 characters at most
  Senders,    \* the threads that send: "heart" and "send", which do the same here
  Fds,        \* the numbers the kernel can give
  Limit,      \* 50: the entries of sockets
  Arrivals    \* a bound: the connections the cameras make, the cases checked

Kinds == {"msg", "file", "video"}       \* server_fd, serverfile_fd, server_Video

ASSUME NumbersNat == Fds \subseteq Nat \ {0} /\ Limit \in Nat
ASSUME CamsHaveAddresses == "Unknown" \notin Cams
ASSUME SendersKnown == Senders \subseteq {"heart", "send"}
ASSUME ArrivalsSeq == Arrivals \subseteq Seq([cam : Cams, kind : Kinds])

Ids == UNION {DOMAIN a : a \in Arrivals} \* connections, in the order of accept

VARIABLES
  arrivals,          \* the case: it does not change
  owner,             \* the kernel: the connection a number belongs to, 0 if free
  alive,             \* connections whose peer has not closed or vanished
  silent,            \* the peer vanished, and the kernel has not found out
  conns,             \* accepted connections: camera, kind, number
  main,              \* where main's loop is
  sockets,           \* the vector of numbers
  ip_to_connection,  \* address -> numbers by kind
  pc, found,         \* by connection and thread: where it is, its iterator
  \* Ghosts: read by the properties only.
  overlapped,        \* two removals ran at once
  finished           \* file connections whose camera sent the end flag

kernel == <<arrivals, owner, alive, silent, conns>>
shared == <<sockets, ip_to_connection>>
threads == <<pc, found>>
ghosts == <<overlapped, finished>>
vars == <<kernel, main, shared, threads, ghosts>>

Roles == Senders \cup {"recv"}
\* client_ptrhread, clientfile_ptrhread; Receive_h264_video never ends and
\* calls nothing of this module.
RolesOf(kind) == CASE kind = "msg" -> Roles
                   [] kind = "file" -> {"recv"}
                   [] kind = "video" -> {}

Last == Len(conns)
Fd(i) == conns[i].fd
Entered(fd) == \E k \in DOMAIN sockets : sockets[k] = fd
Removing == {"find", "close", "erase", "look"}
\* A read or write on the number fails.
Fails(fd) == owner[fd] = 0 \/ owner[fd] \notin alive \cup silent
\* A read waits for a peer that will not say anything any more, not even that it
\* is gone: no accepted socket has SO_KEEPALIVE or SO_RCVTIMEO.
Blocks(fd) == owner[fd] \in silent

Init ==
  /\ arrivals \in Arrivals
  /\ owner = [fd \in Fds |-> 0] /\ alive = {} /\ silent = {} /\ conns = <<>>
  /\ main = "select"
  /\ sockets = <<>>
  /\ ip_to_connection = <<>>
  /\ pc = [t \in Ids \X Roles |-> "none"]
  /\ found = [t \in Ids \X Roles |-> 0]
  /\ overlapped = FALSE
  /\ finished = {}

------------------------------------------------------------------------------
(* main *)

\* A camera connects, and accept takes the lowest free number.
Accept ==
  /\ main = "select"
  /\ Last < Len(arrivals)
  /\ \E fd \in Fds :
       /\ owner[fd] = 0
       /\ \A n \in Fds : n < fd => owner[n] # 0
       /\ owner' = [owner EXCEPT ![fd] = Last + 1]
       /\ conns' = Append(conns, [cam |-> arrivals[Last + 1].cam,
                                 kind |-> arrivals[Last + 1].kind, fd |-> fd])
  /\ alive' = alive \cup {Last + 1}
  /\ main' = "push"
  /\ UNCHANGED <<arrivals, silent, shared, threads, ghosts>>

\* sockets.push_back, or a close when the limit is reached.
\* Faulty variant: the threads are started before the number is entered.
PushBack_Late ==
  /\ main = "push"
  /\ pc' = [p \in Ids \X Roles |->
              IF p[1] # Last \/ p[2] \notin RolesOf(conns[Last].kind) THEN pc[p]
              ELSE IF p[2] = "recv" THEN "read" ELSE "check"]
  /\ main' = "start"
  /\ UNCHANGED <<kernel, shared, found, ghosts>>
\* Faulty variant: the limit is not looked at.
PushBack_NoLimit ==
  /\ main = "push"
  /\ sockets' = Append(sockets, Fd(Last))
  /\ main' = "start"
  /\ UNCHANGED <<kernel, ip_to_connection, threads, ghosts>>
PushBack ==
  /\ main = "push"
  /\ IF Len(sockets) < Limit
     THEN /\ sockets' = Append(sockets, Fd(Last))
          /\ main' = "start"
          /\ UNCHANGED <<owner, alive, silent>>
     ELSE /\ owner' = [owner EXCEPT ![Fd(Last)] = 0]
          /\ alive' = alive \ {Last} /\ silent' = silent \ {Last}
          /\ main' = "select"
          /\ UNCHANGED sockets
  /\ UNCHANGED <<arrivals, conns, ip_to_connection, threads, ghosts>>

\* client_ptrhread and its siblings: only for a number they find in sockets.
StartThreads ==
  /\ main = "start"
  /\ pc' = IF Entered(Fd(Last))
           THEN [p \in Ids \X Roles |->
                   IF p[1] # Last \/ p[2] \notin RolesOf(conns[Last].kind) THEN pc[p]
                   ELSE IF p[2] = "recv" THEN "read" ELSE "check"]
           ELSE pc
  /\ main' = "add"
  /\ UNCHANGED <<kernel, shared, found, ghosts>>

NewEntry == [kind \in Kinds |-> 0]     \* ClientConnection()

\* Config::getClientIP: the number's peer, "Unknown" when it has none.  A peer
\* that is gone may still be known.
getClientIP(fd) == (IF owner[fd] # 0 THEN {conns[owner[fd]].cam} ELSE {"Unknown"})
                   \cup (IF Fails(fd) THEN {"Unknown"} ELSE {})

\* addSocket, with the address asked for by main after the threads have started.
addSocket ==
  /\ main = "add"
  /\ \E ip \in getClientIP(Fd(Last)) :
       LET entry == IF ip \in DOMAIN ip_to_connection THEN ip_to_connection[ip] ELSE NewEntry
       IN ip_to_connection' =
            [a \in DOMAIN ip_to_connection \cup {ip} |->
               IF a = ip THEN [entry EXCEPT ![conns[Last].kind] = Fd(Last)]
               ELSE ip_to_connection[a]]
  /\ main' = "select"
  /\ UNCHANGED <<kernel, sockets, threads, ghosts>>

\* The peer closes, or vanishes without a word, while it is connected.
Dies(i) ==
  /\ i \in alive
  /\ owner[Fd(i)] = i
  /\ alive' = alive \ {i}
  /\ UNCHANGED silent \/ silent' = silent \cup {i}
  /\ UNCHANGED <<arrivals, owner, conns, main, shared, threads, ghosts>>

------------------------------------------------------------------------------
(* The threads *)

Goto(i, r, to) == pc' = [pc EXCEPT ![<<i, r>>] = to]

\* Another thread is removing.
Meets(i, r) == \E t \in (Ids \X Roles) \ {<<i, r>>} : pc[t] \in Removing

\* heart_handler and Send_handler: is_valid_socket, then a message.
CheckValid(i, r) ==
  /\ pc[<<i, r>>] = "check"
  /\ Goto(i, r, IF Entered(Fd(i)) THEN "write" ELSE "ended")
  /\ UNCHANGED <<kernel, main, shared, found, ghosts>>

\* Faulty variant: an interrupted write counts as a broken connection.
Write_Short(i, r) ==
  /\ pc[<<i, r>>] = "write"
  /\ \E to \in {"find", "check"} : Goto(i, r, to)
  /\ UNCHANGED <<kernel, main, shared, found, ghosts>>
\* What is sent to a peer that vanished is not acknowledged: the kernel gives the
\* connection up, and the next read or write fails.
Write(i, r) ==
  /\ pc[<<i, r>>] = "write"
  /\ Goto(i, r, IF Fails(Fd(i)) THEN "find" ELSE "check")
  /\ silent' = silent \ {owner[Fd(i)]}
  /\ UNCHANGED <<arrivals, owner, alive, conns, main, shared, found, ghosts>>

\* serial_recv reads until a read fails; Recv_handler takes a file, or fails.
Read(i) ==
  /\ pc[<<i, "recv">>] = "read"
  /\ ~Blocks(Fd(i))
  /\ conns[i].kind = "msg" => Fails(Fd(i))
  /\ Goto(i, "recv", "peek")
  /\ UNCHANGED <<kernel, main, shared, found, ghosts>>

\* The look at the next byte: broken, the end flag, or more.
\* Faulty variant: the thread ends without remove_socket.
Peek_NoRemove(i) ==
  /\ pc[<<i, "recv">>] = "peek"
  /\ ~Blocks(Fd(i))
  /\ Goto(i, "recv", IF Fails(Fd(i)) THEN "ended" ELSE "read")
  /\ UNCHANGED <<kernel, main, shared, found, ghosts>>
Peek(i) ==
  /\ pc[<<i, "recv">>] = "peek"
  /\ ~Blocks(Fd(i))
  /\ \/ Fails(Fd(i)) /\ Goto(i, "recv", "find") /\ UNCHANGED finished
     \/ ~Fails(Fd(i)) /\ Goto(i, "recv", "read") /\ UNCHANGED finished
     \/ ~Fails(Fd(i)) /\ Goto(i, "recv", "ended") /\ finished' = finished \cup {owner[Fd(i)], i}
  /\ UNCHANGED <<kernel, main, shared, found, overlapped>>

------------------------------------------------------------------------------
(* remove_socket *)

Find(i, r) ==
  /\ pc[<<i, r>>] = "find"
  /\ \/ \E k \in DOMAIN sockets :
          /\ sockets[k] = Fd(i)
          /\ \A j \in 1..(k - 1) : sockets[j] # Fd(i)
          /\ found' = [found EXCEPT ![<<i, r>>] = k]
          /\ Goto(i, r, "close")
     \/ ~Entered(Fd(i)) /\ Goto(i, r, "look") /\ UNCHANGED found
  /\ overlapped' = (overlapped \/ Meets(i, r))
  /\ UNCHANGED <<kernel, main, shared, finished>>

Close(i, r) ==
  /\ pc[<<i, r>>] = "close"
  /\ IF found[<<i, r>>] \in DOMAIN sockets
     THEN owner' = [owner EXCEPT ![sockets[found[<<i, r>>]]] = 0]
     ELSE UNCHANGED owner
  /\ Goto(i, r, "erase")
  /\ overlapped' = (overlapped \/ Meets(i, r))
  /\ UNCHANGED <<arrivals, alive, silent, conns, main, shared, found, finished>>

Cleared(entry, fd) == [kind \in Kinds |-> IF entry[kind] = fd THEN -1 ELSE entry[kind]]

\* The element the iterator now stands at is erased, whichever it is.  sock is
\* set to -1 before the address is asked for: the entry found is "Unknown"'s,
\* none of whose numbers is -1.
\* Faulty variant: the number stays in the vector.
Erase_Kept(i, r) ==
  /\ pc[<<i, r>>] = "erase"
  /\ Goto(i, r, "ended")
  /\ found' = [found EXCEPT ![<<i, r>>] = 0]
  /\ UNCHANGED <<kernel, main, shared, ghosts>>
Erase(i, r) ==
  /\ pc[<<i, r>>] = "erase"
  /\ LET k == found[<<i, r>>] IN
     sockets' = IF k \in DOMAIN sockets
                THEN SubSeq(sockets, 1, k - 1) \o SubSeq(sockets, k + 1, Len(sockets))
                ELSE sockets
  /\ Goto(i, r, "ended")
  /\ found' = [found EXCEPT ![<<i, r>>] = 0]
  /\ overlapped' = (overlapped \/ Meets(i, r))
  /\ UNCHANGED <<kernel, main, ip_to_connection, finished>>

\* Not in sockets: the address of whoever has the number now is looked up.
LookUp(i, r) ==
  /\ pc[<<i, r>>] = "look"
  /\ \E ip \in getClientIP(Fd(i)) :
       LET entry == Cleared(ip_to_connection[ip], Fd(i)) IN
       ip_to_connection' =
         IF ip \notin DOMAIN ip_to_connection THEN ip_to_connection
         ELSE IF \A kind \in Kinds : entry[kind] = -1
              THEN [a \in DOMAIN ip_to_connection \ {ip} |-> ip_to_connection[a]]
              ELSE [ip_to_connection EXCEPT ![ip] = entry]
  /\ Goto(i, r, "ended")
  /\ UNCHANGED <<kernel, main, sockets, found, ghosts>>

remove_socket(i, r) == Find(i, r) \/ Close(i, r) \/ Erase(i, r) \/ LookUp(i, r)

\* Two removals at once race on the vector: undefined, and the model stops.
Main == ~overlapped /\ (PushBack \/ StartThreads \/ addSocket)
Thread(i, r) == /\ ~overlapped
                /\ \/ CheckValid(i, r) \/ Write(i, r) \/ remove_socket(i, r)
                   \/ r = "recv" /\ (Read(i) \/ Peek(i))
Camera == /\ ~overlapped
          /\ \/ Accept
             \/ \E i \in Ids : Dies(i)

Next == \/ Camera \/ Main
        \/ \E i \in Ids, r \in Roles : Thread(i, r)

\* Every running thread is scheduled; the cameras do what they like.
Fairness == /\ WF_vars(Main)
            /\ \A i \in Ids, r \in Roles : WF_vars(Thread(i, r))

Spec == Init /\ [][Next]_vars /\ Fairness

------------------------------------------------------------------------------
(* Properties *)

\* Type invariant.
TypeOK ==
  /\ arrivals \in Arrivals
  /\ owner \in [Fds -> Ids \cup {0}]
  /\ alive \subseteq Ids /\ silent \subseteq Ids
  /\ conns \in Seq([cam : Cams, kind : Kinds, fd : Fds])
  /\ Last <= Len(arrivals)
  /\ main \in {"select", "push", "start", "add"}
  /\ sockets \in Seq(Fds) /\ Len(sockets) <= Limit
  /\ DOMAIN ip_to_connection \subseteq Cams \cup {"Unknown"}
  /\ \A a \in DOMAIN ip_to_connection :
       ip_to_connection[a] \in [Kinds -> Fds \cup {-1, 0}]
  /\ pc \in [Ids \X Roles -> {"none", "check", "write", "read", "peek", "ended"} \cup Removing]
  /\ found \in [Ids \X Roles -> 0..Limit]
  /\ overlapped \in BOOLEAN
  /\ finished \subseteq Ids

\* The first connection that was ever given its number.
FirstOfNumber(i) == \A j \in 1..(i - 1) : Fd(j) # Fd(i)
Started(i) == i < Last \/ (i = Last /\ main \in {"select", "add"})

\* A connection that works is not closed by the server, nor taken out of
\* sockets: only a thread of an earlier owner of its number, or two removals
\* at once (the second one's iterator stands at another element), can do that.
KeepsLive ==
  ~overlapped => \A i \in alive : FirstOfNumber(i) =>
    owner[Fd(i)] = i /\ (Started(i) => Entered(Fd(i)))

\* And its threads go on, the file thread until the camera says it is done.
LiveIsServed ==
  ~overlapped => \A i \in alive, r \in Roles :
    FirstOfNumber(i) /\ Started(i) /\ r \in RolesOf(conns[i].kind) =>
      pc[<<i, r>>] \notin Removing \cup {"none"} /\ (pc[<<i, r>>] = "ended" => i \in finished)

\* A closed number is in sockets only while a removal is about to erase it.
\* One that stayed would make every later select fail with EBADF, and main,
\* which goes on with the next round, would never accept again.  Two removals
\* at once, with the number given anew between their closes, leave one.
SelectCanRun ==
  ~overlapped => \A k \in DOMAIN sockets :
    owner[sockets[k]] = 0 => \E t \in Ids \X Roles : pc[t] = "erase" /\ found[t] = k

\* listen_socket.cpp:591 says that when all sockets of a camera are disconnected
\* its entry is deleted.  So, while no removal is on, an entry's camera has a
\* connection with one of the entry's numbers.
GoneIsForgotten ==
  ~overlapped /\ main = "select" /\ (\A t \in Ids \X Roles : pc[t] \notin Removing) =>
    \A cam \in Cams \cap DOMAIN ip_to_connection : \E i \in 1..Last :
      /\ conns[i].cam = cam /\ owner[Fd(i)] = i
      /\ \E kind \in Kinds : ip_to_connection[cam][kind] = Fd(i)

\* A message connection that breaks is closed in the end, and so is a file
\* connection whose peer closed it: one of the threads sees it and gives the
\* number and the slot back.  That a peer vanished only a write finds out, and
\* nothing is written to a file connection.
Broken(i) == i <= Last /\ Started(i) /\ i \notin alive
Seen(i) == conns[i].kind = "msg" \/ (conns[i].kind = "file" /\ i \notin silent)
HasNumber(i) == i <= Last /\ owner[Fd(i)] = i
BrokenIsClosed ==
  \A i \in Ids : (Broken(i) /\ Seen(i)) ~> (~HasNumber(i) \/ i \in finished \/ overlapped)
==============================================================================
