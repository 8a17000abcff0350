-------------------------- MODULE ConnectionsProofs --------------------------
(***************************************************************************)
(* Proofs about Connections, for any cameras, connections, numbers and     *)
(* limit: a connection that works is kept and served, and select can run,  *)
(* as long as no two removals have run at once.                            *)
(***************************************************************************)
EXTENDS Connections, TLAPS, SequenceTheorems

Threads == Ids \X Roles
States == {"none", "check", "write", "read", "peek", "ended"} \cup Removing
\* Where a thread holds an iterator into sockets.
Working == {"close", "erase"}

\* The actions of a thread, and a step, with the actions named.
Act(i, r) == \/ CheckValid(i, r) \/ Write(i, r) \/ Find(i, r) \/ Close(i, r) \/ Erase(i, r)
             \/ LookUp(i, r) \/ (r = "recv" /\ Read(i)) \/ (r = "recv" /\ Peek(i))

LEMMA NextCases ==
  [Next]_vars <=> \/ UNCHANGED vars
                  \/ ~overlapped /\ (Accept \/ PushBack \/ StartThreads \/ addSocket)
                  \/ ~overlapped /\ \E i \in Ids : Dies(i)
                  \/ ~overlapped /\ \E i \in Ids, r \in Roles : Act(i, r)
BY Zenon DEF Next, Camera, Main, Thread, remove_socket, Act

\* A vector without its element k.
LEMMA WithoutElement ==
  ASSUME NEW S, NEW s \in Seq(S), NEW k \in 1..Len(s)
  PROVE  LET n == SubSeq(s, 1, k - 1) \o SubSeq(s, k + 1, Len(s))
         IN /\ n \in Seq(S) /\ Len(n) = Len(s) - 1
            /\ \A j \in 1..(Len(s) - 1) : n[j] = IF j < k THEN s[j] ELSE s[j + 1]
<1> DEFINE a == SubSeq(s, 1, k - 1)
<1> DEFINE b == SubSeq(s, k + 1, Len(s))
<1>0. Len(s) \in Nat /\ k \in 1..Len(s) /\ \A i \in 1..Len(s) : s[i] \in S
  BY LenProperties, ElementOfSeq
<1>1. a \in Seq(S) /\ Len(a) = k - 1 /\ \A j \in 1..(k - 1) : a[j] = s[j]
  <2>1. /\ a \in Seq(S)
        /\ Len(a) = IF 1 <= k - 1 THEN (k - 1) - 1 + 1 ELSE 0
        /\ \A i \in 1..((k - 1) - 1 + 1) : a[i] = s[1 + i - 1]
    BY <1>0, SubSeqProperties
  <2> HIDE DEF a
  <2> QED BY <1>0, <2>1
<1>2. b \in Seq(S) /\ Len(b) = Len(s) - k /\ \A j \in 1..(Len(s) - k) : b[j] = s[k + j]
  <2>1. /\ b \in Seq(S)
        /\ Len(b) = IF k + 1 <= Len(s) THEN Len(s) - (k + 1) + 1 ELSE 0
        /\ \A i \in 1..(Len(s) - (k + 1) + 1) : b[i] = s[(k + 1) + i - 1]
    BY <1>0, SubSeqProperties
  <2> HIDE DEF b
  <2> QED BY <1>0, <2>1
<1> HIDE DEF a, b
<1>3. /\ a \o b \in Seq(S) /\ Len(a \o b) = Len(a) + Len(b)
      /\ \A i \in 1..(Len(a) + Len(b)) : (a \o b)[i] = IF i <= Len(a) THEN a[i] ELSE b[i - Len(a)]
  BY <1>1, <1>2, ConcatProperties
<1>4. ASSUME NEW j \in 1..(Len(s) - 1) PROVE (a \o b)[j] = IF j < k THEN s[j] ELSE s[j + 1]
  <2>0. (a \o b)[j] = IF j <= k - 1 THEN a[j] ELSE b[j - (k - 1)]
    BY <1>0, <1>1, <1>2, <1>3
  <2>1. CASE j < k
    BY <1>0, <1>1, <2>0, <2>1
  <2>2. CASE ~(j < k)
    <3>1. j - (k - 1) \in 1..(Len(s) - k) /\ k + (j - (k - 1)) = j + 1 /\ ~(j <= k - 1)
      BY <1>0, <2>2
    <3> QED BY <1>2, <2>0, <2>2, <3>1
  <2> QED BY <2>1, <2>2
<1>5. Len(a \o b) = Len(s) - 1
  BY <1>0, <1>1, <1>2, <1>3
<1> QED BY <1>3, <1>4, <1>5 DEF a, b

------------------------------------------------------------------------------
(* The kernel's and main's part *)

Connection == [cam : Cams, kind : Kinds, fd : Fds]

KernelInv ==
  /\ arrivals \in Arrivals
  /\ conns \in Seq(Connection)
  /\ Last <= Len(arrivals)
  /\ main \in {"select", "push", "start", "add"}
  /\ main # "select" => Last > 0
  /\ owner \in [Fds -> 0..Last]
  /\ \A fd \in Fds : owner[fd] # 0 => Fd(owner[fd]) = fd
  /\ alive \subseteq 1..Last
  /\ sockets \in Seq(Fds) /\ Len(sockets) <= Limit

\* The connections accepted so far are among Ids.
LEMMA AcceptedIds ==
  ASSUME KernelInv
  PROVE  /\ Last \in Nat /\ Ids \subseteq Nat /\ 1..Len(arrivals) \subseteq Ids
         /\ Len(arrivals) \in Nat /\ 1..Last \subseteq Ids
         /\ \A i \in 1..Last : Fd(i) \in Fds /\ conns[i].kind \in Kinds /\ conns[i].cam \in Cams
<1>1. arrivals \in Seq([cam : Cams, kind : Kinds]) /\ arrivals \in Arrivals
  BY ArrivalsSeq DEF KernelInv
<1>2. Len(arrivals) \in Nat /\ DOMAIN arrivals = 1..Len(arrivals)
  BY <1>1, LenProperties
<1>3. 1..Len(arrivals) \subseteq Ids
  BY <1>1, <1>2 DEF Ids
<1>4. \A seq \in Arrivals : DOMAIN seq \subseteq Nat
  <2> SUFFICES ASSUME NEW seq \in Arrivals PROVE DOMAIN seq \subseteq Nat
    OBVIOUS
  <2>1. seq \in Seq([cam : Cams, kind : Kinds])
    BY ArrivalsSeq
  <2>2. DOMAIN seq = 1..Len(seq) /\ Len(seq) \in Nat
    BY <2>1, LenProperties
  <2> QED BY <2>2
<1>5. Ids \subseteq Nat
  BY <1>4 DEF Ids
<1>6. conns \in Seq(Connection) /\ Last <= Len(arrivals)
  BY DEF KernelInv
<1>7. Last \in Nat
  BY <1>6, LenProperties DEF Last
<1>8. \A i \in 1..Last : conns[i] \in Connection
  BY <1>6, ElementOfSeq DEF Last
<1>9. \A i \in 1..Last : Fd(i) \in Fds /\ conns[i].kind \in Kinds /\ conns[i].cam \in Cams
  BY <1>8 DEF Fd, Connection
<1>10. 1..Last \subseteq Ids
  BY <1>2, <1>3, <1>6, <1>7
<1> QED BY <1>2, <1>3, <1>5, <1>7, <1>9, <1>10

LEMMA KernelInvInit == Init => KernelInv
<1> SUFFICES ASSUME Init PROVE KernelInv
  OBVIOUS
<1>1. conns = <<>> /\ sockets = <<>> /\ Last = 0
  BY EmptySeq DEF Init, Last
<1>2. arrivals \in Seq([cam : Cams, kind : Kinds])
  BY ArrivalsSeq DEF Init
<1>3. Last <= Len(arrivals)
  BY <1>1, <1>2, LenProperties
<1>4. conns \in Seq(Connection) /\ sockets \in Seq(Fds) /\ Len(sockets) <= Limit
  BY <1>1, EmptySeq, NumbersNat
<1>5. owner \in [Fds -> 0..Last] /\ \A fd \in Fds : owner[fd] = 0
  BY <1>1 DEF Init
<1> QED BY <1>3, <1>4, <1>5 DEF Init, KernelInv

\* Accept: the number was free, the next connection has it.
LEMMA AcceptFacts ==
  ASSUME KernelInv, Accept
  PROVE  \E fd \in Fds :
           /\ owner[fd] = 0 /\ owner' = [owner EXCEPT ![fd] = Last + 1]
           /\ Last' = Last + 1 /\ conns'[Last + 1].fd = fd
           /\ \A i \in 1..Last : conns'[i] = conns[i]
           /\ conns' \in Seq(Connection)
           /\ alive' = alive \cup {Last + 1}
           /\ Last + 1 <= Len(arrivals)
<1>0. Last \in Nat /\ Len(arrivals) \in Nat
  BY AcceptedIds
<1>1. PICK fd \in Fds :
        /\ owner[fd] = 0 /\ owner' = [owner EXCEPT ![fd] = Last + 1]
        /\ conns' = Append(conns, [cam |-> arrivals[Last + 1].cam,
                                  kind |-> arrivals[Last + 1].kind, fd |-> fd])
  BY DEF Accept
<1>2. Last < Len(arrivals) /\ alive' = alive \cup {Last + 1}
  BY DEF Accept
<1>3. arrivals \in Seq([cam : Cams, kind : Kinds])
  BY ArrivalsSeq DEF KernelInv
<1>4. Last + 1 \in 1..Len(arrivals)
  BY <1>0, <1>2
<1>5. arrivals[Last + 1] \in [cam : Cams, kind : Kinds]
  BY <1>3, <1>4, ElementOfSeq
<1> DEFINE new == [cam |-> arrivals[Last + 1].cam, kind |-> arrivals[Last + 1].kind, fd |-> fd]
<1>6. new \in Connection /\ new.fd = fd
  BY <1>5 DEF Connection
<1>7. conns' = Append(conns, new) /\ conns \in Seq(Connection)
  BY <1>1 DEF KernelInv
<1> HIDE DEF new
<1>8. /\ conns' \in Seq(Connection) /\ Len(conns') = Len(conns) + 1
      /\ conns'[Len(conns) + 1] = new
      /\ \A i \in 1..Len(conns) : conns'[i] = conns[i]
  BY <1>6, <1>7, AppendProperties, Zenon
<1>9. Last' = Last + 1 /\ conns'[Last + 1].fd = fd
  BY <1>6, <1>8 DEF Last
<1>10. Last + 1 <= Len(arrivals)
  BY <1>0, <1>2
<1>11. \A i \in 1..Last : conns'[i] = conns[i]
  BY <1>8 DEF Last
<1> QED BY <1>1, <1>2, <1>8, <1>9, <1>10, <1>11

LEMMA KernelInvStep == KernelInv /\ [Next]_vars => KernelInv'
<1> SUFFICES ASSUME KernelInv, [Next]_vars PROVE KernelInv'
  OBVIOUS
<1> USE NumbersNat
<1>0. Last \in Nat /\ \A i \in 1..Last : Fd(i) \in Fds
  BY AcceptedIds
<1>1. CASE UNCHANGED vars
  BY <1>1 DEF vars, kernel, shared, KernelInv, Last, Fd
<1>2. CASE Accept
  <2>1. PICK fd \in Fds :
           /\ owner[fd] = 0 /\ owner' = [owner EXCEPT ![fd] = Last + 1]
           /\ Last' = Last + 1 /\ conns'[Last + 1].fd = fd
           /\ \A i \in 1..Last : conns'[i] = conns[i]
           /\ conns' \in Seq(Connection)
           /\ alive' = alive \cup {Last + 1}
           /\ Last + 1 <= Len(arrivals)
    BY <1>2, AcceptFacts
  <2>2. UNCHANGED <<arrivals, sockets>> /\ main' = "push"
    BY <1>2 DEF Accept, shared
  <2>3. owner' \in [Fds -> 0..Last']
    <3>1. \A n \in Fds : owner[n] \in 0..Last
      BY DEF KernelInv
    <3>2. owner' \in [Fds -> 0..(Last + 1)]
      BY <1>0, <2>1, <3>1 DEF KernelInv
    <3> QED BY <2>1, <3>2
  <2>4. \A n \in Fds : owner'[n] # 0 => conns'[owner'[n]].fd = n
    <3> SUFFICES ASSUME NEW n \in Fds, owner'[n] # 0 PROVE conns'[owner'[n]].fd = n
      OBVIOUS
    <3>1. CASE n = fd
      <4>1. owner'[n] = Last + 1
        BY <2>1, <3>1 DEF KernelInv
      <4> QED BY <2>1, <3>1, <4>1
    <3>2. CASE n # fd
      <4>1. owner'[n] = owner[n]
        BY <2>1, <3>2 DEF KernelInv
      <4>2. owner[n] \in 1..Last /\ Fd(owner[n]) = n
        BY <1>0, <4>1 DEF KernelInv
      <4>3. conns'[owner[n]] = conns[owner[n]]
        BY <2>1, <4>2
      <4> QED BY <4>1, <4>2, <4>3 DEF Fd
    <3> QED BY <3>1, <3>2
  <2>5. alive' \subseteq 1..Last'
    <3>1. alive \subseteq 1..Last /\ 1..Last \subseteq 1..(Last + 1) /\ Last + 1 \in 1..(Last + 1)
      BY <1>0 DEF KernelInv
    <3> QED BY <2>1, <3>1
  <2>6. Last' > 0 /\ Last' <= Len(arrivals)
    BY <1>0, <2>1
  <2>7. arrivals \in Arrivals /\ sockets \in Seq(Fds) /\ Len(sockets) <= Limit
    BY DEF KernelInv
  <2> QED BY <2>1, <2>2, <2>3, <2>4, <2>5, <2>6, <2>7 DEF KernelInv, Fd
<1>3. CASE PushBack
  <2>1. UNCHANGED <<arrivals, conns>> /\ main = "push" /\ Last > 0
    BY <1>3 DEF PushBack, KernelInv
  <2>2. Fd(Last) \in Fds
    BY <1>0, <2>1
  <2>3. CASE Len(sockets) < Limit
    <3>1. sockets' = Append(sockets, Fd(Last)) /\ main' = "start" /\ UNCHANGED <<owner, alive>>
      BY <1>3, <2>3 DEF PushBack
    <3>2. sockets \in Seq(Fds) /\ Len(sockets) \in Nat
      BY LenProperties DEF KernelInv
    <3>3. sockets' \in Seq(Fds) /\ Len(sockets') = Len(sockets) + 1
      BY <2>2, <3>1, <3>2, AppendProperties
    <3>4. Len(sockets') <= Limit
      BY <2>3, <3>2, <3>3
    <3> QED BY <2>1, <3>1, <3>3, <3>4 DEF KernelInv, Last, Fd
  <2>4. CASE ~(Len(sockets) < Limit)
    <3>1. /\ owner' = [owner EXCEPT ![Fd(Last)] = 0] /\ alive' = alive \ {Last}
          /\ main' = "select" /\ UNCHANGED sockets
      BY <1>3, <2>4 DEF PushBack
    <3>2. owner' \in [Fds -> 0..Last] /\ \A fd \in Fds : owner'[fd] # 0 => owner'[fd] = owner[fd]
      BY <1>0, <2>2, <3>1 DEF KernelInv
    <3>3. alive' \subseteq 1..Last
      BY <3>1 DEF KernelInv
    <3> QED BY <2>1, <3>1, <3>2, <3>3 DEF KernelInv, Last, Fd
  <2> QED BY <2>3, <2>4
<1>4. CASE StartThreads
  BY <1>4 DEF StartThreads, kernel, shared, KernelInv, Last, Fd
<1>5. CASE addSocket
  BY <1>5 DEF addSocket, kernel, KernelInv, Last, Fd
<1>6. ASSUME NEW i \in Ids, Dies(i) PROVE KernelInv'
  BY <1>6 DEF Dies, shared, KernelInv, Last, Fd
<1>7. ASSUME NEW i \in Ids, NEW r \in Roles, Act(i, r) PROVE KernelInv'
  <2>1. CASE Close(i, r)
    <3>1. UNCHANGED <<arrivals, alive, conns, main, sockets>>
      BY <2>1 DEF Close, shared
    <3>2. owner' = owner \/ \E k \in DOMAIN sockets : owner' = [owner EXCEPT ![sockets[k]] = 0]
      BY <2>1 DEF Close
    <3>3. owner' \in [Fds -> 0..Last] /\ \A fd \in Fds : owner'[fd] # 0 => owner'[fd] = owner[fd]
      BY <1>0, <3>2 DEF KernelInv
    <3> QED BY <3>1, <3>3 DEF KernelInv, Last, Fd
  <2>2. CASE Erase(i, r)
    <3>1. UNCHANGED <<kernel, main>>
      BY <2>2 DEF Erase
    <3>2. sockets' \in Seq(Fds) /\ Len(sockets') <= Len(sockets)
      <4>1. CASE found[<<i, r>>] \in DOMAIN sockets
        <5>1. found[<<i, r>>] \in 1..Len(sockets) /\ sockets \in Seq(Fds)
          BY <4>1, LenProperties DEF KernelInv
        <5>2. sockets' = SubSeq(sockets, 1, found[<<i, r>>] - 1)
                            \o SubSeq(sockets, found[<<i, r>>] + 1, Len(sockets))
          BY <2>2, <4>1, Zenon DEF Erase
        <5>3. Len(sockets) \in Nat
          BY LenProperties DEF KernelInv
        <5>4. sockets' \in Seq(Fds) /\ Len(sockets') = Len(sockets) - 1
          BY <5>1, <5>2, WithoutElement
        <5> QED BY <5>3, <5>4
      <4>2. CASE found[<<i, r>>] \notin DOMAIN sockets
        BY <2>2, <4>2 DEF Erase, KernelInv
      <4> QED BY <4>1, <4>2
    <3>3. Len(sockets') <= Limit
      BY <3>2 DEF KernelInv
    <3> QED BY <3>1, <3>2, <3>3 DEF kernel, KernelInv, Last, Fd
  <2>3. CASE CheckValid(i, r) \/ Write(i, r) \/ Find(i, r) \/ LookUp(i, r)
    BY <2>3 DEF CheckValid, Write, Find, LookUp, kernel, shared, KernelInv, Last, Fd
  <2>4. CASE Read(i) \/ Peek(i)
    BY <2>4 DEF Read, Peek, kernel, shared, KernelInv, Last, Fd
  <2> QED BY <1>7, <2>1, <2>2, <2>3, <2>4 DEF Act
<1> QED BY <1>1, <1>2, <1>3, <1>4, <1>5, <1>6, <1>7, NextCases

------------------------------------------------------------------------------
(* The threads *)

\* A thread of a connection exists only once main has started it.
ThreadsInv ==
  /\ pc \in [Threads -> States] /\ found \in [Threads -> 0..Limit]
  /\ \A i \in Ids, r \in Roles : pc[<<i, r>>] # "none" =>
       i \in 1..Last /\ (i < Last \/ main \in {"select", "add"})

\* What a thread's step does to pc, found, conns and main.
LEMMA ActFrame ==
  ASSUME NEW i \in Ids, NEW r \in Roles, Act(i, r)
  PROVE  /\ pc[<<i, r>>] # "none" /\ \E to \in States : pc' = [pc EXCEPT ![<<i, r>>] = to]
         /\ UNCHANGED <<arrivals, alive, conns, main>>
<1>1. CASE CheckValid(i, r)
  BY <1>1 DEF CheckValid, Goto, kernel, States
<1>2. CASE Write(i, r)
  BY <1>2 DEF Write, Goto, kernel, States, Removing
<1>3. CASE Find(i, r)
  BY <1>3 DEF Find, Goto, kernel, States, Removing
<1>4. CASE Close(i, r)
  BY <1>4 DEF Close, Goto, States, Removing
<1>5. CASE Erase(i, r)
  BY <1>5 DEF Erase, Goto, kernel, States
<1>6. CASE LookUp(i, r)
  BY <1>6 DEF LookUp, Goto, kernel, States
<1>7. CASE r = "recv" /\ Read(i)
  BY <1>7 DEF Read, Goto, kernel, States
<1>8. CASE r = "recv" /\ Peek(i)
  BY <1>8 DEF Peek, Goto, kernel, States, Removing
<1> QED BY <1>1, <1>2, <1>3, <1>4, <1>5, <1>6, <1>7, <1>8 DEF Act

LEMMA FoundStep ==
  ASSUME KernelInv, ThreadsInv, NEW i \in Ids, NEW r \in Roles, Act(i, r)
  PROVE  found' \in [Threads -> 0..Limit]
<1>1. CASE Find(i, r)
  <2>1. CASE found' = found
    BY <2>1 DEF ThreadsInv
  <2>2. ASSUME NEW k \in DOMAIN sockets, found' = [found EXCEPT ![<<i, r>>] = k]
        PROVE  found' \in [Threads -> 0..Limit]
    <3>1. DOMAIN sockets = 1..Len(sockets) /\ Len(sockets) \in Nat /\ Len(sockets) <= Limit
      BY LenProperties DEF KernelInv
    <3>2. k \in 0..Limit
      BY <3>1, NumbersNat
    <3> QED BY <2>2, <3>2 DEF ThreadsInv
  <2> QED BY <1>1, <2>1, <2>2 DEF Find
<1>2. CASE Erase(i, r)
  <2>1. found' = [found EXCEPT ![<<i, r>>] = 0] /\ 0 \in 0..Limit
    BY <1>2, NumbersNat DEF Erase
  <2> QED BY <2>1 DEF ThreadsInv
<1>3. CASE CheckValid(i, r) \/ Write(i, r) \/ Close(i, r) \/ LookUp(i, r)
  BY <1>3 DEF CheckValid, Write, Close, LookUp, ThreadsInv
<1>4. CASE Read(i) \/ Peek(i)
  BY <1>4 DEF Read, Peek, ThreadsInv
<1> QED BY <1>1, <1>2, <1>3, <1>4 DEF Act

LEMMA ThreadsInvInit == Init => ThreadsInv
BY NumbersNat DEF Init, ThreadsInv, Threads, States

LEMMA ThreadsInvStep == KernelInv /\ ThreadsInv /\ [Next]_vars => ThreadsInv'
<1> SUFFICES ASSUME KernelInv, ThreadsInv, [Next]_vars PROVE ThreadsInv'
  OBVIOUS
<1>0. Last \in Nat
  BY AcceptedIds
<1>1. CASE UNCHANGED vars
  BY <1>1 DEF vars, kernel, threads, ThreadsInv, Last
<1>2. CASE Accept
  <2>1. Last' = Last + 1 /\ main = "select" /\ UNCHANGED <<pc, found>>
    BY <1>2, AcceptFacts DEF Accept, threads
  <2>2. ASSUME NEW i \in Ids, NEW r \in Roles, pc'[<<i, r>>] # "none"
        PROVE  i \in 1..Last' /\ i < Last'
    <3>1. i \in 1..Last
      BY <2>1, <2>2 DEF ThreadsInv
    <3> QED BY <1>0, <2>1, <3>1
  <2> QED BY <2>1, <2>2 DEF ThreadsInv
<1>3. CASE PushBack
  <2>1. UNCHANGED <<pc, found, conns>> /\ main = "push"
    BY <1>3 DEF PushBack, threads
  <2> QED BY <2>1 DEF ThreadsInv, Last
<1>4. CASE StartThreads
  <2>1. UNCHANGED <<found, conns>> /\ main = "start" /\ main' = "add"
    BY <1>4 DEF StartThreads, kernel
  <2>2. CASE pc' = pc
    BY <2>1, <2>2 DEF ThreadsInv, Last
  <2>3. CASE pc' # pc
    <3>1. pc' = [p \in Threads |->
              IF p[1] # Last \/ p[2] \notin RolesOf(conns[Last].kind) THEN pc[p]
              ELSE IF p[2] = "recv" THEN "read" ELSE "check"]
      BY <1>4, <2>3 DEF StartThreads, Threads
    <3>2. pc' \in [Threads -> States]
      BY <3>1 DEF ThreadsInv, States
    <3>3. ASSUME NEW i \in Ids, NEW r \in Roles, pc'[<<i, r>>] # "none"
          PROVE  i \in 1..Last
      <4>1. CASE i = Last
        BY <1>0, <2>1, <4>1 DEF KernelInv
      <4>2. CASE i # Last
        <5>1. pc'[<<i, r>>] = pc[<<i, r>>]
          BY <3>1, <4>2 DEF Threads
        <5> QED BY <3>3, <5>1 DEF ThreadsInv
      <4> QED BY <4>1, <4>2
    <3> QED BY <2>1, <3>2, <3>3 DEF ThreadsInv, Last
  <2> QED BY <2>2, <2>3
<1>5. CASE addSocket
  <2>1. UNCHANGED <<pc, found, conns>> /\ main' = "select"
    BY <1>5 DEF addSocket, threads, kernel
  <2> QED BY <2>1 DEF ThreadsInv, Last
<1>6. ASSUME NEW i \in Ids, Dies(i) PROVE ThreadsInv'
  <2>1. UNCHANGED <<pc, found, conns, main>>
    BY <1>6 DEF Dies, threads
  <2> QED BY <2>1 DEF ThreadsInv, Last
<1>7. ASSUME NEW i \in Ids, NEW r \in Roles, Act(i, r) PROVE ThreadsInv'
  <2>1. PICK to \in States : pc' = [pc EXCEPT ![<<i, r>>] = to]
    BY <1>7, ActFrame
  <2>2. pc[<<i, r>>] # "none" /\ UNCHANGED <<conns, main>>
    BY <1>7, ActFrame
  <2>3. found' \in [Threads -> 0..Limit]
    BY <1>7, FoundStep
  <2>4. pc' \in [Threads -> States]
    BY <2>1 DEF ThreadsInv
  <2>5. ASSUME NEW j \in Ids, NEW q \in Roles, pc'[<<j, q>>] # "none"
        PROVE  pc[<<j, q>>] # "none"
    BY <2>1, <2>2, <2>5 DEF ThreadsInv, Threads
  <2> QED BY <2>2, <2>3, <2>4, <2>5 DEF ThreadsInv, Last
<1> QED BY <1>1, <1>2, <1>3, <1>4, <1>5, <1>6, <1>7, NextCases
------------------------------------------------------------------------------
(* The vector and the kernel's table, while removals do not overlap *)

Erasing(k) == \E t \in Threads : pc[t] = "erase" /\ found[t] = k

\* One thread at a time holds an iterator.
Alone == \A t, u \in Threads : pc[t] \in Working /\ pc[u] \in Working => t = u

\* Its iterator stands at its own number.
FoundRight == \A i \in Ids, r \in Roles : pc[<<i, r>>] \in Working =>
                found[<<i, r>>] \in 1..Len(sockets) /\ sockets[found[<<i, r>>]] = Fd(i)

\* A number just accepted is open, and not in the vector, except where an
\* element is about to be erased.
Fresh == main = "push" =>
           /\ owner[Fd(Last)] = Last
           /\ \A k \in 1..Len(sockets) : sockets[k] = Fd(Last) => Erasing(k)

\* SelectCanRun's inductive form.
NoStale == \A k \in 1..Len(sockets) : owner[sockets[k]] = 0 => Erasing(k)

\* A number is twice in the vector only while one of the two is being erased.
NoDouble == \A k, m \in 1..Len(sockets) :
              k # m /\ sockets[k] = sockets[m] => Erasing(k) \/ Erasing(m)

TableInv == Alone /\ FoundRight /\ Fresh /\ NoStale /\ NoDouble

\* The steps that touch neither the vector nor the kernel's table, nor a
\* thread with an iterator.
LEMMA TableStatic ==
  ASSUME TableInv, UNCHANGED <<owner, conns, sockets, found>>,
         main' = "push" => main = "push",
         \A t \in Threads : pc[t] \in Working \/ pc'[t] \in Working => pc'[t] = pc[t]
  PROVE  TableInv'
<1>1. \A k : Erasing(k) => Erasing(k)'
  BY DEF Erasing, Working
<1>2. Alone'
  BY DEF TableInv, Alone
<1>3. FoundRight'
  BY DEF TableInv, FoundRight, Fd, Threads
<1>4. Fresh'
  BY <1>1 DEF TableInv, Fresh, Fd, Last
<1>5. NoStale'
  BY <1>1 DEF TableInv, NoStale
<1>6. NoDouble'
  BY <1>1 DEF TableInv, NoDouble
<1> QED BY <1>2, <1>3, <1>4, <1>5, <1>6 DEF TableInv

LEMMA TableAccept ==
  ASSUME KernelInv, ThreadsInv, TableInv, Accept
  PROVE  TableInv'
<1>1. PICK fd \in Fds :
         /\ owner[fd] = 0 /\ owner' = [owner EXCEPT ![fd] = Last + 1]
         /\ Last' = Last + 1 /\ conns'[Last + 1].fd = fd
         /\ \A i \in 1..Last : conns'[i] = conns[i]
  BY AcceptFacts
<1>2. UNCHANGED <<sockets, pc, found>>
  BY DEF Accept, shared, threads
<1>3. Last \in Nat /\ owner \in [Fds -> 0..Last]
  BY AcceptedIds DEF KernelInv
<1>4. \A k : Erasing(k) <=> Erasing(k)'
  BY <1>2 DEF Erasing
<1>5. Alone'
  BY <1>2 DEF TableInv, Alone
<1>6. FoundRight'
  <2> SUFFICES ASSUME NEW i \in Ids, NEW r \in Roles, pc[<<i, r>>] \in Working
               PROVE  /\ found[<<i, r>>] \in 1..Len(sockets)
                      /\ sockets[found[<<i, r>>]] = conns'[i].fd
    BY <1>2 DEF FoundRight, Fd
  <2>1. i \in 1..Last
    BY DEF ThreadsInv, Working
  <2> QED BY <1>1, <2>1 DEF TableInv, FoundRight, Fd
<1>7. owner'[fd] = Last + 1
  BY <1>1, <1>3
<1>8. Fresh'
  <2>1. Fd(Last)' = fd
    BY <1>1 DEF Fd
  <2>2. \A k \in 1..Len(sockets) : sockets[k] = fd => Erasing(k)
    BY <1>1 DEF TableInv, NoStale
  <2> QED BY <1>1, <1>2, <1>4, <1>7, <2>1, <2>2 DEF Fresh
<1>9. NoStale'
  <2>1. \A n \in Fds : owner'[n] = 0 => owner[n] = 0
    BY <1>1, <1>3
  <2>2. \A k \in 1..Len(sockets) : sockets[k] \in Fds
    BY ElementOfSeq DEF KernelInv
  <2> QED BY <1>2, <1>4, <2>1, <2>2 DEF TableInv, NoStale
<1>10. NoDouble'
  BY <1>2, <1>4 DEF TableInv, NoDouble
<1> QED BY <1>5, <1>6, <1>8, <1>9, <1>10 DEF TableInv

LEMMA TablePush ==
  ASSUME KernelInv, ThreadsInv, TableInv, PushBack
  PROVE  TableInv'
<1>1. UNCHANGED <<conns, pc, found>> /\ main = "push" /\ main' # "push"
  BY DEF PushBack, threads
<1>2. \A k : Erasing(k) <=> Erasing(k)'
  BY <1>1 DEF Erasing
<1>3. Alone' /\ Fresh'
  BY <1>1 DEF TableInv, Alone, Fresh
<1>4. /\ Last \in Nat /\ Last > 0 /\ Len(sockets) \in Nat /\ sockets \in Seq(Fds)
      /\ owner \in [Fds -> 0..Last]
  BY <1>1, AcceptedIds, LenProperties DEF KernelInv
<1>5. Fd(Last) \in Fds /\ owner[Fd(Last)] = Last
  BY <1>1, <1>4, AcceptedIds DEF TableInv, Fresh
<1>6. \A k \in 1..Len(sockets) : sockets[k] = Fd(Last) => Erasing(k)
  BY <1>1 DEF TableInv, Fresh
<1>7. CASE Len(sockets) < Limit
  <2>1. sockets' = Append(sockets, Fd(Last)) /\ owner' = owner
    BY <1>7 DEF PushBack
  <2>2. /\ Len(sockets') = Len(sockets) + 1
        /\ \A k \in 1..Len(sockets) : sockets'[k] = sockets[k]
        /\ sockets'[Len(sockets) + 1] = Fd(Last)
    BY <1>4, <1>5, <2>1, AppendProperties
  <2>3. /\ 1..Len(sockets) \subseteq 1..Len(sockets')
        /\ \A k \in 1..Len(sockets') : k \in 1..Len(sockets) \/ k = Len(sockets) + 1
    BY <1>4, <2>2
  <2>4. FoundRight'
    BY <1>1, <2>2, <2>3 DEF TableInv, FoundRight, Fd
  <2>5. NoStale'
    <3> SUFFICES ASSUME NEW k \in 1..Len(sockets'), owner[sockets'[k]] = 0
                 PROVE  Erasing(k)
      BY <1>2, <2>1 DEF NoStale
    <3>1. k \in 1..Len(sockets)
      BY <1>4, <1>5, <2>2, <2>3
    <3> QED BY <2>2, <3>1 DEF TableInv, NoStale
  <2>6. NoDouble'
    <3> SUFFICES ASSUME NEW k \in 1..Len(sockets'), NEW m \in 1..Len(sockets'),
                        k # m, sockets'[k] = sockets'[m]
                 PROVE  Erasing(k) \/ Erasing(m)
      BY <1>2 DEF NoDouble
    <3>1. CASE k \in 1..Len(sockets) /\ m \in 1..Len(sockets)
      BY <2>2, <3>1 DEF TableInv, NoDouble
    <3>2. CASE k \in 1..Len(sockets) /\ m = Len(sockets) + 1
      BY <1>6, <2>2, <3>2
    <3>3. CASE m \in 1..Len(sockets) /\ k = Len(sockets) + 1
      BY <1>6, <2>2, <3>3
    <3> QED BY <2>3, <3>1, <3>2, <3>3
  <2> QED BY <1>3, <2>4, <2>5, <2>6 DEF TableInv
<1>8. CASE ~(Len(sockets) < Limit)
  <2>1. owner' = [owner EXCEPT ![Fd(Last)] = 0] /\ UNCHANGED sockets
    BY <1>8 DEF PushBack
  <2>2. FoundRight' /\ NoDouble'
    BY <1>1, <1>2, <2>1 DEF TableInv, FoundRight, NoDouble, Fd
  <2>3. NoStale'
    <3>1. \A k \in 1..Len(sockets) : sockets[k] \in Fds
      BY <1>4, ElementOfSeq
    <3>2. \A n \in Fds : owner'[n] = 0 => owner[n] = 0 \/ n = Fd(Last)
      BY <1>4, <2>1
    <3> QED BY <1>2, <1>6, <2>1, <3>1, <3>2 DEF TableInv, NoStale
  <2> QED BY <1>3, <2>2, <2>3 DEF TableInv
<1> QED BY <1>7, <1>8

\* Find with a hit: nobody else removes, or the removals overlap.
LEMMA TableFind ==
  ASSUME KernelInv, ThreadsInv, TableInv, NEW i \in Ids, NEW r \in Roles, Find(i, r),
         ~overlapped', pc'[<<i, r>>] = "close"
  PROVE  TableInv'
<1>1. UNCHANGED <<owner, conns, main, sockets>> /\ pc[<<i, r>>] = "find"
  BY DEF Find, kernel, shared
<1>2. ~Meets(i, r)
  BY Zenon DEF Find
<1>3. \A t \in Threads : pc[t] \notin Working
  BY <1>1, <1>2 DEF Meets, Working, Removing, Threads
<1>4. \A k : ~Erasing(k)
  BY <1>3 DEF Erasing, Working
<1>5. \A to \in {"close", "look"} :
        Goto(i, r, to) => pc'[<<i, r>>] = to /\ \A t \in Threads : t # <<i, r>> => pc'[t] = pc[t]
  BY DEF Goto, ThreadsInv, Threads
<1>6. PICK k \in DOMAIN sockets :
        sockets[k] = Fd(i) /\ found' = [found EXCEPT ![<<i, r>>] = k] /\ Goto(i, r, "close")
  BY <1>5 DEF Find
<1>7. k \in 1..Len(sockets) /\ found'[<<i, r>>] = k
  BY <1>6, LenProperties DEF KernelInv, ThreadsInv, Threads
<1>8. \A t \in Threads : pc'[t] \in Working => t = <<i, r>>
  BY <1>3, <1>5, <1>6
<1>9. Alone'
  BY <1>8 DEF Alone
<1>10. FoundRight'
  <2> SUFFICES ASSUME NEW j \in Ids, NEW q \in Roles, pc'[<<j, q>>] \in Working
               PROVE  /\ found'[<<j, q>>] \in 1..Len(sockets)
                      /\ sockets[found'[<<j, q>>]] = Fd(j)
    BY <1>1 DEF FoundRight, Fd
  <2>1. <<j, q>> = <<i, r>>
    BY <1>8 DEF Threads
  <2>2. j = i
    BY <2>1
  <2> QED BY <1>6, <1>7, <2>1, <2>2
<1>11. Fresh' /\ NoStale' /\ NoDouble'
  BY <1>1, <1>4 DEF TableInv, Fresh, NoStale, NoDouble, Fd, Last
<1> QED BY <1>9, <1>10, <1>11 DEF TableInv

LEMMA CloseFacts ==
  ASSUME KernelInv, ThreadsInv, TableInv, NEW i \in Ids, NEW r \in Roles, Close(i, r)
  PROVE  /\ found[<<i, r>>] \in 1..Len(sockets) /\ sockets[found[<<i, r>>]] = Fd(i)
         /\ Fd(i) \in Fds /\ owner' = [owner EXCEPT ![Fd(i)] = 0]
         /\ pc'[<<i, r>>] = "erase" /\ \A t \in Threads : t # <<i, r>> => pc'[t] = pc[t]
         /\ \A t \in Threads : pc[t] \in Working => t = <<i, r>>
<1>1. pc[<<i, r>>] = "close" /\ <<i, r>> \in Threads
  BY DEF Close, Threads
<1>2. found[<<i, r>>] \in 1..Len(sockets) /\ sockets[found[<<i, r>>]] = Fd(i)
  BY <1>1 DEF TableInv, FoundRight, Working
<1>3. found[<<i, r>>] \in DOMAIN sockets /\ Fd(i) \in Fds
  BY <1>2, LenProperties, ElementOfSeq DEF KernelInv
<1>4. owner' = [owner EXCEPT ![Fd(i)] = 0]
  BY <1>2, <1>3 DEF Close
<1>5. pc' = [pc EXCEPT ![<<i, r>>] = "erase"]
  BY DEF Close, Goto
<1>6. pc'[<<i, r>>] = "erase" /\ \A t \in Threads : t # <<i, r>> => pc'[t] = pc[t]
  BY <1>1, <1>5 DEF ThreadsInv
<1>7. \A t \in Threads : pc[t] \in Working => t = <<i, r>>
  BY <1>1 DEF TableInv, Alone, Working
<1> QED BY <1>2, <1>3, <1>4, <1>6, <1>7

LEMMA TableClose ==
  ASSUME KernelInv, ThreadsInv, TableInv, NEW i \in Ids, NEW r \in Roles, Close(i, r)
  PROVE  TableInv'
<1>1. /\ found[<<i, r>>] \in 1..Len(sockets) /\ sockets[found[<<i, r>>]] = Fd(i)
      /\ Fd(i) \in Fds /\ owner' = [owner EXCEPT ![Fd(i)] = 0]
      /\ pc'[<<i, r>>] = "erase" /\ \A t \in Threads : t # <<i, r>> => pc'[t] = pc[t]
      /\ \A t \in Threads : pc[t] \in Working => t = <<i, r>>
  BY CloseFacts
<1>2. UNCHANGED <<conns, main, sockets, found>> /\ pc[<<i, r>>] = "close"
  BY DEF Close, shared
<1>3. \A k : ~Erasing(k)
  BY <1>1, <1>2 DEF Erasing, Working
<1>4. Erasing(found[<<i, r>>])'
  BY <1>1, <1>2 DEF Erasing, Threads
<1>5. Alone'
  BY <1>1 DEF Alone
<1>6. FoundRight'
  <2> SUFFICES ASSUME NEW j \in Ids, NEW q \in Roles, pc'[<<j, q>>] \in Working
               PROVE  /\ found[<<j, q>>] \in 1..Len(sockets)
                      /\ sockets[found[<<j, q>>]] = Fd(j)
    BY <1>2 DEF FoundRight, Fd
  <2>1. <<j, q>> = <<i, r>>
    BY <1>1 DEF Threads
  <2>2. j = i
    BY <2>1
  <2> QED BY <1>1, <2>1, <2>2
<1>7. owner \in [Fds -> 0..Last]
  BY DEF KernelInv
<1>8. Fresh'
  <2> SUFFICES ASSUME main = "push"
               PROVE  owner'[Fd(Last)] = Last /\ \A k \in 1..Len(sockets) : sockets[k] # Fd(Last)
    BY <1>2 DEF Fresh, Fd, Last
  <2>1. owner[Fd(Last)] = Last /\ \A k \in 1..Len(sockets) : sockets[k] # Fd(Last)
    BY <1>3 DEF TableInv, Fresh
  <2>2. Fd(Last) # Fd(i)
    BY <1>1, <2>1
  <2>3. Fd(Last) \in Fds
    BY AcceptedIds DEF KernelInv
  <2> QED BY <1>1, <1>7, <2>1, <2>2, <2>3
<1>9. NoStale'
  <2> SUFFICES ASSUME NEW k \in 1..Len(sockets), owner'[sockets[k]] = 0
               PROVE  k = found[<<i, r>>]
    BY <1>2, <1>4 DEF NoStale
  <2>1. sockets[k] \in Fds
    BY ElementOfSeq DEF KernelInv
  <2>2. owner[sockets[k]] # 0
    BY <1>3 DEF TableInv, NoStale
  <2>3. sockets[k] = Fd(i)
    BY <1>1, <1>7, <2>1, <2>2
  <2> QED BY <1>1, <1>3, <2>3 DEF TableInv, NoDouble
<1>10. NoDouble'
  BY <1>2, <1>3 DEF TableInv, NoDouble
<1> QED BY <1>5, <1>6, <1>8, <1>9, <1>10 DEF TableInv

\* The vector without the element erased: where each of the others was.
LEMMA EraseFacts ==
  ASSUME KernelInv, ThreadsInv, TableInv, NEW i \in Ids, NEW r \in Roles, Erase(i, r)
  PROVE  /\ Len(sockets') = Len(sockets) - 1
         /\ found[<<i, r>>] \in 1..Len(sockets) /\ sockets[found[<<i, r>>]] = Fd(i)
         /\ \A k \in 1..(Len(sockets) - 1) :
              sockets'[k] = IF k < found[<<i, r>>] THEN sockets[k] ELSE sockets[k + 1]
         /\ pc'[<<i, r>>] = "ended" /\ \A t \in Threads : t # <<i, r>> => pc'[t] = pc[t]
         /\ \A t \in Threads : pc[t] \in Working => t = <<i, r>>
<1>1. pc[<<i, r>>] = "erase" /\ <<i, r>> \in Threads
  BY DEF Erase, Threads
<1>2. found[<<i, r>>] \in 1..Len(sockets) /\ sockets[found[<<i, r>>]] = Fd(i)
  BY <1>1 DEF TableInv, FoundRight, Working
<1>3. sockets \in Seq(Fds) /\ found[<<i, r>>] \in DOMAIN sockets
  BY <1>2, LenProperties DEF KernelInv
<1>4. sockets' = SubSeq(sockets, 1, found[<<i, r>>] - 1)
                   \o SubSeq(sockets, found[<<i, r>>] + 1, Len(sockets))
  BY <1>3, Zenon DEF Erase
<1>5. /\ Len(sockets') = Len(sockets) - 1
      /\ \A k \in 1..(Len(sockets) - 1) :
           sockets'[k] = IF k < found[<<i, r>>] THEN sockets[k] ELSE sockets[k + 1]
  BY <1>2, <1>3, <1>4, WithoutElement
<1>6. pc' = [pc EXCEPT ![<<i, r>>] = "ended"]
  BY DEF Erase, Goto
<1>7. pc'[<<i, r>>] = "ended" /\ \A t \in Threads : t # <<i, r>> => pc'[t] = pc[t]
  BY <1>1, <1>6 DEF ThreadsInv
<1>8. \A t \in Threads : pc[t] \in Working => t = <<i, r>>
  BY <1>1 DEF TableInv, Alone, Working
<1> QED BY <1>2, <1>5, <1>7, <1>8

LEMMA TableErase ==
  ASSUME KernelInv, ThreadsInv, TableInv, NEW i \in Ids, NEW r \in Roles, Erase(i, r)
  PROVE  TableInv'
<1> DEFINE f == found[<<i, r>>]
<1> DEFINE old(k) == IF k < f THEN k ELSE k + 1
<1>1. /\ Len(sockets') = Len(sockets) - 1
      /\ f \in 1..Len(sockets)
      /\ \A k \in 1..(Len(sockets) - 1) :
           sockets'[k] = IF k < f THEN sockets[k] ELSE sockets[k + 1]
      /\ pc'[<<i, r>>] = "ended" /\ \A t \in Threads : t # <<i, r>> => pc'[t] = pc[t]
      /\ \A t \in Threads : pc[t] \in Working => t = <<i, r>>
  BY EraseFacts
<1>2. UNCHANGED <<owner, conns, main>>
  BY DEF Erase, kernel
<1>3. Len(sockets) \in Nat
  BY LenProperties DEF KernelInv
<1>4. \A t \in Threads : pc'[t] \notin Working
  BY <1>1 DEF Working
<1>5. \A k : Erasing(k) => k = f
  BY <1>1 DEF Erasing, Working
<1> HIDE DEF f
<1>6. \A k \in 1..Len(sockets') :
        old(k) \in 1..Len(sockets) /\ old(k) # f /\ sockets'[k] = sockets[old(k)]
  BY <1>1, <1>3
<1>7. \A k, m \in 1..Len(sockets') : k # m => old(k) # old(m)
  BY <1>1, <1>3
<1> HIDE DEF old
<1>8. Alone' /\ FoundRight'
  BY <1>4 DEF Alone, FoundRight, Threads
<1>9. Fresh'
  BY <1>2, <1>5, <1>6 DEF TableInv, Fresh, Fd, Last
<1>10. NoStale'
  BY <1>2, <1>5, <1>6 DEF TableInv, NoStale
<1>11. NoDouble'
  BY <1>5, <1>6, <1>7 DEF TableInv, NoDouble
<1> QED BY <1>8, <1>9, <1>10, <1>11 DEF TableInv

\* The other steps of the threads hold no iterator before or after.
LEMMA QuietAct ==
  ASSUME ThreadsInv, NEW i \in Ids, NEW r \in Roles, Act(i, r),
         ~Close(i, r), ~Erase(i, r), ~(Find(i, r) /\ pc'[<<i, r>>] = "close")
  PROVE  /\ UNCHANGED <<owner, conns, main, sockets, found>>
         /\ \A t \in Threads : pc[t] \in Working \/ pc'[t] \in Working => pc'[t] = pc[t]
<1>0. <<i, r>> \in Threads
  BY DEF Threads
<1>1. ASSUME NEW to, Goto(i, r, to), to \notin Working, pc[<<i, r>>] \notin Working
      PROVE  \A t \in Threads : pc[t] \in Working \/ pc'[t] \in Working => pc'[t] = pc[t]
  BY <1>0, <1>1 DEF Goto, ThreadsInv
<1>2. CASE CheckValid(i, r)
  <2>1. \E to \in {"write", "ended"} : Goto(i, r, to) /\ pc[<<i, r>>] = "check"
    BY <1>2 DEF CheckValid
  <2>2. UNCHANGED <<owner, conns, main, sockets, found>>
    BY <1>2 DEF CheckValid, kernel, shared
  <2> QED BY <1>1, <2>1, <2>2 DEF Working
<1>3. CASE Write(i, r)
  <2>1. \E to \in {"find", "check"} : Goto(i, r, to) /\ pc[<<i, r>>] = "write"
    BY <1>3 DEF Write
  <2>2. UNCHANGED <<owner, conns, main, sockets, found>>
    BY <1>3 DEF Write, kernel, shared
  <2> QED BY <1>1, <2>1, <2>2 DEF Working
<1>4. CASE Find(i, r)
  <2>1. Goto(i, r, "close") => pc'[<<i, r>>] = "close"
    BY <1>0 DEF Goto, ThreadsInv
  <2>2. Goto(i, r, "look") /\ UNCHANGED found /\ pc[<<i, r>>] = "find"
    BY <1>4, <2>1 DEF Find
  <2>3. UNCHANGED <<owner, conns, main, sockets>>
    BY <1>4 DEF Find, kernel, shared
  <2> QED BY <1>1, <2>2, <2>3 DEF Working
<1>5. CASE LookUp(i, r)
  <2>1. Goto(i, r, "ended") /\ pc[<<i, r>>] = "look"
    BY <1>5 DEF LookUp
  <2>2. UNCHANGED <<owner, conns, main, sockets, found>>
    BY <1>5 DEF LookUp, kernel
  <2> QED BY <1>1, <2>1, <2>2 DEF Working
<1>6. CASE r = "recv" /\ Read(i)
  <2>1. Goto(i, r, "peek") /\ pc[<<i, r>>] = "read"
    BY <1>6 DEF Read
  <2>2. UNCHANGED <<owner, conns, main, sockets, found>>
    BY <1>6 DEF Read, kernel, shared
  <2> QED BY <1>1, <2>1, <2>2 DEF Working
<1>7. CASE r = "recv" /\ Peek(i)
  <2>1. \E to \in {"find", "read", "ended"} : Goto(i, r, to) /\ pc[<<i, r>>] = "peek"
    BY <1>7 DEF Peek
  <2>2. UNCHANGED <<owner, conns, main, sockets, found>>
    BY <1>7 DEF Peek, kernel, shared
  <2> QED BY <1>1, <2>1, <2>2 DEF Working
<1> QED BY <1>2, <1>3, <1>4, <1>5, <1>6, <1>7 DEF Act

LEMMA TableStep ==
  ASSUME KernelInv, ThreadsInv, TableInv, [Next]_vars, ~overlapped'
  PROVE  TableInv'
<1>1. CASE UNCHANGED vars
  BY <1>1, TableStatic DEF vars, kernel, shared, threads
<1>2. CASE Accept
  BY <1>2, TableAccept
<1>3. CASE PushBack
  BY <1>3, TablePush
<1>4. CASE StartThreads
  <2>1. UNCHANGED <<owner, conns, sockets, found>> /\ main' = "add"
    BY <1>4 DEF StartThreads, kernel, shared
  <2>2. ASSUME NEW t \in Threads, pc[t] \in Working \/ pc'[t] \in Working
        PROVE  pc'[t] = pc[t]
    <3>1. PICK i \in Ids, r \in Roles : t = <<i, r>>
      BY DEF Threads
    <3>2. pc[t] # "none" => i < Last \/ main \in {"select", "add"}
      BY <3>1 DEF ThreadsInv
    <3>3. Last \in Nat /\ Ids \subseteq Nat /\ main = "start"
      BY <1>4, AcceptedIds DEF StartThreads
    <3>4. CASE pc[t] \in Working
      <4>1. i < Last
        BY <3>2, <3>3, <3>4 DEF Working
      <4>2. i # Last
        BY <3>3, <4>1
      <4> QED BY <1>4, <3>1, <4>2 DEF StartThreads, Threads
    <3>5. CASE pc[t] \notin Working
      BY <1>4, <2>2, <3>5 DEF StartThreads, Threads, Working
    <3> QED BY <3>4, <3>5
  <2> QED BY <2>1, <2>2, TableStatic
<1>5. CASE addSocket
  BY <1>5, TableStatic DEF addSocket, kernel, threads
<1>6. ASSUME NEW i \in Ids, Dies(i) PROVE TableInv'
  BY <1>6, TableStatic DEF Dies, shared, threads
<1>7. ASSUME NEW i \in Ids, NEW r \in Roles, Act(i, r) PROVE TableInv'
  <2>1. CASE Close(i, r)
    BY <2>1, TableClose
  <2>2. CASE Erase(i, r)
    BY <2>2, TableErase
  <2>3. CASE Find(i, r) /\ pc'[<<i, r>>] = "close"
    BY <2>3, TableFind
  <2>4. CASE ~Close(i, r) /\ ~Erase(i, r) /\ ~(Find(i, r) /\ pc'[<<i, r>>] = "close")
    BY <1>7, <2>4, QuietAct, TableStatic
  <2> QED BY <2>1, <2>2, <2>3, <2>4
<1> QED BY <1>1, <1>2, <1>3, <1>4, <1>5, <1>6, <1>7, NextCases
\* The table's part holds at the start, whatever the case.
LEMMA TableInit == Init => TableInv
<1> SUFFICES ASSUME Init PROVE TableInv
  OBVIOUS
<1>1. sockets = <<>> /\ main = "select" /\ Len(sockets) = 0
  BY EmptySeq DEF Init
<1>2. \A t \in Threads : pc[t] = "none"
  BY DEF Init, Threads
<1>3. Alone /\ FoundRight
  BY <1>2 DEF Alone, FoundRight, Working, Threads
<1>4. 1..Len(sockets) = {}
  BY <1>1
<1> QED BY <1>1, <1>3, <1>4 DEF TableInv, Fresh, NoStale, NoDouble

------------------------------------------------------------------------------
(* A live connection, the first with its number *)

Live(i) == i \in alive /\ FirstOfNumber(i)

\* It is the only one with its number so far, owns it, and is in the vector.
Held(i) == /\ \A j \in 1..Last : Fd(j) = Fd(i) => j = i
           /\ owner[Fd(i)] = i
           /\ i < Last \/ main # "push" => \E k \in 1..Len(sockets) : sockets[k] = Fd(i)

\* None of its threads removes; the started ones run.
Served(i) == \A r \in Roles :
  /\ pc[<<i, r>>] \notin Removing
  /\ Started(i) /\ r \in RolesOf(conns[i].kind) =>
       pc[<<i, r>>] # "none" /\ (pc[<<i, r>>] = "ended" => i \in finished)

LiveInv == \A i \in 1..Last : Live(i) => Held(i) /\ Served(i)

LEMMA RolesOfKind == ASSUME NEW kind \in Kinds PROVE RolesOf(kind) \subseteq Roles
BY DEF RolesOf, Roles, Kinds

LEMMA LiveAccept ==
  ASSUME KernelInv, ThreadsInv, LiveInv, Accept
  PROVE  LiveInv'
<1>1. PICK fd \in Fds :
         /\ owner[fd] = 0 /\ owner' = [owner EXCEPT ![fd] = Last + 1]
         /\ Last' = Last + 1 /\ conns'[Last + 1].fd = fd
         /\ \A i \in 1..Last : conns'[i] = conns[i]
         /\ alive' = alive \cup {Last + 1}
  BY AcceptFacts
<1>2. UNCHANGED <<sockets, pc, finished>> /\ main = "select" /\ main' = "push"
  BY DEF Accept, shared, threads, ghosts
<1>3. /\ Last \in Nat /\ owner \in [Fds -> 0..Last] /\ 1..(Last + 1) = 1..Last \cup {Last + 1}
      /\ \A i \in 1..Last : Fd(i) \in Fds
  <2>1. Last \in Nat /\ owner \in [Fds -> 0..Last] /\ \A i \in 1..Last : Fd(i) \in Fds
    BY AcceptedIds DEF KernelInv
  <2> QED BY <2>1
<1>4. Last + 1 \in Ids
  <2>1. Last + 1 <= Len(arrivals) /\ Len(arrivals) \in Nat /\ 1..Len(arrivals) \subseteq Ids
    BY AcceptFacts, AcceptedIds
  <2> QED BY <1>3, <2>1
<1> SUFFICES ASSUME NEW i \in 1..(Last + 1), Live(i)' PROVE Held(i)' /\ Served(i)'
  BY <1>1 DEF LiveInv
<1>5. CASE i \in 1..Last
  <2>1. \A j \in 1..(i - 1) : j \in 1..Last
    BY <1>3, <1>5
  <2>2. Live(i)
    BY <1>1, <1>3, <1>5, <2>1 DEF Live, FirstOfNumber, Fd
  <2>3. Held(i) /\ Served(i)
    BY <1>5, <2>2 DEF LiveInv
  <2>4. Fd(i) # fd /\ conns'[i] = conns[i] /\ Fd(i) \in Fds
    BY <1>1, <1>3, <1>5, <2>3 DEF Held
  <2>5. \A j \in 1..(Last + 1) : conns'[j].fd = Fd(i) => j = i
    BY <1>1, <1>3, <2>3, <2>4 DEF Held, Fd
  <2>6. owner'[Fd(i)] = i
    BY <1>1, <1>3, <2>3, <2>4 DEF Held
  <2>7. Held(i)'
    BY <1>1, <1>2, <2>3, <2>4, <2>5, <2>6 DEF Held, Fd
  <2>8. Started(i)
    BY <1>2, <1>3, <1>5 DEF Started
  <2>9. Served(i)'
    BY <1>2, <2>3, <2>4, <2>8 DEF Served
  <2> QED BY <2>7, <2>9
<1>6. CASE i = Last + 1
  <2>1. 1..(i - 1) = 1..Last
    BY <1>3, <1>6
  <2>2. \A j \in 1..Last : conns'[j].fd # fd
    BY <1>1, <1>6, <2>1 DEF Live, FirstOfNumber, Fd
  <2>3. owner'[fd] = i
    BY <1>1, <1>3, <1>6
  <2>4. Held(i)'
    BY <1>1, <1>2, <1>3, <1>6, <2>2, <2>3 DEF Held, Fd
  <2>5. \A r \in Roles : pc[<<i, r>>] = "none"
    <3>1. i \in Ids /\ i \notin 1..Last
      BY <1>3, <1>4, <1>6
    <3> QED BY <3>1 DEF ThreadsInv
  <2>6. ~Started(i)'
    BY <1>1, <1>2, <1>3, <1>6 DEF Started
  <2>7. Served(i)'
    BY <1>2, <2>5, <2>6 DEF Served, Removing
  <2> QED BY <2>4, <2>7
<1> QED BY <1>3, <1>5, <1>6

\* FirstOfNumber looks at the connections accepted so far only.
LEMMA LiveBefore ==
  ASSUME KernelInv, UNCHANGED conns, alive' \subseteq alive
  PROVE  Last' = Last /\ \A i \in 1..Last : Live(i)' => Live(i)
BY DEF Live, FirstOfNumber, Fd, Last

LEMMA LivePush ==
  ASSUME KernelInv, ThreadsInv, TableInv, LiveInv, PushBack
  PROVE  LiveInv'
<1>1. UNCHANGED <<conns, pc, finished>> /\ main = "push" /\ main' \in {"start", "select"}
  BY DEF PushBack, threads, ghosts
<1>2. /\ Last \in Nat /\ Last > 0 /\ Len(sockets) \in Nat /\ sockets \in Seq(Fds)
      /\ owner \in [Fds -> 0..Last] /\ \A i \in 1..Last : Fd(i) \in Fds
  BY <1>1, AcceptedIds, LenProperties DEF KernelInv
<1>3. CASE Len(sockets) < Limit
  <2>1. sockets' = Append(sockets, Fd(Last)) /\ main' = "start" /\ UNCHANGED <<owner, alive>>
    BY <1>3 DEF PushBack
  <2>2. Fd(Last) \in Fds
    BY <1>2
  <2>3. /\ Len(sockets') = Len(sockets) + 1
        /\ \A k \in 1..Len(sockets) : sockets'[k] = sockets[k]
        /\ sockets'[Len(sockets) + 1] = Fd(Last)
    BY <1>2, <2>1, <2>2, AppendProperties
  <2>4. Len(sockets) + 1 \in 1..Len(sockets') /\ 1..Len(sockets) \subseteq 1..Len(sockets')
    BY <1>2, <2>3
  <2> SUFFICES ASSUME NEW i \in 1..Last, Live(i)' PROVE Held(i)' /\ Served(i)'
    BY <1>1 DEF LiveInv, Last
  <2>5. Held(i) /\ Served(i)
    BY <1>1, <2>1, LiveBefore DEF LiveInv
  <2>6. \E k \in 1..Len(sockets') : sockets'[k] = Fd(i)
    <3>1. CASE i < Last
      BY <2>3, <2>4, <2>5, <3>1 DEF Held
    <3>2. CASE ~(i < Last)
      <4>1. i = Last
        BY <1>2, <3>2
      <4> QED BY <2>3, <2>4, <4>1
    <3> QED BY <3>1, <3>2
  <2>7. Held(i)'
    BY <1>1, <2>1, <2>5, <2>6 DEF Held, Fd, Last
  <2>8. Started(i)' => Started(i)
    BY <1>1, <2>1 DEF Started, Last
  <2>9. Served(i)'
    BY <1>1, <2>5, <2>8 DEF Served
  <2> QED BY <2>7, <2>9
<1>4. CASE ~(Len(sockets) < Limit)
  <2>1. /\ owner' = [owner EXCEPT ![Fd(Last)] = 0] /\ alive' = alive \ {Last}
        /\ main' = "select" /\ UNCHANGED sockets
    BY <1>4 DEF PushBack
  <2> SUFFICES ASSUME NEW i \in 1..Last, Live(i)' PROVE Held(i)' /\ Served(i)'
    BY <1>1 DEF LiveInv, Last
  <2>2. Held(i) /\ Served(i)
    BY <1>1, <2>1, LiveBefore DEF LiveInv
  <2>3. i # Last /\ i < Last
    BY <1>2, <2>1 DEF Live
  <2>4. Fd(i) # Fd(Last) /\ Fd(i) \in Fds
    BY <1>2, <2>2, <2>3 DEF Held
  <2>5. owner'[Fd(i)] = i
    BY <1>2, <2>1, <2>2, <2>4 DEF Held
  <2>6. Held(i)'
    BY <1>1, <2>1, <2>2, <2>3, <2>5 DEF Held, Fd, Last
  <2>7. Started(i)
    BY <2>3 DEF Started
  <2>8. Served(i)'
    BY <1>1, <2>2, <2>7 DEF Served
  <2> QED BY <2>6, <2>8
<1> QED BY <1>3, <1>4

LEMMA LiveStart ==
  ASSUME KernelInv, ThreadsInv, LiveInv, StartThreads
  PROVE  LiveInv'
<1>1. UNCHANGED <<conns, owner, alive, sockets, finished>> /\ main = "start" /\ main' = "add"
  BY DEF StartThreads, kernel, shared, ghosts
<1>2. Last \in Nat /\ 1..Last \subseteq Ids /\ Ids \subseteq Nat
  BY AcceptedIds
<1> SUFFICES ASSUME NEW i \in 1..Last, Live(i)' PROVE Held(i)' /\ Served(i)'
  BY <1>1 DEF LiveInv, Last
<1>3. Held(i) /\ Served(i)
  BY <1>1, LiveBefore DEF LiveInv
<1>4. Held(i)'
  BY <1>1, <1>3 DEF Held, Fd, Last
<1>5. CASE i = Last
  <2>1. Entered(Fd(Last))
    <3>1. \E k \in 1..Len(sockets) : sockets[k] = Fd(i)
      BY <1>1, <1>3 DEF Held
    <3>2. DOMAIN sockets = 1..Len(sockets)
      BY LenProperties DEF KernelInv
    <3> QED BY <1>5, <3>1, <3>2 DEF Entered
  <2>2. pc' = [p \in Threads |->
            IF p[1] # Last \/ p[2] \notin RolesOf(conns[Last].kind) THEN pc[p]
            ELSE IF p[2] = "recv" THEN "read" ELSE "check"]
    BY <2>1 DEF StartThreads, Threads
  <2>3. ASSUME NEW r \in Roles
        PROVE  /\ pc'[<<i, r>>] \notin Removing
               /\ r \in RolesOf(conns[i].kind) => pc'[<<i, r>>] \in {"read", "check"}
    BY <1>2, <1>3, <1>5, <2>2 DEF Served, Threads, Removing
  <2> QED BY <1>1, <1>4, <2>3 DEF Served
<1>6. CASE i # Last
  <2>1. \A r \in Roles : pc'[<<i, r>>] = pc[<<i, r>>]
    BY <1>2, <1>6 DEF StartThreads, Threads
  <2>2. Started(i)' => Started(i)
    BY <1>1, <1>6 DEF Started, Last
  <2> QED BY <1>1, <1>3, <1>4, <2>1, <2>2 DEF Served
<1> QED BY <1>5, <1>6
\* A thread of a live connection never turns to remove_socket, and a file
\* thread ends only after the end flag.
LEMMA LiveGoesOn ==
  ASSUME KernelInv, ThreadsInv, LiveInv, NEW i \in Ids, NEW r \in Roles, Act(i, r),
         i \in 1..Last, Live(i)
  PROVE  \/ pc'[<<i, r>>] \in {"check", "write", "read", "peek"}
         \/ pc'[<<i, r>>] = "ended" /\ i \in finished'
<1>1. Held(i) /\ Served(i) /\ owner[Fd(i)] = i /\ i \in alive
  BY DEF LiveInv, Held, Live
<1>2. i \in Nat \ {0} /\ Last \in Nat
  BY AcceptedIds
<1>3. ~Fails(Fd(i))
  BY <1>1, <1>2 DEF Fails
<1>4. pc[<<i, r>>] \notin Removing /\ pc[<<i, r>>] # "none" /\ <<i, r>> \in Threads
  BY <1>1, ActFrame DEF Served, Threads
<1>5. Entered(Fd(i))
  <2>1. i < Last \/ main # "push"
    BY <1>2, <1>4 DEF ThreadsInv
  <2>2. DOMAIN sockets = 1..Len(sockets)
    BY LenProperties DEF KernelInv
  <2> QED BY <1>1, <2>1, <2>2 DEF Held, Entered
<1>6. ASSUME NEW to, Goto(i, r, to) PROVE pc'[<<i, r>>] = to
  BY <1>4, <1>6 DEF Goto, ThreadsInv
<1>7. CASE CheckValid(i, r)
  <2>1. Goto(i, r, "write")
    BY <1>5, <1>7 DEF CheckValid
  <2> QED BY <1>6, <2>1
<1>8. CASE Write(i, r)
  <2>1. Goto(i, r, "check")
    BY <1>3, <1>8 DEF Write
  <2> QED BY <1>6, <2>1
<1>9. CASE r = "recv" /\ Read(i)
  <2>1. Goto(i, r, "peek")
    BY <1>9 DEF Read
  <2> QED BY <1>6, <2>1
<1>10. CASE r = "recv" /\ Peek(i)
  <2>1. Goto(i, r, "read") \/ (Goto(i, r, "ended") /\ i \in finished')
    BY <1>3, <1>10 DEF Peek
  <2> QED BY <1>6, <2>1
<1>11. CASE Find(i, r) \/ Close(i, r) \/ Erase(i, r) \/ LookUp(i, r)
  BY <1>4, <1>11 DEF Find, Close, Erase, LookUp, Removing
<1> QED BY <1>7, <1>8, <1>9, <1>10, <1>11 DEF Act

LEMMA HeldAct ==
  ASSUME KernelInv, ThreadsInv, TableInv, LiveInv, NEW i \in Ids, NEW r \in Roles, Act(i, r),
         NEW j \in 1..Last, Live(j)
  PROVE  Held(j)'
<1>1. UNCHANGED <<conns, main>> /\ Last' = Last
  BY ActFrame DEF Last
<1>2. Held(j) /\ Served(j)
  BY DEF LiveInv
<1>3. pc[<<i, r>>] # "none" /\ i \in 1..Last
  BY ActFrame DEF ThreadsInv
<1>4. Fd(j) \in Fds /\ owner \in [Fds -> 0..Last]
  BY AcceptedIds DEF KernelInv
<1>5. pc[<<i, r>>] \in Working => i # j
  BY <1>2 DEF Served, Working, Removing
<1>6. i # j => Fd(i) # Fd(j)
  BY <1>2, <1>3 DEF Held
<1>7. CASE Close(i, r)
  <2>1. owner' = [owner EXCEPT ![Fd(i)] = 0] /\ UNCHANGED sockets /\ pc[<<i, r>>] \in Working
    BY <1>7, CloseFacts DEF Close, shared, Working
  <2>2. owner'[Fd(j)] = owner[Fd(j)]
    BY <1>4, <1>5, <1>6, <2>1
  <2> QED BY <1>1, <1>2, <2>1, <2>2 DEF Held, Fd
<1>8. CASE Erase(i, r)
  <2> DEFINE f == found[<<i, r>>]
  <2>1. /\ Len(sockets') = Len(sockets) - 1
        /\ f \in 1..Len(sockets) /\ sockets[f] = Fd(i)
        /\ \A k \in 1..(Len(sockets) - 1) :
             sockets'[k] = IF k < f THEN sockets[k] ELSE sockets[k + 1]
    BY <1>8, EraseFacts
  <2>2. UNCHANGED owner /\ pc[<<i, r>>] \in Working
    BY <1>8 DEF Erase, kernel, Working
  <2>3. Len(sockets) \in Nat
    BY LenProperties DEF KernelInv
  <2> HIDE DEF f
  <2>4. ASSUME NEW k \in 1..Len(sockets), sockets[k] = Fd(j)
        PROVE  \E n \in 1..Len(sockets') : sockets'[n] = Fd(j)
    <3>1. k # f
      BY <1>5, <1>6, <2>1, <2>2, <2>4
    <3>2. CASE k < f
      <4>1. k \in 1..(Len(sockets) - 1)
        BY <2>1, <2>3, <3>2
      <4> QED BY <2>1, <2>4, <3>2, <4>1
    <3>3. CASE ~(k < f)
      <4>1. k - 1 \in 1..(Len(sockets) - 1) /\ ~(k - 1 < f) /\ (k - 1) + 1 = k
        BY <2>1, <2>3, <3>1, <3>3
      <4> QED BY <2>1, <2>4, <4>1
    <3> QED BY <3>2, <3>3
  <2> QED BY <1>1, <1>2, <2>2, <2>4 DEF Held, Fd
<1>9. CASE Find(i, r) /\ pc'[<<i, r>>] = "close"
  <2>1. UNCHANGED <<owner, sockets>>
    BY <1>9 DEF Find, kernel, shared
  <2> QED BY <1>1, <1>2, <2>1 DEF Held, Fd
<1>10. CASE ~Close(i, r) /\ ~Erase(i, r) /\ ~(Find(i, r) /\ pc'[<<i, r>>] = "close")
  <2>1. UNCHANGED <<owner, sockets>>
    BY <1>10, QuietAct
  <2> QED BY <1>1, <1>2, <2>1 DEF Held, Fd
<1> QED BY <1>7, <1>8, <1>9, <1>10

LEMMA FinishedGrows ==
  ASSUME NEW i \in Ids, NEW r \in Roles, Act(i, r)
  PROVE  finished \subseteq finished'
<1>1. CASE r = "recv" /\ Peek(i)
  BY <1>1 DEF Peek
<1>2. CASE CheckValid(i, r) \/ Write(i, r) \/ LookUp(i, r) \/ (r = "recv" /\ Read(i))
  BY <1>2 DEF CheckValid, Write, LookUp, Read, ghosts
<1>3. CASE Find(i, r) \/ Close(i, r) \/ Erase(i, r)
  BY <1>3 DEF Find, Close, Erase
<1> QED BY <1>1, <1>2, <1>3 DEF Act

LEMMA ServedAct ==
  ASSUME KernelInv, ThreadsInv, LiveInv, NEW i \in Ids, NEW r \in Roles, Act(i, r),
         NEW j \in 1..Last, Live(j)
  PROVE  Served(j)'
<1>1. Served(j) /\ j \in Ids
  BY AcceptedIds DEF LiveInv
<1>2. UNCHANGED <<conns, main>> /\ Last' = Last /\ Started(j)' = Started(j)
  BY ActFrame DEF Last, Started
<1>3. finished \subseteq finished'
  BY FinishedGrows
<1>4. ASSUME NEW q \in Roles, <<j, q>> # <<i, r>>
      PROVE  pc'[<<j, q>>] = pc[<<j, q>>]
  BY <1>1, <1>4, ActFrame DEF ThreadsInv, Threads
<1>5. ASSUME NEW q \in Roles, <<j, q>> = <<i, r>>
      PROVE  \/ pc'[<<j, q>>] \in {"check", "write", "read", "peek"}
             \/ pc'[<<j, q>>] = "ended" /\ j \in finished'
  <2>1. j = i /\ q = r
    BY <1>5
  <2> QED BY <2>1, LiveGoesOn
<1> SUFFICES ASSUME NEW q \in Roles
             PROVE  /\ pc'[<<j, q>>] \notin Removing
                    /\ Started(j) /\ q \in RolesOf(conns[j].kind) =>
                         pc'[<<j, q>>] # "none" /\ (pc'[<<j, q>>] = "ended" => j \in finished')
  BY <1>2 DEF Served
<1>6. CASE <<j, q>> = <<i, r>>
  BY <1>5, <1>6 DEF Removing
<1>7. CASE <<j, q>> # <<i, r>>
  BY <1>1, <1>3, <1>4, <1>7 DEF Served
<1> QED BY <1>6, <1>7

LEMMA LiveStep ==
  ASSUME KernelInv, ThreadsInv, TableInv, LiveInv, [Next]_vars, ~overlapped'
  PROVE  LiveInv'
<1>1. ASSUME UNCHANGED <<owner, conns, sockets, pc, finished>>, alive' \subseteq alive,
             main' = main \/ (main = "add" /\ main' = "select")
      PROVE  LiveInv'
  <2> SUFFICES ASSUME NEW i \in 1..Last, Live(i)' PROVE Held(i)' /\ Served(i)'
    BY <1>1 DEF LiveInv, Last
  <2>1. Held(i) /\ Served(i)
    BY <1>1, LiveBefore DEF LiveInv
  <2>2. Held(i)'
    BY <1>1, <2>1 DEF Held, Fd, Last
  <2>3. Started(i)' => Started(i)
    BY <1>1 DEF Started, Last
  <2> QED BY <1>1, <2>1, <2>2, <2>3 DEF Served
<1>2. CASE UNCHANGED vars
  BY <1>1, <1>2 DEF vars, kernel, shared, threads, ghosts
<1>3. CASE Accept
  BY <1>3, LiveAccept
<1>4. CASE PushBack
  BY <1>4, LivePush
<1>5. CASE StartThreads
  BY <1>5, LiveStart
<1>6. CASE addSocket
  BY <1>1, <1>6 DEF addSocket, kernel, threads, ghosts
<1>7. ASSUME NEW i \in Ids, Dies(i) PROVE LiveInv'
  <2>1. alive' \subseteq alive /\ UNCHANGED <<owner, conns, main, sockets, pc, finished>>
    BY <1>7 DEF Dies, shared, threads, ghosts
  <2> QED BY <1>1, <2>1
<1>8. ASSUME NEW i \in Ids, NEW r \in Roles, Act(i, r) PROVE LiveInv'
  <2>1. UNCHANGED <<conns, alive>>
    BY <1>8, ActFrame
  <2> SUFFICES ASSUME NEW j \in 1..Last, Live(j)' PROVE Held(j)' /\ Served(j)'
    BY <2>1 DEF LiveInv, Last
  <2>2. Live(j)
    BY <2>1, LiveBefore
  <2> QED BY <1>8, <2>2, HeldAct, ServedAct
<1> QED BY <1>2, <1>3, <1>4, <1>5, <1>6, <1>7, <1>8, NextCases

------------------------------------------------------------------------------
(* The theorems *)

\* The inductive invariant.
IInv == KernelInv /\ ThreadsInv /\ (~overlapped => TableInv /\ LiveInv)

LEMMA IInvInit == Init => IInv
<1>1. Init => LiveInv
  BY DEF Init, LiveInv, Live
<1> QED BY <1>1, KernelInvInit, ThreadsInvInit, TableInit DEF IInv

\* Once two removals have overlapped the processes stop, so a step that ends
\* without an overlap began without one.
LEMMA StillApart == [Next]_vars /\ ~overlapped' => ~overlapped
<1>1. CASE UNCHANGED vars
  BY <1>1, Zenon DEF vars, ghosts
<1>2. CASE Next
  BY <1>2, Zenon DEF Next, Camera, Main, Thread
<1> QED BY <1>1, <1>2

LEMMA IInvStep == IInv /\ [Next]_vars => IInv'
<1> SUFFICES ASSUME IInv, [Next]_vars PROVE IInv'
  OBVIOUS
<1>1. KernelInv /\ ThreadsInv
  BY DEF IInv
<1>2. KernelInv'
  BY <1>1, KernelInvStep
<1>3. ThreadsInv'
  BY <1>1, ThreadsInvStep
<1>4. ASSUME ~overlapped' PROVE TableInv' /\ LiveInv'
  <2>1. TableInv /\ LiveInv
    BY <1>4, StillApart, Zenon DEF IInv
  <2> QED BY <1>1, <1>4, <2>1, TableStep, LiveStep
<1> QED BY <1>2, <1>3, <1>4, Zenon DEF IInv

LEMMA IInvHolds == Spec => []IInv
<1> QED BY IInvInit, IInvStep, PTL DEF Spec

\* A connection that works is not closed by the server, nor taken out of
\* sockets, while removals do not overlap.
THEOREM LiveIsKept == Spec => []KeepsLive
<1>1. IInv => KeepsLive
  <2> SUFFICES ASSUME IInv, ~overlapped, NEW i \in alive, FirstOfNumber(i)
               PROVE  owner[Fd(i)] = i /\ (Started(i) => Entered(Fd(i)))
    BY DEF KeepsLive
  <2>1. KernelInv /\ LiveInv
    BY Zenon DEF IInv
  <2>2. i \in 1..Last /\ Live(i)
    BY <2>1 DEF KernelInv, Live
  <2>3. Held(i)
    BY <2>1, <2>2 DEF LiveInv
  <2>4. DOMAIN sockets = 1..Len(sockets)
    BY <2>1, LenProperties DEF KernelInv
  <2> QED BY <2>3, <2>4 DEF Held, Started, Entered
<1> QED BY <1>1, IInvHolds, PTL

\* Its threads go on, the file thread until the camera says it is done.
THEOREM LiveKeepsThreads == Spec => []LiveIsServed
<1>1. IInv => LiveIsServed
  <2> SUFFICES ASSUME IInv, ~overlapped, NEW i \in alive, NEW r \in Roles,
                      FirstOfNumber(i), Started(i), r \in RolesOf(conns[i].kind)
               PROVE  /\ pc[<<i, r>>] \notin Removing \cup {"none"}
                      /\ pc[<<i, r>>] = "ended" => i \in finished
    BY DEF LiveIsServed
  <2>1. KernelInv /\ LiveInv
    BY Zenon DEF IInv
  <2>2. i \in 1..Last /\ Live(i)
    BY <2>1 DEF KernelInv, Live
  <2>3. Served(i)
    BY <2>1, <2>2 DEF LiveInv
  <2> QED BY <2>3 DEF Served
<1> QED BY <1>1, IInvHolds, PTL

\* A closed number is in sockets only while a removal is about to erase it, so
\* the next select does not fail.
THEOREM SelectRuns == Spec => []SelectCanRun
<1>1. IInv => SelectCanRun
  <2> SUFFICES ASSUME IInv, ~overlapped, NEW k \in DOMAIN sockets, owner[sockets[k]] = 0
               PROVE  \E t \in Ids \X Roles : pc[t] = "erase" /\ found[t] = k
    BY DEF SelectCanRun
  <2>1. KernelInv /\ TableInv
    BY Zenon DEF IInv
  <2>2. k \in 1..Len(sockets)
    BY <2>1, LenProperties DEF KernelInv
  <2> QED BY <2>1, <2>2 DEF TableInv, NoStale, Erasing, Threads
<1> QED BY <1>1, IInvHolds, PTL
------------------------------------------------------------------------------
(* Types of the rest: the addresses, the ghosts *)

MapInv ==
  /\ DOMAIN ip_to_connection \subseteq Cams \cup {"Unknown"}
  /\ \A a \in DOMAIN ip_to_connection : ip_to_connection[a] \in [Kinds -> Fds \cup {-1, 0}]
  /\ finished \subseteq Ids

Entries == [Kinds -> Fds \cup {-1, 0}]

LEMMA ClientIP ==
  ASSUME KernelInv, NEW fd \in Fds
  PROVE  getClientIP(fd) \subseteq Cams \cup {"Unknown"}
<1>1. owner[fd] # 0 => owner[fd] \in 1..Last
  BY AcceptedIds DEF KernelInv
<1> QED BY <1>1, AcceptedIds DEF getClientIP

LEMMA MapAdd ==
  ASSUME KernelInv, MapInv, addSocket
  PROVE  MapInv'
<1>1. main = "add" /\ Last \in 1..Last
  BY AcceptedIds DEF addSocket, KernelInv
<1>2. Fd(Last) \in Fds /\ conns[Last].kind \in Kinds
  BY <1>1, AcceptedIds
<1>3. PICK ip \in getClientIP(Fd(Last)) :
        ip_to_connection' =
          [a \in DOMAIN ip_to_connection \cup {ip} |->
             IF a = ip
             THEN [(IF ip \in DOMAIN ip_to_connection THEN ip_to_connection[ip] ELSE NewEntry)
                     EXCEPT ![conns[Last].kind] = Fd(Last)]
             ELSE ip_to_connection[a]]
  BY DEF addSocket
<1>4. ip \in Cams \cup {"Unknown"}
  BY <1>2, ClientIP
<1> DEFINE entry == IF ip \in DOMAIN ip_to_connection THEN ip_to_connection[ip] ELSE NewEntry
<1>5. entry \in Entries
  BY DEF MapInv, Entries, NewEntry
<1>6. [entry EXCEPT ![conns[Last].kind] = Fd(Last)] \in Entries
  BY <1>2, <1>5 DEF Entries
<1>7. \A a \in DOMAIN ip_to_connection : ip_to_connection[a] \in Entries
  BY DEF MapInv, Entries
<1>8. UNCHANGED finished
  BY DEF addSocket, ghosts
<1> HIDE DEF entry
<1>9. ip_to_connection' = [a \in DOMAIN ip_to_connection \cup {ip} |->
             IF a = ip THEN [entry EXCEPT ![conns[Last].kind] = Fd(Last)] ELSE ip_to_connection[a]]
  BY <1>3 DEF entry
<1>10. DOMAIN ip_to_connection' = DOMAIN ip_to_connection \cup {ip}
  BY <1>9
<1>11. \A a \in DOMAIN ip_to_connection' : ip_to_connection'[a] \in Entries
  BY <1>6, <1>7, <1>9, <1>10
<1> QED BY <1>4, <1>8, <1>10, <1>11 DEF MapInv, Entries

LEMMA MapLookUp ==
  ASSUME KernelInv, MapInv, NEW i \in Ids, NEW r \in Roles, LookUp(i, r)
  PROVE  MapInv'
<1>1. PICK ip \in getClientIP(Fd(i)) :
       ip_to_connection' =
         IF ip \notin DOMAIN ip_to_connection THEN ip_to_connection
         ELSE IF \A kind \in Kinds : Cleared(ip_to_connection[ip], Fd(i))[kind] = -1
              THEN [a \in DOMAIN ip_to_connection \ {ip} |-> ip_to_connection[a]]
              ELSE [ip_to_connection EXCEPT ![ip] = Cleared(ip_to_connection[ip], Fd(i))]
  BY DEF LookUp
<1>2. UNCHANGED finished
  BY DEF LookUp, ghosts
<1>3. ip \in DOMAIN ip_to_connection => Cleared(ip_to_connection[ip], Fd(i)) \in Entries
  BY DEF MapInv, Cleared, Entries
<1>4. \A a \in DOMAIN ip_to_connection : ip_to_connection[a] \in Entries
  BY DEF MapInv, Entries
<1>5. CASE ip_to_connection' = ip_to_connection
  BY <1>2, <1>5 DEF MapInv
<1>6. CASE ip_to_connection' = [a \in DOMAIN ip_to_connection \ {ip} |-> ip_to_connection[a]]
  BY <1>2, <1>6 DEF MapInv
<1>7. CASE ip \in DOMAIN ip_to_connection
           /\ ip_to_connection' = [ip_to_connection EXCEPT ![ip] = Cleared(ip_to_connection[ip], Fd(i))]
  <2> DEFINE new == Cleared(ip_to_connection[ip], Fd(i))
  <2>1. new \in Entries /\ ip_to_connection' = [ip_to_connection EXCEPT ![ip] = new]
    BY <1>3, <1>7
  <2> HIDE DEF new
  <2>2. DOMAIN ip_to_connection' = DOMAIN ip_to_connection
    BY <2>1
  <2>3. \A a \in DOMAIN ip_to_connection :
          ip_to_connection'[a] = IF a = ip THEN new ELSE ip_to_connection[a]
    BY <2>1
  <2> QED BY <1>2, <1>4, <2>1, <2>2, <2>3 DEF MapInv, Entries
<1> QED BY <1>1, <1>5, <1>6, <1>7

LEMMA MapInvStep == KernelInv /\ MapInv /\ silent \subseteq Ids /\ [Next]_vars => MapInv'
<1> SUFFICES ASSUME KernelInv, MapInv, silent \subseteq Ids, [Next]_vars PROVE MapInv'
  OBVIOUS
<1>1. ASSUME UNCHANGED <<ip_to_connection, finished>> PROVE MapInv'
  BY <1>1 DEF MapInv
<1>2. CASE UNCHANGED vars
  BY <1>1, <1>2 DEF vars, shared, ghosts
<1>3. CASE Accept \/ PushBack \/ StartThreads
  BY <1>1, <1>3 DEF Accept, PushBack, StartThreads, shared, ghosts
<1>4. CASE addSocket
  BY <1>4, MapAdd
<1>5. ASSUME NEW i \in Ids, Dies(i) PROVE MapInv'
  BY <1>1, <1>5 DEF Dies, shared, ghosts
<1>6. ASSUME NEW i \in Ids, NEW r \in Roles, Act(i, r) PROVE MapInv'
  <2>1. CASE LookUp(i, r)
    BY <2>1, MapLookUp
  <2>2. CASE r = "recv" /\ Peek(i)
    <3>1. UNCHANGED ip_to_connection
      BY <2>2 DEF Peek, shared
    <3>2. finished' = finished \/ (~Fails(Fd(i)) /\ finished' = finished \cup {owner[Fd(i)], i})
      BY <2>2 DEF Peek
    <3>3. ~Fails(Fd(i)) => owner[Fd(i)] \in Ids
      BY AcceptedIds DEF Fails, KernelInv
    <3> QED BY <3>1, <3>2, <3>3 DEF MapInv
  <2>3. CASE CheckValid(i, r) \/ Write(i, r) \/ (r = "recv" /\ Read(i))
    BY <1>1, <2>3 DEF CheckValid, Write, Read, shared, ghosts
  <2>4. CASE Find(i, r) \/ Close(i, r) \/ Erase(i, r)
    BY <1>1, <2>4 DEF Find, Close, Erase, shared
  <2> QED BY <1>6, <2>1, <2>2, <2>3, <2>4 DEF Act
<1> QED BY <1>2, <1>3, <1>4, <1>5, <1>6, NextCases

\* The flag is a Boolean.
LEMMA FlagStep == overlapped \in BOOLEAN /\ [Next]_vars => overlapped' \in BOOLEAN
<1> SUFFICES ASSUME overlapped \in BOOLEAN, [Next]_vars PROVE overlapped' \in BOOLEAN
  OBVIOUS
<1>1. ASSUME UNCHANGED overlapped PROVE overlapped' \in BOOLEAN
  BY <1>1, Zenon
<1>2. CASE UNCHANGED vars
  BY <1>1, <1>2, Zenon DEF vars, ghosts
<1>3. CASE Accept \/ PushBack \/ StartThreads \/ addSocket
  BY <1>1, <1>3, Zenon DEF Accept, PushBack, StartThreads, addSocket, ghosts
<1>4. ASSUME NEW i \in Ids, Dies(i) PROVE overlapped' \in BOOLEAN
  BY <1>1, <1>4, Zenon DEF Dies, ghosts
<1>5. ASSUME NEW i \in Ids, NEW r \in Roles, Act(i, r) PROVE overlapped' \in BOOLEAN
  <2>1. CASE Find(i, r) \/ Close(i, r) \/ Erase(i, r)
    BY <2>1, Zenon DEF Find, Close, Erase
  <2>2. CASE CheckValid(i, r) \/ Write(i, r) \/ LookUp(i, r) \/ (r = "recv" /\ Read(i))
    BY <1>1, <2>2, Zenon DEF CheckValid, Write, LookUp, Read, ghosts
  <2>3. CASE r = "recv" /\ Peek(i)
    BY <1>1, <2>3, Zenon DEF Peek
  <2> QED BY <1>5, <2>1, <2>2, <2>3, Zenon DEF Act
<1> QED BY <1>2, <1>3, <1>4, <1>5, NextCases, Zenon

\* Only a connection becomes silent.
LEMMA SilentStep == silent \subseteq Ids /\ [Next]_vars => silent' \subseteq Ids
<1> SUFFICES ASSUME silent \subseteq Ids, [Next]_vars PROVE silent' \subseteq silent \cup Ids
  OBVIOUS
<1>1. CASE UNCHANGED vars
  BY <1>1, Zenon DEF vars, kernel
<1>2. CASE Accept \/ StartThreads \/ addSocket
  BY <1>2, Zenon DEF Accept, StartThreads, addSocket, kernel
<1>3. CASE PushBack
  BY <1>3 DEF PushBack
<1>4. ASSUME NEW i \in Ids, Dies(i) PROVE silent' \subseteq silent \cup Ids
  BY <1>4 DEF Dies
<1>5. ASSUME NEW i \in Ids, NEW r \in Roles, Act(i, r) PROVE silent' \subseteq silent \cup Ids
  <2>1. CASE Write(i, r)
    BY <2>1 DEF Write
  <2>2. CASE CheckValid(i, r) \/ Find(i, r) \/ Close(i, r) \/ Erase(i, r) \/ LookUp(i, r)
    BY <2>2, Zenon DEF CheckValid, Find, Close, Erase, LookUp, kernel
  <2>3. CASE (r = "recv" /\ Read(i)) \/ (r = "recv" /\ Peek(i))
    BY <2>3, Zenon DEF Read, Peek, kernel
  <2> QED BY <1>5, <2>1, <2>2, <2>3 DEF Act
<1> QED BY <1>1, <1>2, <1>3, <1>4, <1>5, NextCases

\* Types of the kernel's table, the vector, the map and the threads.
THEOREM TypeCorrect == Spec => []TypeOK
<1> DEFINE Flag == overlapped \in BOOLEAN /\ silent \subseteq Ids
<1>1. Init => MapInv /\ Flag
  <2>1. Init => MapInv
    BY DEF Init, MapInv
  <2>2. Init => Flag
    BY Zenon DEF Init
  <2> QED BY <2>1, <2>2
<1>2. IInv /\ MapInv /\ Flag /\ [Next]_vars => MapInv' /\ Flag'
  <2>1. IInv => KernelInv
    BY Zenon DEF IInv
  <2> QED BY <2>1, MapInvStep, FlagStep, SilentStep, Zenon
<1>3. IInv /\ MapInv /\ Flag => TypeOK
  <2> SUFFICES ASSUME IInv, MapInv, Flag PROVE TypeOK
    OBVIOUS
  <2>1. KernelInv /\ ThreadsInv
    BY Zenon DEF IInv
  <2>2. 1..Last \subseteq Ids
    BY <2>1, AcceptedIds
  <2>3. owner \in [Fds -> Ids \cup {0}] /\ alive \subseteq Ids /\ silent \subseteq Ids
    <3>1. 0..Last \subseteq Ids \cup {0}
      BY <2>1, <2>2, AcceptedIds
    <3> QED BY <2>1, <2>2, <3>1 DEF KernelInv
  <2>4. /\ arrivals \in Arrivals /\ conns \in Seq([cam : Cams, kind : Kinds, fd : Fds])
        /\ Last <= Len(arrivals) /\ main \in {"select", "push", "start", "add"}
        /\ sockets \in Seq(Fds) /\ Len(sockets) <= Limit
    BY <2>1 DEF KernelInv, Connection
  <2>5. /\ pc \in [Ids \X Roles -> {"none", "check", "write", "read", "peek", "ended"} \cup Removing]
        /\ found \in [Ids \X Roles -> 0..Limit]
    BY <2>1 DEF ThreadsInv, Threads, States
  <2>6. /\ DOMAIN ip_to_connection \subseteq Cams \cup {"Unknown"}
        /\ \A a \in DOMAIN ip_to_connection : ip_to_connection[a] \in [Kinds -> Fds \cup {-1, 0}]
        /\ finished \subseteq Ids
    BY DEF MapInv
  <2> QED BY <2>3, <2>4, <2>5, <2>6, Zenon DEF TypeOK
<1> HIDE DEF Flag
<1> QED BY <1>1, <1>2, <1>3, IInvHolds, PTL DEF Spec

==============================================================================
