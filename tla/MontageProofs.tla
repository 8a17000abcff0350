---------------------------- MODULE MontageProofs ----------------------------
(***************************************************************************)
(* Invariance proofs for Montage, for any set of cameras and of timers.    *)
(* TriggerHasOwner is inductive given TypeOK.  ExclusiveUntilTimeout is    *)
(* not: what keeps a second trigger away is that montage_triggered stays   *)
(* set while somebody owns it, and that no timer runs a montage before the *)
(* first timeout.                                                          *)
(***************************************************************************)
EXTENDS Montage, TLAPS

\* The inductive strengthening of ExclusiveUntilTimeout: of its first part, and
\* its second part.
OneOwner ==
  ~timedOut =>
    /\ \A t \in Timers : pc[t] \in {"off", "waiting", "expired"}
    /\ \A p, q \in Claimed : p = q
    /\ Claimed # {} => montage_triggered
OwnList == ~timedOut => \A th \in Threads : pc[th] = "compose" => image_paths \subseteq {th}

------------------------------------------------------------------------------
\* Every step leaves every variable in its type: Montage never puts a thread at
\* a label of another function.
LEMMA TypeStep == TypeOK /\ [Next]_vars => TypeOK'
<1> SUFFICES ASSUME TypeOK, [Next]_vars PROVE TypeOK'
  OBVIOUS
<1> USE ClientsTimersDisjoint, SockSizesNat
    DEF TypeOK, Threads, ClientPC, TimerPC, MontagePC, BeforeScan, Working,
        Resetting, GoTo, Return, AfterStart, flags, ghosts
<1>1. ASSUME NEW size \in SockSizes, set_scok_size(size) PROVE TypeOK'
  BY <1>1 DEF set_scok_size
<1>2. ASSUME NEW c \in Clients, Receive(c) PROVE TypeOK'
  <2>1. CASE OpenFile(c)
    BY <2>1 DEF OpenFile
  <2>2. CASE FileVerified(c)
    BY <2>2 DEF FileVerified
  <2>3. CASE FileNotCounted(c)
    BY <2>3 DEF FileNotCounted
  <2>4. CASE CloseFile(c)
    BY <2>4 DEF CloseFile
  <2> QED BY <1>2, <2>1, <2>2, <2>3, <2>4 DEF Receive
<1>3. ASSUME NEW c \in Clients, Mark(c) PROVE TypeOK'
  <2>1. CASE MarkEnter(c)
    BY <2>1 DEF MarkEnter
  <2>2. CASE MarkLocked(c)
    BY <2>2 DEF MarkLocked
  <2>3. CASE StartTimerCheck(c)
    BY <2>3 DEF StartTimerCheck
  <2>4. ASSUME NEW t \in Timers, SpawnTimer(c, t) PROVE TypeOK'
    BY <2>4 DEF SpawnTimer
  <2> QED BY <1>3, <2>1, <2>2, <2>3, <2>4 DEF Mark
<1>4. ASSUME NEW t \in Timers, Timer(t) PROVE TypeOK'
  <2>1. CASE TimerStops(t)
    BY <2>1 DEF TimerStops
  <2>2. CASE TimerExpires(t)
    BY <2>2 DEF TimerExpires
  <2>3. CASE TimerRechecks(t)
    BY <2>3 DEF TimerRechecks
  <2>4. CASE TimerClaims(t)
    BY <2>4 DEF TimerClaims
  <2> QED BY <1>4, <2>1, <2>2, <2>3, <2>4 DEF Timer
<1>5. ASSUME NEW th \in Threads, montage_jpeg(th) PROVE TypeOK'
  <2>1. CASE MontageEnter(th)
    BY <2>1 DEF MontageEnter
  <2>2. CASE ScanFolder(th)
    BY <2>2 DEF ScanFolder
  <2>3. CASE FolderMissing(th)
    BY <2>3 DEF FolderMissing
  <2>4. CASE Compose(th)
    BY <2>4 DEF Compose
  <2>5. CASE Forget(th)
    BY <2>5 DEF Forget
  <2> QED BY <1>5, <2>1, <2>2, <2>3, <2>4, <2>5 DEF montage_jpeg
<1>6. ASSUME NEW th \in Threads, reset_state(th) PROVE TypeOK'
  <2>1. CASE ResetBegins(th)
    BY <2>1 DEF ResetBegins
  <2>2. CASE ResetNotifies(th)
    BY <2>2 DEF ResetNotifies
  <2>3. CASE ResetClears(th)
    BY <2>3 DEF ResetClears
  <2>4. CASE ResetEnds(th)
    BY <2>4 DEF ResetEnds
  <2> QED BY <1>6, <2>1, <2>2, <2>3, <2>4 DEF reset_state
<1>7. CASE UNCHANGED vars
  BY <1>7 DEF vars
<1> QED
  BY <1>1, <1>2, <1>3, <1>4, <1>5, <1>6, <1>7 DEF Next

\* Type correctness of the coordinator: a thread is only ever at a label of
\* its own code, and the counters and sets keep their ranges.
THEOREM TypeCorrect == Spec => []TypeOK
<1>1. ASSUME Init PROVE TypeOK
  <2>1. \A t \in Timers : t \notin Clients
    BY ClientsTimersDisjoint
  <2>2. pc \in [Threads -> {"idle", "off"}]
    BY <1>1 DEF Init
  <2>3. \A c \in Clients : pc[c] = "idle"
    BY <1>1 DEF Init, Threads
  <2>4. \A t \in Timers : pc[t] = "off"
    BY <1>1, <2>1 DEF Init, Threads
  <2>5. pc \in [Threads -> ClientPC \cup TimerPC \cup MontagePC]
    BY <2>2 DEF ClientPC, TimerPC
  <2>6. \A c \in Clients : pc[c] \in ClientPC \cup MontagePC
    BY <2>3 DEF ClientPC
  <2>7. \A t \in Timers : pc[t] \in TimerPC \cup MontagePC
    BY <2>4 DEF TimerPC
  <2>8. sock_size \in 0..8
    BY <1>1 DEF Init
  <2> QED
    BY <1>1, <2>5, <2>6, <2>7, <2>8, Zenon DEF Init, TypeOK
<1> QED
  BY <1>1, TypeStep, PTL DEF Spec

------------------------------------------------------------------------------
\* Every step keeps an owner for a montage_triggered that is set.
LEMMA OwnerStep ==
  TypeOK /\ TriggerHasOwner /\ [Next]_vars => TriggerHasOwner'
<1> SUFFICES ASSUME TypeOK, TriggerHasOwner, [Next]_vars PROVE TriggerHasOwner'
  OBVIOUS
<1> USE ClientsTimersDisjoint
    DEF TypeOK, TriggerHasOwner, Claimed, Threads, BeforeScan, Working,
        Resetting, GoTo, Return, AfterStart, flags, ghosts
<1>1. ASSUME NEW size \in SockSizes, set_scok_size(size) PROVE TriggerHasOwner'
  BY <1>1 DEF set_scok_size
<1>2. ASSUME NEW c \in Clients, Receive(c) PROVE TriggerHasOwner'
  BY <1>2 DEF Receive, OpenFile, FileVerified, FileNotCounted, CloseFile
<1>3. ASSUME NEW c \in Clients, Mark(c) PROVE TriggerHasOwner'
  <2>1. CASE MarkEnter(c)
    BY <2>1 DEF MarkEnter
  <2>2. CASE MarkLocked(c)
    BY <2>2 DEF MarkLocked
  <2>3. CASE StartTimerCheck(c)
    BY <2>3 DEF StartTimerCheck
  <2>4. ASSUME NEW t \in Timers, SpawnTimer(c, t) PROVE TriggerHasOwner'
    BY <2>4 DEF SpawnTimer
  <2> QED BY <1>3, <2>1, <2>2, <2>3, <2>4 DEF Mark
<1>4. ASSUME NEW t \in Timers, Timer(t) PROVE TriggerHasOwner'
  BY <1>4 DEF Timer, TimerStops, TimerExpires, TimerRechecks, TimerClaims
<1>5. ASSUME NEW th \in Threads, montage_jpeg(th) PROVE TriggerHasOwner'
  <2>1. CASE MontageEnter(th)
    BY <2>1 DEF MontageEnter
  <2>2. CASE ScanFolder(th)
    BY <2>2 DEF ScanFolder
  <2>3. CASE FolderMissing(th)
    BY <2>3 DEF FolderMissing
  <2>4. CASE Compose(th)
    BY <2>4 DEF Compose
  <2>5. CASE Forget(th)
    BY <2>5 DEF Forget
  <2> QED BY <1>5, <2>1, <2>2, <2>3, <2>4, <2>5 DEF montage_jpeg
<1>6. ASSUME NEW th \in Threads, reset_state(th) PROVE TriggerHasOwner'
  BY <1>6 DEF reset_state, ResetBegins, ResetNotifies, ResetClears, ResetEnds
<1>7. CASE UNCHANGED vars
  BY <1>7 DEF vars
<1> QED
  BY <1>1, <1>2, <1>3, <1>4, <1>5, <1>6, <1>7 DEF Next

\* The coordinator is never wedged by a lost trigger: montage_triggered stays
\* set with no thread to clear it only after montage_jpeg returned early.
THEOREM TriggerNeverOrphaned == Spec => []TriggerHasOwner
<1>1. Init => TriggerHasOwner
  BY DEF Init, TriggerHasOwner
<1> QED
  BY <1>1, OwnerStep, TypeCorrect, PTL DEF Spec

------------------------------------------------------------------------------
\* Every step keeps OneOwner.
LEMMA OneOwnerStep == TypeOK /\ OneOwner /\ [Next]_vars => OneOwner'
<1> SUFFICES ASSUME TypeOK, OneOwner, [Next]_vars PROVE OneOwner'
  OBVIOUS
<1> USE ClientsTimersDisjoint
    DEF TypeOK, OneOwner, Claimed, Threads, BeforeScan, Working,
        Resetting, GoTo, Return, AfterStart, flags, ghosts
<1>1. ASSUME NEW size \in SockSizes, set_scok_size(size) PROVE OneOwner'
  BY <1>1 DEF set_scok_size
<1>2. ASSUME NEW c \in Clients, Receive(c) PROVE OneOwner'
  BY <1>2 DEF Receive, OpenFile, FileVerified, FileNotCounted, CloseFile
<1>3. ASSUME NEW c \in Clients, Mark(c) PROVE OneOwner'
  <2>1. CASE MarkEnter(c)
    BY <2>1 DEF MarkEnter
  <2>2. CASE MarkLocked(c)
    \* The completion that fills a round finds no owner; any other one owns
    \* nothing.
    <3>1. CASE RoundIsFull(completed_clients \cup {c})
      <4>1. ~timedOut => Claimed' \subseteq {c}
        BY <2>2, <3>1 DEF MarkLocked, RoundIsFull
      <4>2. UNCHANGED timedOut /\ montage_triggered'
        BY <2>2, <3>1 DEF MarkLocked
      <4>3. \A t \in Timers : pc'[t] = pc[t]
        BY <2>2 DEF MarkLocked
      <4> HIDE DEF Claimed
      <4> QED BY <4>1, <4>2, <4>3
    <3>2. CASE ~RoundIsFull(completed_clients \cup {c})
      <4>1. Claimed' \subseteq Claimed
        BY <2>2, <3>2 DEF MarkLocked
      <4> QED
        BY <2>2, <3>2, <4>1 DEF MarkLocked
    <3> QED BY <3>1, <3>2
  <2>3. CASE StartTimerCheck(c)
    BY <2>3 DEF StartTimerCheck
  <2>4. ASSUME NEW t \in Timers, SpawnTimer(c, t) PROVE OneOwner'
    <3>1. Claimed' \subseteq Claimed
      BY <2>4 DEF SpawnTimer
    <3>2. \A u \in Timers : pc'[u] \in {pc[u], "waiting"}
      BY <2>4 DEF SpawnTimer
    <3>3. UNCHANGED <<timedOut, montage_triggered>>
      BY <2>4 DEF SpawnTimer
    <3> HIDE DEF Claimed
    <3> QED BY <3>1, <3>2, <3>3
  <2> QED BY <1>3, <2>1, <2>2, <2>3, <2>4 DEF Mark
<1>4. ASSUME NEW t \in Timers, Timer(t) PROVE OneOwner'
  <2>1. CASE TimerStops(t)
    BY <2>1 DEF TimerStops
  <2>2. CASE TimerExpires(t)
    BY <2>2 DEF TimerExpires
  <2>3. CASE TimerRechecks(t)
    \* Either the timer stops, or it goes on to claim: then it has timed out.
    <3>1. UNCHANGED montage_triggered
          /\ Claimed' \subseteq Claimed
          /\ (~(timedOut') => ~timedOut /\ \A u \in Timers : pc'[u] \in {pc[u], "off"})
      BY <2>3 DEF TimerRechecks
    <3> HIDE DEF Claimed
    <3> QED BY <3>1
  <2>4. CASE TimerClaims(t)
    BY <2>4 DEF TimerClaims
  <2> QED BY <1>4, <2>1, <2>2, <2>3, <2>4 DEF Timer
<1>5. ASSUME NEW th \in Threads, montage_jpeg(th) PROVE OneOwner'
  <2>1. Claimed' \subseteq Claimed /\ UNCHANGED <<timedOut, montage_triggered>>
    BY <1>5 DEF montage_jpeg, MontageEnter, ScanFolder, FolderMissing, Compose, Forget
  <2>2. ~timedOut => th \in Clients
    BY <1>5 DEF montage_jpeg, MontageEnter, ScanFolder, FolderMissing, Compose, Forget
  <2>3. ~timedOut => \A t \in Timers : pc'[t] = pc[t]
    BY <1>5, <2>2 DEF montage_jpeg, MontageEnter, ScanFolder, FolderMissing, Compose, Forget
  <2> HIDE DEF Claimed
  <2> QED BY <2>1, <2>3
<1>6. ASSUME NEW th \in Threads, reset_state(th) PROVE OneOwner'
  <2>1. Claimed' \subseteq Claimed /\ UNCHANGED timedOut
    BY <1>6 DEF reset_state, ResetBegins, ResetNotifies, ResetClears, ResetEnds
  <2>2. ~timedOut => \A t \in Timers : pc'[t] = pc[t]
    BY <1>6 DEF reset_state, ResetBegins, ResetNotifies, ResetClears, ResetEnds
  <2>3. ~timedOut /\ Claimed' # {} => montage_triggered'
    BY <1>6 DEF reset_state, ResetBegins, ResetNotifies, ResetClears, ResetEnds
  <2> QED BY <2>1, <2>2, <2>3
<1>7. CASE UNCHANGED vars
  BY <1>7 DEF vars
<1> QED
  BY <1>1, <1>2, <1>3, <1>4, <1>5, <1>6, <1>7 DEF Next

\* Only ScanFolder fills the list, and then its thread is the one that owns the
\* trigger; nobody else is in the picture work.
LEMMA OwnListStep == TypeOK /\ OneOwner /\ OwnList /\ [Next]_vars => OwnList'
<1> SUFFICES ASSUME TypeOK, OneOwner, OwnList, [Next]_vars, ~(timedOut'),
                    NEW u \in Threads, pc'[u] = "compose"
             PROVE  image_paths' \subseteq {u}
  BY DEF OwnList
<1> USE DEF GoTo
<1>0. pc \in [Threads -> ClientPC \cup TimerPC \cup MontagePC]
  BY DEF TypeOK
\* A step that leaves the list and lets nobody begin the picture work.
<1>a. ASSUME image_paths' \subseteq image_paths, ~timedOut, pc[u] = "compose"
      PROVE image_paths' \subseteq {u}
  BY <1>a DEF OwnList
<1>1. ASSUME NEW size \in SockSizes, set_scok_size(size) PROVE image_paths' \subseteq {u}
  BY <1>1, <1>a DEF set_scok_size, flags, ghosts
<1>2. ASSUME NEW c \in Clients, Receive(c) PROVE image_paths' \subseteq {u}
  BY <1>0, <1>2, <1>a DEF Receive, OpenFile, FileVerified, FileNotCounted, CloseFile, flags, ghosts,
     Threads
<1>3. ASSUME NEW c \in Clients, Mark(c) PROVE image_paths' \subseteq {u}
  <2>1. UNCHANGED <<image_paths, timedOut>>
    BY <1>3 DEF Mark, MarkEnter, MarkLocked, StartTimerCheck, SpawnTimer, ghosts
  <2>2. pc[u] = "compose"
    BY <1>0, <1>3 DEF Mark, MarkEnter, MarkLocked, StartTimerCheck, SpawnTimer, AfterStart, Threads
  <2> QED BY <1>a, <2>1, <2>2
<1>4. ASSUME NEW t \in Timers, Timer(t) PROVE image_paths' \subseteq {u}
  <2>1. image_paths' = image_paths /\ ~timedOut
    <3>1. CASE TimerRechecks(t)
      <4>1. image_paths' = image_paths
        BY <3>1 DEF TimerRechecks
      <4>2. ~timedOut
        BY <3>1, Zenon DEF TimerRechecks
      <4> QED BY <4>1, <4>2
    <3>2. CASE TimerStops(t) \/ TimerExpires(t) \/ TimerClaims(t)
      BY <3>2 DEF TimerStops, TimerExpires, TimerClaims, ghosts
    <3> QED BY <1>4, <3>1, <3>2 DEF Timer
  <2>2. u # t => pc'[u] = pc[u]
    BY <1>0, <1>4 DEF Timer, TimerStops, TimerExpires, TimerRechecks, TimerClaims, Threads
  <2>3. pc'[t] # "compose"
    BY <1>0, <1>4 DEF Timer, TimerStops, TimerExpires, TimerRechecks, TimerClaims, Threads
  <2> QED BY <1>a, <2>1, <2>2, <2>3
<1>5. ASSUME NEW th \in Threads, montage_jpeg(th) PROVE image_paths' \subseteq {u}
  <2>1. CASE ScanFolder(th)
    <3>1. th \in Claimed /\ image_paths' = {th} /\ pc[th] = "scan" /\ UNCHANGED timedOut
      BY <2>1 DEF ScanFolder, Claimed, BeforeScan, ghosts
    <3>2. u = th \/ u \in Claimed
      BY <1>0, <2>1 DEF ScanFolder, Claimed, Working
    <3> QED BY <3>1, <3>2 DEF OneOwner
  <2>2. CASE MontageEnter(th) \/ FolderMissing(th) \/ Compose(th) \/ Forget(th)
    <3>1. image_paths' \subseteq image_paths /\ UNCHANGED timedOut
      BY <2>2 DEF MontageEnter, FolderMissing, Compose, Forget, ghosts
    <3>2. u # th => pc'[u] = pc[u]
      BY <1>0, <2>2 DEF MontageEnter, FolderMissing, Compose, Forget, Threads
    <3>3. pc'[th] # "compose"
      BY <1>0, <2>2 DEF MontageEnter, FolderMissing, Compose, Forget, Return, Threads
    <3>4. pc[u] = "compose"
      BY <3>2, <3>3
    <3> QED BY <1>a, <3>1, <3>4
  <2> QED BY <1>5, <2>1, <2>2 DEF montage_jpeg
<1>6. ASSUME NEW th \in Threads, reset_state(th) PROVE image_paths' \subseteq {u}
  BY <1>0, <1>6, <1>a DEF reset_state, ResetBegins, ResetNotifies, ResetClears, ResetEnds, flags, ghosts
<1>7. CASE UNCHANGED vars
  BY <1>7, <1>a DEF vars
<1> QED BY <1>1, <1>2, <1>3, <1>4, <1>5, <1>6, <1>7 DEF Next

\* Until a timeout fires, montage_triggered is a lock for the picture memory, and
\* the list that is decoded is never another montage's.
THEOREM ExclusiveBeforeTimeout == Spec => []ExclusiveUntilTimeout
<1>1. ASSUME Init PROVE OneOwner /\ OwnList
  <2>1. \A t \in Timers : t \notin Clients
    BY ClientsTimersDisjoint
  <2>2. \A t \in Timers : pc[t] = "off"
    BY <1>1, <2>1 DEF Init, Threads
  <2>3. Claimed = {}
    BY <1>1 DEF Init, Claimed, Threads, BeforeScan, Working, Resetting
  <2>4. OwnList
    BY <1>1 DEF Init, OwnList
  <2> QED BY <2>2, <2>3, <2>4 DEF OneOwner
<1>2. OneOwner /\ OwnList => ExclusiveUntilTimeout
  BY DEF OneOwner, OwnList, ExclusiveUntilTimeout
<1> QED
  BY <1>1, <1>2, OneOwnerStep, OwnListStep, TypeCorrect, PTL DEF Spec
==============================================================================
