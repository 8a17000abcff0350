------------------------------- MODULE Montage -------------------------------
(***************************************************************************)
(* The montage coordinator of g2d.cpp (class G2d), with the part of        *)
(* ListeningSocket::process_file_transfer that feeds it.                   *)
(*                                                                         *)
(* Every camera's file socket has a thread that receives pictures and      *)
(* calls mark_client_completed.  The first completion of a round starts a  *)
(* detached 15 s timer thread; the completion that makes the round full,   *)
(* or the timer when it expires, sets montage_triggered and runs           *)
(* montage_jpeg in its own thread, which ends with reset_state.            *)
(*                                                                         *)
(* A step is a stretch of code between two accesses to shared state that   *)
(* another thread can tell apart.  A region under clients_mutex is one     *)
(* step.  Time is not modelled: a waiting timer may reach its deadline at  *)
(* any moment.                                                             *)
(***************************************************************************)
EXTENDS Naturals, FiniteSets

CONSTANTS
  Clients,     \* the file sockets, one receiving thread each
  Timers,      \* a bound: how many timer threads can be alive at once
  SockSizes    \* a bound: the connection counts set_scok_size is called with

ASSUME ClientsTimersDisjoint == Clients \cap Timers = {}
ASSUME ClientsFinite == IsFiniteSet(Clients)
ASSUME SockSizesNat == SockSizes \subseteq Nat

VARIABLES
  pc,                \* where each thread is
  triggering,        \* clients whose local trigger_montage is true
  completed_clients, \* the vector of done sockets; push_back never repeats one
  sock_size,
  is_first,
  montage_triggered,
  stop_timer,
  is_resetting,
  image_paths,       \* whose list of pictures it is; empty when cleared
  \* Ghosts: read by the properties only.
  timedOut,          \* some timer has passed the check of its expiry
  gaveUp,            \* some montage_jpeg has returned without reset_state
  stale              \* timers that were alive when a reset_state cleared

vars == <<pc, triggering, completed_clients, sock_size, is_first,
          montage_triggered, stop_timer, is_resetting, image_paths,
          timedOut, gaveUp, stale>>
flags == <<is_first, montage_triggered, stop_timer, is_resetting>>
ghosts == <<timedOut, gaveUp, stale>>

Threads == Clients \cup Timers

ClientPC == {"idle", "receiving", "mark", "marking", "start", "spawn", "close"}
TimerPC == {"off", "waiting", "expired", "claim"}
\* montage_jpeg up to the scan, the picture work, then reset_state.
BeforeScan == {"montage", "scan"}
Working == {"compose"}
Resetting == {"reset", "notify", "clear"}
MontagePC == BeforeScan \cup Working \cup Resetting \cup {"unreset", "forget"}

\* Threads that claimed the trigger and have not cleared it.
Claimed == {th \in Threads : pc[th] \in BeforeScan \cup Working \cup Resetting}
           \cup {c \in triggering : pc[c] \in {"start", "spawn"}}

GoTo(th, label) == pc' = [pc EXCEPT ![th] = label]

\* Where a thread continues when montage_jpeg returns.
Return(th) == IF th \in Clients THEN "close" ELSE "off"

\* Faulty variant: the timer keeps timer_mutex while it runs montage_jpeg.
TimerMutexFree_KeptInMontage ==
  \A t \in Timers : pc[t] \notin {"expired", "claim"} \cup MontagePC

\* Only a timer holds timer_mutex over several steps: from the end of its
\* wait to the release before the montage.
TimerMutexFree == \A t \in Timers : pc[t] \notin {"expired", "claim"}

------------------------------------------------------------------------------
Init ==
  /\ pc = [th \in Threads |-> IF th \in Clients THEN "idle" ELSE "off"]
  /\ triggering = {}
  /\ completed_clients = {}
  /\ sock_size = 0
  /\ is_first = FALSE
  /\ montage_triggered = FALSE
  /\ stop_timer = FALSE
  /\ is_resetting = FALSE
  /\ image_paths = {}
  /\ timedOut = FALSE
  /\ gaveUp = FALSE
  /\ stale = {}

------------------------------------------------------------------------------
(* The surroundings: connections, and the receipt of a picture. *)

\* Faulty variant: the count is not limited to the eight cells.
set_scok_size_Unlimited(size) ==
  /\ sock_size' = size
  /\ UNCHANGED <<pc, triggering, completed_clients, flags, ghosts, image_paths>>

\* addSocket registers a connection and passes on the new count.
set_scok_size(size) ==
  /\ sock_size' = IF size > 8 THEN 8 ELSE size
  /\ UNCHANGED <<pc, triggering, completed_clients, flags, ghosts, image_paths>>

\* process_file_transfer opens the file and starts to write into it.
OpenFile(c) ==
  /\ pc[c] = "idle"
  /\ GoTo(c, "receiving")
  /\ UNCHANGED <<triggering, completed_clients, sock_size, flags, ghosts, image_paths>>

\* All bytes received and the CRC right: mark_client_completed is called.
FileVerified(c) ==
  /\ pc[c] = "receiving"
  /\ GoTo(c, "mark")
  /\ UNCHANGED <<triggering, completed_clients, sock_size, flags, ghosts, image_paths>>

\* A broken transfer, a CRC mismatch or a picture with a licence plate.
FileNotCounted(c) ==
  /\ pc[c] = "receiving"
  /\ GoTo(c, "close")
  /\ UNCHANGED <<triggering, completed_clients, sock_size, flags, ghosts, image_paths>>

\* fclose: what stdio still buffers reaches the disk only here.
CloseFile(c) ==
  /\ pc[c] = "close"
  /\ GoTo(c, "idle")
  /\ UNCHANGED <<triggering, completed_clients, sock_size, flags, ghosts, image_paths>>

------------------------------------------------------------------------------
(* mark_client_completed and start_montage_timer, in a receiving thread. *)

MarkEnter(c) ==
  /\ pc[c] = "mark"
  /\ GoTo(c, IF is_resetting THEN "close" ELSE "marking")
  /\ UNCHANGED <<triggering, completed_clients, sock_size, flags, ghosts, image_paths>>

\* The two tests made under clients_mutex, after the push_back.
IsFirstCompletion(done) == Cardinality(done) = 1 /\ ~is_first
\* Faulty variant: montage_triggered is not tested.
RoundIsFull_Untested(done) == done # {} /\ Cardinality(done) = sock_size
RoundIsFull(done) == ~montage_triggered /\ done # {} /\ Cardinality(done) = sock_size

\* Continue after the timer was or was not started.
AfterStart(c) == IF c \in triggering' THEN "montage" ELSE "close"

MarkLocked(c) ==
  /\ pc[c] = "marking"
  /\ LET done == completed_clients \cup {c} IN
       /\ completed_clients' = done
       /\ is_first' = (is_first \/ IsFirstCompletion(done))
       /\ montage_triggered' = (montage_triggered \/ RoundIsFull(done))
       /\ triggering' = IF RoundIsFull(done) THEN triggering \cup {c} ELSE triggering \ {c}
       /\ GoTo(c, IF IsFirstCompletion(done) THEN "start" ELSE AfterStart(c))
  /\ UNCHANGED <<sock_size, stop_timer, is_resetting, ghosts, image_paths>>

StartTimerCheck(c) ==
  /\ pc[c] = "start"
  /\ triggering' = triggering
  /\ GoTo(c, IF montage_triggered \/ is_resetting THEN AfterStart(c) ELSE "spawn")
  /\ UNCHANGED <<completed_clients, sock_size, flags, ghosts, image_paths>>

\* Under timer_mutex: arm the flag and create the detached thread.
SpawnTimer(c, t) ==
  /\ pc[c] = "spawn"
  /\ TimerMutexFree
  /\ pc[t] = "off"
  /\ stop_timer' = FALSE
  /\ triggering' = triggering
  /\ pc' = [pc EXCEPT ![c] = AfterStart(c), ![t] = "waiting"]
  /\ stale' = stale \ {t}
  /\ UNCHANGED <<completed_clients, sock_size, is_first, montage_triggered,
                 is_resetting, timedOut, gaveUp, image_paths>>

------------------------------------------------------------------------------
(* timer_thread_func *)

\* The predicate of timer_cv.wait_for.
WaitIsOver == stop_timer \/ montage_triggered \/ is_resetting

TimerStops(t) ==
  /\ pc[t] = "waiting"
  /\ TimerMutexFree
  /\ WaitIsOver
  /\ GoTo(t, "off")
  /\ UNCHANGED <<triggering, completed_clients, sock_size, flags, ghosts, image_paths>>

\* The deadline passes with the predicate false: wait_for returns false.
TimerExpires(t) ==
  /\ pc[t] = "waiting"
  /\ TimerMutexFree
  /\ ~WaitIsOver
  /\ GoTo(t, "expired")
  /\ UNCHANGED <<triggering, completed_clients, sock_size, flags, ghosts, image_paths>>

\* The second look at the two flags, before acting on the timeout.
TimerRechecks(t) ==
  /\ pc[t] = "expired"
  /\ GoTo(t, IF montage_triggered \/ is_resetting THEN "off" ELSE "claim")
  /\ timedOut' = (timedOut \/ (~montage_triggered /\ ~is_resetting))
  /\ UNCHANGED <<triggering, completed_clients, sock_size, flags, gaveUp, stale, image_paths>>

TimerClaims(t) ==
  /\ pc[t] = "claim"
  /\ montage_triggered' = TRUE
  /\ GoTo(t, "montage")
  /\ UNCHANGED <<triggering, completed_clients, sock_size, is_first, stop_timer,
                 is_resetting, ghosts, image_paths>>

------------------------------------------------------------------------------
(* montage_jpeg and reset_state, in whichever thread claimed the trigger. *)

MontageEnter(th) ==
  /\ pc[th] = "montage"
  /\ GoTo(th, IF is_resetting THEN Return(th) ELSE "scan")
  /\ gaveUp' = (gaveUp \/ is_resetting)
  /\ UNCHANGED <<triggering, completed_clients, sock_size, flags, timedOut, stale, image_paths>>

\* The directory check and the listing of the pictures.
ScanFolder(th) ==
  /\ pc[th] = "scan"
  /\ image_paths' = {th}
  /\ GoTo(th, "compose")
  /\ UNCHANGED <<triggering, completed_clients, sock_size, flags, ghosts>>

\* The directory is gone (it lives under /tmp): return without cleanup.
FolderMissing(th) ==
  /\ pc[th] = "scan"
  /\ gaveUp' = TRUE
  /\ GoTo(th, Return(th))
  /\ UNCHANGED <<triggering, completed_clients, sock_size, flags, timedOut, stale, image_paths>>

\* Decode the nine cells, blit, save and hand over to FTP, or fail to decode
\* one of them: both ways lead to the cleanup label, where the picture memory
\* is freed.  A list that another montage has cleared meanwhile is shorter.
Compose(th) ==
  /\ pc[th] = "compose"
  /\ is_first' = FALSE
  /\ GoTo(th, "reset")
  /\ UNCHANGED <<triggering, completed_clients, sock_size, montage_triggered,
                 stop_timer, is_resetting, ghosts, image_paths>>

\* is_resetting, then stop_timer: whoever reads the second reads the first.
ResetBegins(th) ==
  /\ pc[th] = "reset"
  /\ is_resetting' = TRUE
  /\ stop_timer' = TRUE
  /\ GoTo(th, "notify")
  /\ UNCHANGED <<triggering, completed_clients, sock_size, is_first,
                 montage_triggered, ghosts, image_paths>>

\* notify_all needs timer_mutex; a woken timer runs after it is released.
ResetNotifies(th) ==
  /\ pc[th] = "notify"
  /\ TimerMutexFree
  /\ GoTo(th, "clear")
  /\ UNCHANGED <<triggering, completed_clients, sock_size, flags, ghosts, image_paths>>

\* Faulty variant: the list is cleared but montage_triggered stays set.
ResetClears_KeepsTrigger(th) ==
  /\ pc[th] = "clear"
  /\ completed_clients' = {}
  /\ GoTo(th, "unreset")
  /\ UNCHANGED <<triggering, sock_size, flags, ghosts, image_paths>>

ResetClears(th) ==
  /\ pc[th] = "clear"
  /\ completed_clients' = {}
  /\ montage_triggered' = FALSE
  /\ stale' = stale \cup {t \in Timers : pc[t] \in {"waiting", "expired", "claim"}}
  /\ GoTo(th, "unreset")
  /\ UNCHANGED <<triggering, sock_size, is_first, stop_timer, is_resetting,
                 timedOut, gaveUp, image_paths>>

ResetEnds(th) ==
  /\ pc[th] = "unreset"
  /\ is_resetting' = FALSE
  /\ GoTo(th, "forget")
  /\ UNCHANGED <<triggering, completed_clients, sock_size, is_first,
                 montage_triggered, stop_timer, ghosts, image_paths>>

\* image_paths.clear() comes after reset_state, when the next montage may have
\* been triggered already.
Forget(th) ==
  /\ pc[th] = "forget"
  /\ image_paths' = {}
  /\ GoTo(th, Return(th))
  /\ UNCHANGED <<triggering, completed_clients, sock_size, flags, ghosts>>

------------------------------------------------------------------------------
Mark(c) == MarkEnter(c) \/ MarkLocked(c) \/ StartTimerCheck(c)
           \/ \E t \in Timers : SpawnTimer(c, t)
Timer(t) == TimerStops(t) \/ TimerExpires(t) \/ TimerRechecks(t) \/ TimerClaims(t)
montage_jpeg(th) == MontageEnter(th) \/ ScanFolder(th) \/ FolderMissing(th) \/ Compose(th)
                    \/ Forget(th)
reset_state(th) == ResetBegins(th) \/ ResetNotifies(th) \/ ResetClears(th) \/ ResetEnds(th)
Receive(c) == OpenFile(c) \/ FileVerified(c) \/ FileNotCounted(c) \/ CloseFile(c)

Next ==
  \/ \E size \in SockSizes : set_scok_size(size)
  \/ \E c \in Clients : Receive(c) \/ Mark(c)
  \/ \E t \in Timers : Timer(t)
  \/ \E th \in Threads : montage_jpeg(th) \/ reset_state(th)

\* A thread that is inside the coordinator keeps running; whether a camera
\* sends a picture is its own business.
Fairness ==
  /\ \A c \in Clients : WF_vars(Mark(c)) /\ WF_vars(CloseFile(c))
  /\ \A t \in Timers : WF_vars(Timer(t))
  /\ \A th \in Threads : WF_vars(montage_jpeg(th)) /\ WF_vars(reset_state(th))

Spec == Init /\ [][Next]_vars /\ Fairness

------------------------------------------------------------------------------
(* Properties *)

\* Type invariant: every thread is at a label of its own code.
TypeOK ==
  /\ pc \in [Threads -> ClientPC \cup TimerPC \cup MontagePC]
  /\ \A c \in Clients : pc[c] \in ClientPC \cup MontagePC
  /\ \A t \in Timers : pc[t] \in TimerPC \cup MontagePC
  /\ triggering \subseteq Clients
  /\ completed_clients \subseteq Clients
  /\ sock_size \in 0..8
  /\ is_first \in BOOLEAN /\ montage_triggered \in BOOLEAN
  /\ stop_timer \in BOOLEAN /\ is_resetting \in BOOLEAN
  /\ image_paths \subseteq Threads
  /\ timedOut \in BOOLEAN /\ gaveUp \in BOOLEAN
  /\ stale \subseteq Timers

\* montage_triggered is left set only by a montage_jpeg that returned early
\* (a reset in progress, or no picture directory): otherwise somebody still
\* has to clear it, so the coordinator is not wedged.
TriggerHasOwner == montage_triggered /\ ~gaveUp => Claimed # {}

\* The picture memory m_DispMemOps* and image_paths are shared by all calls of
\* montage_jpeg and no lock protects them.  As long as no timeout has fired, at
\* most one thread is between the trigger and its clearing, where the memory is
\* used, and no montage decodes another one's pictures: its list is its own, or
\* cleared by the montage before, which does that after its reset.
ExclusiveUntilTimeout ==
  ~timedOut => /\ \A p, q \in Claimed : p = q
               /\ \A th \in Threads : pc[th] = "compose" => image_paths \subseteq {th}

\* A montage that has begun ends: montage_triggered is cleared again, unless
\* some montage_jpeg gave up.  No cycle of locks blocks reset_state.
MontageEnds == montage_triggered ~> (~montage_triggered \/ gaveUp)

\* g2d.cpp:390 says reset_state first stops the timer: a timer that was
\* alive when the round was cleared must not trigger a montage later on.
StoppedTimerNeverFires == \A t \in stale : pc[t] # "claim"
==============================================================================
