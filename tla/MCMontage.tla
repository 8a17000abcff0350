------------------------------ MODULE MCMontage ------------------------------
(* Instances of Montage for TLC. *)
EXTENDS Montage, TLC

\* stale is read by StoppedTimerNeverFires only: the safety run looks at the rest.
NoStale == <<pc, triggering, completed_clients, sock_size, flags, image_paths, timedOut, gaveUp>>

\* Cameras and timer threads are interchangeable (safety runs only).
Symmetry == Permutations(Clients) \cup Permutations(Timers)
==============================================================================
