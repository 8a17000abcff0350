# A TLA+ verification of the T527 gateway

The program is the server of a T527 board on a vehicle gate or weighbridge. It
accepts the message, file and video connections of up to eight "630" AI
cameras, joins their pictures into a 3×3 montage and uploads it by FTP, talks to
a platform over JT808, drives electronic seals through a lock reader, streams
video by GB28181, and controls a gate, a radar and card readers. The code is
C++ in the repository's top directory and in `gb28181/`; everything runs in one
process, in threads that share plain members, a few atomics and a few mutexes.
There are no tests and no documents; the statements the findings quote are the
source's own comments and messages. `TARGET_MODE` is 2 in this build.

## 1. Inventory

| Component | Source | State | Operations | Interacts with | What is hard | What makes it correct |
|---|---|---|---|---|---|---|
| Montage coordinator | `g2d.cpp`, `process_file_transfer` in `listen_socket.cpp` | `completed_clients`, `sock_size`, `is_first`, `montage_triggered`, `stop_timer`, `is_resetting` | `mark_client_completed`, `start_montage_timer`, `timer_thread_func`, `montage_jpeg`, `reset_state` | called by every file thread; writes the picture memory, calls FTP | up to eight threads and any number of timers, four flags read outside locks | one montage at a time, none forgotten, the trigger always cleared, every round ends |
| Frame ring | `config.cpp` | `mult_ringfifo`, `g_ringinfo` (`iput`, `iget`, `n`, `fifoMutex`) | `ringmalloc`, `ringput`, `ringget`, `ringreset`, `ringfree` | video threads put, GB28181 sender takes | tests of `n` outside the lock, the copy after it | a bounded FIFO; a frame being copied is not overwritten |
| Lock reader | `ReaderLock.cpp`, `Packag_0315` in `jt808_Pack.cpp` | `server_fd`, `m_nHaveReq`, `m_bResult`, `m_retInfo`, `m_recvData`/`m_RecvLen` | `TCPConnect`, the four commands, `wait_for_response`, `TCPRecvThread`, `NetRecvOnePack` | called by JT808's two threads; a TCP device | no lock on any member, a receiver per connection, late and lost answers | a command returns its own lock's answer; an item succeeds only if both locks do; every push is answered |
| GB28181 stream | `gb28181/SipClient.cpp`, `Sipconfig.cpp` | `g_rtpsendPs[chn]`: `sessionName`, `mQuit`, `mPlay`, `usefifo`, `mSockFd`, `pid_thread` | `response_invite/ack/bye/playback_control`, `rtpsendPs_init/start/stop`, the two sender threads | frame ring, camera commands, video threads | SIP events at any moment of a sender's life, ring freed by two threads | no use of a freed ring, a stop ends, a BYE stops, an ACK starts once |
| GB28181 registration | `gb28181_client_func`, `sip_event_handle` in `gb28181/SipClient.cpp` | `g_client`: `allowReg`, `mRegistered`, `errorCountReg`, `mRegisterId`; the expiry time | register, keepalive, sign off, react to success and failure | the SIP library, which challenges and refreshes by itself; the platform | retries of two parties; silence, refusals, restarts | the client stays registered, or tries again, or gives up for a reason |
| Connections | `main.cpp`, `listen_socket.cpp` | `sockets`, `ip_to_connection`, descriptor numbers | the select loop, `addSocket`, `remove_socket`, heartbeats | all per-connection threads; the montage's count of cameras | `remove_socket` without a lock, numbers reused while threads keep them | a working connection is served, a broken one closed, select can run |
| Camera commands | `hhd_mcucom_package_send` and its callers in `listen_socket.cpp`, `hhdProtocol.cpp` | serial numbers | `heart_handler`, `Send_handler`, the commands | connections, JT808 | writing to a number another camera has by now | a failed write ends the connection |
| Camera message receiver | `serial_recv`, `serial_parse`, `parse_msg_head`, `arraybuf_*` in `listen_socket.cpp` | `serial_buf`, a `ParseSync_t` for each connection | read a chunk, find and handle frames | connections, `config.ini` | one buffer for all connections; room tested and used under two locks; a wake-up that is lost | whole frames in order, to the right connection |
| JT808 client | `jt808.cpp` | connection, serial numbers | receive and dispatch, pack and send | lock reader, parameters | two threads, replies after long calls, several requests in one read | each request answered |
| JT808 parameters | `jt808_Pack.cpp` | configuration | set and query parameters | configuration | a parameter is several settings, each saved by itself | what was set is kept |
| FTP and update | `ftp_task.cpp` | `media_path`, `remot_filename`, `local_path`, `remot_path`, counters | upload; the download and update are never started (`listen_socket.cpp:328` is commented out) | montage | detached threads sharing a path; paths that grow with every upload | the file asked for is uploaded, under its own name |
| Configuration | `config.cpp` | `sections`, `section_order`, `config.ini` | `Get`, `SetToFile`, `FileInit` | everybody | no lock; the file is emptied and written again; crashes | what was set is read back, also after a restart |
| Gate, radar, RFID, cards | `gate.cpp`, `radar.cpp`, `IcCard.cpp`, `RfidCar.cpp` | two gate flags | open, close, read | serial port, GPIO | little | the flags follow the gates |

Vendored code (`cJSON.h`, `stb_image.h`, `tiny_jpeg.h`, `third/`) and the
commented-out `Weight.cpp` are left aside. `PROJECT.json` lists the hazards of
all of these at their lines.

## 2. Modules

| Module | What it is |
|---|---|
| `Montage` | the coordinator, with the receipt of a picture that feeds it |
| `BoundedFifo` | abstract: a bounded queue of frames, and what a put beyond the bound does to it |
| `RingFifo` | the ring; it implements `BoundedFifo`, with as much slack as there are producers beyond the first |
| `SealLock` | `Packag_0315` and the lock reader |
| `GbStream` | one GB28181 channel: SIP thread, sender, producers |
| `SerialParse` | the cameras' readers and parsers on the shared buffer |
| `Connections` | main's select loop, the connections' threads, `remove_socket` |
| `SipRegistration` | registration and keepalive, with the SIP library and the platform |
| `Jt808Params` | `config.ini`, the JT808 threads that set it, heartbeats, `main`'s start, crashes |
| `MC…` | the instances TLC checks, with the symmetry of the safety runs |
| `…Proofs` | the theorems, each module beside its component's |

All components are modelled at the same grain: a step is the code between two
accesses to shared state that another thread can tell apart; a region under one
mutex is one step. Accesses to plain shared variables are taken as single and
in program order. Operators named `X_Y` after an operator `X` are faulty
variants of it, for showing that a property notices the fault; nothing else
uses them. Ghost variables are read by properties only.

### Montage

One receiving thread per camera (`Clients`); timer threads are a pool (`Timers`)
because the code starts them detached and never bounds them. `pc` says where each
thread is. `FileVerified` is the CRC test that calls `mark_client_completed`;
`MarkLocked` its region under `clients_mutex`; `StartTimerCheck`, `SpawnTimer` are
`start_montage_timer`; `TimerStops`, `TimerExpires`, `TimerRechecks` and
`TimerClaims` are `timer_thread_func`, whose hold of `timer_mutex` after the wait is
`TimerMutexFree`. `montage_jpeg` runs in the thread that claimed the trigger:
`MontageEnter`, `ScanFolder` (or `FolderMissing`), `Compose`, then `reset_state` as
`ResetBegins` … `ResetEnds`, then `Forget`, the `image_paths.clear()` that comes
after it. `image_paths` is whose pictures are in the list. The 15 s are not
modelled: a waiting timer may expire at any moment, which includes every real one.
`timedOut`, `gaveUp` and `stale` are ghosts.

### Frame ring

The ring between `ringmalloc` and `ringfree`. `PutTests`/`GetTests` are the
looks at `n` before `fifoMutex`, `PutLocked`/`GetLocked` the regions under it,
`CopyFrame` the sender's `memcpy` afterwards. A slot's buffer, size and type are
one value, a member of `Frames`. `Producers` are the video connections whose
camera has the channel's number. A frame that finds the ring full is dropped:
`SendGbStreamData` then resets channel `MAX_CHN + REALTIME_FIFO_OFFSET`, which
is never the channel that was full. The code's return statement re-reads the
slot's size after the unlock; only the value 0 matters to the caller and no
received block is empty.

### Lock reader

`Handlers` are the threads that run `Packag_0315`; each goes through `connect`,
`send`, `arm` (`m_nHaveReq = true`, after the send), `wait`, `asleep`, `finish`,
`return`, `reply`. Seal and unseal differ in the frame only. Each connection has
its own `TCPRecvThread` (`rpc`), which reads whatever `server_fd` names at that
moment, so an old thread can serve a new connection; a connection is named by
the handler and the item it was made for (`Conns`). The device answers any
command at any later time or never. An answer is its kind: `ok`, `refused`, an
`unknown` result byte, or the reader's own error that ends the thread.
`CheckByte` is the byte that stays behind because `packetLength` is `19 + c` while
a message has at least one byte more. A `memmove` of negative size sets `down`.
The `memset` of `m_recvData` with which a receiving thread starts is left out
(it leaves `m_RecvLen` alone and hits a message only if an older receiver is
still taking it out), and so is `recv` returning 0, on which the thread spins
without touching anything.

### GB28181 stream

`sip` says where the SIP thread is in `response_ack` or `response_bye`, `sender`
where the sender thread is. `mRun` is left out: `rtpsendPs_stop` only waits for
it at most 3 s and joins anyway. A socket is `none`, `open` or `stale` (closed,
its number kept). Assigning to a joinable thread, or putting into a ring that
is gone, ends the process (`down`) when it does. The GB28181 client's start is
commented out in `Listen_Init` (`listen_socket.cpp:139`); the model is of the
code as it runs once it is started.

### Camera message receiver

`SerialParse` has a reader and a parser for every connection. A frame is three
pieces, because that is what `parse_msg_head` tells apart: the flag, the head
with the length, the data; a read ends after any piece. `TestRoom` and `Copy`
are the two critical sections of `arraybuf_add`, `Signal` the test of
`data_ready`; `LoopTest`, `FindFlag`, `protocol_parse`, `Skip` and `ClearReady`
are the steps of a parser's pass, for which it holds the connection's mutex.
What a head that is not the frame's own says of the length is a free choice.
The room is unsigned: an overfull buffer's is huge, and every chunk would fit.
It does not come to that in the model, nor surely in the program: behind the
buffer's bytes is its `length`, which the first chunk beyond them overwrites, so
the model ends there (`Intact`). `overlapped` says that bytes of two connections
met in the buffer, `raced` that a chunk was copied while another reader's had
passed the test of the room.

### Connections

A connection is its index in the order of `accept`; `owner` is the kernel's table of
numbers, and `accept` gives the lowest free one, as POSIX says. Threads know the
number only, so `Fails(fd)` is about whoever has the number now. A peer may close
its connection, or vanish without a word (`silent`): the accepted sockets have
neither `SO_KEEPALIVE` nor `SO_RCVTIMEO`, so a read then waits for ever (`Blocks`),
and only a write makes the kernel find out. `main` goes from `select` through
`push`, `start` and `add`; a round in which several servers are readable is several
of the model's. A thread sends (`CheckValid`, `Write`: `heart_handler` and
`Send_handler` do the same, and the instance has one of them) or receives (`Read`,
`Peek`); `remove_socket` is `Find`, `Close`, `Erase` or `Find`, `LookUp`. Two
removals at once race on the vector; the model records it (`overlapped`) and stops.
The table's entry "Unknown" is the code's, for a number without a peer; no camera
has that for its address (`CamsHaveAddresses`).

### GB28181 registration

One thread handles its loop and one event after another; `events` are the library's.
`regs` is the library's state of each registration, from what its header promises: a
challenged REGISTER is repeated with credentials, a registration is refreshed, one
that was removed is forgotten without a message. Whether the library goes on with a
registration that was refused is left open. A keepalive is sent when the events
before it are handled: a minute passes between two. The device's other MESSAGEs
(catalog, record list, media status) fail into the same event as the keepalive,
which stands for them. `request_register` has a branch for refreshing a
registration, which takes the library's 0 (success) for an error and returns; it
does nothing, and is not in the model.

### Settings

`Jt808Params` is `config.ini` in memory (`sections`, `section_order`) and on
disk (`file`: the headers written so far, and the value of each setting, or
none), a line at a time. `Open` changes the map and empties the file;
`WriteLine` writes a setting that is left of the present section, or the next
header; `Close` returns when all is `Written`. `next` and `left` are the place
of the thread in `SetToFile` (`writer`); a second one in it at once is recorded
(`overlapped`) and the model stops. `endl` flushes each line, so a crash of the
process (`Crash`) leaves those written. A start is `FileInit`; then two threads
go on. `jt808_init` runs `get_chipid`, which saves the chip's number unless it
finds none, and `jt808_connect`. `main` goes to `Listen`, which turns `port1`
into a number: `stoi` throws on a text that is none, also on one the platform has
set (`BadPorts`: `SetParameter03` stores any text), and the process ends
(`Ends`), in whatever line of the file `jt808_init` is. The JT808 thread takes a
request (`jt808_process_receive`), saves each setting of each parameter
(`SetParameter`, `Advance`) and replies with one `send`
(`send_jt808_message`), which may take a part of it, or fail when the platform
has hung up (`Hangup`), and then closes the connection for good. `inbox` is the
request that `recv` will find first; those that came after it before that
`recv` are lost. A value is the number of the request that brought it. The
heartbeat's key is `"IPC" + direction`, which is a pointer into the literal:
camera 1 saves its address under `PC`.

## 3. What is checked

| Run | Instance | Distinct states | Result |
|---|---|---|---|
| `montage_safety` | 2 cameras, 2 timers, counts 1, 2 and 9, symmetric | 2,345,901 | `TypeOK`, `TriggerHasOwner`, `ExclusiveUntilTimeout` hold |
| `montage_liveness` | 2 cameras, 1 timer | 104,322 | `MontageEnds` holds |
| `ring_two` | 2 producers, 3 frames, 4 slots | 87,184 | `TypeOK`, `CountBounded`, `HeldFrameIntact`, `RefinesFifo` hold |
| `seal_single` | 1 handler, 2 items | 3,293,070 | `TypeOK`, `ReturnsOwnAnswer` hold |
| `gb_stream` | 2 video connections | 8,442 | `TypeOK`, `LoopHasRing`, `FifoOpenHasRing`, `StopEnds`, `StopIsComplete` hold |
| `serial_parse` | 2 cameras, 3 frames of one or 1 of each; buffer 4 pieces, read 2 | 550,509 | `TypeOK`, `OverflowNeedsRace`, `OwnFramesInOrder`, `SleepsOnlyOnLate`, `PassEnds` hold |
| `connections` | 2 cameras, up to 3 connections in three cases, 3 numbers, 2 slots | 66,676 | `TypeOK`, `KeepsLive`, `LiveIsServed`, `SelectCanRun`, `BrokenIsClosed` hold |
| `sip_registration` | 4 registrations in the library, 2 faults | 241,908 | `TypeOK`, `NeverStuck`, `GivesUpOnRefusals`, `ForgottenByLapses`, `Heals` hold |
| `jt808_params` | 3 sections, 2 settings by the platform, the first with a bad port, 2 crashes | 1,585,422 | `TypeOK`, `SettingIsKept`, `SavedIsAll`, `AbortHasCause`, `RequestIsAnswered` hold |

The other three runs each check one statement the source makes about itself and
find it violated; `PROJECT.json` quotes the lines under "findings".

| Run | Statement | What happens |
|---|---|---|
| `montage_stale_timer` | reset stops the timer first | the flags are cleared again before the timer looks; it fires on the next round |
| `seal_sticky` | 0 only if both locks succeed | the status of an earlier item is kept |
| `connections_forget` | a camera's entry is deleted when all its sockets are gone | the number is -1 before its address is asked for: the entry "Unknown" is looked up, the camera's own stays |

What the properties say:

- `TriggerHasOwner`: `montage_triggered` is the coordinator's lock; were it left
  set with nobody to clear it, no montage would be made again. The exception it
  states is real: `montage_jpeg` returns without `reset_state` when the picture
  directory is missing or a reset is under way.
- `ExclusiveUntilTimeout`: `m_DispMemOps` and `image_paths` have no lock of their
  own. The completions alone never let two threads in; a timer can, because it
  looks at the flag and sets it in two steps. The list is not covered by the
  trigger to its end: the montage before may clear it late (section 5), so the
  property says that it never holds another montage's pictures.
- `MontageEnds`: `reset_state` needs both mutexes while timers and receivers
  want them.
- `CountBounded`, `HeldFrameIntact`, `RefinesFifo`: what the ring still promises
  although its tests of `n` and the copy are outside the lock. Two producers do
  put beyond the bound in the run: `n` is then one too large, the frame takes the
  place of a stored one as well, and the queue is `BoundedFifo`'s after a
  `PutBeyond`.
- `ReturnsOwnAnswer`: `m_bResult`, `m_nHaveReq` and the buffer are reset by hand
  after each command; a missed reset would let a lock answer for another.
- `LoopHasRing`, `FifoOpenHasRing`, `StopEnds`, `StopIsComplete`: two threads set
  `mQuit` and `usefifo` and both free the ring, without a lock.
- `OverflowNeedsRace`: the room is tested and used in two critical sections. Only
  a second reader that has passed the test beside the first can overflow the
  buffer; a single camera's chunks never do.
- `OwnFramesInOrder`: chunks are dropped, frames torn and resynchronised; until
  two connections' bytes meet in the shared buffer each frame is handled once,
  in order and for its own camera.
- `SleepsOnlyOnLate`: `data_ready` is read outside the mutex and cleared at the
  end of a pass. What a sleeping parser can have left behind is only what came
  in after its last look. `PassEnds`: it does not keep the mutex for ever.
- `KeepsLive`, `LiveIsServed`, `SelectCanRun`: nothing but the reuse of a number
  by threads of its former owner, and two removals that meet, can close a
  working connection, leave it without its threads, or leave a closed number in
  the select set, which would end the accepting for good.
- `BrokenIsClosed`: a message connection that breaks gives its number and its slot
  back, and so does a file connection whose peer has closed it.
- `GoneIsForgotten` (violated): an entry's camera still has a connection.
  Entries are not forgotten, so the montage's count of cameras never falls.
- `NeverStuck`: `allowReg` is cleared before the REGISTER is out and must be set
  again by some event. `GivesUpOnRefusals`: the 401 that starts every
  registration counts as a failure, yet five are never reached on challenges
  alone as long as no REGISTER is sent, or dropped, while one is unanswered.
  `ForgottenByLapses`: every registration left behind in the library, which goes
  on refreshing it, is one failed MESSAGE's. `Heals`: after a fault the device
  is registered again and the platform agrees.
- `SettingIsKept`: through partial failures, heartbeats that rewrite the file and
  crashes outside of a write, the device has what it was last set to, all of
  it. `SavedIsAll`: a call of `SetToFile` that returns has written all of memory.
  `AbortHasCause`: a start fails only on a port the platform has set, or on a
  file the process left unfinished when it ended. `RequestIsAnswered`: once
  looked at, a request is answered, in whole or in part, or the connection or
  the program did not last; queries of parameters without a field in the reply
  excepted.

### Bounds, and why they are enough

- *Montage.* Two cameras give every pair: the completion that starts a round,
  the one that fills it, and one that is late. Two timers are the one of this
  round and a survivor of the last. A count of 9 exercises the limit of 8 and a
  round that never fills; a count of 1 lets a montage be triggered while the one
  before has its list still to clear. `stale` is read by `StoppedTimerNeverFires`
  only, so the safety run compares states without it (`NoStale`). No counter is
  bounded otherwise; the state space is finite by itself.
- *Ring.* Two producers are the pair that passes the test together. Four slots
  let both indices wrap and the ring be empty, full and overfull; three frames
  tell neighbours apart. The proofs remove the bounds, but for the queue's
  producer.
- *Lock reader.* `MaxItems` bounds the items, not the pushes they come in: two
  items are two items of a push, or two pushes. Two connections' receivers are
  enough for an old one to take over the new connection. The proofs remove the
  bound on the items. One handler: see section 5.
- *GB stream.* Nothing is bounded but the number of producers, which the proofs
  leave open.
- *Camera messages.* A buffer of two reads makes a chunk lost and a frame lose its
  middle; three frames of one camera leave a whole frame behind a torn one; two
  cameras with one frame each meet in the buffer, and overfill it. The real sizes
  are 1024 and 256 bytes. The proofs remove the bounds on cameras, frames and sizes.
- *Connections.* Three connections are one that breaks, one that takes its
  number and one that is working beside them; two slots exercise the limit. The
  three cases have a camera that comes back, every kind of connection, and
  three of one camera. The proofs remove the bounds on cameras, connections,
  numbers and slots.
- *Registration.* A fault and the challenge after it count twice, so two faults
  reach five errors. The four registrations are enough for two faults
  (`RegsSuffice`). The proofs leave both numbers open.
- *Settings.* Two settings tell the last from the one before; two crashes give
  one that tears the file and one after it. Parameters 3 and 6 are the two
  forms of `SetParameter`, with and without a stop at the first failure. The
  first setting's port is bad and the second's good, so a start can fail and the
  port be set again before it. Parameters 4 and 7 differ from 6 in their
  settings only. "W-800" stands for the sections after them, at the end of the
  file, that a crash can lose. The proofs remove the bounds: the sections in any
  order and others between them, any requests for any of the four parameters,
  any number of settings and crashes.

Deadlock is checked in `Montage` and `RingFifo`. It is not in `SealLock`, which
stops when `MaxItems` are handled or the process has been killed, in
`GbStream`, which stops when the process has been killed, in `SerialParse` and
`Connections`, whose cameras may send and connect no more, in
`SipRegistration`, where a device that gave up is silent, nor in `Jt808Params`,
where `main` may have ended.

### Fairness

- `Montage`: a thread inside the coordinator keeps running (the scheduler); a
  timer reaches its deadline (`wait_for`). Whether a camera sends a picture is
  not fair. Locks are tried fairly enough by weak fairness, because their
  regions are short and every other holder is fair.
- `RingFifo`: `SendDataThread` loops without end, so it asks for a frame again.
- `SealLock`: no run depends on fairness. `Spec` states that a handler inside a
  push goes on, which `connect` and the deadline of `pthread_cond_timedwait`
  justify.
- `GbStream`: the SIP thread and the sender run on once they have something to
  do. Events and producers need not happen.
- `SerialParse`, `Connections`: every thread that runs is scheduled, separately.
  What cameras do is not fair, and a read on a peer that vanished waits.
- `SipRegistration`: the loop runs on and its clock moves; the library repeats a
  challenged REGISTER, and every message is answered or times out (its header).
  Platform restarts, the Boot command and the library's refreshes need not
  happen.
- `Jt808Params`: a call of `SetToFile` goes on and the JT808 thread does. Crashes,
  starts, requests, heartbeats and the platform's hanging up need not happen.

## 4. What is proved

TLAPS checks these for all values of the constants that satisfy the modules'
assumptions (finite sets, `NMAX` positive, model values distinct). Two results
have a hypothesis more, named there: one producer for the queue, one thread in
the lock reader.

- **`MontageProofs`**. `TypeCorrect`. `TriggerNeverOrphaned`: not inductive from
  the trigger alone; it follows from `TypeOK` and the steps of the thread that
  claimed it. `ExclusiveBeforeTimeout`: its inductive form `OneOwner` also says
  that the trigger is set whenever somebody has claimed it and that no timer is
  past its recheck before `timedOut`; without that the next full round would
  let a second thread in; and that a thread which decodes has listed its own
  pictures, which a late `Forget` can only take away. Any number of cameras and timers.
- **`RingFifoProofs`**. `TypeCorrect` and `OverflowIsBounded`: `n` plus the
  producers past their test stays below `NMAX` plus the number of producers.
  `HeldFrameSafe` holds for any finite set of producers: `iput` is always `n`
  places after `iget`, counted around the ring, so a producer that writes into
  the slot being copied leaves `n` a multiple of `NMAX` (`Around`, `Behind`).
  `RingIsBoundedFifo` assumes one producer (`OneProducer`): then every step of
  the ring is a `Put`, a `Get` or a stutter of `BoundedFifo`; with several it is
  checked by `ring_two`. `RingIsBoundedFifo` is the safety half
  of the refinement; the fairness half stays with TLC's `RefinesFifo`.
- **`GbStreamProofs`**. `TypeCorrect`, `SenderNeverReadsFreedRing`,
  `FifoClosedBeforeFree` and `StopLeavesNothing`. The invariant `RingInv` adds that
  the SIP thread frees the ring only when no sender exists, that a sender implies a
  joinable thread (so a new one starts only where the last was joined), that
  `usefifo` is set only inside the sender's loop, and that `mQuit` is set whenever
  no sender runs. `StopLeavesNothing` proves the action property `StopIsComplete`
  from it.
- **`SealLockProofs`**. `TypeCorrect`, for any threads and items.
  `OwnAnswerReturned` assumes that one thread runs `Packag_0315`; section 5 says
  what two do to each other. Its inductive form, `OneCommand`, follows the one
  command there can be until a wait has timed out: it is outstanding and its own
  lock's, with an empty buffer to come back to; or one receiver has its answer;
  or `m_bResult` is set and `m_retInfo` is that answer; or nothing is left of it.
  Receivers left over from earlier items may run all the while.
- **`SerialParseProofs`**. `TypeCorrect` and `OverflowNeedsRaceHolds`, for any
  number of connections and any sizes. What is inductive is that, until a race, a
  chunk past its test of the room is alone there and fits. `OwnFramesAreInOrder`
  gives every piece its place in its camera's stream: the bytes of a camera in the
  buffer are in ascending places below those of its reader's chunk, whatever was
  dropped between them, and the frames that were handled come before every flag
  still in the buffer, but for the one a parser is about to cut away.
  `SleepsOnlyOnLateHolds` says which thread will still look: a parser that is awake
  before an overlap is alone (`Alone`), so what it leaves behind when `flag_waitdat`
  sends it to sleep is no whole frame.
- **`ConnectionsProofs`**. `LiveIsKept`, `LiveKeepsThreads` and `SelectRuns`, for
  any cameras, arrivals, numbers and limit, with `TypeCorrect`. The invariant
  has a part about the kernel and one about the threads, which hold always, and
  a part about `sockets` that holds while no two removals met: no number is in
  it twice or beside its removal, an iterator stands at its own number, and a
  number no thread may have been left with is entered.
- **`SipRegistrationProofs`**. `TypeCorrect`, and three properties for any number
  of registrations and faults. `NeverStuckHolds` needs what will be true when
  the queue of events is handled: `Covered` says that behind every challenge in
  the queue there is a way out for the device. `GivesUpOnRefusalsHolds` counts:
  errors are at most twice the refusals, and one more where a challenge was
  handled, because between any two challenges in the queue there is the end of a
  REGISTER. `ForgottenByLapsesHolds` bounds the registrations the library has
  not been told to sign off: one more than the failed MESSAGEs and, while the
  expiry time is not 0, no more than those when a new one is due.
- **`Jt808ParamsProofs`**. `TypeCorrect`, `SettingIsKeptHolds`,
  `AbortHasCauseHolds` and `SavedIsAllHolds`, from one invariant. `FileInv`
  says what is in the file while a thread is writing it: memory's value of every
  setting behind its place and nothing else. `KeptInv` follows a kept value
  through memory, the file, and the file that the next start will read. `JobInv`
  is what `func_recvthread` has done of the request at work, which the last save
  of a parameter needs to turn into a kept value; `TornInv` follows `port1` as
  long as no write was cut short, by a crash or by `main`'s abort, so that what
  `Listen` finds without one is a text for it, and a bad one is the platform's.
  `KeptInv` alone is not inductive: the file loses every value when it is
  opened, and only `FileInv` gives them back at its `Close`.

Every invariant and every action property that a passing run checks is thus a
theorem. Only model-checked are the queue with two producers, the liveness
properties (`MontageEnds`, `StopEnds`, `PassEnds`, `BrokenIsClosed`, `Heals`,
`RequestIsAnswered`) and the fairness half of `RefinesFifo`: liveness under fairness
is out of this prover's reach. The three statements of the source that runs refute
are model-checked by nature.

## 5. Behaviour no property covers, and what is not modelled

The models also contain the following behaviours of the code. None contradicts
a property above; a reader changing the code should know them.

- *A forgotten picture* (`g2d.cpp:271, 389, 396`). `is_resetting` is set only by
  `reset_state`, after the pictures were scanned. A completion accepted between
  the scan and the reset is cleared although no montage has shown it.
- *A round without a timer* (`g2d.cpp:285, 336`). The first completion of a round
  sets `is_first` while a montage or a reset is under way, so
  `start_montage_timer` returns; the reset leaves `is_first` set.
- *A list cleared late* (`g2d.cpp:467, 594`). `image_paths` is cleared after
  `reset_state` has released `montage_triggered`. When the next montage has been
  triggered meanwhile, the clearing may come after its listing, or while it
  reads the list: its pictures are missing, with no timeout. Two threads in the
  unlocked vector at once are undefined; the model has the clearing before or
  after a whole `Compose`.
- *An open file* (`listen_socket.cpp:1163, 1173`). The completion that triggers a
  montage runs it before it closes its own file.
- *A path that grows* (`ftp_task.cpp:299-300`). Every upload appends its file's
  names to `local_path` and `remot_path`, which are set once (`g2d.cpp:23`): from
  the second montage on `ftpput` is given joined paths. The upload's thread also
  reads `media_path` after the next montage may have set it (266).
- *A torn frame* (`gb28181/SipClient.cpp:2330`). `ringget` gives the slot back
  before it is copied; a producer that fills the ring overwrites it.
- *An overfull ring* (`config.cpp:441`). Two video connections that test `n`
  together leave it above `NMAX`; `CountBounded` says by how much.
- *An old result* (`ReaderLock.cpp:262`). After a timeout a command returns the
  `m_retInfo` of an earlier one; `ReaderInit` does not set it either.
- *A dropped answer* (`ReaderLock.cpp:247-252`). An answer that arrives between
  `send` and `m_nHaveReq = true` is thrown away.
- *A negative length* (`ReaderLock.cpp:101, 259`). The command thread sets
  `m_RecvLen` to 0 while the receiver takes a message out.
- *A recording that is not sent* (`gb28181/SipClient.cpp:2228`).
  `SendFileDataThread` loops while `mQuit` is false; `rtpsendPs_start` starts it
  only while `mQuit` is true and, unlike `SendDataThread`, it does not clear it.
  The loop is not entered, though the comment at 2458 says that pushing starts.
- *An ignored BYE* (`gb28181/SipClient.cpp:1516, 2306`). It is ignored until the
  sender has cleared `mQuit`; the camera is told to stop and then to send.
- *A second ACK* (`gb28181/SipClient.cpp:2466-2474`). While `mQuit` is true and
  the last sender is not joined, the assignment to `pid_thread` ends the process.
- *A late put* (`gb28181/Sipconfig.cpp:671-673`). A producer past its test of
  `usefifo` reaches a ring that has been freed.
- *Two threads in the lock reader* (`jt808.cpp:559`). `func_sendthread` runs
  `send_0315` once at start while `func_recvthread` serves pushes on the same
  `ReaderLock`. `SealLock` can be instantiated with both (`Handlers`);
  `ReturnsOwnAnswer` then fails, because one takes the other's answer, and the
  full state space is too large for a run.
- *A buffer beyond its end* (`listen_socket.cpp:867, 880`). Two readers that test
  the room together write past `serial_buf`'s bytes, over its `length` and what
  follows it. Were the length larger than the capacity, the unsigned room would
  be huge and every later chunk would be let in.
- *A frame for the wrong camera* (`listen_socket.cpp:609, 816`). When the bytes of
  two cameras meet in `serial_buf`, one's parser handles the other's heartbeat
  and gives its direction to its own connection.
- *A wake-up for nothing* (`listen_socket.cpp:609-618`). A chunk that was dropped
  wakes the parser too, and it wakes its own connection's parser only: a frame
  behind another camera's bytes waits for that camera.
- *A reused number* (`listen_socket.cpp:1451, 560`). The heartbeat thread sleeps 15 s
  and the sender 30 s; by then the number they keep may be another camera's,
  which then has two, and one end closes it for both.
- *A closed number in the select set* (`main.cpp:169-185`). Two removals that meet
  can leave one; `select` then fails with EBADF in every round. The clean-up
  there is commented out.
- *A broken video connection* (`listen_socket.cpp:1003-1028`) is never removed, nor
  is a file connection whose camera sent the end flag (930-933), or vanished
  without closing it (918: `recv` has no timeout, and nothing is sent that could
  fail): each keeps its slot of the 50.
- *The camera "Unknown"* (`listen_socket.cpp:1675`). A peer that is gone before `main`
  asks for its address is entered under that name and counted.
- *A silent device* (`gb28181/SipClient.cpp:133, 1575`). It gives up after five
  errors; and a REGISTER that cannot be built or sent is not tried again.
- *Giving up after one refusal* (`gb28181/SipClient.cpp:1575`). A failure removes
  the registration `mRegisterId` names, whichever one failed. When a forgotten
  registration fails while the device's own REGISTER is waiting, the waiting one
  is dropped unanswered and its challenge has been counted; the next one's is
  counted too. The proof of `GivesUpOnRefusals` failed on this; the property
  now says so (`parallel`).
- *A sign-off for good* (`gb28181/SipClient.cpp:1086`). The Boot command sets the
  expiry time to 0 and later registrations use it: each REGISTER signs off.
- *A refresh that never leaves* (`gb28181/SipClient.cpp:298`): `if (!ret)` takes
  success for the error.
- *A torn `config.ini`* (`config.cpp:89`). After a crash in a write, the sections
  that are missing are not in `section_order`: values set there later are in
  memory, `SetToFile` says true, and they are never written. Without `port1`
  `main` is aborted (`stoi`, `main.cpp:143`) at every start.
- *A port that is none* (`main.cpp:143`, `jt808_Pack.cpp:561-567`). Parameter 3 is
  stored as it comes. A text that `stoi` does not take ends the program at its
  next start, before the platform can set another, and every time: the device
  needs a hand-made file. `main` does not wait for `jt808_init`, so its abort can
  also find that thread in the middle of the file, which then loses more.
- *A lost request* (`jt808.cpp:330`). Two requests in one `recv` are one.
- *A reply into nothing* (`jt808.cpp:2053-2079, 568-582`). A `send` that fails
  closes `socket_up` and keeps its number; the result is not looked at and the
  connection is not made again. `func_recvthread` goes on reading from the
  number, which the next camera that connects may have: its bytes are then taken
  for the platform's. `Jt808Params` ends the connection there.
- *Queries without an answer* (`jt808.cpp:99-104`). The reply's definition has
  parameters 1 to 4; a query that names another one is not answered at all. The
  result bytes of 0x0311 do not fit its text fields and are left out, and its
  code is 0 for success from parameter 3 but 1 from 4 and 6.

Not modelled: libjpeg's default error handler, which ends the process on a broken
picture; picture memory and blitting; the FTP upload, which is a shell command; the
firmware update, which nothing starts (the only call of `Get_FTPconfig`,
`listen_socket.cpp:328`, is commented out); compiler reorderings of the plain shared
variables (the loops that read them call functions the compiler cannot see through);
what an unlocked vector or map does under a reader; addresses of 15 characters, for
which `getClientIP` has no room; `SipClientExit`, and what a doubly closed
descriptor hits; that `Packag_0315` has items of other kinds (snapshot, barrier),
which answer with the status so far and touch nothing; the values' text, so that
`parameter04` and `parameter07` show a password and a port in the wrong places is
not in the model; the gate, radar and card drivers, which are one thread's serial
I/O; the components marked `not_modelled` in `PROJECT.json`.

Of the implementation's 577,630 lines all but some 16,000 are vendored: the SIP,
RTP, WebRTC, FTP, JSON and image libraries under `third/` and
`gb28181/third/`, with generated headers among them. The models map a part of
the program's own lines; a share of the whole that is not small is out of reach
without modelling those libraries, which this project does not.

## 6. Plan

Done: the modules and proofs above, in the order of how many threads share how
little protection: montage, ring, lock reader, stream; then connections, camera
messages, registration, settings. Left, in this order:

1. `FtpTask`, composed with `Montage`: the `media_path` and the growing paths a
   detached upload reads while the next montage sets them.
2. A composition of `GbStream` and `Connections` over one table of descriptor
   numbers: what a stale `mSockFd` closes.
3. Packing: the fields of 0x0311 and 0x0313, serial numbers and escaping, as
   functions over bounded messages with their inverses.
4. `Gate`: its two flags.

Theorems wanted: step-by-step refinements beside the ring's. `config.ini` as an
atomic map of settings that a write changes at its end (`Jt808Params` before a
crash in a write); each camera's frames as a lossy queue that keeps their order
(`SerialParse` before two connections' bytes meet); the montage as an
alternation of collecting and composing (`Montage` before a timer's recheck).
