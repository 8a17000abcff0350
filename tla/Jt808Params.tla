----------------------------- MODULE Jt808Params -----------------------------
(***************************************************************************)
(* The device's settings: config.ini (config.cpp) and the JT808 thread     *)
(* that changes and shows them for the platform (func_recvthread, the      *)
(* replies 0x0311 and 0x0313, jt808_Pack.cpp).  Other threads write the    *)
(* same file: a camera's heartbeat saves its address, and at every start   *)
(* jt808_init, on a thread of its own beside main, saves the chip's        *)
(* number before it connects to the platform.                              *)
(*                                                                         *)
(* SetToFile truncates the file and writes all of it again, a line at a    *)
(* time, so a crash in between leaves the lines written so far.  It takes  *)
(* no lock: when two threads are in it at once, one reads the map the      *)
(* other changes, and the behaviour of the program is undefined.  The      *)
(* model stops there, at overlapped.  A crash is one of the process: what  *)
(* was written is in the file.                                             *)
(*                                                                         *)
(* A value is the number of the setting that brought it, 0 the factory's;  *)
(* a step that reads or changes one value of the map is taken as atomic.   *)
(***************************************************************************)
EXTENDS Naturals, Sequences, FiniteSets, SequencesExt

CONSTANTS
  Lists,       \* the parameters a request names: sequences over 3, 4, 6, 7
  Layout,      \* the sections of config.ini, in its order
  BadPorts,    \* the settings whose text for port1 is no number stoi accepts
  MaxSets,     \* a bound: settings by the platform
  MaxCrashes,  \* a bound: crashes of the process
  None         \* no value, no request, nobody

ASSUME ListsKnown == \A list \in Lists : list # <<>> /\ list \in Seq({3, 4, 6, 7})
ASSUME LayoutDistinct == IsInjective(Layout) /\ Layout \in Seq(STRING)
ASSUME FactoryPortGood == BadPorts \subseteq Nat \ {0}
ASSUME BoundsNat == MaxSets \in Nat /\ MaxCrashes \in Nat

\* The settings a parameter stands for, in the order SetParameter saves them.
SettingsOf ==
  [p \in 3..7 |->
     CASE p = 3 -> <<<<"IPC", "port1">>, <<"IPC", "port2">>>>
       [] p = 4 -> <<<<"FTP", "FTP_IP">>, <<"FTP", "FTP_pass">>, <<"FTP", "FTP_port">>,
                     <<"FTP", "FTP_user">>, <<"FTP", "Remot_path">>>>
       [] p = 6 -> <<<<"Gate", "Ip">>, <<"Gate", "Port">>>>
       [] p = 7 -> <<<<"Communication", "Weigh_SerialPort">>,
                     <<"Communication", "Weigh_BaudRate">>>>
       [] OTHER -> <<>>]

\* The heartbeat of camera 1 names its key "IPC" + 1, a pointer one past the I.
CameraKey == <<"IPC", "PC">>
Port1 == <<"IPC", "port1">>
ChipKey == <<"W-800", "W_chipid">>

\* The settings of the model, in the order a map of maps lists them.
Sorted == <<<<"Communication", "Weigh_BaudRate">>, <<"Communication", "Weigh_SerialPort">>,
            <<"FTP", "FTP_IP">>, <<"FTP", "FTP_pass">>, <<"FTP", "FTP_port">>,
            <<"FTP", "FTP_user">>, <<"FTP", "Remot_path">>, <<"Gate", "Ip">>,
            <<"Gate", "Port">>, CameraKey, <<"IPC", "port1">>, <<"IPC", "port2">>, ChipKey>>
Settings == {s \in ToSet(Sorted) : s[1] \in ToSet(Layout)}

Values == 0..MaxSets
Params == UNION {ToSet(list) : list \in Lists}
Threads == {"jt808_init", "jt808", "serial_parse"}

ASSUME LayoutSuffices == /\ {"IPC", "W-800"} \subseteq ToSet(Layout)
                         /\ \A p \in Params : SettingsOf[p][1][1] \in ToSet(Layout)
ASSUME NoneIsNothing == None \notin Values /\ None \notin Threads

VARIABLES
  mode,           \* main: "down", "booting" until it listens, "up", or "aborted"
  jt808,          \* "init" in jt808_init; the connection: "up", "lost" or "off"
  sections,       \* Config::sections, None for a setting it does not have
  section_order,  \* Config::section_order
  file,           \* config.ini: the headers in it, in their order, and the settings after them
  writer,         \* who is in SetToFile with the file open
  next, left,     \* its place: the next section, the settings left of the one before
  inbox,          \* the first of the requests that came since the last recv
  job,            \* the request func_recvthread is at
  reply,          \* what went out for the last one: "none", "whole" or "cut"
  overlapped,     \* two threads were in SetToFile at once
  sets, crashes,  \* so far
  \* Ghosts: read by the properties only.
  kept,           \* for each parameter, what it was last set to with no file error
  torn            \* the process died while it was writing the file

memory == <<mode, sections, section_order>>
place == <<next, left>>
requests == <<jt808, inbox, job, reply, sets>>
ghosts == <<kept, torn>>
vars == <<memory, file, writer, place, requests, overlapped, crashes, ghosts>>

Empty == [s \in Settings |-> None]
Factory == [s \in Settings |-> IF s = CameraKey THEN None ELSE 0]

Init ==
  /\ mode = "down" /\ sections = Empty /\ section_order = <<>>
  /\ file = [headers |-> Layout, values |-> Factory]
  /\ writer = None /\ next = 1 /\ left = {}
  /\ jt808 = "off" /\ inbox = None /\ job = None /\ reply = "none" /\ sets = 0
  /\ overlapped = FALSE /\ crashes = 0
  /\ kept = [p \in Params |-> 0] /\ torn = FALSE

------------------------------------------------------------------------------
(* Config::SetToFile *)

Running == mode \in {"booting", "up"} /\ ~overlapped

\* Faulty variant: the loop over the sections starts at the second.
Open_NotFirst(thread, setting, value) ==
  /\ Running /\ writer # thread
  /\ IF writer # None
     THEN overlapped' = TRUE /\ UNCHANGED <<sections, file, writer, place>>
     ELSE /\ sections' = [sections EXCEPT ![setting] = value]
          /\ file' = [headers |-> <<>>, values |-> Empty]
          /\ writer' = thread /\ next' = 2 /\ left' = {}
          /\ UNCHANGED overlapped
\* The value goes into the map, then the file is opened, which empties it; it
\* may not open, and the map keeps the value.
Open(thread, setting, value) ==
  /\ Running /\ writer # thread
  /\ IF writer # None
     THEN overlapped' = TRUE /\ UNCHANGED <<sections, file, writer, place>>
     ELSE /\ sections' = [sections EXCEPT ![setting] = value]
          /\ file' = [headers |-> <<>>, values |-> Empty]
          /\ writer' = thread /\ next' = 1 /\ left' = {}
          /\ UNCHANGED overlapped

CannotOpen(setting, value) ==
  /\ Running /\ writer = None
  /\ sections' = [sections EXCEPT ![setting] = value]
  /\ UNCHANGED <<file, writer, place, overlapped>>

\* The first of them in the map's order.
First(s) == s \in left /\ \E i \in DOMAIN Sorted :
                            Sorted[i] = s /\ \A j \in 1..(i - 1) : Sorted[j] \notin left

\* One line, flushed by endl: a setting of the section, or the next section of
\* section_order.
WriteLine ==
  /\ Running /\ writer # None
  /\ \/ \E s \in left : /\ First(s)
                        /\ file' = [file EXCEPT !.values[s] = sections[s]]
                        /\ left' = left \ {s} /\ UNCHANGED next
     \/ /\ left = {} /\ next \in DOMAIN section_order
        /\ file' = [file EXCEPT !.headers = Append(@, section_order[next])]
        /\ left' = {s \in Settings : s[1] = section_order[next] /\ sections[s] # None}
        /\ next' = next + 1
  /\ UNCHANGED <<memory, writer, requests, overlapped, crashes, ghosts>>

Written == left = {} /\ next > Len(section_order)

\* Faulty variant: the loop over the sections ends before the last.
Close_Early(thread) ==
  /\ Running /\ writer = thread /\ left = {} /\ next >= Len(section_order)
  /\ writer' = None /\ next' = 1 /\ UNCHANGED left
  /\ UNCHANGED <<sections, file, overlapped>>
Close(thread) ==
  /\ Running /\ writer = thread /\ Written
  /\ writer' = None /\ next' = 1 /\ UNCHANGED left
  /\ UNCHANGED <<sections, file, overlapped>>

------------------------------------------------------------------------------
(* The start of the program, and its end *)

\* main reads the file, then starts the thread of jt808_init.
FileInit ==
  /\ mode \in {"down", "aborted"}
  /\ mode' = "booting" /\ jt808' = "init"
  /\ section_order' = file.headers /\ sections' = file.values
  /\ UNCHANGED <<file, writer, place, inbox, job, reply, sets, overlapped, crashes, ghosts>>

get_chipid ==
  /\ jt808 = "init"
  /\ Open("jt808_init", ChipKey, 0)
  /\ UNCHANGED <<mode, section_order, requests, crashes, ghosts>>

\* get_chipid is over: the number is saved, or cannot be, or was not found.
\* Then the device connects to the platform, or gives up for good.
jt808_connect ==
  /\ Running /\ jt808 = "init"
  /\ \/ Close("jt808_init")
     \/ CannotOpen(ChipKey, 0)
     \/ writer # "jt808_init" /\ UNCHANGED <<sections, file, writer, place, overlapped>>
  /\ jt808' \in {"up", "off"}
  /\ UNCHANGED <<mode, section_order, inbox, job, reply, sets, crashes, ghosts>>

\* The process ends, whatever its threads are at.
Ends(how) ==
  /\ mode' = how /\ sections' = Empty /\ section_order' = <<>>
  /\ writer' = None /\ next' = 1 /\ left' = {}
  /\ jt808' = "off" /\ inbox' = None /\ job' = None /\ reply' = "none"
  /\ torn' = (torn \/ writer # None)
  /\ kept' = [p \in Params |->
                IF writer # None \/ SettingsOf[p][1][1] \notin ToSet(section_order)
                THEN None ELSE kept[p]]
  /\ UNCHANGED <<file, overlapped, sets>>

\* main turns port1 into a number, at any moment of the other thread's work;
\* with none to turn, stoi throws and the process is aborted.
Listen ==
  /\ mode = "booting" /\ Running
  /\ IF sections[Port1] \in BadPorts \cup {None}
     THEN Ends("aborted")
     ELSE /\ mode' = "up"
          /\ UNCHANGED <<sections, section_order, file, writer, place, requests, overlapped, ghosts>>
  /\ UNCHANGED crashes

Crash ==
  /\ Running /\ crashes < MaxCrashes
  /\ crashes' = crashes + 1
  /\ Ends("down")

------------------------------------------------------------------------------
(* The platform and the JT808 thread *)

\* One recv takes all that has come and only its first request is looked at: one
\* that comes after another before the recv is lost.
Push(type, list) ==
  /\ Running /\ jt808 = "up"
  /\ IF type = "set" THEN sets < MaxSets /\ sets' = sets + 1 ELSE UNCHANGED sets
  /\ inbox' = IF inbox # None THEN inbox
              ELSE [type |-> type, params |-> list, value |-> IF type = "set" THEN sets' ELSE 0]
  /\ UNCHANGED <<memory, file, writer, place, jt808, job, reply, overlapped, crashes, ghosts>>

\* The platform closes the connection, or it breaks, and what has come is gone.
Hangup ==
  /\ Running /\ jt808 = "up"
  /\ jt808' = "lost"
  /\ inbox' \in {inbox, None}
  /\ UNCHANGED <<memory, file, writer, place, job, reply, sets, overlapped, crashes, ghosts>>

Idle == Running /\ jt808 \in {"up", "lost"} /\ job = None

\* On a lost connection recv fails once all is taken, every second, with no effect.
jt808_process_receive ==
  /\ Idle /\ inbox # None
  /\ job' = [request |-> inbox, param |-> 1, setting |-> 1, ok |-> TRUE]
  /\ inbox' = None
  /\ reply' = "none"
  /\ kept' = IF inbox.type = "set"
             THEN [p \in Params |-> IF p \in ToSet(inbox.params) THEN None ELSE kept[p]]
             ELSE kept
  /\ UNCHANGED <<memory, file, writer, place, jt808, sets, overlapped, crashes, torn>>

Setting == job # None /\ job.request.type = "set"
           /\ job.param <= Len(job.request.params)
Param == job.request.params[job.param]
Current == SettingsOf[Param][job.setting]

\* Faulty variant: it goes on to a setting that is not there.
Advance_PastEnd(ok) ==
  /\ job' = [job EXCEPT !.setting = @ + 1, !.ok = @ /\ ok]
  /\ UNCHANGED kept
\* Faulty variant: it stays at the parameter.
Advance_Again(ok) ==
  /\ job' = [job EXCEPT !.setting = 1, !.ok = TRUE]
  /\ UNCHANGED kept
\* Faulty variant: the last setting's success hides an earlier failure.
Advance_LastOnly(ok) ==
  IF job.setting < Len(SettingsOf[Param]) /\ (ok \/ Param # 3)
  THEN job' = [job EXCEPT !.setting = @ + 1] /\ UNCHANGED kept
  ELSE /\ job' = [job EXCEPT !.param = @ + 1, !.setting = 1, !.ok = TRUE]
       /\ kept' = [kept EXCEPT ![Param] = job.request.value]
\* SetParameter03 to 07: a failure ends parameter 3, whose second port keeps its
\* old value; the others go on to their next setting.
Advance(ok) ==
  IF job.setting < Len(SettingsOf[Param]) /\ (ok \/ Param # 3)
  THEN job' = [job EXCEPT !.setting = @ + 1, !.ok = @ /\ ok] /\ UNCHANGED kept
  ELSE /\ job' = [job EXCEPT !.param = @ + 1, !.setting = 1, !.ok = TRUE]
       /\ kept' = IF job.ok /\ ok THEN [kept EXCEPT ![Param] = job.request.value] ELSE kept

SetParameter ==
  /\ Setting
  /\ \/ /\ Open("jt808", Current, job.request.value)
        /\ UNCHANGED <<job, kept>>
     \/ CannotOpen(Current, job.request.value) /\ Advance(FALSE)
     \/ Close("jt808") /\ Advance(TRUE)
  /\ UNCHANGED <<mode, section_order, jt808, inbox, reply, sets, crashes, torn>>

\* The kernel takes the reply, or a part of it, or, on a lost connection, refuses
\* it: then the connection is closed, and none is made again.
send_jt808_message ==
  \/ reply' \in {"whole", "cut"} /\ UNCHANGED <<jt808, inbox>>
  \/ jt808 = "lost" /\ jt808' = "off" /\ inbox' = None /\ UNCHANGED reply

\* The reply names the parameters; the results do not fit the text fields of
\* its definition and are left out.  What sending returns is not looked at.
send_0311 ==
  /\ Running /\ job # None /\ job.request.type = "set"
  /\ job.param > Len(job.request.params)
  /\ send_jt808_message
  /\ job' = None
  /\ UNCHANGED <<memory, file, writer, place, sets, overlapped, crashes, ghosts>>

\* The definition of 0x0313 ends at parameter 4: a query for another one, or
\* for several with another among them, cannot be packed and is not answered.
Defined(p) == p <= 4

send_0313 ==
  /\ Running /\ job # None /\ job.request.type = "query"
  /\ IF \A p \in ToSet(job.request.params) : Defined(p)
     THEN send_jt808_message
     ELSE UNCHANGED <<jt808, inbox, reply>>
  /\ job' = None
  /\ UNCHANGED <<memory, file, writer, place, sets, overlapped, crashes, ghosts>>

------------------------------------------------------------------------------
(* process_heart_beat_resp, on the thread serial_parse of a camera *)

Heartbeat ==
  /\ mode = "up"
  /\ \/ Open("serial_parse", CameraKey, 0)
     \/ CannotOpen(CameraKey, 0)
  /\ UNCHANGED <<mode, section_order, requests, crashes, ghosts>>

HeartbeatSaved ==
  /\ mode = "up" /\ Close("serial_parse")
  /\ UNCHANGED <<mode, section_order, requests, crashes, ghosts>>

func_recvthread == jt808_process_receive \/ SetParameter \/ send_0311 \/ send_0313

Next == \/ FileInit \/ get_chipid \/ jt808_connect \/ Listen \/ Crash \/ Hangup
        \/ WriteLine \/ Heartbeat \/ HeartbeatSaved \/ func_recvthread
        \/ \E type \in {"set", "query"}, list \in Lists : Push(type, list)

\* Threads are scheduled; a heartbeat may never come.  SetParameter waits for
\* nobody, and writes are over when the file is.
Fairness == WF_vars(WriteLine) /\ WF_vars(func_recvthread) /\ WF_vars(HeartbeatSaved)

Spec == Init /\ [][Next]_vars /\ Fairness
------------------------------------------------------------------------------
(* Properties *)

Message == [type : {"set", "query"}, params : Lists, value : Values]

\* Type invariant: the thread stays inside its request, the file inside Layout.
TypeOK ==
  /\ mode \in {"down", "booting", "up", "aborted"}
  /\ jt808 \in {"init", "up", "lost", "off"}
  /\ sections \in [Settings -> Values \cup {None}]
  /\ file.values \in [Settings -> Values \cup {None}]
  /\ IsPrefix(section_order, Layout) /\ IsPrefix(file.headers, Layout)
  /\ writer \in Threads \cup {None}
  /\ next \in 1..(Len(Layout) + 1) /\ left \subseteq Settings
  /\ inbox # None => inbox \in Message
  /\ job # None => /\ job.request \in Message
                   /\ job.param \in 1..(Len(job.request.params) + 1)
                   /\ Setting => job.setting \in DOMAIN SettingsOf[Param]
  /\ kept \in [Params -> Values \cup {None}]
  /\ reply \in {"none", "whole", "cut"} /\ overlapped \in BOOLEAN /\ torn \in BOOLEAN
  /\ sets \in 0..MaxSets /\ crashes \in 0..MaxCrashes

Quiet == Running /\ writer = None

\* What a parameter was last set to, with no file error on the way, the device
\* still has: the file too, whoever wrote it since, as long as it has a place
\* for the section, and across a crash that did not fall into a write.
SettingIsKept ==
  Quiet => \A p \in Params : kept[p] # None =>
             \A s \in ToSet(SettingsOf[p]) :
               /\ sections[s] = kept[p]
               /\ s[1] \in ToSet(section_order) => file.values[s] = kept[p]

Saved ==
  /\ file.headers = section_order
  /\ \A s \in Settings : file.values[s] = IF s[1] \in ToSet(section_order) THEN sections[s] ELSE None

\* SetToFile returns with the whole of memory in the file, line by line, though
\* another thread may call it at any of them; only then is the file complete.
SavedIsAll ==
  [][writer # None /\ writer' = None /\ mode' \notin {"down", "aborted"} => Saved']_vars

\* main is aborted at the start only on a text the platform has set, or because
\* the process ended, by a crash or by such an abort, while the file was being
\* written: no other course of saves and starts loses the port.
AbortHasCause ==
  [][mode' = "aborted" => torn' \/ sections[Port1] \in BadPorts]_vars

\* A request that is taken up is answered, whatever becomes of the file, unless
\* it asks for a parameter the reply has no field for, the connection or the
\* program does not last, or the kernel takes a part of the reply only.
RequestIsAnswered ==
  (job # None /\ (job.request.type = "query" => \A p \in ToSet(job.request.params) : p < 5))
    ~> (reply # "none" \/ jt808 \in {"lost", "off"} \/ overlapped)
==============================================================================
