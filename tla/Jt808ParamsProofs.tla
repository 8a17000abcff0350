------------------------- MODULE Jt808ParamsProofs -------------------------
(***************************************************************************)
(* Proofs about Jt808Params, for every layout of config.ini, every set of  *)
(* requests and every bound: the model's types; what a parameter was set   *)
(* to stays; SetToFile returns with all of memory in the file; and main is *)
(* aborted only on a port the platform set, or on a file that a dying      *)
(* process left half written.                                              *)
(*                                                                         *)
(* All rest on one inductive invariant: what is in the file while a thread *)
(* is writing it (FileInv), where a kept value is, in memory, in the file  *)
(* or in both (KeptInv), what func_recvthread has done of its request      *)
(* (JobInv), and where the port main needs is (TornInv).                   *)
(***************************************************************************)
EXTENDS Jt808Params, TLAPS, SequenceTheorems

Started == mode \in {"booting", "up"}

\* The headers of a file or a memory are the first sections of Layout.
Begins(s) == /\ s \in Seq(STRING)
             /\ Len(s) <= Len(Layout)
             /\ \A i \in 1..Len(s) : s[i] = Layout[i]

TypeInv ==
  /\ mode \in {"down", "booting", "up", "aborted"}
  /\ sections \in [Settings -> Values \cup {None}]
  /\ file \in [headers : Seq(STRING), values : [Settings -> Values \cup {None}]]
  /\ Begins(section_order) /\ Begins(file.headers)
  /\ writer \in Threads \cup {None}
  /\ next \in 1..(Len(Layout) + 1) /\ left \subseteq Settings
  /\ jt808 \in {"init", "up", "lost", "off"}
  /\ inbox # None => inbox \in Message
  /\ job # None => /\ Started
                   /\ job \in [request : Message, param : Nat, setting : Nat, ok : BOOLEAN]
                   /\ job.param \in 1..(Len(job.request.params) + 1)
                   /\ Setting => job.setting \in DOMAIN SettingsOf[Param]
  /\ kept \in [Params -> Values \cup {None}]
  /\ reply \in {"none", "whole", "cut"} /\ overlapped \in BOOLEAN /\ torn \in BOOLEAN
  /\ sets \in 0..MaxSets /\ crashes \in 0..MaxCrashes

\* The sections whose headers are in the file that is being written.
Reached == {section_order[i] : i \in 1..(next - 1)}

\* A file that is being written holds memory's value of every setting behind
\* the place of the writer, and no other; one that is closed has all headers.
FileInv ==
  /\ writer # None =>
       /\ Started
       /\ next - 1 <= Len(section_order) /\ Len(file.headers) = next - 1
       /\ \A s \in left : s[1] \in Reached
       /\ \A s \in Settings : s[1] \in Reached /\ s \notin left => file.values[s] = sections[s]
       /\ \A s \in Settings : s[1] \notin Reached => file.values[s] = None
  /\ Started /\ writer = None => file.headers = section_order

\* A kept value is in memory while the program runs, in the file while nobody
\* writes it, and in a file that will be read with its section.
KeptInv ==
  \A p \in Params : kept[p] # None =>
    \A s \in ToSet(SettingsOf[p]) :
      /\ Started => sections[s] = kept[p]
      /\ Started /\ writer = None /\ s[1] \in ToSet(section_order) => file.values[s] = kept[p]
      /\ ~Started => file.values[s] = kept[p] /\ s[1] \in ToSet(file.headers)

\* The parameters of the request at work are unset or set to its value; the
\* settings saved so far of the present parameter have it, unless one failed,
\* and so has the setting that is being saved.
JobInv ==
  /\ job # None /\ job.request.type = "set" =>
       \A p \in ToSet(job.request.params) : kept[p] \in {None, job.request.value}
  /\ Setting /\ job.ok =>
       \A i \in 1..(job.setting - 1) : sections[SettingsOf[Param][i]] = job.request.value
  /\ writer = "jt808" => Setting /\ sections[Current] = job.request.value

\* As long as no write was cut short, the port main needs is in memory, and in
\* the file when nobody writes it.
TornInv ==
  ~torn => /\ ~Started => "IPC" \in ToSet(file.headers) /\ file.values[Port1] # None
           /\ Started => "IPC" \in ToSet(section_order) /\ sections[Port1] # None
           /\ Started /\ writer = None => file.values[Port1] # None

IInv == TypeInv /\ FileInv /\ KeptInv /\ JobInv /\ TornInv

------------------------------------------------------------------------------
(* The settings and the layout *)

\* What SettingsOf lists: settings of one section, those of a parameter its own.
LEMMA SettingFacts ==
  ASSUME NEW p \in {3, 4, 6, 7}
  PROVE  /\ SettingsOf[p] # <<>>
         /\ SettingsOf[p] \in Seq(ToSet(Sorted))
         /\ \A i \in DOMAIN SettingsOf[p] : /\ SettingsOf[p][i][1] = SettingsOf[p][1][1]
                                            /\ SettingsOf[p][i] # CameraKey
                                            /\ SettingsOf[p][i] # ChipKey
         /\ \A q \in {3, 4, 6, 7} \ {p} : \A i \in DOMAIN SettingsOf[p], j \in DOMAIN SettingsOf[q] :
              SettingsOf[p][i] # SettingsOf[q][j]
<1> DEFINE S == ToSet(Sorted)
<1>1. /\ SettingsOf[3] = <<<<"IPC", "port1">>, <<"IPC", "port2">>>>
      /\ SettingsOf[4] = <<<<"FTP", "FTP_IP">>, <<"FTP", "FTP_pass">>, <<"FTP", "FTP_port">>,
                           <<"FTP", "FTP_user">>, <<"FTP", "Remot_path">>>>
      /\ SettingsOf[6] = <<<<"Gate", "Ip">>, <<"Gate", "Port">>>>
      /\ SettingsOf[7] = <<<<"Communication", "Weigh_SerialPort">>,
                           <<"Communication", "Weigh_BaudRate">>>>
  BY DEF SettingsOf
<1>2. /\ \A i \in DOMAIN SettingsOf[3] : SettingsOf[3][i][1] = "IPC"
      /\ \A i \in DOMAIN SettingsOf[4] : SettingsOf[4][i][1] = "FTP"
      /\ \A i \in DOMAIN SettingsOf[6] : SettingsOf[6][i][1] = "Gate"
      /\ \A i \in DOMAIN SettingsOf[7] : SettingsOf[7][i][1] = "Communication"
  BY <1>1
<1>3. SettingsOf[p] # <<>> /\ 1 \in DOMAIN SettingsOf[p]
  BY <1>1
<1>4. SettingsOf[p] \in Seq(S)
  <2>1. <<"IPC", "port1">> \in S /\ <<"IPC", "port2">> \in S
    BY DEF Sorted, ToSet
  <2>2. /\ <<"FTP", "FTP_IP">> \in S /\ <<"FTP", "FTP_pass">> \in S /\ <<"FTP", "FTP_port">> \in S
        /\ <<"FTP", "FTP_user">> \in S /\ <<"FTP", "Remot_path">> \in S
    BY DEF Sorted, ToSet
  <2>3. <<"Gate", "Ip">> \in S /\ <<"Gate", "Port">> \in S
    BY DEF Sorted, ToSet
  <2>4. /\ <<"Communication", "Weigh_SerialPort">> \in S
        /\ <<"Communication", "Weigh_BaudRate">> \in S
    BY DEF Sorted, ToSet
  <2> HIDE DEF S
  <2>5. SettingsOf[3] \in Seq(S)
    BY <1>1, <2>1
  <2>6. SettingsOf[4] \in Seq(S)
    BY <1>1, <2>2
  <2>7. SettingsOf[6] \in Seq(S)
    BY <1>1, <2>3
  <2>8. SettingsOf[7] \in Seq(S)
    BY <1>1, <2>4
  <2> QED
    BY <2>5, <2>6, <2>7, <2>8
<1>5. \A i \in DOMAIN SettingsOf[p] : /\ SettingsOf[p][i] # CameraKey
                                      /\ SettingsOf[p][i] # ChipKey
  BY <1>1 DEF CameraKey, ChipKey
<1>6. /\ "IPC" # "FTP" /\ "IPC" # "Gate" /\ "IPC" # "Communication"
      /\ "FTP" # "Gate" /\ "FTP" # "Communication" /\ "Gate" # "Communication"
  OBVIOUS
<1>7. \A i \in DOMAIN SettingsOf[p] : SettingsOf[p][i][1] = SettingsOf[p][1][1]
  BY <1>2, <1>3
<1>8. ASSUME NEW q \in {3, 4, 6, 7} \ {p}
      PROVE  \A i \in DOMAIN SettingsOf[p], j \in DOMAIN SettingsOf[q] :
               SettingsOf[p][i] # SettingsOf[q][j]
  BY <1>2, <1>6
<1> QED
  BY <1>3, <1>4, <1>5, <1>7, <1>8

\* A parameter of a request, and its settings.
LEMMA ParamFacts ==
  ASSUME NEW p \in Params
  PROVE  /\ p \in {3, 4, 6, 7}
         /\ \A i \in DOMAIN SettingsOf[p] : SettingsOf[p][i] \in Settings
         /\ ToSet(SettingsOf[p]) \subseteq Settings
         /\ \A s \in ToSet(SettingsOf[p]) : /\ s[1] = SettingsOf[p][1][1]
                                            /\ s # CameraKey /\ s # ChipKey
<1>1. p \in {3, 4, 6, 7}
  BY ListsKnown DEF Params, ToSet
<1>2. SettingsOf[p][1][1] \in ToSet(Layout)
  BY LayoutSuffices
<1>3. \A i \in DOMAIN SettingsOf[p] : SettingsOf[p][i] \in ToSet(Sorted)
  BY <1>1, SettingFacts
<1>4. \A i \in DOMAIN SettingsOf[p] : SettingsOf[p][i] \in Settings
  BY <1>1, <1>2, <1>3, SettingFacts DEF Settings
<1> QED
  BY <1>1, <1>4, SettingFacts DEF ToSet

\* Every layout has the port, the camera's address and the chip's number.
LEMMA KeyFacts ==
  /\ Port1 \in Settings /\ CameraKey \in Settings /\ ChipKey \in Settings
  /\ Port1[1] = "IPC" /\ Port1 # CameraKey
<1>1. Port1 \in ToSet(Sorted) /\ CameraKey \in ToSet(Sorted) /\ ChipKey \in ToSet(Sorted)
  BY DEF Port1, CameraKey, ChipKey, Sorted, ToSet
<1>2. Port1[1] = "IPC" /\ CameraKey[1] = "IPC" /\ ChipKey[1] = "W-800" /\ Port1 # CameraKey
  BY DEF Port1, CameraKey, ChipKey
<1> QED
  BY <1>1, <1>2, LayoutSuffices DEF Settings

LEMMA ValueFacts == 0 \in Values /\ None \notin Values /\ 0 # None
BY NoneIsNothing, BoundsNat DEF Values

LEMMA ThreadFacts ==
  /\ "jt808_init" \in Threads /\ "jt808" \in Threads /\ "serial_parse" \in Threads
  /\ "jt808_init" # None /\ "jt808" # None /\ "serial_parse" # None
BY NoneIsNothing DEF Threads

\* The request at work names parameters of Lists, and so do its settings.
LEMMA RequestFacts ==
  ASSUME TypeInv, Setting
  PROVE  /\ Param \in Params /\ Param \in ToSet(job.request.params)
         /\ Current \in Settings /\ Current \in ToSet(SettingsOf[Param])
         /\ job.setting \in DOMAIN SettingsOf[Param]
         /\ DOMAIN SettingsOf[Param] = 1..Len(SettingsOf[Param])
         /\ Len(SettingsOf[Param]) \in Nat
         /\ job.request.value \in Values /\ job.request.value # None
         /\ job.request.params \in Lists
         /\ Current # CameraKey /\ Current # ChipKey
<1>1. /\ job \in [request : Message, param : Nat, setting : Nat, ok : BOOLEAN]
      /\ job.param \in 1..(Len(job.request.params) + 1)
      /\ job.setting \in DOMAIN SettingsOf[Param]
      /\ job.param <= Len(job.request.params)
  BY DEF TypeInv, Setting
<1>2. /\ job.request.params \in Lists /\ job.request.value \in Values
      /\ job.request.params \in Seq({3, 4, 6, 7})
  BY <1>1, ListsKnown DEF Message
<1>3. job.param \in DOMAIN job.request.params
  BY <1>1, <1>2
<1>4. Param \in ToSet(job.request.params) /\ Param \in Params
  BY <1>2, <1>3 DEF Param, ToSet, Params
<1>5. SettingsOf[Param] \in Seq(ToSet(Sorted))
  BY <1>4, ParamFacts, SettingFacts
<1>6. /\ DOMAIN SettingsOf[Param] = 1..Len(SettingsOf[Param])
      /\ Len(SettingsOf[Param]) \in Nat
  BY <1>5
<1>7. Current \in Settings /\ Current \in ToSet(SettingsOf[Param])
  BY <1>1, <1>4, ParamFacts DEF Current, ToSet
<1> QED
  BY <1>1, <1>2, <1>4, <1>6, <1>7, ParamFacts, ValueFacts

------------------------------------------------------------------------------
(* The steps, by what SetToFile does in them *)

\* The setting a thread saves, and its value.
Saves(t, s, v) ==
  \/ t = "jt808_init" /\ s = ChipKey /\ v = 0
  \/ t = "serial_parse" /\ s = CameraKey /\ v = 0
  \/ t = "jt808" /\ Setting /\ s = Current /\ v = job.request.value

\* What its caller does with the result.
Outcome(t, ok) ==
  \/ t = "jt808_init" /\ jt808' \in {"up", "off"} /\ UNCHANGED <<job, kept>>
  \/ t = "serial_parse" /\ UNCHANGED <<jt808, job, kept>>
  \/ t = "jt808" /\ Setting /\ Advance(ok) /\ UNCHANGED jt808

Opens(t, s, v) == /\ Open(t, s, v) /\ Saves(t, s, v)
                  /\ UNCHANGED <<mode, section_order, requests, crashes, ghosts>>
Fails(t, s, v) == /\ CannotOpen(s, v) /\ Saves(t, s, v) /\ Outcome(t, FALSE)
                  /\ UNCHANGED <<mode, section_order, inbox, reply, sets, crashes, torn>>
Closes(t) == /\ Close(t) /\ Outcome(t, TRUE)
             /\ UNCHANGED <<mode, section_order, inbox, reply, sets, crashes, torn>>

\* The process ends, by a crash or because main has no number for the port.
Dies ==
  /\ Running /\ crashes' \in 0..MaxCrashes
  /\ \/ Ends("down")
     \/ Ends("aborted") /\ sections[Port1] \in BadPorts \cup {None}

\* The steps that touch neither the file nor the map.
Listens == /\ mode = "booting" /\ Running /\ mode' = "up"
           /\ UNCHANGED <<sections, section_order, file, writer, place, requests,
                          overlapped, crashes, ghosts>>
Unsaved == /\ Running /\ jt808' \in {"up", "off"}
           /\ UNCHANGED <<memory, file, writer, place, inbox, job, reply, sets,
                          overlapped, crashes, ghosts>>
Asks == \/ Listens \/ Unsaved \/ Hangup
        \/ jt808_process_receive \/ send_0311 \/ send_0313
        \/ \E type \in {"set", "query"}, list \in Lists : Push(type, list)

LEMMA NextCases ==
  ASSUME TypeInv, [Next]_vars
  PROVE  \/ UNCHANGED vars
         \/ FileInit \/ Dies \/ WriteLine \/ Asks
         \/ \E t \in Threads, s \in Settings, v \in Values : Opens(t, s, v) \/ Fails(t, s, v)
         \/ \E t \in Threads : Closes(t)
<1> USE ThreadFacts, KeyFacts, ValueFacts
<1>1. ASSUME get_chipid
      PROVE  Opens("jt808_init", ChipKey, 0)
  BY <1>1 DEF get_chipid, Opens, Saves
<1>2. ASSUME jt808_connect
      PROVE  Closes("jt808_init") \/ Fails("jt808_init", ChipKey, 0) \/ Unsaved
  BY <1>2 DEF jt808_connect, Closes, Fails, Saves, Outcome, Unsaved, ghosts, memory
<1>c. ASSUME Crash
      PROVE  Dies
  BY <1>c, BoundsNat DEF Crash, Dies, TypeInv
<1>l. ASSUME Listen
      PROVE  Dies \/ Listens
  BY <1>l DEF Listen, Listens, Dies, TypeInv
<1>3. ASSUME Heartbeat
      PROVE  Opens("serial_parse", CameraKey, 0) \/ Fails("serial_parse", CameraKey, 0)
  BY <1>3 DEF Heartbeat, Opens, Fails, Saves, Outcome, requests, ghosts
<1>4. ASSUME HeartbeatSaved
      PROVE  Closes("serial_parse")
  BY <1>4 DEF HeartbeatSaved, Closes, Outcome, requests, ghosts
<1>5. ASSUME SetParameter
      PROVE  \/ Opens("jt808", Current, job.request.value)
             \/ Fails("jt808", Current, job.request.value)
             \/ Closes("jt808")
  BY <1>5 DEF SetParameter, Opens, Fails, Closes, Saves, Outcome, requests, ghosts
<1>6. ASSUME SetParameter
      PROVE  Current \in Settings /\ job.request.value \in Values
  BY <1>6, RequestFacts DEF SetParameter
<1> QED
  BY <1>1, <1>2, <1>3, <1>4, <1>5, <1>6, <1>c, <1>l DEF Next, func_recvthread, Asks

\* What is saved is a setting of its own, or the request's.
LEMMA SavesFacts ==
  ASSUME IInv, NEW t \in Threads, NEW s \in Settings, NEW v \in Values, Saves(t, s, v)
  PROVE  \A p \in Params : kept[p] # None /\ s \in ToSet(SettingsOf[p]) => kept[p] = v
<1>1. CASE s \in {CameraKey, ChipKey}
  BY <1>1, ParamFacts
<1>2. CASE Setting /\ s = Current /\ v = job.request.value
  <2> SUFFICES ASSUME NEW p \in Params, kept[p] # None, s \in ToSet(SettingsOf[p])
               PROVE  kept[p] = v
    OBVIOUS
  <2>1. Param \in Params /\ s \in ToSet(SettingsOf[Param]) /\ Param \in ToSet(job.request.params)
    BY <1>2, RequestFacts DEF IInv
  <2>2. p = Param
    <3>1. p \in {3, 4, 6, 7} /\ Param \in {3, 4, 6, 7}
      BY <2>1, ParamFacts
    <3>2. /\ \E i \in DOMAIN SettingsOf[p] : SettingsOf[p][i] = s
          /\ \E j \in DOMAIN SettingsOf[Param] : SettingsOf[Param][j] = s
      BY <2>1 DEF ToSet
    <3> QED
      BY <3>1, <3>2, SettingFacts
  <2> QED
    BY <1>2, <2>1, <2>2 DEF IInv, JobInv, Setting
<1> QED
  BY <1>1, <1>2 DEF Saves

------------------------------------------------------------------------------
(* Types *)

JobType ==
  job # None => /\ Started
                /\ job \in [request : Message, param : Nat, setting : Nat, ok : BOOLEAN]
                /\ job.param \in 1..(Len(job.request.params) + 1)
                /\ Setting => job.setting \in DOMAIN SettingsOf[Param]

\* A request starts a parameter at its first setting, which it has.
LEMMA StartOfParam ==
  ASSUME Started', job' \in [request : Message, param : Nat, setting : Nat, ok : BOOLEAN],
         job'.param \in 1..(Len(job'.request.params) + 1), job'.setting = 1
  PROVE  JobType'
<1>1. SUFFICES ASSUME Setting'
               PROVE  1 \in DOMAIN SettingsOf[Param']
  BY DEF JobType
<1>2. job'.request.params \in Lists /\ job'.request.params \in Seq({3, 4, 6, 7})
  BY ListsKnown DEF Message
<1>3. job'.param \in DOMAIN job'.request.params
  BY <1>1, <1>2 DEF Setting
<1>4. Param' \in Params
  BY <1>2, <1>3 DEF Param, ToSet, Params
<1>5. SettingsOf[Param'] # <<>> /\ SettingsOf[Param'] \in Seq(ToSet(Sorted))
  BY <1>4, ParamFacts, SettingFacts
<1> QED
  BY <1>5

LEMMA AdvanceType ==
  ASSUME TypeInv, Setting, NEW ok \in BOOLEAN, Advance(ok), Started' = Started
  PROVE  JobType' /\ kept' \in [Params -> Values \cup {None}]
<1>1. /\ job \in [request : Message, param : Nat, setting : Nat, ok : BOOLEAN]
      /\ job.param \in 1..(Len(job.request.params) + 1) /\ Started /\ job # None
      /\ job.param <= Len(job.request.params)
      /\ kept \in [Params -> Values \cup {None}]
  BY DEF TypeInv, Setting
<1>2. CASE job.setting < Len(SettingsOf[Param]) /\ (ok \/ Param # 3)
  <2>1. job' = [job EXCEPT !.setting = @ + 1, !.ok = @ /\ ok] /\ kept' = kept
    BY <1>2 DEF Advance
  <2>2. /\ job' \in [request : Message, param : Nat, setting : Nat, ok : BOOLEAN]
        /\ job'.request = job.request /\ job'.param = job.param
        /\ job'.setting = job.setting + 1
    <3>1. (job.ok /\ ok) \in BOOLEAN
      BY <1>1
    <3>2. /\ job' = [job EXCEPT !.setting = job.setting + 1, !.ok = (job.ok /\ ok)]
          /\ job.setting + 1 \in Nat
      BY <1>1, <2>1
    <3> QED
      BY <1>1, <3>1, <3>2, Zenon
  <2>3. Param' = Param
    BY <2>2 DEF Param
  <2>4. job'.setting \in DOMAIN SettingsOf[Param]
    BY <1>1, <1>2, <2>2, RequestFacts
  <2> QED
    BY <1>1, <2>1, <2>2, <2>3, <2>4 DEF JobType
<1>3. CASE ~(job.setting < Len(SettingsOf[Param]) /\ (ok \/ Param # 3))
  <2>1. /\ job' = [job EXCEPT !.param = @ + 1, !.setting = 1, !.ok = TRUE]
        /\ kept' = IF job.ok /\ ok THEN [kept EXCEPT ![Param] = job.request.value] ELSE kept
    BY <1>3 DEF Advance
  <2>2. job.request.params \in Seq({3, 4, 6, 7})
    BY <1>1, ListsKnown DEF Message
  <2>3. /\ job' \in [request : Message, param : Nat, setting : Nat, ok : BOOLEAN]
        /\ job'.param \in 1..(Len(job'.request.params) + 1) /\ job'.setting = 1
    <3>1. job.param + 1 \in 1..(Len(job.request.params) + 1) /\ job.param + 1 \in Nat
      BY <1>1, <2>2
    <3> QED
      BY <1>1, <2>1, <3>1
  <2>4. JobType'
    BY <1>1, <2>3, StartOfParam
  <2>5. kept' \in [Params -> Values \cup {None}]
    BY <1>1, <2>1, RequestFacts
  <2> QED
    BY <2>4, <2>5
<1> QED
  BY <1>2, <1>3

\* One more header: the file still begins as Layout does.
LEMMA HeaderType ==
  ASSUME TypeInv, FileInv, writer # None, next \in DOMAIN section_order
  PROVE  /\ Begins(Append(file.headers, section_order[next]))
         /\ next + 1 \in 1..(Len(Layout) + 1)
<1>1. /\ Begins(section_order) /\ Begins(file.headers) /\ Len(file.headers) = next - 1
      /\ next \in 1..(Len(Layout) + 1)
  BY DEF TypeInv, FileInv
<1>2. next <= Len(Layout) /\ section_order[next] = Layout[next] /\ section_order[next] \in STRING
  BY <1>1 DEF Begins
<1>3. Layout \in Seq(STRING)
  BY LayoutDistinct
<1> QED
  BY <1>1, <1>2, <1>3 DEF Begins

LEMMA TypeStep ==
  ASSUME IInv, [Next]_vars
  PROVE  TypeInv'
<1> USE DEF IInv
<1>1. CASE UNCHANGED vars
  BY <1>1 DEF TypeInv, vars, memory, place, requests, ghosts, Setting, Param, Started
<1>2. CASE FileInit
  <2>1. /\ mode' = "booting" /\ section_order' = file.headers /\ sections' = file.values
        /\ jt808' = "init" /\ UNCHANGED <<file, writer, next, left, inbox, job, reply, sets>>
        /\ UNCHANGED <<overlapped, crashes, kept, torn>>
        /\ job = None
    BY <1>2 DEF FileInit, TypeInv, place, ghosts, Started
  <2>2. /\ sections' \in [Settings -> Values \cup {None}]
        /\ Begins(section_order') /\ Begins(file'.headers)
    BY <2>1 DEF TypeInv
  <2> QED
    BY <2>1, <2>2 DEF TypeInv
<1>3. CASE Dies
  <2>1. PICK how \in {"down", "aborted"} : Ends(how) /\ crashes' \in 0..MaxCrashes
    BY <1>3 DEF Dies
  <2>2. sections' \in [Settings -> Values \cup {None}] /\ Begins(section_order')
    BY <2>1 DEF Ends, Empty, Begins
  <2>3. kept' \in [Params -> Values \cup {None}]
    BY <2>1 DEF Ends, TypeInv
  <2>4. torn' \in BOOLEAN
    BY <2>1, Zenon DEF Ends
  <2>5. next' \in 1..(Len(Layout) + 1) /\ left' \subseteq Settings
    BY <2>1, LayoutDistinct DEF Ends
  <2>6. /\ mode' = how /\ writer' = None /\ job' = None /\ inbox' = None /\ jt808' = "off"
        /\ reply' = "none" /\ UNCHANGED <<file, overlapped, sets>>
    BY <2>1 DEF Ends
  <2> QED
    BY <2>1, <2>2, <2>3, <2>4, <2>5, <2>6 DEF TypeInv
<1>4. CASE WriteLine
  <2>1. \/ \E s \in left : /\ file' = [file EXCEPT !.values[s] = sections[s]]
                           /\ left' = left \ {s} /\ UNCHANGED next
        \/ /\ next \in DOMAIN section_order
           /\ file' = [file EXCEPT !.headers = Append(@, section_order[next])]
           /\ left' \subseteq Settings
           /\ next' = next + 1
    BY <1>4 DEF WriteLine
  <2>2. /\ file' \in [headers : Seq(STRING), values : [Settings -> Values \cup {None}]]
        /\ Begins(file'.headers) /\ next' \in 1..(Len(Layout) + 1) /\ left' \subseteq Settings
    <3>1. /\ file \in [headers : Seq(STRING), values : [Settings -> Values \cup {None}]]
          /\ Begins(file.headers) /\ next \in 1..(Len(Layout) + 1) /\ left \subseteq Settings
          /\ sections \in [Settings -> Values \cup {None}] /\ writer # None
      BY <1>4 DEF TypeInv, WriteLine
    <3>2. CASE \E s \in left : /\ file' = [file EXCEPT !.values[s] = sections[s]]
                               /\ left' = left \ {s} /\ UNCHANGED next
      BY <3>1, <3>2
    <3>3. CASE /\ next \in DOMAIN section_order
               /\ file' = [file EXCEPT !.headers = Append(@, section_order[next])]
               /\ left' \subseteq Settings
               /\ next' = next + 1
      <4>1. /\ Begins(Append(file.headers, section_order[next]))
            /\ next + 1 \in 1..(Len(Layout) + 1)
        BY <3>1, <3>3, HeaderType
      <4>2. file'.headers = Append(file.headers, section_order[next]) /\ file'.values = file.values
        BY <3>1, <3>3
      <4>3. file'.headers \in Seq(STRING)
        BY <4>1, <4>2 DEF Begins
      <4> QED
        BY <3>1, <3>3, <4>1, <4>2, <4>3
    <3> QED
      BY <2>1, <3>2, <3>3
  <2>3. /\ UNCHANGED <<mode, sections, section_order, writer, jt808, inbox, job, reply, sets>>
        /\ UNCHANGED <<overlapped, crashes, kept, torn>>
    BY <1>4 DEF WriteLine, memory, requests, ghosts
  <2> QED
    BY <2>2, <2>3 DEF TypeInv, Setting, Param, Started
<1>5. CASE Asks
  <2>1. /\ UNCHANGED <<sections, section_order, file, writer, next, left>>
        /\ UNCHANGED <<overlapped, crashes, torn>> /\ Started /\ Started'
        /\ mode' \in {"booting", "up"}
    BY <1>5 DEF Asks, jt808_process_receive, send_0311, send_0313, Push, Idle, Hangup, Listens,
                Unsaved, Running, Started, memory, place, ghosts
  <2>0. jt808' \in {"init", "up", "lost", "off"}
    BY <1>5 DEF Asks, jt808_process_receive, send_0311, send_0313, send_jt808_message, Push,
                Hangup, Listens, Unsaved, requests, TypeInv
  <2>2. CASE jt808_process_receive
    <3>1. inbox \in Message
      BY <2>2 DEF jt808_process_receive, TypeInv
    <3>2. /\ job' \in [request : Message, param : Nat, setting : Nat, ok : BOOLEAN]
          /\ job'.param \in 1..(Len(job'.request.params) + 1) /\ job'.setting = 1
      <4>1. inbox.params \in Seq({3, 4, 6, 7})
        BY <3>1, ListsKnown DEF Message
      <4>2. Len(inbox.params) \in Nat
        BY <4>1
      <4>3. job' = [request |-> inbox, param |-> 1, setting |-> 1, ok |-> TRUE]
        BY <2>2 DEF jt808_process_receive
      <4> QED
        BY <3>1, <4>2, <4>3
    <3>3. JobType'
      BY <2>1, <3>2, StartOfParam
    <3>4. kept' \in [Params -> Values \cup {None}]
      BY <2>2 DEF jt808_process_receive, TypeInv
    <3>5. inbox' = None /\ reply' = "none"
      BY <2>2 DEF jt808_process_receive
    <3> QED
      BY <2>0, <2>1, <2>2, <3>3, <3>4, <3>5 DEF TypeInv, JobType, jt808_process_receive
  <2>3. CASE send_0311 \/ send_0313
    <3>1. /\ job' = None /\ UNCHANGED <<kept, sets>>
          /\ reply' \in {"none", "whole", "cut"} /\ inbox' \in {inbox, None}
      BY <2>3 DEF send_0311, send_0313, send_jt808_message, TypeInv, ghosts
    <3> QED
      BY <2>0, <2>1, <3>1 DEF TypeInv
  <2>4. CASE \E type \in {"set", "query"}, list \in Lists : Push(type, list)
    <3>1. PICK type \in {"set", "query"}, list \in Lists : Push(type, list)
      BY <2>4
    <3>2. sets' \in 0..MaxSets
      BY <3>1, BoundsNat DEF Push, TypeInv
    <3>3. [type |-> type, params |-> list,
           value |-> IF type = "set" THEN sets' ELSE 0] \in Message
      BY <3>2, ValueFacts DEF Message, Values
    <3>4. inbox' # None => inbox' \in Message
      BY <3>1, <3>3 DEF Push, TypeInv
    <3> QED
      BY <2>0, <2>1, <3>1, <3>2, <3>4 DEF Push, TypeInv, ghosts, Setting, Param
  <2>5. CASE Listens \/ Unsaved \/ Hangup
    <3>1. /\ UNCHANGED <<job, reply, sets, kept>> /\ inbox' \in {inbox, None}
      BY <2>5 DEF Listens, Unsaved, Hangup, requests, ghosts
    <3> QED
      BY <2>0, <2>1, <3>1 DEF TypeInv, Setting, Param
  <2> QED
    BY <1>5, <2>2, <2>3, <2>4, <2>5 DEF Asks
<1>6. ASSUME NEW t \in Threads, NEW s \in Settings, NEW v \in Values, Opens(t, s, v)
      PROVE  TypeInv'
  <2>1. /\ UNCHANGED <<mode, section_order, jt808, inbox, job, reply, sets, crashes, kept, torn>>
        /\ overlapped' \in BOOLEAN
    BY <1>6 DEF Opens, requests, ghosts, Open, TypeInv
  <2>2. /\ sections' \in [Settings -> Values \cup {None}]
        /\ file' \in [headers : Seq(STRING), values : [Settings -> Values \cup {None}]]
        /\ Begins(file'.headers)
        /\ writer' \in Threads \cup {None}
        /\ next' \in 1..(Len(Layout) + 1) /\ left' \subseteq Settings
    <3>1. CASE writer # None
      BY <1>6, <3>1 DEF Opens, Open, TypeInv, place
    <3>2. CASE writer = None
      <4>1. /\ sections' = [sections EXCEPT ![s] = v]
            /\ file' = [headers |-> <<>>, values |-> Empty]
            /\ writer' = t /\ next' = 1 /\ left' = {}
        BY <1>6, <3>2 DEF Opens, Open
      <4>2. Empty \in [Settings -> Values \cup {None}]
        BY DEF Empty
      <4>3. Begins(<<>>) /\ Len(Layout) \in Nat
        BY LayoutDistinct DEF Begins
      <4>4. sections' \in [Settings -> Values \cup {None}]
        BY <4>1 DEF TypeInv
      <4>5. <<>> \in Seq(STRING)
        OBVIOUS
      <4>6. file' \in [headers : Seq(STRING), values : [Settings -> Values \cup {None}]]
        BY <4>1, <4>2, <4>5
      <4> QED
        BY <4>1, <4>3, <4>4, <4>6
    <3> QED
      BY <3>1, <3>2
  <2> QED
    BY <2>1, <2>2 DEF TypeInv, Setting, Param, Started
<1>7. ASSUME NEW t \in Threads, NEW ok \in BOOLEAN, Outcome(t, ok),
             UNCHANGED <<mode, section_order, inbox, reply, sets, crashes, torn>>
      PROVE  /\ jt808' \in {"init", "up", "lost", "off"}
             /\ JobType' /\ kept' \in [Params -> Values \cup {None}]
  <2>1. CASE t \in {"jt808_init", "serial_parse"}
    BY <1>7, <2>1 DEF Outcome, JobType, TypeInv, Setting, Param, Started
  <2>3. CASE t = "jt808"
    <3>1. Setting /\ Advance(ok) /\ jt808' = jt808 /\ Started' = Started
      BY <1>7, <2>3 DEF Outcome, Started
    <3> QED
      BY <3>1, AdvanceType DEF TypeInv
  <2> QED
    BY <2>1, <2>3 DEF Threads
<1>8. ASSUME NEW t \in Threads, NEW s \in Settings, NEW v \in Values, Fails(t, s, v)
      PROVE  TypeInv'
  <2>1. /\ sections' \in [Settings -> Values \cup {None}]
        /\ UNCHANGED <<file, writer, next, left, overlapped>>
    BY <1>8 DEF Fails, CannotOpen, TypeInv, place
  <2>2. /\ jt808' \in {"init", "up", "lost", "off"}
        /\ JobType' /\ kept' \in [Params -> Values \cup {None}]
        /\ UNCHANGED <<mode, section_order, inbox, reply, sets, crashes, torn>>
    BY <1>7, <1>8 DEF Fails
  <2> QED
    BY <2>1, <2>2 DEF TypeInv, JobType
<1>9. ASSUME NEW t \in Threads, Closes(t)
      PROVE  TypeInv'
  <2>1. writer' = None /\ next' = 1 /\ UNCHANGED <<sections, file, left, overlapped>>
    BY <1>9 DEF Closes, Close
  <2>3. next' \in 1..(Len(Layout) + 1)
    BY <2>1, LayoutDistinct
  <2>2. /\ jt808' \in {"init", "up", "lost", "off"}
        /\ JobType' /\ kept' \in [Params -> Values \cup {None}]
        /\ UNCHANGED <<mode, section_order, inbox, reply, sets, crashes, torn>>
    BY <1>7, <1>9 DEF Closes
  <2> QED
    BY <2>1, <2>2, <2>3 DEF TypeInv, JobType
<1> QED
  BY <1>1, <1>2, <1>3, <1>4, <1>5, <1>6, <1>8, <1>9, NextCases

------------------------------------------------------------------------------
(* The file *)

\* What the steps leave alone that do not enter SetToFile.
LEMMA AsksKeeps ==
  ASSUME Asks
  PROVE  /\ UNCHANGED <<sections, section_order, file, writer, next, left, torn>>
         /\ Started /\ Started' /\ mode' # "aborted"
BY DEF Asks, jt808_process_receive, send_0311, send_0313, Push, Idle, Hangup, Listens, Unsaved,
       Running, memory, place, ghosts, Started

LEMMA DiesStops ==
  ASSUME IInv, Dies
  PROVE  /\ Started /\ ~Started' /\ writer' = None /\ job' = None /\ UNCHANGED file
         /\ torn' = (torn \/ writer # None)
         /\ \A p \in Params : kept'[p] # None =>
              writer = None /\ SettingsOf[p][1][1] \in ToSet(section_order) /\ kept'[p] = kept[p]
         /\ mode' = "aborted" => sections[Port1] \in BadPorts \cup {None}
<1>1. PICK how \in {"down", "aborted"} : Ends(how)
  BY DEF Dies
<1>2. /\ Started /\ ~Started' /\ writer' = None /\ job' = None /\ UNCHANGED file
      /\ torn' = (torn \/ writer # None)
  BY <1>1 DEF Dies, Ends, Running, Started
<1>3. \A p \in Params : kept'[p] # None =>
        writer = None /\ SettingsOf[p][1][1] \in ToSet(section_order) /\ kept'[p] = kept[p]
  BY <1>1 DEF Ends
<1>4. mode' = "aborted" => sections[Port1] \in BadPorts \cup {None}
  BY DEF Dies, Ends
<1> QED BY <1>2, <1>3, <1>4

\* A program that has not started, or no longer runs, writes nothing.
LEMMA FileInitReads ==
  ASSUME IInv, FileInit
  PROVE  /\ writer = None /\ job = None
         /\ ~Started /\ Started' /\ mode' = "booting"
         /\ section_order' = file.headers /\ sections' = file.values
         /\ UNCHANGED <<file, writer, job, kept, torn>>
BY DEF FileInit, IInv, FileInv, TypeInv, Started, requests, ghosts

\* SetToFile is called again while it is at work, and all stays as it is but for
\* overlapped; or it empties the file.
LEMMA OpenCases ==
  ASSUME IInv, NEW t \in Threads, NEW s \in Settings, NEW v \in Values, Opens(t, s, v)
  PROVE  /\ Started /\ writer # t
         /\ UNCHANGED <<mode, section_order, job, kept, torn>>
         /\ \/ UNCHANGED <<sections, file, writer, next, left>> /\ writer # None
            \/ /\ writer = None /\ writer' = t /\ writer' # None
               /\ sections' = [sections EXCEPT ![s] = v]
               /\ file' = [headers |-> <<>>, values |-> Empty]
               /\ next' = 1 /\ left' = {}
BY NoneIsNothing DEF Opens, Open, requests, ghosts, Running, Started, place

\* It fails, and only memory has the new value.
LEMMA FailCases ==
  ASSUME IInv, NEW t \in Threads, NEW s \in Settings, NEW v \in Values, Fails(t, s, v)
  PROVE  /\ Started /\ writer = None
         /\ UNCHANGED <<section_order, file, writer, next, left, torn>>
         /\ sections' = [sections EXCEPT ![s] = v]
         /\ mode' = mode /\ Started'
BY DEF Fails, CannotOpen, Running, Started, place, Outcome

\* It returns, with all of memory in the file.
LEMMA CloseCases ==
  ASSUME IInv, NEW t \in Threads, Closes(t)
  PROVE  /\ Started /\ writer = t /\ writer # None /\ writer' = None
         /\ UNCHANGED <<sections, section_order, file, torn>>
         /\ Saved
         /\ mode' = mode /\ Started'
<1>1. /\ Started /\ writer = t /\ writer # None /\ writer' = None /\ Written
      /\ UNCHANGED <<sections, section_order, file, torn>>
      /\ mode' = mode /\ Started'
  BY NoneIsNothing DEF Closes, Close, Running, Started, place, Outcome
<1>2. /\ Begins(section_order) /\ Begins(file.headers)
      /\ left = {} /\ next - 1 = Len(section_order) /\ Len(file.headers) = Len(section_order)
  BY <1>1 DEF IInv, TypeInv, FileInv, Written, Begins
<1>3. file.headers = section_order
  <2>1. \A i \in 1..Len(section_order) : file.headers[i] = section_order[i]
    BY <1>2 DEF Begins
  <2> QED
    BY <1>2, <2>1, SeqEqual DEF Begins
<1>4. Reached = ToSet(section_order)
  BY <1>2 DEF Reached, ToSet, Begins
<1> QED
  BY <1>1, <1>2, <1>3, <1>4 DEF IInv, FileInv, Saved

\* A line of the file: what is behind the writer's place is memory's still.
LEMMA WriteKeeps ==
  ASSUME IInv, WriteLine
  PROVE  FileInv'
<1>1. /\ Started /\ writer # None /\ UNCHANGED <<mode, sections, section_order, writer>>
      /\ next \in Nat /\ next >= 1 /\ Len(section_order) \in Nat
      /\ section_order \in Seq(STRING) /\ left \subseteq Settings
      /\ file \in [headers : Seq(STRING), values : [Settings -> Values \cup {None}]]
  BY DEF WriteLine, Running, memory, IInv, TypeInv, Started, Begins
<1>2. FileInv
  BY DEF IInv
<1>3. SUFFICES /\ next' - 1 <= Len(section_order) /\ Len(file'.headers) = next' - 1
               /\ \A s \in left' : s[1] \in Reached'
               /\ \A s \in Settings : s[1] \in Reached' /\ s \notin left' =>
                                        file'.values[s] = sections[s]
               /\ \A s \in Settings : s[1] \notin Reached' => file'.values[s] = None
  BY <1>1 DEF FileInv, Started
<1>4. CASE \E s \in left : /\ file' = [file EXCEPT !.values[s] = sections[s]]
                           /\ left' = left \ {s} /\ UNCHANGED next
  <2>1. PICK s \in left : /\ file' = [file EXCEPT !.values[s] = sections[s]]
                          /\ left' = left \ {s} /\ UNCHANGED next
    BY <1>4
  <2>2. /\ file'.headers = file.headers
        /\ \A r \in Settings : file'.values[r] = IF r = s THEN sections[s] ELSE file.values[r]
    BY <1>1, <2>1
  <2>3. Reached' = Reached
    BY <1>1, <2>1 DEF Reached
  <2> QED
    BY <1>1, <1>2, <2>1, <2>2, <2>3 DEF FileInv
<1>5. CASE /\ left = {} /\ next \in DOMAIN section_order
           /\ file' = [file EXCEPT !.headers = Append(@, section_order[next])]
           /\ left' = {s \in Settings : s[1] = section_order[next] /\ sections[s] # None}
           /\ next' = next + 1
  <2>1. /\ file'.headers = Append(file.headers, section_order[next])
        /\ file'.values = file.values
    BY <1>1, <1>5
  <2>2. Reached' = Reached \cup {section_order[next]}
    <3>1. 1..(next' - 1) = 1..(next - 1) \cup {next}
      BY <1>1, <1>5
    <3> QED
      BY <1>1, <3>1 DEF Reached
  <2>3. next' - 1 <= Len(section_order) /\ Len(file'.headers) = next' - 1
    BY <1>1, <1>2, <1>5, <2>1 DEF FileInv
  <2>4. ASSUME NEW s \in Settings, s[1] \in Reached', s \notin left'
        PROVE  file'.values[s] = sections[s]
    <3>1. CASE s[1] \in Reached
      BY <1>1, <1>2, <1>5, <2>1, <3>1 DEF FileInv
    <3>2. CASE s[1] \notin Reached
      BY <1>1, <1>2, <1>5, <2>1, <2>2, <2>4, <3>2 DEF FileInv
    <3> QED
      BY <3>1, <3>2
  <2>5. ASSUME NEW s \in Settings, s[1] \notin Reached'
        PROVE  file'.values[s] = None
    BY <1>1, <1>2, <2>1, <2>2, <2>5 DEF FileInv
  <2> QED
    BY <1>5, <2>2, <2>3, <2>4, <2>5
<1> QED
  BY <1>4, <1>5 DEF WriteLine

LEMMA FileStep ==
  ASSUME IInv, [Next]_vars
  PROVE  FileInv'
<1>1. CASE UNCHANGED vars
  BY <1>1 DEF IInv, FileInv, vars, memory, place, Started, Reached
<1>2. CASE FileInit
  BY <1>2, FileInitReads DEF FileInv
<1>3. CASE Dies
  BY <1>3, DiesStops DEF FileInv
<1>4. CASE WriteLine
  BY <1>4, WriteKeeps
<1>5. CASE Asks
  BY <1>5, AsksKeeps DEF IInv, FileInv, Reached
<1>6. ASSUME NEW t \in Threads, NEW s \in Settings, NEW v \in Values, Opens(t, s, v)
      PROVE  FileInv'
  <2>1. CASE UNCHANGED <<sections, file, writer, next, left>>
    BY <1>6, <2>1, OpenCases DEF IInv, FileInv, Started, Reached
  <2>2. CASE /\ writer = None /\ writer' = t
             /\ file' = [headers |-> <<>>, values |-> Empty]
             /\ next' = 1 /\ left' = {}
    <3>1. Started' /\ section_order' = section_order /\ writer' # None
      BY <1>6, <2>2, OpenCases DEF Started
    <3>2. Reached' = {}
      BY <2>2 DEF Reached
    <3>3. Len(section_order) \in Nat
      BY DEF IInv, TypeInv, Begins
    <3>4. \A r \in Settings : file'.values[r] = None
      BY <2>2 DEF Empty
    <3> QED
      BY <2>2, <3>1, <3>2, <3>3, <3>4 DEF FileInv
  <2> QED
    BY <1>6, <2>1, <2>2, OpenCases
<1>7. ASSUME NEW t \in Threads, NEW s \in Settings, NEW v \in Values, Fails(t, s, v)
      PROVE  FileInv'
  BY <1>7, FailCases DEF IInv, FileInv, Started
<1>8. ASSUME NEW t \in Threads, Closes(t)
      PROVE  FileInv'
  BY <1>8, CloseCases DEF Saved, FileInv
<1> QED
  BY <1>1, <1>2, <1>3, <1>4, <1>5, <1>6, <1>7, <1>8, NextCases DEF IInv

------------------------------------------------------------------------------
(* What is kept *)

\* SetParameter notes a parameter as kept when its last setting is saved.
LEMMA NotedWhenSaved ==
  ASSUME TypeInv, NEW t \in Threads, NEW ok \in BOOLEAN, Outcome(t, ok)
  PROVE  \/ kept' = kept
         \/ /\ t = "jt808" /\ Setting /\ job.ok /\ ok
            /\ job.setting = Len(SettingsOf[Param])
            /\ kept' = [kept EXCEPT ![Param] = job.request.value]
<1>1. CASE t = "jt808_init" \/ t = "serial_parse"
  BY <1>1 DEF Outcome
<1>2. CASE t = "jt808"
  <2>1. Setting /\ Advance(ok)
    BY <1>2 DEF Outcome
  <2>2. /\ job.setting \in 1..Len(SettingsOf[Param]) /\ Len(SettingsOf[Param]) \in Nat
    BY <2>1, RequestFacts
  <2> QED
    BY <1>2, <2>1, <2>2 DEF Advance
<1> QED
  BY <1>1, <1>2 DEF Threads

\* Saving a setting in memory keeps what is kept there.
LEMMA MemoryKeeps ==
  ASSUME IInv, NEW t \in Threads, NEW s \in Settings, NEW v \in Values, Saves(t, s, v),
         sections' = [sections EXCEPT ![s] = v], Started,
         NEW p \in Params, kept[p] # None, NEW r \in ToSet(SettingsOf[p])
  PROVE  sections'[r] = kept[p]
<1>1. sections[r] = kept[p] /\ r \in Settings /\ sections \in [Settings -> Values \cup {None}]
  BY ParamFacts DEF IInv, KeptInv, TypeInv
<1>2. r = s => kept[p] = v
  BY SavesFacts
<1> QED
  BY <1>1, <1>2

LEMMA KeptStep ==
  ASSUME IInv, [Next]_vars
  PROVE  KeptInv'
<1> SUFFICES ASSUME NEW p \in Params, kept'[p] # None, NEW s \in ToSet(SettingsOf[p])
             PROVE  /\ Started' => sections'[s] = kept'[p]
                    /\ Started' /\ writer' = None /\ s[1] \in ToSet(section_order') =>
                         file'.values[s] = kept'[p]
                    /\ ~(Started') => /\ file'.values[s] = kept'[p]
                                      /\ s[1] \in ToSet(file'.headers)
  BY DEF KeptInv
<1>s. s \in Settings /\ s[1] = SettingsOf[p][1][1]
  BY ParamFacts
<1>k. kept[p] # None => /\ Started => sections[s] = kept[p]
                        /\ Started /\ writer = None /\ s[1] \in ToSet(section_order) =>
                             file.values[s] = kept[p]
                        /\ ~Started => file.values[s] = kept[p] /\ s[1] \in ToSet(file.headers)
  BY DEF IInv, KeptInv
<1>1. CASE UNCHANGED vars
  BY <1>1, <1>k DEF vars, memory, place, ghosts, Started
<1>2. CASE FileInit
  BY <1>2, <1>k, FileInitReads
<1>3. CASE Dies
  <2>1. /\ writer = None /\ SettingsOf[p][1][1] \in ToSet(section_order) /\ kept'[p] = kept[p]
        /\ Started /\ ~Started' /\ UNCHANGED file
    BY <1>3, DiesStops
  <2>2. file.headers = section_order
    BY <2>1 DEF IInv, FileInv
  <2> QED
    BY <1>s, <1>k, <2>1, <2>2
<1>4. CASE WriteLine
  BY <1>4, <1>k DEF WriteLine, Running, Started, memory, ghosts
<1>5. CASE Asks
  <2>1. kept'[p] = kept[p]
    BY <1>5 DEF Asks, jt808_process_receive, send_0311, send_0313, Push, Hangup, Listens,
                Unsaved, ghosts
  <2> QED
    BY <1>5, <1>k, <2>1, AsksKeeps
<1>6. ASSUME NEW t \in Threads, NEW r \in Settings, NEW v \in Values, Opens(t, r, v)
      PROVE  /\ Started' => sections'[s] = kept'[p]
             /\ Started' /\ writer' = None /\ s[1] \in ToSet(section_order') =>
                  file'.values[s] = kept'[p]
             /\ Started'
  <2>1. Started /\ mode' = mode /\ kept' = kept /\ Saves(t, r, v) /\ writer' # None
    BY <1>6, OpenCases DEF Opens
  <2>2. CASE UNCHANGED sections
    BY <1>k, <2>1, <2>2 DEF Started
  <2>3. CASE sections' = [sections EXCEPT ![r] = v]
    BY <2>1, <2>3, MemoryKeeps DEF Started
  <2> QED
    BY <1>6, <2>1, <2>2, <2>3, OpenCases
<1>7. ASSUME NEW t \in Threads, NEW r \in Settings, NEW v \in Values, Fails(t, r, v)
      PROVE  /\ Started' => sections'[s] = kept'[p]
             /\ Started' /\ writer' = None /\ s[1] \in ToSet(section_order') =>
                  file'.values[s] = kept'[p]
             /\ Started'
  <2>1. kept' = kept /\ Saves(t, r, v)
    BY <1>7, NotedWhenSaved DEF Fails, IInv
  <2>2. /\ Started /\ writer = None /\ UNCHANGED <<section_order, file, writer>>
        /\ sections' = [sections EXCEPT ![r] = v] /\ Started'
    BY <1>7, FailCases
  <2>3. sections'[s] = kept[p]
    BY <2>1, <2>2, MemoryKeeps
  <2> QED
    BY <1>k, <2>1, <2>2, <2>3
<1>8. ASSUME NEW t \in Threads, Closes(t)
      PROVE  /\ Started' => sections'[s] = kept'[p]
             /\ Started' /\ writer' = None /\ s[1] \in ToSet(section_order') =>
                  file'.values[s] = kept'[p]
             /\ Started'
  <2>1. /\ Started /\ Started' /\ UNCHANGED <<sections, section_order, file>>
        /\ Saved /\ writer = t
    BY <1>8, CloseCases
  <2>2. s[1] \in ToSet(section_order) => file.values[s] = sections[s]
    BY <1>s, <2>1 DEF Saved
  <2>3. sections[s] = kept'[p]
    <3>1. CASE kept' = kept
      BY <1>k, <2>1, <3>1
    <3>2. CASE /\ t = "jt808" /\ Setting /\ job.ok
               /\ job.setting = Len(SettingsOf[Param])
               /\ kept' = [kept EXCEPT ![Param] = job.request.value]
      <4>1. CASE p # Param
        BY <1>k, <2>1, <3>2, <4>1
      <4>2. CASE p = Param
        <5>1. kept'[p] = job.request.value
          BY <3>2, <4>2 DEF IInv, TypeInv
        <5>2. /\ \A i \in 1..(job.setting - 1) : sections[SettingsOf[Param][i]] = job.request.value
              /\ sections[Current] = job.request.value
          BY <2>1, <3>2 DEF IInv, JobInv
        <5>3. DOMAIN SettingsOf[Param] = 1..job.setting /\ job.setting \in Nat
          BY <3>2, RequestFacts DEF IInv
        <5>4. \A i \in DOMAIN SettingsOf[Param] : sections[SettingsOf[Param][i]] = job.request.value
          BY <5>2, <5>3 DEF Current
        <5> QED
          BY <4>2, <5>1, <5>4 DEF ToSet
      <4> QED
        BY <4>1, <4>2
    <3> QED
      BY <1>8, <3>1, <3>2, NotedWhenSaved DEF Closes, IInv
  <2> QED
    BY <2>1, <2>2, <2>3
<1> QED
  BY <1>1, <1>2, <1>3, <1>4, <1>5, <1>6, <1>7, <1>8, NextCases DEF IInv

------------------------------------------------------------------------------
(* The request at work *)

\* The settings of a parameter saved before the one it is at.
SavedSoFar ==
  Setting /\ job.ok =>
    \A i \in 1..(job.setting - 1) : sections[SettingsOf[Param][i]] = job.request.value

\* Saving the camera's address or the chip's number leaves the request's be; its
\* own setting gets its value.
LEMMA SavedSoFarKept ==
  ASSUME IInv, NEW t \in Threads, NEW s \in Settings, NEW v \in Values, Saves(t, s, v),
         sections' = [sections EXCEPT ![s] = v], job' = job
  PROVE  SavedSoFar'
<1> SUFFICES ASSUME Setting, job.ok, NEW i \in 1..(job.setting - 1)
             PROVE  sections'[SettingsOf[Param][i]] = job.request.value
  BY DEF SavedSoFar, Setting, Param
<1>1. i \in DOMAIN SettingsOf[Param] /\ Param \in Params
  BY RequestFacts DEF IInv
<1>2. SettingsOf[Param][i] \in Settings /\ SettingsOf[Param][i] \in ToSet(SettingsOf[Param])
  BY <1>1, ParamFacts DEF ToSet
<1>3. sections[SettingsOf[Param][i]] = job.request.value
  BY DEF IInv, JobInv
<1>4. SettingsOf[Param][i] = s => v = job.request.value
  BY <1>1, <1>2, ParamFacts DEF Saves
<1> QED
  BY <1>2, <1>3, <1>4 DEF IInv, TypeInv

\* What Advance makes of the request: the next setting of the parameter, with
\* the failures so far, or the first one of the next parameter.
LEMMA AdvanceCases ==
  ASSUME TypeInv, Setting, NEW ok \in BOOLEAN, Advance(ok)
  PROVE  /\ job'.request = job.request
         /\ \/ /\ job'.param = job.param /\ job'.setting = job.setting + 1
               /\ job'.ok => job.ok /\ ok
            \/ job'.setting = 1
<1>1. job \in [request : Message, param : Nat, setting : Nat, ok : BOOLEAN]
  BY DEF TypeInv, Setting
<1>2. CASE job' = [job EXCEPT !.setting = @ + 1, !.ok = @ /\ ok]
  <2>1. job'.ok = (job.ok /\ ok)
    BY <1>1, <1>2, Zenon
  <2>2. /\ job'.request = job.request /\ job'.param = job.param
        /\ job'.setting = job.setting + 1
    BY <1>1, <1>2
  <2> QED
    BY <2>1, <2>2
<1>3. CASE job' = [job EXCEPT !.param = @ + 1, !.setting = 1, !.ok = TRUE]
  BY <1>1, <1>3
<1> QED
  BY <1>2, <1>3 DEF Advance

LEMMA JobStep ==
  ASSUME IInv, [Next]_vars
  PROVE  JobInv'
<1> DEFINE Noted == job # None /\ job.request.type = "set" =>
                      \A p \in ToSet(job.request.params) : kept[p] \in {None, job.request.value}
           AtWork == writer = "jt808" => Setting /\ sections[Current] = job.request.value
<1>a. JobInv <=> Noted /\ SavedSoFar /\ AtWork
  BY DEF JobInv, SavedSoFar
<1>b. JobInv' <=> Noted' /\ SavedSoFar' /\ AtWork'
  BY DEF JobInv, SavedSoFar
<1>i. TypeInv /\ JobInv /\ "jt808" # None
  BY ThreadFacts DEF IInv
<1>1. CASE UNCHANGED vars
  BY <1>1, <1>i DEF vars, memory, place, requests, ghosts, JobInv, Setting, Param, Current
<1>2. CASE FileInit
  BY <1>2, <1>i, <1>b, FileInitReads DEF SavedSoFar, Setting
<1>3. CASE Dies
  BY <1>3, <1>i, <1>b, DiesStops DEF SavedSoFar, Setting
<1>4. CASE WriteLine
  BY <1>4, <1>i DEF WriteLine, memory, requests, ghosts, JobInv, Setting, Param, Current
<1>5. CASE Asks
  <2>1. UNCHANGED <<sections, writer>>
    BY <1>5, AsksKeeps
  <2>2. CASE jt808_process_receive
    <3>1. /\ job' = [request |-> inbox, param |-> 1, setting |-> 1, ok |-> TRUE]
          /\ kept' = IF inbox.type = "set"
                     THEN [p \in Params |-> IF p \in ToSet(inbox.params) THEN None ELSE kept[p]]
                     ELSE kept
          /\ job = None /\ inbox # None
      BY <2>2 DEF jt808_process_receive, Idle
    <3>2. Noted'
      <4>2. inbox \in Message
        BY <1>i, <3>1 DEF TypeInv
      <4>3. ToSet(inbox.params) \subseteq Params
        BY <4>2 DEF Message, Params
      <4> QED
        BY <3>1, <4>3
    <3>3. SavedSoFar'
      BY <3>1 DEF SavedSoFar
    <3>4. AtWork'
      BY <1>i, <2>1, <3>1 DEF JobInv, Setting
    <3> QED
      BY <1>b, <3>2, <3>3, <3>4
  <2>3. CASE send_0311 \/ send_0313
    <3>1. job' = None
      BY <2>3 DEF send_0311, send_0313
    <3>2. ~Setting
      <4>1. CASE send_0313
        BY <4>1 DEF send_0313, Setting
      <4>2. CASE send_0311
        <5>1. job.param \in Nat /\ job.param > Len(job.request.params)
              /\ job.request.params \in Seq({3, 4, 6, 7})
          BY <1>i, <4>2, ListsKnown DEF send_0311, TypeInv, Message
        <5> QED
          BY <5>1 DEF Setting
      <4> QED
        BY <2>3, <4>1, <4>2
    <3>3. writer' # "jt808"
      BY <1>i, <2>1, <3>2 DEF JobInv
    <3> QED
      BY <1>b, <3>1, <3>3 DEF SavedSoFar, Setting
  <2>4. CASE \E type \in {"set", "query"}, list \in Lists : Push(type, list)
    BY <1>i, <2>1, <2>4 DEF Push, ghosts, JobInv, Setting, Param, Current
  <2>5. CASE Listens \/ Unsaved \/ Hangup
    <3>1. UNCHANGED <<job, kept>>
      BY <2>5 DEF Listens, Unsaved, Hangup, requests, ghosts
    <3> QED
      BY <1>i, <2>1, <3>1 DEF JobInv, Setting, Param, Current
  <2> QED
    BY <1>5, <2>2, <2>3, <2>4, <2>5 DEF Asks
<1>6. ASSUME NEW t \in Threads, NEW s \in Settings, NEW v \in Values, Opens(t, s, v)
      PROVE  JobInv'
  <2>1. UNCHANGED <<mode, job, kept>> /\ Saves(t, s, v)
    BY <1>6, OpenCases DEF Opens
  <2>2. CASE UNCHANGED <<sections, writer>>
    BY <1>i, <2>1, <2>2 DEF JobInv, Setting, Param, Current
  <2>3. CASE writer' = t /\ sections' = [sections EXCEPT ![s] = v]
    <3>1. SavedSoFar'
      BY <2>1, <2>3, SavedSoFarKept
    <3>2. AtWork'
      <4>1. t = "jt808" => Setting /\ s = Current /\ v = job.request.value
        BY <2>1 DEF Saves
      <4>2. Setting' = Setting /\ Current' = Current
        BY <2>1 DEF Setting, Current, Param
      <4> QED
        BY <1>i, <2>1, <2>3, <4>1, <4>2 DEF TypeInv
    <3>3. Noted'
      BY <1>i, <1>a, <2>1
    <3> QED
      BY <1>b, <3>1, <3>2, <3>3
  <2> QED
    BY <1>6, <2>2, <2>3, OpenCases
<1>7. ASSUME NEW t \in Threads, NEW s \in Settings, NEW v \in Values, Fails(t, s, v)
      PROVE  JobInv'
  <2>1. /\ kept' = kept /\ Saves(t, s, v) /\ Outcome(t, FALSE)
        /\ writer' = None /\ sections' = [sections EXCEPT ![s] = v]
    <3>1. Saves(t, s, v) /\ Outcome(t, FALSE)
      BY <1>7 DEF Fails
    <3>2. writer' = None /\ sections' = [sections EXCEPT ![s] = v]
      BY <1>7, FailCases
    <3> QED
      BY <1>i, <3>1, <3>2, NotedWhenSaved
  <2>2. CASE t \in {"jt808_init", "serial_parse"}
    <3>1. job' = job
      BY <2>1, <2>2 DEF Outcome
    <3> QED
      BY <1>a, <1>b, <1>i, <2>1, <3>1, SavedSoFarKept
  <2>4. CASE t = "jt808"
    <3>1. Setting /\ Advance(FALSE)
      BY <2>1, <2>4 DEF Outcome
    <3>2. /\ job'.request = job.request
          /\ job'.setting = 1 \/ ~job'.ok
      BY <1>i, <3>1, AdvanceCases
    <3>3. SavedSoFar'
      BY <3>2 DEF SavedSoFar
    <3>4. Noted'
      BY <1>a, <1>i, <2>1, <3>1, <3>2 DEF Setting
    <3> QED
      BY <1>b, <1>i, <2>1, <3>3, <3>4
  <2> QED
    BY <2>2, <2>4 DEF Threads
<1>8. ASSUME NEW t \in Threads, Closes(t)
      PROVE  JobInv'
  <2>1. /\ Outcome(t, TRUE) /\ writer = t /\ writer' = None /\ sections' = sections
    BY <1>8, CloseCases DEF Closes
  <2>2. CASE t \in {"jt808_init", "serial_parse"}
    BY <1>i, <2>1, <2>2 DEF Outcome, JobInv, Setting, Param, Current
  <2>4. CASE t = "jt808"
    <3>1. /\ Setting /\ Advance(TRUE)
          /\ sections[Current] = job.request.value
      BY <1>i, <2>1, <2>4 DEF Outcome, JobInv
    <3>2. /\ job'.request = job.request
          /\ \/ job'.param = job.param /\ job'.setting = job.setting + 1 /\ (job'.ok => job.ok)
             \/ job'.setting = 1
      BY <1>i, <3>1, AdvanceCases
    <3>3. SavedSoFar'
      <4>1. CASE job'.setting = 1
        BY <4>1 DEF SavedSoFar
      <4>2. CASE /\ job'.param = job.param /\ job'.setting = job.setting + 1
                 /\ job'.ok => job.ok
        <5>1. Param' = Param
          BY <3>2, <4>2 DEF Param
        <5>2. job.setting \in Nat
          BY <1>i, <3>1 DEF TypeInv, Setting
        <5>3. job.ok => \A i \in 1..(job.setting - 1) :
                          sections[SettingsOf[Param][i]] = job.request.value
          BY <1>i, <3>1 DEF JobInv
        <5>4. job.ok => \A i \in 1..(job'.setting - 1) :
                          sections[SettingsOf[Param][i]] = job.request.value
          BY <3>1, <4>2, <5>2, <5>3 DEF Current
        <5> QED
          BY <2>1, <3>2, <4>2, <5>1, <5>4 DEF SavedSoFar
      <4> QED
        BY <3>2, <4>1, <4>2
    <3>4. Noted'
      <4>1. \/ kept' = kept
            \/ kept' = [kept EXCEPT ![Param] = job.request.value]
        BY <1>i, <2>1, NotedWhenSaved
      <4>2. /\ kept \in [Params -> Values \cup {None}]
            /\ \A p \in ToSet(job.request.params) : kept[p] \in {None, job.request.value}
        BY <1>i, <3>1 DEF TypeInv, JobInv, Setting
      <4>3. ToSet(job.request.params) \subseteq Params
        BY <1>i, <3>1, RequestFacts DEF Params
      <4> QED
        BY <3>2, <4>1, <4>2, <4>3
    <3> QED
      BY <1>b, <1>i, <2>1, <3>3, <3>4
  <2> QED
    BY <2>2, <2>4 DEF Threads
<1> QED
  BY <1>1, <1>2, <1>3, <1>4, <1>5, <1>6, <1>7, <1>8, <1>i, NextCases

------------------------------------------------------------------------------
(* The port main needs *)

LEMMA TornStep ==
  ASSUME IInv, [Next]_vars
  PROVE  TornInv'
<1>i. /\ TornInv /\ Port1 \in Settings /\ None \notin Values
      /\ sections \in [Settings -> Values \cup {None}]
  BY KeyFacts, ValueFacts DEF IInv, TypeInv
<1>1. CASE UNCHANGED vars
  BY <1>1, <1>i DEF vars, memory, ghosts, TornInv, Started
<1>2. CASE FileInit
  BY <1>2, <1>i, FileInitReads DEF TornInv
<1>3. CASE Dies
  <2>1. /\ torn' = (torn \/ writer # None) /\ ~Started' /\ Started /\ UNCHANGED file
    BY <1>3, DiesStops
  <2>2. writer = None => file.headers = section_order
    BY <2>1 DEF IInv, FileInv
  <2> QED
    BY <1>i, <2>1, <2>2 DEF TornInv
<1>4. CASE WriteLine
  BY <1>4, <1>i DEF WriteLine, Running, memory, ghosts, TornInv, Started
<1>5. CASE Asks
  BY <1>5, <1>i, AsksKeeps DEF TornInv, Started
<1>6. ASSUME NEW t \in Threads, NEW s \in Settings, NEW v \in Values, Opens(t, s, v)
      PROVE  TornInv'
  <2>1. /\ Started /\ Started' /\ UNCHANGED <<mode, section_order, torn>> /\ writer' # None
    BY <1>6, OpenCases DEF Started
  <2>2. sections' = sections \/ sections' = [sections EXCEPT ![s] = v]
    BY <1>6, OpenCases
  <2> QED
    BY <1>i, <2>1, <2>2 DEF TornInv, Started
<1>7. ASSUME NEW t \in Threads, NEW s \in Settings, NEW v \in Values, Fails(t, s, v)
      PROVE  TornInv'
  <2>1. /\ Started /\ Started' /\ writer = None /\ UNCHANGED <<section_order, file, torn>>
        /\ sections' = [sections EXCEPT ![s] = v]
    BY <1>7, FailCases
  <2> QED
    BY <1>i, <2>1 DEF TornInv
<1>8. ASSUME NEW t \in Threads, Closes(t)
      PROVE  TornInv'
  <2>1. /\ Started /\ Started' /\ UNCHANGED <<sections, section_order, file, torn>> /\ Saved
    BY <1>8, CloseCases
  <2>2. "IPC" \in ToSet(section_order) => file.values[Port1] = sections[Port1]
    BY <1>i, <2>1, KeyFacts DEF Saved
  <2> QED
    BY <1>i, <2>1, <2>2 DEF TornInv
<1> QED
  BY <1>1, <1>2, <1>3, <1>4, <1>5, <1>6, <1>7, <1>8, NextCases DEF IInv

------------------------------------------------------------------------------
(* The theorems *)

LEMMA Initial == Init => IInv
<1> SUFFICES ASSUME Init
             PROVE  IInv
  OBVIOUS
<1>1. /\ file \in [headers : Seq(STRING), values : [Settings -> Values \cup {None}]]
      /\ file.values = Factory /\ file.headers = Layout
  BY LayoutDistinct, ValueFacts DEF Init, Factory
<1>2. Begins(section_order) /\ Begins(file.headers) /\ Len(Layout) \in Nat
  BY LayoutDistinct DEF Init, Begins
<1>3. TypeInv
  <2>1. /\ sections \in [Settings -> Values \cup {None}] /\ kept \in [Params -> Values \cup {None}]
    BY ValueFacts DEF Init, Empty
  <2>2. next \in 1..(Len(Layout) + 1) /\ sets \in 0..MaxSets /\ crashes \in 0..MaxCrashes
    BY <1>2, BoundsNat DEF Init
  <2>3. /\ mode = "down" /\ writer = None /\ left = {} /\ job = None
        /\ jt808 = "off" /\ inbox = None /\ reply = "none" /\ overlapped = FALSE /\ torn = FALSE
    BY DEF Init
  <2> QED
    BY <1>1, <1>2, <2>1, <2>2, <2>3 DEF TypeInv
<1>4. FileInv
  BY DEF Init, FileInv, Started
<1>5. KeptInv
  <2> SUFFICES ASSUME NEW p \in Params, NEW s \in ToSet(SettingsOf[p])
               PROVE  file.values[s] = kept[p] /\ s[1] \in ToSet(file.headers)
    BY DEF Init, KeptInv, Started
  <2>1. s \in Settings /\ s # CameraKey
    BY ParamFacts
  <2> QED
    BY <1>1, <2>1 DEF Init, Factory, Settings
<1>6. JobInv
  BY ThreadFacts DEF Init, JobInv, Setting
<1>7. TornInv
  BY <1>1, KeyFacts, ValueFacts, LayoutSuffices DEF Init, TornInv, Factory, Started
<1> QED
  BY <1>3, <1>4, <1>5, <1>6, <1>7 DEF IInv

LEMMA Inductive == Spec => []IInv
<1>1. IInv /\ [Next]_vars => IInv'
  BY TypeStep, FileStep, KeptStep, JobStep, TornStep DEF IInv
<1> QED
  BY Initial, <1>1, PTL DEF Spec

LEMMA BeginsIsPrefix == ASSUME NEW s, Begins(s) PROVE IsPrefix(s, Layout)
BY LayoutDistinct DEF Begins, IsPrefix

\* TypeOK: the thread stays inside its request and its parameters' settings, and
\* SetToFile inside the layout.
THEOREM TypeCorrect == Spec => []TypeOK
<1>1. IInv => TypeOK
  <2> SUFFICES ASSUME IInv
               PROVE  TypeOK
    OBVIOUS
  <2>1. IsPrefix(section_order, Layout) /\ IsPrefix(file.headers, Layout)
    BY BeginsIsPrefix DEF IInv, TypeInv
  <2> QED
    BY <2>1 DEF IInv, TypeInv, TypeOK
<1> QED
  BY Inductive, <1>1, PTL

\* SettingIsKept: what a parameter was last set to with no file error stays, in
\* memory and in the file, through saves by other threads and through crashes.
THEOREM SettingIsKeptHolds == Spec => []SettingIsKept
<1>1. IInv => SettingIsKept
  BY DEF IInv, KeptInv, SettingIsKept, Quiet, Running, Started
<1> QED
  BY Inductive, <1>1, PTL

\* AbortHasCause: main is aborted at the start only on a text for port1 that the
\* platform has set, or after the process ended within a write of the file.
THEOREM AbortHasCauseHolds == Spec => AbortHasCause
<1>1. ASSUME IInv, [Next]_vars
      PROVE  [mode' = "aborted" => torn' \/ sections[Port1] \in BadPorts]_vars
  <2> SUFFICES ASSUME mode' = "aborted", ~ UNCHANGED vars
               PROVE  torn' \/ sections[Port1] \in BadPorts
    OBVIOUS
  <2>1. Dies
    <3>1. ~Started'
      BY DEF Started
    <3>2. ~ FileInit /\ ~ WriteLine /\ ~ Asks
      BY <1>1, <3>1, FileInitReads, AsksKeeps DEF WriteLine, Running, memory, Started
    <3>3. ASSUME NEW t \in Threads, NEW s \in Settings, NEW v \in Values,
                 Opens(t, s, v) \/ Fails(t, s, v) \/ Closes(t)
          PROVE  FALSE
      BY <1>1, <3>1, <3>3, OpenCases, FailCases, CloseCases DEF Started
    <3>4. \E s \in Settings : TRUE
      BY KeyFacts
    <3> QED
      BY <1>1, <3>2, <3>3, <3>4, NextCases, ValueFacts DEF IInv
  <2>2. CASE sections[Port1] = None
    BY <1>1, <2>1, <2>2, DiesStops DEF IInv, TornInv
  <2> QED
    BY <1>1, <2>1, <2>2, DiesStops
<1> QED
  BY Inductive, <1>1, PTL DEF Spec, AbortHasCause

\* SavedIsAll: SetToFile returns with all of memory in the file, however many
\* threads call it.
THEOREM SavedIsAllHolds == Spec => SavedIsAll
<1>1. ASSUME IInv, [Next]_vars
      PROVE  [writer # None /\ writer' = None /\ mode' \notin {"down", "aborted"}
                => Saved']_vars
  <2> SUFFICES ASSUME writer # None, writer' = None, mode' \notin {"down", "aborted"}
               PROVE  Saved'
    OBVIOUS
  <2>1. CASE \E t \in Threads : Closes(t)
    <3>1. Saved /\ UNCHANGED <<sections, section_order, file>>
      BY <1>1, <2>1, CloseCases
    <3> QED
      BY <3>1 DEF Saved
  <2>2. ASSUME NEW t \in Threads, NEW s \in Settings, NEW v \in Values,
               Opens(t, s, v) \/ Fails(t, s, v)
        PROVE  FALSE
    BY <1>1, <2>2, OpenCases, FailCases
  <2>3. ~ UNCHANGED vars
    BY DEF vars
  <2>4. ~ FileInit /\ ~ WriteLine /\ ~ Asks
    BY <1>1, FileInitReads, AsksKeeps DEF WriteLine
  <2>5. ~ Dies
    BY DEF Dies, Ends
  <2> QED
    BY <1>1, <2>1, <2>2, <2>3, <2>4, <2>5, NextCases DEF IInv
<1> QED
  BY Inductive, <1>1, PTL DEF Spec, SavedIsAll
=============================================================================
