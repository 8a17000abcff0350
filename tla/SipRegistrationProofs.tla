------------------------ MODULE SipRegistrationProofs ------------------------
(***************************************************************************)
(* Proofs about SipRegistration, for any number of registrations and       *)
(* faults: the types; a device that is not registered and may not register *)
(* waits for an answer or an event, or is in one of three final states; it *)
(* gives up on refusals only; what it forgets is left by failed MESSAGEs.  *)
(***************************************************************************)
EXTENDS SipRegistration, TLAPS, SequenceTheorems, FiniteSetTheorems

Events == {"success", "challenge", "denied", "failure", "messageFailure", "boot"}
RegStates == {"none", "sent", "challenged", "authSent", "denied", "failed", "up"}

\* The events that let the device register or end its wait.
Final == {"success", "failure", "messageFailure"}
\* The events that do neither.
Interim == {"challenge", "denied"}

\* Such an event comes after the k-th.
Pending(k) == \E j \in 1..Len(events) : j > k /\ events[j] \in Final

\* An answer is to come, or none may ever be needed.
Out == \E id \in Regs : Outstanding(regs[id])
Way == notSent \/ Out \/ Denied

Idle == ~mRegistered /\ ~allowReg

StateInv ==
  /\ regs \in [Regs -> RegStates]
  /\ events \in Seq(Events)
  /\ errorCountReg \in Nat

\* NeverStuck's inductive form: Waits speaks of the device now, Covered of what
\* it will be when an interim event has been handled.
Waits == Idle => GaveUp \/ Way \/ Pending(0)
Covered == \A k \in 1..Len(events) : events[k] \in Interim => Way \/ RegisterDue \/ Pending(k)

IInv == StateInv /\ Waits /\ Covered

\* The client's steps, and the rest.
Library == \/ Keepalive \/ AnswerKeepalive \/ Restart \/ Boot
           \/ \E id \in Regs : \/ Repeat(id) \/ Refresh(id) \/ Challenge(id) \/ Accept(id)
                               \/ Refuse(id) \/ Deny(id)

LEMMA NextCases ==
  [Next]_vars <=> \/ UNCHANGED vars
                  \/ Register \/ OnSuccess \/ OnChallenge \/ OnFailure \/ OnMessageFailure
                  \/ request_unregister \/ Library
BY Zenon DEF Next, gb28181_client_func, Library, Answer

------------------------------------------------------------------------------
(* The queue of events *)

LEMMA AppendKeeps ==
  ASSUME StateInv, NEW e \in Events, events' = Append(events, e)
  PROVE  /\ events' \in Seq(Events)
         /\ \A k : Pending(k) => Pending(k)'
         /\ e \in Final => \A k \in 0..Len(events) : Pending(k)'
         /\ \A k \in 1..Len(events)' :
              \/ k \in 1..Len(events) /\ events'[k] = events[k]
              \/ k = Len(events) + 1 /\ events'[k] = e
<1>1. events \in Seq(Events) /\ Len(events) \in Nat
  BY LenProperties DEF StateInv
<1>2. /\ events' \in Seq(Events) /\ Len(events') = Len(events) + 1
      /\ \A k \in 1..Len(events) : events'[k] = events[k]
      /\ events'[Len(events) + 1] = e
  BY <1>1, AppendProperties
<1>3. 1..Len(events) \subseteq 1..Len(events') /\ Len(events) + 1 \in 1..Len(events')
  BY <1>1, <1>2
<1>4. \A k : Pending(k) => Pending(k)'
  BY <1>2, <1>3 DEF Pending
<1>5. ASSUME e \in Final, NEW k \in 0..Len(events) PROVE Pending(k)'
  <2>1. Len(events) + 1 > k
    BY <1>1
  <2> QED BY <1>2, <1>3, <1>5, <2>1 DEF Pending
<1>6. \A k \in 1..Len(events') : k \in 1..Len(events) \/ k = Len(events) + 1
  BY <1>1, <1>2
<1> QED BY <1>2, <1>4, <1>5, <1>6

LEMMA TakeKeeps ==
  ASSUME StateInv, NEW types, Take(types)
  PROVE  /\ events' \in Seq(Events) /\ ~RegisterDue
         /\ events[1] \in types /\ 1 \in 1..Len(events)
         /\ \A k \in 0..Len(events)' : Pending(k + 1) => Pending(k)'
         /\ events[1] \notin Final /\ Pending(0) => Pending(0)'
         /\ \A k \in 1..Len(events)' : k + 1 \in 1..Len(events) /\ events'[k] = events[k + 1]
<1>1. events \in Seq(Events) /\ events # <<>> /\ events' = Tail(events) /\ Head(events) \in types
  BY Zenon DEF StateInv, Take
<1>2. Len(events) \in Nat /\ Len(events) >= 1 /\ Len(events) # 0
  BY <1>1, LenProperties, EmptySeq
<1>3. /\ Head(events) = events[1] /\ Tail(events) \in Seq(Events)
      /\ Len(Tail(events)) = Len(events) - 1
      /\ \A k \in 1..Len(Tail(events)) : Tail(events)[k] = events[k + 1]
  BY <1>1, HeadTailProperties
<1>4. /\ events' \in Seq(Events) /\ Len(events') = Len(events) - 1
      /\ \A k \in 1..Len(events') : k + 1 \in 1..Len(events) /\ events'[k] = events[k + 1]
  BY <1>1, <1>2, <1>3
<1>5. ASSUME NEW k \in Nat, NEW j \in 1..Len(events), j > k + 1
      PROVE  j - 1 \in 1..Len(events') /\ j - 1 > k /\ events'[j - 1] = events[j]
  <2>1. j - 1 \in 1..Len(events') /\ j - 1 > k /\ (j - 1) + 1 = j
    BY <1>2, <1>4, <1>5
  <2> QED BY <1>4, <2>1
<1>6. \A k \in 0..Len(events') : Pending(k + 1) => Pending(k)'
  BY <1>5 DEF Pending
<1>7. ASSUME events[1] \notin Final, Pending(0) PROVE Pending(0)'
  <2>1. PICK j \in 1..Len(events) : events[j] \in Final
    BY <1>7 DEF Pending
  <2>2. j > 0 + 1
    BY <1>7, <2>1
  <2>3. Pending(0 + 1)
    BY <2>1, <2>2 DEF Pending
  <2>4. 0 \in 0..Len(events')
    BY <1>2, <1>4
  <2> QED BY <1>6, <2>3, <2>4
<1>8. ~RegisterDue
  BY Zenon DEF Take
<1>9. 1 \in 1..Len(events) /\ events[1] \in types
  BY <1>1, <1>2, <1>3
<1> QED BY <1>4, <1>6, <1>7, <1>8, <1>9

\* While the client does nothing, what an event is covered by stays.
LEMMA CoveredAppend ==
  ASSUME StateInv, Covered, Way => Way', RegisterDue => RegisterDue',
         NEW e \in Events, events' = Append(events, e), e \in Interim => Way'
  PROVE  Covered'
<1>1. /\ \A k : Pending(k) => Pending(k)'
      /\ \A k \in 1..Len(events)' :
           \/ k \in 1..Len(events) /\ events'[k] = events[k]
           \/ k = Len(events) + 1 /\ events'[k] = e
  BY AppendKeeps
<1> SUFFICES ASSUME NEW k \in 1..Len(events)', events'[k] \in Interim
             PROVE  Way' \/ RegisterDue' \/ Pending(k)'
  BY DEF Covered
<1>2. CASE k \in 1..Len(events) /\ events'[k] = events[k]
  <2>1. Way \/ RegisterDue \/ Pending(k)
    BY <1>2 DEF Covered
  <2> QED BY <1>1, <2>1
<1>3. CASE events'[k] = e
  BY <1>3
<1> QED BY <1>1, <1>2, <1>3

LEMMA CoveredTake ==
  ASSUME StateInv, Covered, NEW types, Take(types), Way => Way' \/ RegisterDue'
  PROVE  Covered'
<1>1. /\ ~RegisterDue
      /\ \A k \in 0..Len(events)' : Pending(k + 1) => Pending(k)'
      /\ \A k \in 1..Len(events)' : k + 1 \in 1..Len(events) /\ events'[k] = events[k + 1]
      /\ events' \in Seq(Events)
  BY TakeKeeps
<1> SUFFICES ASSUME NEW k \in 1..Len(events)', events'[k] \in Interim
             PROVE  Way' \/ RegisterDue' \/ Pending(k)'
  BY DEF Covered
<1>2. k \in 0..Len(events)'
  BY <1>1, LenProperties
<1>3. Way \/ Pending(k + 1)
  BY <1>1 DEF Covered
<1> QED BY <1>1, <1>2, <1>3
------------------------------------------------------------------------------
(* The library's and the platform's steps *)

LEMMA LibraryClient ==
  ASSUME Library
  PROVE  /\ UNCHANGED errorCountReg
         /\ (Idle' => Idle) /\ (GaveUp => GaveUp') /\ (RegisterDue => RegisterDue')
         /\ (notSent => notSent')
<1>1. UNCHANGED <<client, notSent>>
  BY Zenon DEF Library, Keepalive, AnswerKeepalive, Restart, Boot, Repeat, Refresh, Challenge,
               Accept, Refuse, Deny, ghosts
<1>2. UNCHANGED <<allowReg, mRegistered>>
  BY <1>1, Zenon DEF client
<1>3. UNCHANGED errorCountReg
  BY <1>1, Zenon DEF client
<1>4. (Idle' => Idle) /\ (RegisterDue => RegisterDue')
  BY <1>2, Zenon DEF Idle, RegisterDue
<1>5. notSent => notSent'
  BY <1>1, Zenon
<1>6. GaveUp => GaveUp'
  BY <1>3 DEF GaveUp
<1> QED BY <1>3, <1>4, <1>5, <1>6

\* What such a step does to the registrations and the events.
LEMMA LibraryCases ==
  ASSUME StateInv, Library
  PROVE  /\ regs' \in [Regs -> RegStates]
         /\ \/ UNCHANGED events /\ (Way => Way')
            \/ \E e \in Events : /\ events' = Append(events, e) /\ (Way => Way')
                                 /\ e \in Interim => Way'
            \/ \E e \in Final : events' = Append(events, e)
<1>1. notSent => notSent'
  BY LibraryClient
<1>2. ASSUME UNCHANGED regs PROVE regs' \in [Regs -> RegStates] /\ (Way => Way')
  <2>1. (Out => Out') /\ (Denied => Denied')
    BY <1>2 DEF Out, Denied
  <2>2. Way => Way'
    BY <1>1, <2>1, Zenon DEF Way
  <2> QED BY <1>2, <2>2 DEF StateInv
<1>3. ASSUME NEW id \in Regs, NEW s \in RegStates, regs' = [regs EXCEPT ![id] = s]
      PROVE  /\ regs' \in [Regs -> RegStates]
             /\ Outstanding(s) \/ s = "denied" => Way'
  <2>1. regs' \in [Regs -> RegStates] /\ regs'[id] = s
    BY <1>3 DEF StateInv
  <2>2. Outstanding(s) => Out'
    BY <2>1 DEF Out
  <2>3. s = "denied" => Denied'
    BY <2>1 DEF Denied
  <2> QED BY <2>1, <2>2, <2>3, Zenon DEF Way
<1>4. CASE Keepalive
  <2>1. UNCHANGED <<regs, events>>
    BY <1>4 DEF Keepalive
  <2> QED BY <1>2, <2>1
<1>5. CASE Restart
  <2>1. UNCHANGED <<regs, events>>
    BY <1>5 DEF Restart, library
  <2> QED BY <1>2, <2>1
<1>6. CASE Boot
  <2>1. UNCHANGED regs /\ events' = Append(events, "boot")
    BY <1>6 DEF Boot, Notify
  <2>2. "boot" \in Events /\ "boot" \notin Interim
    BY DEF Events, Interim
  <2> QED BY <1>2, <2>1, <2>2
<1>7. CASE AnswerKeepalive
  <2>1. UNCHANGED regs
    BY <1>7 DEF AnswerKeepalive
  <2>2. UNCHANGED events \/ events' = Append(events, "messageFailure")
    BY <1>7 DEF AnswerKeepalive, Notify
  <2> QED BY <1>2, <2>1, <2>2 DEF Final
<1>8. ASSUME NEW id \in Regs, Repeat(id) \/ Refresh(id)
      PROVE  regs' \in [Regs -> RegStates] /\ UNCHANGED events /\ (Way => Way')
  <2>1. regs' = [regs EXCEPT ![id] = "authSent"] /\ UNCHANGED events
    BY <1>8 DEF Repeat, Refresh
  <2> QED BY <1>3, <2>1 DEF RegStates, Outstanding
<1>9. ASSUME NEW id \in Regs, Challenge(id)
      PROVE  regs' \in [Regs -> RegStates] /\ events' = Append(events, "challenge") /\ Way'
  <2>1. regs' = [regs EXCEPT ![id] = "challenged"] /\ events' = Append(events, "challenge")
    BY <1>9 DEF Challenge, Notify
  <2> QED BY <1>3, <2>1 DEF RegStates, Outstanding
<1>10. ASSUME NEW id \in Regs, Deny(id)
       PROVE  regs' \in [Regs -> RegStates] /\ events' = Append(events, "denied") /\ Way'
  <2>1. regs' = [regs EXCEPT ![id] = "denied"] /\ events' = Append(events, "denied")
    BY <1>10 DEF Deny, Notify
  <2> QED BY <1>3, <2>1 DEF RegStates
<1>11. ASSUME NEW id \in Regs, Accept(id)
       PROVE  regs' \in [Regs -> RegStates] /\ events' = Append(events, "success")
  <2>1. \E s \in {"none", "up"} : regs' = [regs EXCEPT ![id] = s]
    BY <1>11 DEF Accept
  <2>2. events' = Append(events, "success")
    BY <1>11 DEF Accept, Notify
  <2> QED BY <1>3, <2>1, <2>2 DEF RegStates
<1>12. ASSUME NEW id \in Regs, Refuse(id)
       PROVE  regs' \in [Regs -> RegStates] /\ events' = Append(events, "failure")
  <2>1. regs' = [regs EXCEPT ![id] = "failed"] /\ events' = Append(events, "failure")
    BY <1>12 DEF Refuse, Notify
  <2> QED BY <1>3, <2>1 DEF RegStates
<1> QED BY <1>4, <1>5, <1>6, <1>7, <1>8, <1>9, <1>10, <1>11, <1>12
        DEF Library, Events, Final, Interim

LEMMA LibraryStep ==
  ASSUME IInv, Library
  PROVE  IInv'
<1>1. StateInv /\ Waits /\ Covered
  BY DEF IInv
<1>2. /\ UNCHANGED errorCountReg
      /\ (Idle' => Idle) /\ (GaveUp => GaveUp') /\ (RegisterDue => RegisterDue')
  BY LibraryClient
<1>3. regs' \in [Regs -> RegStates]
  BY <1>1, LibraryCases
<1>4. CASE UNCHANGED events /\ (Way => Way')
  <2>1. \A k : Pending(k)' <=> Pending(k)
    BY <1>4 DEF Pending
  <2>2. Waits'
    BY <1>1, <1>2, <1>4, <2>1 DEF Waits
  <2>3. Covered'
    BY <1>1, <1>2, <1>4, <2>1 DEF Covered
  <2> QED BY <1>1, <1>2, <1>3, <1>4, <2>2, <2>3 DEF IInv, StateInv
<1>5. ASSUME NEW e \in Events, events' = Append(events, e), Way => Way', e \in Interim => Way'
      PROVE  IInv'
  <2>1. events' \in Seq(Events) /\ (Pending(0) => Pending(0)')
    BY <1>1, <1>5, AppendKeeps
  <2>2. Waits'
    BY <1>1, <1>2, <1>5, <2>1 DEF Waits
  <2>3. Covered'
    BY <1>1, <1>2, <1>5, CoveredAppend
  <2> QED BY <1>1, <1>2, <1>3, <2>1, <2>2, <2>3 DEF IInv, StateInv
<1>6. ASSUME NEW e \in Final, events' = Append(events, e) PROVE IInv'
  <2>1. e \in Events /\ e \notin Interim /\ Len(events) \in Nat
    BY <1>1, LenProperties DEF Final, Events, Interim, StateInv
  <2>2. /\ events' \in Seq(Events) /\ \A k \in 0..Len(events) : Pending(k)'
        /\ \A k \in 1..Len(events)' :
              \/ k \in 1..Len(events) /\ events'[k] = events[k]
              \/ k = Len(events) + 1 /\ events'[k] = e
    BY <1>1, <1>6, <2>1, AppendKeeps
  <2>3. Waits'
    <3>1. 0 \in 0..Len(events)
      BY <2>1
    <3> QED BY <2>2, <3>1 DEF Waits
  <2>4. Covered'
    <3> SUFFICES ASSUME NEW k \in 1..Len(events)', events'[k] \in Interim PROVE Pending(k)'
      BY DEF Covered
    <3>1. k \in 1..Len(events)
      BY <2>1, <2>2
    <3>2. k \in 0..Len(events)
      BY <2>1, <3>1
    <3> QED BY <2>2, <3>2
  <2> QED BY <1>1, <1>2, <1>3, <2>2, <2>3, <2>4 DEF IInv, StateInv
<1> QED BY <1>1, <1>4, <1>5, <1>6, LibraryCases

------------------------------------------------------------------------------
(* The client's steps *)

\* A REGISTER is under way, or did not get out.
LEMMA NewRegisterWay ==
  ASSUME NEW kept \in [Regs -> RegStates], NEW expires, NewRegister(kept, expires)
  PROVE  Way' /\ regs' \in [Regs -> RegStates]
<1>1. ASSUME NEW id \in Regs, regs' = [kept EXCEPT ![id] = "sent"]
      PROVE  Out' /\ regs' \in [Regs -> RegStates]
  <2>1. regs'[id] = "sent" /\ regs' \in [Regs -> RegStates]
    BY <1>1 DEF RegStates
  <2> QED BY <2>1 DEF Out, Outstanding
<1>2. ASSUME NEW id \in Regs, regs' = [kept EXCEPT ![id] = "failed"]
      PROVE  regs' \in [Regs -> RegStates]
  BY <1>2 DEF RegStates
<1>3. \/ \E id \in Regs : regs' = [kept EXCEPT ![id] = "sent"]
      \/ \E id \in Regs : regs' = [kept EXCEPT ![id] = "failed"] /\ notSent'
      \/ notSent' /\ regs' = kept
  BY Zenon DEF NewRegister, NotSent
<1>4. Out' \/ notSent'
  BY <1>1, <1>3
<1>5. regs' \in [Regs -> RegStates]
  BY <1>1, <1>2, <1>3
<1> QED BY <1>4, <1>5, Zenon DEF Way

LEMMA RegisterWay ==
  ASSUME StateInv, Register
  PROVE  /\ Way' /\ regs' \in [Regs -> RegStates] /\ UNCHANGED <<errorCountReg, events>>
<1>1. UNCHANGED <<errorCountReg, events>> /\ NewRegister(regs, regExpires)
  BY Zenon DEF Register
<1>2. regs \in [Regs -> RegStates]
  BY Zenon DEF StateInv
<1> QED BY <1>1, <1>2, NewRegisterWay

LEMMA UnregisterWay ==
  ASSUME StateInv, request_unregister
  PROVE  /\ Way' /\ regs' \in [Regs -> RegStates] /\ UNCHANGED errorCountReg
         /\ Take({"boot"})
<1> DEFINE kept == IF mRegistered /\ mRegisterId \in Regs
                   THEN [regs EXCEPT ![mRegisterId] = "none"] ELSE regs
<1>1. UNCHANGED errorCountReg /\ Take({"boot"}) /\ NewRegister(kept, FALSE)
  BY Zenon DEF request_unregister
<1>2. kept \in [Regs -> RegStates]
  BY DEF StateInv, RegStates
<1> HIDE DEF kept
<1> QED BY <1>1, <1>2, NewRegisterWay

\* The registrations stand, and so does the way out.
LEMMA WayStays ==
  ASSUME UNCHANGED regs, notSent => notSent'
  PROVE  Way => Way'
<1>1. (Out => Out') /\ (Denied => Denied')
  BY DEF Out, Denied
<1> QED BY <1>1, Zenon DEF Way

LEMMA ClientStep ==
  ASSUME IInv, Register \/ OnSuccess \/ OnChallenge \/ OnFailure \/ OnMessageFailure
                 \/ request_unregister
  PROVE  IInv'
<1>1. StateInv /\ Waits /\ Covered
  BY DEF IInv
<1>2. CASE Register
  BY <1>1, <1>2, RegisterWay DEF IInv, StateInv, Waits, Covered
<1>3. CASE request_unregister
  <2>1. events' \in Seq(Events)
    BY <1>1, <1>3, UnregisterWay, TakeKeeps
  <2> QED BY <1>1, <1>3, <2>1, UnregisterWay DEF IInv, StateInv, Waits, Covered
<1>4. CASE OnSuccess
  <2>1. /\ Take({"success"}) /\ UNCHANGED regs /\ (notSent => notSent') /\ errorCountReg' = 0
        /\ ~Idle'
    BY <1>4, Zenon DEF OnSuccess, Idle
  <2>2. Covered'
    BY <1>1, <2>1, WayStays, CoveredTake
  <2>3. events' \in Seq(Events)
    BY <1>1, <2>1, TakeKeeps
  <2> QED BY <1>1, <2>1, <2>2, <2>3 DEF IInv, StateInv, Waits
<1>5. CASE OnChallenge
  <2>1. /\ Take(Interim) /\ UNCHANGED regs /\ (notSent => notSent')
        /\ errorCountReg' = errorCountReg + 1
    BY <1>5, Zenon DEF OnChallenge, Interim
  <2>2. Way => Way'
    BY <2>1, WayStays
  <2>3. Covered'
    BY <1>1, <2>1, <2>2, CoveredTake
  <2>4. /\ events' \in Seq(Events) /\ ~RegisterDue /\ events[1] \in Interim
        /\ 1 \in 1..Len(events) /\ \A k \in 0..Len(events)' : Pending(k + 1) => Pending(k)'
    BY <1>1, <2>1, TakeKeeps
  <2>5. Way \/ Pending(1)
    BY <1>1, <2>4 DEF Covered
  <2>6. Pending(0 + 1) => Pending(0)'
    <3>1. 0 \in 0..Len(events)'
      BY <2>4, LenProperties
    <3> QED BY <2>4, <3>1
  <2>7. Waits'
    BY <2>2, <2>5, <2>6 DEF Waits
  <2> QED BY <1>1, <2>1, <2>3, <2>4, <2>7 DEF IInv, StateInv
<1>6. CASE OnFailure
  <2>1. /\ Take({"failure"}) /\ (notSent => notSent')
        /\ errorCountReg' = errorCountReg + 1 /\ ~mRegistered'
        /\ allowReg' \/ (~(errorCountReg' < MaxErrors) /\ UNCHANGED regs)
    BY <1>6, Zenon DEF OnFailure
  <2>2. regs' = regs \/ regs' = [regs EXCEPT ![mRegisterId] = "none"]
    BY <1>6, Zenon DEF OnFailure, Remove
  <2>3. events' \in Seq(Events)
    BY <1>1, <2>1, TakeKeeps
  <2>4. StateInv'
    BY <1>1, <2>1, <2>2, <2>3 DEF StateInv, RegStates
  <2>5. CASE allowReg'
    <3>1. ~Idle' /\ RegisterDue'
      BY <2>1, <2>5, Zenon DEF Idle, RegisterDue
    <3>2. Covered'
      BY <1>1, <2>1, <3>1, CoveredTake
    <3> QED BY <2>4, <3>1, <3>2 DEF IInv, Waits
  <2>6. CASE ~(errorCountReg' < MaxErrors) /\ UNCHANGED regs
    <3>1. GaveUp'
      BY <2>4, <2>6 DEF StateInv, GaveUp, MaxErrors
    <3>2. Covered'
      BY <1>1, <2>1, <2>6, WayStays, CoveredTake
    <3> QED BY <2>4, <3>1, <3>2 DEF IInv, Waits
  <2> QED BY <2>1, <2>5, <2>6
<1>7. CASE OnMessageFailure
  <2>1. /\ Take({"messageFailure"}) /\ UNCHANGED <<regs, errorCountReg>>
        /\ ~Idle' /\ RegisterDue'
    BY <1>7, Zenon DEF OnMessageFailure, Idle, RegisterDue
  <2>2. Covered'
    BY <1>1, <2>1, CoveredTake
  <2>3. events' \in Seq(Events)
    BY <1>1, <2>1, TakeKeeps
  <2> QED BY <1>1, <2>1, <2>2, <2>3 DEF IInv, StateInv, Waits
<1> QED BY <1>2, <1>3, <1>4, <1>5, <1>6, <1>7

------------------------------------------------------------------------------
(* The theorem *)

LEMMA IInvInit == Init => IInv
<1>1. Init => StateInv
  BY DEF Init, StateInv, RegStates
<1>2. Init => Waits
  BY Zenon DEF Init, Waits, Idle
<1>3. Init => Covered
  BY EmptySeq DEF Init, Covered
<1> QED BY <1>1, <1>2, <1>3 DEF IInv

LEMMA IInvStep == IInv /\ [Next]_vars => IInv'
<1> SUFFICES ASSUME IInv, [Next]_vars PROVE IInv'
  OBVIOUS
<1>1. CASE UNCHANGED vars
  <2>1. UNCHANGED <<regs, events, errorCountReg>>
    BY <1>1, Zenon DEF vars, client, library
  <2>2. (Idle' => Idle) /\ (RegisterDue => RegisterDue') /\ (notSent => notSent')
    BY <1>1, Zenon DEF vars, client, ghosts, Idle, RegisterDue
  <2>3. (Way => Way') /\ \A k : Pending(k)' <=> Pending(k)
    BY <2>1, <2>2, WayStays DEF Pending
  <2> QED BY <2>1, <2>2, <2>3 DEF IInv, StateInv, Waits, Covered, GaveUp
<1>2. CASE Library
  BY <1>2, LibraryStep
<1>3. CASE Register \/ OnSuccess \/ OnChallenge \/ OnFailure \/ OnMessageFailure
             \/ request_unregister
  BY <1>3, ClientStep
<1> QED BY <1>1, <1>2, <1>3, NextCases

\* A device that is not registered and not allowed to register waits for an
\* answer or an event, but for the three final states: five failures, a
\* REGISTER that never left, and refused credentials.
THEOREM NeverStuckHolds == Spec => []NeverStuck
<1>1. IInv => NeverStuck
  <2> SUFFICES ASSUME IInv, Idle, events = <<>>, ~Out PROVE GaveUp \/ notSent \/ Denied
    BY Zenon DEF NeverStuck, Idle, Out
  <2>1. ~Pending(0)
    BY EmptySeq DEF Pending
  <2>2. GaveUp \/ Way
    BY <2>1 DEF IInv, Waits
  <2> QED BY <2>2, Zenon DEF Way
<1> QED BY <1>1, IInvInit, IInvStep, PTL DEF Spec

------------------------------------------------------------------------------
(* Types *)

ClientTypes ==
  /\ allowReg \in BOOLEAN /\ mRegistered \in BOOLEAN /\ regExpires \in BOOLEAN
  /\ keepalive \in BOOLEAN /\ knows \in BOOLEAN
  /\ notSent \in BOOLEAN /\ parallel \in BOOLEAN
NumberTypes ==
  /\ mRegisterId \in Regs \cup {0}
  /\ signOff \subseteq Regs
  /\ faults \in 0..Faults
  /\ refusals \in Nat /\ lapses \in Nat

TypeInv == StateInv /\ ClientTypes /\ NumberTypes

------------------------------------------------------------------------------
(* Giving up *)

\* The events that end a REGISTER: its success resets the counts, a failure
\* counts as an error and as a refusal.
Closing == {"success", "failure", "denied"}
Balanced == errorCountReg <= 2 * refusals

\* A challenge at k makes one error more than two for each refusal, at most: no
\* other comes before it without the end of a REGISTER between the two.
ChallengeAt(k) ==
  /\ \A i \in 1..Len(events) : i < k /\ events[i] = "challenge" =>
       \E j \in 1..Len(events) : i < j /\ j < k /\ events[j] \in Closing
  /\ Balanced \/ \E j \in 1..Len(events) : j < k /\ events[j] \in Closing

\* A challenge may come, or a REGISTER be sent that is challenged.
Free == (\E id \in Regs : regs[id] = "sent") \/ ~Out

\* GivesUpOnRefusals' inductive form.
OneSent == \A id, other \in Regs : regs[id] = "sent" /\ regs[other] = "sent" => id = other
Counts ==
  /\ errorCountReg <= 2 * refusals + 1
  /\ \A k \in 1..Len(events) : events[k] = "challenge" => ChallengeAt(k)
  /\ Free => ChallengeAt(Len(events) + 1)
BalanceInv == ~parallel => OneSent /\ Counts

------------------------------------------------------------------------------
(* Forgotten registrations *)

\* The registrations the library has and does not sign off.
Live == {id \in Regs : regs[id] # "none" /\ id \notin signOff}

ForgetInv ==
  /\ \A id \in Regs : regs[id] = "up" => id \notin signOff
  /\ allowReg => ~mRegistered
  /\ Cardinality(Live) <= 1 + lapses
  /\ regExpires => /\ Cardinality(Live \ {mRegisterId}) <= lapses
                   /\ allowReg => Cardinality(Live) <= lapses

------------------------------------------------------------------------------
(* The proof of the types *)

LEMMA ClientTypesStep == ClientTypes /\ [Next]_vars => ClientTypes'
<1> SUFFICES ASSUME ClientTypes, [Next]_vars PROVE ClientTypes'
  OBVIOUS
<1>1. CASE UNCHANGED vars
  BY <1>1, Zenon DEF vars, client, library, platform, ghosts, ClientTypes
<1>2. ASSUME UNCHANGED <<client, notSent, lapses>> PROVE
        /\ UNCHANGED <<allowReg, mRegistered, regExpires, notSent>>
  BY <1>2, Zenon DEF client
<1>3. CASE Library
  <2>1. UNCHANGED <<client, notSent, lapses, parallel>>
    BY <1>3, Zenon DEF Library, Keepalive, AnswerKeepalive, Restart, Boot, Repeat, Refresh,
       Challenge, Accept, Refuse, Deny, ghosts
  <2>2. keepalive' \in BOOLEAN
    BY <1>3, Zenon DEF Library, Keepalive, AnswerKeepalive, Restart, Boot, Repeat, Refresh,
       Challenge, Accept, Refuse, Deny, library, ClientTypes
  <2>3. knows' \in BOOLEAN
    BY <1>3, Zenon DEF Library, Keepalive, AnswerKeepalive, Restart, Boot, Repeat, Refresh,
       Challenge, Accept, Refuse, Deny, platform, ClientTypes
  <2> QED BY <1>2, <2>1, <2>2, <2>3, Zenon DEF ClientTypes
<1>4. ASSUME NEW kept, NEW expires, NewRegister(kept, expires)
      PROVE  notSent' \in BOOLEAN /\ parallel' \in BOOLEAN
  BY <1>4, Zenon DEF NewRegister, NotSent, Send, ClientTypes
<1>5. CASE Register
  <2>1. /\ allowReg' = FALSE /\ UNCHANGED <<mRegistered, regExpires, keepalive, knows>>
        /\ notSent' \in BOOLEAN /\ parallel' \in BOOLEAN
    BY <1>4, <1>5, Zenon DEF Register
  <2> QED BY <2>1, Zenon DEF ClientTypes
<1>6. CASE request_unregister
  <2>1. /\ regExpires' = FALSE /\ mRegistered' = FALSE /\ UNCHANGED <<allowReg, keepalive, knows>>
        /\ notSent' \in BOOLEAN /\ parallel' \in BOOLEAN
    BY <1>4, <1>6, Zenon DEF request_unregister
  <2> QED BY <2>1, Zenon DEF ClientTypes
<1>7. CASE OnSuccess
  BY <1>7, Zenon DEF OnSuccess, platform, ClientTypes
<1>8. CASE OnChallenge
  <2>1. allowReg' \in BOOLEAN
    BY <1>8, Zenon DEF OnChallenge, ClientTypes
  <2> QED BY <1>8, <2>1, Zenon DEF OnChallenge, platform, ClientTypes
<1>9. CASE OnFailure
  <2>1. parallel' \in BOOLEAN
    BY <1>9, Zenon DEF OnFailure, ClientTypes
  <2>2. allowReg' \in BOOLEAN
    <3>1. allowReg' = (errorCountReg' < MaxErrors)
      BY <1>9, Zenon DEF OnFailure
    <3> QED BY <3>1
  <2> QED BY <1>9, <2>1, <2>2, Zenon DEF OnFailure, platform, ClientTypes
<1>10. CASE OnMessageFailure
  BY <1>10, Zenon DEF OnMessageFailure, platform, ClientTypes
<1> QED BY <1>1, <1>3, <1>5, <1>6, <1>7, <1>8, <1>9, <1>10, NextCases

LEMMA NumberTypesStep == NumberTypes /\ [Next]_vars => NumberTypes'
<1> SUFFICES ASSUME NumberTypes, [Next]_vars PROVE NumberTypes'
  OBVIOUS
<1>1. CASE UNCHANGED vars
  BY <1>1 DEF vars, client, library, platform, ghosts, NumberTypes
<1>2. Fault => faults' \in 0..Faults
  BY BoundsNat DEF Fault, NumberTypes
<1>3. CASE Library
  <2>1. UNCHANGED <<client, refusals, lapses>>
    BY <1>3, Zenon DEF Library, Keepalive, AnswerKeepalive, Restart, Boot, Repeat, Refresh,
       Challenge, Accept, Refuse, Deny, ghosts
  <2>2. UNCHANGED signOff \/ \E id \in Regs : signOff' = signOff \ {id}
    BY <1>3, Zenon DEF Library, Keepalive, AnswerKeepalive, Restart, Boot, Repeat, Refresh,
       Challenge, Accept, Refuse, Deny, library
  <2>3. UNCHANGED faults \/ Fault
    BY <1>3, Zenon DEF Library, Keepalive, AnswerKeepalive, Restart, Boot, Repeat, Refresh,
       Challenge, Accept, Refuse, Deny, platform
  <2> QED BY <1>2, <2>1, <2>2, <2>3 DEF client, NumberTypes
<1>4. ASSUME NEW kept, NEW expires, NewRegister(kept, expires)
      PROVE  mRegisterId' \in Regs \cup {0} /\ signOff' \subseteq Regs /\ faults' \in 0..Faults
  BY <1>2, <1>4 DEF NewRegister, NotSent, Send, NumberTypes
<1>5. CASE Register \/ request_unregister
  <2>1. /\ UNCHANGED <<refusals, lapses>>
        /\ \E kept, expires : NewRegister(kept, expires)
    BY <1>5, Zenon DEF Register, request_unregister
  <2> QED BY <1>4, <2>1 DEF NumberTypes
<1>6. CASE OnSuccess \/ OnChallenge \/ OnFailure \/ OnMessageFailure
  <2>1. UNCHANGED <<mRegisterId, signOff, faults>>
    BY <1>6, Zenon DEF OnSuccess, OnChallenge, OnFailure, OnMessageFailure, platform
  <2>2. refusals' \in {0, refusals, refusals + 1} /\ lapses' \in {lapses, lapses + 1}
    BY <1>6 DEF OnSuccess, OnChallenge, OnFailure, OnMessageFailure
  <2> QED BY <2>1, <2>2 DEF NumberTypes
<1> QED BY <1>1, <1>3, <1>5, <1>6, NextCases

LEMMA TypeInvInit == Init => TypeInv
<1> SUFFICES ASSUME Init PROVE TypeInv
  OBVIOUS
<1>1. StateInv
  BY IInvInit DEF IInv
<1>2. ClientTypes
  BY Zenon DEF Init, ClientTypes
<1>3. NumberTypes
  BY BoundsNat DEF Init, NumberTypes
<1> QED BY <1>1, <1>2, <1>3 DEF TypeInv

\* The types hold for any registrations and faults.
THEOREM TypeCorrect == Spec => []TypeOK
<1>1. StateInv /\ ClientTypes /\ NumberTypes => TypeOK
  BY Zenon DEF StateInv, ClientTypes, NumberTypes, TypeOK, Events, RegStates
<1>2. IInv => StateInv
  BY DEF IInv
<1>3. Init => ClientTypes /\ NumberTypes
  BY TypeInvInit DEF TypeInv
<1> QED BY <1>1, <1>2, <1>3, IInvInit, IInvStep, ClientTypesStep, NumberTypesStep, PTL DEF Spec

------------------------------------------------------------------------------
(* The proof of giving up *)

\* What a registration that changes leaves of the REGISTERs under way.
LEMMA FreeStays ==
  ASSUME \A id \in Regs : regs'[id] = "sent" => regs[id] = "sent",
         \A id \in Regs : Outstanding(regs[id]) => Outstanding(regs'[id])
  PROVE  (Free' => Free) /\ (OneSent => OneSent')
BY Zenon DEF Free, Out, OneSent

\* The counts are those of before, and the queue is, or gets one event more.
LEMMA CountsStay ==
  ASSUME Counts, UNCHANGED <<events, errorCountReg, refusals>>, Free' => Free
  PROVE  Counts'
<1>1. \A k : ChallengeAt(k)' <=> ChallengeAt(k)
  BY DEF ChallengeAt, Balanced
<1> QED BY <1>1 DEF Counts

LEMMA CountsAppend ==
  ASSUME StateInv, Counts, UNCHANGED <<errorCountReg, refusals>>,
         NEW e \in Events, events' = Append(events, e), e = "challenge" => Free,
         ~Free' \/ e \in Closing \/ (e # "challenge" /\ (Free' => Free))
  PROVE  Counts'
<1>1. events \in Seq(Events) /\ Len(events) \in Nat
  BY LenProperties DEF StateInv
<1> PICK n \in Nat : n = Len(events)
  BY <1>1
<1>2. /\ Len(events') = n + 1
      /\ \A k \in 1..n : events'[k] = events[k]
      /\ events'[n + 1] = e
  BY <1>1, AppendProperties
<1>3. /\ 1..n \subseteq 1..(n + 1) /\ n + 1 \in 1..(n + 1)
      /\ \A k \in 1..(n + 1) : k \in 1..n \/ k = n + 1
  OBVIOUS
<1>4. Balanced <=> Balanced'
  BY DEF Balanced
<1>5. ASSUME NEW k \in 1..(n + 1), ChallengeAt(k) PROVE ChallengeAt(k)'
  <2>1. \A i \in 1..(n + 1) : i < k => i \in 1..n
    OBVIOUS
  <2> QED BY <1>2, <1>3, <1>4, <1>5, <2>1 DEF ChallengeAt
<1>6. \A k \in 1..(n + 1) : events'[k] = "challenge" => ChallengeAt(k)'
  <2> SUFFICES ASSUME NEW k \in 1..(n + 1), events'[k] = "challenge" PROVE ChallengeAt(k)'
    OBVIOUS
  <2>1. ChallengeAt(k)
    BY <1>2, <1>3 DEF Counts
  <2> QED BY <1>5, <2>1
<1>7. ASSUME Free' PROVE ChallengeAt(n + 2)'
  <2>1. CASE e \in Closing
    <3>1. events'[n + 1] \in Closing /\ e # "challenge"
      BY <1>2, <2>1 DEF Closing
    <3>2. \A i \in 1..(n + 1) : events'[i] = "challenge" => i < n + 1
      BY <1>2, <1>3, <3>1
    <3>3. n + 1 < n + 2
      OBVIOUS
    <3> QED BY <1>2, <1>3, <3>1, <3>2, <3>3 DEF ChallengeAt
  <2>2. CASE e # "challenge" /\ Free
    <3>1. ChallengeAt(n + 1)'
      BY <1>5, <2>2 DEF Counts
    <3>2. \A i \in 1..(n + 1) : events'[i] = "challenge" => i < n + 1
      BY <1>2, <1>3, <2>2
    <3>3. \A j \in 1..(n + 1) : j < n + 1 => j < n + 2
      OBVIOUS
    <3> QED BY <1>2, <3>1, <3>2, <3>3 DEF ChallengeAt
  <2> QED BY <1>7, <2>1, <2>2
<1>8. errorCountReg' <= 2 * refusals' + 1
  BY DEF Counts
<1>9. (n + 1) + 1 = n + 2
  OBVIOUS
<1> QED BY <1>2, <1>6, <1>7, <1>8, <1>9 DEF Counts

\* An event is taken: a challenge, or one that ends a REGISTER and makes the
\* counts balanced, or one that leaves them.
LEMMA CountsTake ==
  ASSUME StateInv, Counts, NEW types, Take(types), errorCountReg' <= 2 * refusals' + 1,
         Free' => Free,
         \/ Balanced' \/ events[1] = "challenge"
         \/ events[1] \notin Closing /\ (Balanced => Balanced')
  PROVE  Counts'
<1>1. events \in Seq(Events) /\ events # <<>> /\ events' = Tail(events)
  BY Zenon DEF StateInv, Take
<1>2. Len(events) \in Nat /\ Len(events) >= 1
  BY <1>1, LenProperties, EmptySeq
<1> PICK n \in Nat : Len(events) = n + 1
  <2>1. Len(events) - 1 \in Nat /\ Len(events) = (Len(events) - 1) + 1
    BY <1>2
  <2> QED BY <2>1
<1>3. Len(events') = n /\ \A k \in 1..n : events'[k] = events[k + 1]
  BY <1>1, HeadTailProperties
<1>4. ASSUME NEW k \in 1..(n + 1), ChallengeAt(k + 1) PROVE ChallengeAt(k)'
  <2>1. /\ \A i \in 1..n : i + 1 \in 1..(n + 1)
        /\ \A j \in 1..(n + 1) : j > 1 => j - 1 \in 1..n /\ (j - 1) + 1 = j
    OBVIOUS
  <2>2. ASSUME NEW i \in 1..n, i < k, events'[i] = "challenge"
        PROVE  \E j \in 1..n : i < j /\ j < k /\ events'[j] \in Closing
    <3>1. i + 1 < k + 1 /\ i + 1 \in 1..(n + 1) /\ events[i + 1] = "challenge"
      BY <1>3, <2>1, <2>2
    <3>2. PICK j \in 1..(n + 1) : i + 1 < j /\ j < k + 1 /\ events[j] \in Closing
      BY <1>4, <3>1 DEF ChallengeAt
    <3>3. j - 1 \in 1..n /\ i < j - 1 /\ j - 1 < k /\ (j - 1) + 1 = j
      BY <3>2
    <3> QED BY <1>3, <3>2, <3>3
  <2>3. ASSUME NEW j \in 1..(n + 1), j < k + 1, events[j] \in Closing, j # 1
        PROVE  \E l \in 1..n : l < k /\ events'[l] \in Closing
    <3>1. j - 1 \in 1..n /\ j - 1 < k /\ (j - 1) + 1 = j
      BY <2>3
    <3> QED BY <1>3, <2>3, <3>1
  <2>4. Balanced' \/ \E j \in 1..n : j < k /\ events'[j] \in Closing
    <3>1. CASE events[1] = "challenge"
      <4>1. 1 \in 1..(n + 1) /\ 1 < k + 1
        OBVIOUS
      <4>2. \E j \in 1..(n + 1) : 1 < j /\ j < k + 1 /\ events[j] \in Closing
        BY <1>4, <3>1, <4>1 DEF ChallengeAt
      <4> QED BY <2>3, <4>2
    <3>2. CASE events[1] \notin Closing /\ (Balanced => Balanced')
      <4>1. Balanced \/ \E j \in 1..(n + 1) : j < k + 1 /\ events[j] \in Closing
        BY <1>4 DEF ChallengeAt
      <4> QED BY <2>3, <3>2, <4>1
    <3> QED BY <3>1, <3>2
  <2> QED BY <1>3, <2>2, <2>4 DEF ChallengeAt
<1>5. ASSUME NEW k \in 1..n, events'[k] = "challenge" PROVE ChallengeAt(k)'
  <2>1. k + 1 \in 1..(n + 1) /\ events[k + 1] = "challenge" /\ k \in 1..(n + 1)
    BY <1>3, <1>5
  <2>2. ChallengeAt(k + 1)
    BY <2>1 DEF Counts
  <2> QED BY <1>4, <2>1, <2>2
<1>6. ASSUME Free' PROVE ChallengeAt(n + 1)'
  <2>1. ChallengeAt((n + 1) + 1)
    BY <1>6 DEF Counts
  <2>2. n + 1 \in 1..(n + 1)
    OBVIOUS
  <2> QED BY <1>4, <2>1, <2>2
<1> QED BY <1>3, <1>5, <1>6 DEF Counts
\* The library changes the state of a registration.
LEMMA SetReg ==
  ASSUME regs \in [Regs -> RegStates], NEW id \in Regs, NEW s, regs' = [regs EXCEPT ![id] = s],
         s # "sent", Outstanding(regs[id]) => Outstanding(s)
  PROVE  (Free' => Free) /\ (OneSent => OneSent')
<1>1. /\ \A other \in Regs : regs'[other] = "sent" => regs[other] = "sent"
      /\ \A other \in Regs : Outstanding(regs[other]) => Outstanding(regs'[other])
  OBVIOUS
<1> QED BY <1>1, FreeStays

LEMMA BalanceLibrary ==
  ASSUME StateInv, BalanceInv, Library, ~parallel'
  PROVE  OneSent' /\ Counts'
<1>1. /\ UNCHANGED <<errorCountReg, refusals, parallel>> /\ regs \in [Regs -> RegStates]
  <2>1. UNCHANGED <<client, refusals, parallel>>
    BY Zenon DEF Library, Keepalive, AnswerKeepalive, Restart, Boot, Repeat, Refresh, Challenge,
                 Accept, Refuse, Deny, ghosts
  <2> QED BY <2>1, Zenon DEF client, StateInv
<1>2. OneSent /\ Counts
  BY <1>1 DEF BalanceInv
<1>3. ASSUME UNCHANGED regs PROVE (Free' => Free) /\ OneSent'
  BY <1>2, <1>3, FreeStays
<1>4. CASE Keepalive \/ Restart
  <2>1. UNCHANGED <<regs, events>>
    BY <1>4, Zenon DEF Keepalive, Restart, library
  <2> QED BY <1>1, <1>2, <1>3, <2>1, CountsStay
<1>5. CASE Boot
  <2>1. UNCHANGED regs /\ events' = Append(events, "boot")
    BY <1>5, Zenon DEF Boot, Notify
  <2>2. "boot" \in Events
    BY DEF Events
  <2> QED BY <1>1, <1>2, <1>3, <2>1, <2>2, CountsAppend
<1>6. CASE AnswerKeepalive
  <2>1. UNCHANGED regs /\ (UNCHANGED events \/ events' = Append(events, "messageFailure"))
    BY <1>6, Zenon DEF AnswerKeepalive, Notify
  <2>2. "messageFailure" \in Events
    BY DEF Events
  <2>3. CASE UNCHANGED events
    BY <1>1, <1>2, <1>3, <2>1, <2>3, CountsStay
  <2>4. CASE events' = Append(events, "messageFailure")
    BY <1>1, <1>2, <1>3, <2>1, <2>2, <2>4, CountsAppend
  <2> QED BY <2>1, <2>3, <2>4
<1>7. ASSUME NEW id \in Regs, Repeat(id) \/ Refresh(id) PROVE OneSent' /\ Counts'
  <2>1. regs' = [regs EXCEPT ![id] = "authSent"] /\ UNCHANGED events
    BY <1>7, Zenon DEF Repeat, Refresh
  <2>2. (Free' => Free) /\ OneSent'
    BY <1>1, <1>2, <2>1, SetReg DEF Outstanding
  <2> QED BY <1>1, <1>2, <2>1, <2>2, CountsStay
<1>8. ASSUME NEW id \in Regs, Challenge(id) PROVE OneSent' /\ Counts'
  <2>1. /\ regs[id] = "sent" /\ regs' = [regs EXCEPT ![id] = "challenged"]
        /\ events' = Append(events, "challenge") /\ "challenge" \in Events
    BY <1>8, Zenon DEF Challenge, Notify, Events
  <2>2. OneSent'
    BY <1>1, <1>2, <2>1, SetReg DEF Outstanding
  <2>3. Free
    BY <2>1 DEF Free
  <2>4. ~Free'
    <3>1. regs'[id] = "challenged"
      BY <1>1, <2>1
    <3>2. Out'
      BY <3>1 DEF Out, Outstanding
    <3>3. \A other \in Regs : regs'[other] # "sent"
      BY <1>1, <1>2, <2>1 DEF OneSent
    <3> QED BY <3>2, <3>3 DEF Free
  <2> QED BY <1>1, <1>2, <2>1, <2>2, <2>3, <2>4, CountsAppend
<1>9. ASSUME NEW id \in Regs, Accept(id) \/ Refuse(id) \/ Deny(id) PROVE OneSent' /\ Counts'
  <2>1. PICK s \in {"none", "up", "failed", "denied"} : regs' = [regs EXCEPT ![id] = s]
    BY <1>9 DEF Accept, Refuse, Deny
  <2>2. PICK e \in Closing : events' = Append(events, e)
    BY <1>9 DEF Accept, Refuse, Deny, Notify, Closing
  <2>3. e \in Events /\ e # "challenge"
    BY <2>2 DEF Closing, Events
  <2>4. OneSent'
    BY <1>1, <1>2, <2>1 DEF OneSent
  <2> QED BY <1>1, <1>2, <2>2, <2>3, <2>4, CountsAppend
<1> QED BY <1>4, <1>5, <1>6, <1>7, <1>8, <1>9 DEF Library

\* A REGISTER is sent when none is under way, or none is sent and none dropped,
\* or the ghost says otherwise.
LEMMA NewRegisterFree ==
  ASSUME NEW kept \in [Regs -> RegStates], NEW expires, NewRegister(kept, expires),
         regs \in [Regs -> RegStates], \A id \in Regs : kept[id] \in {regs[id], "none"},
         ~parallel', OneSent
  PROVE  ~parallel /\ OneSent' /\ (Free' => Free)
<1>1. \A id \in Regs : kept[id] = "sent" => regs[id] = "sent"
  OBVIOUS
<1>2. ASSUME NEW id \in Regs, Send(id, expires),
             NEW s \in {"sent", "failed"}, regs' = [kept EXCEPT ![id] = s]
      PROVE  ~parallel /\ OneSent' /\ (Free' => Free)
  <2>1. ~parallel /\ ~Out
    BY <1>2, Zenon DEF Send, Out
  <2>2. \A other \in Regs : kept[other] # "sent"
    BY <1>1, <2>1 DEF Out, Outstanding
  <2>3. OneSent'
    BY <1>2, <2>2 DEF OneSent
  <2> QED BY <2>1, <2>3 DEF Free
<1>3. ASSUME regs' = kept, parallel' = (parallel \/ Drops(kept))
      PROVE  ~parallel /\ OneSent' /\ (Free' => Free)
  <2>1. ~parallel /\ ~Drops(kept)
    BY <1>3, Zenon
  <2>2. \A id \in Regs : Outstanding(regs[id]) => Outstanding(kept[id])
    BY <2>1 DEF Drops
  <2> QED BY <1>1, <1>3, <2>1, <2>2, FreeStays
<1> QED BY <1>2, <1>3 DEF NewRegister

LEMMA BalanceClient ==
  ASSUME TypeInv, BalanceInv, ~parallel',
         Register \/ OnSuccess \/ OnChallenge \/ OnFailure \/ OnMessageFailure \/ request_unregister
  PROVE  OneSent' /\ Counts'
<1>1. StateInv /\ regs \in [Regs -> RegStates] /\ errorCountReg \in Nat /\ refusals \in Nat
  BY DEF TypeInv, StateInv, NumberTypes
<1>2. ASSUME UNCHANGED <<regs, parallel>> PROVE OneSent /\ Counts /\ OneSent' /\ (Free' => Free)
  BY <1>2, FreeStays DEF BalanceInv
<1>3. ASSUME NEW types, Take(types) PROVE events[1] \in types
  BY <1>1, <1>3, TakeKeeps
<1>4. CASE Register
  <2>1. NewRegister(regs, regExpires) /\ UNCHANGED <<events, errorCountReg, refusals>>
    BY <1>4, Zenon DEF Register
  <2>2. ~parallel
    BY <2>1, Zenon DEF NewRegister, Send
  <2>3. OneSent /\ Counts
    BY <2>2 DEF BalanceInv
  <2>4. OneSent' /\ (Free' => Free)
    BY <1>1, <2>1, <2>3, NewRegisterFree
  <2> QED BY <2>1, <2>3, <2>4, CountsStay
<1>5. CASE request_unregister
  <2> DEFINE kept == IF mRegistered /\ mRegisterId \in Regs
                     THEN [regs EXCEPT ![mRegisterId] = "none"] ELSE regs
  <2>1. NewRegister(kept, FALSE) /\ Take({"boot"}) /\ UNCHANGED <<errorCountReg, refusals>>
    BY <1>5, Zenon DEF request_unregister
  <2>2. kept \in [Regs -> RegStates] /\ \A id \in Regs : kept[id] \in {regs[id], "none"}
    BY <1>1 DEF RegStates
  <2> HIDE DEF kept
  <2>3. ~parallel
    BY <2>1, Zenon DEF NewRegister, Send
  <2>4. OneSent /\ Counts
    BY <2>3 DEF BalanceInv
  <2>5. OneSent' /\ (Free' => Free)
    BY <1>1, <2>1, <2>2, <2>4, NewRegisterFree
  <2>6. events[1] \notin Closing /\ (Balanced => Balanced')
    BY <1>3, <2>1 DEF Closing, Balanced
  <2>7. errorCountReg' <= 2 * refusals' + 1
    BY <2>1, <2>4 DEF Counts
  <2> QED BY <1>1, <2>1, <2>4, <2>5, <2>6, <2>7, CountsTake
<1>6. CASE OnSuccess
  <2>1. /\ Take({"success"}) /\ UNCHANGED <<regs, parallel>> /\ errorCountReg' = 0 /\ refusals' = 0
    BY <1>6, Zenon DEF OnSuccess
  <2>2. Balanced' /\ errorCountReg' <= 2 * refusals' + 1
    BY <2>1 DEF Balanced
  <2> QED BY <1>1, <1>2, <2>1, <2>2, CountsTake
<1>7. CASE OnChallenge
  <2>1. /\ Take({"challenge", "denied"}) /\ UNCHANGED <<regs, parallel>>
        /\ errorCountReg' = errorCountReg + 1
        /\ refusals' = IF Head(events) = "denied" THEN refusals + 1 ELSE refusals
    BY <1>7, Zenon DEF OnChallenge
  <2>2. OneSent /\ Counts /\ OneSent' /\ (Free' => Free)
    BY <1>2, <2>1
  <2>3. events[1] = Head(events) /\ events[1] \in {"challenge", "denied"} /\ 1 \in 1..Len(events)
    <3>1. events \in Seq(Events) /\ events # <<>>
      BY <1>1, <2>1, Zenon DEF StateInv, Take
    <3> QED BY <1>1, <2>1, <3>1, HeadTailProperties, TakeKeeps
  <2>4. CASE events[1] = "denied"
    <3>1. refusals' = refusals + 1 /\ errorCountReg <= 2 * refusals + 1
      BY <2>1, <2>2, <2>3, <2>4 DEF Counts
    <3>2. Balanced' /\ errorCountReg' <= 2 * refusals' + 1
      BY <1>1, <2>1, <3>1 DEF Balanced
    <3> QED BY <1>1, <2>1, <2>2, <3>2, CountsTake
  <2>5. CASE events[1] = "challenge"
    <3>1. Balanced
      <4>1. ChallengeAt(1)
        BY <2>2, <2>3, <2>5 DEF Counts
      <4>2. \A j \in 1..Len(events) : ~(j < 1)
        OBVIOUS
      <4> QED BY <4>1, <4>2 DEF ChallengeAt
    <3>2. errorCountReg' <= 2 * refusals' + 1
      BY <1>1, <2>1, <2>3, <2>5, <3>1 DEF Balanced
    <3> QED BY <1>1, <2>1, <2>2, <2>5, <3>2, CountsTake
  <2> QED BY <2>3, <2>4, <2>5
<1>8. CASE OnFailure
  <2>1. /\ Take({"failure"}) /\ errorCountReg' = errorCountReg + 1 /\ refusals' = refusals + 1
        /\ ~parallel /\ ~Drops(regs')
    BY <1>8, Zenon DEF OnFailure
  <2>2. regs' = regs \/ regs' = [regs EXCEPT ![mRegisterId] = "none"]
    BY <1>8, Zenon DEF OnFailure, Remove
  <2>3. OneSent /\ Counts
    BY <2>1 DEF BalanceInv
  <2>4. \A id \in Regs : regs'[id] \in {regs[id], "none"}
    BY <1>1, <2>2
  <2>5. OneSent' /\ (Free' => Free)
    <3>1. \A id \in Regs : regs'[id] = "sent" => regs[id] = "sent"
      BY <2>4
    <3>2. \A id \in Regs : Outstanding(regs[id]) => Outstanding(regs'[id])
      BY <2>1, <2>4 DEF Drops
    <3> QED BY <2>3, <3>1, <3>2, FreeStays
  <2>6. Balanced' /\ errorCountReg' <= 2 * refusals' + 1
    BY <1>1, <2>1, <2>3 DEF Balanced, Counts
  <2> QED BY <1>1, <2>1, <2>3, <2>5, <2>6, CountsTake
<1>9. CASE OnMessageFailure
  <2>1. /\ Take({"messageFailure"}) /\ UNCHANGED <<regs, parallel, errorCountReg, refusals>>
    BY <1>9, Zenon DEF OnMessageFailure
  <2>2. OneSent /\ Counts /\ OneSent' /\ (Free' => Free)
    BY <1>2, <2>1
  <2>3. events[1] \notin Closing /\ (Balanced => Balanced')
    BY <1>3, <2>1 DEF Closing, Balanced
  <2>4. errorCountReg' <= 2 * refusals' + 1
    BY <2>1, <2>2 DEF Counts
  <2> QED BY <1>1, <2>1, <2>2, <2>3, <2>4, CountsTake
<1> QED BY <1>4, <1>5, <1>6, <1>7, <1>8, <1>9

LEMMA BalanceStep == TypeInv /\ BalanceInv /\ [Next]_vars => BalanceInv'
<1> SUFFICES ASSUME TypeInv, BalanceInv, [Next]_vars, ~parallel' PROVE OneSent' /\ Counts'
  BY DEF BalanceInv
<1>1. CASE UNCHANGED vars
  <2>1. UNCHANGED <<regs, parallel, events, errorCountReg, refusals>>
    BY <1>1, Zenon DEF vars, client, library, ghosts
  <2>2. (Free' => Free) /\ (OneSent => OneSent')
    BY <2>1, FreeStays
  <2> QED BY <2>1, <2>2, CountsStay DEF BalanceInv
<1>2. CASE Library
  BY <1>2, BalanceLibrary DEF TypeInv
<1>3. CASE Register \/ OnSuccess \/ OnChallenge \/ OnFailure \/ OnMessageFailure
             \/ request_unregister
  BY <1>3, BalanceClient
<1> QED BY <1>1, <1>2, <1>3, NextCases

LEMMA TypeInvStep == TypeInv /\ IInv /\ [Next]_vars => TypeInv'
<1>1. IInv' => StateInv'
  BY DEF IInv
<1> QED BY <1>1, IInvStep, ClientTypesStep, NumberTypesStep DEF TypeInv

\* The device gives up after two refused or unanswered REGISTERs at least, if
\* never two were under way at once and none was dropped before its answer.
THEOREM GivesUpOnRefusalsHolds == Spec => []GivesUpOnRefusals
<1>1. TypeInv /\ BalanceInv => GivesUpOnRefusals
  <2> SUFFICES ASSUME TypeInv, BalanceInv, GaveUp, ~parallel PROVE refusals >= 2
    BY DEF GivesUpOnRefusals
  <2>1. errorCountReg \in Nat /\ refusals \in Nat
    BY DEF TypeInv, StateInv, NumberTypes
  <2>2. errorCountReg <= 2 * refusals + 1
    BY DEF BalanceInv, Counts
  <2> QED BY <2>1, <2>2 DEF GaveUp, MaxErrors
<1>2. Init => BalanceInv
  <2> SUFFICES ASSUME Init PROVE OneSent /\ Counts
    BY DEF BalanceInv
  <2>1. OneSent
    BY DEF Init, OneSent
  <2>2. errorCountReg = 0 /\ refusals = 0 /\ events = <<>> /\ Len(events) = 0
    BY EmptySeq DEF Init
  <2>3. \A k \in 1..Len(events) : FALSE
    BY <2>2
  <2>4. Balanced
    BY <2>2 DEF Balanced
  <2> QED BY <2>1, <2>2, <2>3, <2>4 DEF Counts, ChallengeAt
<1> QED BY <1>1, <1>2, TypeInvInit, TypeInvStep, IInvInit, IInvStep, BalanceStep, PTL DEF Spec
------------------------------------------------------------------------------
(* The proof about what is forgotten *)

LEMMA CountRegs ==
  ASSUME NEW S, S \subseteq Regs
  PROVE  /\ Cardinality(S) \in Nat
         /\ \A T : T \subseteq S => Cardinality(T) \in Nat /\ Cardinality(T) <= Cardinality(S)
         /\ \A x : Cardinality(S \ {x}) \in Nat /\ Cardinality(S) <= Cardinality(S \ {x}) + 1
<1>1. IsFiniteSet(S)
  BY RegsSuffice, FS_Subset
<1>2. \A T : T \subseteq S => IsFiniteSet(T) /\ Cardinality(T) <= Cardinality(S)
  BY <1>1, FS_Subset
<1>3. \A x : Cardinality(S) <= Cardinality(S \ {x}) + 1
  <2> SUFFICES ASSUME NEW x PROVE Cardinality(S) <= Cardinality(S \ {x}) + 1
    OBVIOUS
  <2>1. IsFiniteSet(S \ {x}) /\ S \ {x} \subseteq S
    BY <1>2
  <2>2. Cardinality(S \ {x}) \in Nat /\ Cardinality(S) \in Nat
    BY <1>1, <2>1, FS_CardinalityType
  <2>3. CASE x \in S
    <3>1. Cardinality(S \ {x}) = Cardinality(S) - 1
      BY <1>1, <2>3, FS_RemoveElement
    <3> QED BY <2>2, <3>1
  <2>4. CASE x \notin S
    <3>1. S \ {x} = S
      BY <2>4
    <3>2. Cardinality(S \ {x}) = Cardinality(S)
      BY <3>1, Zenon
    <3> QED BY <2>2, <3>2
  <2> QED BY <2>3, <2>4
<1> QED BY <1>1, <1>2, <1>3, FS_CardinalityType

\* What is up is live: its count, and that of the live without one of them.
LiveCount == Cardinality(Live)
Besides(id) == Cardinality(Live \ {id})

LEMMA LiveCounts ==
  /\ LiveCount \in Nat /\ \A id : Besides(id) \in Nat
  /\ \A id : Besides(id) <= LiveCount /\ LiveCount <= Besides(id) + 1
<1>1. Live \subseteq Regs
  BY DEF Live
<1>2. \A id : Live \ {id} \subseteq Live
  OBVIOUS
<1> QED BY <1>1, <1>2, CountRegs DEF LiveCount, Besides

LEMMA LiveCountsAfter ==
  /\ LiveCount' \in Nat /\ \A id : Besides(id)' \in Nat
  /\ \A id : Besides(id)' <= LiveCount' /\ LiveCount' <= Besides(id)' + 1
<1>1. Live' \subseteq Regs
  BY DEF Live
<1>2. \A id : Live' \ {id} \subseteq Live'
  OBVIOUS
<1> QED BY <1>1, <1>2, CountRegs DEF LiveCount, Besides

\* No registration is new, but for one.
LEMMA LiveShrinks ==
  ASSUME Live' \subseteq Live
  PROVE  LiveCount' <= LiveCount /\ \A id : Besides(id)' <= Besides(id)
<1>1. Live \subseteq Regs
  BY DEF Live
<1>2. \A id : Live' \ {id} \subseteq Live \ {id} /\ Live \ {id} \subseteq Regs
  BY <1>1
<1> QED BY <1>1, <1>2, CountRegs DEF LiveCount, Besides

LEMMA LiveGrows ==
  ASSUME NEW id, Live' \ {id} \subseteq Live
  PROVE  Besides(id)' <= LiveCount
<1>1. Live \subseteq Regs
  BY DEF Live
<1> QED BY <1>1, CountRegs DEF LiveCount, Besides

UpNotSignedOff == \A id \in Regs : regs[id] = "up" => id \notin signOff
Lapsed ==
  /\ LiveCount <= 1 + lapses
  /\ regExpires => Besides(mRegisterId) <= lapses /\ (allowReg => LiveCount <= lapses)

LEMMA ForgetParts == ForgetInv <=> UpNotSignedOff /\ (allowReg => ~mRegistered) /\ Lapsed
BY DEF ForgetInv, UpNotSignedOff, Lapsed, LiveCount, Besides

\* Nothing is new, and no more is asked of it than before.
LEMMA LapsedStays ==
  ASSUME Lapsed, Live' \subseteq Live, lapses \in Nat, UNCHANGED <<lapses, mRegisterId>>,
         regExpires' => regExpires, allowReg' => allowReg
  PROVE  Lapsed'
<1>1. LiveCount' <= LiveCount /\ Besides(mRegisterId)' <= Besides(mRegisterId)
  <2>1. LiveCount' <= LiveCount /\ \A id : Besides(id)' <= Besides(id)
    BY LiveShrinks
  <2> QED BY <2>1 DEF Besides
<1>2. /\ LiveCount \in Nat /\ LiveCount' \in Nat
      /\ Besides(mRegisterId) \in Nat /\ Besides(mRegisterId)' \in Nat
  BY LiveCounts, LiveCountsAfter DEF Besides
<1> HIDE DEF LiveCount, Besides
<1> QED BY <1>1, <1>2 DEF Lapsed
\* The state of a registration the library has, changed to another.
LEMMA LiveSet ==
  ASSUME regs \in [Regs -> RegStates], NEW id \in Regs, NEW s, regs' = [regs EXCEPT ![id] = s],
         s # "none" => regs[id] # "none", UNCHANGED signOff, UpNotSignedOff,
         s = "up" => id \notin signOff
  PROVE  Live' \subseteq Live /\ UpNotSignedOff'
<1>1. \A other \in Regs : /\ regs'[other] # "none" => regs[other] # "none"
                          /\ regs'[other] = "up" => regs[other] = "up" \/ other \notin signOff
  OBVIOUS
<1> QED BY <1>1 DEF Live, UpNotSignedOff

LEMMA ForgetLibrary ==
  ASSUME TypeInv, ForgetInv, Library
  PROVE  ForgetInv'
<1>1. /\ regs \in [Regs -> RegStates] /\ lapses \in Nat
      /\ UpNotSignedOff /\ (allowReg => ~mRegistered) /\ Lapsed
  BY ForgetParts DEF TypeInv, StateInv, NumberTypes
<1>2. UNCHANGED <<allowReg, mRegistered, regExpires, mRegisterId, lapses>>
  <2>1. UNCHANGED <<client, lapses>>
    BY Zenon DEF Library, Keepalive, AnswerKeepalive, Restart, Boot, Repeat, Refresh, Challenge,
                 Accept, Refuse, Deny, ghosts
  <2> QED BY <2>1, Zenon DEF client
<1>3. Live' \subseteq Live /\ UpNotSignedOff'
  <2>1. CASE UNCHANGED <<regs, signOff>>
    BY <1>1, <2>1 DEF Live, UpNotSignedOff
  <2>2. CASE Keepalive \/ AnswerKeepalive \/ Restart \/ Boot
    <3>1. UNCHANGED <<regs, signOff>>
      BY <2>2, Zenon DEF Keepalive, AnswerKeepalive, Restart, Boot, library
    <3> QED BY <2>1, <3>1
  <2>3. ASSUME NEW id \in Regs, Repeat(id) \/ Refresh(id) \/ Challenge(id) \/ Refuse(id) \/ Deny(id)
        PROVE  Live' \subseteq Live /\ UpNotSignedOff'
    <3>1. UNCHANGED signOff /\ regs[id] # "none"
      BY <2>3 DEF Repeat, Refresh, Challenge, Refuse, Deny
    <3>2. PICK s \in RegStates : s # "up" /\ regs' = [regs EXCEPT ![id] = s]
      BY <2>3 DEF Repeat, Refresh, Challenge, Refuse, Deny, RegStates
    <3> QED BY <1>1, <3>1, <3>2, LiveSet
  <2>4. ASSUME NEW id \in Regs, Accept(id) PROVE Live' \subseteq Live /\ UpNotSignedOff'
    <3>1. /\ regs[id] # "none" /\ signOff' = signOff \ {id}
          /\ regs' = [regs EXCEPT ![id] = IF id \in signOff THEN "none" ELSE "up"]
      BY <2>4 DEF Accept
    <3>2. CASE id \in signOff
      BY <1>1, <3>1, <3>2 DEF Live, UpNotSignedOff
    <3>3. CASE id \notin signOff
      <4>1. UNCHANGED signOff /\ regs' = [regs EXCEPT ![id] = "up"]
        BY <3>1, <3>3
      <4> QED BY <1>1, <3>1, <3>3, <4>1, LiveSet
    <3> QED BY <3>2, <3>3
  <2> QED BY <2>2, <2>3, <2>4 DEF Library
<1>4. Lapsed'
  BY <1>1, <1>2, <1>3, LapsedStays
<1>5. allowReg' => ~mRegistered'
  BY <1>1, <1>2
<1>6. ForgetInv' <=> UpNotSignedOff' /\ (allowReg' => ~mRegistered') /\ Lapsed'
  BY ForgetParts, PTL
<1> QED BY <1>3, <1>4, <1>5, <1>6

\* What a new registration adds: one that signs off is not live.
LEMMA NewRegisterLive ==
  ASSUME regs \in [Regs -> RegStates], NEW kept \in [Regs -> RegStates],
         NEW expires, NewRegister(kept, expires),
         \A id \in Regs : kept[id] \in {regs[id], "none"}, UpNotSignedOff
  PROVE  /\ UpNotSignedOff'
         /\ Live' \ {mRegisterId'} \subseteq Live
         /\ ~expires \/ mRegisterId' = 0 => Live' \subseteq Live
<1>0. 0 \notin Regs
  BY BoundsNat
<1>1. ASSUME NEW id \in Regs, Send(id, expires), NEW s \in {"sent", "failed"},
             regs' = [kept EXCEPT ![id] = s]
      PROVE  /\ UpNotSignedOff' /\ Live' \ {mRegisterId'} \subseteq Live
             /\ ~expires \/ mRegisterId' = 0 => Live' \subseteq Live
  <2>1. mRegisterId' = id /\ signOff' = IF expires THEN signOff \ {id} ELSE signOff \cup {id}
    BY <1>1 DEF Send
  <2>2. /\ regs'[id] # "up"
        /\ \A other \in Regs : other # id => /\ regs'[other] \in {regs[other], "none"}
                                             /\ other \in signOff <=> other \in signOff'
    BY <1>1, <2>1
  <2>3. UpNotSignedOff'
    BY <2>2 DEF UpNotSignedOff
  <2>4. Live' \ {id} \subseteq Live
    BY <2>2 DEF Live
  <2>5. ~expires => id \notin Live'
    BY <2>1 DEF Live
  <2> QED BY <1>0, <2>1, <2>3, <2>4, <2>5
<1>2. ASSUME regs' = kept, UNCHANGED signOff
      PROVE  UpNotSignedOff' /\ Live' \subseteq Live
  BY <1>2 DEF UpNotSignedOff, Live
<1> QED BY <1>1, <1>2 DEF NewRegister

LEMMA ForgetClient ==
  ASSUME TypeInv, ForgetInv,
         Register \/ OnSuccess \/ OnChallenge \/ OnFailure \/ OnMessageFailure \/ request_unregister
  PROVE  UpNotSignedOff' /\ (allowReg' => ~mRegistered') /\ Lapsed'
<1>1. /\ regs \in [Regs -> RegStates] /\ lapses \in Nat /\ mRegisterId \in Regs \cup {0}
      /\ UpNotSignedOff /\ (allowReg => ~mRegistered) /\ Lapsed
  BY ForgetParts DEF TypeInv, StateInv, NumberTypes
<1>2. /\ LiveCount \in Nat /\ LiveCount' \in Nat
      /\ \A id : Besides(id) \in Nat /\ Besides(id)' \in Nat
      /\ \A id : Besides(id) <= LiveCount /\ Besides(id)' <= LiveCount'
      /\ \A id : LiveCount <= Besides(id) + 1 /\ LiveCount' <= Besides(id)' + 1
  BY LiveCounts, LiveCountsAfter
<1>3. UNCHANGED <<regs, signOff>> => Live' \subseteq Live /\ UpNotSignedOff'
  BY <1>1 DEF Live, UpNotSignedOff
<1>4. CASE Register
  <2>1. /\ NewRegister(regs, regExpires) /\ UNCHANGED <<regExpires, lapses, mRegistered>>
        /\ allowReg /\ ~allowReg'
    BY <1>4, Zenon DEF Register, RegisterDue
  <2>2. /\ UpNotSignedOff' /\ Live' \ {mRegisterId'} \subseteq Live
        /\ ~regExpires \/ mRegisterId' = 0 => Live' \subseteq Live
    BY <1>1, <2>1, NewRegisterLive
  <2> DEFINE new == mRegisterId'
  <2>3. Besides(mRegisterId)' <= LiveCount
    BY <2>2, CountRegs DEF Besides, LiveCount, Live
  <2>4. Lapsed'
    <3>1. CASE regExpires
      <4>1. LiveCount <= lapses
        BY <1>1, <2>1, <3>1 DEF Lapsed
      <4>2. Besides(mRegisterId)' \in Nat /\ LiveCount' <= Besides(mRegisterId)' + 1
        <5>1. Live' \subseteq Regs
          BY DEF Live
        <5> QED BY <5>1, CountRegs DEF Besides, LiveCount
      <4> HIDE DEF LiveCount, Besides
      <4> QED BY <1>1, <1>2, <2>1, <2>3, <4>1, <4>2 DEF Lapsed
    <3>2. CASE ~regExpires
      <4>1. LiveCount' <= LiveCount
        BY <2>2, <3>2, LiveShrinks
      <4> QED BY <1>1, <1>2, <2>1, <3>2, <4>1 DEF Lapsed
    <3> QED BY <3>1, <3>2
  <2> QED BY <2>1, <2>2, <2>4
<1>5. CASE request_unregister
  <2> DEFINE kept == IF mRegistered /\ mRegisterId \in Regs
                     THEN [regs EXCEPT ![mRegisterId] = "none"] ELSE regs
  <2>1. /\ NewRegister(kept, FALSE) /\ UNCHANGED lapses /\ regExpires' = FALSE
        /\ mRegistered' = FALSE
    BY <1>5, Zenon DEF request_unregister
  <2>2. kept \in [Regs -> RegStates] /\ \A id \in Regs : kept[id] \in {regs[id], "none"}
    BY <1>1 DEF RegStates
  <2> HIDE DEF kept
  <2>3. UpNotSignedOff' /\ Live' \subseteq Live
    BY <1>1, <2>1, <2>2, NewRegisterLive
  <2>4. LiveCount' <= LiveCount
    BY <2>3, LiveShrinks
  <2>5. Lapsed'
    BY <1>1, <1>2, <2>1, <2>4 DEF Lapsed
  <2> QED BY <2>1, <2>3, <2>5
<1>6. CASE OnSuccess
  <2>1. /\ UNCHANGED <<allowReg, mRegisterId, regExpires, regs, signOff, lapses>> /\ ~RegisterDue
    BY <1>6, Zenon DEF OnSuccess, Take
  <2>2. Lapsed'
    BY <1>1, <1>3, <2>1, LapsedStays
  <2> QED BY <1>1, <1>3, <2>1, <2>2 DEF RegisterDue
<1>7. CASE OnChallenge
  <2>1. /\ UNCHANGED <<mRegisterId, regExpires, regs, signOff, lapses>> /\ ~mRegistered'
        /\ allowReg' => allowReg
    BY <1>7, Zenon DEF OnChallenge
  <2>2. Lapsed'
    BY <1>1, <1>3, <2>1, LapsedStays
  <2> QED BY <1>3, <2>1, <2>2
<1>8. CASE OnFailure
  <2>1. /\ UNCHANGED <<mRegisterId, regExpires, signOff, lapses>> /\ ~mRegistered'
        /\ IF allowReg' THEN Remove ELSE UNCHANGED regs
    BY <1>8, Zenon DEF OnFailure
  <2>2. CASE ~allowReg'
    <3>1. UNCHANGED regs
      BY <2>1, <2>2
    <3>2. Lapsed'
      BY <1>1, <1>3, <2>1, <2>2, <3>1, LapsedStays
    <3> QED BY <1>3, <2>1, <2>2, <3>1, <3>2
  <2>3. CASE allowReg'
    <3>1. /\ Live' \subseteq Live \ {mRegisterId}
          /\ UpNotSignedOff'
      <4>1. CASE mRegisterId \in Regs
        <5>1. regs' = [regs EXCEPT ![mRegisterId] = "none"]
          BY <2>1, <2>3, <4>1 DEF Remove
        <5> QED BY <1>1, <2>1, <4>1, <5>1 DEF Live, UpNotSignedOff
      <4>2. CASE mRegisterId \notin Regs
        <5>1. UNCHANGED regs
          BY <2>1, <2>3, <4>2 DEF Remove
        <5> QED BY <1>3, <2>1, <4>2, <5>1 DEF Live
      <4> QED BY <4>1, <4>2
    <3>2. LiveCount' <= Besides(mRegisterId)
      <4>1. Live \ {mRegisterId} \subseteq Regs
        BY DEF Live
      <4> QED BY <3>1, <4>1, CountRegs DEF LiveCount, Besides
    <3>3. Besides(mRegisterId)' <= LiveCount'
      <4>1. Live' \subseteq Regs /\ Live' \ {mRegisterId'} \subseteq Live'
        BY DEF Live
      <4> QED BY <4>1, CountRegs DEF LiveCount, Besides
    <3>4. Besides(mRegisterId) <= LiveCount /\ Besides(mRegisterId) \in Nat
          /\ Besides(mRegisterId)' \in Nat
      <4>1. Live' \ {mRegisterId'} \subseteq Regs
        BY DEF Live
      <4> QED BY <1>2, <4>1, CountRegs DEF Besides
    <3>5. Lapsed'
      <4> HIDE DEF LiveCount, Besides
      <4> QED BY <1>1, <1>2, <2>1, <3>2, <3>3, <3>4 DEF Lapsed
    <3> QED BY <2>1, <3>1, <3>5
  <2> QED BY <2>2, <2>3
<1>9. CASE OnMessageFailure
  <2>1. /\ UNCHANGED <<mRegisterId, regExpires, regs, signOff>> /\ ~mRegistered'
        /\ lapses' = IF regExpires THEN lapses + 1 ELSE lapses
    BY <1>9, Zenon DEF OnMessageFailure
  <2>2. LiveCount' <= LiveCount
    BY <1>3, <2>1, LiveShrinks
  <2>3. Besides(mRegisterId)' <= LiveCount' /\ Besides(mRegisterId)' \in Nat
    <3>1. Live' \subseteq Regs /\ Live' \ {mRegisterId'} \subseteq Live'
      BY DEF Live
    <3> QED BY <3>1, CountRegs DEF LiveCount, Besides
  <2>4. Lapsed'
    <3> HIDE DEF LiveCount, Besides
    <3> QED BY <1>1, <1>2, <2>1, <2>2, <2>3 DEF Lapsed
  <2> QED BY <1>3, <2>1, <2>4
<1> QED BY <1>4, <1>5, <1>6, <1>7, <1>8, <1>9

LEMMA ForgetStep == TypeInv /\ ForgetInv /\ [Next]_vars => ForgetInv'
<1> SUFFICES ASSUME TypeInv, ForgetInv, [Next]_vars PROVE ForgetInv'
  OBVIOUS
<1>1. CASE UNCHANGED vars
  <2>1. UNCHANGED <<regs, signOff, allowReg, mRegistered, mRegisterId, regExpires, lapses>>
    BY <1>1, Zenon DEF vars, client, library, ghosts
  <2> QED BY <2>1 DEF ForgetInv, Live
<1>2. CASE Library
  BY <1>2, ForgetLibrary
<1>3. CASE Register \/ OnSuccess \/ OnChallenge \/ OnFailure \/ OnMessageFailure
             \/ request_unregister
  <2>1. ForgetInv' <=> UpNotSignedOff' /\ (allowReg' => ~mRegistered') /\ Lapsed'
    BY ForgetParts, PTL
  <2> QED BY <1>3, <2>1, ForgetClient
<1> QED BY <1>1, <1>2, <1>3, NextCases

\* A registration is forgotten, and left to the library, by a failed MESSAGE
\* only: one for each.
THEOREM ForgottenByLapsesHolds == Spec => []ForgottenByLapses
<1>1. TypeInv /\ ForgetInv => ForgottenByLapses
  <2> SUFFICES ASSUME TypeInv, ForgetInv PROVE ForgottenByLapses
    OBVIOUS
  <2>1. {id \in Regs : regs[id] = "up"} \subseteq Live /\ Live \subseteq Regs
    BY DEF ForgetInv, Live
  <2>2. Cardinality({id \in Regs : regs[id] = "up"}) <= Cardinality(Live)
    BY <2>1, CountRegs
  <2>3. /\ Cardinality(Live) \in Nat /\ Cardinality({id \in Regs : regs[id] = "up"}) \in Nat
        /\ lapses \in Nat /\ Cardinality(Live) <= 1 + lapses
    BY <2>1, CountRegs DEF ForgetInv, TypeInv, NumberTypes
  <2> QED BY <2>2, <2>3 DEF ForgottenByLapses
<1>2. Init => ForgetInv
  <2> SUFFICES ASSUME Init PROVE ForgetInv
    OBVIOUS
  <2>1. Live = {} /\ Live \ {mRegisterId} = {}
    BY DEF Init, Live
  <2>2. Cardinality({}) = 0
    BY FS_EmptySet
  <2>3. Cardinality(Live) = 0 /\ Cardinality(Live \ {mRegisterId}) = 0
    BY <2>1, <2>2, Zenon
  <2>4. lapses = 0 /\ ~mRegistered /\ \A id \in Regs : regs[id] # "up"
    BY DEF Init
  <2> QED BY <2>3, <2>4 DEF ForgetInv
<1> QED BY <1>1, <1>2, TypeInvInit, TypeInvStep, IInvInit, IInvStep, ForgetStep, PTL DEF Spec
==============================================================================
