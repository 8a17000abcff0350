--------------------------- MODULE SipRegistration ---------------------------
(***************************************************************************)
(* The registration of the device at a GB28181 platform and its keepalive  *)
(* (gb28181/SipClient.cpp): one thread, gb28181_client_func, registers,    *)
(* sends keepalives and handles the events of the SIP library one at a     *)
(* time.  allowReg and mRegistered in g_client decide what it does.        *)
(*                                                                         *)
(* eXosip is not in the repository.  Its header promises that              *)
(* eXosip_automatic_action repeats a challenged REGISTER with credentials  *)
(* and refreshes a registration, and that eXosip_register_remove drops a   *)
(* registration without a message; the platform answers, refuses, is       *)
(* silent or restarts.  Both are modelled from that.                       *)
(*                                                                         *)
(* The client's own refresh is not in the model: request_register takes    *)
(* the library's 0 for an error and returns before it sends.               *)
(***************************************************************************)
EXTENDS Naturals, Sequences, FiniteSets

CONSTANTS
  Regs,     \* a bound: the registrations the library keeps at a time
  Faults    \* a bound: answers that are lost or refused, restarts, local failures

ASSUME BoundsNat == Regs \subseteq Nat \ {0} /\ Faults \in Nat
\* A registration is left in the library by a fault each, at most.
ASSUME RegsSuffice == IsFiniteSet(Regs) /\ Cardinality(Regs) >= Faults + 2

MaxErrors == 5

VARIABLES
  allowReg, mRegistered, errorCountReg, mRegisterId,   \* g_client
  regExpires,    \* FALSE: the expiry time is 0, a REGISTER signs off
  regs,          \* the library: the state of each registration
  signOff,       \* registrations whose REGISTER has expiry time 0
  keepalive,     \* a keepalive is not yet answered
  events,        \* the library's events, not yet handled
  knows,         \* the platform has the device registered
  faults,        \* faults so far
  \* Ghosts: read by the properties only.
  notSent,       \* a REGISTER could not be built or sent
  refusals,      \* failures handled since the last success, first challenges excepted
  lapses,        \* failed MESSAGEs handled while the expiry time is not 0
  parallel       \* a REGISTER was sent, or dropped, while one was not yet answered

client == <<allowReg, mRegistered, errorCountReg, mRegisterId, regExpires>>
library == <<regs, signOff, keepalive, events>>
platform == <<knows, faults>>
ghosts == <<notSent, refusals, lapses, parallel>>
vars == <<client, library, platform, ghosts>>

Outstanding(s) == s \in {"sent", "challenged", "authSent"}

Init ==
  /\ allowReg = TRUE /\ mRegistered = FALSE /\ errorCountReg = 0 /\ mRegisterId = 0
  /\ regExpires = TRUE
  /\ regs = [id \in Regs |-> "none"] /\ signOff = {} /\ keepalive = FALSE
  /\ events = <<>>
  /\ knows = FALSE /\ faults = 0
  /\ notSent = FALSE /\ refusals = 0 /\ lapses = 0 /\ parallel = FALSE

\* A REGISTER without an answer is taken out of the library.
Drops(kept) == \E id \in Regs : Outstanding(regs[id]) /\ kept[id] = "none"

Fault == faults < Faults /\ faults' = faults + 1

------------------------------------------------------------------------------
(* The loop of gb28181_client_func *)

\* A new registration in the library, and its REGISTER.
Send(id, expires) ==
  /\ regs[id] = "none" /\ \A other \in Regs : other < id => regs[other] # "none"
  /\ mRegisterId' = id
  /\ signOff' = IF expires THEN signOff \ {id} ELSE signOff \cup {id}
  /\ parallel' = (parallel \/ \E other \in Regs : Outstanding(regs[other]))

NotSent == Fault /\ notSent' = TRUE

\* It cannot be built, or is built and sent, or not sent and left to the library.
NewRegister(kept, expires) ==
  \/ \E id \in Regs :
       /\ Send(id, expires)
       /\ \/ regs' = [kept EXCEPT ![id] = "sent"] /\ UNCHANGED <<faults, notSent>>
          \/ regs' = [kept EXCEPT ![id] = "failed"] /\ NotSent
  \/ NotSent /\ mRegisterId' = 0 /\ regs' = kept /\ UNCHANGED signOff
     /\ parallel' = (parallel \/ Drops(kept))

RegisterDue == allowReg /\ ~mRegistered

\* The first registration, and every one after a failure: allowReg is cleared
\* whether or not request_register gets a REGISTER out.
Register ==
  /\ RegisterDue
  /\ allowReg' = FALSE
  /\ NewRegister(regs, regExpires)
  /\ UNCHANGED <<mRegistered, errorCountReg, regExpires, keepalive, events, knows,
                 refusals, lapses>>

\* The keepalive is due, a minute after the last: the events in between are
\* handled by then.
Keepalive ==
  /\ mRegistered /\ ~keepalive /\ events = <<>>
  /\ keepalive' = TRUE
  /\ UNCHANGED <<client, regs, signOff, events, platform, ghosts>>

------------------------------------------------------------------------------
(* sip_event_handle: one event a round, after the registration is seen to *)

Take(types) == /\ ~RegisterDue
               /\ events # <<>> /\ Head(events) \in types
               /\ events' = Tail(events)

\* Faulty variant: a success takes one from the error count.
OnSuccess_CountsDown ==
  /\ Take({"success"})
  /\ mRegistered' = TRUE /\ errorCountReg' = errorCountReg - 1
  /\ refusals' = 0
  /\ UNCHANGED <<allowReg, mRegisterId, regExpires, regs, signOff, keepalive, platform,
                 notSent, lapses, parallel>>
\* Faulty variant: the error count is not reset.
OnSuccess_NoReset ==
  /\ Take({"success"})
  /\ mRegistered' = TRUE
  /\ refusals' = 0
  /\ UNCHANGED <<allowReg, errorCountReg, mRegisterId, regExpires, regs, signOff, keepalive,
                 platform, notSent, lapses, parallel>>
OnSuccess ==
  /\ Take({"success"})
  /\ mRegistered' = TRUE /\ errorCountReg' = 0
  /\ refusals' = 0
  /\ UNCHANGED <<allowReg, mRegisterId, regExpires, regs, signOff, keepalive, platform,
                 notSent, lapses, parallel>>

\* eXosip_register_remove: the registration of mRegisterId, whichever failed.
Remove == regs' = IF mRegisterId \in Regs THEN [regs EXCEPT ![mRegisterId] = "none"] ELSE regs

\* 401: credentials are given (again) and the library is left to repeat the
\* REGISTER; allowReg stays.
\* Faulty variant: a challenge is answered with a new registration, as the line
\* that is commented out would, and the challenged one is kept.
OnChallenge_Allows ==
  /\ Take({"challenge", "denied"})
  /\ errorCountReg' = errorCountReg + 1 /\ mRegistered' = FALSE
  /\ allowReg' = (errorCountReg' < MaxErrors)
  /\ UNCHANGED <<mRegisterId, regExpires, regs, signOff, keepalive, platform, notSent, refusals,
                 lapses, parallel>>
OnChallenge ==
  /\ Take({"challenge", "denied"})
  /\ errorCountReg' = errorCountReg + 1 /\ mRegistered' = FALSE
  /\ allowReg' = IF errorCountReg' >= MaxErrors THEN FALSE ELSE allowReg
  /\ refusals' = IF Head(events) = "denied" THEN refusals + 1 ELSE refusals
  /\ UNCHANGED <<mRegisterId, regExpires, regs, signOff, keepalive, platform,
                 notSent, lapses, parallel>>

\* Silence or any other refusal: a new registration, unless it is the fifth.
\* Faulty variant: the next registration is not allowed.
OnFailure_Forbids ==
  /\ Take({"failure"})
  /\ errorCountReg' = errorCountReg + 1 /\ mRegistered' = FALSE
  /\ Remove
  /\ refusals' = refusals + 1
  /\ parallel' = (parallel \/ Drops(regs'))
  /\ UNCHANGED <<allowReg, mRegisterId, regExpires, signOff, keepalive, platform,
                 notSent, lapses>>
OnFailure ==
  /\ Take({"failure"})
  /\ errorCountReg' = errorCountReg + 1 /\ mRegistered' = FALSE
  /\ allowReg' = (errorCountReg' < MaxErrors)
  /\ IF allowReg' THEN Remove ELSE UNCHANGED regs
  /\ refusals' = refusals + 1
  /\ parallel' = (parallel \/ Drops(regs'))
  /\ UNCHANGED <<mRegisterId, regExpires, signOff, keepalive, platform,
                 notSent, lapses>>

\* EXOSIP_MESSAGE_REQUESTFAILURE: a keepalive was refused or not answered.  The
\* catalog, a record list or a media status that fails ends here too.
\* Faulty variant: a failed keepalive is only logged.
OnMessageFailure_Logs ==
  /\ Take({"messageFailure"})
  /\ UNCHANGED <<client, regs, signOff, keepalive, platform, ghosts>>
OnMessageFailure ==
  /\ Take({"messageFailure"})
  /\ allowReg' = TRUE /\ mRegistered' = FALSE
  /\ lapses' = IF regExpires THEN lapses + 1 ELSE lapses
  /\ UNCHANGED <<errorCountReg, mRegisterId, regExpires, regs, signOff, keepalive, platform,
                 notSent, refusals, parallel>>

\* request_unregister, on the platform's Boot command: the expiry time is 0
\* from now on, for every later REGISTER too.
request_unregister ==
  /\ Take({"boot"})
  /\ regExpires' = FALSE
  /\ mRegistered' = FALSE
  /\ NewRegister(IF mRegistered /\ mRegisterId \in Regs
                 THEN [regs EXCEPT ![mRegisterId] = "none"] ELSE regs, FALSE)
  /\ UNCHANGED <<allowReg, errorCountReg, keepalive, knows, refusals, lapses>>

gb28181_client_func ==
  \/ Register \/ OnSuccess \/ OnChallenge \/ OnFailure \/ OnMessageFailure
  \/ request_unregister

------------------------------------------------------------------------------
(* The library and the platform *)

Notify(event) == events' = Append(events, event)

\* eXosip_automatic_action: a challenged REGISTER is repeated with credentials.
Repeat(id) ==
  /\ regs[id] = "challenged"
  /\ regs' = [regs EXCEPT ![id] = "authSent"]
  /\ UNCHANGED <<client, signOff, keepalive, events, platform, ghosts>>

\* A registration is refreshed; whether one that was refused with credentials,
\* or kept after the fifth failure, is tried again is up to the library.
Refresh(id) ==
  /\ regs[id] \in {"up", "denied", "failed"}
  /\ events = <<>>
  /\ regs' = [regs EXCEPT ![id] = "authSent"]
  /\ UNCHANGED <<client, signOff, keepalive, events, platform, ghosts>>

Challenge(id) ==
  /\ regs[id] = "sent"
  /\ regs' = [regs EXCEPT ![id] = "challenged"]
  /\ Notify("challenge")
  /\ UNCHANGED <<client, signOff, keepalive, platform, ghosts>>

\* The library has nothing to refresh after a sign-off.
Accept(id) ==
  /\ regs[id] \in {"sent", "authSent"}
  /\ knows' = (id \notin signOff)
  /\ regs' = [regs EXCEPT ![id] = IF id \in signOff THEN "none" ELSE "up"]
  /\ signOff' = signOff \ {id}
  /\ Notify("success")
  /\ UNCHANGED <<client, keepalive, faults, ghosts>>

\* Refused, or not answered, though the platform may have got it.
Refuse(id) ==
  /\ regs[id] \in {"sent", "authSent"}
  /\ Fault
  /\ knows' \in {knows, id \notin signOff}
  /\ regs' = [regs EXCEPT ![id] = "failed"]
  /\ Notify("failure")
  /\ UNCHANGED <<client, signOff, keepalive, ghosts>>

\* The credentials are refused, with another 401.
Deny(id) ==
  /\ regs[id] = "authSent"
  /\ Fault
  /\ regs' = [regs EXCEPT ![id] = "denied"]
  /\ Notify("denied")
  /\ UNCHANGED <<client, signOff, keepalive, knows, ghosts>>

\* A platform that does not know the device refuses its keepalive.
AnswerKeepalive ==
  /\ keepalive
  /\ keepalive' = FALSE
  /\ \/ knows /\ UNCHANGED <<events, faults>>
     \/ ~knows /\ Notify("messageFailure") /\ UNCHANGED faults
     \/ knows /\ Fault /\ Notify("messageFailure")
  /\ UNCHANGED <<client, regs, signOff, knows, ghosts>>

Restart ==
  /\ knows /\ Fault
  /\ knows' = FALSE
  /\ UNCHANGED <<client, library, ghosts>>

Boot ==
  /\ knows /\ regExpires /\ ~\E k \in DOMAIN events : events[k] = "boot"
  /\ Notify("boot")
  /\ UNCHANGED <<client, regs, signOff, keepalive, platform, ghosts>>

Answer(id) == Challenge(id) \/ Accept(id) \/ Refuse(id) \/ Deny(id)

Next == \/ gb28181_client_func \/ Keepalive \/ AnswerKeepalive \/ Restart \/ Boot
        \/ \E id \in Regs : Repeat(id) \/ Refresh(id) \/ Answer(id)

\* The loop runs on, its clock moves, the library repeats what was challenged,
\* and every message is answered or times out.
Fairness == /\ WF_vars(gb28181_client_func) /\ WF_vars(Keepalive) /\ WF_vars(AnswerKeepalive)
            /\ \A id \in Regs : WF_vars(Repeat(id)) /\ WF_vars(Answer(id))

Spec == Init /\ [][Next]_vars /\ Fairness

------------------------------------------------------------------------------
(* Properties *)

\* Type invariant.
TypeOK ==
  /\ allowReg \in BOOLEAN /\ mRegistered \in BOOLEAN /\ regExpires \in BOOLEAN
  /\ errorCountReg \in Nat
  /\ mRegisterId \in Regs \cup {0}
  /\ regs \in [Regs -> {"none", "sent", "challenged", "authSent", "denied", "failed", "up"}]
  /\ signOff \subseteq Regs
  /\ keepalive \in BOOLEAN
  /\ events \in Seq({"success", "challenge", "denied", "failure", "messageFailure", "boot"})
  /\ knows \in BOOLEAN /\ faults \in 0..Faults
  /\ notSent \in BOOLEAN /\ refusals \in Nat /\ lapses \in Nat /\ parallel \in BOOLEAN

GaveUp == errorCountReg >= MaxErrors
Denied == \E id \in Regs : regs[id] = "denied"

\* A device that is not registered and not allowed to register waits for
\* something: an answer or an event.  The exceptions are final: five failures, a
\* REGISTER that never left (allowReg stays cleared), and credentials the
\* platform refuses (the library is left to try again, and may not).
NeverStuck ==
  ~mRegistered /\ ~allowReg /\ events = <<>> /\ ~(\E id \in Regs : Outstanding(regs[id]))
    => GaveUp \/ notSent \/ Denied

\* The platform's challenge, a part of every registration, counts as a failure
\* too.  Even so the device does not give up on challenges alone: at least two
\* REGISTERs were refused or not answered since the last success, if never two
\* were under way at once.  (A registration the device has forgotten can fail
\* while its REGISTER waits for an answer: the device then drops that one and
\* sends the next.)
GivesUpOnRefusals == GaveUp /\ ~parallel => refusals >= 2

\* Registrations the device has forgotten, which the library goes on refreshing,
\* are left behind by failed MESSAGEs only, one each.
ForgottenByLapses ==
  Cardinality({id \in Regs : regs[id] = "up"}) <= 1 + lapses

\* After a restart of the platform, or any fault, the device is registered
\* again, as it believes it is, unless it is stuck or was told to boot.
Heals == []<>((mRegistered /\ knows) \/ GaveUp \/ notSent \/ Denied \/ ~regExpires)
==============================================================================
