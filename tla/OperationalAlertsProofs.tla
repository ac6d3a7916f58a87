---------------------- MODULE OperationalAlertsProofs ----------------------
(***************************************************************************)
(* Proofs about OperationalAlerts for any number of dispatchers,           *)
(* generations, attempts and faults.  The rows keep their types and no two *)
(* alerts are opened within one cooldown (AlertInvariant); the delivery    *)
(* rows implement the outbox, because whoever is about to transmit holds a *)
(* claim no one else holds (ClaimInvariant); and an alert the owner got is *)
(* followed by a recovery when the incident ends (WordInvariant).          *)
(*                                                                         *)
(* The typing of each step is proved in three parts, which different       *)
(* actions change: the incident with its cooldown, the delivery rows, and  *)
(* the dispatchers with what they sent.                                    *)
(***************************************************************************)
EXTENDS OperationalAlerts, TLAPS

IncidentTyped ==
    incident \in [status : {"none", "pending", "firing", "acknowledged", "resolved"},
                  severity : Severities, generation : 0..MaxGenerations, cooling : BOOLEAN]

RowTyped ==
    row \in [Messages -> [state : {"absent", "pending", "claimed", "failed", "delivered",
                                   "suppressed"},
                          attempts : 0..MaxSends]]

Working ==
    [pc : {"transmitting"}, message : Messages, token : 1..MaxSends]
       \cup [pc : {"completing"}, message : Messages, token : 1..MaxSends, result : Result]

DispatcherTyped ==
    /\ dispatcher \in [Dispatchers -> {Idle} \cup Working]
    /\ sent \in [Messages -> SUBSET (1..MaxSends)]
    /\ last \in {"calm", "alert", "late"}

\* An incident that fired exists: its number names its message.
Numbered == incident.status # "none" => incident.generation >= 1

\* An alert opened since the last cooldown means that one is running.
Spaced == alerts \in 0..1 /\ (alerts = 1 => incident.cooling)

AlertInvariant ==
    /\ signal \in BOOLEAN /\ faults \in 0..MaxFaults
    /\ IncidentTyped /\ Numbered /\ Spaced /\ RowTyped /\ DispatcherTyped

LEMMA MessageTyped ==
    ASSUME NEW g \in 1..MaxGenerations
    PROVE  Alert(g) \in Messages /\ Recovery(g) \in Messages
BY DEF Alert, Recovery, Messages

LEMMA EnsuredTyped ==
    ASSUME RowTyped, NEW m \in Messages
    PROVE  Ensured(m) \in [Messages -> [state : {"absent", "pending", "claimed", "failed",
                                                 "delivered", "suppressed"},
                                        attempts : 0..MaxSends]]
BY AlertAssumption DEF RowTyped, Ensured, Pending

LEMMA EndedTyped ==
    ASSUME RowTyped, NEW m \in Messages, NEW s \in {"delivered", "failed", "suppressed"}
    PROVE  [row EXCEPT ![m] = Ended(m, s)]
              \in [Messages -> [state : {"absent", "pending", "claimed", "failed",
                                         "delivered", "suppressed"},
                                attempts : 0..MaxSends]]
BY DEF RowTyped, Ended

LEMMA FaultTyped == faults \in 0..MaxFaults /\ Fault => faults' \in 0..MaxFaults
BY AlertAssumption DEF Fault

LEMMA InitHolds == Init => AlertInvariant
<1> SUFFICES ASSUME Init PROVE AlertInvariant
    OBVIOUS
<1>1. IncidentTyped /\ Numbered /\ Spaced
    BY AlertAssumption DEF Init, IncidentTyped, Numbered, Spaced
<1>2. RowTyped
    BY AlertAssumption DEF Init, RowTyped, Absent
<1>3. DispatcherTyped
    BY DEF Init, DispatcherTyped
<1>4. signal \in BOOLEAN
    BY Zenon DEF Init
<1>5. faults \in 0..MaxFaults
    BY AlertAssumption DEF Init
<1> QED
    BY <1>1, <1>2, <1>3, <1>4, <1>5 DEF AlertInvariant

\* An evaluation, whatever it saw: an alert is opened only outside a cooldown, and
\* starts one.
LEMMA ApplyHolds ==
    ASSUME AlertInvariant, NEW seen \in BOOLEAN, Apply(seen)
    PROVE  IncidentTyped' /\ Numbered' /\ Spaced' /\ RowTyped'
<1> USE DEF AlertInvariant
<1>1. CASE ~seen
  <2>1. Resolve
    BY <1>1 DEF Apply
  <2>2. incident.generation \in 1..MaxGenerations
    BY <2>1 DEF Resolve, IncidentTyped, Numbered
  <2>3. RowTyped'
    BY <2>1, <2>2, EnsuredTyped, MessageTyped DEF Resolve, RowTyped
  <2>4. IncidentTyped' /\ Numbered' /\ Spaced'
    BY <2>1, <2>2 DEF Resolve, IncidentTyped, Numbered, Spaced
  <2> QED
    BY <2>3, <2>4
<1>2. CASE seen
  <2>1. Detect
    BY <1>2 DEF Apply
  <2>2. CASE incident.status = "firing"
    <3>1. row' = Ensured(Alert(incident.generation)) /\ UNCHANGED <<incident, alerts>>
      BY <2>1, <2>2 DEF Detect
    <3>2. incident.generation \in 1..MaxGenerations
      BY <2>2 DEF IncidentTyped, Numbered
    <3> QED
      BY <3>1, <3>2, EnsuredTyped, MessageTyped DEF IncidentTyped, Numbered, Spaced, RowTyped
  <2>3. CASE incident.status # "firing" /\ MayFire
    <3> DEFINE g == IF incident.status = "pending" THEN incident.generation
                    ELSE incident.generation + 1
    <3>1. Fire /\ ~incident.cooling
      BY <2>1, <2>3 DEF Detect, MayFire
    <3>2. g \in 1..MaxGenerations
      BY <2>1, <2>3, AlertAssumption DEF Detect, IncidentTyped, Numbered
    <3>3. row' = Ensured(Alert(g))
      BY <3>1 DEF Fire
    <3>4. RowTyped'
      BY <3>2, <3>3, EnsuredTyped, MessageTyped DEF RowTyped
    <3>5. incident' = [incident EXCEPT !.status = "firing", !.generation = g, !.cooling = TRUE]
      BY <3>1 DEF Fire
    <3> HIDE DEF g
    <3>6. IncidentTyped' /\ Numbered' /\ incident'.cooling
      <4>1. incident' = [status |-> "firing", severity |-> incident.severity,
                         generation |-> g, cooling |-> TRUE]
        BY <3>5 DEF IncidentTyped
      <4>2. incident.severity \in Severities
        BY DEF IncidentTyped
      <4> QED
        BY <3>2, <4>1, <4>2, AlertAssumption DEF IncidentTyped, Numbered
    <3>7. alerts = 0 /\ alerts' = 1
      BY <3>1 DEF Fire, Spaced
    <3> QED
      BY <3>4, <3>6, <3>7 DEF Spaced
  <2>4. CASE incident.status # "firing" /\ ~MayFire
    <3>1. Pend
      BY <2>1, <2>4 DEF Detect
    <3>2. RowTyped' /\ alerts' = alerts
      BY <3>1 DEF Pend, RowTyped
    <3>3. IncidentTyped' /\ Numbered' /\ incident'.cooling = incident.cooling
      <4>1. CASE incident.status = "pending"
        BY <3>1, <4>1 DEF Pend, IncidentTyped, Numbered
      <4>2. CASE incident.status # "pending"
        <5>1. incident.generation + 1 \in 1..MaxGenerations
          BY <2>1, <2>4, <4>2, AlertAssumption DEF Detect, IncidentTyped
        <5>2. incident' = [incident EXCEPT !.status = "pending",
                                           !.generation = incident.generation + 1]
          BY <3>1, <4>2 DEF Pend
        <5>3. incident' = [status |-> "pending", severity |-> incident.severity,
                           generation |-> incident.generation + 1,
                           cooling |-> incident.cooling]
          BY <5>2 DEF IncidentTyped
        <5>4. incident.severity \in Severities /\ incident.cooling \in BOOLEAN
          BY DEF IncidentTyped
        <5> QED
          BY <5>1, <5>3, <5>4, AlertAssumption DEF IncidentTyped, Numbered
      <4> QED
        BY <4>1, <4>2
    <3> QED
      BY <3>2, <3>3 DEF Spaced
  <2> QED
    BY <2>2, <2>3, <2>4
<1> QED
    BY <1>1, <1>2

LEMMA NextHolds == AlertInvariant /\ [Next]_vars => AlertInvariant'
<1> SUFFICES ASSUME AlertInvariant, [Next]_vars PROVE AlertInvariant'
    OBVIOUS
<1> USE DEF AlertInvariant
<1>1. CASE SignalChanges
    BY <1>1 DEF SignalChanges, delivering, IncidentTyped, Numbered, Spaced, RowTyped,
                DispatcherTyped
<1>2. CASE Evaluate
  <2>1. Apply(signal) /\ UNCHANGED <<signal, faults, delivering>>
    BY <1>2 DEF Evaluate, Apply
  <2>2. IncidentTyped' /\ Numbered' /\ Spaced' /\ RowTyped'
    BY <2>1, ApplyHolds
  <2> QED
    BY <2>1, <2>2 DEF delivering, DispatcherTyped
<1>3. CASE EvaluateLate
  <2>1. Apply(~signal) /\ Fault /\ UNCHANGED <<signal, delivering>>
    BY <1>3 DEF EvaluateLate, Apply
  <2>2. IncidentTyped' /\ Numbered' /\ Spaced' /\ RowTyped'
    BY <2>1, ApplyHolds
  <2> QED
    BY <2>1, <2>2, FaultTyped DEF delivering, DispatcherTyped
<1>4. CASE Acknowledge
  <2> DEFINE m == Alert(incident.generation)
  <2>1. m \in Messages
    BY <1>4, MessageTyped DEF Acknowledge, IncidentTyped, Numbered
  <2>2. row' = row \/ row' = [row EXCEPT ![m] = Ended(m, "suppressed")]
    BY <1>4 DEF Acknowledge
  <2> HIDE DEF m
  <2>3. RowTyped'
    BY <2>1, <2>2, EndedTyped DEF RowTyped
  <2> QED
    BY <1>4, <2>3 DEF Acknowledge, delivering, IncidentTyped, Numbered, Spaced, DispatcherTyped
<1>5. CASE CooldownPasses
  <2>1. incident' = [status |-> incident.status, severity |-> incident.severity,
                     generation |-> incident.generation, cooling |-> FALSE]
    BY <1>5 DEF CooldownPasses, IncidentTyped
  <2>2. IncidentTyped' /\ Numbered'
    BY <2>1, AlertAssumption DEF IncidentTyped, Numbered
  <2>3. Spaced'
    BY <1>5 DEF CooldownPasses, Spaced
  <2> QED
    BY <1>5, <2>2, <2>3 DEF CooldownPasses, delivering, RowTyped, DispatcherTyped
<1>6. ASSUME NEW d \in Dispatchers, NEW m \in Messages, SuppressAtClaim(d, m)
      PROVE  AlertInvariant'
  <2>1. RowTyped'
    BY <1>6, EndedTyped DEF SuppressAtClaim, RowTyped
  <2>2. faults' \in 0..MaxFaults
    BY <1>6, FaultTyped DEF SuppressAtClaim, Looks
  <2> QED
    BY <1>6, <2>1, <2>2 DEF SuppressAtClaim, delivering, IncidentTyped, Numbered, Spaced,
                            DispatcherTyped
<1>7. ASSUME NEW d \in Dispatchers, NEW m \in Messages, Claim(d, m)
      PROVE  AlertInvariant'
  <2>1. row[m].attempts + 1 \in 1..MaxSends
    BY <1>7, AlertAssumption DEF Claim, Eligible, Exhausted, RowTyped
  <2>2. RowTyped'
    BY <1>7, <2>1 DEF Claim, RowTyped
  <2>3. DispatcherTyped'
    BY <1>7, <2>1 DEF Claim, DispatcherTyped, Working
  <2>4. faults' \in 0..MaxFaults
    BY <1>7, FaultTyped DEF Claim, Looks
  <2> QED
    BY <1>7, <2>2, <2>3, <2>4 DEF Claim, IncidentTyped, Numbered, Spaced
<1>8. ASSUME NEW d \in Dispatchers, Transmit(d)
      PROVE  AlertInvariant'
  <2> DEFINE m == dispatcher[d].message
  <2>1. m \in Messages /\ dispatcher[d].token \in 1..MaxSends
    BY <1>8 DEF Transmit, DispatcherTyped, Working, Idle
  <2>2. PICK result \in Result, arrived \in BOOLEAN :
          /\ IF arrived /\ result = "failed" THEN Fault ELSE UNCHANGED faults
          /\ dispatcher' = [dispatcher EXCEPT
                ![d] = [pc |-> "completing", message |-> m, token |-> dispatcher[d].token,
                        result |-> result]]
          /\ sent' = [sent EXCEPT ![m] = @ \cup {dispatcher[d].token}]
          /\ last' = IF arrived THEN Impression(m) ELSE last
    BY <1>8 DEF Transmit
  <2> HIDE DEF m
  <2>3. faults' \in 0..MaxFaults
    BY <2>2, FaultTyped
  <2>4. dispatcher' \in [Dispatchers -> {Idle} \cup Working]
    BY <2>1, <2>2 DEF DispatcherTyped, Working
  <2>5. sent' \in [Messages -> SUBSET (1..MaxSends)]
    BY <2>1, <2>2 DEF DispatcherTyped
  <2>6. last' \in {"calm", "alert", "late"}
    BY <2>2 DEF DispatcherTyped, Impression
  <2> QED
    BY <1>8, <2>3, <2>4, <2>5, <2>6 DEF Transmit, IncidentTyped, Numbered, Spaced, RowTyped,
                                        DispatcherTyped
<1>9. ASSUME NEW d \in Dispatchers, Complete(d)
      PROVE  AlertInvariant'
  <2> DEFINE m == dispatcher[d].message
             state == IF dispatcher[d].result = "delivered" THEN "delivered"
                      ELSE IF row[m].attempts >= MaxSends THEN "suppressed" ELSE "failed"
  <2>1. m \in Messages
    BY <1>9 DEF Complete, DispatcherTyped, Working, Idle
  <2>2. state \in {"delivered", "failed", "suppressed"}
    OBVIOUS
  <2>3. row' = row \/ row' = [row EXCEPT ![m] = Ended(m, state)]
    BY <1>9 DEF Complete
  <2>4. dispatcher' = [dispatcher EXCEPT ![d] = Idle]
    BY <1>9 DEF Complete
  <2> HIDE DEF m, state
  <2>5. RowTyped'
    BY <2>1, <2>2, <2>3, EndedTyped DEF RowTyped
  <2>6. DispatcherTyped'
    BY <1>9, <2>4 DEF Complete, DispatcherTyped
  <2> QED
    BY <1>9, <2>5, <2>6 DEF Complete, IncidentTyped, Numbered, Spaced
<1>10. ASSUME NEW d \in Dispatchers, Crash(d)
       PROVE  AlertInvariant'
  <2>1. faults' \in 0..MaxFaults
    BY <1>10, FaultTyped DEF Crash
  <2>2. DispatcherTyped'
    BY <1>10 DEF Crash, DispatcherTyped
  <2> QED
    BY <1>10, <2>1, <2>2 DEF Crash, IncidentTyped, Numbered, Spaced, RowTyped
<1>11. CASE UNCHANGED vars
    BY <1>11 DEF vars, IncidentTyped, Numbered, Spaced, RowTyped, DispatcherTyped
<1> QED
    BY <1>1, <1>2, <1>3, <1>4, <1>5, <1>6, <1>7, <1>8, <1>9, <1>10, <1>11 DEF Next, Deliver

\* The inductive invariant: the types of the rows and of what a dispatcher holds,
\* and the cooldown that every opened alert starts (operational_alerts.py:326-410,
\* :614-681, :748-782).
THEOREM AlertInvariantHolds == Spec => []AlertInvariant
BY InitHolds, NextHolds, PTL DEF Spec

\* The incident, the delivery rows and what the dispatchers hold keep their types
\* (operational_alerts.py:262-383, :614-782).
THEOREM TypeCorrect == Spec => []TypeOK
<1>1. AlertInvariant => TypeOK
    BY DEF AlertInvariant, IncidentTyped, Spaced, RowTyped, DispatcherTyped, Working, TypeOK
<1> QED
    BY <1>1, AlertInvariantHolds, PTL

\* No two alerts are opened within one cooldown, although evaluations may write what
\* they saw long ago and the incident may be resolved and reopened in between
\* (operational_alerts.py:362-382).
THEOREM AlertsAreSpacedHolds == Spec => []AlertsAreSpaced
<1>1. AlertInvariant => AlertsAreSpaced
    BY DEF AlertInvariant, Spaced, AlertsAreSpaced
<1> QED
    BY <1>1, AlertInvariantHolds, PTL

-----------------------------------------------------------------------------
(***************************************************************************)
(* The delivery rows implement an outbox.                                  *)
(***************************************************************************)

\* A row that is not there was never claimed, and only claims transmit.
RowSound(m) ==
    /\ row[m].state = "absent" => row[m].attempts = 0
    /\ sent[m] \subseteq 1..row[m].attempts

\* Whoever works holds a claim; if it is about to transmit, one that did not yet.
TokenHeld(d) ==
    /\ dispatcher[d].pc # "idle" =>
          dispatcher[d].token \in 1..row[dispatcher[d].message].attempts
    /\ dispatcher[d].pc = "transmitting" =>
          dispatcher[d].token \notin sent[dispatcher[d].message]

\* No two dispatchers are about to transmit for the same claim.
TokensDiffer(d, e) ==
    /\ dispatcher[d].pc = "transmitting" /\ dispatcher[e].pc = "transmitting"
    /\ dispatcher[d].message = dispatcher[e].message
    /\ dispatcher[d].token = dispatcher[e].token
    => d = e

\* The inductive invariant of the claims.
ClaimInvariant ==
    /\ AlertInvariant
    /\ \A m \in Messages : RowSound(m)
    /\ \A d \in Dispatchers : TokenHeld(d)
    /\ \A d, e \in Dispatchers : TokensDiffer(d, e)

States == {"absent", "pending", "claimed", "failed", "delivered", "suppressed"}

\* The fields of a row and what a dispatcher at work holds, under the invariant.
LEMMA RowFields ==
    ASSUME ClaimInvariant, NEW m \in Messages
    PROVE  /\ row[m].state \in States /\ row[m].attempts \in 0..MaxSends
           /\ MaxSends \in Nat
           /\ sent[m] \in SUBSET (1..MaxSends) /\ sent[m] \subseteq 1..row[m].attempts
           /\ row[m].state = "absent" => row[m].attempts = 0
BY AlertAssumption DEF ClaimInvariant, AlertInvariant, RowTyped, DispatcherTyped, RowSound, States

LEMMA HolderFields ==
    ASSUME ClaimInvariant, NEW d \in Dispatchers, dispatcher[d].pc # "idle"
    PROVE  /\ dispatcher[d] \in Working /\ dispatcher[d].message \in Messages
           /\ dispatcher[d].token \in 1..row[dispatcher[d].message].attempts
           /\ row[dispatcher[d].message].state # "absent"
<1>1. dispatcher[d] \in Working /\ dispatcher[d].message \in Messages
    BY DEF ClaimInvariant, AlertInvariant, DispatcherTyped, Working, Idle
<1>2. dispatcher[d].token \in 1..row[dispatcher[d].message].attempts
    BY DEF ClaimInvariant, TokenHeld
<1> QED
    BY <1>1, <1>2, RowFields

\* A transaction that leaves the attempts and the transmissions alone, and moves
\* no dispatcher but to rest.
Quiet ==
    /\ \A m \in Messages : /\ row'[m].attempts = row[m].attempts
                           /\ row'[m].state = "absent" => row[m].state = "absent"
    /\ sent' = sent
    /\ \A d \in Dispatchers : dispatcher'[d] = dispatcher[d] \/ dispatcher'[d] = Idle

LEMMA QuietKeepsClaims ==
    ASSUME ClaimInvariant, AlertInvariant', Quiet
    PROVE  ClaimInvariant'
<1>1. ASSUME NEW m \in Messages PROVE RowSound(m)'
    BY <1>1, RowFields DEF Quiet, RowSound
<1>2. ASSUME NEW d \in Dispatchers, dispatcher'[d].pc # "idle"
      PROVE  dispatcher'[d] = dispatcher[d]
    BY <1>2 DEF Quiet, Idle
<1>3. ASSUME NEW d \in Dispatchers PROVE TokenHeld(d)'
  <2>1. CASE dispatcher'[d].pc = "idle"
    BY <2>1 DEF TokenHeld
  <2>2. CASE dispatcher'[d].pc # "idle"
    BY <1>2, <2>2, HolderFields DEF ClaimInvariant, TokenHeld, Quiet
  <2> QED
    BY <2>1, <2>2
<1>4. \A d, e \in Dispatchers : TokensDiffer(d, e)'
    BY <1>2 DEF ClaimInvariant, TokensDiffer
<1> QED
    BY <1>1, <1>3, <1>4 DEF ClaimInvariant

Phase(state) ==
    IF state = "absent" THEN "absent"
    ELSE IF state \in {"pending", "claimed", "failed"} THEN "open" ELSE "settled"

\* What a quiet transaction may do to a row is to open it, to settle it, or
\* nothing the outbox sees.
QuietPhases ==
    \A m \in Messages :
        \/ Phase(row'[m].state) = Phase(row[m].state)
        \/ row[m].state = "absent" /\ Phase(row'[m].state) = "open"
        \/ Phase(row[m].state) = "open" /\ Phase(row'[m].state) = "settled"

LEMMA MessageOfRow ==
    \A m \in Messages :
        Message(m) = [phase |-> Phase(row[m].state), claims |-> row[m].attempts,
                      sent |-> sent[m]]
BY DEF Message, Phase, Open

LEMMA MessagesTyped ==
    ClaimInvariant => MessageBox \in [Messages -> Abstract!Box]
<1> SUFFICES ASSUME ClaimInvariant, NEW m \in Messages PROVE Message(m) \in Abstract!Box
    BY DEF MessageBox
<1>1. row[m].attempts \in Nat /\ sent[m] \in SUBSET Nat
    BY RowFields
<1> QED
    BY <1>1, MessageOfRow DEF Abstract!Box, Phase

\* It is enough to look at one message at a time.
LEMMA OneMessageAtATime ==
    ASSUME ClaimInvariant',
           \A m \in Messages : \/ Message(m)' = Message(m)
                               \/ Abstract!Advances(Message(m), Message(m)')
    PROVE  Abstract!Next
<1>1. MessageBox' \in [Messages -> Abstract!Box]
  <2>1. (ClaimInvariant => MessageBox \in [Messages -> Abstract!Box])'
    BY MessagesTyped, PTL
  <2> QED
    BY <2>1
<1>2. ASSUME NEW m \in Messages
      PROVE  MessageBox[m] = Message(m) /\ MessageBox'[m] = Message(m)'
    BY DEF MessageBox
<1> QED
    BY <1>1, <1>2 DEF Abstract!Next

LEMMA QuietRefines ==
    ASSUME ClaimInvariant, ClaimInvariant', Quiet, QuietPhases
    PROVE  Abstract!Next
<1> SUFFICES ASSUME NEW m \in Messages
             PROVE  Message(m)' = Message(m) \/ Abstract!Advances(Message(m), Message(m)')
    BY OneMessageAtATime
<1>1. Message(m) = [phase |-> Phase(row[m].state), claims |-> row[m].attempts,
                    sent |-> sent[m]]
    BY MessageOfRow
<1>2. Message(m)' = [phase |-> Phase(row'[m].state), claims |-> row[m].attempts,
                     sent |-> sent[m]]
    BY DEF Quiet, Message, Phase, Open
<1>3. CASE Phase(row'[m].state) = Phase(row[m].state)
    BY <1>1, <1>2, <1>3
<1>4. CASE row[m].state = "absent" /\ Phase(row'[m].state) = "open"
  <2>1. row[m].attempts = 0 /\ sent[m] = {}
    BY <1>4, RowFields
  <2> QED
    BY <1>1, <1>2, <1>4, <2>1 DEF Abstract!Advances, Abstract!Opens, Phase
<1>5. CASE Phase(row[m].state) = "open" /\ Phase(row'[m].state) = "settled"
    BY <1>1, <1>2, <1>5 DEF Abstract!Advances, Abstract!Settles
<1> QED
    BY <1>3, <1>4, <1>5 DEF QuietPhases

\* What an incident writes: a message is opened, or one on its way is dropped.
LEMMA EnsuredIsQuiet ==
    ASSUME ClaimInvariant, NEW m \in Messages, row' = Ensured(m) \/ row' = row,
           UNCHANGED <<sent, dispatcher>>
    PROVE  Quiet /\ QuietPhases
<1>1. row \in [Messages -> [state : States, attempts : 0..MaxSends]]
    BY DEF ClaimInvariant, AlertInvariant, RowTyped, States
<1>2. ASSUME NEW n \in Messages
      PROVE  \/ row'[n] = row[n]
             \/ row[n].state = "absent" /\ row'[n].state = "pending" /\ row'[n].attempts = 0
    BY <1>1 DEF Ensured, Pending
<1> QED
    BY <1>2, RowFields DEF Quiet, QuietPhases, Phase

LEMMA EndedIsQuiet ==
    ASSUME ClaimInvariant, NEW m \in Messages, Phase(row[m].state) = "open",
           NEW state \in {"delivered", "failed", "suppressed"},
           row' = [row EXCEPT ![m] = Ended(m, state)], sent' = sent,
           \A d \in Dispatchers : dispatcher'[d] = dispatcher[d] \/ dispatcher'[d] = Idle
    PROVE  Quiet /\ QuietPhases
<1>1. row \in [Messages -> [state : States, attempts : 0..MaxSends]]
    BY DEF ClaimInvariant, AlertInvariant, RowTyped, States
<1>2. row'[m].state = state /\ row'[m].attempts = row[m].attempts
    BY <1>1 DEF Ended
<1>3. \A n \in Messages : n # m => row'[n] = row[n]
    BY <1>1
<1>4. Phase(state) \in {"open", "settled"} /\ state # "absent"
    BY DEF Phase
<1> QED
    BY <1>2, <1>3, <1>4 DEF Quiet, QuietPhases

LEMMA SameRowsAreQuiet ==
    ASSUME row' = row, sent' = sent,
           \A d \in Dispatchers : dispatcher'[d] = dispatcher[d] \/ dispatcher'[d] = Idle
    PROVE  Quiet /\ QuietPhases
BY DEF Quiet, QuietPhases

LEMMA ApplyIsQuiet ==
    ASSUME ClaimInvariant, NEW seen \in BOOLEAN, Apply(seen)
    PROVE  Quiet /\ QuietPhases
<1>0. IncidentTyped /\ Numbered /\ UNCHANGED <<sent, dispatcher>>
    BY DEF ClaimInvariant, AlertInvariant, Apply, delivering
<1>1. CASE Resolve
  <2>1. Recovery(incident.generation) \in Messages
    BY <1>0, <1>1, MessageTyped DEF Resolve, IncidentTyped, Numbered
  <2> QED
    BY <1>0, <1>1, <2>1, EnsuredIsQuiet DEF Resolve
<1>2. CASE Detect
  <2>1. CASE incident.status = "firing"
    <3>1. Alert(incident.generation) \in Messages
      BY <1>0, <2>1, MessageTyped DEF IncidentTyped, Numbered
    <3> QED
      BY <1>0, <1>2, <2>1, <3>1, EnsuredIsQuiet DEF Detect
  <2>2. CASE incident.status # "firing" /\ MayFire
    <3>1. Fire
      BY <1>2, <2>2 DEF Detect
    <3> DEFINE g == IF incident.status = "pending" THEN incident.generation
                    ELSE incident.generation + 1
    <3>2. g \in 1..MaxGenerations
      BY <1>0, <1>2, <2>2, AlertAssumption DEF Detect, IncidentTyped, Numbered
    <3>3. row' = Ensured(Alert(g)) /\ Alert(g) \in Messages
      BY <3>1, <3>2, MessageTyped DEF Fire
    <3> QED
      BY <1>0, <3>3, EnsuredIsQuiet
  <2>3. CASE incident.status # "firing" /\ ~MayFire
    BY <1>0, <1>2, <2>3, SameRowsAreQuiet DEF Detect, Pend
  <2> QED
    BY <2>1, <2>2, <2>3
<1> QED
    BY <1>1, <1>2 DEF Apply

LEMMA AcknowledgeIsQuiet ==
    ASSUME ClaimInvariant, Acknowledge
    PROVE  Quiet /\ QuietPhases
<1> DEFINE m == Alert(incident.generation)
<1>1. m \in Messages /\ UNCHANGED <<sent, dispatcher>>
    BY MessageTyped
       DEF Acknowledge, ClaimInvariant, AlertInvariant, IncidentTyped, Numbered, delivering
<1>2. row' = IF row[m].state \in {"pending", "failed"}
             THEN [row EXCEPT ![m] = Ended(m, "suppressed")] ELSE row
    BY DEF Acknowledge
<1> HIDE DEF m
<1>3. CASE row' = row
    BY <1>1, <1>3, SameRowsAreQuiet
<1>4. CASE row' # row
    BY <1>1, <1>2, <1>4, EndedIsQuiet DEF Phase
<1> QED
    BY <1>3, <1>4

LEMMA SuppressIsQuiet ==
    ASSUME ClaimInvariant, NEW d \in Dispatchers, NEW m \in Messages, SuppressAtClaim(d, m)
    PROVE  Quiet /\ QuietPhases
<1>1. /\ Phase(row[m].state) = "open" /\ UNCHANGED <<sent, dispatcher>>
      /\ row' = [row EXCEPT ![m] = Ended(m, "suppressed")]
    BY DEF SuppressAtClaim, Eligible, Phase, delivering
<1> QED
    BY <1>1, EndedIsQuiet

LEMMA CompleteIsQuiet ==
    ASSUME ClaimInvariant, NEW d \in Dispatchers, Complete(d)
    PROVE  Quiet /\ QuietPhases
<1> DEFINE m == dispatcher[d].message
           state == IF dispatcher[d].result = "delivered" THEN "delivered"
                    ELSE IF row[m].attempts >= MaxSends THEN "suppressed" ELSE "failed"
<1>1. /\ m \in Messages /\ sent' = sent /\ dispatcher' = [dispatcher EXCEPT ![d] = Idle]
      /\ row' = IF HoldsClaim(d) THEN [row EXCEPT ![m] = Ended(m, state)] ELSE row
      /\ HoldsClaim(d) => row[m].state = "claimed"
    BY HolderFields DEF Complete, HoldsClaim
<1>2. state \in {"delivered", "failed", "suppressed"}
    OBVIOUS
<1> HIDE DEF m, state
<1>3. \A e \in Dispatchers : dispatcher'[e] = dispatcher[e] \/ dispatcher'[e] = Idle
    BY <1>1 DEF ClaimInvariant, AlertInvariant, DispatcherTyped
<1>4. CASE HoldsClaim(d)
    BY <1>1, <1>2, <1>3, <1>4, EndedIsQuiet DEF Phase
<1>5. CASE ~HoldsClaim(d)
    BY <1>1, <1>3, <1>5, SameRowsAreQuiet
<1> QED
    BY <1>4, <1>5

LEMMA CrashIsQuiet ==
    ASSUME ClaimInvariant, NEW d \in Dispatchers, Crash(d)
    PROVE  Quiet /\ QuietPhases
<1>1. \A e \in Dispatchers : dispatcher'[e] = dispatcher[e] \/ dispatcher'[e] = Idle
    BY DEF Crash, ClaimInvariant, AlertInvariant, DispatcherTyped
<1> QED
    BY <1>1, SameRowsAreQuiet DEF Crash


\* What a claim finds and leaves.
ClaimEffect(d, m) ==
    /\ row[m].state \in {"pending", "failed", "claimed"} /\ row[m].attempts < MaxSends
    /\ row'[m] = [state |-> "claimed", attempts |-> row[m].attempts + 1]
    /\ \A n \in Messages : n # m => row'[n] = row[n]
    /\ dispatcher'[d] = [pc |-> "transmitting", message |-> m, token |-> row[m].attempts + 1]
    /\ \A e \in Dispatchers : e # d => dispatcher'[e] = dispatcher[e]
    /\ sent' = sent

LEMMA ClaimWrites ==
    ASSUME ClaimInvariant, NEW d \in Dispatchers, NEW m \in Messages, Claim(d, m)
    PROVE  ClaimEffect(d, m)
<1>1. row[m].attempts \in 0..MaxSends /\ MaxSends \in Nat
    BY RowFields
<1>2. row[m].state \in {"pending", "failed", "claimed"} /\ row[m].attempts < MaxSends
    BY <1>1 DEF Claim, Eligible, Exhausted
<1>3. row \in [Messages -> [state : States, attempts : 0..MaxSends]]
      /\ dispatcher \in [Dispatchers -> {Idle} \cup Working]
    BY DEF ClaimInvariant, AlertInvariant, RowTyped, DispatcherTyped, States
<1> QED
    BY <1>2, <1>3 DEF Claim, ClaimEffect

LEMMA ClaimKeepsClaims ==
    ASSUME ClaimInvariant, AlertInvariant', NEW d \in Dispatchers, NEW m \in Messages,
           Claim(d, m)
    PROVE  ClaimInvariant'
<1>0. ClaimEffect(d, m)
    BY ClaimWrites
<1>1. row[m].attempts \in Nat /\ sent[m] \subseteq 1..row[m].attempts
    BY RowFields
<1>2. ASSUME NEW n \in Messages PROVE RowSound(n)'
  <2>1. CASE n = m
    BY <1>0, <1>1, <2>1 DEF RowSound, ClaimEffect
  <2>2. CASE n # m
    BY <1>0, <2>2 DEF RowSound, ClaimInvariant, ClaimEffect
  <2> QED
    BY <2>1, <2>2
<1>3. ASSUME NEW e \in Dispatchers PROVE TokenHeld(e)'
  <2>1. CASE e = d
    BY <1>0, <1>1, <2>1 DEF TokenHeld, ClaimEffect
  <2>2. CASE e # d /\ dispatcher[e].pc # "idle"
    <3>1. /\ dispatcher[e].message \in Messages
          /\ dispatcher[e].token \in 1..row[dispatcher[e].message].attempts
      BY <2>2, HolderFields
    <3>2. dispatcher[e].token \in 1..row'[dispatcher[e].message].attempts
      BY <1>0, <1>1, <3>1 DEF ClaimEffect
    <3> QED
      BY <1>0, <2>2, <3>1, <3>2 DEF TokenHeld, ClaimInvariant, ClaimEffect
  <2>3. CASE e # d /\ dispatcher[e].pc = "idle"
    BY <1>0, <2>3 DEF TokenHeld, ClaimEffect
  <2> QED
    BY <2>1, <2>2, <2>3
<1>4. ASSUME NEW e \in Dispatchers, NEW f \in Dispatchers PROVE TokensDiffer(e, f)'
  <2>1. ASSUME NEW g \in Dispatchers, g # d, dispatcher[g].pc = "transmitting",
               dispatcher[g].message = m
        PROVE  dispatcher[g].token # row[m].attempts + 1
    <3>1. dispatcher[g].token \in 1..row[m].attempts
      BY <2>1 DEF ClaimInvariant, TokenHeld
    <3> QED
      BY <1>1, <3>1
  <2>2. CASE e # d /\ f # d
    BY <1>0, <2>2 DEF ClaimInvariant, TokensDiffer, ClaimEffect
  <2>3. CASE e = d \/ f = d
    BY <1>0, <2>1, <2>3 DEF TokensDiffer, ClaimEffect
  <2> QED
    BY <2>2, <2>3
<1> QED
    BY <1>2, <1>3, <1>4 DEF ClaimInvariant

LEMMA ClaimRefines ==
    ASSUME ClaimInvariant, ClaimInvariant', NEW d \in Dispatchers, NEW m \in Messages,
           Claim(d, m)
    PROVE  Abstract!Next
<1>0. ClaimEffect(d, m)
    BY ClaimWrites
<1> SUFFICES ASSUME NEW n \in Messages
             PROVE  Message(n)' = Message(n) \/ Abstract!Advances(Message(n), Message(n)')
    BY OneMessageAtATime
<1>1. CASE n # m
    BY <1>0, <1>1 DEF Message, Open, ClaimEffect
<1>2. CASE n = m
  <2>1. Message(m) = [phase |-> "open", claims |-> row[m].attempts, sent |-> sent[m]]
    BY <1>0 DEF Message, Open, ClaimEffect
  <2>2. Message(m)' = [phase |-> "open", claims |-> row[m].attempts + 1, sent |-> sent[m]]
    BY <1>0 DEF Message, Open, ClaimEffect
  <2>3. Abstract!Claims(Message(m), Message(m)')
    BY <1>0, <2>1, <2>2 DEF Abstract!Claims, ClaimEffect
  <2> QED
    BY <1>2, <2>3 DEF Abstract!Advances
<1> QED
    BY <1>1, <1>2

\* What a transmission finds and leaves.
LEMMA TransmitWrites ==
    ASSUME ClaimInvariant, NEW d \in Dispatchers, Transmit(d)
    PROVE  /\ dispatcher[d].pc = "transmitting" /\ dispatcher[d].message \in Messages
           /\ \A e \in Dispatchers : e # d => dispatcher'[e] = dispatcher[e]
           /\ row' = row /\ incident' = incident
           /\ sent' = [sent EXCEPT ![dispatcher[d].message] = @ \cup {dispatcher[d].token}]
           /\ \E result \in Result, arrived \in BOOLEAN :
                 /\ result = "delivered" => arrived
                 /\ dispatcher'[d] = [pc |-> "completing", message |-> dispatcher[d].message,
                                      token |-> dispatcher[d].token, result |-> result]
                 /\ last' = IF arrived THEN Impression(dispatcher[d].message) ELSE last
<1> DEFINE m == dispatcher[d].message
<1>1. /\ dispatcher[d].pc = "transmitting" /\ m \in Messages
      /\ row' = row /\ incident' = incident
    BY HolderFields DEF Transmit
<1>2. PICK result \in Result, arrived \in BOOLEAN :
         /\ result = "delivered" => arrived
         /\ dispatcher' = [dispatcher EXCEPT
               ![d] = [pc |-> "completing", message |-> m, token |-> dispatcher[d].token,
                       result |-> result]]
         /\ sent' = [sent EXCEPT ![m] = @ \cup {dispatcher[d].token}]
         /\ last' = IF arrived THEN Impression(m) ELSE last
    BY DEF Transmit
<1>3. dispatcher \in [Dispatchers -> {Idle} \cup Working]
    BY DEF ClaimInvariant, AlertInvariant, DispatcherTyped
<1> HIDE DEF m
<1>4. /\ dispatcher'[d] = [pc |-> "completing", message |-> m,
                           token |-> dispatcher[d].token, result |-> result]
      /\ \A e \in Dispatchers : e # d => dispatcher'[e] = dispatcher[e]
    BY <1>2, <1>3
<1> QED
    BY <1>1, <1>2, <1>4 DEF m

LEMMA TransmitKeepsClaims ==
    ASSUME ClaimInvariant, AlertInvariant', NEW d \in Dispatchers, Transmit(d)
    PROVE  ClaimInvariant'
<1> DEFINE m == dispatcher[d].message
           token == dispatcher[d].token
<1>1. /\ m \in Messages /\ token \in 1..row[m].attempts /\ row' = row
      /\ sent \in [Messages -> SUBSET (1..MaxSends)] /\ dispatcher[d].pc = "transmitting"
    BY TransmitWrites, HolderFields DEF ClaimInvariant, AlertInvariant, DispatcherTyped
<1>2. /\ sent'[m] = sent[m] \cup {token}
      /\ \A n \in Messages : n # m => sent'[n] = sent[n]
    BY TransmitWrites, <1>1
<1>3. /\ dispatcher'[d].pc = "completing" /\ dispatcher'[d].message = m
      /\ dispatcher'[d].token = token
      /\ \A e \in Dispatchers : e # d => dispatcher'[e] = dispatcher[e]
  <2>1. PICK result : dispatcher'[d] = [pc |-> "completing", message |-> m, token |-> token,
                                        result |-> result]
    BY TransmitWrites
  <2>2. dispatcher'[d].pc = "completing" /\ dispatcher'[d].message = m
        /\ dispatcher'[d].token = token
    BY <2>1
  <2> QED
    BY <2>2, TransmitWrites
<1>4. ASSUME NEW n \in Messages PROVE RowSound(n)'
    BY <1>1, <1>2, RowFields DEF RowSound
<1>5. ASSUME NEW e \in Dispatchers PROVE TokenHeld(e)'
  <2>1. CASE e = d
    BY <1>1, <1>3, <2>1 DEF TokenHeld
  <2>2. CASE e # d /\ dispatcher[e].pc = "transmitting"
    <3>1. /\ dispatcher[e].message \in Messages
          /\ dispatcher[e].token \in 1..row[dispatcher[e].message].attempts
          /\ dispatcher[e].token \notin sent[dispatcher[e].message]
      BY <2>2, HolderFields DEF ClaimInvariant, TokenHeld
    <3>2. dispatcher[e].message = m => dispatcher[e].token # token
      BY <1>1, <2>2 DEF ClaimInvariant, TokensDiffer
    <3> QED
      BY <1>1, <1>2, <1>3, <2>2, <3>1, <3>2 DEF TokenHeld
  <2>3. CASE e # d /\ dispatcher[e].pc # "transmitting"
    BY <1>1, <1>3, <2>3 DEF TokenHeld, ClaimInvariant
  <2> QED
    BY <2>1, <2>2, <2>3
<1>6. ASSUME NEW e \in Dispatchers, NEW f \in Dispatchers PROVE TokensDiffer(e, f)'
    BY <1>3 DEF ClaimInvariant, TokensDiffer
<1> QED
    BY <1>4, <1>5, <1>6 DEF ClaimInvariant

LEMMA TransmitRefines ==
    ASSUME ClaimInvariant, ClaimInvariant', NEW d \in Dispatchers, Transmit(d)
    PROVE  Abstract!Next
<1> DEFINE m == dispatcher[d].message
           token == dispatcher[d].token
<1> SUFFICES ASSUME NEW n \in Messages
             PROVE  Message(n)' = Message(n) \/ Abstract!Advances(Message(n), Message(n)')
    BY OneMessageAtATime
<1>1. /\ m \in Messages /\ token \in 1..row[m].attempts \ sent[m] /\ row' = row
      /\ sent \in [Messages -> SUBSET (1..MaxSends)]
    BY TransmitWrites, HolderFields
       DEF ClaimInvariant, AlertInvariant, DispatcherTyped, TokenHeld
<1>2. sent'[m] = sent[m] \cup {token} /\ \A k \in Messages : k # m => sent'[k] = sent[k]
    BY TransmitWrites, <1>1
<1>3. Message(n) = [phase |-> Phase(row[n].state), claims |-> row[n].attempts, sent |-> sent[n]]
    BY MessageOfRow
<1>4. Message(n)' = [phase |-> Phase(row[n].state), claims |-> row[n].attempts,
                     sent |-> sent'[n]]
    BY <1>1 DEF Message, Phase, Open
<1>5. CASE n # m
    BY <1>2, <1>3, <1>4, <1>5
<1>6. CASE n = m
  <2> DEFINE b == [phase |-> Phase(row[m].state), claims |-> row[m].attempts, sent |-> sent[m]]
             c == [phase |-> Phase(row[m].state), claims |-> row[m].attempts,
                   sent |-> sent[m] \cup {token}]
  <2>1. b.phase = Phase(row[m].state) /\ b.claims = row[m].attempts /\ b.sent = sent[m]
    OBVIOUS
  <2>2. c = [phase |-> b.phase, claims |-> b.claims, sent |-> b.sent \cup {token}]
    BY <2>1
  <2>3. token \in 1..b.claims \ b.sent
    BY <1>1, <2>1
  <2>4. Abstract!Transmits(b, c)
    BY <2>2, <2>3 DEF Abstract!Transmits
  <2>5. Message(n) = b /\ Message(n)' = c
    BY <1>2, <1>3, <1>4, <1>6
  <2> QED
    BY <2>4, <2>5 DEF Abstract!Advances
<1> QED
    BY <1>5, <1>6

\* Every step keeps the claims in order and is one of the outbox, or none.
LEMMA StepsRefine ==
    ClaimInvariant /\ [Next]_vars => ClaimInvariant' /\ [Abstract!Next]_MessageBox
<1> SUFFICES ASSUME ClaimInvariant, [Next]_vars
             PROVE  ClaimInvariant' /\ [Abstract!Next]_MessageBox
    OBVIOUS
<1>0. AlertInvariant'
    BY NextHolds DEF ClaimInvariant
<1>1. ASSUME Quiet, QuietPhases PROVE ClaimInvariant' /\ Abstract!Next
    BY <1>0, <1>1, QuietKeepsClaims, QuietRefines
<1>2. CASE UNCHANGED vars
    BY <1>1, <1>2, SameRowsAreQuiet DEF vars
<1>3. CASE Evaluate \/ EvaluateLate
    BY <1>1, <1>3, ApplyIsQuiet DEF Evaluate, EvaluateLate, ClaimInvariant, AlertInvariant
<1>4. CASE SignalChanges \/ CooldownPasses
    BY <1>1, <1>4, SameRowsAreQuiet DEF SignalChanges, CooldownPasses, delivering
<1>5. CASE Acknowledge
    BY <1>1, <1>5, AcknowledgeIsQuiet
<1>6. ASSUME NEW d \in Dispatchers, Deliver(d) \/ Crash(d)
      PROVE  ClaimInvariant' /\ Abstract!Next
  <2>1. ASSUME NEW m \in Messages, SuppressAtClaim(d, m) PROVE ClaimInvariant' /\ Abstract!Next
    BY <1>1, <2>1, SuppressIsQuiet
  <2>2. ASSUME NEW m \in Messages, Claim(d, m) PROVE ClaimInvariant' /\ Abstract!Next
    BY <1>0, <2>2, ClaimKeepsClaims, ClaimRefines
  <2>3. CASE Transmit(d)
    BY <1>0, <2>3, TransmitKeepsClaims, TransmitRefines
  <2>4. CASE Complete(d)
    BY <1>1, <2>4, CompleteIsQuiet
  <2>5. CASE Crash(d)
    BY <1>1, <2>5, CrashIsQuiet
  <2> QED
    BY <1>6, <2>1, <2>2, <2>3, <2>4, <2>5 DEF Deliver
<1> QED
    BY <1>2, <1>3, <1>4, <1>5, <1>6 DEF Next

LEMMA InitClaims == Init => ClaimInvariant
<1> SUFFICES ASSUME Init PROVE ClaimInvariant
    OBVIOUS
<1>1. ASSUME NEW m \in Messages PROVE RowSound(m)
    BY DEF Init, RowSound, Absent
<1>2. ASSUME NEW d \in Dispatchers PROVE dispatcher[d].pc = "idle"
    BY DEF Init, Idle
<1> QED
    BY <1>1, <1>2, InitHolds DEF ClaimInvariant, TokenHeld, TokensDiffer

LEMMA InitRefines == Init => Abstract!Init
<1> SUFFICES ASSUME Init
             PROVE  MessageBox = [m \in Messages |->
                                     [phase |-> "absent", claims |-> 0, sent |-> {}]]
    BY DEF Abstract!Init
<1>1. ASSUME NEW m \in Messages
      PROVE  Message(m) = [phase |-> "absent", claims |-> 0, sent |-> {}]
    BY DEF Init, Message, Absent
<1> QED
    BY <1>1 DEF MessageBox

\* The inductive invariant of the deliveries: a dispatcher at work holds a claim its
\* row has given out, and two that are about to transmit hold different ones
\* (operational_alerts.py:614-681, :748-782).
THEOREM ClaimInvariantHolds == Spec => []ClaimInvariant
BY InitClaims, StepsRefine, PTL DEF Spec

\* The delivery rows of the alerts are an outbox: whatever crashes, timeouts and late
\* evaluations come in between, a message is opened once, every transmission has a
\* claim of its own, claims are bounded and a settled message is never claimed again
\* (operational_alerts.py:262-293, :614-681, :748-782).
THEOREM ImplementsOutboxHolds == Spec => ImplementsOutbox
BY InitRefines, ClaimInvariantHolds, StepsRefine, PTL DEF Spec, ImplementsOutbox, Abstract!Spec

\* A message is transmitted at most once per claim, and claimed a bounded number of
\* times, whatever crashes and expired claims made the dispatchers claim it again
\* (operational_alerts.py:614-681, :748-782).
THEOREM TransmissionsAreBoundedHolds == Spec => []Abstract!TransmissionsAreBounded
<1>1. ClaimInvariant => Abstract!TransmissionsAreBounded
  <2> SUFFICES ASSUME ClaimInvariant, NEW m \in Messages
               PROVE  /\ MessageBox[m].claims <= MaxSends
                      /\ MessageBox[m].sent \subseteq 1..MessageBox[m].claims
    BY DEF Abstract!TransmissionsAreBounded
  <2>1. MessageBox[m].claims = row[m].attempts /\ MessageBox[m].sent = sent[m]
    BY DEF MessageBox, Message
  <2> QED
    BY <2>1, RowFields
<1> QED
  BY <1>1, ClaimInvariantHolds, PTL

\* One message of an outbox: settled, it is settled for good.
LEMMA AdvancesKeepSettled ==
    ASSUME NEW b, NEW c, Abstract!Advances(b, c), b.phase = "settled"
    PROVE  c.phase = "settled" /\ c.claims = b.claims
<1>1. Abstract!Transmits(b, c)
  BY DEF Abstract!Advances, Abstract!Opens, Abstract!Claims, Abstract!Settles
<1>2. PICK claim \in 1..b.claims \ b.sent :
         c = [phase |-> b.phase, claims |-> b.claims, sent |-> b.sent \cup {claim}]
  BY <1>1 DEF Abstract!Transmits
<1> QED
  BY <1>2

\* A message that was delivered, given up or suppressed by a recovery is never
\* claimed again (operational_alerts.py:262-293, :614-681).
THEOREM SettledIsFinalHolds == Spec => Abstract!SettledIsFinal
<1>1. [Abstract!Next]_MessageBox => [Abstract!StaysSettled]_MessageBox
  BY AdvancesKeepSettled DEF Abstract!Next, Abstract!StaysSettled
<1> QED
  BY <1>1, ImplementsOutboxHolds, PTL DEF ImplementsOutbox, Abstract!Spec, Abstract!SettledIsFinal


-----------------------------------------------------------------------------
(***************************************************************************)
(* The last word.  An alert that reached the owner is taken back by the    *)
(* recovery of its generation, and that recovery exists as soon as the     *)
(* incident is not announced any more.                                     *)
(***************************************************************************)

\* An alert whose recovery is not open yet belongs to the present incident.
StillTold(g) == incident.generation = g /\ Announced

AlertOpen(g) ==
    row[Alert(g)].state # "absent" /\ row[Recovery(g)].state = "absent" => StillTold(g)

Taking(d, g) ==
    /\ dispatcher[d].pc = "completing" /\ dispatcher[d].message = Recovery(g)
    /\ dispatcher[d].result = "delivered"

\* The recovery of g did not reach the owner, as far as anyone knows, and is not
\* missing without a reason.
Outstanding(g) ==
    /\ row[Recovery(g)].state # "delivered"
    /\ \A d \in Dispatchers : ~Taking(d, g)
    /\ row[Recovery(g)].state = "absent" => StillTold(g)

WordInvariant ==
    /\ ClaimInvariant
    /\ \A g \in 1..MaxGenerations : AlertOpen(g)
    /\ last = "alert" => \E g \in 1..incident.generation : Outstanding(g)

LEMMA MessagesDiffer ==
    ASSUME NEW g, NEW h
    PROVE  Alert(g) # Recovery(h) /\ (g # h => Alert(g) # Alert(h) /\ Recovery(g) # Recovery(h))
<1>1. /\ Alert(g).kind = "firing" /\ Recovery(h).kind = "recovery"
      /\ Alert(g).generation = g /\ Recovery(g).generation = g
      /\ Alert(h).generation = h /\ Recovery(h).generation = h
    BY DEF Alert, Recovery
<1> QED
    BY <1>1

\* The generations of an incident are within the bound.
LEMMA GenerationTyped ==
    ASSUME ClaimInvariant
    PROVE  /\ incident.generation \in 0..MaxGenerations /\ MaxGenerations \in Nat
           /\ Announced => incident.generation \in 1..MaxGenerations
           /\ \A g \in 1..incident.generation : g \in 1..MaxGenerations
<1>1. incident.generation \in 0..MaxGenerations /\ MaxGenerations \in Nat
    BY AlertAssumption DEF ClaimInvariant, AlertInvariant, IncidentTyped
<1>2. Announced => incident.generation >= 1
    BY DEF ClaimInvariant, AlertInvariant, Numbered, Announced
<1> QED
    BY <1>1, <1>2

\* A step of the incident: the dispatchers stand, rows are opened or dropped, and
\* the recovery of an announced incident is there once it is not announced.
LEMMA IncidentKeepsWord ==
    ASSUME WordInvariant, ClaimInvariant', UNCHANGED <<dispatcher, last>>,
           incident'.generation >= incident.generation,
           \A m \in Messages : /\ row'[m].state = "absent" => row[m].state = "absent"
                               /\ row'[m].state = "delivered" => row[m].state = "delivered",
           \A g \in 1..MaxGenerations :
              row[Alert(g)].state = "absent" /\ row'[Alert(g)].state # "absent" => StillTold(g)',
           \A g \in 1..MaxGenerations :
              StillTold(g) => StillTold(g)' \/ row'[Recovery(g)].state # "absent"
    PROVE  WordInvariant'
<1> USE DEF WordInvariant
<1>1. ASSUME NEW g \in 1..MaxGenerations PROVE AlertOpen(g)'
  <2>1. Alert(g) \in Messages /\ Recovery(g) \in Messages
    BY MessageTyped
  <2> SUFFICES ASSUME row'[Alert(g)].state # "absent", row'[Recovery(g)].state = "absent"
               PROVE  StillTold(g)'
    BY DEF AlertOpen
  <2>2. CASE row[Alert(g)].state = "absent"
    BY <2>2
  <2>3. CASE row[Alert(g)].state # "absent"
    <3>1. row[Recovery(g)].state = "absent"
      BY <2>1
    <3>2. StillTold(g)
      BY <2>3, <3>1 DEF AlertOpen
    <3> QED
      BY <3>2
  <2> QED
    BY <2>2, <2>3
<1>2. ASSUME last' = "alert" PROVE (\E g \in 1..incident.generation : Outstanding(g))'
  <2>1. PICK g \in 1..incident.generation : Outstanding(g)
    BY <1>2
  <2>2. /\ g \in 1..MaxGenerations /\ g \in 1..incident'.generation
        /\ Recovery(g) \in Messages
    <3>1. incident.generation \in 0..MaxGenerations /\ incident'.generation \in 0..MaxGenerations
          /\ MaxGenerations \in Nat
      <4>1. (ClaimInvariant => incident.generation \in 0..MaxGenerations)'
        BY GenerationTyped, PTL
      <4> QED
        BY <4>1, GenerationTyped
    <3> QED
      BY <3>1, MessageTyped
  <2>3. Outstanding(g)'
    <3>1. row'[Recovery(g)].state # "delivered"
      BY <2>1, <2>2 DEF Outstanding
    <3>2. \A d \in Dispatchers : ~Taking(d, g)'
      BY <2>1 DEF Outstanding, Taking
    <3>3. row'[Recovery(g)].state = "absent" => StillTold(g)'
      BY <2>1, <2>2 DEF Outstanding
    <3> QED
      BY <3>1, <3>2, <3>3 DEF Outstanding
  <2> QED
    BY <2>2, <2>3
<1> QED
    BY <1>1, <1>2

\* A step of a dispatcher: the incident stands and no row comes or goes.
LEMMA DispatchKeepsWord ==
    ASSUME WordInvariant, ClaimInvariant', incident' = incident,
           \A m \in Messages : row'[m].state = "absent" <=> row[m].state = "absent",
           last' = "alert" => last = "alert",
           last' = "alert" => \A g \in 1..MaxGenerations : Outstanding(g) =>
              /\ row'[Recovery(g)].state # "delivered"
              /\ \A d \in Dispatchers : Taking(d, g)' => Taking(d, g)
    PROVE  WordInvariant'
<1> USE DEF WordInvariant
<1>1. ASSUME NEW g \in 1..MaxGenerations PROVE AlertOpen(g)'
    BY MessageTyped DEF AlertOpen, StillTold, Announced
<1>2. ASSUME last' = "alert" PROVE (\E g \in 1..incident.generation : Outstanding(g))'
  <2>1. PICK g \in 1..incident.generation : Outstanding(g)
    BY <1>2
  <2>2. g \in 1..MaxGenerations /\ Recovery(g) \in Messages
    BY GenerationTyped, MessageTyped
  <2>3. Outstanding(g)'
    BY <1>2, <2>1, <2>2 DEF Outstanding, StillTold, Announced
  <2> QED
    BY <2>3
<1> QED
    BY <1>1, <1>2


\* Opening one message, or none, drops and delivers nothing.
LEMMA OpeningOne ==
    ASSUME ClaimInvariant, NEW m \in Messages, row' = Ensured(m) \/ row' = row
    PROVE  /\ \A n \in Messages : /\ row'[n].state = "absent" => row[n].state = "absent"
                                  /\ row'[n].state = "delivered" => row[n].state = "delivered"
                                  /\ n # m => row'[n] = row[n]
           /\ row' = Ensured(m) => row'[m].state # "absent"
<1>1. row \in [Messages -> [state : States, attempts : 0..MaxSends]]
    BY DEF ClaimInvariant, AlertInvariant, RowTyped, States
<1> QED
    BY <1>1 DEF Ensured, Pending

LEMMA ResolveKeepsWord ==
    ASSUME WordInvariant, ClaimInvariant', Resolve, UNCHANGED <<dispatcher, last>>
    PROVE  WordInvariant'
<1> DEFINE g0 == incident.generation
<1>1. /\ ClaimInvariant /\ g0 \in 1..MaxGenerations
      /\ incident' = [incident EXCEPT !.status = "resolved"]
      /\ row' = IF Announced THEN Ensured(Recovery(g0)) ELSE row
      /\ Recovery(g0) \in Messages
    BY MessageTyped DEF Resolve, WordInvariant, ClaimInvariant, AlertInvariant, IncidentTyped,
                        Numbered
<1>2. incident'.generation = g0
    BY <1>1 DEF ClaimInvariant, AlertInvariant, IncidentTyped
<1> HIDE DEF g0
<1>3. /\ \A n \in Messages : /\ row'[n].state = "absent" => row[n].state = "absent"
                             /\ row'[n].state = "delivered" => row[n].state = "delivered"
                             /\ n # Recovery(g0) => row'[n] = row[n]
      /\ row' = Ensured(Recovery(g0)) => row'[Recovery(g0)].state # "absent"
    BY <1>1, OpeningOne
<1>4. \A g \in 1..MaxGenerations : row'[Alert(g)] = row[Alert(g)]
    BY <1>3, MessageTyped, MessagesDiffer
<1>5. \A g \in 1..MaxGenerations : StillTold(g) => row'[Recovery(g)].state # "absent"
    BY <1>1, <1>3 DEF StillTold, g0
<1>6. incident'.generation >= incident.generation
    BY <1>1, <1>2, GenerationTyped DEF g0
<1> QED
    BY <1>3, <1>4, <1>5, <1>6, IncidentKeepsWord

LEMMA DetectKeepsWord ==
    ASSUME WordInvariant, ClaimInvariant', Detect, UNCHANGED <<dispatcher, last>>
    PROVE  WordInvariant'
<1>0. ClaimInvariant /\ IncidentTyped /\ Numbered
    BY DEF WordInvariant, ClaimInvariant, AlertInvariant
<1>1. ASSUME NEW g0 \in 1..MaxGenerations, row' = Ensured(Alert(g0)) \/ row' = row,
             row' = row \/ (incident'.generation = g0 /\ Announced'),
             incident'.generation >= incident.generation,
             Announced => incident' = incident
      PROVE  WordInvariant'
  <2>1. Alert(g0) \in Messages
    BY MessageTyped
  <2>2. \A n \in Messages : /\ row'[n].state = "absent" => row[n].state = "absent"
                            /\ row'[n].state = "delivered" => row[n].state = "delivered"
                            /\ n # Alert(g0) => row'[n] = row[n]
    BY <1>0, <1>1, <2>1, OpeningOne
  <2>3. \A g \in 1..MaxGenerations :
           row[Alert(g)].state = "absent" /\ row'[Alert(g)].state # "absent" => StillTold(g)'
    <3> SUFFICES ASSUME NEW g \in 1..MaxGenerations,
                        row[Alert(g)].state = "absent", row'[Alert(g)].state # "absent"
                 PROVE  StillTold(g)'
      OBVIOUS
    <3>1. Alert(g) = Alert(g0) /\ Alert(g) \in Messages
      BY <2>2, MessageTyped
    <3>2. g = g0
      BY <3>1, MessagesDiffer
    <3>3. row' # row
      OBVIOUS
    <3> QED
      BY <1>1, <3>2, <3>3 DEF StillTold
  <2>4. \A g \in 1..MaxGenerations : StillTold(g) => StillTold(g)'
    BY <1>1 DEF StillTold, Announced
  <2> QED
    BY <1>1, <2>2, <2>3, <2>4, IncidentKeepsWord
<1>2. CASE incident.status = "firing"
  <2>1. row' = Ensured(Alert(incident.generation)) /\ incident' = incident
    BY <1>2 DEF Detect
  <2>2. Announced /\ incident.generation \in 1..MaxGenerations
    BY <1>0, <1>2, GenerationTyped DEF Announced
  <2>3. Announced'
    BY <2>1, <2>2 DEF Announced
  <2> QED
    BY <1>1, <2>1, <2>2, <2>3
<1>3. CASE incident.status # "firing" /\ MayFire
  <2>1. Fire /\ ~Announced
    BY <1>3 DEF Detect, Announced
  <2> DEFINE g == IF incident.status = "pending" THEN incident.generation
                  ELSE incident.generation + 1
             on == TRUE
  <2>2. g \in 1..MaxGenerations /\ g >= incident.generation
    BY <1>0, <1>3, AlertAssumption DEF Detect, IncidentTyped, Numbered
  <2>3. /\ row' = Ensured(Alert(g))
        /\ incident' = [incident EXCEPT !.status = "firing", !.generation = g, !.cooling = on]
    BY <2>1 DEF Fire
  <2> HIDE DEF g, on
  <2>4. incident'.generation = g /\ incident'.status = "firing"
    BY <1>0, <2>3 DEF IncidentTyped
  <2> QED
    BY <1>1, <2>1, <2>2, <2>3, <2>4 DEF Announced
<1>4. CASE incident.status # "firing" /\ ~MayFire
  <2>1. Pend /\ ~Announced
    BY <1>4 DEF Detect, Announced
  <2>2. row' = row /\ incident'.generation >= incident.generation
    <3>1. CASE incident.status = "pending"
      BY <1>0, <2>1, <3>1 DEF Pend, IncidentTyped
    <3>2. CASE incident.status # "pending"
      <4> DEFINE n == incident.generation + 1
      <4>1. incident' = [incident EXCEPT !.status = "pending", !.generation = n]
        BY <2>1, <3>2 DEF Pend
      <4>2. n >= incident.generation
        BY <1>0 DEF IncidentTyped
      <4> HIDE DEF n
      <4>3. incident'.generation = n
        BY <1>0, <4>1 DEF IncidentTyped
      <4> QED
        BY <2>1, <4>2, <4>3 DEF Pend
    <3> QED
      BY <3>1, <3>2
  <2>3. \E g0 \in 1..MaxGenerations : TRUE
    BY AlertAssumption
  <2> QED
    BY <1>1, <2>1, <2>2, <2>3
<1> QED
    BY <1>2, <1>3, <1>4

LEMMA AcknowledgeKeepsWord ==
    ASSUME WordInvariant, ClaimInvariant', Acknowledge
    PROVE  WordInvariant'
<1> DEFINE m == Alert(incident.generation)
<1>0. ClaimInvariant /\ IncidentTyped /\ RowTyped /\ UNCHANGED <<dispatcher, last>>
    BY DEF WordInvariant, ClaimInvariant, AlertInvariant, Acknowledge, delivering
<1>1. /\ incident' = [incident EXCEPT !.status = "acknowledged"]
      /\ row' = IF row[m].state \in {"pending", "failed"}
                THEN [row EXCEPT ![m] = Ended(m, "suppressed")] ELSE row
    BY DEF Acknowledge
<1>2. incident'.generation = incident.generation /\ incident'.status = "acknowledged"
    BY <1>0, <1>1 DEF IncidentTyped
<1>3. incident'.generation >= incident.generation
    BY <1>0, <1>2, GenerationTyped
<1> HIDE DEF m
<1>4. \A n \in Messages : /\ row'[n].state = "absent" <=> row[n].state = "absent"
                          /\ row'[n].state = "delivered" => row[n].state = "delivered"
    BY <1>0, <1>1 DEF RowTyped, Ended
<1>5. \A g \in 1..MaxGenerations : StillTold(g) => StillTold(g)'
    BY <1>2 DEF StillTold, Announced
<1>6. \A g \in 1..MaxGenerations :
         ~(row[Alert(g)].state = "absent" /\ row'[Alert(g)].state # "absent")
    BY <1>4, MessageTyped
<1> QED
    BY <1>0, <1>3, <1>4, <1>5, <1>6, IncidentKeepsWord

LEMMA TransmitKeepsWord ==
    ASSUME WordInvariant, ClaimInvariant', NEW d \in Dispatchers, Transmit(d)
    PROVE  WordInvariant'
<1> DEFINE m == dispatcher[d].message
<1>0. ClaimInvariant
    BY DEF WordInvariant
<1>1. /\ dispatcher[d].pc = "transmitting" /\ m \in Messages
      /\ \A e \in Dispatchers : e # d => dispatcher'[e] = dispatcher[e]
      /\ row' = row /\ incident' = incident /\ row[m].state # "absent"
    BY <1>0, TransmitWrites, HolderFields
<1>2. PICK result \in Result, arrived \in BOOLEAN :
         /\ result = "delivered" => arrived
         /\ dispatcher'[d] = [pc |-> "completing", message |-> m,
                              token |-> dispatcher[d].token, result |-> result]
         /\ last' = IF arrived THEN Impression(m) ELSE last
    BY <1>0, TransmitWrites
<1>3. dispatcher'[d].message = m /\ dispatcher'[d].result = result
    BY <1>2
<1> HIDE DEF m
<1>4. CASE ~arrived
  <2>1. \A g : \A e \in Dispatchers : Taking(e, g)' => Taking(e, g)
    BY <1>1, <1>2, <1>3, <1>4 DEF Taking
  <2> QED
    BY <1>1, <1>2, <1>4, <2>1, DispatchKeepsWord DEF Outstanding
<1>5. CASE arrived /\ last' # "alert"
  <2>1. \A g \in 1..MaxGenerations : AlertOpen(g)'
    BY <1>1 DEF WordInvariant, AlertOpen, StillTold, Announced
  <2> QED
    BY <1>5, <2>1 DEF WordInvariant
<1>6. CASE arrived /\ last' = "alert"
  <2>0. m.kind = "firing" /\ row[Recovery(m.generation)].state = "absent"
    BY <1>1, <1>2, <1>6 DEF Impression, Messages
  <2>1. PICK g \in 1..MaxGenerations : m = Alert(g) /\ row[Recovery(g)].state = "absent"
    BY <1>1, <2>0 DEF Messages, Alert
  <2>2. m = Alert(g)
    BY <2>1
  <2>3. StillTold(g)
    BY <1>1, <2>1, <2>2 DEF WordInvariant, AlertOpen
  <2>4. ASSUME NEW e \in Dispatchers PROVE ~Taking(e, g)'
    <3>1. CASE e = d
      BY <1>3, <2>2, <3>1, MessagesDiffer DEF Taking
    <3>2. CASE e # d
      <4>1. dispatcher[e].pc # "idle" => row[dispatcher[e].message].state # "absent"
        BY <1>0, HolderFields
      <4> QED
        BY <1>1, <2>1, <3>2, <4>1 DEF Taking
    <3> QED
      BY <3>1, <3>2
  <2>5. Outstanding(g)'
    BY <1>1, <2>1, <2>3, <2>4 DEF Outstanding, StillTold, Announced
  <2>6. g \in 1..incident'.generation
    BY <1>1, <2>2, <2>3 DEF StillTold
  <2>7. \A h \in 1..MaxGenerations : AlertOpen(h)'
    BY <1>1 DEF WordInvariant, AlertOpen, StillTold, Announced
  <2> QED
    BY <2>5, <2>6, <2>7 DEF WordInvariant
<1> QED
    BY <1>4, <1>5, <1>6

LEMMA CompleteKeepsWord ==
    ASSUME WordInvariant, ClaimInvariant', NEW d \in Dispatchers, Complete(d)
    PROVE  WordInvariant'
<1> DEFINE m == dispatcher[d].message
           state == IF dispatcher[d].result = "delivered" THEN "delivered"
                    ELSE IF row[m].attempts >= MaxSends THEN "suppressed" ELSE "failed"
<1>0. ClaimInvariant /\ RowTyped /\ DispatcherTyped
    BY DEF WordInvariant, ClaimInvariant, AlertInvariant
<1>1. /\ m \in Messages /\ row[m].state # "absent" /\ dispatcher[d].pc = "completing"
      /\ dispatcher' = [dispatcher EXCEPT ![d] = Idle] /\ incident' = incident /\ last' = last
      /\ row' = row \/ row' = [row EXCEPT ![m] = Ended(m, state)]
      /\ state # "absent" /\ (state = "delivered" => dispatcher[d].result = "delivered")
    BY <1>0, HolderFields DEF Complete
<1> HIDE DEF state
<1>2. \A n \in Messages : /\ row'[n].state = "absent" <=> row[n].state = "absent"
                          /\ row'[n].state = "delivered" =>
                                \/ row[n].state = "delivered"
                                \/ n = m /\ dispatcher[d].result = "delivered"
    BY <1>0, <1>1 DEF RowTyped, Ended
<1>3. \A g : \A e \in Dispatchers : Taking(e, g)' => Taking(e, g)
    BY <1>0, <1>1 DEF Taking, Idle, DispatcherTyped
<1>4. ASSUME NEW g \in 1..MaxGenerations, Outstanding(g)
      PROVE  row'[Recovery(g)].state # "delivered"
    BY <1>1, <1>2, <1>4, MessageTyped DEF Outstanding, Taking
<1> QED
    BY <1>1, <1>2, <1>3, <1>4, DispatchKeepsWord

LEMMA NextKeepsWord == WordInvariant /\ [Next]_vars => WordInvariant'
<1> SUFFICES ASSUME WordInvariant, [Next]_vars PROVE WordInvariant'
    OBVIOUS
<1>0. ClaimInvariant /\ ClaimInvariant' /\ RowTyped /\ DispatcherTyped
    BY StepsRefine DEF WordInvariant, ClaimInvariant, AlertInvariant
<1>1. ASSUME row' = row, incident' = incident, last' = last, dispatcher' = dispatcher
      PROVE  WordInvariant'
    BY <1>0, <1>1 DEF WordInvariant, AlertOpen, Outstanding, Taking, StillTold, Announced
<1>2. CASE UNCHANGED vars
    BY <1>1, <1>2 DEF vars
<1>3. CASE SignalChanges
    BY <1>1, <1>3 DEF SignalChanges, delivering
<1>4. CASE Evaluate \/ EvaluateLate
  <2>1. Resolve \/ Detect
    BY <1>4 DEF Evaluate, EvaluateLate, Apply
  <2>2. UNCHANGED <<dispatcher, last>>
    BY <1>4 DEF Evaluate, EvaluateLate, Apply, delivering
  <2> QED
    BY <1>0, <2>1, <2>2, ResolveKeepsWord, DetectKeepsWord
<1>5. CASE CooldownPasses
  <2> DEFINE off == FALSE
  <2>1. incident' = [incident EXCEPT !.cooling = off] /\ UNCHANGED <<row, dispatcher, last>>
    BY <1>5 DEF CooldownPasses, delivering
  <2> HIDE DEF off
  <2>2. incident'.generation = incident.generation /\ incident'.status = incident.status
    BY <1>0, <2>1 DEF ClaimInvariant, AlertInvariant, IncidentTyped
  <2>3. \A g : StillTold(g)' <=> StillTold(g)
    BY <2>2 DEF StillTold, Announced
  <2>4. (\A g : AlertOpen(g)' <=> AlertOpen(g)) /\ (\A g : Outstanding(g)' <=> Outstanding(g))
    BY <2>1, <2>3 DEF AlertOpen, Outstanding, Taking
  <2> QED
    BY <1>0, <2>1, <2>2, <2>4 DEF WordInvariant
<1>6. CASE Acknowledge
    BY <1>0, <1>6, AcknowledgeKeepsWord
<1>7. ASSUME NEW d \in Dispatchers, NEW m \in Messages, SuppressAtClaim(d, m)
      PROVE  WordInvariant'
  <2>1. /\ row[m].state # "absent" /\ row' = [row EXCEPT ![m] = Ended(m, "suppressed")]
        /\ UNCHANGED <<incident, dispatcher, last>>
    BY <1>7 DEF SuppressAtClaim, Eligible, delivering
  <2>2. \A n \in Messages : /\ row'[n].state = "absent" <=> row[n].state = "absent"
                            /\ row'[n].state = "delivered" => row[n].state = "delivered"
    BY <1>0, <2>1 DEF RowTyped, Ended
  <2>3. \A g : \A e \in Dispatchers : Taking(e, g)' => Taking(e, g)
    BY <2>1 DEF Taking
  <2> QED
    BY <1>0, <2>1, <2>2, <2>3, MessageTyped, DispatchKeepsWord DEF Outstanding
<1>8. ASSUME NEW d \in Dispatchers, NEW m \in Messages, Claim(d, m)
      PROVE  WordInvariant'
  <2>1. ClaimEffect(d, m) /\ UNCHANGED <<incident, last>>
    BY <1>0, <1>8, ClaimWrites DEF Claim
  <2>2. \A n \in Messages : /\ row'[n].state = "absent" <=> row[n].state = "absent"
                            /\ row'[n].state = "delivered" => row[n].state = "delivered"
    BY <2>1 DEF ClaimEffect
  <2>3. \A g : \A e \in Dispatchers : Taking(e, g)' => Taking(e, g)
    BY <2>1 DEF Taking, ClaimEffect
  <2> QED
    BY <1>0, <2>1, <2>2, <2>3, MessageTyped, DispatchKeepsWord DEF Outstanding
<1>9. ASSUME NEW d \in Dispatchers, Transmit(d) PROVE WordInvariant'
    BY <1>0, <1>9, TransmitKeepsWord
<1>10. ASSUME NEW d \in Dispatchers, Complete(d) PROVE WordInvariant'
    BY <1>0, <1>10, CompleteKeepsWord
<1>11. ASSUME NEW d \in Dispatchers, Crash(d) PROVE WordInvariant'
  <2>1. UNCHANGED <<row, incident, last>> /\ dispatcher' = [dispatcher EXCEPT ![d] = Idle]
    BY <1>11 DEF Crash
  <2>2. \A g : \A e \in Dispatchers : Taking(e, g)' => Taking(e, g)
    BY <1>0, <2>1 DEF Taking, Idle, DispatcherTyped
  <2> QED
    BY <1>0, <2>1, <2>2, DispatchKeepsWord DEF Outstanding
<1> QED
    BY <1>2, <1>3, <1>4, <1>5, <1>6, <1>7, <1>8, <1>9, <1>10, <1>11 DEF Next, Deliver

\* When an incident is resolved and nothing more will be sent, the owner's last
\* message is not an alert that stands uncorrected, unless a recovery was given up or
\* dropped: the invariant names the generation whose recovery is outstanding
\* (operational_alerts.py:314-324, :656-666).
THEOREM LastWordIsTrueHolds == Spec => []LastWordIsTrue
<1>1. Init => WordInvariant
  <2> SUFFICES ASSUME Init PROVE WordInvariant
    OBVIOUS
  <2>1. last # "alert" /\ \A g \in 1..MaxGenerations : row[Alert(g)].state = "absent"
    BY MessageTyped DEF Init, Absent
  <2> QED
    BY <2>1, InitClaims DEF WordInvariant, AlertOpen
<1>2. WordInvariant => LastWordIsTrue
  <2> SUFFICES ASSUME WordInvariant, incident.status = "resolved", AtRest, last = "alert"
               PROVE  \E g \in 1..incident.generation : row[Recovery(g)].state = "suppressed"
    BY DEF LastWordIsTrue
  <2>1. PICK g \in 1..incident.generation : Outstanding(g)
    BY DEF WordInvariant
  <2>2. Recovery(g) \in Messages
    BY GenerationTyped, MessageTyped DEF WordInvariant
  <2>3. row[Recovery(g)].state # "absent" /\ row[Recovery(g)].state # "delivered"
    BY <2>1 DEF Outstanding, StillTold, Announced
  <2>4. row[Recovery(g)].state \in States /\ ~Open(Recovery(g))
    BY <2>2, RowFields DEF WordInvariant, AtRest
  <2> QED
    BY <2>3, <2>4 DEF Open, States
<1> QED
    BY <1>1, <1>2, NextKeepsWord, PTL DEF Spec

=============================================================================
