------------------------- MODULE OperationalAlerts -------------------------
(***************************************************************************)
(* One kind of operational incident of one owner: evaluations that read    *)
(* the signal, lock the incident and write what they saw, the owner who    *)
(* acknowledges, and dispatchers that send one message when the incident   *)
(* fires and one when it recovers.                                         *)
(*                                                                         *)
(* Source: operational_alerts.py.  The signal is what its rule reads in    *)
(* the database; an evaluation is one step, on time or late.  One that     *)
(* fails, or loses the race to insert the incident, writes nothing.  The   *)
(* canary opens and suppresses its own rows in one transaction; it is left *)
(* out.                                                                    *)
(*                                                                         *)
(* Operators whose name begins with "Mutant" are variants, with a plausible *)
(* bug, of the definition that follows; no action uses them.               *)
(***************************************************************************)
EXTENDS Naturals

CONSTANTS
    Dispatchers,    \* workers in their delivery pass
    Severities,     \* severities of the rule: "critical", "warning"
    MaxSends,       \* alert_delivery_max_attempts
    MaxGenerations, \* bound of the model on lifecycle generations
    MaxFaults       \* bound of the model on crashes, timeouts, overlaps, late evaluations

ASSUME AlertAssumption ==
    /\ Severities \subseteq {"critical", "warning"}
    /\ MaxSends \in Nat \ {0}
    /\ MaxGenerations \in Nat \ {0}
    /\ MaxFaults \in Nat

\* The unique key of OperationalAlertDelivery, for one incident.
Messages == [generation : 1..MaxGenerations, kind : {"firing", "recovery"}]

VARIABLES
    signal,         \* what the rule would report now
    incident,       \* the row of OperationalIncident
    row,            \* the rows of OperationalAlertDelivery
    dispatcher,     \* what every delivery in progress is doing
    sent,           \* the claims of a message that transmitted it
    last,           \* the last message that reached the owner: an alert, one whose
                    \* recovery was open already, or none or a recovery
    alerts,         \* alerts opened since the last cooldown passed
    faults          \* crashes, timeouts, overlaps and late evaluations so far

vars == <<signal, incident, row, dispatcher, sent, last, alerts, faults>>

delivering == <<dispatcher, sent, last>>

Idle == [pc |-> "idle"]

Result == {"delivered", "failed"}

TypeOK ==
    /\ signal \in BOOLEAN
    /\ incident \in [status : {"none", "pending", "firing", "acknowledged", "resolved"},
                     severity : Severities, generation : 0..MaxGenerations, cooling : BOOLEAN]
    /\ row \in [Messages -> [state : {"absent", "pending", "claimed", "failed", "delivered",
                                      "suppressed"},
                             attempts : 0..MaxSends]]
    /\ dispatcher \in [Dispatchers -> {Idle}
          \cup [pc : {"transmitting"}, message : Messages, token : 1..MaxSends]
          \cup [pc : {"completing"}, message : Messages, token : 1..MaxSends, result : Result]]
    /\ sent \in [Messages -> SUBSET (1..MaxSends)]
    /\ last \in {"calm", "alert", "late"}
    /\ alerts \in Nat
    /\ faults \in 0..MaxFaults

Absent == [state |-> "absent", attempts |-> 0]
Pending == [state |-> "pending", attempts |-> 0]

Init ==
    /\ signal = FALSE
    /\ \E severity \in Severities :
          incident = [status |-> "none", severity |-> severity, generation |-> 0,
                      cooling |-> FALSE]
    /\ row = [m \in Messages |-> Absent]
    /\ dispatcher = [d \in Dispatchers |-> Idle]
    /\ sent = [m \in Messages |-> {}]
    /\ last = "calm"
    /\ alerts = 0
    /\ faults = 0

Open(m) == row[m].state \in {"pending", "claimed", "failed"}

Fault == faults < MaxFaults /\ faults' = faults + 1

Alert(generation) == [generation |-> generation, kind |-> "firing"]
Recovery(generation) == [generation |-> generation, kind |-> "recovery"]

(***************************************************************************)
(* The incident.                                                           *)
(***************************************************************************)

\* The signal comes and goes.
SignalChanges ==
    /\ ~signal => incident.generation < MaxGenerations
    /\ signal' = ~signal
    /\ UNCHANGED <<incident, row, alerts, faults, delivering>>

\* The row leaves its claim, or never had one.
Ended(m, state) == [state |-> state, attempts |-> row[m].attempts]

\* _ensure_delivery.
Ensured(m) == IF row[m].state = "absent" THEN [row EXCEPT ![m] = Pending] ELSE row

MutantAnnounced == incident.status = "firing"

\* The owner may have heard of the incident.
Announced == incident.status \in {"firing", "acknowledged"}

\* apply_rule_observation without a signal.
Resolve ==
    /\ incident.status \notin {"none", "resolved"}
    /\ incident' = [incident EXCEPT !.status = "resolved"]
    /\ row' = IF Announced THEN Ensured(Recovery(incident.generation)) ELSE row
    /\ UNCHANGED alerts

MutantFiresWhileCooling == incident.status = "pending" \/ incident.severity = "critical"

MutantFiresOnlyAtOnce ==
    ~incident.cooling /\ incident.status # "pending" /\ incident.severity = "critical"

\* A repeated signal fires a pending incident; a new or a reopened one fires at
\* once if it is critical; none fires during the cooldown of the last.
MayFire ==
    /\ ~incident.cooling
    /\ incident.status = "pending" \/ incident.severity = "critical"

\* The incident fires: one message, one cooldown.
Fire ==
    LET generation == IF incident.status = "pending" THEN incident.generation
                      ELSE incident.generation + 1
    IN  /\ incident' = [incident EXCEPT !.status = "firing", !.generation = generation,
                                        !.cooling = TRUE]
        /\ row' = Ensured(Alert(generation))
        /\ alerts' = alerts + 1

Pend ==
    /\ incident' = IF incident.status = "pending" THEN incident
                   ELSE [incident EXCEPT !.status = "pending", !.generation = @ + 1]
    /\ UNCHANGED <<row, alerts>>

\* apply_rule_observation with a signal; an acknowledged incident stays so.
Detect ==
    /\ incident.status # "acknowledged"
    /\ incident.status \in {"none", "resolved"} => incident.generation < MaxGenerations
    /\ IF incident.status = "firing"
       THEN row' = Ensured(Alert(incident.generation)) /\ UNCHANGED <<incident, alerts>>
       ELSE IF MayFire THEN Fire ELSE Pend

\* collect_rule_observations saw the signal before the incident was locked.
Apply(seen) == (IF seen THEN Detect ELSE Resolve) /\ UNCHANGED <<signal, delivering>>

Evaluate == Apply(signal) /\ UNCHANGED faults

\* The signal changed since, and another evaluation may have written already.
EvaluateLate ==
    /\ incident.generation \in 1..MaxGenerations - 1
    /\ Fault /\ Apply(~signal)

\* acknowledge_incident: an alert that is not on its way is not sent any more.
Acknowledge ==
    /\ incident.status \in {"pending", "firing"}
    /\ incident' = [incident EXCEPT !.status = "acknowledged"]
    /\ LET m == Alert(incident.generation)
       IN  row' = IF row[m].state \in {"pending", "failed"}
                  THEN [row EXCEPT ![m] = Ended(m, "suppressed")] ELSE row
    /\ UNCHANGED <<signal, alerts, faults, delivering>>

\* cooldown_until passes.
CooldownPasses ==
    /\ incident.cooling
    /\ incident' = [incident EXCEPT !.cooling = FALSE]
    /\ alerts' = 0
    /\ UNCHANGED <<signal, row, faults, delivering>>

(***************************************************************************)
(* The dispatchers.                                                        *)
(***************************************************************************)

\* What the query of claim_next_delivery selects: a claim has run out when nobody
\* works on it, or its holder stalls; the backoff and the order are left open.
Eligible(m) ==
    \/ row[m].state \in {"pending", "failed"} /\ row[m].attempts < MaxSends
    \/ row[m].state = "claimed"

\* A dispatcher looks for work; that another one is still at work, on this message
\* or on one of the same incident, is rare and counted.
Looks(d) ==
    /\ dispatcher[d].pc = "idle"
    /\ IF \A e \in Dispatchers : dispatcher[e].pc = "idle" THEN UNCHANGED faults ELSE Fault

Exhausted(m) == row[m].state = "claimed" /\ row[m].attempts >= MaxSends

\* The message tells the present state of the incident.
Valid(m) ==
    /\ m.generation = incident.generation
    /\ incident.status = (IF m.kind = "firing" THEN "firing" ELSE "resolved")

SuppressAtClaim(d, m) ==
    /\ Looks(d) /\ Eligible(m)
    /\ Exhausted(m) \/ ~Valid(m)
    /\ row' = [row EXCEPT ![m] = Ended(m, "suppressed")]
    /\ UNCHANGED <<signal, incident, alerts, delivering>>

\* A claim has a token of its own; the number of the attempt stands for it.
Claim(d, m) ==
    /\ Looks(d) /\ Eligible(m) /\ Valid(m) /\ ~Exhausted(m)
    /\ row' = [row EXCEPT ![m] = [state |-> "claimed", attempts |-> row[m].attempts + 1]]
    /\ dispatcher' = [dispatcher EXCEPT ![d] = [pc |-> "transmitting", message |-> m,
                                                token |-> row[m].attempts + 1]]
    /\ UNCHANGED <<signal, incident, sent, last, alerts>>

Impression(m) ==
    IF m.kind = "recovery" THEN "calm"
    ELSE IF row[Recovery(m.generation)].state = "absent" THEN "alert" ELSE "late"

\* _send_telegram: a failure may be a timeout, which says nothing about the copy.
Transmit(d) ==
    /\ dispatcher[d].pc = "transmitting"
    /\ LET m == dispatcher[d].message
       IN  \E result \in Result, arrived \in BOOLEAN :
             /\ result = "delivered" => arrived
             /\ IF arrived /\ result = "failed" THEN Fault ELSE UNCHANGED faults
             /\ dispatcher' = [dispatcher EXCEPT
                   ![d] = [pc |-> "completing", message |-> m, token |-> dispatcher[d].token,
                           result |-> result]]
             /\ sent' = [sent EXCEPT ![m] = @ \cup {dispatcher[d].token}]
             /\ last' = IF arrived THEN Impression(m) ELSE last
    /\ UNCHANGED <<signal, incident, row, alerts>>

MutantHoldsClaim(d) == row[dispatcher[d].message].attempts >= dispatcher[d].token

\* The fence of complete_delivery: state and token.
HoldsClaim(d) ==
    LET m == dispatcher[d].message
    IN  row[m].state = "claimed" /\ row[m].attempts = dispatcher[d].token

Complete(d) ==
    /\ dispatcher[d].pc = "completing"
    /\ LET m == dispatcher[d].message
           state == IF dispatcher[d].result = "delivered" THEN "delivered"
                    ELSE IF row[m].attempts >= MaxSends THEN "suppressed" ELSE "failed"
       IN  row' = IF HoldsClaim(d) THEN [row EXCEPT ![m] = Ended(m, state)] ELSE row
    /\ dispatcher' = [dispatcher EXCEPT ![d] = Idle]
    /\ UNCHANGED <<signal, incident, sent, last, alerts, faults>>

\* The worker dies with a claim in its hands.
Crash(d) ==
    /\ Fault /\ dispatcher[d].pc # "idle"
    /\ dispatcher' = [dispatcher EXCEPT ![d] = Idle]
    /\ UNCHANGED <<signal, incident, row, sent, last, alerts>>

Deliver(d) ==
    \/ \E m \in Messages : SuppressAtClaim(d, m) \/ Claim(d, m)
    \/ Transmit(d) \/ Complete(d)

Next ==
    \/ SignalChanges \/ Evaluate \/ EvaluateLate \/ Acknowledge \/ CooldownPasses
    \/ \E d \in Dispatchers : Deliver(d) \/ Crash(d)

Spec == Init /\ [][Next]_vars

\* The background passes run, and the clock does.
Fairness ==
    /\ WF_vars(Evaluate)
    /\ \A d \in Dispatchers : WF_vars(Deliver(d))
    /\ WF_vars(CooldownPasses)

FairSpec == Spec /\ Fairness

(***************************************************************************)
(* Properties.                                                             *)
(***************************************************************************)

\* However often a signal comes and goes, and however late an evaluation writes
\* what it saw, no two alerts are opened within one cooldown
\* (operational_alerts.py:362-382).
AlertsAreSpaced == alerts <= 1

AtRest == (\A m \in Messages : ~Open(m)) /\ \A d \in Dispatchers : dispatcher[d] = Idle

\* When an incident is resolved and nothing more will be sent, the owner's last
\* message is not the alert, unless a recovery was given up, or dropped because
\* the signal came back, or the alert was under way when the recovery was opened
\* (operational_alerts.py:314-324, :656-666).
LastWordIsTrue ==
    incident.status = "resolved" /\ AtRest /\ last = "alert" =>
        \E g \in 1..incident.generation : row[Recovery(g)].state = "suppressed"

\* A signal that stays is announced, or was acknowledged, although it came back
\* during a cooldown, needs two evaluations, or met a late one that resolved it
\* (operational_alerts.py:326-382).
OutagesAreAnnounced ==
    <>[]signal => <>[](incident.status \in {"firing", "acknowledged"})

Message(m) ==
    [phase |-> IF row[m].state = "absent" THEN "absent"
               ELSE IF Open(m) THEN "open" ELSE "settled",
     claims |-> row[m].attempts, sent |-> sent[m]]

MessageBox == [m \in Messages |-> Message(m)]

Abstract == INSTANCE Outbox WITH MaxClaims <- MaxSends, box <- MessageBox

\* The delivery rows are an outbox, as those of JobNotifications are
\* (operational_alerts.py:262-293, :614-681, :748-782).
ImplementsOutbox == Abstract!Spec

=============================================================================
