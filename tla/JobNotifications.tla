-------------------------- MODULE JobNotifications --------------------------
(***************************************************************************)
(* The messages about the outcome of one job: intents written in the       *)
(* transaction that ends the job, dispatchers that claim, transmit and     *)
(* complete them in three separate steps, retries that make outcomes       *)
(* obsolete, and destinations that come and go.                            *)
(*                                                                         *)
(* Source: job_notifications.py, and the callers that end, retry and       *)
(* reconcile a job.  The time between a retry and the begin of its attempt *)
(* is one step with the retry: no outcome is current in between.           *)
(*                                                                         *)
(* Operators whose name begins with "Mutant" are variants, with a plausible *)
(* bug, of the definition that follows; no action uses them.               *)
(***************************************************************************)
EXTENDS Integers

CONSTANTS
    Dispatchers,    \* background passes that deliver, one per worker
    Destinations,   \* the destinations of the owner, channel included
    Push,           \* the destination a transport may report as gone
    MaxAttempts,    \* MAX_PROCESSING_ATTEMPTS
    MaxSends,       \* job_notification_max_attempts
    MaxFaults       \* bound of the model on crashes, stalls and timeouts

ASSUME NotificationAssumption ==
    /\ Push \in Destinations
    /\ MaxAttempts \in Nat \ {0}
    /\ MaxSends \in Nat \ {0}
    /\ MaxFaults \in Nat

\* The unique key of JobNotificationDelivery, for one job.
Intents == [outcome : {"failed", "completed"}, attempt : 1..MaxAttempts, to : Destinations]

VARIABLES
    job,            \* the row of TranscriptionJob: status and attempt_count
    wanted,         \* destinations enabled by the preferences and not revoked
    row,            \* the rows of JobNotificationDelivery
    retry,          \* the rows a retry loaded, while it holds the lock on the job
    dispatcher,     \* what every background pass is doing
    sent,           \* the claims of an intent that transmitted it
    surplus,        \* copies that reached the owner, less the interruptions after
                    \* which a second copy cannot be excluded
    dropped,        \* destinations that were disabled or revoked at some time
    faults          \* crashes, stalls and timeouts so far

vars == <<job, wanted, row, retry, dispatcher, sent, surplus, dropped, faults>>

Idle == [pc |-> "idle"]
NotRetrying == [on |-> FALSE, rows |-> {}]

Result == {"delivered", "rejected", "timeout", "gone"}

TypeOK ==
    /\ job \in [status : {"running", "failed", "completed"}, attempt : 1..MaxAttempts]
    /\ wanted \subseteq Destinations /\ dropped \subseteq Destinations
    /\ row \in [Intents -> [state : {"absent", "pending", "claimed", "failed", "delivered",
                                     "suppressed"},
                            attempts : 0..MaxSends, due : BOOLEAN, lapsed : BOOLEAN]]
    /\ retry \in [on : BOOLEAN, rows : SUBSET Intents]
    /\ dispatcher \in [Dispatchers -> {Idle}
          \cup [pc : {"transmitting"}, intent : Intents, token : 1..MaxSends]
          \cup [pc : {"completing"}, intent : Intents, token : 1..MaxSends, result : Result]]
    /\ sent \in [Intents -> SUBSET (1..MaxSends)]
    /\ surplus \in [Intents -> Int]
    /\ faults \in 0..MaxFaults

Absent == [state |-> "absent", attempts |-> 0, due |-> FALSE, lapsed |-> FALSE]
Pending == [state |-> "pending", attempts |-> 0, due |-> TRUE, lapsed |-> FALSE]

Init ==
    /\ job = [status |-> "running", attempt |-> 1]
    /\ wanted = Destinations
    /\ row = [i \in Intents |-> Absent]
    /\ retry = NotRetrying
    /\ dispatcher = [d \in Dispatchers |-> Idle]
    /\ sent = [i \in Intents |-> {}]
    /\ surplus = [i \in Intents |-> 0]
    /\ dropped = {}
    /\ faults = 0

\* The row leaves its claim, or never had one.
Ended(i, state) == [state |-> state, attempts |-> row[i].attempts, due |-> row[i].due,
                    lapsed |-> FALSE]

Open(i) == row[i].state \in {"pending", "claimed", "failed"}

\* The intent tells the present outcome of the job.
Current(i) == i.outcome = job.status /\ i.attempt = job.attempt

Valid(i) == Current(i) /\ i.to \in wanted

Fault == faults < MaxFaults /\ faults' = faults + 1

Holders(i) == {d \in Dispatchers : dispatcher[d].pc # "idle" /\ dispatcher[d].intent = i}

(***************************************************************************)
(* The job.                                                                *)
(***************************************************************************)

\* ensure_terminal_notification_intents: one row per wanted destination, unless
\* there is one already.
Ensured(outcome) ==
    [i \in Intents |->
        IF /\ i.outcome = outcome /\ i.attempt = job.attempt /\ i.to \in wanted
           /\ row[i].state = "absent"
        THEN Pending ELSE row[i]]

EndJob(outcome) ==
    /\ job' = [job EXCEPT !.status = outcome]
    /\ row' = Ensured(outcome)
    /\ UNCHANGED <<wanted, retry, dispatcher, sent, surplus, dropped, faults>>

Finish == job.status = "running" /\ \E outcome \in {"failed", "completed"} : EndJob(outcome)

\* persist_verified_reconciliation_output completes a failed job.
Reconcile == job.status = "failed" /\ ~retry.on /\ EndJob("completed")

\* suppress_obsolete_job_notification_intents loads the open rows without a lock.
StartRetry ==
    /\ job.status = "failed" /\ job.attempt < MaxAttempts /\ ~retry.on
    /\ retry' = [on |-> TRUE, rows |-> {i \in Intents : Open(i)}]
    /\ UNCHANGED <<job, wanted, row, dispatcher, sent, surplus, dropped, faults>>

\* Its flush writes the rows it loaded, whatever became of them since.
CommitRetry ==
    /\ retry.on
    /\ retry' = NotRetrying
    /\ row' = [i \in Intents |-> IF i \in retry.rows THEN Ended(i, "suppressed") ELSE row[i]]
    /\ job' = [status |-> "running", attempt |-> job.attempt + 1]
    /\ UNCHANGED <<wanted, dispatcher, sent, surplus, dropped, faults>>

\* The owner enables or disables a destination.
ChangePreference(to) ==
    /\ IF to \in wanted THEN wanted' = wanted \ {to} /\ dropped' = dropped \cup {to}
                        ELSE wanted' = wanted \cup {to} /\ UNCHANGED dropped
    /\ UNCHANGED <<job, row, retry, dispatcher, sent, surplus, faults>>

(***************************************************************************)
(* The dispatchers.                                                        *)
(***************************************************************************)

MutantLapsed(i) == TRUE

\* claim_expires_at of a claimed row has passed.
Lapsed(i) == row[i].lapsed

\* What the query of claim_next_job_notification selects.
Eligible(i) ==
    \/ row[i].state \in {"pending", "failed"} /\ row[i].attempts < MaxSends /\ row[i].due
    \/ row[i].state = "claimed" /\ Lapsed(i)

MutantExhausted(i) == row[i].attempts >= MaxSends - 1

Exhausted(i) == row[i].attempts >= MaxSends

\* The claim finds that the message must not be sent (any more).
SuppressAtClaim(d, i) ==
    /\ dispatcher[d].pc = "idle" /\ Eligible(i)
    /\ ~Valid(i) \/ (row[i].state = "claimed" /\ Exhausted(i))
    /\ row' = [row EXCEPT ![i] = Ended(i, "suppressed")]
    /\ UNCHANGED <<job, wanted, retry, dispatcher, sent, surplus, dropped, faults>>

\* A claim has a token of its own; the number of the attempt stands for it.
Claim(d, i) ==
    /\ dispatcher[d].pc = "idle" /\ Eligible(i) /\ Valid(i)
    /\ ~(row[i].state = "claimed" /\ Exhausted(i))
    /\ row' = [row EXCEPT ![i] = [state |-> "claimed", attempts |-> row[i].attempts + 1,
                                  due |-> FALSE, lapsed |-> FALSE]]
    /\ dispatcher' = [dispatcher EXCEPT ![d] = [pc |-> "transmitting", intent |-> i,
                                                token |-> row[i].attempts + 1]]
    /\ UNCHANGED <<job, wanted, retry, sent, surplus, dropped, faults>>

\* _send_web_push, _send_email, _send_telegram: a timeout says nothing about the
\* copy.
Transmit(d) ==
    /\ dispatcher[d].pc = "transmitting"
    /\ LET i == dispatcher[d].intent
       IN  \E result \in Result, arrived \in BOOLEAN :
             /\ result = "delivered" => arrived
             /\ result \in {"rejected", "gone"} => ~arrived
             /\ result = "gone" => i.to = Push
             /\ dispatcher' = [dispatcher EXCEPT
                   ![d] = [pc |-> "completing", intent |-> i, token |-> dispatcher[d].token,
                           result |-> result]]
             /\ sent' = [sent EXCEPT ![i] = @ \cup {dispatcher[d].token}]
             /\ surplus' = [surplus EXCEPT ![i] = @ + (IF arrived THEN 1 ELSE 0)
                                                     - (IF result = "timeout" THEN 1 ELSE 0)]
             /\ IF result = "timeout" THEN Fault ELSE UNCHANGED faults
    /\ UNCHANGED <<job, wanted, row, retry, dropped>>

MutantHoldsClaim(d) == row[dispatcher[d].intent].attempts >= dispatcher[d].token

\* The fence of complete_job_notification: state and token.
HoldsClaim(d) ==
    LET i == dispatcher[d].intent
    IN  row[i].state = "claimed" /\ row[i].attempts = dispatcher[d].token

MutantGivesUp(i) == row[i].attempts > MaxSends

\* The last failed attempt ends the message.
GivesUp(i) == row[i].attempts >= MaxSends

\* What complete_job_notification leaves.
Completed(i, result) ==
    CASE result = "delivered" -> Ended(i, "delivered")
      [] result = "gone" \/ (result # "delivered" /\ GivesUp(i)) -> Ended(i, "suppressed")
      [] OTHER -> Ended(i, "failed")

Complete(d) ==
    /\ dispatcher[d].pc = "completing"
    /\ LET i == dispatcher[d].intent
           gone == HoldsClaim(d) /\ dispatcher[d].result = "gone"
       IN  /\ row' = IF HoldsClaim(d)
                     THEN [row EXCEPT ![i] = Completed(i, dispatcher[d].result)] ELSE row
           /\ wanted' = IF gone THEN wanted \ {i.to} ELSE wanted
           /\ dropped' = IF gone THEN dropped \cup {i.to} ELSE dropped
    /\ dispatcher' = [dispatcher EXCEPT ![d] = Idle]
    /\ UNCHANGED <<job, retry, sent, surplus, faults>>

\* The worker dies with a claim in its hands.
Crash(d) ==
    /\ Fault /\ dispatcher[d].pc # "idle"
    /\ dispatcher' = [dispatcher EXCEPT ![d] = Idle]
    /\ surplus' = [surplus EXCEPT ![dispatcher[d].intent] = @ - 1]
    /\ UNCHANGED <<job, wanted, row, retry, sent, dropped>>

\* The claim runs out; if a dispatcher still works on it, it stalled.
ClaimLapses(i) ==
    /\ row[i].state = "claimed" /\ ~row[i].lapsed
    /\ row' = [row EXCEPT ![i] = [state |-> "claimed", attempts |-> row[i].attempts,
                                  due |-> row[i].due, lapsed |-> TRUE]]
    /\ IF \E d \in Holders(i) : dispatcher[d].token = row[i].attempts
       THEN Fault /\ surplus' = [surplus EXCEPT ![i] = @ - 1]
       ELSE UNCHANGED <<surplus, faults>>
    /\ UNCHANGED <<job, wanted, retry, dispatcher, sent, dropped>>

\* next_attempt_at passes.
BackoffPasses(i) ==
    /\ row[i].state = "failed" /\ ~row[i].due
    /\ row' = [row EXCEPT ![i] = [state |-> "failed", attempts |-> row[i].attempts,
                                  due |-> TRUE, lapsed |-> FALSE]]
    /\ UNCHANGED <<job, wanted, retry, dispatcher, sent, surplus, dropped, faults>>

Dispatch(d) ==
    \/ \E i \in Intents : SuppressAtClaim(d, i) \/ Claim(d, i)
    \/ Transmit(d) \/ Complete(d)

Next ==
    \/ Finish \/ Reconcile \/ StartRetry \/ CommitRetry
    \/ \E to \in Destinations : ChangePreference(to)
    \/ \E d \in Dispatchers : Dispatch(d) \/ Crash(d)
    \/ \E i \in Intents : ClaimLapses(i) \/ BackoffPasses(i)

Spec == Init /\ [][Next]_vars

\* The background passes run, and the clock does.
Fairness ==
    /\ \A d \in Dispatchers : WF_vars(Dispatch(d))
    /\ WF_vars(\E i \in Intents : ClaimLapses(i) \/ BackoffPasses(i))

FairSpec == Spec /\ Fairness

(***************************************************************************)
(* Properties.                                                             *)
(***************************************************************************)

\* A second copy of a message reaches the owner only after a claim ran out under
\* its dispatcher, a dispatcher died or a transport did not answer in time: two
\* dispatchers never send the same message of their own accord
\* (job_notifications.py:330-349, :556-561).
CopiesHaveACause == \A i \in Intents : surplus[i] <= 1

\* News that is still true is not dropped: a suppressed intent of the present
\* outcome had all its attempts, or its destination was disabled or revoked, in
\* particular the retries of earlier attempts suppress nothing of the present one
\* (job_notifications.py:260-284, :367-382, :572-582).
NewsIsNotDropped ==
    \A i \in Intents : Current(i) /\ row[i].state = "suppressed"
                          => row[i].attempts = MaxSends \/ i.to \in dropped

\* A job has finitely many outcomes, so there comes a time when every intent is
\* delivered, given up or suppressed, even if the worker that claimed one for the
\* last time died (job_notifications.py:340-344).
IntentsSettle == <>[](\A i \in Intents : ~Open(i))

Message(i) ==
    [phase |-> IF row[i].state = "absent" THEN "absent"
               ELSE IF Open(i) THEN "open" ELSE "settled",
     claims |-> row[i].attempts, sent |-> sent[i]]

MessageBox == [i \in Intents |-> Message(i)]

Abstract == INSTANCE Outbox WITH Messages <- Intents, MaxClaims <- MaxSends, box <- MessageBox

\* The rows are an outbox: whatever the unlocked suppression overwrites, no
\* message is opened twice, sent more often than allowed, or claimed after it was
\* settled (job_notifications.py:205-409, :546-592).
ImplementsOutbox == Abstract!Spec

=============================================================================
