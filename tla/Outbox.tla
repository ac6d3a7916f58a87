------------------------------- MODULE Outbox -------------------------------
(***************************************************************************)
(* What an outbox of messages to people promises, whatever its transport:  *)
(* a message is opened once, every transmission has a claim of its own,    *)
(* claims are bounded, and a settled message is never claimed again.       *)
(*                                                                         *)
(* JobNotifications and OperationalAlerts implement it.                    *)
(***************************************************************************)
EXTENDS Naturals

CONSTANTS
    Messages,       \* every message the system may ever have to send
    MaxClaims       \* the configured maximum of delivery attempts

VARIABLE box        \* per message: its phase, its claims, and those that transmitted

Box == [phase : {"absent", "open", "settled"}, claims : Nat, sent : SUBSET Nat]

Init == box = [m \in Messages |-> [phase |-> "absent", claims |-> 0, sent |-> {}]]

(***************************************************************************)
(* What one transaction may do to one message; it may touch several.       *)
(***************************************************************************)

Opens(b, c) == b.phase = "absent" /\ c = [phase |-> "open", claims |-> 0, sent |-> {}]

Claims(b, c) ==
    /\ b.phase = "open" /\ b.claims < MaxClaims
    /\ c = [phase |-> "open", claims |-> b.claims + 1, sent |-> b.sent]

\* The holder of a claim transmits, once, even if the message was settled meanwhile.
Transmits(b, c) ==
    \E claim \in 1..b.claims \ b.sent :
        c = [phase |-> b.phase, claims |-> b.claims, sent |-> b.sent \cup {claim}]

Settles(b, c) ==
    /\ b.phase = "open"
    /\ c = [phase |-> "settled", claims |-> b.claims, sent |-> b.sent]

Advances(b, c) == Opens(b, c) \/ Claims(b, c) \/ Transmits(b, c) \/ Settles(b, c)

Next ==
    /\ box' \in [Messages -> Box]
    /\ \A m \in Messages : box'[m] = box[m] \/ Advances(box[m], box'[m])

Spec == Init /\ [][Next]_box

(***************************************************************************)
(* What follows from it.                                                   *)
(***************************************************************************)

TypeOK == box \in [Messages -> Box]

\* No message is transmitted more often than its claims allow, whatever stalls,
\* crashes and uncertain answers made the dispatchers claim it again.
TransmissionsAreBounded ==
    \A m \in Messages : box[m].claims <= MaxClaims /\ box[m].sent \subseteq 1..box[m].claims

StaysSettled ==
    \A m \in Messages : box[m].phase = "settled" =>
        box'[m].phase = "settled" /\ box'[m].claims = box[m].claims

\* A message that was delivered, given up or suppressed is never claimed again.
SettledIsFinal == [][StaysSettled]_box

=============================================================================
