----------------------- MODULE JobNotificationsProofs -----------------------
(***************************************************************************)
(* The notification rows implement an outbox, copies of a message have a   *)
(* cause and news that is true is not dropped, for any number of           *)
(* dispatchers, destinations, attempts and faults.                         *)
(***************************************************************************)
EXTENDS JobNotifications, FiniteSetTheorems, TLAPS

States == {"absent", "pending", "claimed", "failed", "delivered", "suppressed"}

Rows == [state : States, attempts : Nat, due : BOOLEAN, lapsed : BOOLEAN]

Held == [pc : {"transmitting"}, intent : Intents, token : Nat]
          \cup [pc : {"completing"}, intent : Intents, token : Nat, result : Result]

Types ==
    /\ row \in [Intents -> Rows]
    /\ sent \in [Intents -> SUBSET Nat]
    /\ retry \in [on : BOOLEAN, rows : SUBSET Intents]
    /\ dispatcher \in [Dispatchers -> {Idle} \cup Held]

\* A row that is not there was never claimed, attempts stay within the maximum,
\* and only claims transmit.
RowSound(i) ==
    /\ row[i].state = "absent" => row[i].attempts = 0
    /\ row[i].attempts <= MaxSends
    /\ sent[i] \subseteq 1..row[i].attempts

\* Whoever is about to transmit holds a claim that did not transmit before.
TokenFresh(d) ==
    dispatcher[d].pc = "transmitting" =>
        /\ dispatcher[d].token \in 1..row[dispatcher[d].intent].attempts
        /\ dispatcher[d].token \notin sent[dispatcher[d].intent]

\* No two dispatchers are about to transmit for the same claim.
TokensDiffer(d, e) ==
    /\ dispatcher[d].pc = "transmitting" /\ dispatcher[e].pc = "transmitting"
    /\ dispatcher[d].intent = dispatcher[e].intent
    /\ dispatcher[d].token = dispatcher[e].token
    => d = e

\* A retry holds only rows that are there.
RetrySound == \A i \in retry.rows : row[i].state # "absent"

\* The inductive invariant.
OutboxInvariant ==
    /\ Types
    /\ \A i \in Intents : RowSound(i)
    /\ \A d \in Dispatchers : TokenFresh(d)
    /\ \A d, e \in Dispatchers : TokensDiffer(d, e)
    /\ RetrySound

LEMMA IntentFields ==
    ASSUME NEW i \in Intents
    PROVE  /\ i.outcome \in {"failed", "completed"}
           /\ i.to \in Destinations
BY DEF Intents

LEMMA InitInvariant == Init => OutboxInvariant
<1> SUFFICES ASSUME Init PROVE OutboxInvariant
  OBVIOUS
<1>1. Absent \in Rows
  BY DEF Absent, Rows, States
<1>2. Types
  BY <1>1 DEF Init, Types, NotRetrying
<1>3. ASSUME NEW i \in Intents PROVE RowSound(i)
  BY NotificationAssumption DEF Init, RowSound, Absent
<1>4. ASSUME NEW d \in Dispatchers PROVE dispatcher[d].pc # "transmitting"
  BY DEF Init, Idle
<1>5. RetrySound
  BY DEF Init, RetrySound, NotRetrying
<1> QED
  BY <1>2, <1>3, <1>4, <1>5 DEF OutboxInvariant, TokenFresh, TokensDiffer

(***************************************************************************)
(* What a transaction does to the rows, in the words of the outbox.        *)
(***************************************************************************)

\* The fields of a row, under the invariant.
LEMMA RowFields ==
    ASSUME OutboxInvariant, NEW i \in Intents
    PROVE  /\ row[i].state \in States /\ row[i].attempts \in Nat
           /\ row[i].due \in BOOLEAN /\ row[i].lapsed \in BOOLEAN
           /\ row[i].attempts <= MaxSends
           /\ sent[i] \in SUBSET Nat /\ sent[i] \subseteq 1..row[i].attempts
           /\ row[i].state = "absent" => row[i].attempts = 0
BY DEF OutboxInvariant, Types, Rows, RowSound

\* A transaction that leaves the attempts and the transmissions alone, and moves
\* no dispatcher but to rest.
Quiet ==
    /\ row' \in [Intents -> Rows]
    /\ \A i \in Intents : /\ row'[i].attempts = row[i].attempts
                          /\ row'[i].state = "absent" => row[i].state = "absent"
    /\ sent' = sent
    /\ dispatcher' \in [Dispatchers -> {Idle} \cup Held]
    /\ \A d \in Dispatchers : dispatcher'[d] = dispatcher[d] \/ dispatcher'[d] = Idle
    /\ retry' \in [on : BOOLEAN, rows : SUBSET Intents]
    /\ \A i \in retry'.rows : row[i].state # "absent"

LEMMA TransmittersHoldIntents ==
    ASSUME OutboxInvariant, NEW d \in Dispatchers, dispatcher[d].pc # "idle"
    PROVE  /\ dispatcher[d] \in Held
           /\ dispatcher[d].intent \in Intents /\ dispatcher[d].token \in Nat
BY DEF OutboxInvariant, Types, Held, Idle

LEMMA QuietKeepsInvariant ==
    ASSUME OutboxInvariant, Quiet
    PROVE  OutboxInvariant'
<1>1. Types'
  BY DEF OutboxInvariant, Types, Quiet
<1>2. ASSUME NEW i \in Intents PROVE RowSound(i)'
  BY RowFields, <1>2 DEF Quiet, RowSound
<1>3. ASSUME NEW d \in Dispatchers, dispatcher'[d].pc = "transmitting"
      PROVE  dispatcher'[d] = dispatcher[d]
  BY <1>3 DEF Quiet, Idle
<1>4. ASSUME NEW d \in Dispatchers PROVE TokenFresh(d)'
  BY <1>3, <1>4, TransmittersHoldIntents DEF OutboxInvariant, TokenFresh, Quiet
<1>5. \A d, e \in Dispatchers : TokensDiffer(d, e)'
  BY <1>3 DEF OutboxInvariant, TokensDiffer
<1>6. RetrySound'
  BY DEF RetrySound, Quiet, Types, OutboxInvariant
<1> QED
  BY <1>1, <1>2, <1>4, <1>5, <1>6 DEF OutboxInvariant

\* What a quiet transaction may do to a row is to open it, to settle it, or
\* nothing the outbox sees.
Phase(state) ==
    IF state = "absent" THEN "absent"
    ELSE IF state \in {"pending", "claimed", "failed"} THEN "open" ELSE "settled"

QuietPhases ==
    \A i \in Intents :
        \/ Phase(row'[i].state) = Phase(row[i].state)
        \/ row[i].state = "absent" /\ Phase(row'[i].state) = "open"
        \/ Phase(row[i].state) = "open" /\ Phase(row'[i].state) = "settled"

LEMMA MessageOfRow ==
    \A i \in Intents :
        Message(i) = [phase |-> Phase(row[i].state), claims |-> row[i].attempts,
                      sent |-> sent[i]]
BY DEF Message, Phase, Open

\* Messages have the type of the outbox.
LEMMA MessagesTyped ==
    OutboxInvariant => MessageBox \in [Intents -> Abstract!Box]
<1> SUFFICES ASSUME OutboxInvariant, NEW i \in Intents PROVE Message(i) \in Abstract!Box
  BY DEF MessageBox
<1> QED
  BY RowFields, MessageOfRow DEF Abstract!Box, Phase

\* It is enough to look at one message at a time.
LEMMA OneMessageAtATime ==
    ASSUME OutboxInvariant', \A i \in Intents : \/ Message(i)' = Message(i)
                                               \/ Abstract!Advances(Message(i), Message(i)')
    PROVE  Abstract!Next
<1>1. MessageBox' \in [Intents -> Abstract!Box]
  <2>1. (OutboxInvariant => MessageBox \in [Intents -> Abstract!Box])'
    BY MessagesTyped, PTL
  <2> QED
    BY <2>1
<1>2. ASSUME NEW i \in Intents
      PROVE  MessageBox[i] = Message(i) /\ MessageBox'[i] = Message(i)'
  BY DEF MessageBox
<1> QED
  BY <1>1, <1>2 DEF Abstract!Next

LEMMA QuietRefines ==
    ASSUME OutboxInvariant, OutboxInvariant', Quiet, QuietPhases
    PROVE  Abstract!Next
<1> SUFFICES ASSUME NEW i \in Intents
             PROVE  Message(i)' = Message(i) \/ Abstract!Advances(Message(i), Message(i)')
  BY OneMessageAtATime
<1>1. Message(i) = [phase |-> Phase(row[i].state), claims |-> row[i].attempts, sent |-> sent[i]]
  BY MessageOfRow
<1>2. Message(i)' = [phase |-> Phase(row'[i].state), claims |-> row[i].attempts,
                     sent |-> sent[i]]
  BY DEF Quiet, Message, Phase, Open
<1>3. CASE Phase(row'[i].state) = Phase(row[i].state)
  BY <1>1, <1>2, <1>3
<1>4. CASE row[i].state = "absent" /\ Phase(row'[i].state) = "open"
  <2>1. row[i].attempts = 0 /\ sent[i] = {}
    BY <1>4, RowFields
  <2> QED
    BY <1>1, <1>2, <1>4, <2>1 DEF Abstract!Advances, Abstract!Opens, Phase
<1>5. CASE Phase(row[i].state) = "open" /\ Phase(row'[i].state) = "settled"
  BY <1>1, <1>2, <1>5 DEF Abstract!Advances, Abstract!Settles
<1> QED
  BY <1>3, <1>4, <1>5 DEF QuietPhases

(***************************************************************************)
(* The actions that claim nothing and transmit nothing.                    *)
(***************************************************************************)

\* Writing one row, without its attempts.
LEMMA OneRow ==
    ASSUME OutboxInvariant, NEW i \in Intents, NEW state \in States \ {"absent"},
           NEW due \in BOOLEAN, NEW lapsed \in BOOLEAN,
           row' = [row EXCEPT ![i] = [state |-> state, attempts |-> row[i].attempts,
                                      due |-> due, lapsed |-> lapsed]],
           Phase(row[i].state) = "open", Phase(state) \in {"open", "settled"}
    PROVE  /\ row' \in [Intents -> Rows]
           /\ \A j \in Intents : /\ row'[j].attempts = row[j].attempts
                                 /\ row'[j].state = "absent" => row[j].state = "absent"
           /\ QuietPhases
<1>1. row \in [Intents -> Rows]
  BY DEF OutboxInvariant, Types
<1>2. [state |-> state, attempts |-> row[i].attempts, due |-> due, lapsed |-> lapsed] \in Rows
  BY RowFields DEF Rows
<1>3. row' \in [Intents -> Rows]
  BY <1>1, <1>2
<1>4. \A j \in Intents : j # i => row'[j] = row[j]
  BY <1>1
<1>5. row'[i] = [state |-> state, attempts |-> row[i].attempts, due |-> due, lapsed |-> lapsed]
  BY <1>1
<1>6. \A j \in Intents : /\ row'[j].attempts = row[j].attempts
                         /\ row'[j].state = "absent" => row[j].state = "absent"
  BY <1>4, <1>5
<1>7. QuietPhases
  BY <1>4, <1>5 DEF QuietPhases
<1> QED
  BY <1>3, <1>6, <1>7

\* Nothing the outbox sees.
LEMMA SameRows ==
    ASSUME OutboxInvariant, row' = row
    PROVE  /\ row' \in [Intents -> Rows]
           /\ \A j \in Intents : /\ row'[j].attempts = row[j].attempts
                                 /\ row'[j].state = "absent" => row[j].state = "absent"
           /\ QuietPhases
BY DEF OutboxInvariant, Types, QuietPhases

\* The dispatchers and the rows a retry holds stay as they are.
LEMMA SameHolders ==
    ASSUME OutboxInvariant, UNCHANGED <<sent, dispatcher, retry>>
    PROVE  /\ sent' = sent
           /\ dispatcher' \in [Dispatchers -> {Idle} \cup Held]
           /\ \A d \in Dispatchers : dispatcher'[d] = dispatcher[d] \/ dispatcher'[d] = Idle
           /\ retry' \in [on : BOOLEAN, rows : SUBSET Intents]
           /\ \A i \in retry'.rows : row[i].state # "absent"
BY DEF OutboxInvariant, Types, RetrySound

\* One dispatcher comes to rest.
LEMMA OneRests ==
    ASSUME OutboxInvariant, NEW d \in Dispatchers, UNCHANGED <<sent, retry>>,
           dispatcher' = [dispatcher EXCEPT ![d] = Idle]
    PROVE  /\ sent' = sent
           /\ dispatcher' \in [Dispatchers -> {Idle} \cup Held]
           /\ \A e \in Dispatchers : dispatcher'[e] = dispatcher[e] \/ dispatcher'[e] = Idle
           /\ retry' \in [on : BOOLEAN, rows : SUBSET Intents]
           /\ \A i \in retry'.rows : row[i].state # "absent"
BY DEF OutboxInvariant, Types, RetrySound

LEMMA EndJobIsQuiet ==
    ASSUME OutboxInvariant, NEW outcome, EndJob(outcome)
    PROVE  Quiet /\ QuietPhases
<1>1. row' = Ensured(outcome) /\ UNCHANGED <<sent, dispatcher, retry>>
  BY DEF EndJob
<1>2. Pending \in Rows
  BY DEF Pending, Rows, States
<1>3. ASSUME NEW i \in Intents
      PROVE  row'[i] = row[i] \/ (row[i].state = "absent" /\ row'[i] = Pending)
  BY <1>1 DEF Ensured
<1>4. row' \in [Intents -> Rows]
  BY <1>1, <1>2 DEF Ensured, OutboxInvariant, Types
<1>5. \A i \in Intents : /\ row'[i].attempts = row[i].attempts
                         /\ row'[i].state = "absent" => row[i].state = "absent"
  BY <1>3, RowFields DEF Pending
<1>6. QuietPhases
  BY <1>3 DEF QuietPhases, Pending, Phase
<1> QED
  BY <1>1, <1>4, <1>5, <1>6, SameHolders DEF Quiet

LEMMA StartRetryIsQuiet ==
    ASSUME OutboxInvariant, StartRetry
    PROVE  Quiet /\ QuietPhases
<1>1. /\ retry' = [on |-> TRUE, rows |-> {i \in Intents : Open(i)}]
      /\ UNCHANGED <<row, dispatcher, sent>>
  BY DEF StartRetry
<1>2. /\ retry' \in [on : BOOLEAN, rows : SUBSET Intents]
      /\ \A i \in retry'.rows : row[i].state # "absent"
  BY <1>1 DEF Open
<1>3. dispatcher' \in [Dispatchers -> {Idle} \cup Held]
  BY <1>1 DEF OutboxInvariant, Types
<1> QED
  BY <1>1, <1>2, <1>3, SameRows DEF Quiet

LEMMA CommitRetryIsQuiet ==
    ASSUME OutboxInvariant, CommitRetry
    PROVE  Quiet /\ QuietPhases
<1>1. /\ retry' = NotRetrying
      /\ row' = [i \in Intents |-> IF i \in retry.rows THEN Ended(i, "suppressed") ELSE row[i]]
      /\ UNCHANGED <<dispatcher, sent>>
  BY DEF CommitRetry
<1>2. /\ retry' \in [on : BOOLEAN, rows : SUBSET Intents]
      /\ \A i \in retry'.rows : row[i].state # "absent"
  BY <1>1 DEF NotRetrying
<1>3. dispatcher' \in [Dispatchers -> {Idle} \cup Held]
  BY <1>1 DEF OutboxInvariant, Types
<1>4. ASSUME NEW i \in Intents
      PROVE  /\ Ended(i, "suppressed") \in Rows
             /\ Ended(i, "suppressed").state = "suppressed"
             /\ Ended(i, "suppressed").attempts = row[i].attempts
  BY RowFields DEF Ended, Rows, States
<1>5. row' \in [Intents -> Rows]
  BY <1>1, <1>4 DEF OutboxInvariant, Types
<1>6. ASSUME NEW i \in Intents
      PROVE  /\ row'[i].attempts = row[i].attempts
             /\ row'[i].state = "absent" => row[i].state = "absent"
  BY <1>1, <1>4
<1>7. ASSUME NEW i \in Intents
      PROVE  \/ row'[i] = row[i]
             \/ row[i].state # "absent" /\ row'[i].state = "suppressed"
  BY <1>1, <1>4 DEF OutboxInvariant, RetrySound
<1>8. QuietPhases
  BY <1>7, RowFields DEF QuietPhases, Phase, States
<1> QED
  BY <1>1, <1>2, <1>3, <1>5, <1>6, <1>8 DEF Quiet

LEMMA SuppressAtClaimIsQuiet ==
    ASSUME OutboxInvariant, NEW d \in Dispatchers, NEW i \in Intents, SuppressAtClaim(d, i)
    PROVE  Quiet /\ QuietPhases
<1>1. /\ row' = [row EXCEPT ![i] = [state |-> "suppressed", attempts |-> row[i].attempts,
                                    due |-> row[i].due, lapsed |-> FALSE]]
      /\ UNCHANGED <<sent, dispatcher, retry>>
  BY DEF SuppressAtClaim, Ended
<1>2. Phase(row[i].state) = "open" /\ Phase("suppressed") = "settled"
  BY DEF SuppressAtClaim, Eligible, Phase
<1> QED
  BY <1>1, <1>2, OneRow, RowFields, SameHolders DEF Quiet, States

LEMMA CompleteIsQuiet ==
    ASSUME OutboxInvariant, NEW d \in Dispatchers, Complete(d)
    PROVE  Quiet /\ QuietPhases
<1> DEFINE i == dispatcher[d].intent
<1>1. /\ dispatcher' = [dispatcher EXCEPT ![d] = Idle]
      /\ UNCHANGED <<sent, retry>>
      /\ row' = IF HoldsClaim(d) THEN [row EXCEPT ![i] = Completed(i, dispatcher[d].result)]
                ELSE row
      /\ i \in Intents
  BY TransmittersHoldIntents DEF Complete
<1>2. CASE ~HoldsClaim(d)
  BY <1>1, <1>2, SameRows, OneRests DEF Quiet
<1>3. CASE HoldsClaim(d)
  <2>1. Phase(row[i].state) = "open"
    BY <1>3 DEF HoldsClaim, Phase
  <2>2. PICK state \in {"delivered", "suppressed", "failed"} :
           Completed(i, dispatcher[d].result)
             = [state |-> state, attempts |-> row[i].attempts, due |-> row[i].due,
                lapsed |-> FALSE]
    BY DEF Completed, Ended
  <2>3. state \in States \ {"absent"} /\ Phase(state) \in {"open", "settled"}
    BY DEF States, Phase
  <2> QED
    BY <1>1, <1>3, <2>1, <2>2, <2>3, OneRow, RowFields, OneRests DEF Quiet
<1> QED
  BY <1>2, <1>3

LEMMA CrashIsQuiet ==
    ASSUME OutboxInvariant, NEW d \in Dispatchers, Crash(d)
    PROVE  Quiet /\ QuietPhases
BY SameRows, OneRests DEF Crash, Quiet

LEMMA ClaimLapsesIsQuiet ==
    ASSUME OutboxInvariant, NEW i \in Intents, ClaimLapses(i)
    PROVE  Quiet /\ QuietPhases
<1>1. /\ row' = [row EXCEPT ![i] = [state |-> "claimed", attempts |-> row[i].attempts,
                                    due |-> row[i].due, lapsed |-> TRUE]]
      /\ row[i].state = "claimed"
      /\ UNCHANGED <<sent, dispatcher, retry>>
  BY DEF ClaimLapses
<1>2. Phase("claimed") = "open"
  BY DEF Phase
<1> QED
  BY <1>1, <1>2, OneRow, RowFields, SameHolders DEF Quiet, States

LEMMA BackoffPassesIsQuiet ==
    ASSUME OutboxInvariant, NEW i \in Intents, BackoffPasses(i)
    PROVE  Quiet /\ QuietPhases
<1>1. /\ row' = [row EXCEPT ![i] = [state |-> "failed", attempts |-> row[i].attempts,
                                    due |-> TRUE, lapsed |-> FALSE]]
      /\ row[i].state = "failed"
      /\ UNCHANGED <<sent, dispatcher, retry>>
  BY DEF BackoffPasses
<1>2. Phase("failed") = "open"
  BY DEF Phase
<1> QED
  BY <1>1, <1>2, OneRow, SameHolders DEF Quiet, States

(***************************************************************************)
(* A claim.                                                                *)
(***************************************************************************)

\* What a claim finds and leaves.
ClaimEffect(d, i) ==
    /\ row[i].state \in {"pending", "failed", "claimed"} /\ row[i].attempts < MaxSends
    /\ row'[i] = [state |-> "claimed", attempts |-> row[i].attempts + 1,
                  due |-> FALSE, lapsed |-> FALSE]
    /\ \A j \in Intents : j # i => row'[j] = row[j]
    /\ row' \in [Intents -> Rows]
    /\ dispatcher'[d] = [pc |-> "transmitting", intent |-> i, token |-> row[i].attempts + 1]
    /\ \A e \in Dispatchers : e # d => dispatcher'[e] = dispatcher[e]
    /\ dispatcher' \in [Dispatchers -> {Idle} \cup Held]
    /\ UNCHANGED <<sent, retry>>

LEMMA ClaimWrites ==
    ASSUME OutboxInvariant, NEW d \in Dispatchers, NEW i \in Intents, Claim(d, i)
    PROVE  ClaimEffect(d, i)
<1>1. row[i].attempts \in Nat /\ MaxSends \in Nat
  BY RowFields, NotificationAssumption
<1>2. row[i].state \in {"pending", "failed", "claimed"} /\ row[i].attempts < MaxSends
  BY <1>1 DEF Claim, Eligible, Exhausted
<1> DEFINE new == [state |-> "claimed", attempts |-> row[i].attempts + 1,
                   due |-> FALSE, lapsed |-> FALSE]
           hold == [pc |-> "transmitting", intent |-> i, token |-> row[i].attempts + 1]
<1>3. /\ row' = [row EXCEPT ![i] = new] /\ dispatcher' = [dispatcher EXCEPT ![d] = hold]
      /\ UNCHANGED <<sent, retry>>
  BY DEF Claim
<1>4. row \in [Intents -> Rows] /\ dispatcher \in [Dispatchers -> {Idle} \cup Held]
  BY DEF OutboxInvariant, Types
<1>5. new \in Rows /\ hold \in Held
  BY <1>1 DEF Rows, States, Held
<1> HIDE DEF new, hold
<1>6. row'[i] = new /\ dispatcher'[d] = hold
  BY <1>3, <1>4
<1>7. row' \in [Intents -> Rows] /\ dispatcher' \in [Dispatchers -> {Idle} \cup Held]
  BY <1>3, <1>4, <1>5
<1>8. /\ \A j \in Intents : j # i => row'[j] = row[j]
      /\ \A e \in Dispatchers : e # d => dispatcher'[e] = dispatcher[e]
  BY <1>3, <1>4
<1> QED
  BY <1>2, <1>3, <1>6, <1>7, <1>8 DEF new, hold, ClaimEffect

LEMMA ClaimKeepsInvariant ==
    ASSUME OutboxInvariant, NEW d \in Dispatchers, NEW i \in Intents, Claim(d, i)
    PROVE  OutboxInvariant'
<1>0. ClaimEffect(d, i)
  BY ClaimWrites
<1>1. row[i].attempts \in Nat /\ MaxSends \in Nat /\ sent[i] \subseteq 1..row[i].attempts
  BY RowFields, NotificationAssumption
<1>2. Types'
  BY <1>0 DEF ClaimEffect, OutboxInvariant, Types
<1>3. ASSUME NEW j \in Intents PROVE RowSound(j)'
  <2>1. CASE j = i
    BY <1>0, <1>1, <2>1 DEF RowSound, ClaimEffect
  <2>2. CASE j # i
    BY <1>0, <2>2 DEF RowSound, OutboxInvariant, ClaimEffect
  <2> QED
    BY <2>1, <2>2
<1>4. ASSUME NEW e \in Dispatchers PROVE TokenFresh(e)'
  <2>1. CASE e = d
    BY <1>0, <1>1, <2>1 DEF TokenFresh, ClaimEffect
  <2>2. CASE e # d /\ dispatcher[e].pc = "transmitting"
    <3>1. /\ dispatcher[e].intent \in Intents
          /\ dispatcher[e].token \in 1..row[dispatcher[e].intent].attempts
          /\ dispatcher[e].token \notin sent[dispatcher[e].intent]
      BY <2>2, TransmittersHoldIntents DEF OutboxInvariant, TokenFresh
    <3>2. dispatcher[e].token \in 1..row'[dispatcher[e].intent].attempts
      BY <1>0, <1>1, <3>1 DEF ClaimEffect
    <3> QED
      BY <1>0, <2>2, <3>1, <3>2 DEF TokenFresh, ClaimEffect
  <2>3. CASE e # d /\ dispatcher[e].pc # "transmitting"
    BY <1>0, <2>3 DEF TokenFresh, ClaimEffect
  <2> QED
    BY <2>1, <2>2, <2>3
<1>5. ASSUME NEW e \in Dispatchers, NEW f \in Dispatchers PROVE TokensDiffer(e, f)'
  <2>1. ASSUME NEW g \in Dispatchers, g # d, dispatcher[g].pc = "transmitting",
               dispatcher[g].intent = i
        PROVE  dispatcher[g].token # row[i].attempts + 1
    <3>1. dispatcher[g].token \in 1..row[i].attempts
      BY <2>1 DEF OutboxInvariant, TokenFresh
    <3> QED
      BY <1>1, <3>1
  <2>2. CASE e # d /\ f # d
    BY <1>0, <2>2 DEF OutboxInvariant, TokensDiffer, ClaimEffect
  <2>3. CASE e = d \/ f = d
    BY <1>0, <2>1, <2>3 DEF TokensDiffer, ClaimEffect
  <2> QED
    BY <2>2, <2>3
<1>6. RetrySound'
  BY <1>0 DEF OutboxInvariant, RetrySound, Types, ClaimEffect
<1> QED
  BY <1>2, <1>3, <1>4, <1>5, <1>6 DEF OutboxInvariant

LEMMA ClaimRefines ==
    ASSUME OutboxInvariant, OutboxInvariant', NEW d \in Dispatchers, NEW i \in Intents,
           Claim(d, i)
    PROVE  Abstract!Next
<1>0. ClaimEffect(d, i)
  BY ClaimWrites
<1> SUFFICES ASSUME NEW j \in Intents
             PROVE  Message(j)' = Message(j) \/ Abstract!Advances(Message(j), Message(j)')
  BY OneMessageAtATime
<1>1. CASE j # i
  BY <1>0, <1>1 DEF Message, Open, ClaimEffect
<1>2. CASE j = i
  <2>1. Message(i) = [phase |-> "open", claims |-> row[i].attempts, sent |-> sent[i]]
    BY <1>0 DEF Message, Open, ClaimEffect
  <2>2. Message(i)' = [phase |-> "open", claims |-> row[i].attempts + 1, sent |-> sent[i]]
    BY <1>0 DEF Message, Open, ClaimEffect
  <2>3. Abstract!Claims(Message(i), Message(i)')
    BY <1>0, <2>1, <2>2 DEF Abstract!Claims, ClaimEffect
  <2> QED
    BY <1>2, <2>3 DEF Abstract!Advances
<1> QED
  BY <1>1, <1>2

(***************************************************************************)
(* A transmission.                                                         *)
(***************************************************************************)

LEMMA TransmitWrites ==
    ASSUME OutboxInvariant, NEW d \in Dispatchers, Transmit(d)
    PROVE  /\ dispatcher[d].pc = "transmitting" /\ dispatcher[d].intent \in Intents
           /\ dispatcher[d].token \in Nat
           /\ dispatcher'[d].pc = "completing"
           /\ \A e \in Dispatchers : e # d => dispatcher'[e] = dispatcher[e]
           /\ dispatcher' \in [Dispatchers -> {Idle} \cup Held]
           /\ sent' = [sent EXCEPT ![dispatcher[d].intent] =
                          sent[dispatcher[d].intent] \cup {dispatcher[d].token}]
           /\ UNCHANGED <<row, retry>>
<1> DEFINE i == dispatcher[d].intent
<1>1. /\ dispatcher[d].pc = "transmitting" /\ i \in Intents /\ dispatcher[d].token \in Nat
      /\ UNCHANGED <<row, retry>>
  BY TransmittersHoldIntents DEF Transmit
<1>2. PICK result \in Result :
         /\ dispatcher' = [dispatcher EXCEPT
               ![d] = [pc |-> "completing", intent |-> i, token |-> dispatcher[d].token,
                       result |-> result]]
         /\ sent' = [sent EXCEPT ![i] = sent[i] \cup {dispatcher[d].token}]
  BY DEF Transmit
<1>3. [pc |-> "completing", intent |-> i, token |-> dispatcher[d].token, result |-> result]
        \in Held
  BY <1>1 DEF Held
<1>4. dispatcher \in [Dispatchers -> {Idle} \cup Held]
  BY DEF OutboxInvariant, Types
<1> QED
  BY <1>1, <1>2, <1>3, <1>4

LEMMA TransmitKeepsInvariant ==
    ASSUME OutboxInvariant, NEW d \in Dispatchers, Transmit(d)
    PROVE  OutboxInvariant'
<1> DEFINE i == dispatcher[d].intent
           token == dispatcher[d].token
<1>1. sent \in [Intents -> SUBSET Nat] /\ token \in 1..row[i].attempts
  BY TransmitWrites DEF OutboxInvariant, Types, TokenFresh
<1>2. /\ sent'[i] = sent[i] \cup {token} /\ sent' \in [Intents -> SUBSET Nat]
      /\ \A j \in Intents : j # i => sent'[j] = sent[j]
  BY TransmitWrites, <1>1
<1>3. Types'
  BY TransmitWrites, <1>2 DEF OutboxInvariant, Types
<1>4. ASSUME NEW j \in Intents PROVE RowSound(j)'
  <2>1. row' = row /\ RowSound(j)
    BY TransmitWrites DEF OutboxInvariant
  <2>2. CASE j = i
    BY <1>1, <1>2, <2>1, <2>2 DEF RowSound
  <2>3. CASE j # i
    BY <1>2, <2>1, <2>3 DEF RowSound
  <2> QED
    BY <2>2, <2>3
<1>5. ASSUME NEW e \in Dispatchers, dispatcher'[e].pc = "transmitting"
      PROVE  e # d /\ dispatcher'[e] = dispatcher[e]
  BY TransmitWrites, <1>5
<1>6. ASSUME NEW e \in Dispatchers PROVE TokenFresh(e)'
  <2> SUFFICES ASSUME dispatcher'[e].pc = "transmitting"
               PROVE  /\ dispatcher'[e].token \in 1..row'[dispatcher'[e].intent].attempts
                      /\ dispatcher'[e].token \notin sent'[dispatcher'[e].intent]
    BY DEF TokenFresh
  <2>1. e # d /\ dispatcher'[e] = dispatcher[e] /\ dispatcher[e].intent \in Intents
    BY <1>5, TransmittersHoldIntents
  <2>2. /\ dispatcher[e].token \in 1..row[dispatcher[e].intent].attempts
        /\ dispatcher[e].token \notin sent[dispatcher[e].intent]
    BY <2>1 DEF OutboxInvariant, TokenFresh
  <2>3. dispatcher[e].intent = i => dispatcher[e].token # token
    BY <2>1, TransmitWrites DEF OutboxInvariant, TokensDiffer
  <2> QED
    BY <1>2, <2>1, <2>2, <2>3, TransmitWrites
<1>7. ASSUME NEW e \in Dispatchers, NEW f \in Dispatchers PROVE TokensDiffer(e, f)'
  BY <1>5 DEF OutboxInvariant, TokensDiffer
<1>8. RetrySound'
  BY TransmitWrites DEF OutboxInvariant, RetrySound
<1> QED
  BY <1>3, <1>4, <1>6, <1>7, <1>8 DEF OutboxInvariant

LEMMA TransmitRefines ==
    ASSUME OutboxInvariant, OutboxInvariant', NEW d \in Dispatchers, Transmit(d)
    PROVE  Abstract!Next
<1> DEFINE i == dispatcher[d].intent
           token == dispatcher[d].token
<1> SUFFICES ASSUME NEW j \in Intents
             PROVE  Message(j)' = Message(j) \/ Abstract!Advances(Message(j), Message(j)')
  BY OneMessageAtATime
<1>1. token \in 1..row[i].attempts \ sent[i] /\ sent \in [Intents -> SUBSET Nat]
  BY TransmitWrites DEF OutboxInvariant, TokenFresh, Types
<1>2. sent'[i] = sent[i] \cup {token} /\ \A k \in Intents : k # i => sent'[k] = sent[k]
  BY TransmitWrites, <1>1
<1>3. Message(j) = [phase |-> Phase(row[j].state), claims |-> row[j].attempts, sent |-> sent[j]]
  BY MessageOfRow
<1>4. Message(j)' = [phase |-> Phase(row[j].state), claims |-> row[j].attempts,
                     sent |-> sent'[j]]
  BY TransmitWrites DEF Message, Phase, Open
<1>5. CASE j # i
  BY <1>2, <1>3, <1>4, <1>5
<1>6. CASE j = i
  <2> DEFINE b == [phase |-> Phase(row[i].state), claims |-> row[i].attempts, sent |-> sent[i]]
             c == [phase |-> Phase(row[i].state), claims |-> row[i].attempts,
                   sent |-> sent[i] \cup {token}]
  <2>1. b.phase = Phase(row[i].state) /\ b.claims = row[i].attempts /\ b.sent = sent[i]
    OBVIOUS
  <2>2. c = [phase |-> b.phase, claims |-> b.claims, sent |-> b.sent \cup {token}]
    BY <2>1
  <2>3. token \in 1..b.claims \ b.sent
    BY <1>1, <2>1
  <2>4. Abstract!Transmits(b, c)
    BY <2>2, <2>3 DEF Abstract!Transmits
  <2>5. Message(j) = b /\ Message(j)' = c
    BY <1>2, <1>3, <1>4, <1>6
  <2> QED
    BY <2>4, <2>5 DEF Abstract!Advances
<1> QED
  BY <1>5, <1>6

(***************************************************************************)
(* The theorems.                                                           *)
(***************************************************************************)

\* Every step keeps the invariant and is one of the outbox, or none.
LEMMA StepsRefine ==
    OutboxInvariant /\ [Next]_vars => OutboxInvariant' /\ [Abstract!Next]_MessageBox
<1> SUFFICES ASSUME OutboxInvariant, [Next]_vars
             PROVE  OutboxInvariant' /\ [Abstract!Next]_MessageBox
  OBVIOUS
<1>1. ASSUME Quiet, QuietPhases PROVE OutboxInvariant' /\ Abstract!Next
  BY <1>1, QuietKeepsInvariant, QuietRefines
<1>2. CASE UNCHANGED vars
  <2>1. OutboxInvariant'
    BY <1>2 DEF vars, OutboxInvariant, Types, RowSound, TokenFresh, TokensDiffer, RetrySound
  <2>2. MessageBox' = MessageBox
    BY <1>2 DEF vars, MessageBox, Message, Open
  <2> QED
    BY <2>1, <2>2
<1>3. CASE Finish \/ Reconcile
  BY <1>1, <1>3, EndJobIsQuiet DEF Finish, Reconcile
<1>4. CASE StartRetry
  BY <1>1, <1>4, StartRetryIsQuiet
<1>5. CASE CommitRetry
  BY <1>1, <1>5, CommitRetryIsQuiet
<1>6. ASSUME NEW to \in Destinations, ChangePreference(to)
      PROVE  OutboxInvariant' /\ Abstract!Next
  <2>1. row' = row /\ UNCHANGED <<sent, dispatcher, retry>>
    BY <1>6 DEF ChangePreference
  <2>2. Quiet /\ QuietPhases
    BY <2>1, SameRows, SameHolders DEF Quiet
  <2> QED
    BY <1>1, <2>2
<1>7. ASSUME NEW d \in Dispatchers, Dispatch(d) \/ Crash(d)
      PROVE  OutboxInvariant' /\ Abstract!Next
  <2>1. ASSUME NEW i \in Intents, SuppressAtClaim(d, i) PROVE OutboxInvariant' /\ Abstract!Next
    BY <1>1, <2>1, SuppressAtClaimIsQuiet
  <2>2. ASSUME NEW i \in Intents, Claim(d, i) PROVE OutboxInvariant' /\ Abstract!Next
    BY <2>2, ClaimKeepsInvariant, ClaimRefines
  <2>3. CASE Transmit(d)
    BY <2>3, TransmitKeepsInvariant, TransmitRefines
  <2>4. CASE Complete(d)
    BY <1>1, <2>4, CompleteIsQuiet
  <2>5. CASE Crash(d)
    BY <1>1, <2>5, CrashIsQuiet
  <2> QED
    BY <1>7, <2>1, <2>2, <2>3, <2>4, <2>5 DEF Dispatch
<1>8. ASSUME NEW i \in Intents, ClaimLapses(i) \/ BackoffPasses(i)
      PROVE  OutboxInvariant' /\ Abstract!Next
  BY <1>1, <1>8, ClaimLapsesIsQuiet, BackoffPassesIsQuiet
<1> QED
  BY <1>2, <1>3, <1>4, <1>5, <1>6, <1>7, <1>8 DEF Next

\* The inductive invariant: rows stay within their attempts, and two dispatchers
\* that are about to transmit hold different claims.
THEOREM OutboxInvariantHolds == Spec => []OutboxInvariant
<1> QED
  BY InitInvariant, StepsRefine, PTL DEF Spec

LEMMA InitRefines == Init => Abstract!Init
<1> SUFFICES ASSUME Init PROVE MessageBox = [i \in Intents |->
                               [phase |-> "absent", claims |-> 0, sent |-> {}]]
  BY DEF Abstract!Init
<1>1. ASSUME NEW i \in Intents
      PROVE  Message(i) = [phase |-> "absent", claims |-> 0, sent |-> {}]
  BY DEF Init, Message, Absent
<1> QED
  BY <1>1 DEF MessageBox

\* The notification rows implement an outbox: whatever crashes, stalls, timeouts
\* and unlocked suppressions come in between, a message is opened once, every
\* transmission has a claim of its own, claims are bounded and a settled message
\* is never claimed again.
THEOREM ImplementsOutboxHolds == Spec => ImplementsOutbox
<1> QED
  BY InitRefines, OutboxInvariantHolds, StepsRefine, PTL
     DEF Spec, ImplementsOutbox, Abstract!Spec

(***************************************************************************)
(* What the outbox promises, of the notification rows.                     *)
(***************************************************************************)

\* A message is transmitted at most once per claim, and claimed a bounded number
\* of times, whatever stalls, crashes and timeouts made the dispatchers claim it
\* again (job_notifications.py:330-409, :546-592).
THEOREM TransmissionsAreBoundedHolds == Spec => []Abstract!TransmissionsAreBounded
<1>1. OutboxInvariant => Abstract!TransmissionsAreBounded
  <2> SUFFICES ASSUME OutboxInvariant, NEW i \in Intents
               PROVE  /\ MessageBox[i].claims <= MaxSends
                      /\ MessageBox[i].sent \subseteq 1..MessageBox[i].claims
    BY DEF Abstract!TransmissionsAreBounded
  <2>1. MessageBox[i].claims = row[i].attempts /\ MessageBox[i].sent = sent[i]
    BY DEF MessageBox, Message
  <2> QED
    BY <2>1, RowFields
<1> QED
  BY <1>1, OutboxInvariantHolds, PTL

\* One message of an outbox: settled, it is settled for good.
LEMMA AdvancesKeepSettled ==
    ASSUME NEW b, NEW c, Abstract!Advances(b, c), b.phase = "settled"
    PROVE  c.phase = "settled" /\ c.claims = b.claims
<1>1. Abstract!Transmits(b, c)
  BY DEF Abstract!Advances, Abstract!Opens, Abstract!Claims, Abstract!Settles
<1>2. PICK claim \in 1..b.claims \ b.sent :
         c = [phase |-> b.phase, claims |-> b.claims, sent |-> b.sent \cup {claim}]
  BY <1>1 DEF Abstract!Transmits
<1> QED
  BY <1>2

\* A message that was delivered, given up or suppressed is never claimed again,
\* also when the unlocked suppression of a retry overwrote a claim
\* (job_notifications.py:205-245, :330-349).
THEOREM SettledIsFinalHolds == Spec => Abstract!SettledIsFinal
<1>1. [Abstract!Next]_MessageBox => [Abstract!StaysSettled]_MessageBox
  BY AdvancesKeepSettled DEF Abstract!Next, Abstract!StaysSettled
<1> QED
  BY <1>1, ImplementsOutboxHolds, PTL DEF ImplementsOutbox, Abstract!Spec, Abstract!SettledIsFinal

(***************************************************************************)
(* News is not dropped.                                                    *)
(***************************************************************************)

\* A row tells of an attempt that came to its end, and of its outcome.
Told(i) ==
    row[i].state # "absent" =>
        /\ i.attempt <= job.attempt
        /\ i.attempt = job.attempt =>
              job.status # "running" /\ (i.outcome = "completed" => job.status = "completed")

\* The inductive invariant: no row is ahead of its job, a retry holds a failed job
\* that has an attempt left, and what is not wanted was dropped.
NewsInvariant ==
    /\ OutboxInvariant
    /\ job \in [status : {"running", "failed", "completed"}, attempt : 1..MaxAttempts]
    /\ wanted \subseteq Destinations /\ dropped \subseteq Destinations
    /\ Destinations \subseteq wanted \cup dropped
    /\ retry.on => job.status = "failed" /\ job.attempt < MaxAttempts
    /\ \A i \in Intents : Told(i)
    /\ NewsIsNotDropped

LEMMA InitNews == Init => NewsInvariant
<1> SUFFICES ASSUME Init PROVE NewsInvariant
  OBVIOUS
<1>1. ASSUME NEW i \in Intents PROVE row[i].state = "absent"
  BY DEF Init, Absent
<1> QED
  BY <1>1, InitInvariant, NotificationAssumption
     DEF Init, NewsInvariant, Told, NewsIsNotDropped, NotRetrying

LEMMA IntentAttempt == \A i \in Intents : i.attempt \in 1..MaxAttempts /\ i.attempt \in Nat
BY NotificationAssumption DEF Intents

\* A transaction that leaves the job, the retry and the preferences alone, and
\* suppresses only what was tried to the end or is not wanted.
LEMMA RowsKeepNews ==
    ASSUME NewsInvariant, OutboxInvariant', UNCHANGED <<job, retry, wanted, dropped>>,
           \A i \in Intents :
              \/ row'[i] = row[i]
              \/ /\ row[i].state # "absent"
                 /\ row'[i].state = "suppressed" =>
                       ~Valid(i) \/ row'[i].attempts = MaxSends
    PROVE  NewsInvariant'
<1>1. \A i \in Intents : Told(i)'
  BY DEF NewsInvariant, Told
<1>2. ASSUME NEW i \in Intents, Current(i), row'[i].state = "suppressed"
      PROVE  row'[i].attempts = MaxSends \/ i.to \in dropped
  BY <1>2, IntentFields DEF NewsInvariant, NewsIsNotDropped, Valid
<1>3. NewsIsNotDropped'
  BY <1>2 DEF NewsIsNotDropped, Current
<1> QED
  BY <1>1, <1>3 DEF NewsInvariant

\* The end of an attempt: what it tells is not there before.
LEMMA EndJobKeepsNews ==
    ASSUME NewsInvariant, OutboxInvariant', NEW outcome \in {"failed", "completed"},
           EndJob(outcome), ~retry.on,
           job.status = "running" \/ (job.status = "failed" /\ outcome = "completed")
    PROVE  NewsInvariant'
<1>1. /\ job' = [job EXCEPT !.status = outcome] /\ row' = Ensured(outcome)
      /\ UNCHANGED <<wanted, retry, dropped>>
  BY DEF EndJob
<1>2. job'.status = outcome /\ job'.attempt = job.attempt
  BY <1>1 DEF NewsInvariant
<1>3. ASSUME NEW i \in Intents
      PROVE  \/ row'[i] = row[i]
             \/ /\ i.outcome = outcome /\ i.attempt = job.attempt
                /\ row'[i] = Pending
  BY <1>1 DEF Ensured
<1>4. ASSUME NEW i \in Intents PROVE Told(i)'
  <2>1. Told(i) /\ i.attempt \in Nat /\ job.attempt \in Nat
    BY IntentAttempt, NotificationAssumption DEF NewsInvariant
  <2> QED
    BY <1>2, <1>3, <2>1 DEF Told
<1>5. ASSUME NEW i \in Intents, i.outcome = outcome, i.attempt = job.attempt
      PROVE  row'[i].state # "suppressed"
  <2>1. row[i].state = "absent"
    BY <1>5 DEF NewsInvariant, Told
  <2> QED
    BY <1>3, <2>1 DEF Pending
<1>6. NewsIsNotDropped'
  BY <1>2, <1>5 DEF NewsIsNotDropped, Current
<1>7. job' \in [status : {"running", "failed", "completed"}, attempt : 1..MaxAttempts]
  BY <1>1 DEF NewsInvariant
<1> QED
  BY <1>1, <1>4, <1>6, <1>7 DEF NewsInvariant

\* The commit of a retry: no row tells of the attempt it begins.
LEMMA CommitRetryKeepsNews ==
    ASSUME NewsInvariant, OutboxInvariant', CommitRetry
    PROVE  NewsInvariant'
<1>1. /\ retry' = NotRetrying /\ UNCHANGED <<wanted, dropped>>
      /\ row' = [i \in Intents |-> IF i \in retry.rows THEN Ended(i, "suppressed") ELSE row[i]]
      /\ job' = [status |-> "running", attempt |-> job.attempt + 1]
  BY DEF CommitRetry
<1>2. job.attempt \in Nat /\ job.attempt + 1 \in 1..MaxAttempts
  BY NotificationAssumption DEF NewsInvariant, CommitRetry
<1>3. ASSUME NEW i \in Intents PROVE row'[i].state # "absent" => row[i].state # "absent"
  BY <1>1 DEF NewsInvariant, OutboxInvariant, RetrySound
<1>4. ASSUME NEW i \in Intents PROVE Told(i)'
  <2>1. Told(i) /\ i.attempt \in Nat
    BY IntentAttempt DEF NewsInvariant
  <2> QED
    BY <1>1, <1>2, <1>3, <2>1 DEF Told
<1>5. \A i \in Intents : ~Current(i)'
  BY <1>1, IntentFields DEF Current
<1> QED
  BY <1>1, <1>2, <1>4, <1>5 DEF NewsInvariant, NewsIsNotDropped, NotRetrying

LEMMA NextKeepsNews == NewsInvariant /\ [Next]_vars => NewsInvariant'
<1> SUFFICES ASSUME NewsInvariant, [Next]_vars PROVE NewsInvariant'
  OBVIOUS
<1>0. OutboxInvariant /\ OutboxInvariant'
  BY StepsRefine DEF NewsInvariant
<1>1. CASE UNCHANGED vars
  BY <1>0, <1>1, RowsKeepNews DEF vars
<1>2. CASE Finish \/ Reconcile
  <2>1. job.status = "running" => ~retry.on
    BY DEF NewsInvariant
  <2>2. PICK outcome \in {"failed", "completed"} :
          /\ EndJob(outcome) /\ ~retry.on
          /\ job.status = "running" \/ (job.status = "failed" /\ outcome = "completed")
    BY <1>2, <2>1 DEF Finish, Reconcile
  <2> QED
    BY <1>0, <2>2, EndJobKeepsNews
<1>3. CASE StartRetry
  <2>1. UNCHANGED <<job, row, wanted, dropped>> /\ job.status = "failed" /\ job.attempt < MaxAttempts
    BY <1>3 DEF StartRetry
  <2> QED
    BY <1>0, <2>1 DEF NewsInvariant, NewsIsNotDropped, Told, Current
<1>4. CASE CommitRetry
  BY <1>0, <1>4, CommitRetryKeepsNews
<1>5. ASSUME NEW to \in Destinations, ChangePreference(to) PROVE NewsInvariant'
  <2>1. /\ UNCHANGED <<job, row, retry>>
        /\ wanted' \subseteq Destinations /\ dropped' \subseteq Destinations
        /\ dropped \subseteq dropped' /\ Destinations \subseteq wanted' \cup dropped'
    BY <1>5 DEF ChangePreference, NewsInvariant
  <2> QED
    BY <1>0, <2>1 DEF NewsInvariant, NewsIsNotDropped, Told, Current
<1>6. ASSUME NEW d \in Dispatchers, NEW i \in Intents, SuppressAtClaim(d, i) PROVE NewsInvariant'
  <2>1. row[i].attempts <= MaxSends /\ row[i].attempts \in Nat /\ MaxSends \in Nat
    BY <1>0, RowFields, NotificationAssumption
  <2>2. /\ UNCHANGED <<job, retry, wanted, dropped>>
        /\ row[i].state # "absent" /\ (~Valid(i) \/ row[i].attempts = MaxSends)
        /\ row' = [row EXCEPT ![i] = Ended(i, "suppressed")]
    BY <1>6, <2>1 DEF SuppressAtClaim, Eligible, Exhausted
  <2>3. ASSUME NEW j \in Intents
        PROVE  row'[j] = row[j] \/ (j = i /\ row'[j].attempts = row[j].attempts)
    BY <1>0, <2>2 DEF OutboxInvariant, Types, Ended
  <2> QED
    BY <1>0, <2>2, <2>3, RowsKeepNews
<1>7. ASSUME NEW d \in Dispatchers, NEW i \in Intents, Claim(d, i) PROVE NewsInvariant'
  <2>1. ClaimEffect(d, i) /\ UNCHANGED <<job, wanted, dropped>>
    BY <1>0, <1>7, ClaimWrites DEF Claim
  <2> QED
    BY <1>0, <2>1, RowsKeepNews DEF ClaimEffect
<1>8. ASSUME NEW d \in Dispatchers, Transmit(d) PROVE NewsInvariant'
  <2>1. UNCHANGED <<job, row, retry, wanted, dropped>>
    BY <1>8 DEF Transmit
  <2> QED
    BY <1>0, <2>1, RowsKeepNews
<1>9. ASSUME NEW d \in Dispatchers, Complete(d) PROVE NewsInvariant'
  <2> DEFINE i == dispatcher[d].intent
  <2>1. /\ UNCHANGED <<job, retry>> /\ i \in Intents
        /\ wanted' = IF HoldsClaim(d) /\ dispatcher[d].result = "gone" THEN wanted \ {i.to} ELSE wanted
        /\ dropped' = IF HoldsClaim(d) /\ dispatcher[d].result = "gone" THEN dropped \cup {i.to}
                      ELSE dropped
        /\ row' = IF HoldsClaim(d) THEN [row EXCEPT ![i] = Completed(i, dispatcher[d].result)]
                  ELSE row
    BY <1>0, <1>9, TransmittersHoldIntents DEF Complete
  <2>2. row[i].attempts <= MaxSends /\ row[i].attempts \in Nat /\ MaxSends \in Nat
    BY <1>0, <2>1, RowFields, NotificationAssumption
  <2>3. CASE ~HoldsClaim(d)
    BY <1>0, <2>1, <2>3, RowsKeepNews
  <2>4. CASE HoldsClaim(d)
    <3>1. row[i].state = "claimed"
      BY <2>4 DEF HoldsClaim
    <3>2. row \in [Intents -> Rows]
      BY <1>0 DEF OutboxInvariant, Types
    <3>3. /\ Completed(i, dispatcher[d].result).attempts = row[i].attempts
          /\ Completed(i, dispatcher[d].result).state # "absent"
          /\ Completed(i, dispatcher[d].result).state = "suppressed" =>
                dispatcher[d].result = "gone" \/ row[i].attempts = MaxSends
      BY <2>2 DEF Completed, Ended, GivesUp
    <3>4. \A j \in Intents : j # i => row'[j] = row[j]
      BY <2>1, <2>4, <3>2
    <3>5. row'[i] = Completed(i, dispatcher[d].result)
      BY <2>1, <2>4, <3>2
    <3>6. i.to \in Destinations
      BY <2>1, IntentFields
    <3>7. /\ wanted' \subseteq Destinations /\ dropped' \subseteq Destinations
          /\ dropped \subseteq dropped' /\ Destinations \subseteq wanted' \cup dropped'
          /\ dispatcher[d].result = "gone" => i.to \in dropped'
      BY <2>1, <2>4, <3>6 DEF NewsInvariant
    <3>8. ASSUME NEW j \in Intents, Current(j), row'[j].state = "suppressed"
          PROVE  row'[j].attempts = MaxSends \/ j.to \in dropped'
      <4>1. CASE j = i
        BY <3>3, <3>5, <3>7, <3>8, <4>1
      <4>2. CASE j # i
        BY <3>4, <3>7, <3>8, <4>2 DEF NewsInvariant, NewsIsNotDropped
      <4> QED
        BY <4>1, <4>2
    <3>9. NewsIsNotDropped'
      BY <2>1, <3>8 DEF NewsIsNotDropped, Current
    <3>10. ASSUME NEW j \in Intents PROVE Told(j)'
      BY <2>1, <3>1, <3>4 DEF NewsInvariant, Told
    <3> QED
      BY <1>0, <2>1, <3>7, <3>9, <3>10 DEF NewsInvariant
  <2> QED
    BY <2>3, <2>4
<1>10. ASSUME NEW d \in Dispatchers, Crash(d) PROVE NewsInvariant'
  <2>1. UNCHANGED <<job, row, retry, wanted, dropped>>
    BY <1>10 DEF Crash
  <2> QED
    BY <1>0, <2>1, RowsKeepNews
<1>11. ASSUME NEW i \in Intents, ClaimLapses(i) \/ BackoffPasses(i) PROVE NewsInvariant'
  <2>1. /\ UNCHANGED <<job, retry, wanted, dropped>> /\ row[i].state \in {"claimed", "failed"}
        /\ \E due, lapsed \in BOOLEAN :
              row' = [row EXCEPT ![i] = [state |-> row[i].state, attempts |-> row[i].attempts,
                                         due |-> due, lapsed |-> lapsed]]
    BY <1>0, <1>11, RowFields DEF ClaimLapses, BackoffPasses
  <2>2. \A j \in Intents : row'[j] = row[j] \/ (j = i /\ row'[j].state = row[j].state)
    BY <1>0, <2>1 DEF OutboxInvariant, Types
  <2> QED
    BY <1>0, <2>1, <2>2, RowsKeepNews
<1> QED
  BY <1>1, <1>2, <1>3, <1>4, <1>5, <1>6, <1>7, <1>8, <1>9, <1>10, <1>11 DEF Next, Dispatch

\* News that is still true is not dropped: the rows a retry suppresses tell of an
\* earlier attempt when the next one begins, and what a dispatcher suppresses was
\* tried to the end or is not wanted (job_notifications.py:260-284, :367-382).
THEOREM NewsIsNotDroppedHolds == Spec => []NewsIsNotDropped
<1>1. NewsInvariant => NewsIsNotDropped
  BY DEF NewsInvariant
<1> QED
  BY <1>1, InitNews, NextKeepsNews, PTL DEF Spec


(***************************************************************************)
(* Copies have a cause.                                                    *)
(***************************************************************************)

Busy(d) == dispatcher[d].pc # "idle"

\* The dispatchers that are about to transmit a message.
Senders(i) == {d \in Dispatchers : dispatcher[d].pc = "transmitting" /\ dispatcher[d].intent = i}

\* The copies beyond what interruptions excuse, those under way included.
Weight(i) == surplus[i] + Cardinality(Senders(i))

\* The holder of the current claim may still deliver, or has delivered.
MayDeliver(d, i) ==
    /\ Busy(d) /\ dispatcher[d].intent = i /\ dispatcher[d].token = row[i].attempts
    /\ dispatcher[d].pc = "transmitting" \/ dispatcher[d].result = "delivered"

\* No further claim follows without an interruption that is excused.
Promising(i) ==
    \/ row[i].state \in {"delivered", "suppressed"}
    \/ row[i].state = "claimed" /\ ~row[i].lapsed /\ \E d \in Dispatchers : MayDeliver(d, i)

Balanced(i) == Weight(i) <= 1 /\ (~Promising(i) => Weight(i) <= 0)

\* A dispatcher works for a claim of its own.
Numbered(d) == Busy(d) => dispatcher[d].token \in 1..row[dispatcher[d].intent].attempts

ClaimsDiffer(d, e) ==
    /\ Busy(d) /\ Busy(e) /\ dispatcher[d].intent = dispatcher[e].intent
    /\ dispatcher[d].token = dispatcher[e].token
    => d = e

\* The inductive invariant: whenever a message may be claimed anew, every copy of
\* it so far is excused, those under way included.
CopyInvariant ==
    /\ OutboxInvariant
    /\ surplus \in [Intents -> Int]
    /\ \A d \in Dispatchers : Numbered(d)
    /\ \A d, e \in Dispatchers : ClaimsDiffer(d, e)
    /\ \A i \in Intents : IsFiniteSet(Senders(i)) /\ Balanced(i)

LEMMA WeightTyped ==
    ASSUME CopyInvariant, NEW i \in Intents
    PROVE  surplus[i] \in Int /\ Cardinality(Senders(i)) \in Nat /\ Weight(i) \in Int
BY FS_CardinalityType DEF CopyInvariant, Weight

LEMMA InitCopies == Init => CopyInvariant
<1> SUFFICES ASSUME Init PROVE CopyInvariant
  OBVIOUS
<1>1. ASSUME NEW d \in Dispatchers PROVE dispatcher[d].pc = "idle"
  BY DEF Init, Idle
<1>2. ASSUME NEW i \in Intents PROVE Senders(i) = {} /\ surplus[i] = 0
  BY <1>1 DEF Senders, Init
<1>3. ASSUME NEW i \in Intents PROVE IsFiniteSet(Senders(i)) /\ Balanced(i)
  BY <1>2, FS_EmptySet DEF Balanced, Weight
<1> QED
  BY <1>1, <1>3, InitInvariant DEF Init, CopyInvariant, Numbered, ClaimsDiffer, Busy

\* A transaction that moves no dispatcher, reopens no row and claims none.
LEMMA RowsKeepCopies ==
    ASSUME CopyInvariant, OutboxInvariant', UNCHANGED <<surplus, dispatcher>>,
           \A i \in Intents :
              \/ row'[i] = row[i]
              \/ row'[i].attempts = row[i].attempts /\ (Promising(i) => Promising(i)')
    PROVE  CopyInvariant'
<1>1. ASSUME NEW i \in Intents PROVE Weight(i)' = Weight(i) /\ Senders(i)' = Senders(i)
  BY DEF Weight, Senders
<1>2. ASSUME NEW i \in Intents PROVE Promising(i) => Promising(i)'
  BY DEF Promising, MayDeliver, Busy
<1>3. ASSUME NEW d \in Dispatchers PROVE Numbered(d)'
  <2>1. Busy(d) => dispatcher[d].intent \in Intents
    BY TransmittersHoldIntents DEF CopyInvariant, Busy
  <2>2. Busy(d) => row'[dispatcher[d].intent].attempts = row[dispatcher[d].intent].attempts
    BY <2>1
  <2> QED
    BY <2>2 DEF CopyInvariant, Numbered, Busy
<1>4. ASSUME NEW i \in Intents PROVE (IsFiniteSet(Senders(i)) /\ Balanced(i))'
  BY <1>1, <1>2 DEF CopyInvariant, Balanced
<1> QED
  BY <1>3, <1>4 DEF CopyInvariant, ClaimsDiffer, Busy

\* A claim: no copy of the message is unexcused, and one is under way.
LEMMA ClaimKeepsCopies ==
    ASSUME CopyInvariant, OutboxInvariant', NEW d \in Dispatchers, NEW i \in Intents, Claim(d, i)
    PROVE  CopyInvariant'
<1>1. ClaimEffect(d, i) /\ surplus' = surplus /\ ~Busy(d)
  BY ClaimWrites DEF CopyInvariant, Claim, Busy
<1>2. row[i].attempts \in Nat
  BY RowFields DEF CopyInvariant
<1>3. ~Promising(i)
  BY DEF Claim, Eligible, Lapsed, Promising
<1>4. Senders(i)' = Senders(i) \cup {d} /\ d \notin Senders(i)
  BY <1>1 DEF Senders, ClaimEffect, Busy
<1>5. IsFiniteSet(Senders(i)') /\ Weight(i)' = Weight(i) + 1
  <2>1. /\ IsFiniteSet(Senders(i)) /\ surplus[i] \in Int /\ Cardinality(Senders(i)) \in Nat
    BY WeightTyped DEF CopyInvariant
  <2>2. IsFiniteSet(Senders(i)') /\ Cardinality(Senders(i)') = Cardinality(Senders(i)) + 1
    BY <1>4, <2>1, FS_AddElement
  <2> QED
    BY <1>1, <2>1, <2>2 DEF Weight
<1>6. Promising(i)'
  <2>1. MayDeliver(d, i)' /\ row'[i].state = "claimed" /\ ~row'[i].lapsed
    BY <1>1 DEF ClaimEffect, MayDeliver, Busy
  <2> QED
    BY <2>1 DEF Promising
<1>7. ASSUME NEW j \in Intents PROVE (IsFiniteSet(Senders(j)) /\ Balanced(j))'
  <2>1. CASE j = i
    BY <1>3, <1>5, <1>6, <2>1, WeightTyped DEF CopyInvariant, Balanced
  <2>2. CASE j # i
    <3>1. Senders(j)' = Senders(j) /\ row'[j] = row[j]
      BY <1>1, <2>2 DEF Senders, ClaimEffect, Busy
    <3>2. Weight(j)' = Weight(j)
      BY <1>1, <3>1 DEF Weight
    <3>3. Promising(j) => Promising(j)'
      BY <1>1, <3>1 DEF Promising, MayDeliver, ClaimEffect, Busy
    <3> QED
      BY <3>1, <3>2, <3>3 DEF CopyInvariant, Balanced
  <2> QED
    BY <2>1, <2>2
<1>8. ASSUME NEW e \in Dispatchers, e # d, Busy(e)
      PROVE  /\ dispatcher[e].intent \in Intents /\ dispatcher[e].token \in Nat
             /\ dispatcher[e].token <= row[dispatcher[e].intent].attempts
             /\ dispatcher[e].token >= 1
             /\ row[dispatcher[e].intent].attempts \in Nat
  BY <1>8, TransmittersHoldIntents, RowFields DEF CopyInvariant, Numbered, Busy
<1>9. ASSUME NEW e \in Dispatchers PROVE Numbered(e)'
  <2>1. CASE e = d
    BY <1>1, <1>2, <2>1 DEF Numbered, ClaimEffect
  <2>2. CASE e # d
    BY <1>1, <1>2, <1>8, <2>2 DEF Numbered, ClaimEffect, Busy
  <2> QED
    BY <2>1, <2>2
<1>10. ASSUME NEW e \in Dispatchers, NEW f \in Dispatchers PROVE ClaimsDiffer(e, f)'
  <2>1. CASE e # d /\ f # d
    BY <1>1, <2>1 DEF CopyInvariant, ClaimsDiffer, ClaimEffect, Busy
  <2>2. CASE e = d \/ f = d
    BY <1>1, <1>2, <1>8, <2>2 DEF ClaimsDiffer, ClaimEffect, Busy
  <2> QED
    BY <2>1, <2>2
<1> QED
  BY <1>1, <1>7, <1>9, <1>10 DEF CopyInvariant

\* What a dispatcher that transmits takes with it.
LEMMA SenderLeaves ==
    ASSUME CopyInvariant, NEW d \in Dispatchers, dispatcher[d].pc = "transmitting",
           NEW i \in Intents, dispatcher[d].intent = i,
           dispatcher'[d].pc # "transmitting",
           \A e \in Dispatchers : e # d => dispatcher'[e] = dispatcher[e]
    PROVE  /\ IsFiniteSet(Senders(i)')
           /\ Cardinality(Senders(i)') = Cardinality(Senders(i)) - 1
           /\ \A j \in Intents : j # i => Senders(j)' = Senders(j)
<1>2. Senders(i)' = Senders(i) \ {d} /\ d \in Senders(i)
  BY DEF Senders
<1>3. \A j \in Intents : j # i => Senders(j)' = Senders(j)
  BY DEF Senders
<1>4. IsFiniteSet(Senders(i))
  BY DEF CopyInvariant
<1> QED
  BY <1>2, <1>3, <1>4, FS_RemoveElement

\* A transmission: the copy that was under way arrives, or it does not.
LEMMA TransmitKeepsCopies ==
    ASSUME CopyInvariant, OutboxInvariant', NEW d \in Dispatchers, Transmit(d)
    PROVE  CopyInvariant'
<1>0. /\ dispatcher[d].intent \in Intents /\ dispatcher[d].token \in Nat
      /\ dispatcher[d].pc = "transmitting" /\ Busy(d)
  BY TransmitWrites DEF CopyInvariant, Busy
<1> PICK i \in Intents, token \in Nat :
         i = dispatcher[d].intent /\ token = dispatcher[d].token
  BY <1>0
<1>1. /\ i \in Intents /\ token \in Nat /\ dispatcher[d].pc = "transmitting" /\ Busy(d)
      /\ dispatcher[d].intent = i /\ dispatcher[d].token = token
  BY <1>0
<1>2. PICK result \in Result, arrived \in BOOLEAN :
         /\ result = "delivered" => arrived
         /\ result \in {"rejected", "gone"} => ~arrived
         /\ dispatcher' = [dispatcher EXCEPT
               ![d] = [pc |-> "completing", intent |-> i, token |-> token, result |-> result]]
         /\ surplus' = [surplus EXCEPT ![i] = @ + (IF arrived THEN 1 ELSE 0)
                                                - (IF result = "timeout" THEN 1 ELSE 0)]
  BY <1>1 DEF Transmit
<1>3. row' = row
  BY DEF Transmit
<1>4. /\ dispatcher'[d] = [pc |-> "completing", intent |-> i, token |-> token, result |-> result]
      /\ \A e \in Dispatchers : e # d => dispatcher'[e] = dispatcher[e]
  BY <1>2 DEF CopyInvariant, OutboxInvariant, Types
<1>5. /\ IsFiniteSet(Senders(i)')
      /\ Cardinality(Senders(i)') = Cardinality(Senders(i)) - 1
      /\ \A j \in Intents : j # i => Senders(j)' = Senders(j)
  BY <1>1, <1>4, SenderLeaves
<1>6. /\ surplus' \in [Intents -> Int]
      /\ surplus'[i] = surplus[i] + (IF arrived THEN 1 ELSE 0) - (IF result = "timeout" THEN 1 ELSE 0)
      /\ \A j \in Intents : j # i => surplus'[j] = surplus[j]
  BY <1>1, <1>2 DEF CopyInvariant
<1>7. Weight(i)' <= Weight(i) /\ (result # "delivered" => Weight(i)' < Weight(i))
  <2>1. surplus[i] \in Int /\ Cardinality(Senders(i)) \in Nat
    BY WeightTyped
  <2>2. /\ surplus'[i] <= surplus[i] + 1 /\ surplus'[i] \in Int
        /\ result # "delivered" => surplus'[i] <= surplus[i]
    BY <1>2, <1>6, <2>1 DEF Result
  <2> QED
    BY <1>5, <2>1, <2>2 DEF Weight
<1>8. ASSUME NEW j \in Intents, j # i \/ result = "delivered", Promising(j) PROVE Promising(j)'
  <2>1. CASE row[j].state \in {"delivered", "suppressed"}
    BY <1>3, <2>1 DEF Promising
  <2>2. CASE row[j].state \notin {"delivered", "suppressed"}
    <3>1. PICK e \in Dispatchers : MayDeliver(e, j)
      BY <1>8, <2>2 DEF Promising
    <3>2. MayDeliver(e, j)'
      <4>1. CASE e = d
        BY <1>1, <1>3, <1>4, <1>8, <3>1, <4>1 DEF MayDeliver, Busy
      <4>2. CASE e # d
        BY <1>3, <1>4, <3>1, <4>2 DEF MayDeliver, Busy
      <4> QED
        BY <4>1, <4>2
    <3> QED
      BY <1>3, <1>8, <2>2, <3>2 DEF Promising
  <2> QED
    BY <2>1, <2>2
<1>9. ASSUME NEW j \in Intents PROVE (IsFiniteSet(Senders(j)) /\ Balanced(j))'
  <2>1. CASE j = i
    <3>1. Weight(i) \in Int /\ Weight(i)' \in Int
      <4>1. surplus[i] \in Int /\ Cardinality(Senders(i)) \in Nat /\ surplus'[i] \in Int
        BY <1>6, WeightTyped
      <4> QED
        BY <1>5, <4>1 DEF Weight
    <3>2. Balanced(i)
      BY <1>1 DEF CopyInvariant
    <3>3. CASE result = "delivered"
      BY <1>1, <1>5, <1>7, <1>8, <2>1, <3>1, <3>2, <3>3 DEF Balanced
    <3>4. CASE result # "delivered"
      BY <1>5, <1>7, <2>1, <3>1, <3>2, <3>4 DEF Balanced
    <3> QED
      BY <3>3, <3>4
  <2>2. CASE j # i
    <3>1. Weight(j)' = Weight(j)
      BY <1>5, <1>6, <2>2 DEF Weight
    <3> QED
      BY <1>5, <1>8, <2>2, <3>1 DEF CopyInvariant, Balanced
  <2> QED
    BY <2>1, <2>2
<1>10. ASSUME NEW e \in Dispatchers PROVE Numbered(e)'
  <2>1. CASE e = d
    BY <1>1, <1>3, <1>4, <2>1 DEF CopyInvariant, Numbered
  <2>2. CASE e # d
    BY <1>3, <1>4, <2>2 DEF CopyInvariant, Numbered, Busy
  <2> QED
    BY <2>1, <2>2
<1>11. ASSUME NEW e \in Dispatchers
       PROVE  /\ Busy(e)' = Busy(e)
              /\ Busy(e) => /\ dispatcher'[e].intent = dispatcher[e].intent
                            /\ dispatcher'[e].token = dispatcher[e].token
  BY <1>1, <1>4 DEF Busy
<1>12. \A e, f \in Dispatchers : ClaimsDiffer(e, f)'
  BY <1>11 DEF CopyInvariant, ClaimsDiffer
<1> QED
  BY <1>6, <1>9, <1>10, <1>12 DEF CopyInvariant

\* A dispatcher that comes to rest holds no claim any more.
LEMMA RestKeepsClaims ==
    ASSUME CopyInvariant, NEW d \in Dispatchers,
           dispatcher' = [dispatcher EXCEPT ![d] = Idle],
           \A i \in Intents : row'[i].attempts = row[i].attempts
    PROVE  /\ \A e \in Dispatchers : Numbered(e)'
           /\ \A e, f \in Dispatchers : ClaimsDiffer(e, f)'
<1>1. /\ ~Busy(d)'
      /\ \A e \in Dispatchers : e # d => dispatcher'[e] = dispatcher[e]
  BY DEF CopyInvariant, OutboxInvariant, Types, Busy, Idle
<1>2. ASSUME NEW e \in Dispatchers PROVE Numbered(e)'
  <2>1. CASE e = d
    BY <1>1, <2>1 DEF Numbered
  <2>2. CASE e # d
    <3>1. Busy(e) => dispatcher[e].intent \in Intents
      BY TransmittersHoldIntents DEF CopyInvariant, Busy
    <3> QED
      BY <1>1, <2>2, <3>1 DEF CopyInvariant, Numbered, Busy
  <2> QED
    BY <2>1, <2>2
<1>3. \A e, f \in Dispatchers : ClaimsDiffer(e, f)'
  BY <1>1 DEF CopyInvariant, ClaimsDiffer, Busy
<1> QED
  BY <1>2, <1>3

\* A completion: a claim that failed leaves nothing under way that is not excused.
LEMMA CompleteKeepsCopies ==
    ASSUME CopyInvariant, OutboxInvariant', NEW d \in Dispatchers, Complete(d)
    PROVE  CopyInvariant'
<1>0. dispatcher[d].intent \in Intents
  BY TransmittersHoldIntents DEF Complete, CopyInvariant
<1> PICK i \in Intents : dispatcher[d].intent = i
  BY <1>0
<1> PICK result : dispatcher[d].result = result
  OBVIOUS
<1>1. /\ i \in Intents /\ dispatcher[d].pc = "completing" /\ surplus' = surplus
      /\ dispatcher[d].intent = i /\ dispatcher[d].result = result
      /\ dispatcher' = [dispatcher EXCEPT ![d] = Idle]
      /\ row' = IF HoldsClaim(d) THEN [row EXCEPT ![i] = Completed(i, result)] ELSE row
      /\ row \in [Intents -> Rows]
  BY <1>0 DEF Complete, CopyInvariant, OutboxInvariant, Types
<1>2. /\ dispatcher'[d] = Idle
      /\ \A e \in Dispatchers : e # d => dispatcher'[e] = dispatcher[e]
  BY <1>1 DEF CopyInvariant, OutboxInvariant, Types
<1>3. ASSUME NEW j \in Intents PROVE Senders(j)' = Senders(j) /\ Weight(j)' = Weight(j)
  <2>1. Senders(j)' = Senders(j)
    BY <1>1, <1>2 DEF Senders, Idle
  <2> QED
    BY <1>1, <2>1 DEF Weight
<1>4. \A j \in Intents : j # i => row'[j] = row[j]
  BY <1>1
<1>5. ASSUME NEW j \in Intents PROVE row'[j].attempts = row[j].attempts
  <2>1. Completed(i, result).attempts = row[i].attempts
    BY DEF Completed, Ended
  <2> QED
    BY <1>1, <2>1
<1>6. ASSUME NEW j \in Intents, row'[j] = row[j], j = i => ~HoldsClaim(d), Promising(j)
      PROVE  Promising(j)'
  <2>1. CASE row[j].state \in {"delivered", "suppressed"}
    BY <1>6, <2>1 DEF Promising
  <2>2. CASE row[j].state \notin {"delivered", "suppressed"}
    <3>1. PICK e \in Dispatchers : MayDeliver(e, j)
      BY <1>6, <2>2 DEF Promising
    <3>2. row[j].state = "claimed"
      BY <1>6, <2>2 DEF Promising
    <3>3. e # d
      BY <1>1, <1>6, <3>1, <3>2 DEF MayDeliver, HoldsClaim
    <3>4. MayDeliver(e, j)'
      BY <1>2, <1>6, <3>1, <3>3 DEF MayDeliver, Busy
    <3> QED
      BY <1>6, <2>2, <3>4 DEF Promising
  <2> QED
    BY <2>1, <2>2
<1>7. CASE ~HoldsClaim(d)
  <2>1. \A j \in Intents : row'[j] = row[j]
    BY <1>1, <1>7
  <2> QED
    BY <1>1, <1>3, <1>5, <1>6, <1>7, <2>1, RestKeepsClaims DEF CopyInvariant, Balanced
<1>8. CASE HoldsClaim(d)
  <2>1. row'[i] = Completed(i, result)
    BY <1>1, <1>8
  <2>2. Promising(i)' \/ Weight(i) <= 0
    <3>1. CASE result = "delivered"
      BY <2>1, <3>1 DEF Completed, Ended, Promising
    <3>2. CASE result # "delivered"
      <4>1. row[i].state = "claimed" /\ dispatcher[d].token = row[i].attempts /\ Busy(d)
        BY <1>1, <1>8 DEF HoldsClaim, Busy
      <4>2. ASSUME NEW e \in Dispatchers, MayDeliver(e, i) PROVE FALSE
        <5>1. e = d
          BY <1>1, <4>1, <4>2 DEF CopyInvariant, ClaimsDiffer, MayDeliver
        <5> QED
          BY <1>1, <3>2, <4>2, <5>1 DEF MayDeliver
      <4>3. ~Promising(i)
        BY <4>1, <4>2 DEF Promising
      <4> QED
        BY <1>1, <4>3 DEF CopyInvariant, Balanced
    <3> QED
      BY <3>1, <3>2
  <2>3. ASSUME NEW j \in Intents PROVE (IsFiniteSet(Senders(j)) /\ Balanced(j))'
    <3>1. CASE j = i
      BY <1>1, <1>3, <2>2, <3>1 DEF CopyInvariant, Balanced
    <3>2. CASE j # i
      BY <1>3, <1>4, <1>6, <3>2 DEF CopyInvariant, Balanced
    <3> QED
      BY <3>1, <3>2
  <2> QED
    BY <1>1, <1>5, <2>3, RestKeepsClaims DEF CopyInvariant
<1> QED
  BY <1>7, <1>8

\* A worker that dies takes its claim along: whatever it sent is excused.
LEMMA CrashKeepsCopies ==
    ASSUME CopyInvariant, OutboxInvariant', NEW d \in Dispatchers, Crash(d)
    PROVE  CopyInvariant'
<1>0. dispatcher[d].intent \in Intents
  BY TransmittersHoldIntents DEF Crash, CopyInvariant
<1> PICK i \in Intents : dispatcher[d].intent = i
  BY <1>0
<1>1. /\ i \in Intents /\ Busy(d) /\ row' = row /\ dispatcher[d].intent = i
      /\ dispatcher' = [dispatcher EXCEPT ![d] = Idle]
      /\ surplus' = [surplus EXCEPT ![i] = surplus[i] - 1]
  BY DEF Crash, Busy
<1>2. /\ dispatcher'[d] = Idle
      /\ \A e \in Dispatchers : e # d => dispatcher'[e] = dispatcher[e]
  BY <1>1 DEF CopyInvariant, OutboxInvariant, Types
<1>3. /\ surplus' \in [Intents -> Int] /\ surplus'[i] = surplus[i] - 1
      /\ \A j \in Intents : j # i => surplus'[j] = surplus[j]
  BY <1>1 DEF CopyInvariant
<1>4. /\ IsFiniteSet(Senders(i)') /\ Weight(i)' <= Weight(i) - 1
      /\ \A j \in Intents : j # i => Senders(j)' = Senders(j)
  <2>1. CASE dispatcher[d].pc = "transmitting"
    <3>1. /\ IsFiniteSet(Senders(i)')
          /\ Cardinality(Senders(i)') = Cardinality(Senders(i)) - 1
          /\ \A j \in Intents : j # i => Senders(j)' = Senders(j)
      BY <1>1, <1>2, <2>1, SenderLeaves DEF Idle
    <3>2. surplus[i] \in Int /\ Cardinality(Senders(i)) \in Nat
      BY WeightTyped
    <3> QED
      BY <1>1, <1>3, <3>1, <3>2 DEF Weight
  <2>2. CASE dispatcher[d].pc # "transmitting"
    <3>1. \A j \in Intents : Senders(j)' = Senders(j)
      BY <1>2, <2>2 DEF Senders, Idle
    <3>2. surplus[i] \in Int /\ Cardinality(Senders(i)) \in Nat
      BY WeightTyped
    <3>3. Weight(i)' = Weight(i) - 1
      BY <1>1, <1>3, <3>1, <3>2 DEF Weight
    <3>4. Weight(i) \in Int /\ IsFiniteSet(Senders(i))
      BY WeightTyped DEF CopyInvariant
    <3> QED
      BY <3>1, <3>3, <3>4
  <2> QED
    BY <2>1, <2>2
<1>5. ASSUME NEW j \in Intents PROVE (IsFiniteSet(Senders(j)) /\ Balanced(j))'
  <2>1. CASE j = i
    <3>1. Weight(i) \in Int /\ Weight(i)' \in Int /\ Weight(i) <= 1
      <4>1. surplus[i] \in Int /\ Weight(i) \in Int /\ surplus'[i] \in Int
        BY <1>1, <1>3, WeightTyped
      <4>2. Cardinality(Senders(i)') \in Nat
        BY <1>4, FS_CardinalityType
      <4> QED
        BY <1>1, <4>1, <4>2 DEF CopyInvariant, Balanced, Weight
    <3> QED
      BY <1>4, <2>1, <3>1 DEF Balanced
  <2>2. CASE j # i
    <3>1. Weight(j)' = Weight(j) /\ Senders(j)' = Senders(j)
      BY <1>3, <1>4, <2>2 DEF Weight
    <3>2. ASSUME NEW e \in Dispatchers, MayDeliver(e, j) PROVE MayDeliver(e, j)'
      BY <1>1, <1>2, <2>2, <3>2 DEF MayDeliver, Busy
    <3>3. Promising(j) => Promising(j)'
      BY <1>1, <3>2 DEF Promising
    <3> QED
      BY <3>1, <3>3 DEF CopyInvariant, Balanced
  <2> QED
    BY <2>1, <2>2
<1> QED
  BY <1>1, <1>3, <1>5, RestKeepsClaims DEF CopyInvariant

\* A claim runs out: under its dispatcher, that is excused; without one, nothing of
\* it was unexcused.
LEMMA LapseKeepsCopies ==
    ASSUME CopyInvariant, OutboxInvariant', NEW i \in Intents, ClaimLapses(i)
    PROVE  CopyInvariant'
<1>1. /\ row[i].state = "claimed" /\ dispatcher' = dispatcher
      /\ row' = [row EXCEPT ![i] = [state |-> "claimed", attempts |-> row[i].attempts,
                                    due |-> row[i].due, lapsed |-> TRUE]]
      /\ row \in [Intents -> Rows]
  BY DEF ClaimLapses, CopyInvariant, OutboxInvariant, Types
<1>2. \A j \in Intents : j # i => row'[j] = row[j]
  BY <1>1
<1>3. \A j \in Intents : row'[j].attempts = row[j].attempts
  BY <1>1
<1>4. \A j \in Intents : Senders(j)' = Senders(j)
  BY <1>1 DEF Senders
<1>5. /\ surplus' \in [Intents -> Int]
      /\ \A j \in Intents : j # i => surplus'[j] = surplus[j]
      /\ Weight(i)' <= 0
  <2>1. CASE \E d \in Holders(i) : dispatcher[d].token = row[i].attempts
    <3>1. surplus' = [surplus EXCEPT ![i] = surplus[i] - 1]
      BY <2>1 DEF ClaimLapses
    <3>2. surplus'[i] = surplus[i] - 1
      BY <3>1 DEF CopyInvariant
    <3> QED
      BY <1>4, <3>1, <3>2, WeightTyped DEF CopyInvariant, Balanced, Weight
  <2>2. CASE ~\E d \in Holders(i) : dispatcher[d].token = row[i].attempts
    <3>1. surplus' = surplus
      BY <2>2 DEF ClaimLapses
    <3>2. ~Promising(i)
      BY <1>1, <2>2 DEF Promising, MayDeliver, Holders, Busy
    <3> QED
      BY <1>4, <3>1, <3>2 DEF CopyInvariant, Balanced, Weight
  <2> QED
    BY <2>1, <2>2
<1>6. ASSUME NEW j \in Intents PROVE (IsFiniteSet(Senders(j)) /\ Balanced(j))'
  <2>1. CASE j = i
    <3>1. Weight(i)' \in Int
      BY <1>4, <1>5, FS_CardinalityType DEF CopyInvariant, Weight
    <3> QED
      BY <1>4, <1>5, <2>1, <3>1 DEF CopyInvariant, Balanced
  <2>2. CASE j # i
    <3>1. Weight(j)' = Weight(j)
      BY <1>4, <1>5, <2>2 DEF Weight
    <3>2. Promising(j) => Promising(j)'
      BY <1>1, <1>2, <2>2 DEF Promising, MayDeliver, Busy
    <3> QED
      BY <1>4, <3>1, <3>2 DEF CopyInvariant, Balanced
  <2> QED
    BY <2>1, <2>2
<1>7. ASSUME NEW d \in Dispatchers PROVE Numbered(d)'
  <2>1. Busy(d) => dispatcher[d].intent \in Intents
    BY TransmittersHoldIntents DEF CopyInvariant, Busy
  <2> QED
    BY <1>1, <1>3, <2>1 DEF CopyInvariant, Numbered, Busy
<1>8. \A d, e \in Dispatchers : ClaimsDiffer(d, e)'
  BY <1>1 DEF CopyInvariant, ClaimsDiffer, Busy
<1> QED
  BY <1>5, <1>6, <1>7, <1>8 DEF CopyInvariant

LEMMA NextKeepsCopies == CopyInvariant /\ [Next]_vars => CopyInvariant'
<1> SUFFICES ASSUME CopyInvariant, [Next]_vars PROVE CopyInvariant'
  OBVIOUS
<1>0. OutboxInvariant /\ OutboxInvariant' /\ row \in [Intents -> Rows]
  BY StepsRefine DEF CopyInvariant, OutboxInvariant, Types
<1>1. CASE UNCHANGED vars
  BY <1>0, <1>1, RowsKeepCopies DEF vars
<1>2. CASE Finish \/ Reconcile
  <2>1. PICK outcome : EndJob(outcome)
    BY <1>2 DEF Finish, Reconcile
  <2>2. UNCHANGED <<surplus, dispatcher>> /\ row' = Ensured(outcome)
    BY <2>1 DEF EndJob
  <2>3. ASSUME NEW i \in Intents
        PROVE  \/ row'[i] = row[i]
               \/ row'[i].attempts = row[i].attempts /\ ~Promising(i)
    BY <1>0, <2>2, RowFields DEF Ensured, Pending, Promising
  <2> QED
    BY <1>0, <2>2, <2>3, RowsKeepCopies
<1>3. CASE StartRetry
  BY <1>0, <1>3, RowsKeepCopies DEF StartRetry
<1>4. CASE CommitRetry
  <2>1. /\ UNCHANGED <<surplus, dispatcher>>
        /\ row' = [i \in Intents |-> IF i \in retry.rows THEN Ended(i, "suppressed") ELSE row[i]]
    BY <1>4 DEF CommitRetry
  <2>2. ASSUME NEW i \in Intents
        PROVE  \/ row'[i] = row[i]
               \/ row'[i].attempts = row[i].attempts /\ Promising(i)'
    BY <2>1 DEF Ended, Promising
  <2> QED
    BY <1>0, <2>1, <2>2, RowsKeepCopies
<1>5. ASSUME NEW to \in Destinations, ChangePreference(to) PROVE CopyInvariant'
  BY <1>0, <1>5, RowsKeepCopies DEF ChangePreference
<1>6. ASSUME NEW d \in Dispatchers, NEW i \in Intents, SuppressAtClaim(d, i) PROVE CopyInvariant'
  <2>1. /\ UNCHANGED <<surplus, dispatcher>>
        /\ row' = [row EXCEPT ![i] = Ended(i, "suppressed")]
    BY <1>6 DEF SuppressAtClaim
  <2>2. ASSUME NEW j \in Intents
        PROVE  \/ row'[j] = row[j]
               \/ row'[j].attempts = row[j].attempts /\ Promising(j)'
    BY <1>0, <2>1 DEF Ended, Promising
  <2> QED
    BY <1>0, <2>1, <2>2, RowsKeepCopies
<1>7. ASSUME NEW d \in Dispatchers, NEW i \in Intents, Claim(d, i) PROVE CopyInvariant'
  BY <1>0, <1>7, ClaimKeepsCopies
<1>8. ASSUME NEW d \in Dispatchers, Transmit(d) PROVE CopyInvariant'
  BY <1>0, <1>8, TransmitKeepsCopies
<1>9. ASSUME NEW d \in Dispatchers, Complete(d) PROVE CopyInvariant'
  BY <1>0, <1>9, CompleteKeepsCopies
<1>10. ASSUME NEW d \in Dispatchers, Crash(d) PROVE CopyInvariant'
  BY <1>0, <1>10, CrashKeepsCopies
<1>11. ASSUME NEW i \in Intents, ClaimLapses(i) PROVE CopyInvariant'
  BY <1>0, <1>11, LapseKeepsCopies
<1>12. ASSUME NEW i \in Intents, BackoffPasses(i) PROVE CopyInvariant'
  <2>1. /\ UNCHANGED <<surplus, dispatcher>> /\ row[i].state = "failed"
        /\ row' = [row EXCEPT ![i] = [state |-> "failed", attempts |-> row[i].attempts,
                                      due |-> TRUE, lapsed |-> FALSE]]
    BY <1>12 DEF BackoffPasses
  <2>2. ASSUME NEW j \in Intents
        PROVE  \/ row'[j] = row[j]
               \/ row'[j].attempts = row[j].attempts /\ ~Promising(j)
    BY <1>0, <2>1 DEF Promising
  <2> QED
    BY <1>0, <2>1, <2>2, RowsKeepCopies
<1> QED
  BY <1>1, <1>2, <1>3, <1>4, <1>5, <1>6, <1>7, <1>8, <1>9, <1>10, <1>11, <1>12 DEF Next, Dispatch

\* A second copy of a message reaches the owner only after a claim ran out under
\* its dispatcher, a dispatcher died or a transport did not answer in time, for any
\* number of dispatchers and attempts (job_notifications.py:330-349, :556-561).
THEOREM CopiesHaveACauseHolds == Spec => []CopiesHaveACause
<1>1. CopyInvariant => CopiesHaveACause
  <2> SUFFICES ASSUME CopyInvariant, NEW i \in Intents PROVE surplus[i] <= 1
    BY DEF CopiesHaveACause
  <2> QED
    BY WeightTyped DEF CopyInvariant, Balanced, Weight
<1> QED
  BY <1>1, InitCopies, NextKeepsCopies, PTL DEF Spec


(***************************************************************************)
(* Types.                                                                  *)
(***************************************************************************)

\* The three invariants together, and the bound of the model.
NotificationInvariant == CopyInvariant /\ NewsInvariant /\ faults \in 0..MaxFaults

LEMMA NextKeepsNotifications == NotificationInvariant /\ [Next]_vars => NotificationInvariant'
<1> SUFFICES ASSUME NotificationInvariant, [Next]_vars PROVE NotificationInvariant'
  OBVIOUS
<1>1. CopyInvariant' /\ NewsInvariant'
  BY NextKeepsCopies, NextKeepsNews DEF NotificationInvariant
<1>2. faults \in 0..MaxFaults /\ MaxFaults \in Nat
  BY NotificationAssumption DEF NotificationInvariant
<1>3. Fault \/ faults' = faults
  BY DEF Next, Finish, Reconcile, EndJob, StartRetry, CommitRetry, ChangePreference, Dispatch,
         Crash, SuppressAtClaim, Claim, Transmit, Complete, ClaimLapses, BackoffPasses, vars
<1>4. faults' \in 0..MaxFaults
  BY <1>2, <1>3 DEF Fault
<1> QED
  BY <1>1, <1>4 DEF NotificationInvariant

\* The rows, the dispatchers and the books keep their types: in particular no row
\* counts more attempts than job_notification_max_attempts, and no token is one
\* that was never given out (job_notifications.py:330-409).
THEOREM TypeCorrect == Spec => []TypeOK
<1>1. Init => NotificationInvariant
  BY InitCopies, InitNews, NotificationAssumption DEF Init, NotificationInvariant
<1>2. NotificationInvariant => TypeOK
  <2> SUFFICES ASSUME NotificationInvariant PROVE TypeOK
    OBVIOUS
  <2>0. OutboxInvariant /\ Types /\ CopyInvariant /\ NewsInvariant /\ MaxSends \in Nat
    BY NotificationAssumption DEF NotificationInvariant, CopyInvariant, OutboxInvariant
  <2>1. ASSUME NEW i \in Intents
        PROVE  /\ row[i] \in [state : States, attempts : 0..MaxSends, due : BOOLEAN, lapsed : BOOLEAN]
               /\ sent[i] \in SUBSET (1..MaxSends) /\ row[i].attempts \in 0..MaxSends
    <3>1. row[i] \in Rows /\ row[i].attempts \in 0..MaxSends /\ sent[i] \subseteq 1..row[i].attempts
      BY <2>0, RowFields DEF Types
    <3>2. 1..row[i].attempts \subseteq 1..MaxSends
      BY <2>0, <3>1
    <3> QED
      BY <3>1, <3>2 DEF Rows
  <2>2. ASSUME NEW d \in Dispatchers
        PROVE  dispatcher[d] \in {Idle}
          \cup [pc : {"transmitting"}, intent : Intents, token : 1..MaxSends]
          \cup [pc : {"completing"}, intent : Intents, token : 1..MaxSends, result : Result]
    <3>1. CASE dispatcher[d].pc = "idle"
      BY <2>0, <3>1 DEF Types, Held, Idle
    <3>2. CASE dispatcher[d].pc # "idle"
      <4>1. dispatcher[d] \in Held /\ dispatcher[d].intent \in Intents
        BY <2>0, <3>2, TransmittersHoldIntents
      <4>2. dispatcher[d].token \in 1..row[dispatcher[d].intent].attempts
        BY <2>0, <3>2 DEF CopyInvariant, Numbered, Busy
      <4>3. dispatcher[d].token \in 1..MaxSends
        BY <2>0, <2>1, <4>1, <4>2
      <4> QED
        BY <4>1, <4>3 DEF Held
    <3> QED
      BY <3>1, <3>2
  <2>3. row \in [Intents -> [state : States, attempts : 0..MaxSends, due : BOOLEAN, lapsed : BOOLEAN]]
        /\ sent \in [Intents -> SUBSET (1..MaxSends)]
    BY <2>0, <2>1 DEF Types
  <2>4. dispatcher \in [Dispatchers -> {Idle}
          \cup [pc : {"transmitting"}, intent : Intents, token : 1..MaxSends]
          \cup [pc : {"completing"}, intent : Intents, token : 1..MaxSends, result : Result]]
    BY <2>0, <2>2 DEF Types
  <2>5. /\ job \in [status : {"running", "failed", "completed"}, attempt : 1..MaxAttempts]
        /\ wanted \subseteq Destinations /\ dropped \subseteq Destinations
        /\ surplus \in [Intents -> Int] /\ faults \in 0..MaxFaults
        /\ retry \in [on : BOOLEAN, rows : SUBSET Intents]
    BY <2>0 DEF NewsInvariant, CopyInvariant, NotificationInvariant, Types
  <2> QED
    BY <2>3, <2>4, <2>5 DEF TypeOK, States
<1> QED
  BY <1>1, <1>2, NextKeepsNotifications, PTL DEF Spec


=============================================================================
