------------------------- MODULE JobLifecycleProofs -------------------------
(***************************************************************************)
(* Proofs about JobLifecycle for every set of workers, every attempt       *)
(* budget and every number of claims.                                      *)
(*                                                                         *)
(* LeaseInvariant is the conjunction the runs check.  It is inductive      *)
(* together with TypeOK: the attempt budget needs the shape of the lease   *)
(* (a requeued job names no owner), the fencing tokens need the bound on   *)
(* the handles, and nothing else is missing.                               *)
(***************************************************************************)
EXTENDS JobLifecycle, TLAPS

LeaseInvariant ==
    /\ TypeOK
    /\ AttemptBudget
    /\ OneAttemptPerClaim
    /\ FencingTokens
    /\ LeaseMatchesStatus

\* The initial job satisfies the invariant.
LEMMA InitLeaseInvariant == Init => LeaseInvariant
<1> SUFFICES ASSUME Init
             PROVE  LeaseInvariant
  OBVIOUS
<1> USE BoundsAssumption DEF Init
<1>1. TypeOK
  BY DEF TypeOK, Status
<1>2. AttemptBudget /\ OneAttemptPerClaim /\ LeaseMatchesStatus
  BY DEF AttemptBudget, OneAttemptPerClaim, LeaseMatchesStatus
<1>3. FencingTokens
  BY DEF FencingTokens
<1> QED
  BY <1>1, <1>2, <1>3 DEF LeaseInvariant

\* What a claim does to the tokens: the new generation is held by nobody else.
LEMMA ClaimKeepsTokens ==
  ASSUME LeaseInvariant, NEW w \in Workers, Claim(w)
  PROVE  FencingTokens'
<1> USE DEF LeaseInvariant, TypeOK, FencingTokens, Claim, NextGeneration
<1>1. \A v \in Workers : handle'[v] = IF v = w THEN generation + 1 ELSE handle[v]
  OBVIOUS
<1>2. generation \in Nat /\ \A v \in Workers : handle[v] \in Nat /\ handle[v] <= generation
  OBVIOUS
<1>3. \A v \in Workers : handle'[v] <= generation'
  BY <1>1, <1>2
<1>4. ASSUME NEW u \in Workers, NEW v \in Workers, handle'[u] = handle'[v], handle'[v] # 0
      PROVE  u = v
  BY <1>1, <1>2, <1>4
<1>5. \A v \in Workers : handle'[v] = generation' /\ owner' # NoWorker => owner' = v
  BY <1>1, <1>2
<1> QED
  BY <1>3, <1>4, <1>5

\* Letting go of a handle keeps the tokens distinct.
LEMMA AbandonKeepsTokens ==
  ASSUME LeaseInvariant, NEW w \in Workers, Abandon(w)
  PROVE  FencingTokens'
<1> USE DEF LeaseInvariant, TypeOK, FencingTokens, LeaseMatchesStatus, Abandon
<1>1. \A v \in Workers : handle'[v] = IF v = w THEN 0 ELSE handle[v]
  OBVIOUS
<1>2. generation \in Nat /\ attempts \in Nat /\ \A v \in Workers : handle[v] \in Nat
  OBVIOUS
<1>3. generation # 0
  BY <1>2
<1> QED
  BY <1>1, <1>2, <1>3

\* Every step keeps the invariant.
LEMMA NextLeaseInvariant == LeaseInvariant /\ [Next]_vars => LeaseInvariant'
<1> SUFFICES ASSUME LeaseInvariant, [Next]_vars
             PROVE  LeaseInvariant'
  OBVIOUS
<1> USE WorkersAssumption, BoundsAssumption
<1> USE DEF LeaseInvariant, TypeOK, Status, AttemptBudget, OneAttemptPerClaim, LeaseMatchesStatus
<1>1. ASSUME NEW w \in Workers, Claim(w)
      PROVE  LeaseInvariant'
  <2>1. FencingTokens'
    BY <1>1, ClaimKeepsTokens
  <2> QED
    BY <1>1, <2>1 DEF Claim, NextGeneration
<1>2. ASSUME NEW w \in Workers, BeginProcessing(w)
      PROVE  LeaseInvariant'
  <2> USE <1>2 DEF BeginProcessing, ActiveOwner, KeepLease, NoCancelPending
  <2>1. TypeOK'
    <3>1. attempts' \in Nat /\ status' \in Status
      OBVIOUS
    <3>2. deferred' \in BOOLEAN /\ reconcilable' \in BOOLEAN
      BY Zenon
    <3>3. owner' = owner /\ generation' = generation /\ leaseLive' = leaseLive
          /\ cancelRequested' = cancelRequested /\ handle' = handle
      OBVIOUS
    <3> QED
      BY <3>1, <3>2, <3>3, Zenon
  <2>2. AttemptBudget'
    <3>1. attempts \in Nat /\ MaxAttempts \in Nat /\ attempts < MaxAttempts
      OBVIOUS
    <3>2. status' # "queued" /\ attempts' = attempts + 1
      OBVIOUS
    <3> QED
      BY ONLY <3>1, <3>2 DEF AttemptBudget
  <2>3. LeaseMatchesStatus'
    OBVIOUS
  <2>4. OneAttemptPerClaim'
    <3>1. owner # NoWorker /\ attempts < generation
      OBVIOUS
    <3> QED
      BY <3>1
  <2>5. FencingTokens'
    BY DEF FencingTokens
  <2> QED
    BY <2>1, <2>2, <2>3, <2>4, <2>5
<1>3. ASSUME NEW w \in Workers, AcknowledgeCancellation(w)
      PROVE  LeaseInvariant'
  BY <1>3 DEF AcknowledgeCancellation, InProcessing, InvalidateLease, FencingTokens
<1>4. ASSUME NEW w \in Workers, CompleteProcessing(w)
      PROVE  LeaseInvariant'
  BY <1>4 DEF CompleteProcessing, InProcessing, NoCancelPending, InvalidateLease, FencingTokens
<1>5. ASSUME NEW w \in Workers, FailProcessing(w)
      PROVE  LeaseInvariant'
  BY <1>5 DEF FailProcessing, InProcessing, NoCancelPending, AttemptsLeft, InvalidateLease, FencingTokens
<1>6. ASSUME NEW w \in Workers, Abandon(w)
      PROVE  LeaseInvariant'
  <2>1. FencingTokens'
    BY <1>6, AbandonKeepsTokens
  <2> QED
    BY <1>6, <2>1 DEF Abandon
<1>7. CASE RecoverExpired
  BY <1>7 DEF RecoverExpired, InProcessing, LeaseExpired, NoCancelPending, AttemptsLeft, InvalidateLease, FencingTokens
<1>8. CASE RequestCancellation
  BY <1>8 DEF RequestCancellation, InProcessing, NoCancelPending, InvalidateLease, KeepLease, FencingTokens
<1>9. CASE QueueRetry
  BY <1>9 DEF QueueRetry, NoCancelPending, AttemptsLeft, InvalidateLease, FencingTokens
<1>10. CASE CompleteByReconciliation
  BY <1>10 DEF CompleteByReconciliation, FencingTokens
<1>11. CASE ExpireHeldLease \/ ExpireOrphanLease \/ BackoffElapses
  <2> USE <1>11 DEF ExpireHeldLease, ExpireOrphanLease, BackoffElapses
  <2>1. TypeOK'
    BY Zenon
  <2>2. /\ status' = status /\ owner' = owner /\ generation' = generation
        /\ attempts' = attempts /\ cancelRequested' = cancelRequested /\ handle' = handle
    BY Zenon
  <2>3. leaseLive' => leaseLive
    BY Zenon
  <2>4. AttemptBudget' /\ OneAttemptPerClaim'
    BY <2>2, Zenon
  <2>5. LeaseMatchesStatus'
    BY <2>2, <2>3, Zenon
  <2>6. FencingTokens'
    BY <2>2 DEF FencingTokens
  <2> QED
    BY <2>1, <2>4, <2>5, <2>6
<1>12. CASE UNCHANGED vars
  BY <1>12 DEF vars, FencingTokens
<1> HIDE DEF LeaseInvariant
<1> QED
  BY <1>1, <1>2, <1>3, <1>4, <1>5, <1>6, <1>7, <1>8, <1>9, <1>10, <1>11, <1>12
  DEF Next, Work

\* The whole invariant holds of every behaviour: the columns of the job row
\* keep their types and every conjunct the runs check.
THEOREM LeaseInvariantHolds == Spec => []LeaseInvariant
<1>1. Init => LeaseInvariant
  BY InitLeaseInvariant
<1>2. LeaseInvariant /\ [Next]_vars => LeaseInvariant'
  BY NextLeaseInvariant
<1> QED
  BY <1>1, <1>2, PTL DEF Spec

\* Type correctness of the lifecycle.
THEOREM TypeCorrect == Spec => []TypeOK
<1>1. LeaseInvariant => TypeOK
  BY DEF LeaseInvariant
<1> QED
  BY <1>1, LeaseInvariantHolds, PTL

\* No sequence of automatic retries, recoveries and explicit retries spends
\* more than MAX_PROCESSING_ATTEMPTS attempts.
THEOREM AttemptBudgetHolds == Spec => []AttemptBudget
<1>1. LeaseInvariant => AttemptBudget
  BY DEF LeaseInvariant
<1> QED
  BY <1>1, LeaseInvariantHolds, PTL

\* A claim starts at most one attempt, however the job returns to the queue.
THEOREM OneAttemptPerClaimHolds == Spec => []OneAttemptPerClaim
<1>1. LeaseInvariant => OneAttemptPerClaim
  BY DEF LeaseInvariant
<1> QED
  BY <1>1, LeaseInvariantHolds, PTL

\* Generations fence: no two workers ever hold the same one.
THEOREM FencingTokensHold == Spec => []FencingTokens
<1>1. LeaseInvariant => FencingTokens
  BY DEF LeaseInvariant
<1> QED
  BY <1>1, LeaseInvariantHolds, PTL

\* The lease columns always agree with the status: recovery can tell whose run
\* it ends, and a finished job has no owner.
THEOREM LeaseMatchesStatusHolds == Spec => []LeaseMatchesStatus
<1>1. LeaseInvariant => LeaseMatchesStatus
  BY DEF LeaseInvariant
<1> QED
  BY <1>1, LeaseInvariantHolds, PTL

\* One step cannot take a pending cancellation away, nor end the run
\* otherwise than cancelled.
LEMMA CancellationStep ==
  ASSUME LeaseInvariant, [Next]_vars, cancelRequested
  PROVE  cancelRequested' /\ status' \in {"processing", "cancelled"}
<1>1. status \in {"processing", "cancelled"}
  BY DEF LeaseInvariant, LeaseMatchesStatus
<1> QED
  BY <1>1 DEF Next, Work, Claim, BeginProcessing, AcknowledgeCancellation, CompleteProcessing,
       FailProcessing, Abandon, RecoverExpired, RequestCancellation, QueueRetry,
       CompleteByReconciliation, ExpireHeldLease, ExpireOrphanLease, BackoffElapses, vars, InProcessing, NoCancelPending

\* A pending cancellation always wins.
THEOREM CancellationWinsHolds == Spec => CancellationWins
<1>1. LeaseInvariant /\ [Next]_vars =>
        [cancelRequested => cancelRequested' /\ status' \in {"processing", "cancelled"}]_vars
  BY CancellationStep
<1> QED
  BY <1>1, LeaseInvariantHolds, PTL DEF Spec, CancellationWins

\* One step of any actor leaves a finished job finished.
LEMMA FinishedStep ==
  ASSUME LeaseInvariant, [Next]_vars
  PROVE  /\ status \in {"completed", "cancelled"} => status' = status
         /\ status = "failed" => status' \in {"failed", "queued", "completed"}
  BY DEF Next, Work, Claim, BeginProcessing, AcknowledgeCancellation, CompleteProcessing,
       FailProcessing, Abandon, RecoverExpired, RequestCancellation, QueueRetry,
       CompleteByReconciliation, ExpireHeldLease, ExpireOrphanLease, BackoffElapses, vars, InProcessing, NoCancelPending

\* A finished job stays finished.
THEOREM FinishedStaysFinishedHolds == Spec => FinishedStaysFinished
<1>1. LeaseInvariant /\ [Next]_vars =>
        [/\ status \in {"completed", "cancelled"} => status' = status
         /\ status = "failed" => status' \in {"failed", "queued", "completed"}]_vars
  BY FinishedStep
<1> QED
  BY <1>1, LeaseInvariantHolds, PTL DEF Spec, FinishedStaysFinished

=============================================================================
