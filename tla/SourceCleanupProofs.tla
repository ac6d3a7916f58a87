------------------------ MODULE SourceCleanupProofs ------------------------
(***************************************************************************)
(* Proofs about SourceCleanup for any number of cleaners, jobs and faults. *)
(*                                                                         *)
(* Nothing is left without the row that names it (OrphanInvariant): the    *)
(* row loses its key in one step, Finalize, after a cleaner saw the object *)
(* missing, and nothing can write the object any more, neither a URL the   *)
(* browser could still use (Closed) nor a session it could complete        *)
(* (Secured).                                                              *)
(*                                                                         *)
(* The bytes are there for the row that says "uploaded" and for the runs   *)
(* that verified the source (StorageInvariant): only a retired source is   *)
(* cleaned up, and not while a job is processing.                          *)
(*                                                                         *)
(* Cleanups end (ClaimsInvariant): every claim but one costs a fault.      *)
(***************************************************************************)
EXTENDS SourceCleanup, TLAPS

SrcTyped ==
    src \in [protocol : Protocols,
             upload : {"pending", "uploaded", "expired", "deleted"},
             reason : {"none", "user_deleted", "upload_aborted", "retention_expired", "exported"},
             enrolled : BOOLEAN,
             cleanup : {"not_requested", "pending", "failed", "completed"},
             due : {"unset", "now", "later", "expiry"},
             key : BOOLEAN,
             owner : Cleaners \cup {Nobody},
             generation : Nat]

Typed ==
    /\ SrcTyped
    /\ time \in [url : BOOLEAN, elapsed : BOOLEAN, leased : BOOLEAN]
    /\ store \in [object : BOOLEAN, session : {"none", "open", "gone"}]
    /\ cleaner \in [Cleaners -> [pc : {"idle", "selected", "claimed", "unsessioned", "deleted",
                                       "removed", "refused"},
                                 generation : Nat]]

\* No PUT can reach the object any more: the URL expired, or the browser is done.
Closed == src.protocol = "single_put" => ~time.url \/ client = "done"

\* The deadline of an upload is later than the expiry of its URL.
UrlFirst == time.elapsed => ~time.url

\* An uploaded source was completed, a retired one has a time for its cleanup.
Dated ==
    /\ src.upload = "uploaded" => client = "done"
    /\ src.upload \in {"expired", "deleted"} => src.due # "unset"

\* A cleanup that may be claimed before the deadline finds the upload closed.
DueIsClosed == src.due \in {"now", "later"} => Closed

InCleanup(c) == cleaner[c].pc \notin {"idle", "selected"}

\* What a cleaner has already secured, at each of its steps.
Secured ==
    \A c \in Cleaners :
       /\ InCleanup(c) => Closed
       /\ cleaner[c].pc \in {"unsessioned", "deleted", "removed"} => store.session # "open"
       /\ cleaner[c].pc = "removed" => ~store.object

OnlyMultipart == store.session = "open" => src.protocol # "single_put"

\* A row without its key: the object is gone and stays so.
Gone == ~src.key => ~store.object /\ store.session # "open" /\ Closed

OrphanInvariant ==
    Typed /\ UrlFirst /\ Dated /\ DueIsClosed /\ Secured /\ OnlyMultipart /\ Gone

LEMMA InitHolds == Init => OrphanInvariant
<1> SUFFICES ASSUME Init PROVE OrphanInvariant
    OBVIOUS
<1>1. Typed
    BY CleanupAssumption DEF Init, Typed, SrcTyped
<1> QED
    BY <1>1, CleanupAssumption DEF Init, OrphanInvariant, UrlFirst, Dated, DueIsClosed, Closed, Secured, InCleanup,
                OnlyMultipart, Gone

\* Steps that leave the row, the clock, the store and the cleaners alone.
LEMMA Unconcerned ==
    ASSUME OrphanInvariant, UNCHANGED <<src, time, store, cleaner>>,
           client = "done" => client' = "done"
    PROVE  OrphanInvariant'
BY DEF OrphanInvariant, Typed, SrcTyped, UrlFirst, Dated, DueIsClosed, Closed, Secured, InCleanup,
       OnlyMultipart, Gone

\* Steps of the browser on the object store.
LEMMA UploadHolds == OrphanInvariant /\ Upload => OrphanInvariant'
<1> SUFFICES ASSUME OrphanInvariant, Upload PROVE OrphanInvariant'
    OBVIOUS
<1>1. CASE PutObject
  <2>1. ~Closed
    BY <1>1 DEF PutObject, Closed, OrphanInvariant, Typed
  <2>2. store' = [object |-> TRUE, session |-> store.session]
    BY <1>1 DEF PutObject, OrphanInvariant, Typed
  <2>3. Typed'
    <3>1. store.session \in {"none", "open", "gone"}
      BY DEF OrphanInvariant, Typed
    <3>2. store' \in [object : BOOLEAN, session : {"none", "open", "gone"}]
      BY <2>2, <3>1
    <3> QED
      BY <1>1, <3>2 DEF PutObject, OrphanInvariant, Typed, SrcTyped
  <2>4. src.key /\ \A c \in Cleaners : ~InCleanup(c)
    BY <2>1 DEF OrphanInvariant, Gone, Secured
  <2> QED
    BY <1>1, <2>1, <2>2, <2>3, <2>4
    DEF PutObject, OrphanInvariant, UrlFirst, Dated, DueIsClosed, Closed, Secured, InCleanup,
        OnlyMultipart, Gone
<1>2. CASE CheckUpload
    BY <1>2, Unconcerned DEF CheckUpload
<1>3. CASE CompleteSession
  <2>1. CASE store.session = "open"
    <3>1. store' = [object |-> TRUE, session |-> "gone"]
      BY <1>3, <2>1 DEF CompleteSession
    <3>2. src.key
      BY <2>1 DEF OrphanInvariant, Gone
    <3>3. \A c \in Cleaners : cleaner[c].pc \notin {"unsessioned", "deleted", "removed"}
      BY <2>1 DEF OrphanInvariant, Secured
    <3>4. Typed'
      BY <1>3, <3>1 DEF CompleteSession, OrphanInvariant, Typed, SrcTyped
    <3> QED
      BY <1>3, <3>1, <3>2, <3>3, <3>4
      DEF CompleteSession, OrphanInvariant, UrlFirst, Dated, DueIsClosed, Closed, Secured,
          InCleanup, OnlyMultipart, Gone
  <2>2. CASE store.session # "open"
    BY <1>3, <2>2, Unconcerned DEF CompleteSession
  <2> QED
    BY <2>1, <2>2
<1>4. CASE HeadUpload
  <2>1. client # "done"
    BY <1>4 DEF HeadUpload
  <2> QED
    BY <1>4, <2>1, Unconcerned DEF HeadUpload
<1>5. CASE CommitUpload
  <2>1. CASE StillPending
    <3>1. src' = [src EXCEPT !.upload = "uploaded"]
      BY <1>5, <2>1 DEF CommitUpload
    <3>2. time' = time
      <4>1. time' = [time EXCEPT !.elapsed = FALSE] /\ time.elapsed = FALSE
        BY <1>5, <2>1 DEF CommitUpload, StillPending, OrphanInvariant, Typed
      <4> QED
        BY <4>1 DEF OrphanInvariant, Typed
    <3>3. Typed'
      BY <1>5, <3>1, <3>2 DEF CommitUpload, OrphanInvariant, Typed, SrcTyped
    <3>4. src'.upload = "uploaded" /\ src'.protocol = src.protocol /\ src'.due = src.due
            /\ src'.key = src.key
      BY <3>1 DEF OrphanInvariant, Typed, SrcTyped
    <3> QED
      BY <1>5, <3>2, <3>3, <3>4
      DEF CommitUpload, OrphanInvariant, UrlFirst, Dated, DueIsClosed, Closed, Secured,
          InCleanup, OnlyMultipart, Gone
  <2>2. CASE ~StillPending
    BY <1>5, <2>2, Unconcerned DEF CommitUpload
  <2> QED
    BY <2>1, <2>2
<1> QED
    BY <1>1, <1>2, <1>3, <1>4, <1>5 DEF Upload

\* A row that is retired, keeps its protocol and its key, and is dated so that a
\* cleanup that may start before the deadline finds the upload closed.
LEMMA RetiredHolds ==
    ASSUME OrphanInvariant, UNCHANGED <<time, store, client>>, Typed',
           src'.protocol = src.protocol, src'.key = src.key,
           src'.upload \in {"expired", "deleted"}, src'.due # "unset",
           src'.due \in {"now", "later"} => Closed,
           \A c \in Cleaners : cleaner'[c].pc = "idle" \/ cleaner'[c] = cleaner[c]
    PROVE  OrphanInvariant'
BY DEF OrphanInvariant, UrlFirst, Dated, DueIsClosed, Closed, Secured, InCleanup, OnlyMultipart,
       Gone

LEMMA DeleteHolds == OrphanInvariant /\ DeleteSource => OrphanInvariant'
<1> SUFFICES ASSUME OrphanInvariant, DeleteSource PROVE OrphanInvariant'
    OBVIOUS
<1> DEFINE due == IF src.due = "unset" THEN DueOfDeletion ELSE src.due
           reason == IF src.upload = "deleted" THEN src.reason ELSE "user_deleted"
           cleanup == IF src.cleanup = "completed" THEN src.cleanup ELSE "pending"
<1>1. src' = [src EXCEPT !.upload = "deleted", !.reason = reason, !.cleanup = cleanup,
                         !.due = due]
    BY DEF DeleteSource
<1>2. /\ reason \in {"none", "user_deleted", "upload_aborted", "retention_expired", "exported"}
      /\ cleanup \in {"not_requested", "pending", "failed", "completed"}
      /\ due \in {"now", "later", "expiry"}
    BY DEF OrphanInvariant, Typed, SrcTyped, DueOfDeletion
<1>3. due \in {"now", "later"} => Closed
  <2>1. CASE src.due # "unset"
    BY <2>1 DEF OrphanInvariant, DueIsClosed
  <2>2. CASE src.due = "unset" /\ src.upload = "pending"
    BY <2>2 DEF OrphanInvariant, UrlFirst, DueOfDeletion, Closed
  <2>3. CASE src.due = "unset" /\ src.upload = "uploaded"
    BY <2>3 DEF OrphanInvariant, Dated, Closed
  <2>4. src.due = "unset" => src.upload \in {"pending", "uploaded"}
    BY DEF OrphanInvariant, Dated, Typed, SrcTyped
  <2> QED
    BY <2>1, <2>2, <2>3, <2>4
<1> HIDE DEF due, reason, cleanup
<1>4. SrcTyped' /\ src'.protocol = src.protocol /\ src'.key = src.key
        /\ src'.upload = "deleted" /\ src'.due = due
  <2>1. src' = [protocol |-> src.protocol, upload |-> "deleted", reason |-> reason,
                enrolled |-> src.enrolled, cleanup |-> cleanup, due |-> due,
                key |-> src.key, owner |-> src.owner, generation |-> src.generation]
    BY <1>1 DEF OrphanInvariant, Typed, SrcTyped
  <2> QED
    BY <1>2, <2>1 DEF OrphanInvariant, Typed, SrcTyped
<1>5. UNCHANGED <<time, store, client, cleaner>>
    BY DEF DeleteSource
<1>6. Typed'
    BY <1>4, <1>5 DEF OrphanInvariant, Typed
<1> QED
    BY <1>2, <1>3, <1>4, <1>5, <1>6, RetiredHolds

LEMMA AbortHolds == OrphanInvariant /\ AbortUpload => OrphanInvariant'
<1> SUFFICES ASSUME OrphanInvariant, AbortUpload PROVE OrphanInvariant'
    OBVIOUS
<1>1. SrcTyped' /\ src'.protocol = src.protocol /\ src'.key = src.key
        /\ src'.upload = "deleted" /\ src'.due = "now"
    BY DEF AbortUpload, OrphanInvariant, Typed, SrcTyped
<1>2. UNCHANGED <<time, store, client, cleaner>> /\ Closed
    BY DEF AbortUpload, Closed
<1>3. Typed'
    BY <1>1, <1>2 DEF OrphanInvariant, Typed
<1> QED
    BY <1>1, <1>2, <1>3, RetiredHolds

LEMMA MarkExpiredHolds ==
    ASSUME NEW c \in Cleaners, OrphanInvariant, MarkExpired(c)
    PROVE  OrphanInvariant'
<1> DEFINE due == IF src.due = "unset" THEN "now" ELSE src.due
<1>1. src' = [src EXCEPT !.upload = "expired", !.reason = "retention_expired",
                         !.cleanup = "pending", !.due = due]
    BY DEF MarkExpired
<1>2. due \in {"now", "later", "expiry"} /\ Closed
    BY DEF MarkExpired, OrphanInvariant, UrlFirst, Closed, Typed, SrcTyped
<1> HIDE DEF due
<1>3. SrcTyped' /\ src'.protocol = src.protocol /\ src'.key = src.key
        /\ src'.upload = "expired" /\ src'.due = due
    BY <1>1, <1>2 DEF OrphanInvariant, Typed, SrcTyped
<1>4. UNCHANGED <<time, store, client, cleaner>>
    BY DEF MarkExpired
<1>5. Typed'
    BY <1>3, <1>4 DEF OrphanInvariant, Typed
<1> QED
    BY <1>2, <1>3, <1>4, <1>5, RetiredHolds

\* A cleaner moves between two places where it holds nothing.
LEMMA GotoTyped ==
    ASSUME OrphanInvariant, NEW c \in Cleaners,
           NEW pc \in {"idle", "selected", "claimed", "unsessioned", "deleted", "removed",
                       "refused"},
           Goto(c, pc)
    PROVE  /\ cleaner' \in [Cleaners -> [pc : {"idle", "selected", "claimed", "unsessioned",
                                               "deleted", "removed", "refused"},
                                         generation : Nat]]
           /\ cleaner'[c].pc = pc
           /\ \A d \in Cleaners \ {c} : cleaner'[d] = cleaner[d]
<1>1. cleaner' = [cleaner EXCEPT ![c] = [cleaner[c] EXCEPT !.pc = pc]]
    BY DEF Goto
<1>2. cleaner[c] \in [pc : {"idle", "selected", "claimed", "unsessioned", "deleted",
                            "removed", "refused"}, generation : Nat]
    BY DEF OrphanInvariant, Typed
<1> DEFINE at == [cleaner[c] EXCEPT !.pc = pc]
<1>3. at.pc = pc /\ at \in [pc : {"idle", "selected", "claimed", "unsessioned", "deleted",
                                  "removed", "refused"}, generation : Nat]
    BY <1>2
<1> HIDE DEF at
<1> QED
    BY <1>1, <1>3 DEF OrphanInvariant, Typed, at

\* A cleaner goes on while the row and the clock stay: it is enough that what it
\* has secured there holds, and that the store only loses bytes and sessions.
LEMMA CleanerHolds ==
    ASSUME OrphanInvariant, UNCHANGED <<src, time, client>>, NEW c \in Cleaners,
           NEW pc \in {"idle", "selected", "claimed", "unsessioned", "deleted", "removed",
                       "refused"},
           Goto(c, pc),
           store' \in [object : BOOLEAN, session : {"none", "open", "gone"}],
           store'.object => store.object,
           store'.session = "open" => store.session = "open",
           pc \in {"idle", "selected"} \/ InCleanup(c),
           pc \in {"unsessioned", "deleted", "removed"} => store'.session # "open",
           pc = "removed" => ~store'.object
    PROVE  OrphanInvariant'
<1>1. Typed'
    BY GotoTyped DEF OrphanInvariant, Typed, SrcTyped
<1>2. Secured'
    BY GotoTyped DEF OrphanInvariant, Secured, InCleanup, Closed
<1> QED
    BY <1>1, <1>2 DEF OrphanInvariant, UrlFirst, Dated, DueIsClosed, Closed, OnlyMultipart, Gone

LEMMA RetireExportedHolds ==
    ASSUME NEW c \in Cleaners, OrphanInvariant, RetireExported(c)
    PROVE  OrphanInvariant'
<1>1. CASE src' = src
  <2>1. Goto(c, "idle") /\ UNCHANGED <<src, time, store, client>>
    BY <1>1 DEF RetireExported
  <2> QED
    BY <2>1, CleanerHolds DEF OrphanInvariant, Typed
<1>2. CASE src' # src
  <2>1. /\ src' = [src EXCEPT !.upload = "deleted", !.reason = "exported",
                              !.cleanup = "pending", !.due = "now"]
        /\ src.upload = "uploaded"
    BY <1>2 DEF RetireExported
  <2>2. SrcTyped' /\ src'.protocol = src.protocol /\ src'.key = src.key
          /\ src'.upload = "deleted" /\ src'.due = "now"
    BY <2>1 DEF OrphanInvariant, Typed, SrcTyped
  <2>3. Closed
    BY <2>1 DEF OrphanInvariant, Dated, Closed
  <2>4. Goto(c, "idle") /\ UNCHANGED <<time, store, client>>
    BY DEF RetireExported
  <2>5. \A d \in Cleaners : cleaner'[d].pc = "idle" \/ cleaner'[d] = cleaner[d]
    BY <2>4, GotoTyped
  <2>6. Typed'
    BY <2>2, <2>4, GotoTyped DEF OrphanInvariant, Typed
  <2> QED
    BY <2>2, <2>3, <2>4, <2>5, <2>6, RetiredHolds
<1> QED
    BY <1>1, <1>2

LEMMA ClaimHolds ==
    ASSUME NEW c \in Cleaners, OrphanInvariant, ClaimCleanup(c)
    PROVE  OrphanInvariant'
<1>1. src' = [src EXCEPT !.cleanup = "pending", !.owner = c, !.generation = src.generation + 1]
    BY DEF ClaimCleanup
<1>2. /\ SrcTyped' /\ src'.protocol = src.protocol /\ src'.key = src.key
      /\ src'.upload = src.upload /\ src'.due = src.due
  <2>1. src' = [protocol |-> src.protocol, upload |-> src.upload, reason |-> src.reason,
                enrolled |-> src.enrolled, cleanup |-> "pending", due |-> src.due,
                key |-> src.key, owner |-> c, generation |-> src.generation + 1]
    BY <1>1 DEF OrphanInvariant, Typed, SrcTyped
  <2> QED
    BY <2>1 DEF OrphanInvariant, Typed, SrcTyped
<1>3. time' = [time EXCEPT !.leased = TRUE] /\ UNCHANGED <<store, client>>
    BY DEF ClaimCleanup
<1>4. /\ time' \in [url : BOOLEAN, elapsed : BOOLEAN, leased : BOOLEAN]
      /\ time'.url = time.url /\ time'.elapsed = time.elapsed
    BY <1>3 DEF OrphanInvariant, Typed
<1>5. Closed
  <2>1. CASE src.due = "now"
    BY <2>1 DEF OrphanInvariant, DueIsClosed
  <2>2. CASE time.elapsed
    BY <2>2 DEF OrphanInvariant, UrlFirst, Closed
  <2> QED
    BY <2>1, <2>2 DEF ClaimCleanup, Due
<1>6. cleaner' = [cleaner EXCEPT ![c] = [pc |-> "claimed", generation |-> src.generation + 1]]
    BY DEF ClaimCleanup
<1>7. Typed'
    BY <1>2, <1>3, <1>4, <1>6 DEF OrphanInvariant, Typed, SrcTyped
<1>8. cleaner'[c].pc = "claimed" /\ \A d \in Cleaners \ {c} : cleaner'[d] = cleaner[d]
    BY <1>6 DEF OrphanInvariant, Typed
<1>9. Secured'
    BY <1>2, <1>3, <1>4, <1>5, <1>8 DEF OrphanInvariant, Secured, InCleanup, Closed
<1> QED
    BY <1>2, <1>3, <1>4, <1>7, <1>9
    DEF OrphanInvariant, UrlFirst, Dated, DueIsClosed, Closed, OnlyMultipart, Gone

LEMMA FinalizeHolds ==
    ASSUME NEW c \in Cleaners, OrphanInvariant, Finalize(c)
    PROVE  OrphanInvariant'
<1>1. Goto(c, "idle") /\ UNCHANGED <<time, store, client>>
    BY DEF Finalize
<1>2. Closed
    BY DEF Finalize, OrphanInvariant, Secured, InCleanup
<1>3. CASE src' = src
    BY <1>1, <1>3, CleanerHolds DEF OrphanInvariant, Typed
<1>4. CASE src' = [src EXCEPT !.cleanup = "failed", !.due = "later", !.owner = Nobody]
  <2>1. SrcTyped' /\ src'.protocol = src.protocol /\ src'.key = src.key
          /\ src'.upload = src.upload /\ src'.due = "later"
    BY <1>4 DEF OrphanInvariant, Typed, SrcTyped
  <2>2. Typed'
    BY <1>1, <2>1, GotoTyped DEF OrphanInvariant, Typed
  <2>3. Secured'
    BY <1>1, <2>1, GotoTyped DEF OrphanInvariant, Secured, InCleanup, Closed
  <2> QED
    BY <1>1, <1>2, <2>1, <2>2, <2>3
    DEF OrphanInvariant, UrlFirst, Dated, DueIsClosed, Closed, OnlyMultipart, Gone
<1>5. CASE /\ cleaner[c].pc = "removed"
           /\ src' = [src EXCEPT !.cleanup = "completed", !.key = FALSE, !.owner = Nobody]
  <2>1. SrcTyped' /\ src'.protocol = src.protocol /\ src'.upload = src.upload
          /\ src'.due = src.due
    BY <1>5 DEF OrphanInvariant, Typed, SrcTyped
  <2>2. Typed'
    BY <1>1, <2>1, GotoTyped DEF OrphanInvariant, Typed
  <2>3. Secured'
    BY <1>1, <2>1, GotoTyped DEF OrphanInvariant, Secured, InCleanup, Closed
  <2>4. ~store.object /\ store.session # "open"
    BY <1>5 DEF OrphanInvariant, Secured
  <2> QED
    BY <1>1, <1>2, <2>1, <2>2, <2>3, <2>4
    DEF OrphanInvariant, UrlFirst, Dated, DueIsClosed, Closed, OnlyMultipart, Gone
<1> QED
    BY <1>3, <1>4, <1>5 DEF Finalize

LEMMA ClockHolds ==
    OrphanInvariant /\ (UrlExpires \/ ExpiryPasses \/ RetryDelayPasses \/ LeaseExpires)
       => OrphanInvariant'
<1> SUFFICES ASSUME OrphanInvariant,
                    UrlExpires \/ ExpiryPasses \/ RetryDelayPasses \/ LeaseExpires
             PROVE  OrphanInvariant'
    OBVIOUS
<1>1. CASE UrlExpires \/ ExpiryPasses \/ LeaseExpires
  <2>1. UNCHANGED <<src, store, client, cleaner>>
    BY <1>1 DEF UrlExpires, ExpiryPasses, LeaseExpires
  <2>2. /\ time' \in [url : BOOLEAN, elapsed : BOOLEAN, leased : BOOLEAN]
        /\ time'.url => time.url
        /\ time'.elapsed => ~time'.url
    <3>1. CASE UrlExpires
      BY <3>1 DEF UrlExpires, OrphanInvariant, Typed
    <3>2. CASE ExpiryPasses
      BY <3>2 DEF ExpiryPasses, OrphanInvariant, Typed
    <3>3. CASE LeaseExpires
      BY <3>3 DEF LeaseExpires, OrphanInvariant, Typed, UrlFirst
    <3> QED
      BY <1>1, <3>1, <3>2, <3>3
  <2>3. Typed'
    BY <2>1, <2>2 DEF OrphanInvariant, Typed, SrcTyped
  <2> QED
    BY <2>1, <2>2, <2>3
    DEF OrphanInvariant, UrlFirst, Dated, DueIsClosed, Closed, Secured, InCleanup, OnlyMultipart,
        Gone
<1>2. CASE RetryDelayPasses
  <2>1. SrcTyped' /\ src'.protocol = src.protocol /\ src'.upload = src.upload
          /\ src'.key = src.key /\ src'.due = "now" /\ src.due = "later"
    BY <1>2 DEF RetryDelayPasses, OrphanInvariant, Typed, SrcTyped
  <2>2. Typed' /\ UNCHANGED <<time, store, client, cleaner>>
    BY <1>2, <2>1 DEF RetryDelayPasses, OrphanInvariant, Typed
  <2> QED
    BY <2>1, <2>2
    DEF OrphanInvariant, UrlFirst, Dated, DueIsClosed, Closed, Secured, InCleanup, OnlyMultipart,
        Gone
<1> QED
    BY <1>1, <1>2

LEMMA CleanupStepHolds ==
    ASSUME NEW c \in Cleaners, OrphanInvariant,
           CleanupPass(c) \/ StorageFails(c) \/ Crash(c)
    PROVE  OrphanInvariant'
<1>0. store \in [object : BOOLEAN, session : {"none", "open", "gone"}]
    BY DEF OrphanInvariant, Typed
<1>1. CASE SelectExported(c)
    BY <1>0, <1>1, CleanerHolds DEF SelectExported
<1>2. CASE AbortSession(c)
  <2>1. store' = [store EXCEPT !.session = "gone"] /\ Goto(c, "unsessioned")
          /\ UNCHANGED <<src, time, client>> /\ InCleanup(c)
    BY <1>2 DEF AbortSession, InCleanup
  <2>2. store' \in [object : BOOLEAN, session : {"none", "open", "gone"}]
          /\ store'.session = "gone" /\ store'.object = store.object
    BY <1>0, <2>1
  <2> QED
    BY <2>1, <2>2, CleanerHolds
<1>3. CASE DeleteObject(c)
  <2>1. store' = [store EXCEPT !.object = FALSE] /\ Goto(c, "deleted")
          /\ UNCHANGED <<src, time, client>> /\ InCleanup(c)
    BY <1>3 DEF DeleteObject, ReadyToDelete, InCleanup
  <2>2. store' \in [object : BOOLEAN, session : {"none", "open", "gone"}]
          /\ store'.session = store.session /\ ~store'.object
    BY <1>0, <2>1
  <2>3. store.session # "open"
    BY <1>3, CleanupAssumption
    DEF DeleteObject, ReadyToDelete, OrphanInvariant, Secured, OnlyMultipart, Typed, SrcTyped
  <2> QED
    BY <2>1, <2>2, <2>3, CleanerHolds
<1>4. CASE ConfirmRemoved(c)
  <2>1. store' = store /\ UNCHANGED <<src, time, client>> /\ InCleanup(c)
          /\ store.session # "open"
    BY <1>4 DEF ConfirmRemoved, InCleanup, OrphanInvariant, Secured
  <2>2. CASE store.object
    BY <1>0, <1>4, <2>1, <2>2, CleanerHolds DEF ConfirmRemoved
  <2>3. CASE ~store.object
    BY <1>0, <1>4, <2>1, <2>3, CleanerHolds DEF ConfirmRemoved
  <2> QED
    BY <2>2, <2>3
<1>5. CASE StorageFails(c)
    BY <1>0, <1>5, CleanerHolds DEF StorageFails, InCleanup
<1>6. CASE Crash(c)
    BY <1>0, <1>6, CleanerHolds DEF Crash
<1> QED
    BY <1>1, <1>2, <1>3, <1>4, <1>5, <1>6, MarkExpiredHolds, RetireExportedHolds, ClaimHolds,
       FinalizeHolds DEF CleanupPass

\* The jobs, the audio preparation and their readers only look at the source.
LEMMA ReaderHolds ==
    ASSUME OrphanInvariant,
           \/ \E j \in Jobs : \/ CreateJob(j) \/ ClaimJob(j) \/ RunStep(j) \/ RecoverJob(j)
                              \/ CancelJob(j) \/ EvaluateRetry(j) \/ QueueRetry(j)
           \/ ReadForAudio \/ StartAudio \/ EndAudio
    PROVE  OrphanInvariant'
<1>1. UNCHANGED <<src, time, store, client, cleaner>>
    BY DEF CreateJob, ClaimJob, RunStep, BeginJob, VerifySource, ReadObject, FinishJob,
           RecoverJob, CancelJob, EvaluateRetry, QueueRetry, NoOtherChange, ReadForAudio,
           StartAudio, EndAudio
<1> QED
    BY <1>1, Unconcerned

LEMMA NextHolds == OrphanInvariant /\ [Next]_vars => OrphanInvariant'
<1> SUFFICES ASSUME OrphanInvariant, [Next]_vars PROVE OrphanInvariant'
    OBVIOUS
<1>1. CASE UNCHANGED vars
    BY <1>1, Unconcerned DEF vars
<1>2. CASE Next
    BY <1>2, UploadHolds, DeleteHolds, AbortHolds, CleanupStepHolds, ClockHolds, ReaderHolds
    DEF Next
<1> QED
    BY <1>1, <1>2

\* The inductive invariant: what a cleaner has secured at each of its steps stays
\* secured, whatever the browser, the owner, the clock and other cleaners do
\* (source_deletion.py:346-351, :443-573; main.py:2847-3076).
THEOREM OrphanInvariantHolds == Spec => []OrphanInvariant
BY InitHolds, NextHolds, PTL DEF Spec

\* No object and no upload session is ever left without the row that names it: a
\* cleanup that completed stays complete (source_deletion.py:494-530, :559-566).
THEOREM NoOrphanHolds == Spec => []NoOrphan
<1>1. OrphanInvariant => NoOrphan
    BY DEF OrphanInvariant, Gone, NoOrphan
<1> QED
    BY <1>1, OrphanInvariantHolds, PTL

(***************************************************************************)
(* The bytes are there for those who rely on them: the row that says       *)
(* "uploaded" and the runs that verified the source.  A cleanup deletes    *)
(* only for a retired source, a retired source is never uploaded again,    *)
(* and a run that verified its source found no cleanup under way.          *)
(***************************************************************************)

\* The places a job and its run can be in together; a retry was decided for a
\* failed job, and nothing else moves a failed job.
JobOrdered(j) ==
    /\ job[j] \in [status : {"absent", "queued", "processing", "completed", "failed",
                             "cancelled"},
                   run : Run, retry : BOOLEAN]
    /\ job[j].run = "claimed" => job[j].status = "queued"
    /\ job[j].run \in {"started", "verified", "loaded"} => job[j].status = "processing"
    /\ job[j].retry => job[j].status = "failed"

JobsOrdered == job = [j \in Jobs |-> job[j]] /\ \A j \in Jobs : JobOrdered(j)

\* A cleanup is requested, and carried out, for a retired source only.
OnlyRetired ==
    /\ src.cleanup # "not_requested" => Retired
    /\ \A c \in Cleaners : InCleanup(c) => Retired

\* What the browser saw in the store is there as long as the source is pending.
HeadedIsStored == client = "headed" /\ src.upload = "pending" => store.object

Reads(j) == job[j].run \in {"verified", "loaded"}

\* While a run reads the source, no cleaner is at work on it.
ReadersAlone == \A j \in Jobs : Reads(j) => \A c \in Cleaners : ~InCleanup(c)

ExportedIsDeleted == src.reason = "exported" => src.upload = "deleted"

StorageInvariant ==
    /\ OrphanInvariant
    /\ JobsOrdered /\ OnlyRetired /\ HeadedIsStored /\ ReadersAlone /\ ExportedIsDeleted
    /\ UploadedIsStored /\ RunsFindTheirObject /\ ExportedMeansDelivered

LEMMA StorageInit == Init => StorageInvariant
<1> SUFFICES ASSUME Init PROVE StorageInvariant
    OBVIOUS
<1>1. OrphanInvariant
    BY InitHolds
<1>2. job = [j \in Jobs |-> [status |-> "absent", run |-> "none", retry |-> FALSE]]
        /\ client = "idle" /\ \A c \in Cleaners : cleaner[c].pc = "idle"
    BY DEF Init
<1>3. src.upload = "pending" /\ src.cleanup = "not_requested" /\ src.reason = "none"
    BY DEF Init
<1> QED
    BY <1>1, <1>2, <1>3
    DEF StorageInvariant, JobsOrdered, JobOrdered, Run, OnlyRetired, HeadedIsStored, Reads,
        ReadersAlone, ExportedIsDeleted, UploadedIsStored, RunsFindTheirObject,
        ExportedMeansDelivered, InCleanup

\* The row goes on as it is: bytes are lost to a cleaner only, and the browser
\* takes the row for stored only when it saw the bytes.
LEMMA RowStays ==
    ASSUME StorageInvariant, OrphanInvariant', job' = job,
           src'.upload = src.upload, src'.reason = src.reason,
           src'.cleanup # "not_requested" => src.cleanup # "not_requested",
           store.object => store'.object \/ \E c \in Cleaners : InCleanup(c),
           client' = "headed" => client = "headed" \/ store'.object,
           \A c \in Cleaners : InCleanup(c)' => InCleanup(c)
    PROVE  StorageInvariant'
<1>1. JobsOrdered'
    BY DEF StorageInvariant, JobsOrdered, JobOrdered
<1>2. OnlyRetired' /\ HeadedIsStored' /\ UploadedIsStored'
    BY DEF StorageInvariant, OnlyRetired, HeadedIsStored, UploadedIsStored, Retired
<1>3. ReadersAlone' /\ RunsFindTheirObject'
    BY DEF StorageInvariant, ReadersAlone, RunsFindTheirObject, Reads
<1>4. ExportedIsDeleted' /\ ExportedMeansDelivered'
    BY DEF StorageInvariant, ExportedIsDeleted, ExportedMeansDelivered
<1> QED
    BY <1>1, <1>2, <1>3, <1>4 DEF StorageInvariant

\* The row is retired; as exported only when every document is delivered.
LEMMA RowRetires ==
    ASSUME StorageInvariant, OrphanInvariant', UNCHANGED <<store, client, job>>,
           src'.upload \in {"expired", "deleted"},
           src'.reason = "exported" =>
               src'.upload = "deleted" /\ \A j \in Jobs : job[j].status \in {"absent", "completed"},
           \A c \in Cleaners : InCleanup(c)' => InCleanup(c)
    PROVE  StorageInvariant'
<1>1. JobsOrdered'
    BY DEF StorageInvariant, JobsOrdered, JobOrdered
<1>2. OnlyRetired' /\ HeadedIsStored' /\ UploadedIsStored'
    BY DEF StorageInvariant, OnlyRetired, HeadedIsStored, UploadedIsStored, Retired
<1>3. ReadersAlone' /\ RunsFindTheirObject'
    BY DEF StorageInvariant, ReadersAlone, RunsFindTheirObject, Reads
<1>4. ExportedIsDeleted' /\ ExportedMeansDelivered'
    BY DEF StorageInvariant, ExportedIsDeleted, ExportedMeansDelivered
<1> QED
    BY <1>1, <1>2, <1>3, <1>4 DEF StorageInvariant

LEMMA StorageUpload == StorageInvariant /\ Upload => StorageInvariant'
<1> SUFFICES ASSUME StorageInvariant, Upload PROVE StorageInvariant'
    OBVIOUS
<1>1. OrphanInvariant /\ OrphanInvariant'
    BY UploadHolds DEF StorageInvariant
<1>2. UNCHANGED <<job, cleaner>>
    BY DEF Upload, PutObject, CheckUpload, CompleteSession, HeadUpload, CommitUpload
<1>3. CASE CommitUpload /\ StillPending
  <2>1. src' = [src EXCEPT !.upload = "uploaded"] /\ client = "headed" /\ client' = "done"
          /\ store' = store /\ src.upload = "pending"
    BY <1>3 DEF CommitUpload, StillPending
  <2>2. src'.upload = "uploaded" /\ src'.reason = src.reason /\ src'.cleanup = src.cleanup
    BY <1>1, <2>1 DEF OrphanInvariant, Typed, SrcTyped
  <2>3. store.object
    BY <2>1 DEF StorageInvariant, HeadedIsStored
  <2>4. src.cleanup = "not_requested" /\ src.reason # "exported"
          /\ \A c \in Cleaners : ~InCleanup(c)
    BY <2>1 DEF StorageInvariant, OnlyRetired, Retired, ExportedIsDeleted
  <2>5. JobsOrdered'
    BY <1>2 DEF StorageInvariant, JobsOrdered, JobOrdered
  <2>6. OnlyRetired' /\ HeadedIsStored' /\ UploadedIsStored'
    BY <1>2, <2>1, <2>2, <2>3, <2>4
    DEF OnlyRetired, HeadedIsStored, UploadedIsStored, InCleanup
  <2>7. ReadersAlone' /\ RunsFindTheirObject'
    BY <1>2, <2>1, <2>3, <2>4 DEF ReadersAlone, RunsFindTheirObject, InCleanup
  <2>8. ExportedIsDeleted' /\ ExportedMeansDelivered'
    BY <2>2, <2>4 DEF ExportedIsDeleted, ExportedMeansDelivered
  <2> QED
    BY <1>1, <2>5, <2>6, <2>7, <2>8 DEF StorageInvariant
<1>4. CASE ~(CommitUpload /\ StillPending)
  <2>1. src' = src
    BY <1>4 DEF Upload, PutObject, CheckUpload, CompleteSession, HeadUpload, CommitUpload
  <2>2. store.object => store'.object
    BY <1>1, <1>4
    DEF Upload, PutObject, CheckUpload, CompleteSession, HeadUpload, CommitUpload,
        OrphanInvariant, Typed
  <2>3. client' = "headed" => client = "headed" \/ store'.object
    BY DEF Upload, PutObject, CheckUpload, CompleteSession, HeadUpload, CommitUpload
  <2> QED
    BY <1>1, <1>2, <2>1, <2>2, <2>3, RowStays DEF InCleanup
<1> QED
    BY <1>3, <1>4

\* The owner and the retention retire the source, never as exported.
LEMMA StorageRetired ==
    ASSUME StorageInvariant,
           DeleteSource \/ AbortUpload \/ \E c \in Cleaners : MarkExpired(c)
    PROVE  StorageInvariant'
<1>1. OrphanInvariant /\ OrphanInvariant'
    BY DeleteHolds, AbortHolds, MarkExpiredHolds DEF StorageInvariant
<1>2. UNCHANGED <<store, client, job, cleaner>>
    BY DEF DeleteSource, AbortUpload, MarkExpired
<1>3. /\ src'.upload \in {"expired", "deleted"}
      /\ src'.reason = "exported" => src.reason = "exported" /\ src'.upload = "deleted"
  <2>1. CASE DeleteSource
    <3>1. src'.upload = "deleted"
            /\ src'.reason = IF src.upload = "deleted" THEN src.reason ELSE "user_deleted"
      BY <1>1, <2>1 DEF DeleteSource, OrphanInvariant, Typed, SrcTyped
    <3> QED
      BY <3>1
  <2>2. CASE AbortUpload
    BY <1>1, <2>2 DEF AbortUpload, OrphanInvariant, Typed, SrcTyped
  <2>3. CASE \E c \in Cleaners : MarkExpired(c)
    <3>1. src'.upload = "expired" /\ src'.reason = "retention_expired"
      BY <1>1, <2>3 DEF MarkExpired, OrphanInvariant, Typed, SrcTyped
    <3> QED
      BY <3>1
  <2> QED
    BY <2>1, <2>2, <2>3
<1>4. src.reason = "exported" => \A j \in Jobs : job[j].status \in {"absent", "completed"}
    BY DEF StorageInvariant, ExportedMeansDelivered
<1> QED
    BY <1>1, <1>2, <1>3, <1>4, RowRetires DEF InCleanup


\* An exported source: the jobs read again under the lock of the row.
LEMMA StorageExported ==
    ASSUME NEW c \in Cleaners, StorageInvariant, RetireExported(c)
    PROVE  StorageInvariant'
<1>1. OrphanInvariant /\ OrphanInvariant'
    BY RetireExportedHolds DEF StorageInvariant
<1>2. UNCHANGED <<store, client, job>> /\ Goto(c, "idle")
    BY DEF RetireExported
<1>3. \A d \in Cleaners : InCleanup(d)' => InCleanup(d)
    BY <1>1, <1>2, GotoTyped DEF InCleanup
<1>4. CASE src' = src
    BY <1>1, <1>2, <1>3, <1>4, RowStays
<1>5. CASE src' # src
  <2>1. /\ src' = [src EXCEPT !.upload = "deleted", !.reason = "exported",
                              !.cleanup = "pending", !.due = "now"]
        /\ ~Unmet
    BY <1>5 DEF RetireExported
  <2>2. src'.upload = "deleted"
    BY <1>1, <2>1 DEF OrphanInvariant, Typed, SrcTyped
  <2>3. \A j \in Jobs : job[j].status \in {"absent", "completed"}
    BY <2>1 DEF Unmet
  <2> QED
    BY <1>1, <1>2, <1>3, <2>2, <2>3, RowRetires
<1> QED
    BY <1>4, <1>5

\* A cleaner claims a retired source that no run is processing.
LEMMA StorageClaimed ==
    ASSUME NEW c \in Cleaners, StorageInvariant, ClaimCleanup(c)
    PROVE  StorageInvariant'
<1>1. OrphanInvariant /\ OrphanInvariant'
    BY ClaimHolds DEF StorageInvariant
<1>2. UNCHANGED <<store, client, job>>
    BY DEF ClaimCleanup
<1>3. /\ src'.upload = src.upload /\ src'.reason = src.reason
      /\ src.cleanup \in {"pending", "failed"}
    BY <1>1 DEF ClaimCleanup, OrphanInvariant, Typed, SrcTyped
<1>4. Retired /\ Retired'
    BY <1>3 DEF StorageInvariant, OnlyRetired, Retired
<1>5. \A j \in Jobs : ~Reads(j)
    BY DEF ClaimCleanup, NoProcessingReference, StorageInvariant, JobsOrdered, JobOrdered, Reads
<1>6. JobsOrdered' /\ OnlyRetired' /\ HeadedIsStored' /\ UploadedIsStored'
    BY <1>2, <1>3, <1>4
    DEF StorageInvariant, JobsOrdered, JobOrdered, OnlyRetired, HeadedIsStored,
        UploadedIsStored, Retired
<1>7. ReadersAlone' /\ RunsFindTheirObject'
    BY <1>2, <1>5 DEF ReadersAlone, RunsFindTheirObject, Reads
<1>8. ExportedIsDeleted' /\ ExportedMeansDelivered'
    BY <1>2, <1>3 DEF StorageInvariant, ExportedIsDeleted, ExportedMeansDelivered
<1> QED
    BY <1>1, <1>6, <1>7, <1>8 DEF StorageInvariant

\* A cleaner goes on: the object goes only where it is in its cleanup.
LEMMA StorageCleaned ==
    ASSUME NEW c \in Cleaners, StorageInvariant,
           \/ SelectExported(c) \/ AbortSession(c) \/ DeleteObject(c) \/ ConfirmRemoved(c)
           \/ StorageFails(c) \/ Crash(c) \/ Finalize(c)
    PROVE  StorageInvariant'
<1>1. OrphanInvariant /\ OrphanInvariant'
    BY CleanupStepHolds DEF StorageInvariant, CleanupPass
<1>2. UNCHANGED <<client, job>>
    BY DEF SelectExported, AbortSession, DeleteObject, ConfirmRemoved, StorageFails, Crash,
           Finalize
<1>3. PICK pc \in {"idle", "selected", "claimed", "unsessioned", "deleted", "removed",
                   "refused"} :
          Goto(c, pc) /\ (pc \in {"idle", "selected"} \/ InCleanup(c))
    BY DEF SelectExported, AbortSession, DeleteObject, ConfirmRemoved, StorageFails, Crash,
           Finalize, ReadyToDelete, InCleanup
<1>4. \A d \in Cleaners : InCleanup(d)' => InCleanup(d)
    BY <1>1, <1>3, GotoTyped DEF InCleanup
<1>5. store.object => store'.object \/ InCleanup(c)
    BY <1>1
    DEF SelectExported, AbortSession, DeleteObject, ConfirmRemoved, StorageFails, Crash,
        Finalize, ReadyToDelete, InCleanup, OrphanInvariant, Typed
<1>6. /\ src'.upload = src.upload /\ src'.reason = src.reason
      /\ src'.cleanup # "not_requested" => src.cleanup # "not_requested"
  <2>1. CASE src' = src
    BY <2>1
  <2>2. CASE Finalize(c) /\ src' # src
    <3>1. \/ src' = [src EXCEPT !.cleanup = "completed", !.key = FALSE, !.owner = Nobody]
          \/ src' = [src EXCEPT !.cleanup = "failed", !.due = "later", !.owner = Nobody]
      BY <2>2 DEF Finalize
    <3>2. src.cleanup = "pending"
      BY <2>2 DEF Finalize
    <3>3. src'.upload = src.upload /\ src'.reason = src.reason
      BY <1>1, <3>1, ZenonT(30) DEF OrphanInvariant, Typed, SrcTyped
    <3> QED
      BY <3>2, <3>3
  <2> QED
    BY <2>1, <2>2
    DEF SelectExported, AbortSession, DeleteObject, ConfirmRemoved, StorageFails, Crash
<1> QED
    BY <1>1, <1>2, <1>4, <1>5, <1>6, RowStays

LEMMA StorageClock ==
    StorageInvariant /\ (UrlExpires \/ ExpiryPasses \/ RetryDelayPasses \/ LeaseExpires)
       => StorageInvariant'
<1> SUFFICES ASSUME StorageInvariant,
                    UrlExpires \/ ExpiryPasses \/ RetryDelayPasses \/ LeaseExpires
             PROVE  StorageInvariant'
    OBVIOUS
<1>1. OrphanInvariant /\ OrphanInvariant'
    BY ClockHolds DEF StorageInvariant
<1>2. UNCHANGED <<store, client, job, cleaner>>
    BY DEF UrlExpires, ExpiryPasses, RetryDelayPasses, LeaseExpires
<1>3. src'.upload = src.upload /\ src'.reason = src.reason /\ src'.cleanup = src.cleanup
    BY <1>1
    DEF UrlExpires, ExpiryPasses, RetryDelayPasses, LeaseExpires, OrphanInvariant, Typed,
        SrcTyped
<1> QED
    BY <1>1, <1>2, <1>3, RowStays DEF InCleanup

\* A job moves: it may start to read where it finds an uploaded source, and leave
\* what it was in only while the source is not retired as exported.
LEMMA JobMoves ==
    ASSUME StorageInvariant, OrphanInvariant', UNCHANGED <<src, store, client, cleaner>>,
           NEW j \in Jobs, NEW moved, job' = [job EXCEPT ![j] = moved],
           JobOrdered(j)',
           job'[j].run \in {"verified", "loaded"} => src.upload = "uploaded" \/ Reads(j),
           \/ src.upload = "uploaded" \/ job[j].status \notin {"absent", "completed"}
    PROVE  StorageInvariant'
<1>1. \A k \in Jobs \ {j} : job'[k] = job[k]
    BY DEF StorageInvariant, JobsOrdered
<1>2. job' = [k \in Jobs |-> job'[k]]
    BY DEF StorageInvariant, JobsOrdered
<1>3. JobsOrdered'
    BY <1>1, <1>2 DEF StorageInvariant, JobsOrdered, JobOrdered
<1>4. src.upload = "uploaded" => store.object /\ \A c \in Cleaners : ~InCleanup(c)
    BY DEF StorageInvariant, UploadedIsStored, OnlyRetired, Retired
<1>5. ReadersAlone' /\ RunsFindTheirObject'
    BY <1>1, <1>4
    DEF StorageInvariant, ReadersAlone, RunsFindTheirObject, Reads, InCleanup
<1>6. ExportedIsDeleted' /\ src.reason # "exported"
    BY DEF StorageInvariant, ExportedIsDeleted, ExportedMeansDelivered
<1>7. OnlyRetired' /\ HeadedIsStored' /\ UploadedIsStored' /\ ExportedMeansDelivered'
    BY <1>6
    DEF StorageInvariant, OnlyRetired, HeadedIsStored, UploadedIsStored, Retired, InCleanup,
        ExportedMeansDelivered
<1> QED
    BY <1>3, <1>5, <1>6, <1>7 DEF StorageInvariant

LEMMA StorageRead ==
    ASSUME NEW j \in Jobs, StorageInvariant,
           \/ CreateJob(j) \/ ClaimJob(j) \/ RunStep(j) \/ RecoverJob(j)
           \/ CancelJob(j) \/ EvaluateRetry(j) \/ QueueRetry(j)
    PROVE  StorageInvariant'
<1>1. OrphanInvariant' /\ UNCHANGED <<src, store, client, cleaner>>
  <2>1. OrphanInvariant'
    BY ReaderHolds DEF StorageInvariant
  <2> QED
    BY <2>1
    DEF CreateJob, ClaimJob, RunStep, BeginJob, VerifySource, ReadObject, FinishJob, RecoverJob,
        CancelJob, EvaluateRetry, QueueRetry, NoOtherChange
<1>2. JobOrdered(j) /\ job = [k \in Jobs |-> job[k]]
    BY DEF StorageInvariant, JobsOrdered
<1>3. ASSUME NEW moved \in [status : {"queued", "processing", "completed", "failed", "cancelled"},
                            run : Run, retry : BOOLEAN],
             job' = [job EXCEPT ![j] = moved],
             moved.run = "claimed" => moved.status = "queued",
             moved.run \in {"started", "verified", "loaded"} => moved.status = "processing",
             moved.retry => moved.status = "failed",
             moved.run \in {"verified", "loaded"} => src.upload = "uploaded" \/ Reads(j),
             src.upload = "uploaded" \/ job[j].status \notin {"absent", "completed"}
      PROVE  StorageInvariant'
  <2>1. job'[j] = moved
    BY <1>2, <1>3
  <2>2. JobOrdered(j)'
    BY <1>3, <2>1 DEF JobOrdered
  <2> QED
    BY <1>1, <1>3, <2>1, <2>2, JobMoves
<1>4. ASSUME NEW status \in {"queued", "processing", "completed", "failed", "cancelled"},
             NEW run \in Run, SetJob(j, status, run),
             run = "claimed" => status = "queued",
             run \in {"started", "verified", "loaded"} => status = "processing",
             job[j].retry => status = "failed",
             run \in {"verified", "loaded"} => src.upload = "uploaded" \/ Reads(j),
             src.upload = "uploaded" \/ job[j].status \notin {"absent", "completed"}
      PROVE  StorageInvariant'
  <2> DEFINE moved == [job[j] EXCEPT !.status = status, !.run = run]
  <2>1. job' = [job EXCEPT ![j] = moved]
    BY <1>4 DEF SetJob
  <2>2. /\ moved \in [status : {"queued", "processing", "completed", "failed", "cancelled"},
                      run : Run, retry : BOOLEAN]
        /\ moved.status = status /\ moved.run = run /\ moved.retry = job[j].retry
    BY <1>2 DEF JobOrdered
  <2> HIDE DEF moved
  <2> QED
    BY <1>3, <1>4, <2>1, <2>2
<1>5. job[j].retry \in BOOLEAN /\ job[j].status \in {"absent", "queued", "processing",
                                                     "completed", "failed", "cancelled"}
    BY <1>2 DEF JobOrdered
<1>6. Usable => src.upload = "uploaded"
    BY DEF Usable
<1>7. CASE CreateJob(j)
    BY <1>2, <1>4, <1>5, <1>6, <1>7 DEF CreateJob, JobOrdered, Run
<1>8. CASE ClaimJob(j)
    BY <1>2, <1>4, <1>5, <1>6, <1>8 DEF ClaimJob, JobOrdered, Run
<1>9. CASE BeginJob(j)
    BY <1>2, <1>4, <1>5, <1>6, <1>9 DEF BeginJob, JobOrdered, Run
<1>10. CASE VerifySource(j)
  <2>1. CASE Usable /\ store.object
    BY <1>2, <1>4, <1>5, <1>6, <1>10, <2>1 DEF VerifySource, JobOrdered, Run
  <2>2. CASE ~(Usable /\ store.object)
    BY <1>2, <1>4, <1>5, <1>6, <1>10, <2>2 DEF VerifySource, JobOrdered, Run
  <2> QED
    BY <2>1, <2>2
<1>11. CASE ReadObject(j)
  <2>1. CASE Usable /\ store.object
    BY <1>2, <1>4, <1>5, <1>6, <1>11, <2>1 DEF ReadObject, JobOrdered, Run, Reads
  <2>2. CASE ~(Usable /\ store.object)
    BY <1>2, <1>4, <1>5, <1>6, <1>11, <2>2 DEF ReadObject, JobOrdered, Run
  <2> QED
    BY <2>1, <2>2
<1>12. CASE FinishJob(j)
    BY <1>2, <1>4, <1>5, <1>12 DEF FinishJob, JobOrdered, Run
<1>13. CASE RecoverJob(j)
    BY <1>2, <1>4, <1>5, <1>6, <1>13 DEF RecoverJob, JobOrdered, Run
<1>14. CASE CancelJob(j)
    BY <1>2, <1>4, <1>5, <1>14 DEF CancelJob, JobOrdered, Run
<1>15. CASE EvaluateRetry(j)
  <2> DEFINE moved == [job[j] EXCEPT !.retry = TRUE]
  <2>1. job' = [job EXCEPT ![j] = moved] /\ job[j].status = "failed"
    BY <1>15 DEF EvaluateRetry
  <2>2. /\ moved \in [status : {"queued", "processing", "completed", "failed", "cancelled"},
                      run : Run, retry : BOOLEAN]
        /\ moved.status = "failed"
        /\ moved.run \notin {"claimed", "started", "verified", "loaded"}
    BY <1>2, <2>1 DEF JobOrdered
  <2> HIDE DEF moved
  <2> QED
    BY <1>3, <2>1, <2>2
<1>16. CASE QueueRetry(j)
  <2> DEFINE moved == [job[j] EXCEPT !.status = "queued", !.retry = FALSE]
  <2>1. job' = [job EXCEPT ![j] = moved] /\ job[j].status = "failed"
    BY <1>2, <1>16 DEF QueueRetry, JobOrdered
  <2>2. /\ moved \in [status : {"queued", "processing", "completed", "failed", "cancelled"},
                      run : Run, retry : BOOLEAN]
        /\ moved.status = "queued" /\ moved.retry = FALSE
        /\ moved.run \notin {"claimed", "started", "verified", "loaded"}
    BY <1>2, <2>1 DEF JobOrdered
  <2> HIDE DEF moved
  <2> QED
    BY <1>3, <2>1, <2>2
<1> QED
    BY <1>7, <1>8, <1>9, <1>10, <1>11, <1>12, <1>13, <1>14, <1>15, <1>16 DEF RunStep

LEMMA StorageNext == StorageInvariant /\ [Next]_vars => StorageInvariant'
<1> SUFFICES ASSUME StorageInvariant, [Next]_vars PROVE StorageInvariant'
    OBVIOUS
<1>1. CASE UNCHANGED vars \/ ReadForAudio \/ StartAudio \/ EndAudio
  <2>1. OrphanInvariant'
    BY NextHolds DEF StorageInvariant
  <2>2. UNCHANGED <<src, store, client, job, cleaner>>
    BY <1>1 DEF vars, ReadForAudio, StartAudio, EndAudio
  <2> QED
    BY <2>1, <2>2, RowStays DEF InCleanup
<1>2. CASE \E c \in Cleaners : CleanupPass(c) \/ StorageFails(c) \/ Crash(c)
    BY <1>2, StorageRetired, StorageExported, StorageClaimed, StorageCleaned DEF CleanupPass
<1> QED
    BY <1>1, <1>2, StorageUpload, StorageRetired, StorageClock, StorageRead DEF Next

\* What the row, the store, the browser, the cleaners and the jobs may be in
\* together, in every reachable state (source_deletion.py:170-573).
THEOREM StorageInvariantHolds == Spec => []StorageInvariant
BY StorageInit, StorageNext, PTL DEF Spec

\* The bytes of a source that is shown as uploaded are there: a completion commits
\* only for a row that is still pending, and a cleanup that was under way before
\* it has retired the row (main.py:2957-2980, :3048-3076).
THEOREM UploadedIsStoredHolds == Spec => []UploadedIsStored
<1>1. StorageInvariant => UploadedIsStored
    BY DEF StorageInvariant
<1> QED
    BY <1>1, StorageInvariantHolds, PTL

\* A run that verified its source finds the object when it reads it: no cleanup is
\* claimed while a job is processing, and none was under way when it verified
\* (source_deletion.py:182-192; job_source_materialization.py).
THEOREM RunsFindTheirObjectHolds == Spec => []RunsFindTheirObject
<1>1. StorageInvariant => RunsFindTheirObject
    BY DEF StorageInvariant
<1> QED
    BY <1>1, StorageInvariantHolds, PTL

\* A source retired as exported had all its documents delivered, and no job is
\* created, claimed or retried over it afterwards (source_deletion.py:395-440).
THEOREM ExportedMeansDeliveredHolds == Spec => []ExportedMeansDelivered
<1>1. StorageInvariant => ExportedMeansDelivered
    BY DEF StorageInvariant
<1> QED
    BY <1>1, StorageInvariantHolds, PTL


(***************************************************************************)
(* A source is claimed for its cleanup once, and once more for every       *)
(* crash, stall or storage error: a cleaner that finds the object still    *)
(* there after it deleted it does not exist, so without a fault the first  *)
(* claim completes.                                                        *)
(***************************************************************************)

\* The present claim is in hand: its cleaner was not refused and has its lease.
AtWork(c) ==
    /\ src.owner = c /\ src.cleanup = "pending" /\ time.leased
    /\ cleaner[c].generation = src.generation
    /\ cleaner[c].pc \in {"claimed", "unsessioned", "deleted", "removed"}

\* Every claim but the present one was ended by a fault; a row without its key is
\* not claimed any more.
ClaimsAreFew ==
    /\ src.generation <= faults + 1
    /\ src.generation = faults + 1 /\ src.key => \E c \in Cleaners : AtWork(c)

\* What a cleaner deleted stays deleted, and no cleaner is ahead of the row.
DeletedIsGone == \A c \in Cleaners : cleaner[c].pc = "deleted" => ~store.object
NoneAhead == \A c \in Cleaners : cleaner[c].generation <= src.generation

PlacesTyped ==
    /\ client \in {"idle", "checked", "assembled", "headed", "done"}
    /\ audio \in {"none", "reading", "active"}
    /\ faults \in 0..MaxFaults

ClaimsInvariant ==
    OrphanInvariant /\ PlacesTyped /\ ClaimsAreFew /\ DeletedIsGone /\ NoneAhead

LEMMA ClaimsInit == Init => ClaimsInvariant
<1> SUFFICES ASSUME Init PROVE ClaimsInvariant
    OBVIOUS
<1>1. OrphanInvariant
    BY InitHolds
<1>2. src.generation = 0 /\ \A c \in Cleaners : cleaner[c] = [pc |-> "idle", generation |-> 0]
    BY DEF Init
<1>3. PlacesTyped
    BY CleanupAssumption DEF Init, PlacesTyped
<1>4. ClaimsAreFew
    BY <1>2 DEF Init, ClaimsAreFew
<1> QED
    BY <1>1, <1>2, <1>3, <1>4 DEF ClaimsInvariant, DeletedIsGone, NoneAhead

\* A step that gives out no claim either is a fault, or leaves the present claim in
\* hand or completes it.
LEMMA ClaimsStay ==
    ASSUME ClaimsInvariant, OrphanInvariant', PlacesTyped', DeletedIsGone',
           src'.generation = src.generation, src'.key => src.key,
           \A c \in Cleaners : cleaner'[c].generation = cleaner[c].generation,
           \/ faults' = faults + 1
           \/ /\ faults' = faults
              /\ \A c \in Cleaners : AtWork(c) => AtWork(c)' \/ ~src'.key
    PROVE  ClaimsInvariant'
<1>1. src.generation \in Nat /\ faults \in Nat
    BY CleanupAssumption DEF ClaimsInvariant, OrphanInvariant, Typed, SrcTyped, PlacesTyped
<1>2. NoneAhead'
    BY DEF ClaimsInvariant, NoneAhead
<1>3. ClaimsAreFew'
  <2>1. CASE faults' = faults + 1
    BY <1>1, <2>1 DEF ClaimsInvariant, ClaimsAreFew
  <2>2. CASE /\ faults' = faults
             /\ \A c \in Cleaners : AtWork(c) => AtWork(c)' \/ ~src'.key
    BY <1>1, <2>2 DEF ClaimsInvariant, ClaimsAreFew
  <2> QED
    BY <2>1, <2>2
<1> QED
    BY <1>2, <1>3 DEF ClaimsInvariant

\* The browser writes neither the object a cleaner deleted nor the claim.
LEMMA ClaimsUpload == ClaimsInvariant /\ Upload => ClaimsInvariant'
<1> SUFFICES ASSUME ClaimsInvariant, Upload PROVE ClaimsInvariant'
    OBVIOUS
<1>1. OrphanInvariant /\ OrphanInvariant'
    BY UploadHolds DEF ClaimsInvariant
<1>2. UNCHANGED <<cleaner, faults, audio>>
    BY DEF Upload, PutObject, CheckUpload, CompleteSession, HeadUpload, CommitUpload
<1>3. PlacesTyped'
    BY <1>2
    DEF ClaimsInvariant, PlacesTyped, Upload, PutObject, CheckUpload, CompleteSession, HeadUpload,
        CommitUpload
<1>4. /\ src'.generation = src.generation /\ src'.key = src.key /\ src'.owner = src.owner
      /\ src'.cleanup = src.cleanup /\ time'.leased = time.leased
    BY <1>1
    DEF Upload, PutObject, CheckUpload, CompleteSession, HeadUpload, CommitUpload,
        OrphanInvariant, Typed, SrcTyped
<1>5. DeletedIsGone'
  <2>1. store' = store \/ \A c \in Cleaners : cleaner[c].pc # "deleted"
    <3>1. CASE PutObject
      <4>1. ~Closed
        BY <1>1, <3>1 DEF PutObject, Closed, OrphanInvariant, Typed
      <4> QED
        BY <4>1 DEF ClaimsInvariant, OrphanInvariant, Secured, InCleanup
    <3>2. CASE CompleteSession
      BY <1>1, <3>2 DEF CompleteSession, OrphanInvariant, Secured
    <3> QED
      BY <3>1, <3>2 DEF Upload, CheckUpload, HeadUpload, CommitUpload
  <2> QED
    BY <1>2, <2>1 DEF ClaimsInvariant, DeletedIsGone
<1> QED
    BY <1>1, <1>2, <1>3, <1>4, <1>5, ClaimsStay DEF AtWork

\* A retired row keeps its claim: it asks for a cleanup that is asked for already.
LEMMA ClaimsRetired ==
    ASSUME ClaimsInvariant, OrphanInvariant', UNCHANGED <<store, time, client, audio, faults>>,
           src'.generation = src.generation, src'.key = src.key, src'.owner = src.owner,
           src.cleanup = "pending" => src'.cleanup = "pending",
           \A c \in Cleaners : \/ cleaner'[c] = cleaner[c]
                               \/ /\ cleaner'[c].generation = cleaner[c].generation
                                  /\ cleaner'[c].pc = "idle" /\ ~InCleanup(c)
    PROVE  ClaimsInvariant'
<1>1. PlacesTyped' /\ DeletedIsGone'
    BY DEF ClaimsInvariant, PlacesTyped, DeletedIsGone
<1>2. \A c \in Cleaners : AtWork(c) => AtWork(c)'
    BY DEF AtWork, InCleanup
<1> QED
    BY <1>1, <1>2, ClaimsStay

LEMMA ClaimsOwner ==
    ASSUME ClaimsInvariant,
           DeleteSource \/ AbortUpload \/ (\E c \in Cleaners : MarkExpired(c)) \/ RetryDelayPasses
    PROVE  ClaimsInvariant'
<1>1. OrphanInvariant /\ OrphanInvariant'
    BY DeleteHolds, AbortHolds, MarkExpiredHolds, ClockHolds DEF ClaimsInvariant
<1>2. UNCHANGED <<store, time, client, audio, faults, cleaner>>
    BY DEF DeleteSource, AbortUpload, MarkExpired, RetryDelayPasses
<1>3. /\ src'.generation = src.generation /\ src'.key = src.key /\ src'.owner = src.owner
      /\ src.cleanup = "pending" => src'.cleanup = "pending"
  <2>1. CASE DeleteSource
    <3> DEFINE cleanup == IF src.cleanup = "completed" THEN src.cleanup ELSE "pending"
               reason == IF src.upload = "deleted" THEN src.reason ELSE "user_deleted"
               due == IF src.due = "unset" THEN DueOfDeletion ELSE src.due
    <3>1. src' = [src EXCEPT !.upload = "deleted", !.reason = reason, !.cleanup = cleanup,
                             !.due = due]
      BY <2>1 DEF DeleteSource
    <3>2. src.cleanup = "pending" => cleanup = "pending"
      OBVIOUS
    <3> HIDE DEF cleanup, reason, due
    <3> QED
      BY <1>1, <3>1, <3>2 DEF OrphanInvariant, Typed, SrcTyped
  <2>2. CASE AbortUpload
    BY <1>1, <2>2 DEF AbortUpload, OrphanInvariant, Typed, SrcTyped
  <2>3. CASE \E c \in Cleaners : MarkExpired(c)
    <3> DEFINE due == IF src.due = "unset" THEN "now" ELSE src.due
    <3>1. src' = [src EXCEPT !.upload = "expired", !.reason = "retention_expired",
                             !.cleanup = "pending", !.due = due]
      BY <2>3 DEF MarkExpired
    <3> HIDE DEF due
    <3> QED
      BY <1>1, <3>1 DEF OrphanInvariant, Typed, SrcTyped
  <2>4. CASE RetryDelayPasses
    BY <1>1, <2>4 DEF RetryDelayPasses, OrphanInvariant, Typed, SrcTyped
  <2> QED
    BY <2>1, <2>2, <2>3, <2>4
<1> QED
    BY <1>1, <1>2, <1>3, ClaimsRetired

\* A cleaner moves, and keeps the generation of its claim.
LEMMA GotoKeepsClaims ==
    ASSUME OrphanInvariant, NEW c \in Cleaners,
           NEW pc \in {"idle", "selected", "claimed", "unsessioned", "deleted", "removed",
                       "refused"},
           Goto(c, pc)
    PROVE  /\ \A d \in Cleaners : cleaner'[d].generation = cleaner[d].generation
           /\ cleaner'[c].pc = pc
           /\ \A d \in Cleaners \ {c} : cleaner'[d] = cleaner[d]
<1>1. cleaner'[c].pc = pc /\ \A d \in Cleaners \ {c} : cleaner'[d] = cleaner[d]
    BY GotoTyped
<1> DEFINE at == [cleaner[c] EXCEPT !.pc = pc]
<1>2. at.generation = cleaner[c].generation
    BY DEF OrphanInvariant, Typed
<1>3. cleaner' = [cleaner EXCEPT ![c] = at]
    BY DEF Goto
<1> HIDE DEF at
<1>4. cleaner'[c] = at
    BY <1>3 DEF OrphanInvariant, Typed
<1> QED
    BY <1>1, <1>2, <1>4

LEMMA ClaimsExported ==
    ASSUME NEW c \in Cleaners, ClaimsInvariant, RetireExported(c) \/ SelectExported(c)
    PROVE  ClaimsInvariant'
<1>1. OrphanInvariant /\ OrphanInvariant'
    BY CleanupStepHolds DEF ClaimsInvariant, CleanupPass
<1>2. UNCHANGED <<store, time, client, audio, faults>> /\ ~InCleanup(c)
    BY DEF RetireExported, SelectExported, InCleanup
<1>3. /\ src'.generation = src.generation /\ src'.key = src.key /\ src'.owner = src.owner
      /\ src.cleanup = "pending" => src'.cleanup = "pending"
    BY <1>1, ZenonT(30) DEF RetireExported, SelectExported, OrphanInvariant, Typed, SrcTyped
<1>4. CASE RetireExported(c)
    BY <1>1, <1>2, <1>3, <1>4, GotoKeepsClaims, ClaimsRetired DEF RetireExported
<1>5. CASE SelectExported(c)
  <2>1. Goto(c, "selected")
    BY <1>5 DEF SelectExported
  <2>2. PlacesTyped' /\ DeletedIsGone'
    BY <1>1, <1>2, <2>1, GotoKeepsClaims DEF ClaimsInvariant, PlacesTyped, DeletedIsGone
  <2>3. \A d \in Cleaners : AtWork(d) => AtWork(d)'
    BY <1>1, <1>2, <1>5, <2>1, GotoKeepsClaims DEF AtWork, InCleanup, SelectExported
  <2> QED
    BY <1>1, <1>2, <1>3, <2>1, <2>2, <2>3, GotoKeepsClaims, ClaimsStay
<1> QED
    BY <1>4, <1>5

\* A claim is given out only when none is in hand, so its number is within bounds.
LEMMA ClaimsGiven ==
    ASSUME NEW c \in Cleaners, ClaimsInvariant, ClaimCleanup(c)
    PROVE  ClaimsInvariant'
<1>1. OrphanInvariant /\ OrphanInvariant'
    BY ClaimHolds DEF ClaimsInvariant
<1>2. UNCHANGED <<store, client, audio, faults>>
    BY DEF ClaimCleanup
<1>3. src.generation \in Nat /\ faults \in Nat
    BY <1>1, CleanupAssumption DEF OrphanInvariant, Typed, SrcTyped, ClaimsInvariant, PlacesTyped
<1>4. \A d \in Cleaners : ~AtWork(d)
    BY CleanupAssumption DEF ClaimCleanup, LeaseFree, AtWork
<1>5. src.generation + 1 <= faults + 1
    BY <1>3, <1>4 DEF ClaimsInvariant, ClaimsAreFew, ClaimCleanup
<1>6. src'.generation = src.generation + 1 /\ src'.owner = c /\ src'.cleanup = "pending"
  <2>1. src' = [src EXCEPT !.cleanup = "pending", !.owner = c,
                           !.generation = src.generation + 1]
    BY DEF ClaimCleanup
  <2> QED
    BY <1>1, <2>1 DEF OrphanInvariant, Typed, SrcTyped
<1>7. time'.leased
    BY <1>1 DEF ClaimCleanup, OrphanInvariant, Typed
<1>8. /\ cleaner'[c] = [pc |-> "claimed", generation |-> src.generation + 1]
      /\ \A d \in Cleaners \ {c} : cleaner'[d] = cleaner[d]
    BY <1>1 DEF ClaimCleanup, OrphanInvariant, Typed
<1>9. AtWork(c)'
    BY <1>6, <1>7, <1>8 DEF AtWork
<1>10. ClaimsAreFew'
    BY <1>2, <1>5, <1>6, <1>9 DEF ClaimsAreFew
<1>11. NoneAhead'
  <2> SUFFICES ASSUME NEW d \in Cleaners
               PROVE  cleaner'[d].generation <= src.generation + 1
    BY <1>6 DEF NoneAhead
  <2>1. CASE d = c
    BY <1>3, <1>8, <2>1
  <2>2. CASE d # c
    <3>1. cleaner[d].generation \in Nat /\ cleaner[d].generation <= src.generation
      BY <1>1 DEF OrphanInvariant, Typed, ClaimsInvariant, NoneAhead
    <3> QED
      BY <1>3, <1>8, <2>2, <3>1
  <2> QED
    BY <2>1, <2>2
<1>12. PlacesTyped' /\ DeletedIsGone'
    BY <1>2, <1>8 DEF ClaimsInvariant, PlacesTyped, DeletedIsGone
<1> QED
    BY <1>1, <1>10, <1>11, <1>12 DEF ClaimsInvariant

\* A cleaner goes on with its claim.
LEMMA ClaimsGoOn ==
    ASSUME NEW c \in Cleaners, ClaimsInvariant,
           AbortSession(c) \/ DeleteObject(c) \/ ConfirmRemoved(c)
    PROVE  ClaimsInvariant'
<1>1. OrphanInvariant /\ OrphanInvariant'
    BY CleanupStepHolds DEF ClaimsInvariant, CleanupPass
<1>2. UNCHANGED <<src, time, client, audio, faults>>
    BY DEF AbortSession, DeleteObject, ConfirmRemoved
<1>3. PICK pc \in {"unsessioned", "deleted", "removed"} : Goto(c, pc)
    BY DEF AbortSession, DeleteObject, ConfirmRemoved, ClaimsInvariant, DeletedIsGone
<1>4. /\ cleaner'[c].pc = pc
      /\ \A d \in Cleaners : cleaner'[d].generation = cleaner[d].generation
      /\ \A d \in Cleaners \ {c} : cleaner'[d] = cleaner[d]
    BY <1>1, <1>3, GotoKeepsClaims
<1>5. \A d \in Cleaners : AtWork(d) => AtWork(d)'
    BY <1>2, <1>4 DEF AtWork
<1>6. DeletedIsGone'
  <2>1. store'.object => store.object /\ ~DeleteObject(c)
    BY <1>1 DEF AbortSession, DeleteObject, ConfirmRemoved, OrphanInvariant, Typed
  <2>2. cleaner'[c].pc = "deleted" => DeleteObject(c)
    BY <1>1, GotoKeepsClaims DEF AbortSession, ConfirmRemoved
  <2> QED
    BY <1>4, <2>1, <2>2 DEF ClaimsInvariant, DeletedIsGone
<1>7. PlacesTyped'
    BY <1>2 DEF ClaimsInvariant, PlacesTyped
<1> QED
    BY <1>1, <1>2, <1>4, <1>5, <1>6, <1>7, ClaimsStay

\* A fault, or the end of a lease nobody uses any more.
LEMMA ClaimsFail ==
    ASSUME ClaimsInvariant,
           LeaseExpires \/ \E c \in Cleaners : StorageFails(c) \/ Crash(c)
    PROVE  ClaimsInvariant'
<1>1. OrphanInvariant /\ OrphanInvariant'
    BY CleanupStepHolds, ClockHolds DEF ClaimsInvariant
<1>2. UNCHANGED <<src, store, client, audio>>
    BY DEF LeaseExpires, StorageFails, Crash
<1>3. \/ Fault
      \/ faults' = faults /\ \A c \in Cleaners : ~AtWork(c)
    BY DEF LeaseExpires, StorageFails, Crash, AtWork
<1>4. PlacesTyped' /\ (faults' = faults + 1 \/ (faults' = faults /\ \A c \in Cleaners : ~AtWork(c)))
    BY <1>2, <1>3, CleanupAssumption DEF Fault, ClaimsInvariant, PlacesTyped
<1>5. /\ \A d \in Cleaners : cleaner'[d].generation = cleaner[d].generation
      /\ \A d \in Cleaners : cleaner'[d].pc = "deleted" => cleaner[d].pc = "deleted"
  <2>1. CASE LeaseExpires
    BY <2>1 DEF LeaseExpires
  <2>2. ASSUME NEW c \in Cleaners, StorageFails(c) \/ Crash(c)
        PROVE  /\ \A d \in Cleaners : cleaner'[d].generation = cleaner[d].generation
               /\ \A d \in Cleaners : cleaner'[d].pc = "deleted" => cleaner[d].pc = "deleted"
    <3>1. PICK pc \in {"idle", "refused"} : Goto(c, pc)
      BY <2>2 DEF StorageFails, Crash
    <3> QED
      BY <1>1, <3>1, GotoKeepsClaims
  <2> QED
    BY <2>1, <2>2
<1>6. DeletedIsGone'
    BY <1>2, <1>5 DEF ClaimsInvariant, DeletedIsGone
<1> QED
    BY <1>1, <1>2, <1>4, <1>5, <1>6, ClaimsStay

\* A cleanup comes to its end: the claim in hand completes it.
LEMMA ClaimsEnd ==
    ASSUME NEW c \in Cleaners, ClaimsInvariant, Finalize(c)
    PROVE  ClaimsInvariant'
<1>1. OrphanInvariant /\ OrphanInvariant'
    BY FinalizeHolds DEF ClaimsInvariant
<1>2. UNCHANGED <<time, store, client, audio, faults>> /\ Goto(c, "idle")
    BY DEF Finalize
<1>3. /\ cleaner'[c].pc = "idle"
      /\ \A d \in Cleaners : cleaner'[d].generation = cleaner[d].generation
      /\ \A d \in Cleaners \ {c} : cleaner'[d] = cleaner[d]
    BY <1>1, <1>2, GotoKeepsClaims
<1>4. PlacesTyped' /\ DeletedIsGone'
    BY <1>2, <1>3 DEF ClaimsInvariant, PlacesTyped, DeletedIsGone
<1>5. CASE AtWork(c)
  <2>1. CASE ~src.key
    <3>1. src' = src
      BY <2>1 DEF Finalize
    <3> QED
      BY <1>1, <1>2, <1>3, <1>4, <2>1, <3>1, ClaimsStay
  <2>2. CASE src.key
    <3>1. src' = [src EXCEPT !.cleanup = "completed", !.key = FALSE, !.owner = Nobody]
      BY <1>5, <2>2 DEF Finalize, AtWork
    <3>2. ~src'.key /\ src'.generation = src.generation
      BY <1>1, <3>1 DEF OrphanInvariant, Typed, SrcTyped
    <3> QED
      BY <1>1, <1>2, <1>3, <1>4, <3>2, ClaimsStay
  <2> QED
    BY <2>1, <2>2
<1>6. CASE ~AtWork(c)
  <2>1. src'.generation = src.generation /\ (src'.key => src.key)
    BY <1>1 DEF Finalize, OrphanInvariant, Typed, SrcTyped
  <2>2. ASSUME NEW d \in Cleaners, AtWork(d) PROVE AtWork(d)'
    <3>1. d # c /\ src.owner # c
      BY <1>6, <2>2 DEF AtWork
    <3>2. src' = src
      BY <3>1 DEF Finalize
    <3> QED
      BY <1>2, <1>3, <2>2, <3>1, <3>2 DEF AtWork
  <2> QED
    BY <1>1, <1>2, <1>3, <1>4, <2>1, <2>2, ClaimsStay
<1> QED
    BY <1>5, <1>6

LEMMA ClaimsNext == ClaimsInvariant /\ [Next]_vars => ClaimsInvariant'
<1> SUFFICES ASSUME ClaimsInvariant, [Next]_vars PROVE ClaimsInvariant'
    OBVIOUS
<1>1. OrphanInvariant'
    BY NextHolds DEF ClaimsInvariant
<1>2. ASSUME UNCHANGED <<src, store, cleaner, client, faults>>, time'.leased = time.leased,
             audio' \in {"none", "reading", "active"}
      PROVE  ClaimsInvariant'
  <2>1. PlacesTyped' /\ DeletedIsGone' /\ \A c \in Cleaners : AtWork(c) => AtWork(c)'
    BY <1>2 DEF ClaimsInvariant, PlacesTyped, DeletedIsGone, AtWork
  <2> QED
    BY <1>1, <1>2, <2>1, ClaimsStay
<1>3. CASE UrlExpires \/ ExpiryPasses
    BY <1>2, <1>3
    DEF UrlExpires, ExpiryPasses, ClaimsInvariant, PlacesTyped, OrphanInvariant, Typed
<1>4. CASE UNCHANGED vars
    BY <1>2, <1>4 DEF vars, ClaimsInvariant, PlacesTyped
<1>5. CASE \/ \E j \in Jobs : \/ CreateJob(j) \/ ClaimJob(j) \/ RunStep(j) \/ RecoverJob(j)
                              \/ CancelJob(j) \/ EvaluateRetry(j) \/ QueueRetry(j)
           \/ ReadForAudio \/ StartAudio \/ EndAudio
    BY <1>2, <1>5
    DEF CreateJob, ClaimJob, RunStep, BeginJob, VerifySource, ReadObject, FinishJob,
        RecoverJob, CancelJob, EvaluateRetry, QueueRetry, NoOtherChange, ReadForAudio,
        StartAudio, EndAudio, ClaimsInvariant, PlacesTyped
<1>6. CASE \E c \in Cleaners : CleanupPass(c) \/ StorageFails(c) \/ Crash(c)
    BY <1>6, ClaimsOwner, ClaimsExported, ClaimsGiven, ClaimsGoOn, ClaimsEnd, ClaimsFail
    DEF CleanupPass
<1> QED
    BY <1>3, <1>4, <1>5, <1>6, ClaimsUpload, ClaimsOwner, ClaimsFail DEF Next

\* The first claim of a cleanup completes it unless a crash, a stall or a storage
\* error ends it, and every such fault costs one claim at most: whatever cleaners
\* race, there are never more claims than faults and one
\* (source_deletion.py:443-530; the fence of finalize_source_cleanup).
THEOREM ClaimsAreFewHolds == Spec => []ClaimsAreFew
<1>1. ClaimsInvariant => ClaimsAreFew
    BY DEF ClaimsInvariant
<1> QED
    BY <1>1, ClaimsInit, ClaimsNext, PTL DEF Spec

\* The row, the clock, the store, the browser, the cleaners and the jobs keep their
\* types; the generation of a cleanup stays within its bound.
THEOREM TypeCorrect == Spec => []TypeOK
<1>1. ClaimsInvariant /\ StorageInvariant => TypeOK
  <2> SUFFICES ASSUME ClaimsInvariant, StorageInvariant PROVE TypeOK
    OBVIOUS
  <2>1. src.generation \in 0..MaxFaults + 1
    BY CleanupAssumption
    DEF ClaimsInvariant, ClaimsAreFew, PlacesTyped, OrphanInvariant, Typed, SrcTyped
  <2>2. src \in Row
    BY <2>1 DEF ClaimsInvariant, OrphanInvariant, Typed, SrcTyped, Row
  <2>3. ASSUME NEW c \in Cleaners
        PROVE  cleaner[c] \in [pc : {"idle", "selected", "claimed", "unsessioned", "deleted",
                                     "removed", "refused"},
                               generation : 0..MaxFaults + 1]
    <3>1. cleaner[c].generation \in Nat /\ cleaner[c].generation <= src.generation
      BY DEF ClaimsInvariant, OrphanInvariant, Typed, NoneAhead
    <3>2. cleaner[c].generation \in 0..MaxFaults + 1
      BY <2>1, <3>1, CleanupAssumption
    <3> QED
      BY <3>2 DEF ClaimsInvariant, OrphanInvariant, Typed
  <2>4. cleaner \in [Cleaners -> [pc : {"idle", "selected", "claimed", "unsessioned", "deleted",
                                        "removed", "refused"},
                                  generation : 0..MaxFaults + 1]]
    BY <2>3 DEF ClaimsInvariant, OrphanInvariant, Typed
  <2>5. job \in [Jobs -> [status : {"absent", "queued", "processing", "completed", "failed",
                                    "cancelled"},
                          run : Run, retry : BOOLEAN]]
    BY DEF StorageInvariant, JobsOrdered, JobOrdered
  <2> QED
    BY <2>2, <2>4, <2>5
    DEF TypeOK, ClaimsInvariant, PlacesTyped, OrphanInvariant, Typed
<1> QED
    BY <1>1, ClaimsInit, ClaimsNext, StorageInvariantHolds, PTL DEF Spec

=============================================================================
