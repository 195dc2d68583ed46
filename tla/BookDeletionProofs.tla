-------------------------- MODULE BookDeletionProofs --------------------------
(***************************************************************************)
(* That artifacts have owners while a book lives, and that a book reported *)
(* as erased is erased.                                                    *)
(*                                                                         *)
(* The inductive invariant follows the three protocols: a writer's intent, *)
(* its step and its object; a recovery pass and the intent it cleans; and  *)
(* the deletion, whose sweep begins when nobody may write any more.        *)
(***************************************************************************)
EXTENDS BookDeletion, TLAPS

-----------------------------------------------------------------------------
(* Types *)

ApiTypeOK ==
    /\ shown \subseteq Keys
    /\ intent \in [Writers -> Rows]
    /\ expired \subseteq Writers
    /\ api \in [Writers -> ApiSteps]
    /\ overran \subseteq Keys

StoreTypeOK ==
    /\ storage \subseteq Keys
    /\ cleaner \in [row: Writers \cup {Nobody}, at: {"idle", "delete", "verify", "drop"}]

QueueTypeOK ==
    /\ request \in Statuses
    /\ events \in Nat
    /\ hand \in [of: {Nobody, "run", "deletion"}, enqueued: BOOLEAN]
    /\ job \in [state: JobStates, by: Slots \cup {Nobody},
                failures: 0..Attempts, stalled: 0..StallLimit]
    /\ step \in [Slots -> Steps]
    /\ tidying \in BOOLEAN

RunTypeOK ==
    run \in [row: {"none", "active", "ended"}, event: {"none", "pending", "cancelled"},
             job: {"none", "waiting", "active"},
             at: {"idle", "claim", "owner", "write"}, zombie: BOOLEAN]

BookTypeOK == book \in {"live", "tombstoned", "gone"} /\ left \in [Bounds -> Nat]

LEMMA TypeParts ==
    TypeOK <=> ApiTypeOK /\ StoreTypeOK /\ QueueTypeOK /\ RunTypeOK /\ BookTypeOK
BY DEF TypeOK, ApiTypeOK, StoreTypeOK, QueueTypeOK, RunTypeOK, BookTypeOK

LEMMA LeftType ==
    ASSUME BookTypeOK, NEW b \in Bounds, Use(b)
    PROVE  left' \in [Bounds -> Nat]
BY DEF BookTypeOK, Use

\* A job knows who holds it, and is tried while attempts are left.
JobGood ==
    /\ job.by # Nobody => job.state = "active"
    /\ job.state \in {"waiting", "active", "delayed"} => job.failures < Attempts

LEMMA ApiType ==
    ASSUME TypeOK, NEW w \in Writers, ApiWriter(w)
    PROVE  TypeOK'
<1>1. ApiTypeOK /\ StoreTypeOK /\ QueueTypeOK /\ RunTypeOK /\ BookTypeOK
  BY TypeParts
<1>2. {"uploads", "thumbnails", "faults", "crashes", "overruns"} \subseteq Bounds
  BY DEF Bounds
<1>3. /\ UNCHANGED <<book, cleaner, run, jobVars>>
      /\ left' = left \/ \E b \in Bounds : Use(b)
  BY <1>2
  DEF ApiWriter, OnlyApi, Admit, Save, SaveFails, Publish, Refused, Mark, Find, ApiDelete,
      ApiVerify, ApiDrop, DiscardFails, ApiCrash, LeaseExpires
<1>4. QueueTypeOK' /\ RunTypeOK' /\ BookTypeOK'
  BY <1>1, <1>3, LeftType DEF QueueTypeOK, RunTypeOK, BookTypeOK, jobVars
<1>5. storage' \subseteq Keys
  BY <1>1
  DEF ApiWriter, Admit, Save, SaveFails, Publish, Refused, Mark, Find, ApiDelete, ApiVerify,
      ApiDrop, DiscardFails, ApiCrash, LeaseExpires, StoreTypeOK, Keys
<1>6. api' \in [Writers -> ApiSteps]
  BY <1>1
  DEF ApiWriter, Admit, Save, SaveFails, Publish, Refused, Mark, Find, ApiDelete, ApiVerify,
      ApiDrop, DiscardFails, ApiCrash, LeaseExpires, ApiGoto, ApiTypeOK, ApiSteps
<1>7. intent' \in [Writers -> Rows]
  BY <1>1
  DEF ApiWriter, Admit, Save, SaveFails, Publish, Refused, Mark, Find, ApiDelete, ApiVerify,
      ApiDrop, DiscardFails, ApiCrash, LeaseExpires, DropRow, ApiTypeOK, Rows
<1>8. shown' \subseteq Keys /\ expired' \subseteq Writers /\ overran' \subseteq Keys
  BY <1>1
  DEF ApiWriter, Admit, Save, SaveFails, Publish, Refused, Mark, Find, ApiDelete, ApiVerify,
      ApiDrop, DiscardFails, ApiCrash, LeaseExpires, ApiTypeOK, Keys
<1> QED
  BY <1>1, <1>3, <1>4, <1>5, <1>6, <1>7, <1>8
  DEF TypeOK, ApiTypeOK, StoreTypeOK, QueueTypeOK, RunTypeOK, BookTypeOK

LEMMA FencedType == ASSUME ApiTypeOK PROVE Fenced \in [Writers -> Rows]
BY DEF ApiTypeOK, Fenced, Rows

LEMMA RecoveryType ==
    ASSUME TypeOK, Recovery
    PROVE  TypeOK'
<1>1. ApiTypeOK /\ StoreTypeOK /\ QueueTypeOK /\ RunTypeOK /\ BookTypeOK
  BY TypeParts
<1>2. UNCHANGED <<book, shown, expired, api, overran, run, jobVars, left>>
  BY DEF Recovery, OnlyCleaner, RecoverFence, RecoverPick, RecoverDelete, RecoverVerify, RecoverDrop
<1>3. intent' \in [Writers -> Rows]
  BY <1>1, FencedType
  DEF Recovery, RecoverFence, RecoverPick, RecoverDelete, RecoverVerify, RecoverDrop, DropRow,
      ApiTypeOK, Rows
<1>4. StoreTypeOK'
  BY <1>1
  DEF Recovery, RecoverFence, RecoverPick, RecoverDelete, RecoverVerify, RecoverDrop, StoreTypeOK, Idle
<1> QED
  BY <1>1, <1>2, <1>3, <1>4
  DEF TypeOK, ApiTypeOK, StoreTypeOK, QueueTypeOK, RunTypeOK, BookTypeOK, jobVars

LEMMA GenerationType ==
    ASSUME TypeOK, StartRun \/ GenWorker \/ GenLoseLock
    PROVE  TypeOK'
<1>1. ApiTypeOK /\ StoreTypeOK /\ QueueTypeOK /\ RunTypeOK /\ BookTypeOK
  BY TypeParts
<1>2. UNCHANGED <<book, intent, expired, api, cleaner, jobVars>>
  BY DEF StartRun, GenWorker, GenLoseLock, GenPickUp, GenCheck, GenWrite, GenComplete, ZombieWrite,
         OnlyRun, apiVars, jobVars
<1>3. /\ storage' \subseteq storage \cup {Generation} /\ shown' \subseteq shown \cup {Generation}
      /\ overran' \subseteq overran \cup {Generation}
  BY DEF StartRun, GenWorker, GenLoseLock, GenPickUp, GenCheck, GenWrite, GenComplete, ZombieWrite,
         OnlyRun, apiVars
<1>4. left' \in [Bounds -> Nat]
  BY <1>1, LeftType
  DEF Bounds, BookTypeOK, StartRun, GenWorker, GenLoseLock, GenPickUp, GenCheck, GenWrite,
      GenComplete, ZombieWrite
<1>5. RunTypeOK'
  BY <1>1
  DEF StartRun, GenWorker, GenLoseLock, GenPickUp, GenCheck, GenWrite, GenComplete, ZombieWrite,
      RunTypeOK
<1> QED
  BY <1>1, <1>2, <1>3, <1>4, <1>5
  DEF TypeOK, ApiTypeOK, StoreTypeOK, QueueTypeOK, RunTypeOK, BookTypeOK, jobVars, Keys

LEMMA OwnerType ==
    ASSUME TypeOK, SoftDelete \/ Request \/ TidyQueue \/ Retry
    PROVE  TypeOK'
<1>1. ApiTypeOK /\ StoreTypeOK /\ QueueTypeOK /\ RunTypeOK /\ BookTypeOK
  BY TypeParts
<1>2. ApiTypeOK' /\ StoreTypeOK'
  BY <1>1 DEF SoftDelete, Request, TidyQueue, Retry, ApiTypeOK, StoreTypeOK, apiVars
<1>3. RunTypeOK'
  BY <1>1 DEF SoftDelete, Request, TidyQueue, Retry, RunTypeOK
<1>4. BookTypeOK'
  BY <1>1, LeftType DEF SoftDelete, Request, TidyQueue, Retry, BookTypeOK, Bounds
<1>5. QueueTypeOK'
  <2>1. events + 1 \in Nat
    BY <1>1 DEF QueueTypeOK
  <2> QED
    BY <1>1, <2>1 DEF SoftDelete, Request, TidyQueue, Retry, QueueTypeOK, jobVars, Statuses
<1> QED
  BY <1>2, <1>3, <1>4, <1>5
  DEF TypeOK, ApiTypeOK, StoreTypeOK, QueueTypeOK, RunTypeOK, BookTypeOK

LEMMA DispatcherType ==
    ASSUME TypeOK, Dispatcher \/ DispatchFails
    PROVE  TypeOK'
<1>1. ApiTypeOK /\ StoreTypeOK /\ QueueTypeOK /\ RunTypeOK /\ BookTypeOK
  BY TypeParts
<1>2. ApiTypeOK' /\ StoreTypeOK' /\ book' = book /\ UNCHANGED <<request, step, tidying>>
  BY <1>1
  DEF Dispatcher, DispatchFails, ReadEvent, EnqueueDeletion, EnqueueRun, MarkDispatched,
      OnlyDispatch, ApiTypeOK, StoreTypeOK, apiVars
<1>3. RunTypeOK'
  BY <1>1
  DEF Dispatcher, DispatchFails, ReadEvent, EnqueueDeletion, EnqueueRun, MarkDispatched, RunTypeOK
<1>4. left' \in [Bounds -> Nat]
  BY <1>1, LeftType
  DEF Dispatcher, DispatchFails, ReadEvent, EnqueueDeletion, EnqueueRun, MarkDispatched,
      BookTypeOK, Bounds
<1>5. events' \in Nat
  BY <1>1
  DEF Dispatcher, DispatchFails, ReadEvent, EnqueueDeletion, EnqueueRun, MarkDispatched, QueueTypeOK
<1>6. hand' \in [of: {Nobody, "run", "deletion"}, enqueued: BOOLEAN]
  <2>1. CASE EnqueueDeletion \/ EnqueueRun
    <3>1. hand' = [hand EXCEPT !.enqueued = TRUE] /\ hand.of \in {"deletion", "run"}
      BY <2>1 DEF EnqueueDeletion, EnqueueRun
    <3>2. hand' = [of |-> hand.of, enqueued |-> TRUE]
      BY <1>1, <3>1 DEF QueueTypeOK
    <3> QED
      BY <3>1, <3>2
  <2>2. CASE ReadEvent
    <3>1. \A of \in {Nobody, "run", "deletion"} :
             [of |-> of, enqueued |-> FALSE] \in [of: {Nobody, "run", "deletion"}, enqueued: BOOLEAN]
      OBVIOUS
    <3>2. \E of \in {Nobody, "run", "deletion"} : hand' = [of |-> of, enqueued |-> FALSE]
      BY <2>2 DEF ReadEvent
    <3> QED
      BY <3>1, <3>2
  <2>3. CASE MarkDispatched \/ DispatchFails
    <3>1. [of |-> Nobody, enqueued |-> FALSE] \in [of: {Nobody, "run", "deletion"}, enqueued: BOOLEAN]
      OBVIOUS
    <3> QED
      BY <2>3, <3>1 DEF MarkDispatched, DispatchFails, EmptyHand
  <2> QED
    BY <2>1, <2>2, <2>3 DEF Dispatcher
<1>7. job' \in [state: JobStates, by: Slots \cup {Nobody},
                failures: 0..Attempts, stalled: 0..StallLimit]
  <2>1. [NoJob EXCEPT !.state = "waiting"] \in [state: JobStates, by: Slots \cup {Nobody},
                                               failures: 0..Attempts, stalled: 0..StallLimit]
    BY BookDeletionAssumption DEF NoJob, JobStates
  <2> QED
    BY <1>1, <2>1
    DEF Dispatcher, DispatchFails, ReadEvent, EnqueueDeletion, EnqueueRun, MarkDispatched, QueueTypeOK
<1> QED
  BY <1>1, <1>2, <1>3, <1>4, <1>5, <1>6, <1>7
  DEF TypeOK, ApiTypeOK, StoreTypeOK, QueueTypeOK, RunTypeOK, BookTypeOK

LEMMA SlotType ==
    ASSUME TypeOK, JobGood, BackoffElapses \/ \E s \in Slots : Slot(s)
    PROVE  TypeOK' /\ JobGood'
<1>1. ApiTypeOK /\ StoreTypeOK /\ QueueTypeOK /\ RunTypeOK /\ BookTypeOK
  BY TypeParts
<1>2. /\ Attempts \in Nat /\ StallLimit \in Nat /\ Nobody \notin Slots
      /\ job \in [state: JobStates, by: Slots \cup {Nobody},
                  failures: 0..Attempts, stalled: 0..StallLimit]
      /\ job.failures \in Nat /\ job.stalled \in Nat /\ step \in [Slots -> Steps]
  BY <1>1, BookDeletionAssumption DEF QueueTypeOK, Nobody
<1>3. ASSUME NEW state \in JobStates, NEW by \in Slots \cup {Nobody},
             NEW failures \in 0..Attempts, NEW stalled \in 0..StallLimit,
             job' = [state |-> state, by |-> by, failures |-> failures, stalled |-> stalled],
             by # Nobody => state = "active",
             state \in {"waiting", "active", "delayed"} => failures < Attempts
      PROVE  /\ JobGood'
             /\ job' \in [state: JobStates, by: Slots \cup {Nobody},
                          failures: 0..Attempts, stalled: 0..StallLimit]
  BY <1>3 DEF JobGood
<1>4. job = [state |-> job.state, by |-> job.by, failures |-> job.failures, stalled |-> job.stalled]
  BY <1>2
<1>5. CASE BackoffElapses
  <2>1. job' = [state |-> "waiting", by |-> job.by, failures |-> job.failures,
                stalled |-> job.stalled]
        /\ job.by = Nobody /\ job.failures < Attempts
    BY <1>2, <1>5 DEF BackoffElapses, JobGood
  <2>2. job' \in [state: JobStates, by: Slots \cup {Nobody},
                  failures: 0..Attempts, stalled: 0..StallLimit] /\ JobGood'
    BY <1>2, <2>1 DEF JobStates, JobGood
  <2> QED
    BY <1>1, <1>5, <2>2
    DEF TypeOK, ApiTypeOK, StoreTypeOK, QueueTypeOK, RunTypeOK, BookTypeOK,
        BackoffElapses, OnlyJob, apiVars
<1>6. ASSUME NEW s \in Slots, PickUp(s) PROVE TypeOK' /\ JobGood'
  <2>1. job' \in [state: JobStates, by: Slots \cup {Nobody},
                  failures: 0..Attempts, stalled: 0..StallLimit] /\ JobGood'
    BY <1>2, <1>6 DEF PickUp, JobStates, JobGood
  <2>2. step' \in [Slots -> Steps]
    BY <1>2, <1>6 DEF PickUp, Goto, Steps
  <2> QED
    BY <1>1, <1>6, <2>1, <2>2
    DEF TypeOK, ApiTypeOK, StoreTypeOK, QueueTypeOK, RunTypeOK, BookTypeOK, PickUp,
        OnlyJob, apiVars
<1>7. ASSUME NEW s \in Slots, LoseLock(s) PROVE TypeOK' /\ JobGood'
  <2>1. job' \in [state: JobStates, by: Slots \cup {Nobody},
                  failures: 0..Attempts, stalled: 0..StallLimit] /\ JobGood'
    <3>1. CASE job.stalled < StallLimit
      <4>1. job' = [state |-> "waiting", by |-> Nobody, failures |-> job.failures,
                    stalled |-> job.stalled + 1]
        BY <1>4, <1>7, <3>1 DEF LoseLock
      <4>2. job.stalled + 1 \in 0..StallLimit /\ job.failures < Attempts
        BY <1>2, <1>7, <3>1 DEF LoseLock, JobGood
      <4> QED
        BY <1>2, <1>3, <4>1, <4>2 DEF JobStates
    <3>2. CASE ~(job.stalled < StallLimit)
      BY <1>2, <1>7, <3>2 DEF LoseLock, JobStates, JobGood
    <3> QED
      BY <3>1, <3>2
  <2>2. step' \in [Slots -> Steps]
    BY <1>2, <1>7 DEF LoseLock, Steps
  <2>3. left' \in [Bounds -> Nat]
    BY <1>1, <1>7, LeftType DEF LoseLock, Bounds
  <2> QED
    BY <1>1, <1>7, <2>1, <2>2, <2>3
    DEF TypeOK, ApiTypeOK, StoreTypeOK, QueueTypeOK, RunTypeOK, BookTypeOK, LoseLock,
        OnlyJob, apiVars
<1>8. ASSUME NEW s \in Slots, Settle(s) PROVE TypeOK' /\ JobGood'
  <2>1. job' \in [state: JobStates, by: Slots \cup {Nobody},
                  failures: 0..Attempts, stalled: 0..StallLimit] /\ JobGood'
    <3>1. CASE job.by # s
      BY <1>2, <1>8, <3>1 DEF Settle, JobGood
    <3>2. CASE job.by = s /\ At(s, "return")
      BY <1>2, <1>8, <3>2 DEF Settle, JobGood, JobStates
    <3>3. CASE job.by = s /\ ~At(s, "return")
      <4>1. job.failures < Attempts
        BY <1>2, <3>3 DEF JobGood
      <4>2. job' = [job EXCEPT !.failures = job.failures + 1, !.by = Nobody,
                       !.state = IF job.failures + 1 < Attempts THEN "delayed" ELSE "failed"]
        BY <1>2, <1>8, <3>3 DEF Settle
      <4> QED
        <5>1. CASE job.failures + 1 < Attempts
          <6>1. job' = [state |-> "delayed", by |-> Nobody, failures |-> job.failures + 1,
                        stalled |-> job.stalled]
            BY <1>4, <4>2, <5>1
          <6>2. job.failures + 1 \in 0..Attempts
            BY <1>2, <4>1
          <6> QED
            BY <1>2, <1>3, <5>1, <6>1, <6>2 DEF JobStates
        <5>2. CASE ~(job.failures + 1 < Attempts)
          <6>1. job' = [state |-> "failed", by |-> Nobody, failures |-> job.failures + 1,
                        stalled |-> job.stalled]
            BY <1>4, <4>2, <5>2
          <6>2. job.failures + 1 \in 0..Attempts
            BY <1>2, <4>1
          <6> QED
            BY <1>2, <1>3, <6>1, <6>2 DEF JobStates
        <5> QED
          BY <5>1, <5>2
    <3> QED
      BY <3>1, <3>2, <3>3
  <2>2. step' \in [Slots -> Steps]
    BY <1>2, <1>8 DEF Settle, Goto, Steps
  <2> QED
    BY <1>1, <1>8, <2>1, <2>2
    DEF TypeOK, ApiTypeOK, StoreTypeOK, QueueTypeOK, RunTypeOK, BookTypeOK, Settle,
        OnlyJob, apiVars
<1>9. ASSUME NEW s \in Slots,
             \/ Claim(s) \/ CheckWork(s) \/ CheckWriters(s) \/ Sweep(s) \/ Verify(s)
             \/ Finalize(s) \/ Record(s) \/ StepFails(s) \/ ClaimOrRecordFails(s)
      PROVE  TypeOK' /\ JobGood'
  <2>1. UNCHANGED <<hand, job, tidying, shown, expired, api, overran, cleaner>>
    BY <1>9
    DEF Claim, CheckWork, CheckWriters, Sweep, Verify, Finalize, Record, StepFails,
        ClaimOrRecordFails, OnlyProcess, apiVars
  <2>2. step' \in [Slots -> Steps]
    BY <1>2, <1>9
    DEF Claim, CheckWork, CheckWriters, Sweep, Verify, Finalize, Record, StepFails,
        ClaimOrRecordFails, Goto, Steps
  <2>3. intent' \in [Writers -> Rows]
    BY <1>1, <1>9, FencedType
    DEF Claim, CheckWork, CheckWriters, Sweep, Verify, Finalize, Record, StepFails,
        ClaimOrRecordFails, ApiTypeOK, apiVars, Rows
  <2>4. storage' \subseteq Keys
    BY <1>1, <1>9
    DEF Claim, CheckWork, CheckWriters, Sweep, Verify, Finalize, Record, StepFails,
        ClaimOrRecordFails, StoreTypeOK
  <2>5. request' \in Statuses /\ events' \in Nat
    BY <1>1, <1>9
    DEF Claim, CheckWork, CheckWriters, Sweep, Verify, Finalize, Record, StepFails,
        ClaimOrRecordFails, QueueTypeOK, Statuses
  <2>6. RunTypeOK' /\ book' \in {"live", "tombstoned", "gone"}
    BY <1>1, <1>9
    DEF Claim, CheckWork, CheckWriters, Sweep, Verify, Finalize, Record, StepFails,
        ClaimOrRecordFails, RunTypeOK, BookTypeOK
  <2>7. left' \in [Bounds -> Nat]
    BY <1>1, <1>9, LeftType
    DEF Claim, CheckWork, CheckWriters, Sweep, Verify, Finalize, Record, StepFails,
        ClaimOrRecordFails, OnlyProcess, BookTypeOK, Bounds
  <2>8. JobGood'
    BY <2>1 DEF JobGood
  <2> QED
    BY <1>1, <2>1, <2>2, <2>3, <2>4, <2>5, <2>6, <2>7, <2>8
    DEF TypeOK, ApiTypeOK, StoreTypeOK, QueueTypeOK, RunTypeOK, BookTypeOK
<1> QED
  BY <1>5, <1>6, <1>7, <1>8, <1>9 DEF Slot, Process

LEMMA TypeStep ==
    ASSUME TypeOK, JobGood, [Next]_vars
    PROVE  TypeOK' /\ JobGood'
<1>1. CASE UNCHANGED vars
  BY <1>1 DEF vars, TypeOK, JobGood, jobVars
<1>2. CASE \/ \E w \in Writers : ApiWriter(w)
           \/ Recovery \/ StartRun \/ GenWorker \/ GenLoseLock
           \/ SoftDelete \/ Request \/ TidyQueue \/ Retry
  <2>1. job' = job
    BY <1>2
    DEF ApiWriter, OnlyApi, Admit, Save, SaveFails, Publish, Refused, Mark, Find, ApiDelete,
        ApiVerify, ApiDrop, DiscardFails, ApiCrash, LeaseExpires, Recovery, OnlyCleaner,
        RecoverFence, RecoverPick, RecoverDelete, RecoverVerify, RecoverDrop,
        StartRun, GenWorker, GenLoseLock, GenPickUp, GenCheck, GenWrite, GenComplete, ZombieWrite,
        OnlyRun, SoftDelete, Request, TidyQueue, Retry, jobVars
  <2> QED
    BY <1>2, <2>1, ApiType, RecoveryType, GenerationType, OwnerType DEF JobGood
<1>3. CASE Dispatcher \/ DispatchFails
  <2>1. JobGood'
    BY <1>3, BookDeletionAssumption
    DEF Dispatcher, DispatchFails, ReadEvent, EnqueueDeletion, EnqueueRun, MarkDispatched,
        JobGood, NoJob
  <2> QED
    BY <1>3, <2>1, DispatcherType
<1>4. CASE BackoffElapses \/ \E s \in Slots : Slot(s)
  BY <1>4, SlotType
<1> QED
  BY <1>1, <1>2, <1>3, <1>4 DEF Next

-----------------------------------------------------------------------------
(* The deletion is asked for first; a generation's job and its worker *)

Asked ==
    \/ events > 0 \/ hand.of = "deletion" \/ job.state # "none"
    \/ \E s \in Slots : step[s] # "idle"

\* Whatever works for a deletion works for one that was asked for, and from the
\* request on the book is not live and has no active run.
RequestGood ==
    /\ request # "none" => book # "live" /\ run.row # "active"
    /\ Asked => request # "none"

RunGood ==
    /\ run.at # "idle" <=> run.job = "active"
    /\ run.zombie => Generation \in overran

LEMMA RequestStep ==
    ASSUME TypeOK, RequestGood, [Next]_vars
    PROVE  RequestGood'
<1>1. ApiTypeOK /\ QueueTypeOK /\ RunTypeOK /\ BookTypeOK
  BY TypeParts
<1>2. ASSUME UNCHANGED <<request, book, events, hand, job, step>>,
             run'.row = run.row \/ run'.row # "active"
      PROVE  RequestGood'
  BY <1>2 DEF RequestGood, Asked
<1>3. CASE (\E w \in Writers : ApiWriter(w)) \/ Recovery \/ TidyQueue \/ UNCHANGED vars
  <2>1. UNCHANGED <<request, book, events, hand, job, step>> /\ run'.row = run.row
    BY <1>1, <1>3
    DEF ApiWriter, OnlyApi, Admit, Save, SaveFails, Publish, Refused, Mark, Find, ApiDelete,
        ApiVerify, ApiDrop, DiscardFails, ApiCrash, LeaseExpires, Recovery, OnlyCleaner,
        RecoverFence, RecoverPick, RecoverDelete, RecoverVerify, RecoverDrop, TidyQueue,
        jobVars, vars, RunTypeOK
  <2> QED
    BY <1>2, <2>1
<1>4. CASE GenWorker \/ GenLoseLock
  <2>1. UNCHANGED <<request, book, events, hand, job, step>>
        /\ (run'.row = run.row \/ run'.row # "active")
    BY <1>1, <1>4
    DEF GenWorker, GenLoseLock, GenPickUp, GenCheck, GenWrite, GenComplete, ZombieWrite, OnlyRun,
        jobVars, RunTypeOK
  <2> QED
    BY <1>2, <2>1
<1>5. CASE StartRun \/ SoftDelete
  BY <1>1, <1>5
  DEF StartRun, SoftDelete, OnlyRun, jobVars, RequestGood, Asked, RunTypeOK
<1>6. CASE Request
  BY <1>1, <1>6 DEF Request, RequestGood, RunTypeOK
<1>7. CASE Retry
  BY <1>7 DEF Retry, RequestGood
<1>8. CASE Dispatcher \/ DispatchFails
  <2>1. UNCHANGED <<request, book, step>> /\ run'.row = run.row
    BY <1>1, <1>8
    DEF Dispatcher, DispatchFails, ReadEvent, EnqueueDeletion, EnqueueRun, MarkDispatched,
        OnlyDispatch, RunTypeOK
  <2>2. Asked' => Asked
    <3>1. CASE EnqueueDeletion
      BY <3>1 DEF EnqueueDeletion, Asked
    <3>2. CASE EnqueueRun
      <4>1. hand'.of = hand.of
        BY <1>1, <3>2 DEF EnqueueRun, QueueTypeOK
      <4> QED
        BY <2>1, <3>2, <4>1 DEF EnqueueRun, Asked
    <3>3. CASE ReadEvent
      BY <2>1, <3>3 DEF ReadEvent, Asked
    <3>4. CASE MarkDispatched \/ DispatchFails
      <4>1. hand'.of # "deletion" /\ job' = job
        BY <3>4 DEF MarkDispatched, DispatchFails, EmptyHand, Nobody
      <4>2. events' > 0 => events > 0
        BY <1>1, <3>4 DEF MarkDispatched, DispatchFails, QueueTypeOK
      <4> QED
        BY <2>1, <4>1, <4>2 DEF Asked
    <3> QED
      BY <1>8, <3>1, <3>2, <3>3, <3>4 DEF Dispatcher
  <2> QED
    BY <2>1, <2>2 DEF RequestGood
<1>9. CASE BackoffElapses \/ \E s \in Slots : Slot(s)
  <2>1. Asked
    BY <1>1, <1>9
    DEF BackoffElapses, Slot, Process, PickUp, LoseLock, Claim, CheckWork, CheckWriters, Sweep,
        Verify, Finalize, Record, Settle, StepFails, ClaimOrRecordFails, At, Asked
  <2>2. request # "none" /\ book # "live" /\ run.row # "active"
    BY <2>1 DEF RequestGood
  <2>3. request' # "none" /\ book' # "live" /\ run'.row # "active"
    BY <1>1, <1>9, <2>2
    DEF BackoffElapses, OnlyJob, Slot, Process, PickUp, LoseLock, Claim, CheckWork, CheckWriters,
        Sweep, Verify, Finalize, Record, Settle, StepFails, ClaimOrRecordFails, RunTypeOK
  <2> QED
    BY <2>3 DEF RequestGood
<1> QED
  BY <1>3, <1>4, <1>5, <1>6, <1>7, <1>8, <1>9 DEF Next

LEMMA RunStep ==
    ASSUME TypeOK, RunGood, [Next]_vars
    PROVE  RunGood'
<1>1. RunTypeOK /\ BookTypeOK
  BY TypeParts
<1>2. ASSUME run' = run, overran \subseteq overran' PROVE RunGood'
  BY <1>2 DEF RunGood
<1>3. CASE \/ \E w \in Writers : ApiWriter(w)
           \/ Recovery \/ SoftDelete \/ Retry \/ UNCHANGED vars
           \/ BackoffElapses
  BY <1>2, <1>3
  DEF ApiWriter, OnlyApi, Admit, Save, SaveFails, Publish, Refused, Mark, Find, ApiDelete,
      ApiVerify, ApiDrop, DiscardFails, ApiCrash, LeaseExpires, Recovery, OnlyCleaner,
      RecoverFence, RecoverPick, RecoverDelete, RecoverVerify, RecoverDrop,
      SoftDelete, Retry, BackoffElapses, OnlyJob, apiVars, vars
<1>4. CASE StartRun \/ Request
  BY <1>1, <1>4 DEF StartRun, Request, OnlyRun, apiVars, RunGood, RunTypeOK
<1>5. CASE TidyQueue
  BY <1>1, <1>5 DEF TidyQueue, apiVars, RunGood, RunTypeOK
<1>6. CASE GenPickUp
  BY <1>1, <1>6 DEF GenPickUp, OnlyRun, apiVars, RunGood, RunTypeOK
<1>7. CASE GenCheck
  <2>1. overran' = overran /\ run.at \in {"claim", "owner"} /\ run.job = "active"
    BY <1>7 DEF GenCheck, OnlyRun, apiVars, RunGood
  <2>2. \/ run' = [run EXCEPT !.job = "none", !.at = "idle"]
        \/ run' = [run EXCEPT !.at = "owner"]
        \/ run' = [run EXCEPT !.at = "write"]
    BY <1>7 DEF GenCheck
  <2> QED
    BY <1>1, <2>1, <2>2 DEF RunGood, RunTypeOK
<1>8. CASE GenWrite \/ GenComplete \/ ZombieWrite \/ GenLoseLock
  BY <1>1, <1>8
  DEF GenWrite, GenComplete, ZombieWrite, GenLoseLock, OnlyRun, apiVars, RunGood, RunTypeOK
<1>9. CASE Dispatcher \/ DispatchFails
  BY <1>1, <1>9
  DEF Dispatcher, DispatchFails, ReadEvent, EnqueueDeletion, EnqueueRun, MarkDispatched,
      OnlyDispatch, apiVars, RunGood, RunTypeOK
<1>10. ASSUME NEW s \in Slots, Slot(s) PROVE RunGood'
  BY <1>1, <1>10
  DEF Slot, Process, PickUp, LoseLock, Claim, CheckWork, CheckWriters, Sweep, Verify, Finalize,
      Record, Settle, StepFails, ClaimOrRecordFails, OnlyJob, apiVars, RunGood, RunTypeOK
<1> QED
  BY <1>3, <1>4, <1>5, <1>6, <1>7, <1>8, <1>9, <1>10 DEF Next, GenWorker

-----------------------------------------------------------------------------
(* Writers and the recovery pass *)

\* Once its intent is not active a writer stores nothing, unless it outlasted
\* its lease; what it published it does not discard.
WriterGood(w) ==
    /\ api[w] = "idle" => intent[w] = "none" /\ w \notin expired
    /\ api[w] \in {"save", "publish"} => intent[w] = "active" \/ w \in expired
    /\ w \in expired => api[w] \in {"dead", "done"} \/ w \in overran
    /\ w \in shown => intent[w] = "none" /\ api[w] \in {"mark", "find", "done", "dead"}
    /\ api[w] \in {"find", "delete", "verify", "drop"} => intent[w] # "active"
    /\ api[w] = "publish" /\ intent[w] = "active" /\ book = "live" => w \in storage
    /\ api[w] = "drop" => w \notin storage

WritersGood == \A w \in Writers : WriterGood(w)

\* A pass cleans what is nobody's any more.
CleanerGood ==
    cleaner.at # "idle" =>
       /\ cleaner.row \in Writers /\ cleaner.row \notin shown
       /\ intent[cleaner.row] # "active" /\ api[cleaner.row] # "idle"
       /\ cleaner.at = "drop" => cleaner.row \notin storage \/ cleaner.row \in overran

\* Nobody may write any more: the generation has stopped, intents are fenced.
Stopped == run.row # "active" /\ run.at # "write"
NoneActive == \A w \in Writers : intent[w] # "active"

StepGood(s) ==
    /\ step[s] \in {"writers", "sweep", "verify", "finalize"} => Stopped
    /\ step[s] \in {"sweep", "verify", "finalize"} => NoneActive
    /\ step[s] = "finalize" => storage \subseteq overran

StepsGood == \A s \in Slots : StepGood(s)

Finished == request = "completed" => Stopped /\ NoneActive /\ storage \subseteq overran

Inv ==
    /\ TypeOK /\ JobGood /\ RequestGood /\ RunGood
    /\ WritersGood /\ CleanerGood /\ StepsGood /\ Finished

\* A step of somebody else as a writer sees it.
Kept(v) ==
    /\ api'[v] = api[v]
    /\ v \in shown' <=> v \in shown
    /\ v \in expired' <=> v \in expired
    /\ v \in overran => v \in overran'
    /\ v \in storage' => v \in storage
    /\ book' = "live" => book = "live"
    /\ \/ intent'[v] = intent[v]
       \/ intent'[v] = "cleanup_pending" /\ intent[v] = "active" /\ v \in expired
       \/ intent'[v] = "none" /\ intent[v] # "active" /\ (v \in storage' => v \in overran')
    /\ book' = "live" /\ v \in storage /\ (v \in shown \/ intent'[v] = "active") => v \in storage'

LEMMA KeptGood ==
    ASSUME NEW v, WriterGood(v), Kept(v)
    PROVE  WriterGood(v)'
BY DEF WriterGood, Kept

LEMMA FencedKept ==
    ASSUME TypeOK, NEW v \in Writers, intent' = Fenced
    PROVE  intent'[v] = intent[v]
           \/ (intent'[v] = "cleanup_pending" /\ intent[v] = "active" /\ v \in expired)
BY DEF Fenced

LEMMA RecoveryKept ==
    ASSUME Inv, Recovery, NEW v \in Writers
    PROVE  Kept(v)
<1>1. TypeOK /\ StoreTypeOK /\ ApiTypeOK /\ WriterGood(v) /\ CleanerGood
  BY TypeParts DEF Inv, WritersGood
<1>2. UNCHANGED <<book, shown, expired, api, overran>>
  BY DEF Recovery, OnlyCleaner, RecoverFence, RecoverPick, RecoverDelete, RecoverVerify, RecoverDrop
<1>3. CASE RecoverFence
  BY <1>1, <1>2, <1>3, FencedKept DEF RecoverFence, Kept
<1>4. CASE RecoverPick \/ RecoverVerify
  BY <1>2, <1>4 DEF RecoverPick, RecoverVerify, Kept
<1>5. CASE RecoverDelete
  BY <1>1, <1>2, <1>5 DEF RecoverDelete, Kept, CleanerGood
<1>6. CASE RecoverDrop
  <2>1. storage' = storage /\ cleaner.at = "drop"
    BY <1>6 DEF RecoverDrop
  <2>2. CASE v # cleaner.row \/ intent[v] # "cleanup_pending"
    <3>1. intent'[v] = intent[v]
      BY <1>1, <1>6, <2>2 DEF RecoverDrop, DropRow, ApiTypeOK
    <3> QED
      BY <1>2, <2>1, <3>1 DEF Kept
  <2>3. CASE v = cleaner.row /\ intent[v] = "cleanup_pending"
    <3>1. intent'[v] = "none"
      BY <1>1, <1>6, <2>3 DEF RecoverDrop, DropRow, ApiTypeOK
    <3>2. v \notin storage \/ v \in overran
      BY <1>1, <2>1, <2>3 DEF CleanerGood
    <3> QED
      BY <1>2, <2>1, <2>3, <3>1, <3>2 DEF Kept
  <2> QED
    BY <2>2, <2>3
<1> QED
  BY <1>3, <1>4, <1>5, <1>6 DEF Recovery

LEMMA ProcessKept ==
    ASSUME Inv, NEW s \in Slots, Slot(s), NEW v \in Writers
    PROVE  Kept(v)
<1>1. /\ TypeOK /\ ApiTypeOK /\ QueueTypeOK /\ StepGood(s)
      /\ step[s] # "idle" => book # "live"
  BY TypeParts DEF Inv, StepsGood, RequestGood, Asked
<1>2. CASE \/ PickUp(s) \/ LoseLock(s) \/ Claim(s) \/ CheckWork(s) \/ Verify(s) \/ Record(s)
           \/ Settle(s) \/ ClaimOrRecordFails(s)
  BY <1>2
  DEF PickUp, LoseLock, Claim, CheckWork, Verify, Record, Settle, ClaimOrRecordFails,
      OnlyJob, apiVars, Kept
<1>3. CASE CheckWriters(s)
  BY <1>1, <1>3, FencedKept DEF CheckWriters, Kept
<1>4. CASE Sweep(s) \/ StepFails(s)
  <2>1. /\ UNCHANGED <<book, shown, intent, expired, api, overran>>
        /\ storage' \subseteq storage /\ (storage' = storage \/ book # "live")
    BY <1>1, <1>4 DEF Sweep, StepFails, At, apiVars
  <2> QED
    BY <2>1 DEF Kept
<1>5. CASE Finalize(s)
  <2>1. CASE ~MayFinalize
    BY <1>5, <2>1 DEF Finalize, Kept
  <2>2. CASE MayFinalize
    BY <1>1, <1>5, <2>2 DEF Finalize, MayFinalize, StepGood, At, Kept
  <2> QED
    BY <2>1, <2>2
<1> QED
  BY <1>2, <1>3, <1>4, <1>5 DEF Slot, Process

\* Every step leaves a writer in order, or is its own.
LEMMA OthersKept ==
    ASSUME Inv, [Next]_vars, NEW v \in Writers
    PROVE  Kept(v) \/ ApiWriter(v)
<1>1. TypeOK /\ ApiTypeOK /\ StoreTypeOK /\ Generation \notin Writers
  BY TypeParts, BookDeletionAssumption DEF Inv, Writers
<1>2. ASSUME NEW w \in Writers, w # v, ApiWriter(w) PROVE Kept(v)
  <2>1. book' = book
    BY <1>2
    DEF ApiWriter, Admit, Save, SaveFails, Publish, Refused, Mark, Find, ApiDelete, ApiVerify,
        ApiDrop, DiscardFails, ApiCrash, LeaseExpires, OnlyApi
  <2>2. api'[v] = api[v] /\ intent'[v] = intent[v]
    BY <1>1, <1>2
    DEF ApiWriter, Admit, Save, SaveFails, Publish, Refused, Mark, Find, ApiDelete, ApiVerify,
        ApiDrop, DiscardFails, ApiCrash, LeaseExpires, ApiGoto, DropRow, ApiTypeOK
  <2>3. /\ v \in shown' <=> v \in shown
        /\ v \in expired' <=> v \in expired
        /\ v \in overran => v \in overran'
        /\ v \in storage' <=> v \in storage
    BY <1>2
    DEF ApiWriter, Admit, Save, SaveFails, Publish, Refused, Mark, Find, ApiDelete, ApiVerify,
        ApiDrop, DiscardFails, ApiCrash, LeaseExpires
  <2> QED
    BY <2>1, <2>2, <2>3 DEF Kept
<1>3. CASE StartRun \/ GenWorker \/ GenLoseLock
  <2>1. /\ UNCHANGED <<book, intent, expired, api>>
        /\ v \in shown' <=> v \in shown
        /\ v \in overran => v \in overran'
        /\ v \in storage' <=> v \in storage
    BY <1>1, <1>3
    DEF StartRun, GenWorker, GenLoseLock, GenPickUp, GenCheck, GenWrite, GenComplete,
        ZombieWrite, OnlyRun, apiVars
  <2> QED
    BY <2>1 DEF Kept
<1>4. CASE \/ SoftDelete \/ Request \/ TidyQueue \/ Retry \/ Dispatcher \/ DispatchFails
           \/ BackoffElapses \/ UNCHANGED vars
  <2>1. UNCHANGED <<shown, intent, expired, api, overran, storage>> /\ (book' = "live" => book = "live")
    BY <1>4
    DEF SoftDelete, Request, TidyQueue, Retry, Dispatcher, DispatchFails, ReadEvent,
        EnqueueDeletion, EnqueueRun, MarkDispatched, OnlyDispatch, BackoffElapses, OnlyJob,
        apiVars, vars
  <2> QED
    BY <2>1 DEF Kept
<1> QED
  BY <1>2, <1>3, <1>4, RecoveryKept, ProcessKept DEF Next

LEMMA WriterStep ==
    ASSUME TypeOK, NEW w \in Writers, WriterGood(w), ApiWriter(w)
    PROVE  WriterGood(w)'
<1>1. ApiTypeOK
  BY TypeParts
<1>2. CASE Admit(w) \/ Save(w) \/ SaveFails(w)
  BY <1>1, <1>2
  DEF Admit, Save, SaveFails, OnlyApi, ApiAt, ApiGoto, ApiTypeOK, WriterGood
<1>3. CASE Publish(w) \/ Refused(w) \/ Mark(w) \/ Find(w)
  BY <1>1, <1>3
  DEF Publish, MayPublish, Refused, Mark, Find, OnlyApi, ApiAt, ApiGoto, ApiTypeOK, WriterGood
<1>4. CASE ApiDelete(w) \/ ApiVerify(w) \/ ApiDrop(w)
  BY <1>1, <1>4
  DEF ApiDelete, ApiVerify, ApiDrop, DropRow, OnlyApi, ApiAt, ApiGoto, ApiTypeOK, WriterGood
<1>5. CASE DiscardFails(w) \/ ApiCrash(w) \/ LeaseExpires(w)
  BY <1>1, <1>5
  DEF DiscardFails, ApiCrash, LeaseExpires, OnlyApi, ApiAt, ApiGoto, ApiTypeOK, WriterGood
<1> QED
  BY <1>2, <1>3, <1>4, <1>5 DEF ApiWriter

LEMMA WritersStep ==
    ASSUME Inv, [Next]_vars
    PROVE  WritersGood'
BY OthersKept, KeptGood, WriterStep DEF Inv, WritersGood

\* What a writer's own step does to its row, its object and what is shown.
LEMMA OwnStep ==
    ASSUME TypeOK, NEW w \in Writers, WriterGood(w), ApiWriter(w)
    PROVE  /\ w \in overran => w \in overran'
           /\ intent'[w] = "active" => intent[w] = "active" \/ (api[w] = "idle" /\ book = "live")
           /\ api[w] # "idle" => api'[w] # "idle"
           /\ w \in shown' /\ w \notin shown => intent[w] = "active"
           /\ w \in storage' /\ w \notin storage => intent[w] = "active" \/ w \in overran
<1>1. ApiTypeOK
  BY TypeParts
<1> QED
  BY <1>1
  DEF ApiWriter, Admit, Save, SaveFails, Publish, MayPublish, Refused, Mark, Find, ApiDelete,
      ApiVerify, ApiDrop, DiscardFails, ApiCrash, LeaseExpires, ApiAt, ApiGoto, DropRow, ApiTypeOK,
      WriterGood

LEMMA CleanerStep ==
    ASSUME Inv, [Next]_vars
    PROVE  CleanerGood'
<1>1. /\ TypeOK /\ WritersGood /\ CleanerGood /\ WritersGood'
      /\ ApiTypeOK /\ StoreTypeOK
  BY WritersStep, TypeParts DEF Inv
<1>2. CASE cleaner' = cleaner
  <2> DEFINE w == cleaner.row
  <2>1. CASE cleaner.at = "idle"
    BY <1>2, <2>1 DEF CleanerGood
  <2>2. CASE cleaner.at # "idle"
    <3>1. /\ w \in Writers /\ w \notin shown /\ intent[w] # "active" /\ api[w] # "idle"
          /\ cleaner.at = "drop" => w \notin storage \/ w \in overran
      BY <1>1, <2>2 DEF CleanerGood
    <3>2. CASE Kept(w)
      BY <1>2, <3>1, <3>2 DEF Kept, CleanerGood
    <3>3. CASE ApiWriter(w)
      BY <1>1, <1>2, <3>1, <3>3, OwnStep DEF WritersGood, CleanerGood
    <3> QED
      BY <3>1, <3>2, <3>3, OthersKept
  <2> QED
    BY <2>1, <2>2
<1>3. CASE Recovery
  <2>1. UNCHANGED <<book, shown, expired, api, overran>>
    BY <1>3
    DEF Recovery, OnlyCleaner, RecoverFence, RecoverPick, RecoverDelete, RecoverVerify, RecoverDrop
  <2>2. CASE RecoverFence
    BY <1>2, <2>2 DEF RecoverFence
  <2>3. CASE RecoverPick
    BY <1>1, <2>1, <2>3 DEF RecoverPick, CleanerGood, WritersGood, WriterGood
  <2>4. CASE RecoverDelete
    <3>1. cleaner'.row = cleaner.row /\ cleaner'.at = "verify" /\ intent' = intent
      BY <1>1, <2>4 DEF RecoverDelete, StoreTypeOK
    <3> QED
      BY <1>1, <2>1, <2>4, <3>1 DEF RecoverDelete, CleanerGood
  <2>5. CASE RecoverVerify
    <3>1. intent' = intent /\ storage' = storage
          /\ (cleaner' = Idle \/ (cleaner'.row = cleaner.row /\ cleaner.row \notin storage))
      BY <1>1, <2>5 DEF RecoverVerify, StoreTypeOK
    <3> QED
      BY <1>1, <2>1, <2>5, <3>1 DEF RecoverVerify, CleanerGood, Idle
  <2>6. CASE RecoverDrop
    BY <2>6 DEF RecoverDrop, CleanerGood, Idle
  <2> QED
    BY <1>3, <2>2, <2>3, <2>4, <2>5, <2>6 DEF Recovery
<1>4. CASE ~Recovery
  <2>1. cleaner' = cleaner
    BY <1>4
    DEF Next, ApiWriter, OnlyApi, Admit, Save, SaveFails, Publish, Refused, Mark, Find, ApiDelete,
        ApiVerify, ApiDrop, DiscardFails, ApiCrash, LeaseExpires,
        StartRun, GenWorker, GenLoseLock, GenPickUp, GenCheck, GenWrite, GenComplete, ZombieWrite,
        OnlyRun, SoftDelete, Request, TidyQueue, Retry, Dispatcher, DispatchFails, ReadEvent,
        EnqueueDeletion, EnqueueRun, MarkDispatched, OnlyDispatch, BackoffElapses, OnlyJob,
        Slot, Process, PickUp, LoseLock, Claim, CheckWork, CheckWriters, Sweep, Verify, Finalize,
        Record, Settle, StepFails, ClaimOrRecordFails, vars
  <2> QED
    BY <1>2, <2>1
<1> QED
  BY <1>3, <1>4

-----------------------------------------------------------------------------
(* The sweep *)

LEMMA StoppedStays ==
    ASSUME TypeOK, [Next]_vars, book # "live", Stopped
    PROVE  Stopped'
<1>1. RunTypeOK
  BY TypeParts
<1>2. CASE GenWorker \/ GenLoseLock \/ StartRun
  BY <1>1, <1>2
  DEF StartRun, GenWorker, GenLoseLock, GenPickUp, GenCheck, GenWrite, GenComplete, ZombieWrite,
      Stopped, RunTypeOK
<1>3. CASE SoftDelete \/ Request \/ TidyQueue \/ Retry \/ Dispatcher \/ DispatchFails
  BY <1>1, <1>3
  DEF SoftDelete, Request, TidyQueue, Retry, Dispatcher, DispatchFails, ReadEvent,
      EnqueueDeletion, EnqueueRun, MarkDispatched, Stopped, RunTypeOK
<1>4. CASE (\E w \in Writers : ApiWriter(w)) \/ Recovery \/ BackoffElapses \/ UNCHANGED vars
  BY <1>4
  DEF ApiWriter, OnlyApi, Admit, Save, SaveFails, Publish, Refused, Mark, Find, ApiDelete,
      ApiVerify, ApiDrop, DiscardFails, ApiCrash, LeaseExpires, Recovery, OnlyCleaner,
      RecoverFence, RecoverPick, RecoverDelete, RecoverVerify, RecoverDrop, BackoffElapses,
      OnlyJob, vars, Stopped
<1>5. ASSUME NEW s \in Slots, Slot(s) PROVE Stopped'
  BY <1>1, <1>5
  DEF Slot, Process, PickUp, LoseLock, Claim, CheckWork, CheckWriters, Sweep, Verify, Finalize,
      Record, Settle, StepFails, ClaimOrRecordFails, OnlyJob, Stopped, RunTypeOK
<1> QED
  BY <1>2, <1>3, <1>4, <1>5 DEF Next

LEMMA NoneActiveStays ==
    ASSUME Inv, [Next]_vars, book # "live", NoneActive
    PROVE  NoneActive'
<1>1. ASSUME NEW v \in Writers PROVE intent'[v] # "active"
  BY OthersKept, OwnStep DEF NoneActive, Kept, Inv, WritersGood
<1> QED
  BY <1>1 DEF NoneActive

\* What a generation can add to storage, and nothing else of its.
LEMMA GenerationStep ==
    ASSUME TypeOK, RunGood, CleanerGood, [Next]_vars
    PROVE  /\ Generation \in overran => Generation \in overran'
           /\ Generation \in storage' /\ Generation \notin storage =>
                 run.at = "write" \/ Generation \in overran
           /\ Generation \in storage /\ Generation \notin storage' =>
                 \E s \in Slots : step[s] = "sweep"
           /\ Generation \in shown' /\ Generation \notin shown =>
                 Generation \in storage /\ storage' = storage
<1>1. Generation \notin Writers /\ StoreTypeOK
  BY TypeParts, BookDeletionAssumption DEF Writers
<1>2. CASE StartRun \/ GenWorker \/ GenLoseLock
  BY <1>2
  DEF StartRun, GenWorker, GenLoseLock, GenPickUp, GenCheck, GenWrite, GenComplete, ZombieWrite,
      OnlyRun, apiVars, RunGood
<1>3. ASSUME NEW w \in Writers, ApiWriter(w)
      PROVE  /\ Generation \in overran => Generation \in overran'
             /\ Generation \in storage' <=> Generation \in storage
             /\ Generation \in shown' <=> Generation \in shown
  BY <1>1, <1>3
  DEF ApiWriter, Admit, Save, SaveFails, Publish, Refused, Mark, Find, ApiDelete, ApiVerify,
      ApiDrop, DiscardFails, ApiCrash, LeaseExpires
<1>4. CASE Recovery
  <2>1. cleaner.at = "delete" => cleaner.row # Generation
    BY <1>1 DEF CleanerGood
  <2>2. UNCHANGED <<overran, shown>>
    BY <1>4 DEF Recovery, OnlyCleaner, RecoverFence, RecoverPick, RecoverDelete, RecoverVerify,
      RecoverDrop
  <2>3. storage' = storage \/ (cleaner.at = "delete" /\ storage' = storage \ {cleaner.row})
    <3>1. CASE RecoverDelete
      BY <3>1 DEF RecoverDelete
    <3>2. CASE RecoverFence \/ RecoverPick \/ RecoverVerify \/ RecoverDrop
      BY <3>2 DEF RecoverFence, RecoverPick, RecoverVerify, RecoverDrop
    <3> QED
      BY <1>4, <3>1, <3>2 DEF Recovery
  <2> QED
    BY <2>1, <2>2, <2>3
<1>5. CASE \/ SoftDelete \/ Request \/ TidyQueue \/ Retry \/ Dispatcher \/ DispatchFails
           \/ BackoffElapses \/ UNCHANGED vars
  BY <1>5
  DEF SoftDelete, Request, TidyQueue, Retry, Dispatcher, DispatchFails, ReadEvent,
      EnqueueDeletion, EnqueueRun, MarkDispatched, OnlyDispatch, BackoffElapses, OnlyJob,
      apiVars, vars
<1>6. ASSUME NEW s \in Slots, Slot(s)
      PROVE  /\ UNCHANGED <<overran, shown>> /\ storage' \subseteq storage
             /\ storage' = storage \/ step[s] = "sweep"
  BY <1>6
  DEF Slot, Process, PickUp, LoseLock, Claim, CheckWork, CheckWriters, Sweep, Verify, Finalize,
      Record, Settle, StepFails, ClaimOrRecordFails, OnlyJob, At, apiVars
<1> QED
  BY <1>2, <1>3, <1>4, <1>5, <1>6 DEF Next

\* Nobody who is still in time stores anything once everybody has been stopped.
LEMMA SweptStays ==
    ASSUME Inv, [Next]_vars, Stopped, NoneActive, storage \subseteq overran
    PROVE  storage' \subseteq overran'
<1>1. TypeOK /\ RunGood /\ WritersGood /\ CleanerGood /\ storage' \subseteq Keys
  BY TypeStep DEF Inv, TypeOK
<1>2. ASSUME NEW v \in Writers, v \in storage' PROVE v \in overran'
  BY <1>1, <1>2, OthersKept, OwnStep DEF Kept, WritersGood, NoneActive
<1>3. Generation \in storage' => Generation \in overran'
  BY <1>1, GenerationStep DEF Stopped
<1> QED
  BY <1>1, <1>2, <1>3 DEF Keys

LEMMA StepsStep ==
    ASSUME Inv, [Next]_vars
    PROVE  StepsGood'
<1> SUFFICES ASSUME NEW s \in Slots PROVE StepGood(s)'
  BY DEF StepsGood
<1>1. /\ TypeOK /\ QueueTypeOK /\ RunTypeOK /\ RunGood /\ StepGood(s)
      /\ step[s] # "idle" => book # "live" /\ run.row # "active"
  BY TypeParts DEF Inv, StepsGood, RequestGood, Asked
<1>2. CASE step'[s] = step[s] \/ step'[s] \notin {"writers", "sweep", "verify", "finalize"}
  BY <1>1, <1>2, StoppedStays, NoneActiveStays, SweptStays DEF StepGood
<1>3. CASE CheckWork(s)
  BY <1>1, <1>3 DEF CheckWork, At, Goto, QueueTypeOK, RunTypeOK, RunGood, StepGood, Stopped
<1>4. CASE CheckWriters(s)
  <2>1. step'[s] = "sweep" => NoneActive'
    BY <1>1, <1>4 DEF CheckWriters, Goto, QueueTypeOK, NoneActive
  <2>2. step'[s] \in {"sweep", "record"} /\ Stopped'
    BY <1>1, <1>4, StoppedStays DEF CheckWriters, At, Goto, QueueTypeOK, StepGood
  <2> QED
    BY <2>1, <2>2 DEF StepGood
<1>5. CASE Sweep(s) \/ Verify(s)
  <2>1. step'[s] \in {"verify", "finalize", "record"} /\ Stopped' /\ NoneActive'
    BY <1>1, <1>5, StoppedStays, NoneActiveStays
    DEF Sweep, Verify, At, Goto, QueueTypeOK, StepGood
  <2>2. step'[s] = "finalize" => storage' = {}
    BY <1>1, <1>5 DEF Sweep, Verify, Goto, QueueTypeOK
  <2> QED
    BY <2>1, <2>2 DEF StepGood
<1>6. CASE \/ PickUp(s) \/ LoseLock(s) \/ Claim(s) \/ Finalize(s) \/ Record(s) \/ Settle(s)
           \/ StepFails(s) \/ ClaimOrRecordFails(s)
  <2>1. step'[s] = step[s] \/ step'[s] \in {"claim", "idle", "work", "return", "record", "throw"}
    BY <1>1, <1>6
    DEF PickUp, LoseLock, Claim, Finalize, Record, Settle, StepFails, ClaimOrRecordFails, Goto,
        QueueTypeOK
  <2> QED
    BY <1>2, <2>1
<1>7. ASSUME NEW t \in Slots, t # s, Slot(t) PROVE step'[s] = step[s]
  BY <1>1, <1>7
  DEF Slot, Process, PickUp, LoseLock, Claim, CheckWork, CheckWriters, Sweep, Verify, Finalize,
      Record, Settle, StepFails, ClaimOrRecordFails, Goto, QueueTypeOK
<1>8. CASE ~\E t \in Slots : Slot(t)
  <2>1. step' = step
    BY <1>8
    DEF Next, ApiWriter, OnlyApi, Admit, Save, SaveFails, Publish, Refused, Mark, Find, ApiDelete,
        ApiVerify, ApiDrop, DiscardFails, ApiCrash, LeaseExpires, Recovery, OnlyCleaner,
        RecoverFence, RecoverPick, RecoverDelete, RecoverVerify, RecoverDrop, StartRun, GenWorker,
        GenLoseLock, GenPickUp, GenCheck, GenWrite, GenComplete, ZombieWrite, OnlyRun, SoftDelete,
        Request, TidyQueue, Retry, Dispatcher, DispatchFails, ReadEvent, EnqueueDeletion,
        EnqueueRun, MarkDispatched, OnlyDispatch, BackoffElapses, jobVars, vars
  <2> QED
    BY <1>2, <2>1
<1> QED
  BY <1>2, <1>3, <1>4, <1>5, <1>6, <1>7, <1>8 DEF Slot, Process

\* Only the finalization completes a request, and nothing reopens it.
LEMMA CompletedBy ==
    ASSUME TypeOK, [Next]_vars
    PROVE  /\ request = "completed" => request' = "completed"
           /\ request' = "completed" /\ request # "completed" =>
                 \E s \in Slots : Finalize(s) /\ MayFinalize
<1>1. CASE Request \/ Retry
  BY <1>1 DEF Request, Retry
<1>2. ASSUME NEW s \in Slots, Claim(s) \/ Record(s) \/ Finalize(s)
      PROVE  /\ request = "completed" => request' = "completed"
             /\ request' = "completed" /\ request # "completed" => Finalize(s) /\ MayFinalize
  BY <1>2 DEF Claim, Record, Finalize, Unfinished
<1>3. ASSUME NEW s \in Slots, Slot(s), ~Claim(s), ~Record(s), ~Finalize(s)
      PROVE  request' = request
  BY <1>3
  DEF Slot, Process, PickUp, LoseLock, CheckWork, CheckWriters, Sweep, Verify, Settle, StepFails,
      ClaimOrRecordFails, OnlyJob
<1>4. CASE ~(Request \/ Retry \/ \E s \in Slots : Slot(s))
  <2>1. request' = request
    BY <1>4
    DEF Next, ApiWriter, OnlyApi, Admit, Save, SaveFails, Publish, Refused, Mark, Find, ApiDelete,
        ApiVerify, ApiDrop, DiscardFails, ApiCrash, LeaseExpires, Recovery, OnlyCleaner,
        RecoverFence, RecoverPick, RecoverDelete, RecoverVerify, RecoverDrop, StartRun, GenWorker,
        GenLoseLock, GenPickUp, GenCheck, GenWrite, GenComplete, ZombieWrite, OnlyRun, SoftDelete,
        TidyQueue, Dispatcher, DispatchFails, ReadEvent, EnqueueDeletion,
        EnqueueRun, MarkDispatched, OnlyDispatch, BackoffElapses, OnlyJob, jobVars, vars
  <2> QED
    BY <2>1
<1> QED
  BY <1>1, <1>2, <1>3, <1>4

LEMMA FinishedStep ==
    ASSUME Inv, [Next]_vars
    PROVE  Finished'
<1>1. TypeOK /\ Finished /\ StepsGood /\ RunTypeOK /\ (request = "completed" => book # "live")
  BY TypeParts DEF Inv, RequestGood
<1>2. CASE request = "completed"
  BY <1>1, <1>2, StoppedStays, NoneActiveStays, SweptStays DEF Finished
<1>3. ASSUME NEW s \in Slots, Finalize(s), MayFinalize PROVE Finished'
  <2>1. Stopped /\ NoneActive /\ storage \subseteq overran
    BY <1>1, <1>3 DEF Finalize, At, StepsGood, StepGood
  <2>2. Stopped' /\ NoneActive' /\ UNCHANGED <<storage, overran>>
    BY <1>1, <1>3, <2>1 DEF Finalize, Stopped, NoneActive, RunTypeOK
  <2> QED
    BY <2>1, <2>2 DEF Finished
<1> QED
  BY <1>1, <1>2, <1>3, CompletedBy DEF Finished

LEMMA InvStep == Inv /\ [Next]_vars => Inv'
BY TypeStep, RequestStep, RunStep, WritersStep, CleanerStep, StepsStep, FinishedStep DEF Inv

LEMMA InvInit == Init => Inv
<1> SUFFICES ASSUME Init PROVE Inv
  OBVIOUS
<1>1. TypeOK
  <2>1. ApiTypeOK
    BY DEF Init, ApiTypeOK, Rows, ApiSteps
  <2>2. StoreTypeOK
    BY DEF Init, StoreTypeOK, Idle
  <2>3. QueueTypeOK
    <3>1. NoJob \in [state: JobStates, by: Slots \cup {Nobody},
                     failures: 0..Attempts, stalled: 0..StallLimit]
      BY BookDeletionAssumption DEF NoJob, JobStates
    <3>2. EmptyHand \in [of: {Nobody, "run", "deletion"}, enqueued: BOOLEAN]
      <4>1. FALSE \in BOOLEAN
        OBVIOUS
      <4> QED
        BY <4>1 DEF EmptyHand
    <3> QED
      BY <3>1, <3>2 DEF Init, QueueTypeOK, Statuses, Steps
  <2>4. RunTypeOK
    BY DEF Init, RunTypeOK
  <2>5. BookTypeOK
    BY BookDeletionAssumption DEF Init, BookTypeOK
  <2> QED
    BY <2>1, <2>2, <2>3, <2>4, <2>5, TypeParts
<1>2. JobGood /\ RequestGood /\ RunGood
  BY DEF Init, JobGood, RequestGood, RunGood, Asked, NoJob, EmptyHand, Nobody
<1>3. WritersGood /\ CleanerGood
  BY DEF Init, WritersGood, WriterGood, CleanerGood, Idle
<1>4. StepsGood /\ Finished
  BY DEF Init, StepsGood, StepGood, Finished
<1> QED
  BY <1>1, <1>2, <1>3, <1>4 DEF Inv

LEMMA InvKept == Spec => []Inv
BY InvInit, InvStep, PTL DEF Spec

\* A deletion that was reported as completed has left nothing in storage, and
\* nothing arrives: whoever was writing when the book was tombstoned has been
\* waited for or fenced, but a writer that outlasted its lease or its lock; and
\* no delivery of the deletion job that BullMQ has superseded takes it back.
THEOREM Erased == Spec => ErasedForGood
<1>1. Inv => CompletedMeansErased
  BY DEF Inv, Finished, CompletedMeansErased
<1>2. Inv /\ [Next]_vars => [request = "completed" => request' = "completed"]_vars
  BY CompletedBy DEF Inv
<1>3. Spec => []CompletedMeansErased
  BY <1>1, InvKept, PTL
<1>4. Spec => CompletionIsFinal
  BY <1>2, InvKept, PTL DEF Spec, CompletionIsFinal
<1> QED
  BY <1>3, <1>4 DEF ErasedForGood

-----------------------------------------------------------------------------
(* Artifacts have owners *)

OwnersInv == Inv /\ ShownArtifactsStored /\ ArtifactsAccounted

LEMMA ShownStep ==
    ASSUME OwnersInv, [Next]_vars
    PROVE  ShownArtifactsStored'
<1>1. /\ Inv /\ TypeOK /\ ApiTypeOK /\ RunGood /\ WritersGood /\ shown' \subseteq Keys
  BY TypeStep, TypeParts DEF OwnersInv, Inv, TypeOK
<1>2. ASSUME book' = "live", NEW v \in Writers, v \in shown' PROVE v \in storage'
  <2>1. CASE Kept(v)
    BY <1>2, <2>1 DEF Kept, OwnersInv, ShownArtifactsStored
  <2>2. CASE ApiWriter(v)
    <3>1. book = "live" /\ WriterGood(v)
      BY <1>1, <1>2, <2>2
      DEF WritersGood, ApiWriter, OnlyApi, Admit, Save, SaveFails, Publish, Refused, Mark, Find,
          ApiDelete, ApiVerify, ApiDrop, DiscardFails, ApiCrash, LeaseExpires
    <3>2. v \in shown => v \in storage
      BY <3>1 DEF OwnersInv, ShownArtifactsStored
    <3> QED
      BY <1>2, <2>2, <3>1, <3>2
      DEF ApiWriter, Admit, Save, SaveFails, Publish, MayPublish, Refused, Mark, Find, ApiDelete,
          ApiVerify, ApiDrop, DiscardFails, ApiCrash, LeaseExpires, ApiAt, WriterGood
  <2> QED
    BY <1>1, <2>1, <2>2, OthersKept
<1>3. ASSUME book' = "live" PROVE book = "live"
  BY <1>3
  DEF Next, ApiWriter, OnlyApi, Admit, Save, SaveFails, Publish, Refused, Mark, Find, ApiDelete,
      ApiVerify, ApiDrop, DiscardFails, ApiCrash, LeaseExpires, Recovery, OnlyCleaner,
      RecoverFence, RecoverPick, RecoverDelete, RecoverVerify, RecoverDrop, StartRun, GenWorker,
      GenLoseLock, GenPickUp, GenCheck, GenWrite, GenComplete, ZombieWrite, OnlyRun, SoftDelete,
      Request, TidyQueue, Retry, Dispatcher, DispatchFails, ReadEvent, EnqueueDeletion,
      EnqueueRun, MarkDispatched, OnlyDispatch, BackoffElapses, OnlyJob, Slot, Process, PickUp,
      LoseLock, Claim, CheckWork, CheckWriters, Sweep, Verify, Finalize, Record, Settle,
      StepFails, ClaimOrRecordFails, vars
<1>4. ASSUME book' = "live", Generation \in shown' PROVE Generation \in storage'
  <2>1. ~\E s \in Slots : step[s] = "sweep"
    BY <1>1, <1>3, <1>4 DEF Inv, RequestGood, Asked
  <2>2. Generation \in shown => Generation \in storage
    BY <1>3, <1>4 DEF OwnersInv, ShownArtifactsStored
  <2> QED
    BY <1>1, <1>4, <2>1, <2>2, GenerationStep DEF Inv
<1> QED
  BY <1>1, <1>2, <1>4 DEF ShownArtifactsStored, Keys

LEMMA AccountedStep ==
    ASSUME OwnersInv, [Next]_vars
    PROVE  ArtifactsAccounted'
<1> SUFFICES ASSUME NEW v \in Writers, v \in storage'
             PROVE  v \in shown' \/ intent'[v] # "none" \/ v \in overran'
  BY DEF ArtifactsAccounted
<1>1. /\ Inv /\ TypeOK /\ ApiTypeOK /\ WriterGood(v)
      /\ v \in storage => v \in shown \/ intent[v] # "none" \/ v \in overran
  BY TypeParts DEF OwnersInv, Inv, WritersGood, ArtifactsAccounted
<1>2. CASE Kept(v)
  BY <1>1, <1>2 DEF Kept
<1>3. CASE ApiWriter(v)
  BY <1>1, <1>3
  DEF ApiWriter, Admit, Save, SaveFails, Publish, MayPublish, Refused, Mark, Find, ApiDelete,
      ApiVerify, ApiDrop, DiscardFails, ApiCrash, LeaseExpires, ApiAt, DropRow, ApiTypeOK,
      WriterGood
<1> QED
  BY <1>1, <1>2, <1>3, OthersKept

LEMMA OwnersInit == Init => OwnersInv
BY InvInit DEF Init, OwnersInv, ShownArtifactsStored, ArtifactsAccounted

LEMMA OwnersStep == OwnersInv /\ [Next]_vars => OwnersInv'
BY InvStep, ShownStep, AccountedStep DEF OwnersInv

\* While a book is not deleted what it shows is in storage, whatever discards,
\* recovery passes and lost acknowledgements do; and an object nobody published
\* is still on record for recovery or deletion to find.
THEOREM Owners == Spec => []ArtifactsHaveOwners
<1>1. OwnersInv => ArtifactsHaveOwners
  BY DEF OwnersInv, Inv, ArtifactsHaveOwners
<1> QED
  BY <1>1, OwnersInit, OwnersStep, PTL DEF Spec

=============================================================================
