----------------------------- MODULE BookDeletion -----------------------------
(***************************************************************************)
(* Permanent deletion of one book (BookHardDeletionService) against        *)
(* everything that writes into the book's artifact namespace: the API-side *)
(* writers that register intents with BookArtifactWriteCoordinator, and a  *)
(* generation whose worker is fenced by its run.                           *)
(*                                                                         *)
(* One artifact per writer: keys are random (photo, edited PDF) or derived *)
(* from the claim (thumbnail, generation).  Each database statement or     *)
(* transaction, each storage call and each Redis call is one step; what a  *)
(* process remembers between two of them is in api, step, cleaner, hand    *)
(* and gen.                                                                *)
(***************************************************************************)
EXTENDS Integers, FiniteSets

CONSTANTS
    Publishers,    \* uploads and text edits: published by a transaction
    Caches,        \* cover thumbnails: the artifact is its own publication
    Slots,         \* workers of the maintenance queue
    Generation,    \* the artifact of the generation
    Attempts,      \* HARD_DELETE_JOB_ATTEMPTS
    StallLimit,    \* BullMQ's maxStalledCount
    Budgets        \* bounds: how often each thing of Bounds may happen, by scenario

Bounds == {"uploads",     \* writers that publish by a transaction
           "thumbnails",  \* writers that publish by storing
           "generations",
           "stalls",      \* locks of the deletion job that are lost
           "faults",      \* storage, Redis and other calls that fail
           "records",     \* writes of the request's own status that fail
           "crashes",     \* API writers that die
           "overruns",    \* live writers that outlast their lease or lock
           "retries"}     \* "Retry deletion"

ASSUME BookDeletionAssumption ==
    /\ Publishers \cap Caches = {}
    /\ Generation \notin Publishers \cup Caches
    /\ "nobody" \notin Slots
    /\ Attempts \in Nat \ {0}
    /\ StallLimit \in Nat
    /\ Budgets \subseteq [Bounds -> Nat]

VARIABLES
    book,       \* the Book row: live, deletedAt set, or deleted
    shown,      \* artifacts a committed write made part of the book
    intent,     \* BookArtifactWriteIntent.state by writer
    expired,    \* writers whose leaseExpiresAt has passed
    api,        \* the step an API writer is at
    storage,    \* objects in the two storage drivers
    cleaner,    \* the cleanRow of the recovery pass in progress
    request,    \* BookDeletionRequest.status
    events,     \* pending outbox events of the deletion
    hand,       \* the outbox event the dispatcher has read
    job,        \* the BullMQ job book-deletion-<id>
    step,       \* the step a maintenance worker is at
    tidying,    \* request() has still to remove waiting jobs of the book
    run,        \* the generation: its row, event, job, delivery and zombie
    overran,    \* writers that outlasted lease or lock while alive
    left        \* what is left of the budget

vars == <<book, shown, intent, expired, api, storage, cleaner, request, events,
          hand, job, step, tidying, run, overran, left>>

apiVars == <<shown, intent, expired, api, overran>>
jobVars == <<request, events, hand, job, step, tidying>>

-----------------------------------------------------------------------------
Writers == Publishers \cup Caches
Keys == Writers \cup {Generation}
Nobody == "nobody"

Rows == {"none", "active", "cleanup_pending"}
ApiSteps == {"idle", "save", "publish", "mark", "find", "delete", "verify",
             "drop", "done", "dead"}
Statuses == {"none", "requested", "processing", "retry_pending", "completed"}
JobStates == {"none", "waiting", "active", "delayed", "failed", "completed"}
Steps == {"idle", "claim", "work", "writers", "sweep", "verify", "finalize",
          "record", "throw", "return"}

TypeOK ==
    /\ book \in {"live", "tombstoned", "gone"}
    /\ shown \subseteq Keys
    /\ intent \in [Writers -> Rows]
    /\ expired \subseteq Writers
    /\ api \in [Writers -> ApiSteps]
    /\ storage \subseteq Keys
    /\ cleaner \in [row: Writers \cup {Nobody},
                    at: {"idle", "delete", "verify", "drop"}]
    /\ request \in Statuses
    /\ events \in Nat
    /\ hand \in [of: {Nobody, "run", "deletion"}, enqueued: BOOLEAN]
    /\ job \in [state: JobStates, by: Slots \cup {Nobody},
                failures: 0..Attempts, stalled: 0..StallLimit]
    /\ step \in [Slots -> Steps]
    /\ tidying \in BOOLEAN
    /\ run \in [row: {"none", "active", "ended"},
                event: {"none", "pending", "cancelled"},
                job: {"none", "waiting", "active"},
                at: {"idle", "claim", "owner", "write"}, zombie: BOOLEAN]
    /\ overran \subseteq Keys
    /\ left \in [Bounds -> Nat]

NoJob == [state |-> "none", by |-> Nobody, failures |-> 0, stalled |-> 0]
Idle == [row |-> Nobody, at |-> "idle"]
EmptyHand == [of |-> Nobody, enqueued |-> FALSE]

Init ==
    /\ book = "live"
    /\ shown = {}
    /\ intent = [w \in Writers |-> "none"]
    /\ expired = {}
    /\ api = [w \in Writers |-> "idle"]
    /\ storage = {}
    /\ cleaner = Idle
    /\ request = "none"
    /\ events = 0
    /\ hand = EmptyHand
    /\ job = NoJob
    /\ step = [s \in Slots |-> "idle"]
    /\ tidying = FALSE
    /\ run = [row |-> "none", event |-> "none", job |-> "none", at |-> "idle",
              zombie |-> FALSE]
    /\ overran = {}
    /\ left \in Budgets

Use(bound) ==
    /\ left[bound] > 0
    /\ left' = [left EXCEPT ![bound] = @ - 1]

-----------------------------------------------------------------------------
(* API-side writers: admit, save, publish or discard *)

ApiAt(w, s) == api[w] = s
ApiGoto(w, s) == api' = [api EXCEPT ![w] = s]
OnlyApi == UNCHANGED <<book, cleaner, run, jobVars>>

\* Mutant: the admission looks at the book without waiting for the tombstone.
Admit_AnyBook(w) ==
    /\ ApiAt(w, "idle")
    /\ book # "gone"
    /\ Use(IF w \in Publishers THEN "uploads" ELSE "thumbnails")
    /\ intent' = [intent EXCEPT ![w] = "active"]
    /\ ApiGoto(w, "save")
    /\ OnlyApi
    /\ UNCHANGED <<shown, expired, storage, overran>>

Admit(w) ==
    /\ ApiAt(w, "idle")
    /\ book = "live"
    /\ Use(IF w \in Publishers THEN "uploads" ELSE "thumbnails")
    /\ intent' = [intent EXCEPT ![w] = "active"]
    /\ ApiGoto(w, "save")
    /\ OnlyApi
    /\ UNCHANGED <<shown, expired, storage, overran>>

Save(w) ==
    /\ ApiAt(w, "save")
    /\ storage' = storage \cup {w}
    /\ ApiGoto(w, "publish")
    /\ OnlyApi
    /\ UNCHANGED <<shown, intent, expired, overran, left>>

\* A failed save may all the same have stored the object.
SaveFails(w) ==
    /\ ApiAt(w, "save")
    /\ Use("faults")
    /\ storage' \in {storage, storage \cup {w}}
    /\ ApiGoto(w, "mark")
    /\ OnlyApi
    /\ UNCHANGED <<shown, intent, expired, overran>>

\* releaseInTransaction within the transaction that publishes: of an upload or
\* an edit only while the book is live and not being generated.
MayPublish(w) ==
    /\ intent[w] = "active"
    /\ w \in Publishers => book = "live" /\ run.row # "active"

\* The transaction commits; its acknowledgement may be lost.
Publish(w) ==
    /\ ApiAt(w, "publish")
    /\ MayPublish(w)
    /\ intent' = [intent EXCEPT ![w] = "none"]
    /\ shown' = shown \cup {w}
    /\ \/ ApiGoto(w, "done") /\ UNCHANGED left
       \/ ApiGoto(w, "mark") /\ Use("faults")
    /\ OnlyApi
    /\ UNCHANGED <<expired, storage, overran>>

\* The transaction is refused: fenced, or the book has changed.
Refused(w) ==
    /\ ApiAt(w, "publish")
    /\ w \in Publishers \/ ~MayPublish(w)
    /\ ApiGoto(w, "mark")
    /\ OnlyApi
    /\ UNCHANGED <<shown, intent, expired, storage, overran, left>>

\* Mutant: discard gives the record up before the artifact is deleted.
Mark_Drops(w) ==
    /\ ApiAt(w, "mark")
    /\ intent' = [intent EXCEPT ![w] = "none"]
    /\ ApiGoto(w, "find")
    /\ OnlyApi
    /\ UNCHANGED <<shown, expired, storage, overran, left>>

Mark(w) ==
    /\ ApiAt(w, "mark")
    /\ intent' = [intent EXCEPT ![w] = IF @ = "active" THEN "cleanup_pending" ELSE @]
    /\ ApiGoto(w, "find")
    /\ OnlyApi
    /\ UNCHANGED <<shown, expired, storage, overran, left>>

\* Mutant: discard cleans without looking whether the record is still there.
Find_Anyway(w) ==
    /\ ApiAt(w, "find")
    /\ ApiGoto(w, "delete")
    /\ OnlyApi
    /\ UNCHANGED <<shown, intent, expired, storage, overran, left>>

\* No record: the intent was consumed by a publication, or cleaned.
Find(w) ==
    /\ ApiAt(w, "find")
    /\ ApiGoto(w, IF intent[w] = "none" THEN "done" ELSE "delete")
    /\ OnlyApi
    /\ UNCHANGED <<shown, intent, expired, storage, overran, left>>

\* cleanRow: delete, read back, drop the record.
DropRow(w) == [intent EXCEPT ![w] = IF @ = "cleanup_pending" THEN "none" ELSE @]

ApiDelete(w) ==
    /\ ApiAt(w, "delete")
    /\ storage' = storage \ {w}
    /\ ApiGoto(w, "verify")
    /\ OnlyApi
    /\ UNCHANGED <<shown, intent, expired, overran, left>>

ApiVerify(w) ==
    /\ ApiAt(w, "verify")
    /\ ApiGoto(w, IF w \in storage THEN "done" ELSE "drop")
    /\ OnlyApi
    /\ UNCHANGED <<shown, intent, expired, storage, overran, left>>

ApiDrop(w) ==
    /\ ApiAt(w, "drop")
    /\ intent' = DropRow(w)
    /\ ApiGoto(w, "done")
    /\ OnlyApi
    /\ UNCHANGED <<shown, expired, storage, overran, left>>

\* discard never throws: a failure leaves the record.
DiscardFails(w) ==
    /\ api[w] \in {"mark", "find", "delete", "verify", "drop"}
    /\ Use("faults")
    /\ ApiGoto(w, "done")
    /\ OnlyApi
    /\ UNCHANGED <<shown, intent, expired, storage, overran>>

ApiCrash(w) ==
    /\ api[w] \notin {"idle", "done", "dead"}
    /\ Use("crashes")
    /\ ApiGoto(w, "dead")
    /\ OnlyApi
    /\ UNCHANGED <<shown, intent, expired, storage, overran>>

LeaseExpires(w) ==
    /\ intent[w] = "active"
    /\ w \notin expired
    /\ expired' = expired \cup {w}
    /\ IF api[w] \in {"dead", "done"}
       THEN UNCHANGED <<overran, left>>
       ELSE Use("overruns") /\ overran' = overran \cup {w}
    /\ OnlyApi
    /\ UNCHANGED <<shown, intent, api, storage>>

ApiWriter(w) ==
    \/ Admit(w) \/ Save(w) \/ SaveFails(w) \/ Publish(w) \/ Refused(w)
    \/ Mark(w) \/ Find(w) \/ ApiDelete(w) \/ ApiVerify(w) \/ ApiDrop(w)
    \/ DiscardFails(w) \/ ApiCrash(w) \/ LeaseExpires(w)

-----------------------------------------------------------------------------
(* recoverStale, called by the leased recovery pass *)

\* Every expired active intent is fenced.
Fenced ==
    [w \in Writers |->
        IF intent[w] = "active" /\ w \in expired THEN "cleanup_pending" ELSE intent[w]]

OnlyCleaner ==
    UNCHANGED <<book, shown, expired, api, overran, run, jobVars, left>>

RecoverFence ==
    /\ Fenced # intent
    /\ intent' = Fenced
    /\ UNCHANGED <<storage, cleaner>>
    /\ OnlyCleaner

RecoverPick ==
    /\ cleaner = Idle
    /\ \E w \in Writers :
          /\ intent[w] = "cleanup_pending"
          /\ cleaner' = [row |-> w, at |-> "delete"]
    /\ UNCHANGED <<storage, intent>>
    /\ OnlyCleaner

RecoverDelete ==
    /\ cleaner.at = "delete"
    /\ storage' = storage \ {cleaner.row}
    /\ cleaner' = [cleaner EXCEPT !.at = "verify"]
    /\ UNCHANGED intent
    /\ OnlyCleaner

RecoverVerify ==
    /\ cleaner.at = "verify"
    /\ cleaner' = IF cleaner.row \in storage
                  THEN Idle ELSE [cleaner EXCEPT !.at = "drop"]
    /\ UNCHANGED <<storage, intent>>
    /\ OnlyCleaner

RecoverDrop ==
    /\ cleaner.at = "drop"
    /\ intent' = DropRow(cleaner.row)
    /\ cleaner' = Idle
    /\ UNCHANGED storage
    /\ OnlyCleaner

Recovery ==
    RecoverFence \/ RecoverPick \/ RecoverDelete \/ RecoverVerify \/ RecoverDrop

-----------------------------------------------------------------------------
(* The generation of the book, as far as deletion sees it *)

OnlyRun == UNCHANGED <<book, apiVars, cleaner, request, events, job, step, tidying>>

StartRun ==
    /\ book = "live"
    /\ run.row = "none"
    /\ Use("generations")
    /\ run' = [run EXCEPT !.row = "active", !.event = "pending"]
    /\ OnlyRun
    /\ UNCHANGED <<hand, storage>>

GenPickUp ==
    /\ run.job = "waiting"
    /\ run.at = "idle"
    /\ run' = [run EXCEPT !.job = "active", !.at = "claim"]
    /\ OnlyRun
    /\ UNCHANGED <<hand, storage, left>>

\* The claim and every ownership check: a run that has ended stops the delivery
\* and its job completes.
GenCheck ==
    /\ run.at \in {"claim", "owner"}
    /\ run' = CASE run.row # "active" -> [run EXCEPT !.job = "none", !.at = "idle"]
                [] run.row = "active" /\ run.at = "claim" -> [run EXCEPT !.at = "owner"]
                [] OTHER -> [run EXCEPT !.at = "write"]
    /\ OnlyRun
    /\ UNCHANGED <<hand, storage, left>>

GenWrite ==
    /\ run.at = "write"
    /\ storage' = storage \cup {Generation}
    /\ run' = [run EXCEPT !.at = "owner"]
    /\ OnlyRun
    /\ UNCHANGED <<hand, left>>

GenComplete ==
    /\ run.at = "owner"
    /\ run.row = "active"
    /\ Generation \in storage
    /\ run' = [run EXCEPT !.row = "ended", !.job = "none", !.at = "idle"]
    /\ shown' = shown \cup {Generation}
    /\ UNCHANGED <<book, intent, expired, api, overran, cleaner, jobVars, storage, left>>

\* The worker loses its lock past an ownership check and writes all the same.
GenLoseLock ==
    /\ run.at = "write"
    /\ Use("overruns")
    /\ overran' = overran \cup {Generation}
    /\ run' = [run EXCEPT !.job = "waiting", !.at = "idle", !.zombie = TRUE]
    /\ UNCHANGED <<book, shown, intent, expired, api, cleaner, jobVars, storage>>

ZombieWrite ==
    /\ run.zombie
    /\ storage' = storage \cup {Generation}
    /\ run' = [run EXCEPT !.zombie = FALSE]
    /\ OnlyRun
    /\ UNCHANGED <<hand, left>>

GenWorker ==
    GenPickUp \/ GenCheck \/ GenWrite \/ GenComplete \/ ZombieWrite

-----------------------------------------------------------------------------
(* The requests of the owner *)

SoftDelete ==
    /\ book = "live"
    /\ run.row # "active"
    /\ book' = "tombstoned"
    /\ UNCHANGED <<apiVars, storage, cleaner, run, jobVars, left>>

\* Locks and tombstones the book, ends its run, suppresses its outbox event,
\* and creates request and event, in one transaction.
Request ==
    /\ book # "gone"
    /\ request = "none"
    /\ book' = "tombstoned"
    /\ run' = [run EXCEPT !.row = IF @ = "active" THEN "ended" ELSE @,
                          !.event = IF @ = "pending" THEN "cancelled" ELSE @]
    /\ request' = "requested"
    /\ events' = events + 1
    /\ tidying' = TRUE
    /\ UNCHANGED <<apiVars, storage, cleaner, hand, job, step, left>>

\* removeBookWorkIfSafe
TidyQueue ==
    /\ tidying
    /\ tidying' = FALSE
    /\ run' = [run EXCEPT !.job = IF @ = "waiting" THEN "none" ELSE @]
    /\ UNCHANGED <<book, apiVars, storage, cleaner, request, events, hand, job,
                   step, left>>

\* A repeated request reschedules only what is retry_pending.
Retry ==
    /\ request = "retry_pending"
    /\ Use("retries")
    /\ request' = "requested"
    /\ events' = events + 1
    /\ UNCHANGED <<book, apiVars, storage, cleaner, run, hand, job, step, tidying>>

-----------------------------------------------------------------------------
(* The outbox dispatcher *)

OnlyDispatch == UNCHANGED <<book, apiVars, storage, cleaner, request, step, tidying>>

ReadEvent ==
    /\ hand = EmptyHand
    /\ \/ events > 0 /\ hand' = [of |-> "deletion", enqueued |-> FALSE]
       \/ run.event = "pending" /\ hand' = [of |-> "run", enqueued |-> FALSE]
    /\ OnlyDispatch
    /\ UNCHANGED <<events, job, run, left>>

\* enqueueBookDeletion removes a failed job first; add() does nothing while a
\* job of that id exists.
EnqueueDeletion ==
    /\ hand = [of |-> "deletion", enqueued |-> FALSE]
    /\ job' = IF job.state \in {"none", "failed"}
              THEN [NoJob EXCEPT !.state = "waiting"] ELSE job
    /\ hand' = [hand EXCEPT !.enqueued = TRUE]
    /\ OnlyDispatch
    /\ UNCHANGED <<events, run, left>>

EnqueueRun ==
    /\ hand = [of |-> "run", enqueued |-> FALSE]
    /\ run' = [run EXCEPT !.job = IF @ = "none" THEN "waiting" ELSE @]
    /\ hand' = [hand EXCEPT !.enqueued = TRUE]
    /\ OnlyDispatch
    /\ UNCHANGED <<events, job, left>>

\* Mutant: an event is marked as dispatched although it is no longer pending.
MarkDispatched_AnyStatus ==
    /\ hand.enqueued
    /\ IF hand.of = "run"
       THEN run' = [run EXCEPT !.event = "none"] /\ UNCHANGED events
       ELSE events' = events - 1 /\ UNCHANGED run
    /\ hand' = EmptyHand
    /\ OnlyDispatch
    /\ UNCHANGED <<job, left>>

MarkDispatched ==
    /\ hand.enqueued
    /\ IF hand.of = "run"
       THEN run' = [run EXCEPT !.event = "none"] /\ UNCHANGED events
       ELSE events' = (IF events > 0 THEN events - 1 ELSE 0) /\ UNCHANGED run
    /\ hand' = EmptyHand
    /\ OnlyDispatch
    /\ UNCHANGED <<job, left>>

\* Redis or the database fails, or the process dies: the event stays pending.
DispatchFails ==
    /\ hand # EmptyHand
    /\ Use("faults")
    /\ hand' = EmptyHand
    /\ OnlyDispatch
    /\ UNCHANGED <<events, job, run>>

Dispatcher == ReadEvent \/ EnqueueDeletion \/ EnqueueRun \/ MarkDispatched

-----------------------------------------------------------------------------
(* BullMQ and the deletion job *)

At(s, here) == step[s] = here
Goto(s, there) == step' = [step EXCEPT ![s] = there]
OnlyJob == UNCHANGED <<book, apiVars, storage, cleaner, run, request, events,
                       hand, tidying>>

PickUp(s) ==
    /\ job.state = "waiting"
    /\ At(s, "idle")
    /\ job' = [job EXCEPT !.state = "active", !.by = s]
    /\ Goto(s, "claim")
    /\ OnlyJob
    /\ UNCHANGED left

BackoffElapses ==
    /\ job.state = "delayed"
    /\ job' = [job EXCEPT !.state = "waiting"]
    /\ OnlyJob
    /\ UNCHANGED <<step, left>>

\* The worker dies or falls silent; its job is redelivered, or failed once it
\* has stalled too often.
LoseLock(s) ==
    /\ job.state = "active"
    /\ job.by = s
    /\ Use("stalls")
    /\ job' = IF job.stalled < StallLimit
              THEN [job EXCEPT !.state = "waiting", !.by = Nobody, !.stalled = @ + 1]
              ELSE [job EXCEPT !.state = "failed", !.by = Nobody]
    /\ step' \in {step, [step EXCEPT ![s] = "idle"]}
    /\ OnlyJob

\* The processor returned or threw; a job whose lock is lost is not settled.
Settle(s) ==
    /\ step[s] \in {"throw", "return"}
    /\ job' = IF job.by # s THEN job
              ELSE IF At(s, "return") THEN [job EXCEPT !.state = "completed", !.by = Nobody]
              ELSE [job EXCEPT !.failures = @ + 1, !.by = Nobody,
                       !.state = IF job.failures + 1 < Attempts THEN "delayed" ELSE "failed"]
    /\ Goto(s, "idle")
    /\ OnlyJob
    /\ UNCHANGED left

-----------------------------------------------------------------------------
(* BookHardDeletionService.process *)

OnlyProcess == UNCHANGED <<hand, job, tidying, left>>

Unfinished == {"requested", "retry_pending", "processing"}

\* Mutant: a request that is being processed is not claimed again.
Claim_OnlyIdle(s) ==
    /\ At(s, "claim")
    /\ IF request \in Unfinished \ {"processing"}
       THEN request' = "processing" /\ Goto(s, "work")
       ELSE Goto(s, "return") /\ UNCHANGED request
    /\ OnlyProcess
    /\ UNCHANGED <<book, apiVars, storage, cleaner, run, events>>

Claim(s) ==
    /\ At(s, "claim")
    /\ IF request \in Unfinished
       THEN request' = "processing" /\ Goto(s, "work")
       ELSE Goto(s, "return") /\ UNCHANGED request
    /\ OnlyProcess
    /\ UNCHANGED <<book, apiVars, storage, cleaner, run, events>>

\* hasActiveBookWork
CheckWork(s) ==
    /\ At(s, "work")
    /\ Goto(s, IF run.job = "none" THEN "writers" ELSE "record")
    /\ OnlyProcess
    /\ UNCHANGED <<book, apiVars, storage, cleaner, run, request, events>>

\* Mutant: expired writers are fenced, running ones are not waited for.
CheckWriters_FencesOnly(s) ==
    /\ At(s, "writers")
    /\ intent' = Fenced
    /\ Goto(s, "sweep")
    /\ OnlyProcess
    /\ UNCHANGED <<book, shown, expired, api, overran, storage, cleaner, run,
                   request, events>>

\* countBlockingWriters
CheckWriters(s) ==
    /\ At(s, "writers")
    /\ intent' = Fenced
    /\ Goto(s, IF \E w \in Writers : Fenced[w] = "active" THEN "record" ELSE "sweep")
    /\ OnlyProcess
    /\ UNCHANGED <<book, shown, expired, api, overran, storage, cleaner, run,
                   request, events>>

\* deleteBookArtifacts deletes what it lists, then lists again.
Sweep(s) ==
    /\ At(s, "sweep")
    /\ storage' = {}
    /\ Goto(s, "verify")
    /\ OnlyProcess
    /\ UNCHANGED <<book, apiVars, cleaner, run, request, events>>

Verify(s) ==
    /\ At(s, "verify")
    /\ Goto(s, IF storage = {} THEN "finalize" ELSE "record")
    /\ OnlyProcess
    /\ UNCHANGED <<book, apiVars, storage, cleaner, run, request, events>>

MayFinalize ==
    /\ run.row # "active"
    /\ \A w \in Writers : intent[w] # "active"
    /\ book # "live"

\* One transaction: settleForDeletion, the outbox events, the book, the request.
Finalize(s) ==
    /\ At(s, "finalize")
    /\ IF MayFinalize
       THEN /\ intent' = [w \in Writers |-> "none"]
            /\ events' = 0
            /\ run' = [run EXCEPT !.event = "none"]
            /\ book' = "gone"
            /\ request' = "completed"
            /\ Goto(s, "return")
       ELSE Goto(s, "record") /\ UNCHANGED <<intent, events, run, book, request>>
    /\ OnlyProcess
    /\ UNCHANGED <<shown, expired, api, overran, storage, cleaner>>

\* Any of those calls fails; a failed sweep has deleted some of the objects.
StepFails(s) ==
    /\ step[s] \in {"work", "writers", "sweep", "verify", "finalize"}
    /\ Use("faults")
    /\ IF At(s, "sweep") THEN storage' \in SUBSET storage ELSE UNCHANGED storage
    /\ Goto(s, "record")
    /\ UNCHANGED <<book, apiVars, cleaner, run, request, events, hand, job, tidying>>

\* Mutant: the retry is recorded whatever another delivery has reached.
Record_AnyStatus(s) ==
    /\ At(s, "record")
    /\ request' = "retry_pending"
    /\ Goto(s, "throw")
    /\ OnlyProcess
    /\ UNCHANGED <<book, apiVars, storage, cleaner, run, events>>

\* recordRetry
Record(s) ==
    /\ At(s, "record")
    /\ request' = IF request = "processing" THEN "retry_pending" ELSE request
    /\ Goto(s, "throw")
    /\ OnlyProcess
    /\ UNCHANGED <<book, apiVars, storage, cleaner, run, events>>

ClaimOrRecordFails(s) ==
    /\ step[s] \in {"claim", "record"}
    /\ Use("records")
    /\ Goto(s, "throw")
    /\ UNCHANGED <<book, apiVars, storage, cleaner, run, request, events, hand,
                   job, tidying>>

Process(s) ==
    \/ Claim(s) \/ CheckWork(s) \/ CheckWriters(s) \/ Sweep(s) \/ Verify(s)
    \/ Finalize(s) \/ Record(s) \/ Settle(s)

Slot(s) ==
    PickUp(s) \/ LoseLock(s) \/ Process(s) \/ StepFails(s) \/ ClaimOrRecordFails(s)

-----------------------------------------------------------------------------
Next ==
    \/ \E w \in Writers : ApiWriter(w)
    \/ Recovery
    \/ StartRun \/ GenWorker \/ GenLoseLock
    \/ SoftDelete \/ Request \/ TidyQueue \/ Retry
    \/ Dispatcher \/ DispatchFails
    \/ BackoffElapses
    \/ \E s \in Slots : Slot(s)

Spec == Init /\ [][Next]_vars

\* The dispatcher's timer, the maintenance workers and their backoff, intent
\* recovery and generation workers go on.  Nothing is assumed of API writers,
\* of clocks or of the owner.
Fairness ==
    /\ WF_vars(Recovery)
    /\ WF_vars(GenWorker)
    /\ WF_vars(Dispatcher)
    /\ WF_vars(BackoffElapses)
    /\ \A s \in Slots : WF_vars(PickUp(s)) /\ WF_vars(Process(s))

FairSpec == Spec /\ Fairness

-----------------------------------------------------------------------------
(* Properties *)

\* A deletion request says completed only when neither storage driver holds an
\* artifact of the book and none can still arrive: whatever was being written
\* when the book was tombstoned has been waited for or fenced before the sweep.
\* A writer that outlived its lease or lock is the documented exception.
CompletedMeansErased ==
    request = "completed" => storage \subseteq overran

\* What a committed publication points to is in storage for as long as the book
\* is not deleted: no discard, no recovery of intents and no lost
\* acknowledgement removes it.
ShownArtifactsStored ==
    book = "live" => shown \subseteq storage

\* An object that no publication took over is never forgotten: its intent row
\* is there for recovery or deletion to find, whatever crashed or failed.
ArtifactsAccounted ==
    \A w \in Writers \cap storage :
        \/ w \in shown
        \/ intent[w] # "none"
        \/ w \in overran

\* Completion is irreversible: a delivery of the deletion job that BullMQ has
\* superseded does not turn it back.
CompletionIsFinal ==
    [][request = "completed" => request' = "completed"]_vars

\* A deletion that was asked for ends, or tells the owner that it may be tried
\* again (checked with redeliveries BullMQ grants, and without owner's retries).
DeletionSettles ==
    []<>(request \notin {"requested", "processing"})

\* What is shown is stored, and what is stored is shown or on record.
ArtifactsHaveOwners ==
    TypeOK /\ ShownArtifactsStored /\ ArtifactsAccounted

\* A book that is reported erased is erased, and stays so.
ErasedForGood ==
    /\ []CompletedMeansErased
    /\ CompletionIsFinal

\* Somebody will still run the deletion job.
Driven ==
    \/ events > 0
    \/ hand = [of |-> "deletion", enqueued |-> FALSE]
    \/ job.state \in {"waiting", "active", "delayed"}

\* apps/web/src/lib/api/books.ts: calling requestHardDelete again "re-queues a
\* stalled request".  It does not while the job that failed is still active.
RetriedDeletionQueued ==
    request = "requested" => Driven

=============================================================================
