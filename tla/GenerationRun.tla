---------------------------- MODULE GenerationRun ----------------------------
(***************************************************************************)
(* The life of a whole-book generation run, from the API call that         *)
(* schedules it to the transaction that ends it.                           *)
(*                                                                         *)
(* PostgreSQL holds the GenerationRun and Book rows, the outbox event and  *)
(* the credit ledger; Redis holds the BullMQ job.  Dispatchers move events *)
(* to jobs, workers process deliveries of a job, recovery sweeps reconcile *)
(* abandoned runs, and the owner may cancel, remove or hard-delete the     *)
(* book at any moment.  Every action is one database transaction or one    *)
(* Redis command; between two of them any other actor may run, any worker  *)
(* or dispatcher may die, and BullMQ may take a worker's lock away.        *)
(***************************************************************************)
EXTENDS Integers, FiniteSets, TLC

CONSTANTS
    Runs,             \* GenerationRun ids
    Books,            \* Book ids, all owned by one user
    Workers,          \* slots of the generation worker processes
    Dispatchers,      \* processes running OutboxDispatcherService
    Sweepers,         \* recovery passes that may overlap
    NoRun,            \* the null Run id
    DemoMode,         \* PRODUCT_MODE = 'demo': a run costs a credit
    InitialCredits,   \* the owner's balance
    MaxAttempts,      \* DEFAULT_JOB_OPTIONS.attempts
    MaxStalledCount,  \* BullMQ's maxStalledCount
    LockLosses,       \* bound: how often a worker may lose a job lock
    JobLosses,        \* bound: how often Redis may lose a job
    DispatchFaults,   \* bound: how often a dispatch may fail or be cut short
    Deletions         \* bound: how often books may be removed or hard-deleted

ASSUME GenerationRunAssumption ==
    /\ IsFiniteSet(Runs)
    /\ NoRun \notin Runs
    /\ DemoMode \in BOOLEAN
    /\ InitialCredits \in Nat
    /\ MaxAttempts \in Nat \ {0}
    /\ MaxStalledCount \in Nat
    /\ LockLosses \in Nat
    /\ JobLosses \in Nat
    /\ DispatchFaults \in Nat
    /\ Deletions \in Nat

VARIABLES
    runStatus,        \* GenerationRun.status ("none": no row yet)
    runBook,          \* GenerationRun.bookId
    fence,            \* GenerationRun.fencingVersion
    deliveryToken,    \* GenerationRun.deliveryToken
    leaseLive,        \* leaseExpiresAt is still ahead
    queueExpired,     \* queueExpiresAt has passed
    bookStatus,       \* Book.status, every in-progress step as "generating"
    activeRun,        \* Book.activeRunId
    published,        \* (publishedRunId, publishedRunFencingVersion)
    deletion,         \* Book.deletedAt, and whether hard deletion is requested
    outbox,           \* OutboxEvent.status of the run's run_queued event
    ledger,           \* CreditTransaction rows, by idempotency key
    credits,          \* User.credits
    job,              \* the BullMQ job of a run (jobId = run id)
    pdfs,             \* stored preview PDFs, by claim namespace
    worker,           \* what each worker slot holds between two calls
    dispatcher,       \* the batch of each dispatcher sweep
    sweeper,          \* the candidate each recovery pass holds
    removals,         \* runs whose post-commit removeIfSafe is still due
    faults            \* what has happened so far of what the bounds limit

runVars == <<runStatus, runBook, fence, deliveryToken, leaseLive,
             queueExpired>>
bookVars == <<bookStatus, activeRun, published, deletion>>
moneyVars == <<ledger, credits>>
dbVars == <<runVars, bookVars, moneyVars, outbox>>
vars == <<dbVars, job, pdfs, worker, dispatcher, sweeper, removals, faults>>

-----------------------------------------------------------------------------
(* Types *)

Active == {"queued", "running"}
Ended == {"completed", "failed", "cancelled"}
RunStatuses == {"none"} \cup Active \cup Ended
Startable == {"created", "failed", "complete", "cancelled"}
BookStatuses == Startable \cup {"generating"}

\* An edition of a book is the claim that produced it: a run and the fence it
\* was claimed under.  NoEdition is the null pair.
Edition == [run: Runs, fence: Nat]
NoEdition == [run |-> NoRun, fence |-> 0]

\* Idempotency keys of the ledger.
Key(kind, r) == [kind |-> kind, run |-> r]
LedgerKeys == [kind: {"charge", "refund", "cancel_refund"}, run: Runs]
Charged(r) == Key("charge", r) \in ledger

JobStates == {"missing", "waiting", "active", "completed", "failed"}
Jobs == [state: JobStates, attemptsMade: Nat, stalls: Nat, token: Nat]
NoJob(token) ==
    [state |-> "missing", attemptsMade |-> 0, stalls |-> 0, token |-> token]

AbortReasons == {"user_cancellation", "confirmed_supersession",
                 "deadline", "ownership_uncertain"}
WorkerSteps == {"idle", "claim", "normalize", "generate", "render", "stored",
                "finish", "settle", "deadline", "resolve", "throw",
                "exhausted", "backstop"}
WorkerStates ==
    [step: WorkerSteps, run: Runs \cup {NoRun}, token: Nat, fence: Nat,
     abort: AbortReasons \cup {"none"}, ok: BOOLEAN]
IdleWorker == [step |-> "idle", run |-> NoRun, token |-> 0, fence |-> 0,
               abort |-> "none", ok |-> FALSE]

SweeperStates ==
    [step: {"idle", "candidate", "fail"}, run: Runs \cup {NoRun},
     status: Active, fence: Nat, queueWaitExpired: BOOLEAN]
IdleSweeper == [step |-> "idle", run |-> NoRun, status |-> "queued",
                fence |-> 0, queueWaitExpired |-> FALSE]

DispatcherStates == [batch: SUBSET Runs, sent: Runs \cup {NoRun}]
IdleDispatcher == [batch |-> {}, sent |-> NoRun]

TypeOK ==
    /\ runStatus \in [Runs -> RunStatuses]
    /\ runBook \in [Runs -> Books]
    /\ fence \in [Runs -> Nat]
    /\ deliveryToken \in [Runs -> Nat]
    /\ leaseLive \in [Runs -> BOOLEAN]
    /\ queueExpired \in [Runs -> BOOLEAN]
    /\ bookStatus \in [Books -> BookStatuses]
    /\ activeRun \in [Books -> Runs \cup {NoRun}]
    /\ published \in [Books -> Edition \cup {NoEdition}]
    /\ deletion \in [Books -> {"none", "removed", "requested"}]
    /\ outbox \in [Runs -> {"none", "pending", "dispatched", "cancelled"}]
    /\ ledger \subseteq LedgerKeys
    /\ credits \in Nat
    /\ job \in [Runs -> Jobs]
    /\ pdfs \subseteq [at: Edition, by: Edition]
    /\ worker \in [Workers -> WorkerStates]
    /\ \A w \in Workers : worker[w].step = "idle" \/ worker[w].run \in Runs
    /\ dispatcher \in [Dispatchers -> DispatcherStates]
    /\ sweeper \in [Sweepers -> SweeperStates]
    /\ \A s \in Sweepers : sweeper[s].step = "idle" \/ sweeper[s].run \in Runs
    /\ removals \subseteq Runs
    /\ faults \in [locks: Nat, jobs: Nat, dispatches: Nat, deletions: Nat]

Init ==
    /\ runStatus = [r \in Runs |-> "none"]
    /\ runBook \in [Runs -> Books]
    /\ fence = [r \in Runs |-> 0]
    /\ deliveryToken = [r \in Runs |-> 0]
    /\ leaseLive = [r \in Runs |-> FALSE]
    /\ queueExpired = [r \in Runs |-> FALSE]
    /\ bookStatus = [b \in Books |-> "created"]
    /\ activeRun = [b \in Books |-> NoRun]
    /\ published = [b \in Books |-> NoEdition]
    /\ deletion = [b \in Books |-> "none"]
    /\ outbox = [r \in Runs |-> "none"]
    /\ ledger = {}
    /\ credits = InitialCredits
    /\ job = [r \in Runs |-> NoJob(0)]
    /\ pdfs = {}
    /\ worker = [w \in Workers |-> IdleWorker]
    /\ dispatcher = [d \in Dispatchers |-> IdleDispatcher]
    /\ sweeper = [s \in Sweepers |-> IdleSweeper]
    /\ removals = {}
    /\ faults = [locks |-> 0, jobs |-> 0, dispatches |-> 0, deletions |-> 0]

\* One more event of a bounded kind.
Spend(kind, bound) ==
    /\ faults[kind] < bound
    /\ faults' = [faults EXCEPT ![kind] = @ + 1]

-----------------------------------------------------------------------------
(* The terminal transitions of GenerationRunCoordinator *)

\* Mutant: the terminal transition checks the status and not the fence.
TerminalOutcome_IgnoresFence(r, status, f, refundOnApply) ==
    IF runStatus[r] # status THEN "stale_fence"
    ELSE IF activeRun[runBook[r]] # r THEN "book_mirror_mismatch"
    ELSE "applied"

\* runFencedTerminalTransition: what the transaction of a caller that observed
\* (status, f) comes to.  The run row's fence is checked first, the Book mirror
\* second, the unique refund key last; all but "applied" write nothing.
TerminalOutcome(r, status, f, refundOnApply) ==
    IF runStatus[r] # status \/ fence[r] # f THEN "stale_fence"
    ELSE IF activeRun[runBook[r]] # r THEN "book_mirror_mismatch"
    ELSE IF refundOnApply /\ Charged(r) /\ Key("refund", r) \in ledger
         THEN "conflict"
    ELSE "applied"

\* refundIfCharged and its twin in cancelGeneration: only a charge row entitles
\* the run to a refund.
Reimburse(rs, kind) ==
    LET charged == {r \in rs : Charged(r)}
    IN  /\ ledger' = ledger \cup [kind: {kind}, run: charged]
        /\ credits' = credits + Cardinality(charged)

\* Mutant: the run ends, the Book keeps pointing at it.
EndRun_KeepsPointer(r, runTo, bookTo) ==
    /\ runStatus' = [runStatus EXCEPT ![r] = runTo]
    /\ bookStatus' = [bookStatus EXCEPT ![runBook[r]] = bookTo]
    /\ UNCHANGED activeRun

\* The two rows move together, and the credit with them.
EndRun(r, runTo, bookTo) ==
    /\ runStatus' = [runStatus EXCEPT ![r] = runTo]
    /\ bookStatus' = [bookStatus EXCEPT ![runBook[r]] = bookTo]
    /\ activeRun' = [activeRun EXCEPT ![runBook[r]] = NoRun]

\* Mutant: a failure returns the credit under the cancellation's key.
FailRun_CancelKey(r) ==
    /\ EndRun(r, "failed", "failed")
    /\ Reimburse({r}, "cancel_refund")
    /\ UNCHANGED <<runBook, fence, deliveryToken, leaseLive, queueExpired,
                   published, deletion, outbox>>

\* Mutant: a failure keeps the credit.
FailRun_KeepsCredit(r) ==
    /\ EndRun(r, "failed", "failed")
    /\ UNCHANGED <<runBook, fence, deliveryToken, leaseLive, queueExpired,
                   published, deletion, outbox, moneyVars>>

FailRun(r) ==
    /\ EndRun(r, "failed", "failed")
    /\ Reimburse({r}, "refund")
    /\ UNCHANGED <<runBook, fence, deliveryToken, leaseLive, queueExpired,
                   published, deletion, outbox>>

\* failAbandoned and failInvalidSnapshot, from the status and fence the caller
\* observed.
FailAbandoned(r, status, f) ==
    IF TerminalOutcome(r, status, f, TRUE) = "applied"
    THEN FailRun(r)
    ELSE UNCHANGED dbVars

\* completeRun: success publishes the claim's edition and swaps the pointers in
\* the same transaction; a failed outcome leaves the edition alone.
PublishRun(r, f) ==
    /\ EndRun(r, "completed", "complete")
    /\ published' = [published EXCEPT ![runBook[r]] = [run |-> r, fence |-> f]]
    /\ UNCHANGED <<runBook, fence, deliveryToken, leaseLive, queueExpired,
                   deletion, outbox, moneyVars>>

-----------------------------------------------------------------------------
(* The owner's API calls *)

\* createRunAndSchedule: one transaction creates the run, charges it, mirrors it
\* on the Book and leaves the outbox event.  The book must still be in the status
\* the caller read, and the partial unique index admits one queued or running
\* run per book.
HasActiveRun(b) == \E r \in Runs : runStatus[r] \in Active /\ runBook[r] = b

CreateRunAndSchedule(b, r, fromStatus) ==
    /\ runStatus[r] = "none"
    /\ runBook[r] = b
    /\ bookStatus[b] = fromStatus
    /\ deletion[b] = "none"
    /\ ~HasActiveRun(b)
    /\ DemoMode => credits >= 1
    /\ runStatus' = [runStatus EXCEPT ![r] = "queued"]
    /\ bookStatus' = [bookStatus EXCEPT ![b] = "generating"]
    /\ activeRun' = [activeRun EXCEPT ![b] = r]
    /\ outbox' = [outbox EXCEPT ![r] = "pending"]
    /\ ledger' = IF DemoMode THEN ledger \cup {Key("charge", r)} ELSE ledger
    /\ credits' = IF DemoMode THEN credits - 1 ELSE credits
    /\ UNCHANGED <<runBook, fence, deliveryToken, leaseLive, queueExpired,
                   published, deletion, job, pdfs, worker, dispatcher, sweeper,
                   removals, faults>>

StartGeneration(b, r) == CreateRunAndSchedule(b, r, "created")

\* A retry reuses the input of the latest run, or a fresh snapshot if it has none.
RetryGeneration(b, r) == CreateRunAndSchedule(b, r, "failed")

RegenerateBook(b, r) ==
    \E fromStatus \in {"failed", "complete", "cancelled"} :
        CreateRunAndSchedule(b, r, fromStatus)

\* What cancelGeneration and the hard-deletion request do to active runs: end
\* them whatever fence they are at, raise the fence, suppress a pending event.
CancelRuns(rs) ==
    /\ runStatus' = [r \in Runs |-> IF r \in rs THEN "cancelled" ELSE runStatus[r]]
    /\ fence' = [r \in Runs |-> IF r \in rs THEN fence[r] + 1 ELSE fence[r]]
    /\ outbox' = [r \in Runs |-> IF r \in rs /\ outbox[r] = "pending"
                                 THEN "cancelled" ELSE outbox[r]]
    /\ Reimburse(rs, "cancel_refund")
    /\ removals' = removals \cup rs

CancelGeneration(b) ==
    LET r == activeRun[b] IN
    /\ deletion[b] = "none"
    /\ r # NoRun
    /\ runStatus[r] \in Active
    /\ CancelRuns({r})
    /\ bookStatus' = [bookStatus EXCEPT ![b] = "cancelled"]
    /\ activeRun' = [activeRun EXCEPT ![b] = NoRun]
    /\ UNCHANGED <<runBook, deliveryToken, leaseLive, queueExpired, published,
                   deletion, job, pdfs, worker, dispatcher, sweeper, faults>>

\* BookCrudService.remove: a soft delete, refused while a run is in progress.
RemoveBook(b) ==
    /\ deletion[b] = "none"
    /\ bookStatus[b] \in Startable
    /\ Spend("deletions", Deletions)
    /\ deletion' = [deletion EXCEPT ![b] = "removed"]
    /\ UNCHANGED <<runVars, bookStatus, activeRun, published, moneyVars, outbox,
                   job, pdfs, worker, dispatcher, sweeper, removals>>

\* BookHardDeletionService.request: tombstones the book and ends its runs; the
\* book's status is left as it was.
RequestHardDeletion(b) ==
    /\ deletion[b] # "requested"
    /\ Spend("deletions", Deletions)
    /\ deletion' = [deletion EXCEPT ![b] = "requested"]
    /\ activeRun' = [activeRun EXCEPT ![b] = NoRun]
    /\ CancelRuns({r \in Runs : runBook[r] = b /\ runStatus[r] \in Active})
    /\ UNCHANGED <<runBook, deliveryToken, leaseLive, queueExpired, bookStatus,
                   published, job, pdfs, worker, dispatcher, sweeper>>

\* removeIfSafe after the commit: takes a job no worker has, leaves an active
\* one, and is best effort - the process may die before it.
RemoveIfSafe(r) ==
    /\ r \in removals
    /\ removals' = removals \ {r}
    /\ job' = [job EXCEPT ![r] = IF @.state = "waiting" THEN NoJob(@.token) ELSE @]
    /\ UNCHANGED <<dbVars, pdfs, worker, dispatcher, sweeper, faults>>

RemovalLost(r) ==
    /\ r \in removals
    /\ removals' = removals \ {r}
    /\ UNCHANGED <<dbVars, job, pdfs, worker, dispatcher, sweeper, faults>>

-----------------------------------------------------------------------------
(* OutboxDispatcherService *)

\* Mutant: the event is marked before the job is in Redis.
FindPending_MarksFirst(d) ==
    LET pending == {r \in Runs : outbox[r] = "pending"} IN
    /\ dispatcher[d] = IdleDispatcher
    /\ pending # {}
    /\ dispatcher' = [dispatcher EXCEPT ![d] = [batch |-> pending, sent |-> NoRun]]
    /\ outbox' = [r \in Runs |-> IF r \in pending THEN "dispatched" ELSE outbox[r]]
    /\ UNCHANGED <<runVars, bookVars, moneyVars, job, pdfs, worker, sweeper,
                   removals, faults>>

\* sweep: findPending reads a batch.
FindPending(d) ==
    LET pending == {r \in Runs : outbox[r] = "pending"} IN
    /\ dispatcher[d] = IdleDispatcher
    /\ pending # {}
    /\ dispatcher' = [dispatcher EXCEPT ![d] = [batch |-> pending, sent |-> NoRun]]
    /\ UNCHANGED <<dbVars, job, pdfs, worker, sweeper, removals, faults>>

\* dispatchOne, first half: add() ignores a job whose id is already there.
Enqueue(d, r) ==
    /\ r \in dispatcher[d].batch
    /\ dispatcher[d].sent = NoRun
    /\ job' = [job EXCEPT ![r] =
                 IF @.state = "missing" THEN [@ EXCEPT !.state = "waiting"] ELSE @]
    /\ dispatcher' = [dispatcher EXCEPT ![d].sent = r]
    /\ UNCHANGED <<dbVars, pdfs, worker, sweeper, removals, faults>>

\* dispatchOne, second half: markDispatched writes by event id alone.
MarkDispatched(d) ==
    LET r == dispatcher[d].sent IN
    /\ r # NoRun
    /\ outbox' = [outbox EXCEPT ![r] = "dispatched"]
    /\ dispatcher' = [dispatcher EXCEPT ![d] =
                        [batch |-> @.batch \ {r}, sent |-> NoRun]]
    /\ UNCHANGED <<runVars, bookVars, moneyVars, job, pdfs, worker, sweeper,
                   removals, faults>>

\* recordAttemptFailure: Redis refused the job, or the mark failed after the
\* job was added; the event stays pending either way.
DispatchFails(d, r) ==
    /\ r \in dispatcher[d].batch
    /\ dispatcher[d].sent \in {NoRun, r}
    /\ Spend("dispatches", DispatchFaults)
    /\ dispatcher' = [dispatcher EXCEPT ![d] =
                        [batch |-> @.batch \ {r}, sent |-> NoRun]]
    /\ UNCHANGED <<dbVars, job, pdfs, worker, sweeper, removals>>

DispatcherCrash(d) ==
    /\ dispatcher[d] # IdleDispatcher
    /\ Spend("dispatches", DispatchFaults)
    /\ dispatcher' = [dispatcher EXCEPT ![d] = IdleDispatcher]
    /\ UNCHANGED <<dbVars, job, pdfs, worker, sweeper, removals>>

-----------------------------------------------------------------------------
(* BullMQ: modelled from how the code uses it *)

\* A worker takes a waiting job under a fresh lock token.
PickUp(w, r) ==
    /\ worker[w] = IdleWorker
    /\ job[r].state = "waiting"
    /\ job' = [job EXCEPT ![r].state = "active", ![r].token = @ + 1]
    /\ worker' = [worker EXCEPT ![w] =
                    [IdleWorker EXCEPT !.step = "claim", !.run = r,
                                       !.token = job[r].token + 1]]
    /\ UNCHANGED <<dbVars, pdfs, dispatcher, sweeper, removals, faults>>

HoldsLock(w) ==
    LET j == job[worker[w].run]
    IN  worker[w].run # NoRun /\ j.state = "active" /\ j.token = worker[w].token

\* The lock expired - the worker is dead, or alive but too slow to renew it.
\* BullMQ redelivers the job, or fails it for good after maxStalledCount.
StalledJob(j) ==
    IF j.stalls < MaxStalledCount
    THEN [j EXCEPT !.state = "waiting", !.stalls = @ + 1]
    ELSE [j EXCEPT !.state = "failed"]

Stall(r) ==
    /\ job[r].state = "active"
    /\ job' = [job EXCEPT ![r] = StalledJob(@)]
    /\ UNCHANGED <<dbVars, pdfs, worker, dispatcher, sweeper, removals>>

Orphaned(r) == \A w \in Workers : ~(worker[w].run = r /\ HoldsLock(w))

StallOrphan(r) ==
    /\ Orphaned(r)
    /\ Stall(r)
    /\ UNCHANGED faults

StallLive(r) ==
    /\ ~Orphaned(r)
    /\ Spend("locks", LockLosses)
    /\ Stall(r)

\* A worker process dies: all it held in memory is gone, its lock stays.
WorkerCrash(w) ==
    /\ worker[w] # IdleWorker
    /\ IF HoldsLock(w) THEN Spend("locks", LockLosses) ELSE UNCHANGED faults
    /\ worker' = [worker EXCEPT ![w] = IdleWorker]
    /\ UNCHANGED <<dbVars, job, pdfs, dispatcher, sweeper, removals>>

\* Redis loses a job (eviction, flush, removeOnComplete, removeOnFail).
JobLost(r) ==
    /\ job[r].state # "missing"
    /\ Spend("jobs", JobLosses)
    /\ job' = [job EXCEPT ![r] = NoJob(@.token)]
    /\ UNCHANGED <<dbVars, pdfs, worker, dispatcher, sweeper, removals>>

-----------------------------------------------------------------------------
(* GenerationQueueProcessor: one delivery *)

At(w, step) == worker[w].step = step

\* Past its finally block a delivery only has its job left to settle.
Leaving(d, step) ==
    [IdleWorker EXCEPT !.step = step, !.run = d.run, !.token = d.token]
Goto(w, step) ==
    worker' = [worker EXCEPT ![w] = IF step \in {"resolve", "throw"}
                                    THEN Leaving(@, step)
                                    ELSE [@ EXCEPT !.step = step]]

\* The fence of every guarded write of the pipeline (assertOwnership, markStep,
\* checkpoint, applyFencedBookWrite).
OwnsRun(w) ==
    /\ runStatus[worker[w].run] = "running"
    /\ fence[worker[w].run] = worker[w].fence

\* Mutant: claim forgets the run's status.
Claimable_AnyStatus(r) == ~queueExpired[r]

Claimable(r) ==
    \/ runStatus[r] = "queued" /\ ~queueExpired[r]
    \/ runStatus[r] = "running"

\* Mutant: a redelivery resumes the run under the fence it finds.
Claim_KeepsFence(w) ==
    LET r == worker[w].run IN
    /\ At(w, "claim")
    /\ Claimable(r)
    /\ runStatus' = [runStatus EXCEPT ![r] = "running"]
    /\ deliveryToken' = [deliveryToken EXCEPT ![r] = worker[w].token]
    /\ leaseLive' = [leaseLive EXCEPT ![r] = TRUE]
    /\ worker' = [worker EXCEPT ![w].step = "normalize", ![w].fence = fence[r]]
    /\ UNCHANGED <<runBook, fence, queueExpired, bookVars, moneyVars, outbox,
                   job, pdfs, dispatcher, sweeper, removals, faults>>

\* GenerationRunService.claim: whoever holds the newest delivery owns the run,
\* under a fence of its own.
Claim(w) ==
    LET r == worker[w].run IN
    /\ At(w, "claim")
    /\ Claimable(r)
    /\ runStatus' = [runStatus EXCEPT ![r] = "running"]
    /\ fence' = [fence EXCEPT ![r] = @ + 1]
    /\ deliveryToken' = [deliveryToken EXCEPT ![r] = worker[w].token]
    /\ leaseLive' = [leaseLive EXCEPT ![r] = TRUE]
    /\ worker' = [worker EXCEPT ![w].step = "normalize", ![w].fence = fence[r] + 1]
    /\ UNCHANGED <<runBook, queueExpired, bookVars, moneyVars, outbox, job,
                   pdfs, dispatcher, sweeper, removals, faults>>

\* claim returned null: the delivery is a no-op and the job completes.
ClaimRefused(w) ==
    /\ At(w, "claim")
    /\ ~Claimable(worker[w].run)
    /\ Goto(w, "resolve")
    /\ UNCHANGED <<dbVars, job, pdfs, dispatcher, sweeper, removals, faults>>

\* A valid snapshot starts the timers and the pipeline.
StartPipeline(w) ==
    /\ At(w, "normalize")
    /\ Goto(w, "generate")
    /\ UNCHANGED <<dbVars, job, pdfs, dispatcher, sweeper, removals, faults>>

\* A finalization by a delivery: only a broken mirror, or an error, makes the
\* processor throw.
AfterFinalize(outcome) ==
    IF outcome \in {"applied", "stale_fence"} THEN "resolve" ELSE "throw"

FailInvalidSnapshot(w) ==
    LET d == worker[w] IN
    /\ At(w, "normalize")
    /\ FailAbandoned(d.run, "running", d.fence)
    /\ Goto(w, AfterFinalize(TerminalOutcome(d.run, "running", d.fence, TRUE)))
    /\ UNCHANGED <<job, pdfs, dispatcher, sweeper, removals, faults>>

\* The heartbeat and the deadline timer run beside the pipeline until the
\* processor's finally block.  The first abort reason sticks.
Beating(w) ==
    worker[w].step \in {"generate", "render", "stored", "finish", "settle", "deadline"}

AbortWith(w, reason) ==
    worker' = [worker EXCEPT ![w].abort = IF @ = "none" THEN reason ELSE @]

Heartbeat(w) ==
    LET r == worker[w].run IN
    /\ Beating(w)
    /\ OwnsRun(w) /\ deliveryToken[r] = worker[w].token
    /\ leaseLive' = [leaseLive EXCEPT ![r] = TRUE]
    /\ UNCHANGED <<runStatus, runBook, fence, deliveryToken, queueExpired,
                   bookVars, moneyVars, outbox, job, pdfs, worker, dispatcher,
                   sweeper, removals, faults>>

\* A rejected heartbeat is classified by classifyOwnershipLoss.
HeartbeatRejected(w) ==
    LET r == worker[w].run IN
    /\ Beating(w)
    /\ worker[w].abort = "none"
    /\ ~(OwnsRun(w) /\ deliveryToken[r] = worker[w].token)
    /\ AbortWith(w, IF runStatus[r] = "cancelled" THEN "user_cancellation"
                    ELSE IF OwnsRun(w) THEN "ownership_uncertain"
                    ELSE "confirmed_supersession")
    /\ UNCHANGED <<dbVars, job, pdfs, dispatcher, sweeper, removals, faults>>

\* The heartbeat query itself failed.
HeartbeatError(w) ==
    /\ Beating(w)
    /\ worker[w].abort = "none"
    /\ AbortWith(w, "ownership_uncertain")
    /\ UNCHANGED <<dbVars, job, pdfs, dispatcher, sweeper, removals, faults>>

DeadlineFires(w) ==
    /\ Beating(w)
    /\ worker[w].abort = "none"
    /\ AbortWith(w, "deadline")
    /\ UNCHANGED <<dbVars, job, pdfs, dispatcher, sweeper, removals, faults>>

\* A guarded write or check of the pipeline finds the run no longer owned, or
\* the signal aborted: runGenerationPipeline gives up without an outcome.
PipelineStopped(w) ==
    /\ worker[w].step \in {"generate", "render", "stored"}
    /\ ~OwnsRun(w) \/ worker[w].abort # "none"
    /\ Goto(w, "settle")
    /\ UNCHANGED <<dbVars, job, pdfs, dispatcher, sweeper, removals, faults>>

\* An unexpected error: of the pipeline, or of any transaction of the delivery.
DeliveryThrows(w) ==
    /\ Beating(w) \/ worker[w].step \in {"claim", "normalize"}
    /\ Goto(w, "throw")
    /\ UNCHANGED <<dbVars, job, pdfs, dispatcher, sweeper, removals, faults>>

\* Story and quality failures end the pipeline with a failed outcome.
StoryFails(w) ==
    /\ At(w, "generate")
    /\ worker' = [worker EXCEPT ![w].step = "finish", ![w].ok = FALSE]
    /\ UNCHANGED <<dbVars, job, pdfs, dispatcher, sweeper, removals, faults>>

\* GenerationPublicationService.publish up to assertOwnership before the PDF.
EnterRender(w) ==
    /\ At(w, "generate")
    /\ OwnsRun(w) /\ worker[w].abort = "none"
    /\ Goto(w, "render")
    /\ UNCHANGED <<dbVars, job, pdfs, dispatcher, sweeper, removals, faults>>

\* The PDF goes to storage, which knows no fence: ownership may have gone since
\* it was asserted.  What protects readers is the namespace it is written to.
\* Mutant: the path is keyed by the run alone.
PdfNamespace_PerRun(d) == [run |-> d.run, fence |-> 1]
PdfNamespace(d) == [run |-> d.run, fence |-> d.fence]

StorePdf(w) ==
    LET d == worker[w] IN
    /\ At(w, "render")
    /\ pdfs' = {p \in pdfs : p.at # PdfNamespace(d)} \cup
               {[at |-> PdfNamespace(d), by |-> [run |-> d.run, fence |-> d.fence]]}
    /\ worker' = [worker EXCEPT ![w].step = "stored", ![w].ok = TRUE]
    /\ UNCHANGED <<dbVars, job, dispatcher, sweeper, removals, faults>>

RenderFails(w) ==
    /\ At(w, "render")
    /\ worker' = [worker EXCEPT ![w].step = "stored", ![w].ok = FALSE]
    /\ UNCHANGED <<dbVars, job, pdfs, dispatcher, sweeper, removals, faults>>

CollectOutcome(w) ==
    /\ At(w, "stored")
    /\ OwnsRun(w) /\ worker[w].abort = "none"
    /\ Goto(w, "finish")
    /\ UNCHANGED <<dbVars, job, pdfs, dispatcher, sweeper, removals, faults>>

\* GenerationRunCoordinator.completeRun: nothing looks at the abort signal
\* between the outcome and this transaction.
CompleteRun(w) ==
    LET d == worker[w]
        outcome == TerminalOutcome(d.run, "running", d.fence, ~d.ok)
    IN
    /\ At(w, "finish")
    /\ IF outcome # "applied" THEN UNCHANGED dbVars
       ELSE IF d.ok THEN PublishRun(d.run, d.fence)
       ELSE FailRun(d.run)
    /\ Goto(w, IF outcome \in {"applied", "stale_fence"} THEN "settle" ELSE "throw")
    /\ UNCHANGED <<job, pdfs, dispatcher, sweeper, removals, faults>>

\* After the pipeline: a deadline or uncertain ownership throws, otherwise
\* assertQueueCompletionConsistent decides.
Settle(w) ==
    LET d == worker[w]
        consistent == \/ runStatus[d.run] \in Ended
                      \/ runStatus[d.run] = "running" /\ fence[d.run] # d.fence
    IN
    /\ At(w, "settle")
    /\ Goto(w, CASE d.abort = "deadline" -> "deadline"
                 [] d.abort = "ownership_uncertain" -> "throw"
                 [] OTHER -> IF consistent THEN "resolve" ELSE "throw")
    /\ UNCHANGED <<dbVars, job, pdfs, dispatcher, sweeper, removals, faults>>

FailDeadline(w) ==
    LET d == worker[w] IN
    /\ At(w, "deadline")
    /\ FailAbandoned(d.run, "running", d.fence)
    /\ Goto(w, AfterFinalize(TerminalOutcome(d.run, "running", d.fence, TRUE)))
    /\ UNCHANGED <<job, pdfs, dispatcher, sweeper, removals, faults>>

\* The processor returned: the job completes, if the lock is still ours.
JobCompletes(w) ==
    LET r == worker[w].run IN
    /\ At(w, "resolve")
    /\ job' = IF HoldsLock(w) THEN [job EXCEPT ![r].state = "completed"] ELSE job
    /\ worker' = [worker EXCEPT ![w] = IdleWorker]
    /\ UNCHANGED <<dbVars, pdfs, dispatcher, sweeper, removals, faults>>

\* Mutant: onFailed does not look at the attempts that are left.
JobFails_OnEveryFailure(w) ==
    LET r == worker[w].run
        made == job[r].attemptsMade + 1
    IN
    /\ At(w, "throw")
    /\ job' = IF HoldsLock(w)
              THEN [job EXCEPT ![r].attemptsMade = made,
                               ![r].state = IF made < MaxAttempts
                                            THEN "waiting" ELSE "failed"]
              ELSE job
    /\ worker' = [worker EXCEPT ![w] =
                     IF HoldsLock(w) THEN Leaving(@, "exhausted") ELSE IdleWorker]
    /\ UNCHANGED <<dbVars, pdfs, dispatcher, sweeper, removals, faults>>

\* The processor threw: BullMQ retries until the attempts are spent, and then
\* emits 'failed' with attemptsMade = attempts (onFailed).
JobFails(w) ==
    LET r == worker[w].run
        made == job[r].attemptsMade + 1
    IN
    /\ At(w, "throw")
    /\ job' = IF HoldsLock(w)
              THEN [job EXCEPT ![r].attemptsMade = made,
                               ![r].state = IF made < MaxAttempts
                                            THEN "waiting" ELSE "failed"]
              ELSE job
    /\ worker' = [worker EXCEPT ![w] =
                     IF HoldsLock(w) /\ made >= MaxAttempts
                     THEN Leaving(@, "exhausted")
                     ELSE IdleWorker]
    /\ UNCHANGED <<dbVars, pdfs, dispatcher, sweeper, removals, faults>>

\* markRunPermanentlyFailedAfterExhaustedRetries reads whatever fence the run
\* is at by now, and fails it under that fence.
ReadExhausted(w) ==
    LET r == worker[w].run IN
    /\ At(w, "exhausted")
    /\ worker' = [worker EXCEPT ![w] =
                     IF runStatus[r] = "running"
                     THEN [@ EXCEPT !.step = "backstop", !.fence = fence[r]]
                     ELSE IdleWorker]
    /\ UNCHANGED <<dbVars, job, pdfs, dispatcher, sweeper, removals, faults>>

FailExhausted(w) ==
    LET d == worker[w] IN
    /\ At(w, "backstop")
    /\ FailAbandoned(d.run, "running", d.fence)
    /\ worker' = [worker EXCEPT ![w] = IdleWorker]
    /\ UNCHANGED <<job, pdfs, dispatcher, sweeper, removals, faults>>

-----------------------------------------------------------------------------
(* Time, as far as the database rows see it *)

LeaseExpires(r) ==
    /\ runStatus[r] = "running"
    /\ leaseLive[r]
    /\ leaseLive' = [leaseLive EXCEPT ![r] = FALSE]
    /\ UNCHANGED <<runStatus, runBook, fence, deliveryToken, queueExpired,
                   bookVars, moneyVars, outbox, job, pdfs, worker, dispatcher,
                   sweeper, removals, faults>>

QueueWaitExpires(r) ==
    /\ runStatus[r] = "queued"
    /\ ~queueExpired[r]
    /\ queueExpired' = [queueExpired EXCEPT ![r] = TRUE]
    /\ UNCHANGED <<runStatus, runBook, fence, deliveryToken, leaseLive,
                   bookVars, moneyVars, outbox, job, pdfs, worker, dispatcher,
                   sweeper, removals, faults>>

-----------------------------------------------------------------------------
(* GenerationRunRecoveryService *)

\* recover selects runs that look abandoned; each candidate is then handled on
\* the row as it was selected.  Passes may overlap: the recovery lease can pass
\* to a new leader while the old one is inside recoverOne.
\* Mutant: whatever row has no live lease.
LooksAbandoned_AnyStatus(r) == ~leaseLive[r]

\* Mutant: a queued run is nobody's to recover.
LooksAbandoned_RunningOnly(r) == runStatus[r] = "running" /\ ~leaseLive[r]

LooksAbandoned(r) ==
    \/ runStatus[r] = "running" /\ ~leaseLive[r]
    \/ runStatus[r] = "queued" /\ queueExpired[r]

SelectCandidate(s, r) ==
    /\ sweeper[s] = IdleSweeper
    /\ LooksAbandoned(r)
    /\ sweeper' = [sweeper EXCEPT ![s] =
                     [step |-> "candidate", run |-> r, status |-> runStatus[r],
                      fence |-> fence[r],
                      queueWaitExpired |-> runStatus[r] = "queued"]]
    /\ UNCHANGED <<dbVars, job, pdfs, worker, dispatcher, removals, faults>>

\* Mutant: an active job does not count.
JobStillPending_WaitingOnly(j) ==
    \/ j.state = "waiting"
    \/ j.state = "failed" /\ j.attemptsMade < MaxAttempts

\* isJobStillPending: only a failed job with no attempts left, a completed one
\* and a missing one are not.
JobStillPending(j) ==
    \/ j.state \in {"waiting", "active"}
    \/ j.state = "failed" /\ j.attemptsMade < MaxAttempts

\* recoverOne, first half: a run BullMQ still has is left to BullMQ.
CheckPending(s) ==
    LET c == sweeper[s] IN
    /\ c.step = "candidate"
    /\ sweeper' = [sweeper EXCEPT ![s] =
                     IF c.queueWaitExpired \/ ~JobStillPending(job[c.run])
                     THEN [@ EXCEPT !.step = "fail"]
                     ELSE IdleSweeper]
    /\ UNCHANGED <<dbVars, job, pdfs, worker, dispatcher, removals, faults>>

\* recoverOne, second half.
Recover(s) ==
    LET c == sweeper[s] IN
    /\ c.step = "fail"
    /\ FailAbandoned(c.run, c.status, c.fence)
    /\ sweeper' = [sweeper EXCEPT ![s] = IdleSweeper]
    /\ UNCHANGED <<job, pdfs, worker, dispatcher, removals, faults>>

\* The pass dies, fails, or finds its leadership gone.
SweepStops(s) ==
    /\ sweeper[s] # IdleSweeper
    /\ sweeper' = [sweeper EXCEPT ![s] = IdleSweeper]
    /\ UNCHANGED <<dbVars, job, pdfs, worker, dispatcher, removals, faults>>

-----------------------------------------------------------------------------
OwnerNext ==
    \/ \E b \in Books : \/ \E r \in Runs : \/ StartGeneration(b, r)
                                         \/ RetryGeneration(b, r)
                                         \/ RegenerateBook(b, r)
                      \/ CancelGeneration(b)
                      \/ RemoveBook(b)
                      \/ RequestHardDeletion(b)
    \/ \E r \in Runs : RemoveIfSafe(r) \/ RemovalLost(r)

DispatcherNext ==
    \E d \in Dispatchers :
        \/ FindPending(d)
        \/ \E r \in Runs : Enqueue(d, r) \/ DispatchFails(d, r)
        \/ MarkDispatched(d)
        \/ DispatcherCrash(d)

QueueNext ==
    \E r \in Runs : StallOrphan(r) \/ StallLive(r) \/ JobLost(r)

\* What a worker does by itself: each of these steps ends, because every
\* provider call is bounded by its timeout and by the deadline's abort.
WorkerStep(w) ==
    \/ \E r \in Runs : PickUp(w, r)
    \/ Claim(w) \/ ClaimRefused(w)
    \/ StartPipeline(w) \/ FailInvalidSnapshot(w)
    \/ PipelineStopped(w) \/ DeliveryThrows(w)
    \/ StoryFails(w) \/ EnterRender(w) \/ StorePdf(w) \/ RenderFails(w)
    \/ CollectOutcome(w) \/ CompleteRun(w) \/ Settle(w) \/ FailDeadline(w)
    \/ JobCompletes(w) \/ JobFails(w)
    \/ ReadExhausted(w) \/ FailExhausted(w)

WorkerTimers(w) ==
    Heartbeat(w) \/ HeartbeatRejected(w) \/ HeartbeatError(w) \/ DeadlineFires(w)

WorkerNext ==
    \E w \in Workers : WorkerStep(w) \/ WorkerTimers(w) \/ WorkerCrash(w)

Clock(r) == LeaseExpires(r) \/ QueueWaitExpires(r)
ClockNext == \E r \in Runs : Clock(r)

SweepStep(s) ==
    \/ \E r \in Runs : SelectCandidate(s, r)
    \/ CheckPending(s)
    \/ Recover(s)

SweeperNext == \E s \in Sweepers : SweepStep(s) \/ SweepStops(s)

Next ==
    \/ OwnerNext
    \/ DispatcherNext
    \/ QueueNext
    \/ WorkerNext
    \/ ClockNext
    \/ SweeperNext

Spec == Init /\ [][Next]_vars

\* Intervals keep firing, timeouts are finite, and BullMQ notices a lock nobody
\* renews; a recovery pass that keeps being started is not cut short for ever.
\* Nothing is assumed of the owner, of faults, or of heartbeats.
Fairness ==
    /\ \A d \in Dispatchers : WF_vars(FindPending(d))
    /\ \A d \in Dispatchers : WF_vars(\E r \in Runs : Enqueue(d, r))
    /\ \A d \in Dispatchers : WF_vars(MarkDispatched(d))
    /\ \A w \in Workers : WF_vars(WorkerStep(w))
    /\ \A r \in Runs : WF_vars(StallOrphan(r))
    /\ \A r \in Runs : WF_vars(LeaseExpires(r)) /\ WF_vars(QueueWaitExpires(r))
    /\ \A s \in Sweepers, r \in Runs :
          /\ SF_vars(SelectCandidate(s, r))
          /\ SF_vars(sweeper[s].run = r /\ CheckPending(s))
          /\ SF_vars(sweeper[s].run = r /\ Recover(s))

FairSpec == Spec /\ Fairness

-----------------------------------------------------------------------------
(* Properties *)

\* The run rows and the Book mirror never disagree: an active run is the one
\* its book points at, and a book that says it is generating has such a run -
\* so no caller of the coordinator ever meets its book_mirror_mismatch path
\* (generation-run-coordinator.service.ts:255).
MirrorConsistent ==
    /\ \A r \in Runs : runStatus[r] \in Active =>
          /\ activeRun[runBook[r]] = r
          /\ bookStatus[runBook[r]] = "generating"
    /\ \A b \in Books : activeRun[b] # NoRun =>
          /\ runStatus[activeRun[b]] \in Active
          /\ runBook[activeRun[b]] = b
    /\ \A b \in Books : bookStatus[b] = "generating" /\ deletion[b] # "requested" =>
          activeRun[b] # NoRun

\* A run pays for itself exactly once: charged when scheduled, reimbursed by
\* exactly one key and exactly when it ended without a book, however many
\* deliveries, sweeps and cancellations raced to end it.
LedgerMatchesRuns ==
    \A r \in Runs :
        /\ Charged(r) <=> DemoMode /\ runStatus[r] # "none"
        /\ Key("refund", r) \in ledger <=> Charged(r) /\ runStatus[r] = "failed"
        /\ Key("cancel_refund", r) \in ledger <=>
              Charged(r) /\ runStatus[r] = "cancelled"

\* A claim is its own: two deliveries of one run never work under the same
\* fence, whatever BullMQ redelivers, so a namespace keyed by (run, fence) has
\* one writer, and no delivery holds a fence the run has not reached.
Claimed(w) == Beating(w) \/ At(w, "normalize")

ExclusiveClaims ==
    /\ \A v, w \in Workers :
          /\ v # w
          /\ Claimed(v) /\ Claimed(w)
          /\ worker[v].run = worker[w].run
          => worker[v].fence # worker[w].fence
    /\ \A w \in Workers : Claimed(w) => worker[w].fence <= fence[worker[w].run]

\* What readers are served exists and is what the publishing claim rendered,
\* although PDFs are stored without a fence: no late writer of an older or a
\* newer claim replaces or precedes it.
PublishedEditionIntact ==
    \A b \in Books : published[b] # NoEdition =>
        /\ runStatus[published[b].run] = "completed"
        /\ runBook[published[b].run] = b
        /\ [at |-> published[b], by |-> published[b]] \in pdfs
        /\ \A p \in pdfs : p.at = published[b] => p.by = published[b]

\* Readers change edition only by the newest claim of a running run completing
\* it: a superseded, cancelled, failed or deleted generation never does.
PublicationIsFenced ==
    [][\A b \in Books : published'[b] # published[b] =>
          LET e == published'[b] IN
          /\ e # NoEdition
          /\ runBook[e.run] = b
          /\ activeRun[b] = e.run
          /\ runStatus[e.run] = "running" /\ runStatus'[e.run] = "completed"
          /\ fence[e.run] = e.fence
          /\ deletion[b] = "none"]_vars

\* Whoever ends a run first ends it for good, and its fence with it.
EndedRunsAreFinal ==
    [][\A r \in Runs : runStatus[r] \in Ended =>
          runStatus'[r] = runStatus[r] /\ fence'[r] = fence[r]]_vars

\* A delivery that holds its job's lock and owns its run is not failed from
\* under its feet: not by a recovery pass that looked at an expired lease, nor
\* by another delivery's exhausted-retries callback, which carries no fence.
LiveOwnerNotAbandoned ==
    [][\A w \in Workers :
          /\ HoldsLock(w) /\ Beating(w) /\ OwnsRun(w)
          /\ runStatus'[worker[w].run] = "failed"
          => worker'[w] # worker[w]]_vars

\* Dispatch is at least once: as long as Redis has lost no job, a queued run has
\* an event still to be dispatched or a job, whatever a dispatcher failed at
\* between the two (outbox-dispatcher.service.ts:118-138).
QueuedRunIsReachable ==
    faults.jobs = 0 =>
        \A r \in Runs : runStatus[r] = "queued" =>
            outbox[r] = "pending" \/ job[r].state # "missing"

\* Every scheduled run ends, and with it the book leaves its in-progress status.
EveryRunEnds == \A r \in Runs : runStatus[r] \in Active ~> runStatus[r] \in Ended

\* The detailed system implements the contract: an active run is one that is
\* queued or running, the edition is the published pair, and deliveries, jobs,
\* leases, events and ledger rows are invisible.
Contract == INSTANCE GenerationContract WITH
    phase <- [r \in Runs |-> IF runStatus[r] \in Active THEN "active" ELSE runStatus[r]],
    bookOf <- runBook,
    edition <- published,
    closed <- [b \in Books |-> deletion[b] # "none"],
    balance <- credits

ImplementsContract == Contract!CSpec

-----------------------------------------------------------------------------
(* A statement of the repository that the code does not keep *)

\* generation-queue.processor.ts:381-386: with the exhausted-retries callback
\* and the recovery sweep behind it, a book is never left stuck in a
\* non-terminal status.
BookNeverStuck ==
    \A b \in Books :
        bookStatus[b] = "generating" /\ deletion[b] # "requested"
            ~> bookStatus[b] # "generating" \/ deletion[b] = "requested"

=============================================================================
