----------------------------- MODULE PageRevision -----------------------------
(***************************************************************************)
(* The regeneration of one page's illustration, from the price quote to    *)
(* the transaction that republishes the book, and the other writers of the *)
(* same book: text edits of its pages, whole-book generations, detail      *)
(* edits and deletions.                                                    *)
(*                                                                         *)
(* Nothing locks the book while an image is painted and a PDF rendered:    *)
(* a revision and a text edit publish only if the book's updatedAt and     *)
(* published pointers are what they were when the work was composed, and   *)
(* Book.activePageImageRevisionId keeps other generations away.  A paid    *)
(* image call must not be repeated, whatever BullMQ redelivers and the     *)
(* recovery pass enqueues again.                                           *)
(***************************************************************************)
EXTENDS Integers, FiniteSets, FiniteSetsExt, TLC

CONSTANTS
    Revisions,        \* PageImageRevision ids, all of one book
    Pages,            \* page numbers of the book
    Workers,          \* slots of the page revision workers
    Editors,          \* text edit requests in flight
    Sweepers,         \* recovery passes
    NoRevision,       \* the null revision
    InitialCredits,   \* the owner's balance; a revision costs one credit
    MaxStalledCount,  \* BullMQ's maxStalledCount
    Scenarios         \* what happens around the revisions, and how often

\* What a scenario allows.
Scenario ==
    [quotes: SUBSET (Revisions \X Pages),  \* the quotes that may be asked for
     sweepers: SUBSET Sweepers,            \* the recovery passes
     transportRetries: Nat,                \* retries of fetchWithRetry
     limiterRetries: Nat,                  \* retries of the limiter after HTTP 429
     locks: Nat,                           \* bound: worker crashes and lost locks
     faults: Nat,                          \* bound: failed writes and outbox marks
     writes: Nat]                          \* bound: other requests' writes to the book

ASSUME PageRevisionAssumption ==
    /\ IsFiniteSet(Revisions)
    /\ NoRevision \notin Revisions
    /\ IsFiniteSet(Pages) /\ Pages # {}
    /\ {InitialCredits, MaxStalledCount} \subseteq Nat
    /\ Scenarios \subseteq Scenario

VARIABLES
    book,      \* the Book row and its BookPage rows
    rev,       \* the PageImageRevision rows
    ledger,    \* CreditTransaction rows
    credits,   \* User.credits
    outbox,    \* the page_image_revision_queued event of each revision
    job,       \* the BullMQ job of each revision
    images,    \* stored images: whose key, under which claim, painted by whom
    sent,      \* requests that left for the image provider, by delivery
    worker,
    editor,
    sweeper,
    left       \* what the scenario still allows

rowVars == <<book, rev, ledger, credits, outbox>>
vars == <<rowVars, job, images, sent, worker, editor, sweeper, left>>

-----------------------------------------------------------------------------
\* authorizedProviderDispatches: what the quote covers.
AuthorizedDispatches == (1 + left.limiterRetries) * (1 + left.transportRetries)

\* The image a page shows: a key (revision, claim), and in the published
\* manifest the delivery whose bytes they are.  Claim 0 is no key at all.
Keys == [rev: Revisions \cup {NoRevision}, at: Nat, by: Nat]
NoImage == [rev |-> NoRevision, at |-> 0, by |-> 0]

Books ==
    [status: {"complete", "failed", "generating"}, activeRun: BOOLEAN,
     activeRevision: Revisions \cup {NoRevision}, updatedAt: Nat,
     edition: Nat, version: [Pages -> Nat], image: [Pages -> Keys],
     deletion: {"none", "removed", "requested"}]

Live == {"queued", "running"}
OpStates == {"none", "reserved_unsent", "dispatch_intent", "response_received",
             "artifact_stored", "unknown", "known_failure"}
Rows ==
    [status: {"none", "quoted", "completed", "failed"} \cup Live,
     fence: Nat, token: Nat,
     quoteExpired: BOOLEAN, queueExpired: BOOLEAN, leaseLive: BOOLEAN,
     deadlinePassed: BOOLEAN,
     updatedAt: Nat, edition: Nat, page: Pages, version: Nat,
     key: Nat, manifest: Nat, checkpointed: BOOLEAN, op: OpStates,
     dispatches: Nat]
NoRow ==
    [status |-> "none", fence |-> 0, token |-> 0,
     quoteExpired |-> FALSE, queueExpired |-> FALSE, leaseLive |-> FALSE,
     deadlinePassed |-> FALSE,
     updatedAt |-> 0, edition |-> 0, page |-> CHOOSE p \in Pages : TRUE,
     version |-> 0, key |-> 0, manifest |-> 0, checkpointed |-> FALSE, op |-> "none",
     dispatches |-> 0]

Jobs == [state: {"missing", "waiting", "active", "ended"}, stalls: Nat, token: Nat]

\* row and base are what executeClaimed read of the revision and the book.
Deliveries ==
    [step: {"idle", "claim", "load", "adopt", "reserve", "gate", "permit",
            "flight", "finish", "save", "checkpoint", "confirm", "publish",
            "fail", "resolve"},
     rev: Revisions \cup {NoRevision}, token: Nat, fence: Nat, row: Rows,
     base: Nat, key: Nat, by: Nat, retries: Nat, limited: Nat, outcome: OpStates]
Idle ==
    [step |-> "idle", rev |-> NoRevision, token |-> 0, fence |-> 0, row |-> NoRow,
     base |-> 0, key |-> 0, by |-> 0, retries |-> 0, limited |-> 0,
     outcome |-> "none"]

Edits == [step: {"idle", "rendering"}, updatedAt: Nat, edition: Nat,
          page: Pages, version: Nat]
NoEdit == [step |-> "idle", updatedAt |-> 0, edition |-> 0,
           page |-> CHOOSE p \in Pages : TRUE, version |-> 0]

Sweeps == [step: {"idle", "candidate", "fail", "enqueue"},
           rev: Revisions \cup {NoRevision}, fence: Nat,
           expired: BOOLEAN, lost: BOOLEAN]
NoSweep == [step |-> "idle", rev |-> NoRevision, fence |-> 0,
            expired |-> FALSE, lost |-> FALSE]

TypeOK ==
    /\ book \in Books
    /\ rev \in [Revisions -> Rows]
    /\ ledger \subseteq [kind: {"charge", "refund"}, rev: Revisions]
    /\ credits \in Nat
    /\ outbox \in [Revisions -> {"none", "pending", "dispatched", "cancelled"}]
    /\ job \in [Revisions -> Jobs]
    /\ images \subseteq Keys
    /\ sent \subseteq [rev: Revisions, fence: Nat, n: Nat]
    /\ worker \in [Workers -> Deliveries]
    /\ \A w \in Workers : worker[w].step # "idle" => worker[w].rev \in Revisions
    /\ editor \in [Editors -> Edits]
    /\ sweeper \in [Sweepers -> Sweeps]
    /\ \A s \in Sweepers : sweeper[s].step # "idle" => sweeper[s].rev \in Revisions
    /\ left \in Scenario

Init ==
    /\ book = [status |-> "complete", activeRun |-> FALSE,
               activeRevision |-> NoRevision, updatedAt |-> 0, edition |-> 0,
               version |-> [p \in Pages |-> 1],
               image |-> [p \in Pages |-> NoImage], deletion |-> "none"]
    /\ rev = [r \in Revisions |-> NoRow]
    /\ ledger = {}
    /\ credits = InitialCredits
    /\ outbox = [r \in Revisions |-> "none"]
    /\ job = [r \in Revisions |-> [state |-> "missing", stalls |-> 0, token |-> 0]]
    /\ images = {}
    /\ sent = {}
    /\ worker = [w \in Workers |-> Idle]
    /\ editor = [e \in Editors |-> NoEdit]
    /\ sweeper = [s \in Sweepers |-> NoSweep]
    /\ left \in Scenarios

Spend(kind) ==
    /\ left[kind] > 0
    /\ left' = [left EXCEPT ![kind] = @ - 1]

-----------------------------------------------------------------------------
(* Writing the Book row *)

\* @updatedAt has milliseconds: a write may or may not get a stamp of its own.
Stamps == {book.updatedAt, book.updatedAt + 1}

BookIdle ==
    /\ book.status = "complete"
    /\ ~book.activeRun
    /\ book.activeRevision = NoRevision

\* What publishing a new edition of the page does to the Book and BookPage rows.
Publish(stamp, p, version, image) ==
    book' = [book EXCEPT !.updatedAt = stamp, !.edition = @ + 1,
                         !.version[p] = version, !.image[p] = image,
                         !.activeRevision = NoRevision]

Refund(rs) ==
    LET charged == {r \in rs : [kind |-> "charge", rev |-> r] \in ledger} IN
    /\ ledger' = ledger \cup [kind: {"refund"}, rev: charged]
    /\ credits' = credits + Cardinality(charged)

\* Mutant: the refund is not bound to the transition into 'failed'.
FailAndRefund_RefundsAnyway(r, f) ==
    /\ IF rev[r].status \notin Live \/ rev[r].fence # f
       THEN UNCHANGED <<book, rev>>
       ELSE /\ rev' = [rev EXCEPT ![r].status = "failed"]
            /\ book' = IF book.activeRevision = r
                       THEN [book EXCEPT !.activeRevision = NoRevision] ELSE book
    /\ IF rev[r].status = "failed" THEN UNCHANGED <<ledger, credits>> ELSE Refund({r})
    /\ UNCHANGED outbox

\* Mutant: the fence is checked, the status is not.
FailAndRefund_AnyStatus(r, f) ==
    IF rev[r].fence # f THEN UNCHANGED rowVars
    ELSE /\ rev' = [rev EXCEPT ![r].status = "failed"]
         /\ book' = IF book.activeRevision = r
                    THEN [book EXCEPT !.activeRevision = NoRevision] ELSE book
         /\ Refund({r})
         /\ UNCHANGED outbox

\* failAndRefund with the fence its caller observed.
FailAndRefund(r, f) ==
    IF rev[r].status \notin Live \/ rev[r].fence # f THEN UNCHANGED rowVars
    ELSE /\ rev' = [rev EXCEPT ![r].status = "failed"]
         /\ IF book.activeRevision = r
            THEN \E stamp \in Stamps :
                    book' = [book EXCEPT !.activeRevision = NoRevision,
                                         !.updatedAt = stamp]
            ELSE UNCHANGED book
         /\ Refund({r})
         /\ UNCHANGED outbox

-----------------------------------------------------------------------------
(* The owner: quotes, confirmations and other writes to the book *)

CreateQuote(r, p) ==
    /\ <<r, p>> \in left.quotes
    /\ rev[r].status = "none"
    /\ book.deletion = "none"
    /\ BookIdle
    /\ rev' = [rev EXCEPT ![r].status = "quoted",
                          ![r].updatedAt = book.updatedAt,
                          ![r].edition = book.edition,
                          ![r].page = p,
                          ![r].version = book.version[p]]
    /\ UNCHANGED <<book, ledger, credits, outbox, job, images, sent, worker,
                   editor, sweeper, left>>

MatchesSnapshot(row, r) ==
    /\ book.status = "complete"
    /\ ~book.activeRun
    /\ book.activeRevision \in {NoRevision, r}
    /\ book.updatedAt = row.updatedAt
    /\ book.edition = row.edition

\* Mutant: the balance is not looked at when the credit is taken.
Confirm_NoBalanceCheck(r) ==
    /\ rev[r].status = "quoted"
    /\ ~rev[r].quoteExpired
    /\ book.deletion = "none"
    /\ MatchesSnapshot(rev[r], r)
    /\ book.version[rev[r].page] = rev[r].version
    /\ book.activeRevision = NoRevision
    /\ \E stamp \in Stamps :
          /\ book' = [book EXCEPT !.activeRevision = r, !.updatedAt = stamp]
          /\ rev' = [rev EXCEPT ![r].status = "queued", ![r].updatedAt = stamp]
    /\ ledger' = ledger \cup {[kind |-> "charge", rev |-> r]}
    /\ credits' = credits - 1
    /\ outbox' = [outbox EXCEPT ![r] = "pending"]
    /\ UNCHANGED <<job, images, sent, worker, editor, sweeper, left>>

\* confirm: reserves the book, queues the revision, charges it and leaves the
\* outbox event, in one transaction.  A second confirmation changes nothing.
Confirm(r) ==
    /\ rev[r].status = "quoted"
    /\ ~rev[r].quoteExpired
    /\ book.deletion = "none"
    /\ MatchesSnapshot(rev[r], r)
    /\ book.version[rev[r].page] = rev[r].version
    /\ book.activeRevision = NoRevision
    /\ credits >= 1
    /\ \E stamp \in Stamps :
          /\ book' = [book EXCEPT !.activeRevision = r, !.updatedAt = stamp]
          /\ rev' = [rev EXCEPT ![r].status = "queued", ![r].updatedAt = stamp]
    /\ ledger' = ledger \cup {[kind |-> "charge", rev |-> r]}
    /\ credits' = credits - 1
    /\ outbox' = [outbox EXCEPT ![r] = "pending"]
    /\ UNCHANGED <<job, images, sent, worker, editor, sweeper, left>>

\* The actions below are other requests' writes to the same row.
OtherWrite ==
    /\ Spend("writes")
    /\ UNCHANGED <<job, images, sent, worker, editor, sweeper>>

\* PATCH of the book's details, or a child photo: allowed while a revision is
\* in progress, because the book is still 'complete'.
EditDetails ==
    /\ book.deletion = "none"
    /\ book.status # "generating"
    /\ \E stamp \in Stamps : book' = [book EXCEPT !.updatedAt = stamp]
    /\ OtherWrite
    /\ UNCHANGED <<rev, ledger, credits, outbox>>

RemoveBook ==
    /\ book.deletion = "none"
    /\ book.status # "generating"
    /\ \E stamp \in Stamps :
          book' = [book EXCEPT !.updatedAt = stamp, !.deletion = "removed"]
    /\ OtherWrite
    /\ UNCHANGED <<rev, ledger, credits, outbox>>

\* Mutant: a whole-book generation does not look for a page revision.
StartGeneration_AnyTime ==
    /\ book.deletion = "none"
    /\ ~book.activeRun
    /\ \E stamp \in Stamps :
          book' = [book EXCEPT !.activeRun = TRUE, !.status = "generating",
                               !.updatedAt = stamp]
    /\ OtherWrite
    /\ UNCHANGED <<rev, ledger, credits, outbox>>

\* createRunAndSchedule (module GenerationRun) needs the book free of revisions.
StartGeneration ==
    /\ book.deletion = "none"
    /\ ~book.activeRun
    /\ book.activeRevision = NoRevision
    /\ \E stamp \in Stamps :
          book' = [book EXCEPT !.activeRun = TRUE, !.status = "generating",
                               !.updatedAt = stamp]
    /\ OtherWrite
    /\ UNCHANGED <<rev, ledger, credits, outbox>>

\* completeRun: success replaces every page and moves the page versions above
\* their maximum; a failure or a cancellation leaves edition and pages alone.
EndGeneration ==
    LET top == Max({book.version[p] : p \in Pages}) IN
    /\ book.activeRun
    /\ \E stamp \in Stamps :
          \/ book' = [book EXCEPT !.activeRun = FALSE, !.status = "complete",
                                  !.updatedAt = stamp, !.edition = @ + 1,
                                  !.version = [p \in Pages |-> top + 1],
                                  !.image = [p \in Pages |-> NoImage]]
          \/ book' = [book EXCEPT !.activeRun = FALSE, !.status = "failed",
                                  !.updatedAt = stamp]
    /\ UNCHANGED <<rev, ledger, credits, outbox, job, images, sent, worker,
                   editor, sweeper, left>>

\* BookHardDeletionService.request: fails live revisions whatever their fence.
RequestHardDeletion ==
    LET live == {r \in Revisions : rev[r].status \in Live} IN
    /\ book.deletion # "requested"
    /\ \E stamp \in Stamps :
          book' = [book EXCEPT !.deletion = "requested", !.updatedAt = stamp,
                               !.activeRun = FALSE, !.activeRevision = NoRevision]
    /\ rev' = [r \in Revisions |->
                 IF r \in live
                 THEN [rev[r] EXCEPT !.status = "failed", !.fence = @ + 1]
                 ELSE rev[r]]
    /\ outbox' = [r \in Revisions |->
                    IF r \in live /\ outbox[r] = "pending"
                    THEN "cancelled" ELSE outbox[r]]
    /\ Refund(live)
    /\ OtherWrite

-----------------------------------------------------------------------------
(* BookPageChangeService.updatePageText *)

\* The request reads the idle book and composes and renders the new edition.
ReadPage(e, p) ==
    /\ editor[e] = NoEdit
    /\ book.deletion = "none"
    /\ BookIdle
    /\ Spend("writes")
    /\ editor' = [editor EXCEPT ![e] =
                    [step |-> "rendering", updatedAt |-> book.updatedAt,
                     edition |-> book.edition, page |-> p,
                     version |-> book.version[p]]]
    /\ UNCHANGED <<rowVars, job, images, sent, worker, sweeper>>

\* Mutant: the edit's publication trusts the page version alone, not the row.
EditStillCurrent_VersionOnly(e) == book.version[editor[e].page] = editor[e].version

EditStillCurrent(e) ==
    /\ book.version[editor[e].page] = editor[e].version
    /\ book.deletion = "none"
    /\ BookIdle
    /\ book.updatedAt = editor[e].updatedAt
    /\ book.edition = editor[e].edition

PublishEdit(e) ==
    /\ editor[e].step = "rendering"
    /\ EditStillCurrent(e)
    /\ LET p == editor[e].page IN
          \E stamp \in Stamps :
             Publish(stamp, p, editor[e].version + 1, book.image[p])
    /\ editor' = [editor EXCEPT ![e] = NoEdit]
    /\ UNCHANGED <<rev, ledger, credits, outbox, job, images, sent, worker,
                   sweeper, left>>

\* A conflict, a render or storage failure, or a lost connection.
EditFails(e) ==
    /\ editor[e].step = "rendering"
    /\ editor' = [editor EXCEPT ![e] = NoEdit]
    /\ UNCHANGED <<rowVars, job, images, sent, worker, sweeper, left>>

-----------------------------------------------------------------------------
(* Outbox and BullMQ *)

\* enqueuePageImageRevision: a job that ended is removed and added again; one
\* that is still there is left alone.
Enqueued(j) ==
    IF j.state \in {"missing", "ended"}
    THEN [state |-> "waiting", stalls |-> 0, token |-> j.token] ELSE j

Dispatch(r) ==
    /\ outbox[r] = "pending"
    /\ job' = [job EXCEPT ![r] = Enqueued(@)]
    /\ outbox' = [outbox EXCEPT ![r] = "dispatched"]
    /\ UNCHANGED <<book, rev, ledger, credits, images, sent, worker, editor,
                   sweeper, left>>

\* The job is added and the event stays pending, to be dispatched again.
DispatchUnmarked(r) ==
    /\ outbox[r] = "pending"
    /\ Spend("faults")
    /\ job' = [job EXCEPT ![r] = Enqueued(@)]
    /\ UNCHANGED <<rowVars, images, sent, worker, editor, sweeper>>

HoldsLock(w) ==
    /\ worker[w].step # "idle"
    /\ job[worker[w].rev].state = "active"
    /\ job[worker[w].rev].token = worker[w].token

StalledJob(j) ==
    IF j.stalls < MaxStalledCount
    THEN [j EXCEPT !.state = "waiting", !.stalls = @ + 1]
    ELSE [j EXCEPT !.state = "ended"]

Stall(r) ==
    /\ job[r].state = "active"
    /\ IF \E w \in Workers : HoldsLock(w) /\ worker[w].rev = r
       THEN Spend("locks") ELSE UNCHANGED left
    /\ job' = [job EXCEPT ![r] = StalledJob(@)]
    /\ UNCHANGED <<rowVars, images, sent, worker, editor, sweeper>>

WorkerCrash(w) ==
    /\ worker[w].step # "idle"
    /\ Spend("locks")
    /\ worker' = [worker EXCEPT ![w] = Idle]
    /\ UNCHANGED <<rowVars, job, images, sent, editor, sweeper>>

-----------------------------------------------------------------------------
(* One delivery: PageImageRevisionQueueProcessor and executeClaimed *)

At(w, step) == worker[w].step = step
Goto(w, step) == worker' = [worker EXCEPT ![w].step = step]

\* On the way out a delivery remembers which claim it was, and nothing else.
Leave(w, step) ==
    worker' = [worker EXCEPT ![w] =
                 [Idle EXCEPT !.step = step, !.rev = worker[w].rev,
                              !.token = worker[w].token, !.fence = worker[w].fence]]

PickUp(w, r) ==
    /\ worker[w] = Idle
    /\ job[r].state = "waiting"
    /\ job' = [job EXCEPT ![r].state = "active", ![r].token = @ + 1]
    /\ worker' = [worker EXCEPT ![w] =
                    [Idle EXCEPT !.step = "claim", !.rev = r,
                                 !.token = job[r].token + 1]]
    /\ UNCHANGED <<rowVars, images, sent, editor, sweeper, left>>

Claimable(row, token) ==
    \/ row.status = "queued" /\ ~row.queueExpired
    \/ row.status = "running" /\ row.token # token /\ ~row.deadlinePassed

Claim(w) ==
    LET d == worker[w] IN
    /\ At(w, "claim")
    /\ IF Claimable(rev[d.rev], d.token)
       THEN /\ rev' = [rev EXCEPT ![d.rev].status = "running",
                                  ![d.rev].token = d.token,
                                  ![d.rev].fence = @ + 1,
                                  ![d.rev].leaseLive = TRUE]
            /\ worker' = [worker EXCEPT ![w].step = "load",
                                        ![w].fence = rev[d.rev].fence + 1]
       ELSE /\ Leave(w, "resolve")
            /\ UNCHANGED rev
    /\ UNCHANGED <<book, ledger, credits, outbox, job, images, sent, editor,
                   sweeper, left>>

\* Mutant: the gateway's writes ask for a running revision only.
Owns_StatusOnly(w) == rev[worker[w].rev].status = "running"

\* The fence of every write of the gateway and of the publication.
Owns(w) ==
    /\ rev[worker[w].rev].status = "running"
    /\ rev[worker[w].rev].fence = worker[w].fence

\* executeClaimed up to the provider: a stale delivery returns, a revision that
\* can no longer be published (deadline, changed book, changed configuration)
\* is failed, otherwise the rows as they are now are what the work is based on.
Load(w) ==
    LET row == rev[worker[w].rev]
        sound == /\ ~row.deadlinePassed
                 /\ MatchesSnapshot(row, worker[w].rev)
                 /\ book.version[row.page] = row.version
    IN
    /\ At(w, "load")
    /\ \/ ~Owns(w) /\ Leave(w, "resolve")
       \/ Owns(w) /\ Leave(w, "fail")
       \/ /\ Owns(w) /\ sound
          /\ worker' = [worker EXCEPT ![w].step = "adopt", ![w].row = row,
                                      ![w].base = book.edition]
    /\ UNCHANGED <<rowVars, job, images, sent, editor, sweeper, left>>

\* Bytes under the recorded key that agree with the recorded manifest, if any.
Candidates(row, r) ==
    {i \in images : /\ i.rev = r
                    /\ i.at = row.key
                    /\ row.manifest \in {0, i.by}}

\* Only a revision nobody has dispatched for may call the provider.
NewCallAllowed(row) == row.dispatches = 0

\* Adopt what an earlier delivery paid for, or start the one call.
Adopt(w) ==
    LET d == worker[w]
        found == Candidates(d.row, d.rev)
    IN
    /\ At(w, "adopt")
    /\ \/ /\ d.row.dispatches > 0 /\ found # {}
          /\ worker' = [worker EXCEPT
                          ![w].step = IF d.row.checkpointed THEN "publish"
                                                            ELSE "checkpoint",
                          ![w].key = d.row.key,
                          ![w].by = (CHOOSE i \in found : TRUE).by]
       \/ /\ d.row.dispatches = 0 \/ found = {}
          /\ NewCallAllowed(d.row)
          /\ worker' = [worker EXCEPT
                          ![w].step = "reserve",
                          ![w].key = IF d.row.key # 0 THEN d.row.key ELSE d.fence]
       \/ /\ d.row.dispatches = 0 \/ found = {}
          /\ ~NewCallAllowed(d.row)
          /\ Leave(w, "fail")
    /\ UNCHANGED <<rowVars, job, images, sent, editor, sweeper, left>>

\* A fenced write of the gateway, which renews the lease too.
Fenced(w, row) ==
    /\ Owns(w)
    /\ rev' = [rev EXCEPT ![worker[w].rev] = [row EXCEPT !.leaseLive = TRUE]]
    /\ UNCHANGED <<book, ledger, credits, outbox, job, images, sent, editor,
                   sweeper, left>>

Refused(w) ==
    /\ Leave(w, "fail")
    /\ UNCHANGED <<rowVars, job, images, sent, editor, sweeper, left>>

\* reserveOperation: one logical operation per revision, which a takeover may
\* use while it is unsent; then assertOwnership, which only renews the lease.
ReserveOperation(w) ==
    LET row == rev[worker[w].rev]
        free == row.op \in {"none", "reserved_unsent"}
    IN
    /\ At(w, "reserve")
    /\ \/ /\ free
          /\ Fenced(w, [row EXCEPT !.key = worker[w].key, !.op = "reserved_unsent"])
          /\ Goto(w, "gate")
       \/ (~Owns(w) \/ ~free) /\ Refused(w)

\* reserveHttpAttempt, before each attempt of fetchWithRetry.
ReserveHttpAttempt(w) ==
    LET row == rev[worker[w].rev]
        allowed == /\ row.dispatches < AuthorizedDispatches
                   /\ row.op \in {"reserved_unsent", "dispatch_intent"}
    IN
    /\ At(w, "gate")
    /\ \/ /\ allowed
          /\ Fenced(w, [row EXCEPT !.key = worker[w].key, !.op = "dispatch_intent",
                                   !.dispatches = @ + 1])
          /\ Goto(w, "permit")
       \/ (~Owns(w) \/ ~allowed) /\ Refused(w)

Send(w) ==
    LET d == worker[w] IN
    /\ At(w, "permit")
    /\ sent' = sent \cup {[rev |-> d.rev, fence |-> d.fence, n |-> Cardinality(sent)]}
    /\ Goto(w, "flight")
    /\ UNCHANGED <<rowVars, job, images, editor, sweeper, left>>

\* A usable image, HTTP 429 inside the limiter, a retryable failure, or the end.
Answer(w) ==
    LET d == worker[w] IN
    /\ At(w, "flight")
    /\ \/ worker' = [worker EXCEPT ![w].step = "finish",
                                   ![w].outcome = "response_received"]
       \/ /\ d.limited < left.limiterRetries
          /\ worker' = [worker EXCEPT ![w].step = "permit", ![w].limited = @ + 1]
       \/ /\ d.retries < left.transportRetries
          /\ worker' = [worker EXCEPT ![w].step = "gate", ![w].retries = @ + 1,
                                      ![w].limited = 0]
       \/ \E outcome \in {"unknown", "known_failure"} :
             worker' = [worker EXCEPT ![w].step = "finish", ![w].outcome = outcome]
    /\ UNCHANGED <<rowVars, job, images, sent, editor, sweeper, left>>

FinishOperation(w) ==
    LET d == worker[w]
        answered == d.outcome = "response_received"
    IN
    /\ At(w, "finish")
    /\ \/ /\ Fenced(w, [rev[d.rev] EXCEPT !.op = d.outcome])
          /\ IF answered THEN Goto(w, "save") ELSE Leave(w, "fail")
       \/ ~Owns(w) /\ Refused(w)

\* The key is the recorded one if an earlier delivery reserved but never sent.
SaveImage(w) ==
    LET d == worker[w] IN
    /\ At(w, "save")
    /\ \/ /\ images' = {i \in images : i.rev # d.rev \/ i.at # d.key}
                         \cup {[rev |-> d.rev, at |-> d.key, by |-> d.fence]}
          /\ worker' = [worker EXCEPT ![w].step = "checkpoint", ![w].by = d.fence]
       \/ /\ Leave(w, "fail")
          /\ UNCHANGED images
    /\ UNCHANGED <<rowVars, job, sent, editor, sweeper, left>>

Checkpoint(w) ==
    LET d == worker[w] IN
    /\ At(w, "checkpoint")
    /\ \/ /\ Fenced(w, [rev[d.rev] EXCEPT !.checkpointed = TRUE, !.key = d.key,
                                          !.manifest = d.by])
          /\ Goto(w, "confirm")
       \/ ~Owns(w) /\ Refused(w)

ConfirmStored(w) ==
    /\ At(w, "confirm")
    /\ \/ /\ Fenced(w, [rev[worker[w].rev] EXCEPT !.op = "artifact_stored",
                                                  !.checkpointed = TRUE])
          /\ Goto(w, "publish")
       \/ ~Owns(w) /\ Refused(w)

\* The guarded update of the Book row; it does not ask about deletedAt.
SourceUnchanged(row, r) ==
    /\ book.status = "complete"
    /\ ~book.activeRun
    /\ book.activeRevision = r
    /\ book.updatedAt = row.updatedAt
    /\ book.edition = row.edition

\* The publication transaction; the PDF is rendered and stored before it.
PublishRevision(w) ==
    LET d == worker[w]
        image == [rev |-> d.rev, at |-> d.key, by |-> d.by]
    IN
    /\ At(w, "publish")
    /\ SourceUnchanged(d.row, d.rev)
    /\ Owns(w)
    /\ \E stamp \in Stamps : Publish(stamp, d.row.page, d.row.version + 1, image)
    /\ rev' = [rev EXCEPT ![d.rev].status = "completed"]
    /\ Leave(w, "resolve")
    /\ UNCHANGED <<ledger, credits, outbox, job, images, sent, editor, sweeper,
                   left>>

\* The render fails, or the transaction rolls back.
PublicationFails(w) ==
    /\ At(w, "publish")
    /\ Refused(w)

\* Every way out but success; the write itself may fail, and is swallowed.
Fail(w) ==
    LET d == worker[w] IN
    /\ At(w, "fail")
    /\ \/ FailAndRefund(d.rev, d.fence) /\ UNCHANGED left
       \/ Spend("faults") /\ UNCHANGED rowVars
    /\ Leave(w, "resolve")
    /\ UNCHANGED <<job, images, sent, editor, sweeper>>

\* attempts: 1 - completed or failed, the job is over if the lock is still ours.
Resolve(w) ==
    /\ At(w, "resolve")
    /\ job' = IF HoldsLock(w) THEN [job EXCEPT ![worker[w].rev].state = "ended"]
                              ELSE job
    /\ worker' = [worker EXCEPT ![w] = Idle]
    /\ UNCHANGED <<rowVars, images, sent, editor, sweeper, left>>

-----------------------------------------------------------------------------
(* Time, as the rows show it *)

Turns(r, status, flag, value) ==
    /\ rev[r].status = status
    /\ rev[r][flag] # value
    /\ rev' = [rev EXCEPT ![r][flag] = value]
    /\ UNCHANGED <<book, ledger, credits, outbox, job, images, sent, worker,
                   editor, sweeper, left>>

QuoteExpires(r) == Turns(r, "quoted", "quoteExpired", TRUE)
QueueWaitExpires(r) == Turns(r, "queued", "queueExpired", TRUE)
LeaseExpires(r) == Turns(r, "running", "leaseLive", FALSE)
DeadlinePasses(r) == Turns(r, "running", "deadlinePassed", TRUE)

-----------------------------------------------------------------------------
(* GenerationRunRecoveryService.recoverPageImageRevisions *)

\* Mutant: a passed deadline is left to the delivery itself.
LooksAbandoned_LeaseOnly(row) ==
    \/ row.status = "queued" /\ row.queueExpired
    \/ row.status = "running" /\ ~row.leaseLive /\ ~row.deadlinePassed

LooksAbandoned(row) ==
    \/ row.status = "queued" /\ row.queueExpired
    \/ row.status = "running" /\ (row.deadlinePassed \/ ~row.leaseLive)

SelectRevision(s, r) ==
    LET row == rev[r] IN
    /\ s \in left.sweepers
    /\ sweeper[s] = NoSweep
    /\ LooksAbandoned(row)
    /\ sweeper' = [sweeper EXCEPT ![s] =
                     [step |-> "candidate", rev |-> r, fence |-> row.fence,
                      expired |-> row.status = "queued" \/ row.deadlinePassed,
                      lost |-> row.dispatches > 0 /\ ~row.checkpointed]]
    /\ UNCHANGED <<rowVars, job, images, sent, worker, editor, left>>

\* Mutant: a job a worker is busy with does not count.
JobPending_WaitingOnly(r) == job[r].state = "waiting"

\* isPageImageRevisionJobStillPending.
JobPending(r) == job[r].state \in {"waiting", "active"}

\* Decided on the row as it was read: an expired revision fails; one whose job
\* is pending is left to BullMQ; one that was dispatched and has nothing stored
\* fails; the rest is queued again.
Decide(s) ==
    LET c == sweeper[s] IN
    /\ c.step = "candidate"
    /\ sweeper' = [sweeper EXCEPT ![s] =
                     IF ~c.expired /\ JobPending(c.rev)
                     THEN NoSweep
                     ELSE [c EXCEPT !.step = IF c.expired \/ c.lost
                                             THEN "fail" ELSE "enqueue"]]
    /\ UNCHANGED <<rowVars, job, images, sent, worker, editor, left>>

RecoverRevision(s) ==
    LET c == sweeper[s] IN
    /\ \/ /\ c.step = "fail"
          /\ FailAndRefund(c.rev, c.fence)
          /\ UNCHANGED job
       \/ /\ c.step = "enqueue"
          /\ job' = [job EXCEPT ![c.rev] = Enqueued(@)]
          /\ UNCHANGED rowVars
    /\ sweeper' = [sweeper EXCEPT ![s] = NoSweep]
    /\ UNCHANGED <<images, sent, worker, editor, left>>

\* The pass dies, or one of its reads fails.
SweepStops(s) ==
    /\ sweeper[s] # NoSweep
    /\ sweeper' = [sweeper EXCEPT ![s] = NoSweep]
    /\ UNCHANGED <<rowVars, job, images, sent, worker, editor, left>>

-----------------------------------------------------------------------------
OwnerNext ==
    \/ \E r \in Revisions : (\E p \in Pages : CreateQuote(r, p)) \/ Confirm(r)
    \/ EditDetails \/ RemoveBook \/ StartGeneration \/ EndGeneration
    \/ RequestHardDeletion
    \/ \E e \in Editors : \/ \E p \in Pages : ReadPage(e, p)
                          \/ PublishEdit(e) \/ EditFails(e)

QueueNext == \E r \in Revisions : Dispatch(r) \/ DispatchUnmarked(r) \/ Stall(r)

WorkerNext ==
    \E w \in Workers :
        \/ \E r \in Revisions : PickUp(w, r)
        \/ Claim(w) \/ Load(w) \/ Adopt(w)
        \/ ReserveOperation(w) \/ ReserveHttpAttempt(w)
        \/ Send(w) \/ Answer(w) \/ FinishOperation(w)
        \/ SaveImage(w) \/ Checkpoint(w) \/ ConfirmStored(w)
        \/ PublishRevision(w) \/ PublicationFails(w)
        \/ Fail(w) \/ Resolve(w) \/ WorkerCrash(w)

ClockNext ==
    \E r \in Revisions :
        QuoteExpires(r) \/ QueueWaitExpires(r) \/ LeaseExpires(r) \/ DeadlinePasses(r)

SweeperNext ==
    \E s \in Sweepers :
        \/ \E r \in Revisions : SelectRevision(s, r)
        \/ Decide(s) \/ RecoverRevision(s) \/ SweepStops(s)

Next == OwnerNext \/ QueueNext \/ WorkerNext \/ ClockNext \/ SweeperNext

Spec == Init /\ [][Next]_vars

\* Wall-clock deadlines pass, and recovery passes that keep being started are
\* not cut short for ever.  Nothing is assumed of workers, BullMQ or the outbox.
Fairness ==
    /\ \A r \in Revisions : WF_vars(QueueWaitExpires(r)) /\ WF_vars(DeadlinePasses(r))
    /\ \A s \in Sweepers, r \in Revisions :
          /\ SF_vars(SelectRevision(s, r))
          /\ SF_vars(sweeper[s].rev = r /\ Decide(s))
          /\ SF_vars(sweeper[s].rev = r /\ RecoverRevision(s))

FairSpec == Spec /\ Fairness

-----------------------------------------------------------------------------
(* Properties *)

\* generation-queue.service.ts:115-118: one confirmed quote authorizes one
\* logical provider call.  Of all deliveries of a revision only one ever sends
\* anything, within the quoted number of requests, and the owner has been
\* charged for it.
OneLogicalCall ==
    /\ \A a, b \in sent : a.rev = b.rev => a.fence = b.fence
    /\ \A r \in Revisions :
          Cardinality({x \in sent : x.rev = r}) <= AuthorizedDispatches
    /\ \A x \in sent : [kind |-> "charge", rev |-> x.rev] \in ledger

\* The reservation and the row agree: a revision is queued or running exactly
\* while the book points at it, and then no generation is in progress - however
\* deliveries, sweeps, deletions and publications interleave.
ReservationMatches ==
    /\ \A r \in Revisions : rev[r].status \in Live <=> book.activeRevision = r
    /\ book.activeRevision # NoRevision => ~book.activeRun

\* A credit is taken by confirming, given back by failing, once each.
RefundOnFailure ==
    /\ \A r \in Revisions :
          /\ [kind |-> "charge", rev |-> r] \in ledger <=>
                rev[r].status \notin {"none", "quoted"}
          /\ [kind |-> "refund", rev |-> r] \in ledger <=> rev[r].status = "failed"
    /\ credits = InitialCredits
                   - Cardinality({x \in ledger : x.kind = "charge"})
                   + Cardinality({x \in ledger : x.kind = "refund"})

\* A page never shows an image that is not there, that another delivery painted
\* over, or whose credit was given back.
ShownImagePaidAndStored ==
    \A p \in Pages : book.image[p] # NoImage =>
        LET i == book.image[p] IN
        /\ {x \in images : x.rev = i.rev /\ x.at = i.at} = {i}
        /\ rev[i.rev].status = "completed"
        /\ rev[i.rev].page = p

\* No lost update: whatever is published was composed from the edition and the
\* page version it replaces.
ComposedFrom(edition, page, version) ==
    edition = book.edition /\ version = book.version[page]

NoLostUpdate ==
    [][book'.edition # book.edition =>
          \/ book.activeRun
          \/ \E e \in Editors :
                /\ editor'[e] # editor[e]
                /\ ComposedFrom(editor[e].edition, editor[e].page, editor[e].version)
          \/ \E w \in Workers :
                /\ worker'[w] # worker[w]
                /\ ComposedFrom(worker[w].base, worker[w].row.page, worker[w].row.version)]_vars

\* A revision that ended stays as it ended, and one that failed never reaches
\* the page ("The previous book is unchanged").
EndedRevisionsFinal ==
    [][\A r \in Revisions :
          /\ rev[r].status \in {"completed", "failed"} => rev'[r].status = rev[r].status
          /\ \A p \in Pages : book'.image[p] # book.image[p] /\ book'.image[p].rev = r =>
                rev[r].status = "running"]_vars

\* A recovery pass does not give a dispatched but unanswered call a second
\* chance, nor fail a revision whose delivery is at work within its deadline.
LiveDeliveryNotFailed ==
    [][\A w \in Workers :
          /\ HoldsLock(w) /\ Owns(w)
          /\ rev'[worker[w].rev].status = "failed"
          /\ ~rev[worker[w].rev].deadlinePassed
          /\ book'.deletion # "requested"
          => worker'[w] # worker[w]]_vars

\* Every confirmed revision ends, and with it the book is free again.
RevisionEnds ==
    \A r \in Revisions : []<>(rev[r].status \notin Live)

\* Rows, reservation, credits and the pages shown agree on every revision.
RevisionBooksAgree ==
    TypeOK /\ ReservationMatches /\ RefundOnFailure /\ ShownImagePaidAndStored

\* A revision is ended by who may end it, once.
VerdictsStand ==
    /\ EndedRevisionsFinal
    /\ LiveDeliveryNotFailed

=============================================================================
