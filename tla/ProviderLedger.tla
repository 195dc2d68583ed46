---------------------------- MODULE ProviderLedger ----------------------------
(***************************************************************************)
(* The paid provider calls of one generation run: the durable ledger       *)
(* GenerationRun.providerOperations, the deliveries that share it, and the *)
(* checkpoint through which a later delivery adopts what an earlier one    *)
(* paid for.                                                               *)
(*                                                                         *)
(* A delivery is named by the fence it claimed the run under.  A           *)
(* superseded delivery keeps running until one of its fenced transactions  *)
(* is refused; the requests it has already been allowed to send are sent.  *)
(* Every asset is one logical operation of a paid provider; the calls of a *)
(* delivery run concurrently (Promise.all over the illustrations).         *)
(***************************************************************************)
EXTENDS Integers, Sequences, FiniteSets, FiniteSetsExt

CONSTANTS
    Assets,       \* (operation, assetLabel) pairs
    MaxFence,     \* bound: how often a run may be claimed
    RecordLimit,  \* ledger records one operation may have
    Setups        \* the runs to consider

\* What a run was authorised to do when it was scheduled, the client's retries,
\* and the bounds of the scenario.
Setup ==
    [assets: SUBSET Assets,    \* the operations the book needs
     maxDispatches: Nat,       \* the smallest of the run's dispatch limits
     perOperation: Nat,        \* envelope.attemptsPerOperation of the category
     transportRetries: Nat,    \* retries of fetchWithRetry
     limiterRetries: Nat,      \* retries of OpenAIImageRateLimiter after HTTP 429
     claims: 0..MaxFence,      \* bound: how often the run is claimed
     dbFaults: Nat]            \* bound: ledger transactions that fail

ASSUME ProviderLedgerAssumption ==
    /\ IsFiniteSet(Assets)
    /\ MaxFence \in Nat \ {0}
    /\ RecordLimit \in Nat \ {0}
    /\ Setups \subseteq Setup

VARIABLES
    setup,        \* the run's authorization, which nothing changes
    ended,        \* the run is no longer 'running'
    fence,        \* GenerationRun.fencingVersion
    ops,          \* GenerationRun.providerOperations
    checkpoint,   \* Book.generationCheckpoint
    stored,       \* image bytes in object storage, by asset and namespace
    call,         \* the call a delivery has for each asset
    sent,         \* HTTP requests that left the process, by delivery and asset
    faults

vars == <<setup, ended, fence, ops, checkpoint, stored, call, sent, faults>>

-----------------------------------------------------------------------------
Fences == 1..MaxFence

\* "reserved", the state of ledgers older than reserved_unsent, is not written
\* by this code any more.
InFlight == {"dispatch_intent"}
Finished == {"response_received", "artifact_stored", "unknown", "known_failure"}
OpStates == {"reserved_unsent"} \cup InFlight \cup Finished

\* superseded: dispatches whose outcome was still open when the next one of the
\* same call was authorised (unknown_remote_outcome).
Operations ==
    [asset: Assets, fence: Fences, state: OpStates, http: Nat, superseded: Nat]

\* Fence 0 is the namespace of an earlier run of the same input.
Artifacts == [asset: Assets, at: 0..MaxFence]
Checkpoints ==
    [fence: 0..MaxFence, artifacts: SUBSET Artifacts, source: SUBSET Artifacts]

CallSteps == {"absent", "adopt", "todo", "reserved", "gate", "permit", "flight",
              "finish", "save", "checkpoint", "confirm", "done", "failed"}
Calls == [step: CallSteps, index: Nat, attempts: Nat, retries: Nat,
          rateLimited: Nat, outcome: Finished]
NoCall == [step |-> "absent", index |-> 0, attempts |-> 0, retries |-> 0,
           rateLimited |-> 0, outcome |-> "unknown"]

TypeOK ==
    /\ setup \in Setup
    /\ ended \in BOOLEAN
    /\ fence \in 0..MaxFence
    /\ ops \in Seq(Operations)
    /\ checkpoint \in Checkpoints
    /\ stored \subseteq Artifacts
    /\ call \in [Fences -> [Assets -> Calls]]
    /\ \A f \in Fences, a \in Assets :
          /\ call[f][a].step \in {"gate", "permit", "flight"} =>
                call[f][a].index \in DOMAIN ops
    /\ sent \in [Fences -> [Assets -> Nat]]
    /\ faults \in 0..setup.dbFaults

Init ==
    /\ setup \in Setups
    /\ ended = FALSE
    /\ fence = 0
    /\ ops = <<>>
    /\ \E kept \in SUBSET setup.assets :
          /\ stored = [asset: kept, at: {0}]
          /\ checkpoint = [fence |-> 0, artifacts |-> stored, source |-> {}]
    /\ call = [f \in Fences |-> [a \in Assets |-> NoCall]]
    /\ sent = [f \in Fences |-> [a \in Assets |-> 0]]
    /\ faults = 0

Owns(f) == ~ended /\ fence = f
At(f, a, step) == call[f][a].step = step
Goto(f, a, step) == call' = [call EXCEPT ![f][a].step = step]
GiveUp(f, a, outcome) ==
    call' = [call EXCEPT ![f][a].step = "finish", ![f][a].outcome = outcome]

-----------------------------------------------------------------------------
(* Claiming, ending and dying *)

\* effectiveGenerationCheckpoint: what the owner of the checkpoint stored, over
\* what it was still to adopt from the deliveries before it.
Effective(c) ==
    c.artifacts \cup {s \in c.source : \A o \in c.artifacts : o.asset # s.asset}

AssetsOf(artifacts) == {o.asset : o \in artifacts}

\* Mutant: a claim leaves dispatches of the previous delivery as they are, free
\* to be authorised again.
SettleInFlight_Reclaims(op) ==
    IF op.state \in InFlight THEN [op EXCEPT !.state = "reserved_unsent"] ELSE op

SettleInFlight(op) ==
    IF op.state \in InFlight THEN [op EXCEPT !.state = "unknown"] ELSE op

\* claim, and the resume plan the new delivery reads under its own fence: assets
\* whose bytes the effective checkpoint confirms are adopted, others generated.
Claim ==
    LET f == fence + 1
        kept == AssetsOf(Effective(checkpoint) \cap stored)
    IN
    /\ ~ended
    /\ f <= setup.claims
    /\ fence' = f
    /\ ops' = [i \in DOMAIN ops |-> SettleInFlight(ops[i])]
    /\ call' = [call EXCEPT ![f] =
                   [a \in Assets |->
                       IF a \notin setup.assets THEN NoCall
                       ELSE [NoCall EXCEPT !.step = IF a \in kept THEN "adopt"
                                                    ELSE "todo"]]]
    /\ UNCHANGED <<ended, checkpoint, stored, sent, faults>>

\* Cancellation, failure, recovery or completion, by anyone.
EndRun ==
    /\ ~ended
    /\ ended' = TRUE
    /\ UNCHANGED <<fence, ops, checkpoint, stored, call, sent, faults>>

\* The worker process dies with all its calls.
WorkerDies(f) ==
    /\ \E a \in Assets : call[f][a].step \notin {"absent", "done", "failed"}
    /\ call' = [call EXCEPT ![f] = [a \in Assets |-> NoCall]]
    /\ UNCHANGED <<ended, fence, ops, checkpoint, stored, sent, faults>>

-----------------------------------------------------------------------------
(* The ledger's caps *)

\* httpAttempts is always a number here: reserveHttpAttempt sets it before the
\* record leaves reserved_unsent, and a call that never got there reports its
\* own count.
CountAuthorizedDispatches(op) == op.http

Dispatches(records, Which(_)) ==
    MapThenSumSet(LAMBDA i : CountAuthorizedDispatches(records[i]),
                  {i \in DOMAIN records : Which(records[i])})

RecordsOf(records, a) == {i \in DOMAIN records : records[i].asset = a}

\* assertAuthorizedOperations: per operation and in total.
Authorized(records) ==
    /\ \A a \in Assets :
          Dispatches(records, LAMBDA op : op.asset = a) <= setup.perOperation
    /\ Dispatches(records, LAMBDA op : TRUE) <= setup.maxDispatches

\* What reserveOperation holds against the limit: dispatches, and every
\* reservation that has not been used yet.
Exposure(records) ==
    Dispatches(records, LAMBDA op : TRUE)
      + Cardinality({i \in DOMAIN records : records[i].state = "reserved_unsent"})

-----------------------------------------------------------------------------
(* A provider call: GenerationProviderTelemetry.record *)

Reservation(f, a) ==
    [asset |-> a, fence |-> f, state |-> "reserved_unsent", http |-> 0,
     superseded |-> 0]

\* Mutant: an operation whose outcome is unknown may be taken over as well.
Reclaimable_Unknown(a) ==
    {i \in RecordsOf(ops, a) : ops[i].state \in {"reserved_unsent", "unknown"}}

\* A reservation nobody dispatched is taken over by the delivery that asks.
Reclaimable(a) ==
    {i \in RecordsOf(ops, a) : ops[i].state = "reserved_unsent"}

\* reserveOperation.  Everything is refused to a stale fence; a new record is
\* refused beyond the operation's record limit and beyond the budget.
Reclaim(f, a) ==
    LET i == Min(Reclaimable(a)) IN
    /\ Reclaimable(a) # {}
    /\ ops' = [ops EXCEPT ![i].fence = f, ![i].state = "reserved_unsent"]
    /\ call' = [call EXCEPT ![f][a].step = "reserved", ![f][a].index = i]

\* The caps are asked for the ledger with one more record, dispatched once.
MayReserve(f, a) ==
    /\ Cardinality(RecordsOf(ops, a)) < RecordLimit
    /\ Authorized(Append(ops, [Reservation(f, a) EXCEPT !.http = 1]))
    /\ Exposure(ops) < setup.maxDispatches

\* Mutant: the index of the last record before the push.
Reserve_IndexBefore(f, a) ==
    /\ Reclaimable(a) = {}
    /\ MayReserve(f, a)
    /\ ops' = Append(ops, Reservation(f, a))
    /\ call' = [call EXCEPT ![f][a].step = "reserved", ![f][a].index = Len(ops)]

\* A new record; what older deliveries have in flight is settled first.
Reserve(f, a) ==
    /\ Reclaimable(a) = {}
    /\ MayReserve(f, a)
    /\ ops' = Append([i \in DOMAIN ops |-> IF ops[i].fence # f
                                           THEN SettleInFlight(ops[i]) ELSE ops[i]],
                     Reservation(f, a))
    /\ call' = [call EXCEPT ![f][a].step = "reserved",
                            ![f][a].index = Len(ops) + 1]

ReserveOperation(f, a) ==
    /\ At(f, a, "todo")
    /\ Owns(f)
    /\ Reclaim(f, a) \/ Reserve(f, a)
    /\ UNCHANGED <<ended, fence, checkpoint, stored, sent, faults>>

ReserveRefused(f, a) ==
    /\ At(f, a, "todo")
    /\ ~Owns(f) \/ (Reclaimable(a) = {} /\ ~MayReserve(f, a))
    /\ Goto(f, a, "failed")
    /\ UNCHANGED <<ended, fence, ops, checkpoint, stored, sent, faults>>

AssertOwnership(f, a) ==
    /\ At(f, a, "reserved")
    /\ IF Owns(f) THEN Goto(f, a, "gate") ELSE GiveUp(f, a, "known_failure")
    /\ UNCHANGED <<ended, fence, ops, checkpoint, stored, sent, faults>>

\* Mutant: the budget is checked when reserving only, not before each attempt.
MayDispatch_ReservedOnly(f, a) ==
    ops[call[f][a].index].state \in {"reserved_unsent"} \cup InFlight

\* reserveHttpAttempt, awaited by fetchWithRetry before each of its attempts.
Dispatched(f, a) ==
    LET i == call[f][a].index IN
    [ops EXCEPT ![i].state = "dispatch_intent",
                ![i].http = @ + 1,
                ![i].superseded = IF ops[i].state \in InFlight THEN @ + 1 ELSE @]

MayDispatch(f, a) ==
    /\ ops[call[f][a].index].state \in {"reserved_unsent"} \cup InFlight
    /\ Authorized(Dispatched(f, a))

ReserveHttpAttempt(f, a) ==
    /\ At(f, a, "gate")
    /\ Owns(f)
    /\ MayDispatch(f, a)
    /\ ops' = Dispatched(f, a)
    /\ Goto(f, a, "permit")
    /\ UNCHANGED <<ended, fence, checkpoint, stored, sent, faults>>

HttpAttemptRefused(f, a) ==
    /\ At(f, a, "gate")
    /\ ~Owns(f) \/ ~MayDispatch(f, a)
    /\ GiveUp(f, a, "known_failure")
    /\ UNCHANGED <<ended, fence, ops, checkpoint, stored, sent, faults>>

\* The attempt is counted and, for images, waits for the limiter's permit; then
\* fetch is called.  Ownership is not looked at again.
Send(f, a) ==
    /\ At(f, a, "permit")
    /\ sent' = [sent EXCEPT ![f][a] = @ + 1]
    /\ call' = [call EXCEPT ![f][a].step = "flight", ![f][a].attempts = @ + 1]
    /\ UNCHANGED <<ended, fence, ops, checkpoint, stored, faults>>

\* A 2xx answer with a usable body.
Answer(f, a) ==
    /\ At(f, a, "flight")
    /\ GiveUp(f, a, "response_received")
    /\ UNCHANGED <<ended, fence, ops, checkpoint, stored, sent, faults>>

\* HTTP 429 inside the limiter: it waits and sends again by itself.
RateLimited(f, a) ==
    /\ At(f, a, "flight")
    /\ call[f][a].rateLimited < setup.limiterRetries
    /\ call' = [call EXCEPT ![f][a].step = "permit",
                            ![f][a].rateLimited = @ + 1]
    /\ UNCHANGED <<ended, fence, ops, checkpoint, stored, sent, faults>>

\* A retryable status, a timeout, a network error, or no permit in time: back to
\* the gate while fetchWithRetry has retries.
TransportRetry(f, a) ==
    /\ call[f][a].step \in {"permit", "flight"}
    /\ call[f][a].retries < setup.transportRetries
    /\ LET c == call[f][a]
       IN  call' = [call EXCEPT ![f][a] =
             [c EXCEPT !.step = "gate", !.retries = @ + 1, !.rateLimited = 0,
                       !.attempts = IF c.step = "permit" THEN @ + 1 ELSE @]]
    /\ UNCHANGED <<ended, fence, ops, checkpoint, stored, sent, faults>>

\* The call fails for good: a definite refusal by the provider, or a timeout,
\* network error or abort that leaves open what the provider did.  An attempt
\* that was still waiting may have been counted, or not.
AttemptFails(f, a) ==
    /\ At(f, a, "flight")
    /\ \E outcome \in {"known_failure", "unknown"} : GiveUp(f, a, outcome)

WaitFails(f, a) ==
    /\ At(f, a, "permit")
    /\ \E counted \in {0, 1} :
          call' = [call EXCEPT ![f][a].step = "finish", ![f][a].outcome = "unknown",
                               ![f][a].attempts = @ + counted]

CallFails(f, a) ==
    /\ AttemptFails(f, a) \/ WaitFails(f, a)
    /\ UNCHANGED <<ended, fence, ops, checkpoint, stored, sent, faults>>

\* Mutant: the reported attempts do not reach the ledger's record of a failure.
FinishedRecord_Resets(op, outcome, attempts) ==
    [op EXCEPT !.state = outcome, !.http = 0]

\* finishOperation overwrites the durable count with what the adapter reported.
FinishedRecord(op, outcome, attempts) ==
    [op EXCEPT !.state = outcome, !.http = attempts]

FinishOperation(f, a) ==
    LET c == call[f][a] IN
    /\ At(f, a, "finish")
    /\ Owns(f)
    /\ ops' = [ops EXCEPT ![c.index] = FinishedRecord(@, c.outcome, c.attempts)]
    /\ Goto(f, a, IF c.outcome = "response_received" THEN "save" ELSE "failed")
    /\ UNCHANGED <<ended, fence, checkpoint, stored, sent, faults>>

\* A refused or failed record of success is followed by one of failure, whose
\* own failure is swallowed; either way the answer is dropped.
FinishFails(f, a) ==
    /\ At(f, a, "finish")
    /\ IF Owns(f) THEN faults < setup.dbFaults /\ faults' = faults + 1
                  ELSE UNCHANGED faults
    /\ IF call[f][a].outcome = "response_received"
       THEN GiveUp(f, a, "known_failure")
       ELSE Goto(f, a, "failed")
    /\ UNCHANGED <<ended, fence, ops, checkpoint, stored, sent>>

-----------------------------------------------------------------------------
(* Storing and adopting an artifact *)

\* saveImageAsset into the namespace of the delivery's own claim; or the copy of
\* an adopted artifact into it.  No fence is checked.
SaveImage(f, a) ==
    /\ call[f][a].step \in {"save", "adopt"}
    /\ stored' = stored \cup {[asset |-> a, at |-> f]}
    /\ Goto(f, a, "checkpoint")
    /\ UNCHANGED <<ended, fence, ops, checkpoint, sent, faults>>

SaveFails(f, a) ==
    /\ At(f, a, "save")
    /\ Goto(f, a, "failed")
    /\ UNCHANGED <<ended, fence, ops, checkpoint, stored, sent, faults>>

\* Mutant: a takeover starts its checkpoint without what it had not adopted yet.
Checkpointed_NoSource(f, a) ==
    LET own == IF checkpoint.fence = f THEN checkpoint.artifacts ELSE {} IN
    [fence |-> f,
     artifacts |-> own \cup {[asset |-> a, at |-> f]},
     source |-> IF checkpoint.fence = f THEN checkpoint.source ELSE {}]

\* Mutant: each artifact replaces the ones stored before it.
Checkpointed_DropsOthers(f, a) ==
    [fence |-> f,
     artifacts |-> {[asset |-> a, at |-> f]},
     source |-> IF checkpoint.fence = f THEN checkpoint.source
                                        ELSE Effective(checkpoint)]

\* checkpoint: the first write under a fence keeps the effective checkpoint it
\* found as its source.
Checkpointed(f, a) ==
    LET own == IF checkpoint.fence = f THEN checkpoint.artifacts ELSE {} IN
    [fence |-> f,
     artifacts |-> own \cup {[asset |-> a, at |-> f]},
     source |-> IF checkpoint.fence = f THEN checkpoint.source
                                        ELSE Effective(checkpoint)]

Checkpoint(f, a) ==
    /\ At(f, a, "checkpoint")
    /\ IF Owns(f)
       THEN /\ checkpoint' = Checkpointed(f, a)
            /\ Goto(f, a, IF call[f][a].index = 0 THEN "done" ELSE "confirm")
       ELSE /\ Goto(f, a, "failed")
            /\ UNCHANGED checkpoint
    /\ UNCHANGED <<ended, fence, ops, stored, sent, faults>>

ConfirmStored(f, a) ==
    /\ At(f, a, "confirm")
    /\ IF Owns(f)
       THEN /\ ops' = [ops EXCEPT ![call[f][a].index].state = "artifact_stored"]
            /\ Goto(f, a, "done")
       ELSE /\ Goto(f, a, "failed")
            /\ UNCHANGED ops
    /\ UNCHANGED <<ended, fence, checkpoint, stored, sent, faults>>

-----------------------------------------------------------------------------
CallNext(f, a) ==
    \/ ReserveOperation(f, a) \/ ReserveRefused(f, a)
    \/ AssertOwnership(f, a)
    \/ ReserveHttpAttempt(f, a) \/ HttpAttemptRefused(f, a)
    \/ Send(f, a) \/ Answer(f, a) \/ RateLimited(f, a)
    \/ TransportRetry(f, a) \/ CallFails(f, a)
    \/ FinishOperation(f, a) \/ FinishFails(f, a)
    \/ SaveImage(f, a) \/ SaveFails(f, a)
    \/ Checkpoint(f, a) \/ ConfirmStored(f, a)

Next ==
    /\ \/ Claim
       \/ EndRun
       \/ \E f \in Fences : WorkerDies(f)
       \/ \E f \in Fences, a \in Assets : CallNext(f, a)
    /\ UNCHANGED setup

Spec == Init /\ [][Next]_vars

-----------------------------------------------------------------------------
(* Properties *)

TotalSent(as) ==
    MapThenSumSet(LAMBDA k : sent[k[1]][k[2]], Fences \X as)

\* The requests one authorised attempt may come to.
PerAttempt == 1 + setup.limiterRetries

\* The requests that really left, over all deliveries, crashes and superseded
\* workers, stay within the run's budget and within each operation's share of
\* it, an attempt that the limiter repeats after HTTP 429 counted once.
HardBudget ==
    /\ TotalSent(Assets) <= PerAttempt * setup.maxDispatches
    /\ \A a \in Assets : TotalSent({a}) <= PerAttempt * setup.perOperation

\* Every attempt is on record before it leaves and stays on record: the ledger
\* never counts fewer dispatches than were made, although finishOperation
\* replaces the durable count by the adapter's own.
DispatchesRecorded ==
    \A a \in Assets :
        TotalSent({a}) <= PerAttempt * Dispatches(ops, LAMBDA op : op.asset = a)

\* generation-execution-policy.ts:205: reserved_unsent is proof that the record's
\* delivery has dispatched nothing, and only such a record is ever taken over.
ReservedMeansUnsent ==
    \A i \in DOMAIN ops : ops[i].state = "reserved_unsent" =>
        sent[ops[i].fence][ops[i].asset] = 0

\* A dispatch never becomes a free retry: once a record has been dispatched it
\* keeps its delivery, its count never drops below what that delivery sent, and
\* it is never a reservation again.
DispatchIsForGood ==
    [][\A i \in DOMAIN ops : ops[i].state # "reserved_unsent" =>
          /\ ops'[i].state # "reserved_unsent"
          /\ ops'[i].fence = ops[i].fence]_vars

\* What has been stored, checkpointed and confirmed once is never paid for
\* again: no later delivery opens a record for the same asset.
StoredWorkNotRepaid ==
    \A i, j \in DOMAIN ops :
        i < j /\ ops[i].asset = ops[j].asset => ops[i].state # "artifact_stored"

\* A second takeover finds whatever the first one had not adopted yet
\* (generation-checkpoint.ts:36-41): the effective checkpoint only grows, and
\* names bytes that exist.
CheckpointKeepsArtifacts ==
    [][/\ AssetsOf(Effective(checkpoint)) \subseteq AssetsOf(Effective(checkpoint'))
       /\ Effective(checkpoint') \subseteq stored']_vars

\* What was sent is on record and within what the owner approved, and what is
\* only reserved was not sent.
SpendingIsOnRecord ==
    TypeOK /\ HardBudget /\ DispatchesRecorded /\ ReservedMeansUnsent

\* Neither a dispatch nor a stored artifact is forgotten, and none is paid for again.
WorkIsKept ==
    /\ []StoredWorkNotRepaid
    /\ DispatchIsForGood
    /\ CheckpointKeepsArtifacts

=============================================================================
