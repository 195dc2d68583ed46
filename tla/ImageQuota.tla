------------------------------ MODULE ImageQuota ------------------------------
(***************************************************************************)
(* How image requests of several processes share one quota: the queue of   *)
(* each process (OpenAIImageRateLimiter), the permits Redis keeps for all   *)
(* of them (RedisProviderQuotaGate), and the attempt around them           *)
(* (fetchWithRetry in OpenAIImageGenerationProvider), under aborts, HTTP   *)
(* 429, lost or late Redis commands and leases that run out.               *)
(*                                                                         *)
(* A permit is <<call, n>>: the token of the n-th time the call asked.     *)
(* A call holds the head of its process's queue while it asks, waits, is   *)
(* in flight and backs off, but not while its response body is read.       *)
(***************************************************************************)
EXTENDS Naturals, Sequences, FiniteSets, SequencesExt

CONSTANTS QuotaCalls,        \* image requests
          ProcessOf,         \* the process each belongs to
          Permits,           \* maxConcurrency of the scope
          LimiterRetries,    \* retries after HTTP 429
          MaxWaits,          \* bound: sleeps the wait budget of one acquire allows
          QuotaBudgets       \* retries of fetchWithRetry, and bounds: [calls, retries, aborts,
                             \* lates, losses, limits, failures, expiries]

ASSUME QuotaAssumption == Permits \in Nat

VARIABLES holders,    \* the scope's sorted set in Redis: permits
          spaced,     \* minIntervalMs have passed since the last grant
          commands,   \* Redis commands without a reader yet: [kind, permit, answer]
          queue,      \* queueTail of each process
          request,    \* call -> [stage, gone, asked, waits, limited, retries, next]
          expired,    \* permits whose lease ran out while their request was under way
          orphaning,  \* ghost: a Redis command was lost
          quotaBudget

quotaVars == <<holders, spaced, commands, queue, request, expired, orphaning, quotaBudget>>
redisVars == <<holders, spaced, expired>>

SpendQuota(what) == quotaBudget[what] > 0 /\ quotaBudget' = [quotaBudget EXCEPT ![what] = @ - 1]

QuotaInit ==
    /\ holders = {} /\ spaced = TRUE /\ commands = {} /\ expired = {} /\ orphaning = FALSE
    /\ queue = [p \in {ProcessOf[c] : c \in QuotaCalls} |-> <<>>]
    /\ quotaBudget \in QuotaBudgets
    /\ request = [c \in QuotaCalls |->
          [stage |-> IF c \in quotaBudget.calls THEN "idle" ELSE "done", gone |-> FALSE, asked |-> 0,
           waits |-> 0, limited |-> 0, retries |-> 0, next |-> "done"]]

Stage(c) == request[c].stage
Permit(c) == <<c, request[c].asked>>
Command(kind, permit) == [kind |-> kind, permit |-> permit, answer |-> "none"]
To(c, stage) == request' = [request EXCEPT ![c].stage = stage]
\* The queue goes on whatever became of its head.  Mutant: it ends with a call.
NextSlotWedged(c) == UNCHANGED queue
NextSlot(c) == queue' = [queue EXCEPT ![ProcessOf[c]] = Tail(@)]
AtHead(c) == queue[ProcessOf[c]] # <<>> /\ Head(queue[ProcessOf[c]]) = c

\* What follows a failed attempt: another one, through the queue again, or the end.
AfterFailure(c) ==
    IF request[c].gone \/ request[c].retries = quotaBudget.retries THEN "done" ELSE "idle"
Failed(r, stage) == [r EXCEPT !.stage = stage, !.retries = @ + 1, !.waits = 0, !.limited = 0]

----------------------------------------------------------------------------
(* Redis: ACQUIRE_SCRIPT, RELEASE_SCRIPT and time. *)


Answer(cmd, answer) == commands' = (commands \ {cmd}) \cup {[cmd EXCEPT !.answer = answer]}
\* Mutant: one permit too many.
AcquireScriptOneMore(cmd) ==
    /\ cmd.kind = "acquire" /\ cmd.answer = "none"
    /\ IF Cardinality(holders) <= Permits /\ spaced
       THEN holders' = holders \cup {cmd.permit} /\ spaced' = FALSE /\ Answer(cmd, "granted")
       ELSE Answer(cmd, "wait") /\ UNCHANGED <<holders, spaced>>
    /\ UNCHANGED <<queue, request, expired, orphaning, quotaBudget>>
AcquireScript(cmd) ==
    /\ cmd.kind = "acquire" /\ cmd.answer = "none"
    /\ IF Cardinality(holders) < Permits /\ spaced
       THEN holders' = holders \cup {cmd.permit} /\ spaced' = FALSE /\ Answer(cmd, "granted")
       ELSE Answer(cmd, "wait") /\ UNCHANGED <<holders, spaced>>
    /\ UNCHANGED <<queue, request, expired, orphaning, quotaBudget>>
ReleaseScript(cmd) ==
    /\ cmd.kind = "release"
    /\ holders' = holders \ {cmd.permit} /\ commands' = commands \ {cmd}
    /\ UNCHANGED <<spaced, queue, request, expired, orphaning, quotaBudget>>
IntervalPasses ==
    /\ ~spaced /\ spaced' = TRUE
    /\ UNCHANGED <<holders, commands, queue, request, expired, orphaning, quotaBudget>>
LeaseExpires(permit) ==
    /\ SpendQuota("expiries")
    /\ holders' = holders \ {permit} /\ expired' = expired \cup {permit}
    /\ UNCHANGED <<spaced, commands, queue, request, orphaning>>
\* The connection fails before the command runs, or before its answer comes back.
LoseCommand(cmd) ==
    /\ SpendQuota("losses") /\ orphaning' = TRUE
    /\ commands' = commands \ {cmd}
    /\ UNCHANGED <<redisVars, queue, request>>

----------------------------------------------------------------------------
(* The limiter and the gate's client. *)

\* fetchWithRetry: the next attempt, unless the pipeline was cancelled.
Schedule(c) ==
    /\ Stage(c) = "idle" /\ ~request[c].gone
    /\ To(c, "queued") /\ queue' = [queue EXCEPT ![ProcessOf[c]] = Append(@, c)]
    /\ UNCHANGED <<redisVars, commands, orphaning, quotaBudget>>

Ask(c, waits) ==
    /\ request' = [request EXCEPT ![c].stage = "asking", ![c].asked = @ + 1, ![c].waits = waits]
    /\ commands' = commands \cup {Command("acquire", <<c, request[c].asked + 1>>)}

\* runSlot, once the calls before it have ended.  Mutant: without looking at the signal.
StartSlotUnchecked(c) ==
    /\ Stage(c) = "queued" /\ AtHead(c) /\ Ask(c, 0)
    /\ UNCHANGED <<redisVars, queue, orphaning, quotaBudget>>
StartSlot(c) ==
    /\ Stage(c) = "queued" /\ AtHead(c)
    /\ IF request[c].gone
       THEN NextSlot(c) /\ To(c, "done") /\ UNCHANGED commands
       ELSE Ask(c, 0) /\ UNCHANGED queue
    /\ UNCHANGED <<redisVars, orphaning, quotaBudget>>
\* A wait ends: the backoff after a 429, or what the gate suggested.
\* Mutant: the retry is sent under the permit of the first attempt.
WakeResends(c) ==
    /\ Stage(c) \in {"sleeping", "backoff"}
    /\ IF Stage(c) = "backoff" THEN To(c, "inflight") /\ UNCHANGED commands ELSE Ask(c, request[c].waits)
    /\ UNCHANGED <<redisVars, queue, orphaning, quotaBudget>>
Wake(c) ==
    /\ Stage(c) \in {"sleeping", "backoff"}
    /\ Ask(c, IF Stage(c) = "backoff" THEN 0 ELSE request[c].waits)
    /\ UNCHANGED <<redisVars, queue, orphaning, quotaBudget>>

Mine(c, cmd) == Stage(c) = "asking" /\ cmd.kind = "acquire" /\ cmd.permit = Permit(c)
\* acquire: the request leaves at once, or the gate is asked again after the suggested
\* wait, while the wait budget lasts.
Acquired(c, cmd) ==
    /\ Mine(c, cmd) /\ cmd.answer # "none" /\ commands' = commands \ {cmd}
    /\ IF cmd.answer = "granted" THEN To(c, "inflight") /\ UNCHANGED queue
       ELSE IF request[c].waits < MaxWaits
       THEN request' = [request EXCEPT ![c].stage = "sleeping", ![c].waits = @ + 1] /\ UNCHANGED queue
       ELSE request' = [request EXCEPT ![c] = Failed(@, AfterFailure(c))] /\ NextSlot(c)
    /\ UNCHANGED <<redisVars, orphaning, quotaBudget>>
\* The command timed out or its connection failed: the client stops waiting.
AcquireFails(c) ==
    /\ Stage(c) = "asking"
    /\ IF \E cmd \in commands : Mine(c, cmd) THEN SpendQuota("lates") ELSE UNCHANGED quotaBudget
    /\ request' = [request EXCEPT ![c] = Failed(@, AfterFailure(c))] /\ NextSlot(c)
    /\ UNCHANGED <<redisVars, commands, orphaning>>
\* An answer nobody waits for: a granted permit is released again.
\* Mutant: it is dropped.
LateAnswerDropped(cmd) ==
    /\ cmd.kind = "acquire" /\ cmd.answer # "none" /\ ~\E c \in QuotaCalls : Mine(c, cmd)
    /\ commands' = commands \ {cmd}
    /\ UNCHANGED <<redisVars, queue, request, orphaning, quotaBudget>>
LateAnswer(cmd) ==
    /\ cmd.kind = "acquire" /\ cmd.answer # "none" /\ ~\E c \in QuotaCalls : Mine(c, cmd)
    /\ commands' = (commands \ {cmd}) \cup
           (IF cmd.answer = "granted" THEN {Command("release", cmd.permit)} ELSE {})
    /\ UNCHANGED <<redisVars, queue, request, orphaning, quotaBudget>>

Release(c) == commands' = commands \cup {Command("release", Permit(c))}

\* Mutant: the permit goes back with the headers.
FinalResponseReleases(c) ==
    /\ Stage(c) = "inflight" /\ To(c, "consuming") /\ NextSlot(c) /\ Release(c)
    /\ UNCHANGED <<redisVars, orphaning, quotaBudget>>
\* Headers arrive.  A final response keeps its permit until its body has been read;
\* a 429 and an error give it back before anything else happens.
FinalResponse(c) ==
    /\ Stage(c) = "inflight" /\ To(c, "consuming") /\ NextSlot(c)
    /\ UNCHANGED <<redisVars, commands, orphaning, quotaBudget>>
RateLimitedResponse(c) ==
    /\ Stage(c) = "inflight" /\ request[c].limited < LimiterRetries /\ SpendQuota("limits")
    /\ request' = [request EXCEPT ![c].stage = "returning", ![c].limited = @ + 1, ![c].next = "backoff"]
    /\ Release(c)
    /\ UNCHANGED <<redisVars, queue, orphaning>>
DispatchFails(c) ==
    /\ Stage(c) = "inflight" /\ SpendQuota("failures")
    /\ request' = [request EXCEPT ![c] = [Failed(@, "returning") EXCEPT !.next = AfterFailure(c)]]
    /\ Release(c)
    /\ UNCHANGED <<redisVars, queue, orphaning>>
\* afterAttempt: the body was read, or a retryable status' body discarded.
BodyConsumed(c) ==
    /\ Stage(c) = "consuming"
    /\ \/ request' = [request EXCEPT ![c].stage = "closing", ![c].next = "done"] /\ UNCHANGED quotaBudget
       \/ /\ SpendQuota("failures")
          /\ request' = [request EXCEPT ![c] = [Failed(@, "closing") EXCEPT !.next = AfterFailure(c)]]
    /\ Release(c)
    /\ UNCHANGED <<redisVars, queue, orphaning>>

Releasing(c) == Command("release", Permit(c)) \in commands
\* releaseBounded: waits for Redis, but not for ever.
PermitReleased(c) ==
    /\ Stage(c) \in {"returning", "closing"}
    /\ IF Releasing(c) THEN SpendQuota("lates") ELSE UNCHANGED quotaBudget
    /\ IF Stage(c) = "returning" /\ (request[c].next # "backoff" \/ request[c].gone)
       THEN NextSlot(c) ELSE UNCHANGED queue
    /\ To(c, IF request[c].gone THEN "done" ELSE request[c].next)
    /\ UNCHANGED <<redisVars, commands, orphaning>>

\* The pipeline is cancelled.  The caller is told at once; what the limiter has under
\* way for it ends by itself.
AbortInQueue(c) ==
    /\ ~request[c].gone /\ Stage(c) = "queued" /\ SpendQuota("aborts")
    /\ request' = [request EXCEPT ![c].gone = TRUE]
    /\ UNCHANGED <<redisVars, commands, queue, orphaning>>
AbortWaiting(c) ==
    /\ ~request[c].gone /\ Stage(c) \in {"idle", "asking", "sleeping", "backoff"} /\ SpendQuota("aborts")
    /\ request' = [request EXCEPT ![c].gone = TRUE, ![c].stage = "done"]
    /\ IF Stage(c) = "idle" THEN UNCHANGED queue ELSE NextSlot(c)
    /\ UNCHANGED <<redisVars, commands, orphaning>>
AbortUnderWay(c) ==
    /\ ~request[c].gone /\ Stage(c) \in {"inflight", "consuming"} /\ SpendQuota("aborts")
    /\ request' = [request EXCEPT ![c].gone = TRUE,
                      ![c].stage = IF @ = "inflight" THEN "returning" ELSE "closing", ![c].next = "done"]
    /\ Release(c)
    /\ UNCHANGED <<redisVars, queue, orphaning>>

----------------------------------------------------------------------------
CallStep(c) == \/ Schedule(c) \/ StartSlot(c) \/ Wake(c) \/ FinalResponse(c) \/ BodyConsumed(c)
               \/ \E cmd \in commands : Acquired(c, cmd)
Gives(c) == \/ AcquireFails(c) /\ ~\E cmd \in commands : Mine(c, cmd)
            \/ PermitReleased(c) /\ ~Releasing(c)
RedisStep == \/ IntervalPasses
             \/ \E cmd \in commands : AcquireScript(cmd) \/ ReleaseScript(cmd) \/ LateAnswer(cmd)
QuotaNext ==
    \/ RedisStep
    \/ \E cmd \in commands : LoseCommand(cmd)
    \/ \E permit \in holders : LeaseExpires(permit)
    \/ \E c \in QuotaCalls : \/ CallStep(c) \/ AcquireFails(c) \/ PermitReleased(c)
                             \/ RateLimitedResponse(c) \/ DispatchFails(c)
                             \/ AbortInQueue(c) \/ AbortWaiting(c) \/ AbortUnderWay(c)

\* Redis answers what it received, processes run; nothing makes a lease expire.
QuotaFairness ==
    /\ WF_quotaVars(RedisStep)
    /\ \A c \in QuotaCalls : WF_quotaVars(CallStep(c)) /\ WF_quotaVars(Gives(c))

QuotaSpec == QuotaInit /\ [][QuotaNext]_quotaVars /\ QuotaFairness

----------------------------------------------------------------------------
(* Properties. *)

UnderWay(c) == Stage(c) \in {"inflight", "consuming"}

\* Every request on its way, and every body being read, has a permit of its own behind
\* it - retries after a 429 included - unless its lease ran out.
RequestsArePermitted == \A c \in QuotaCalls : UnderWay(c) => Permit(c) \in holders \cup expired

\* All processes together never have more requests under way than the scope allows.
ConcurrencyRespected ==
    Cardinality({c \in QuotaCalls : UnderWay(c) /\ Permit(c) \notin expired}) <= Permits

\* A cancelled call is not sent any more, wherever the cancellation met it.
CancelledNeverSent ==
    [][\A c \in QuotaCalls : Stage(c) # "inflight" /\ request'[c].stage = "inflight" =>
          ~request[c].gone /\ Permit(c) \in holders \cup expired]_quotaVars

\* A permit comes back before its lease ends, also one that was granted to a client
\* that no longer waits, unless Redis could not be told.
Orphaned(c) == \E h \in holders : h[1] = c /\ ~(UnderWay(c) /\ h = Permit(c))
PermitsReturn == []<>(orphaning \/ \A c \in QuotaCalls : ~Orphaned(c))

\* No failed, cancelled or limited call blocks those queued behind it.
QueueDrains == []<>(\A c \in QuotaCalls : Stage(c) # "queued")

\* The processes keep to the permits, use them only for calls that are still wanted,
\* give them back, and get on.
QuotaIsShared ==
    /\ [](RequestsArePermitted /\ ConcurrencyRespected)
    /\ CancelledNeverSent
    /\ PermitsReturn
    /\ QueueDrains

=============================================================================
