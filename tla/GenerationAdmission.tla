-------------------------- MODULE GenerationAdmission --------------------------
(***************************************************************************)
(* Which generation requests of a user are let through: the rate limit of  *)
(* the route, the circuit all users share, and the two caps of the user.   *)
(* The limits count in Redis; the caps count GenerationRun rows, before    *)
(* the transaction that adds one (books/book-generation.service.ts).       *)
(***************************************************************************)
EXTENDS Integers, FiniteSets

CONSTANTS
    AdmissionBooks,     \* the user's books
    Handlers,           \* of {"generate", "retry", "regenerate"}
    Requests,           \* requests that can be under way at once
    MaxConcurrent,      \* MAX_CONCURRENT_GENERATIONS_PER_USER
    MaxPerWindow,       \* MAX_GENERATIONS_PER_USER_PER_WINDOW
    CircuitMax,         \* GLOBAL_GENERATION_CIRCUIT_MAX_PER_WINDOW
    RouteMax            \* GENERATION_RATE_LIMIT_MAX_ATTEMPTS

ASSUME AdmissionAssumption ==
    /\ Handlers \subseteq {"generate", "retry", "regenerate"}
    /\ \A limit \in {MaxConcurrent, MaxPerWindow, CircuitMax, RouteMax} : limit \in Nat \ {0}
    /\ IsFiniteSet(AdmissionBooks) /\ IsFiniteSet(Requests)

VARIABLES
    shelf,      \* Book.status of each book
    recent,     \* runs of the user created within the rolling window
    counters,   \* the fixed-window counters in Redis
    asks        \* the requests under way

admissionVars == <<shelf, recent, counters, asks>>

----------------------------------------------------------------------------
(* The counters *)

\* One budget per route handler and user, and the circuit.
CounterKeys == Handlers \cup {"circuit"}
LimitOf(k) == IF k = "circuit" THEN CircuitMax ELSE RouteMax
NoCounter == [count |-> 0, expires |-> FALSE]

\* CONSUME_SCRIPT: INCR, and PEXPIRE on the first hit of a window.  Counts beyond
\* the limit refuse alike and are not told apart.
\* Mutant: the expiry is set when the limit is reached.
Consumed_ExpiryAtLimit(k) ==
    LET count == counters[k].count + 1
    IN  [count |-> IF count > LimitOf(k) THEN LimitOf(k) + 1 ELSE count,
         expires |-> counters[k].expires \/ count > LimitOf(k)]
Consumed(k) ==
    LET count == counters[k].count + 1
    IN  [count |-> IF count > LimitOf(k) THEN LimitOf(k) + 1 ELSE count,
         expires |-> counters[k].expires \/ count = 1]

Consume(k) == counters' = [counters EXCEPT ![k] = Consumed(k)]
LetThrough(k) == counters'[k].count <= LimitOf(k)

KeyExpires(k) ==
    /\ counters[k].expires
    /\ counters' = [counters EXCEPT ![k] = NoCounter]
    /\ UNCHANGED <<shelf, recent, asks>>

----------------------------------------------------------------------------
(* A request: the guard of its route, the book, the circuit, the caps *)

NoAsk == [step |-> "none", book |-> "", handler |-> "", from |-> ""]
AskAt(q, step) == asks[q].step = step
AskGoes(q, step) == asks' = [asks EXCEPT ![q].step = step]
AskEnds(q) == asks' = [asks EXCEPT ![q] = NoAsk]

Ended == {"complete", "failed", "cancelled"}
StartsFrom(h) ==
    CASE h = "generate" -> {"created"}
      [] h = "retry" -> {"failed"}
      [] h = "regenerate" -> Ended

\* UserRateLimitGuard.  Refused too when Redis counts and does not answer.
Arrive(q, b, h) ==
    /\ AskAt(q, "none")
    /\ Consume(h)
    /\ \/ /\ LetThrough(h)
          /\ asks' = [asks EXCEPT ![q] = [step |-> "book", book |-> b, handler |-> h, from |-> ""]]
       \/ UNCHANGED asks
    /\ UNCHANGED <<shelf, recent>>

\* startGeneration, retryGeneration, regenerateBook: the book may be started from
\* the status it has now.
ReadBook(q) ==
    LET status == shelf[asks[q].book] IN
    /\ AskAt(q, "book")
    /\ \/ status \in StartsFrom(asks[q].handler)
          /\ asks' = [asks EXCEPT ![q].step = "circuit", ![q].from = status]
       \/ status \notin StartsFrom(asks[q].handler) /\ AskEnds(q)
    /\ UNCHANGED <<shelf, recent, counters>>

PassCircuit(q) ==
    /\ AskAt(q, "circuit")
    /\ Consume("circuit")
    /\ IF LetThrough("circuit") THEN AskGoes(q, "active") ELSE AskEnds(q)
    /\ UNCHANGED <<shelf, recent>>

\* Redis does not answer: the request is refused, counted or not.
CircuitFails(q) ==
    /\ AskAt(q, "circuit")
    /\ Consume("circuit") \/ UNCHANGED counters
    /\ AskEnds(q)
    /\ UNCHANGED <<shelf, recent>>

OthersAsk ==
    /\ counters["circuit"].count <= CircuitMax
    /\ Consume("circuit")
    /\ UNCHANGED <<shelf, recent, asks>>

Generating == {b \in AdmissionBooks : shelf[b] = "generating"}

\* countActiveForUser.  Mutant: the cap itself is let through.
BelowConcurrency_Inclusive == Cardinality(Generating) <= MaxConcurrent
BelowConcurrency == Cardinality(Generating) < MaxConcurrent

CountActive(q) ==
    /\ AskAt(q, "active")
    /\ IF BelowConcurrency THEN AskGoes(q, "window") ELSE AskEnds(q)
    /\ UNCHANGED <<shelf, recent, counters>>

\* countCreatedForUserSince.
CountWindow(q) ==
    /\ AskAt(q, "window")
    /\ IF recent < MaxPerWindow THEN AskGoes(q, "schedule") ELSE AskEnds(q)
    /\ UNCHANGED <<shelf, recent, counters>>

\* createRunAndSchedule: one transaction, on the status the request has read.
ScheduleRun(q) ==
    LET ask == asks[q] IN
    /\ AskAt(q, "schedule")
    /\ shelf[ask.book] = ask.from
    /\ shelf' = [shelf EXCEPT ![ask.book] = "generating"]
    /\ recent' = recent + 1
    /\ AskEnds(q)
    /\ UNCHANGED counters

\* A hard budget, the charge, another request's run, or the database refuses.
ScheduleRefused(q) ==
    /\ AskAt(q, "schedule")
    /\ AskEnds(q)
    /\ UNCHANGED <<shelf, recent, counters>>

----------------------------------------------------------------------------
(* The run ends; the rolling window moves on *)

RunEnds(b) ==
    /\ shelf[b] = "generating"
    /\ \E status \in Ended : shelf' = [shelf EXCEPT ![b] = status]
    /\ UNCHANGED <<recent, counters, asks>>

RunAges ==
    /\ recent > 0
    /\ recent' = recent - 1
    /\ UNCHANGED <<shelf, counters, asks>>

----------------------------------------------------------------------------
AdmissionInit ==
    /\ shelf \in [AdmissionBooks -> {"created"} \cup Ended]
    /\ recent = 0
    /\ counters = [k \in CounterKeys |-> NoCounter]
    /\ asks = [q \in Requests |-> NoAsk]

AdmissionNext ==
    \/ \E q \in Requests :
          \/ \E b \in AdmissionBooks, h \in Handlers : Arrive(q, b, h)
          \/ ReadBook(q) \/ PassCircuit(q) \/ CircuitFails(q) \/ CountActive(q) \/ CountWindow(q)
          \/ ScheduleRun(q) \/ ScheduleRefused(q)
    \/ OthersAsk \/ RunAges
    \/ \E b \in AdmissionBooks : RunEnds(b)
    \/ \E k \in CounterKeys : KeyExpires(k)

\* Redis expires its keys; nothing else is owed.
AdmissionFairness == \A k \in CounterKeys : WF_admissionVars(KeyExpires(k))

AdmissionSpec == AdmissionInit /\ [][AdmissionNext]_admissionVars /\ AdmissionFairness

----------------------------------------------------------------------------
(* Properties *)

\* The caps are counted outside the transaction that schedules
\* (book-generation.service.ts:370 and 380), so requests that overlap pass them
\* together; but never by more than the requests that overlap, and a user who asks
\* one at a time never passes a cap.
OverlapBoundsTheCaps ==
    LET past(steps) == Cardinality({q \in Requests : asks[q].step \in steps})
    IN  /\ Cardinality(Generating) + past({"window", "schedule"})
               <= MaxConcurrent + Cardinality(Requests) - 1
        /\ recent + past({"schedule"}) <= MaxPerWindow + Cardinality(Requests) - 1

\* However often refused requests are repeated, a limit opens again: a counter
\* never outlives its window (redis-rate-limiter.service.ts CONSUME_SCRIPT).
WindowsReopen ==
    \A k \in CounterKeys : []<>(counters[k].count = 0)

\* The limits hold as far as overlapping requests let them, and open again.
LimitsHold ==
    []OverlapBoundsTheCaps /\ WindowsReopen

=============================================================================
