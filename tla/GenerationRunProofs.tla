------------------------- MODULE GenerationRunProofs -------------------------
(***************************************************************************)
(* Proofs about GenerationRun, for every number of runs, books, workers,   *)
(* dispatchers, recovery passes and faults: the rows of runs and books,    *)
(* the contract, and on the invariant of the rows what claims store and    *)
(* publish, which queued runs a worker can still reach, and who is never   *)
(* failed from under its feet.                                             *)
(***************************************************************************)
EXTENDS GenerationRun, FiniteSetTheorems, TLAPS

-----------------------------------------------------------------------------
(* Types *)

\* The database part of the type invariant, and the part that lives in memory,
\* Redis and storage.
DbTypeOK ==
    /\ runStatus \in [Runs -> RunStatuses]
    /\ runBook \in [Runs -> Books]
    /\ fence \in [Runs -> Nat]
    /\ deliveryToken \in [Runs -> Nat]
    /\ leaseLive \in [Runs -> BOOLEAN]
    /\ queueExpired \in [Runs -> BOOLEAN]
    /\ bookStatus \in [Books -> BookStatuses]
    /\ activeRun \in [Books -> Runs \cup {NoRun}]
    /\ published \in [Books -> Edition \cup {NoEdition}]
    /\ deletion \in [Books -> {"none", "removed", "requested"}]
    /\ outbox \in [Runs -> {"none", "pending", "dispatched", "cancelled"}]
    /\ ledger \subseteq LedgerKeys
    /\ credits \in Nat

WorkerTypeOK ==
    /\ worker \in [Workers -> WorkerStates]
    /\ \A w \in Workers : worker[w].step = "idle" \/ worker[w].run \in Runs

SweeperTypeOK ==
    /\ sweeper \in [Sweepers -> SweeperStates]
    /\ \A s \in Sweepers : sweeper[s].step = "idle" \/ sweeper[s].run \in Runs

OtherTypeOK ==
    /\ job \in [Runs -> Jobs]
    /\ pdfs \subseteq [at: Edition, by: Edition]
    /\ dispatcher \in [Dispatchers -> DispatcherStates]
    /\ removals \subseteq Runs
    /\ faults \in [locks: Nat, jobs: Nat, dispatches: Nat, deletions: Nat]

LEMMA TypeParts == TypeOK <=> DbTypeOK /\ WorkerTypeOK /\ SweeperTypeOK /\ OtherTypeOK
BY DEF TypeOK, DbTypeOK, WorkerTypeOK, SweeperTypeOK, OtherTypeOK

LEMMA DbTypeUnchanged == ASSUME DbTypeOK, UNCHANGED dbVars PROVE DbTypeOK'
BY DEF DbTypeOK, dbVars, runVars, bookVars, moneyVars

LEMMA ReimburseType ==
    ASSUME DbTypeOK, NEW rs \in SUBSET Runs,
           NEW kind \in {"charge", "refund", "cancel_refund"}, Reimburse(rs, kind)
    PROVE  ledger' \subseteq LedgerKeys /\ credits' \in Nat
<1> DEFINE charged == {r \in rs : Charged(r)}
<1>1. IsFiniteSet(charged)
  BY FS_Subset, GenerationRunAssumption
<1>2. Cardinality(charged) \in Nat
  BY <1>1, FS_CardinalityType
<1>3. /\ ledger' = ledger \cup [kind: {kind}, run: charged]
      /\ credits' = credits + Cardinality(charged)
  BY DEF Reimburse
<1> QED
  BY <1>2, <1>3 DEF LedgerKeys, DbTypeOK

LEMMA FailRunType ==
    ASSUME DbTypeOK, NEW r \in Runs, FailRun(r)
    PROVE  DbTypeOK'
<1>1. ledger' \subseteq LedgerKeys /\ credits' \in Nat
  BY ReimburseType DEF FailRun
<1> QED
  BY <1>1, GenerationRunAssumption
  DEF FailRun, EndRun, DbTypeOK, RunStatuses, Ended, BookStatuses, Startable

LEMMA FailAbandonedType ==
    ASSUME DbTypeOK, NEW r \in Runs, NEW status, NEW f, FailAbandoned(r, status, f)
    PROVE  DbTypeOK'
BY FailRunType, DbTypeUnchanged DEF FailAbandoned

LEMMA PublishRunType ==
    ASSUME DbTypeOK, NEW r \in Runs, NEW f \in Nat, PublishRun(r, f)
    PROVE  DbTypeOK'
BY GenerationRunAssumption
DEF PublishRun, EndRun, DbTypeOK, RunStatuses, Ended, BookStatuses, Startable,
    Edition, moneyVars

LEMMA CancelRunsType ==
    ASSUME DbTypeOK, OtherTypeOK, NEW rs \in SUBSET Runs, CancelRuns(rs)
    PROVE  /\ runStatus' \in [Runs -> RunStatuses]
           /\ fence' \in [Runs -> Nat]
           /\ outbox' \in [Runs -> {"none", "pending", "dispatched", "cancelled"}]
           /\ ledger' \subseteq LedgerKeys
           /\ credits' \in Nat
           /\ removals' \subseteq Runs
<1>1. ledger' \subseteq LedgerKeys /\ credits' \in Nat
  BY ReimburseType DEF CancelRuns
<1> QED
  BY <1>1 DEF CancelRuns, DbTypeOK, OtherTypeOK, RunStatuses, Ended

LEMMA OwnerDbType ==
    ASSUME DbTypeOK, OtherTypeOK, OwnerNext
    PROVE  DbTypeOK'
<1>1. ASSUME NEW b \in Books, NEW r \in Runs, NEW from, CreateRunAndSchedule(b, r, from)
      PROVE  DbTypeOK'
  BY <1>1
  DEF CreateRunAndSchedule, DbTypeOK, RunStatuses, Active, BookStatuses, Key, LedgerKeys
<1>2. ASSUME NEW b \in Books, CancelGeneration(b) PROVE DbTypeOK'
  <2>1. activeRun[b] \in Runs /\ CancelRuns({activeRun[b]})
    BY <1>2 DEF CancelGeneration, DbTypeOK
  <2> QED
    BY <1>2, <2>1, CancelRunsType
    DEF CancelGeneration, DbTypeOK, BookStatuses, Startable
<1>3. ASSUME NEW b \in Books, RemoveBook(b) PROVE DbTypeOK'
  BY <1>3 DEF RemoveBook, DbTypeOK, runVars, moneyVars
<1>4. ASSUME NEW b \in Books, RequestHardDeletion(b) PROVE DbTypeOK'
  BY <1>4, CancelRunsType DEF RequestHardDeletion, DbTypeOK
<1>5. ASSUME NEW r \in Runs, RemoveIfSafe(r) \/ RemovalLost(r) PROVE DbTypeOK'
  BY <1>5, DbTypeUnchanged DEF RemoveIfSafe, RemovalLost
<1> QED
  BY <1>1, <1>2, <1>3, <1>4, <1>5
  DEF OwnerNext, StartGeneration, RetryGeneration, RegenerateBook

\* The worker steps that write database rows.
LEMMA WorkerDbType ==
    ASSUME DbTypeOK, WorkerTypeOK, NEW w \in Workers,
           WorkerStep(w) \/ WorkerTimers(w) \/ WorkerCrash(w)
    PROVE  DbTypeOK'
<1>1. worker[w].step # "idle" => worker[w].run \in Runs /\ worker[w].fence \in Nat
                                  /\ worker[w].token \in Nat
  BY DEF WorkerTypeOK, WorkerStates
<1>2. CASE Claim(w)
  BY <1>1, <1>2 DEF Claim, At, DbTypeOK, RunStatuses, Active, bookVars, moneyVars
<1>3. CASE FailInvalidSnapshot(w)
  BY <1>1, <1>3, FailAbandonedType DEF FailInvalidSnapshot, At
<1>4. CASE CompleteRun(w)
  BY <1>1, <1>4, PublishRunType, FailRunType, DbTypeUnchanged DEF CompleteRun, At
<1>5. CASE FailDeadline(w)
  BY <1>1, <1>5, FailAbandonedType DEF FailDeadline, At
<1>6. CASE FailExhausted(w)
  BY <1>1, <1>6, FailAbandonedType DEF FailExhausted, At
<1>7. CASE Heartbeat(w)
  BY <1>1, <1>7 DEF Heartbeat, DbTypeOK, bookVars, moneyVars
<1>8. CASE UNCHANGED dbVars
  BY <1>8, DbTypeUnchanged
<1> QED
  BY <1>2, <1>3, <1>4, <1>5, <1>6, <1>7, <1>8
  DEF WorkerStep, WorkerTimers, PickUp, ClaimRefused, StartPipeline, PipelineStopped,
      DeliveryThrows, StoryFails, EnterRender, StorePdf, RenderFails, CollectOutcome,
      Settle, JobCompletes, JobFails, ReadExhausted, HeartbeatRejected,
      HeartbeatError, DeadlineFires, WorkerCrash

LEMMA OtherDbType ==
    ASSUME DbTypeOK, OtherTypeOK, SweeperTypeOK,
           DispatcherNext \/ QueueNext \/ ClockNext \/ SweeperNext
    PROVE  DbTypeOK'
<1>1. CASE DispatcherNext
  <2>1. ASSUME NEW d \in Dispatchers, MarkDispatched(d) PROVE DbTypeOK'
    BY <2>1 DEF MarkDispatched, DbTypeOK, OtherTypeOK, DispatcherStates, runVars,
                bookVars, moneyVars
  <2> QED
    BY <1>1, <2>1, DbTypeUnchanged
    DEF DispatcherNext, FindPending, Enqueue, DispatchFails, DispatcherCrash
<1>2. CASE QueueNext
  BY <1>2, DbTypeUnchanged DEF QueueNext, StallOrphan, StallLive, Stall, JobLost
<1>3. CASE ClockNext
  BY <1>3 DEF ClockNext, Clock, LeaseExpires, QueueWaitExpires, DbTypeOK, bookVars,
              moneyVars
<1>4. CASE SweeperNext
  BY <1>4, DbTypeUnchanged, FailAbandonedType
  DEF SweeperNext, SweepStep, SelectCandidate, CheckPending, Recover, SweepStops,
      SweeperTypeOK
<1> QED
  BY <1>1, <1>2, <1>3, <1>4

LEMMA WorkerTypeStep ==
    ASSUME DbTypeOK, WorkerTypeOK, OtherTypeOK, NEW w \in Workers,
           WorkerStep(w) \/ WorkerTimers(w) \/ WorkerCrash(w)
    PROVE  WorkerTypeOK' /\ OtherTypeOK'
<1>1. worker[w] \in WorkerStates
  BY DEF WorkerTypeOK
<1>2. IdleWorker \in WorkerStates
  BY DEF IdleWorker, WorkerStates, WorkerSteps
<1>3. ASSUME NEW step \in WorkerSteps, Goto(w, step), worker[w].run \in Runs
      PROVE  WorkerTypeOK'
  BY <1>1, <1>3 DEF Goto, Leaving, IdleWorker, WorkerTypeOK, WorkerStates, WorkerSteps
<1>4. ASSUME NEW reason \in AbortReasons, AbortWith(w, reason), worker[w].run \in Runs
      PROVE  WorkerTypeOK'
  BY <1>1, <1>4 DEF AbortWith, WorkerTypeOK, WorkerStates, WorkerSteps
<1>5. worker[w].step # "idle" => worker[w].run \in Runs
  BY DEF WorkerTypeOK
<1>6. ASSUME worker' = [worker EXCEPT ![w] = IdleWorker] PROVE WorkerTypeOK'
  BY <1>2, <1>6 DEF WorkerTypeOK, IdleWorker
<1>10. ASSUME NEW r \in Runs, PickUp(w, r) PROVE WorkerTypeOK' /\ OtherTypeOK'
  <2>1. job[r] \in Jobs
    BY DEF OtherTypeOK
  <2> QED
    BY <1>10, <1>2, <2>1
    DEF PickUp, WorkerTypeOK, OtherTypeOK, IdleWorker, WorkerStates, WorkerSteps, Jobs,
        JobStates
<1>11. CASE Claim(w)
  <2>1. fence[worker[w].run] + 1 \in Nat
    BY <1>5, <1>11 DEF Claim, At, DbTypeOK
  <2> QED
    BY <1>1, <1>5, <1>11, <2>1
    DEF Claim, At, WorkerTypeOK, OtherTypeOK, WorkerStates, WorkerSteps
<1>12. CASE StorePdf(w)
  <2>1. WorkerTypeOK'
    BY <1>1, <1>5, <1>12 DEF StorePdf, At, WorkerTypeOK, WorkerStates, WorkerSteps
  <2>2. worker[w].run \in Runs /\ worker[w].fence \in Nat
    BY <1>1, <1>5, <1>12 DEF StorePdf, At, WorkerStates
  <2>3. [run |-> worker[w].run, fence |-> worker[w].fence] \in Edition
    BY <2>2 DEF Edition
  <2>4. pdfs' \subseteq [at: Edition, by: Edition]
    BY <1>12, <2>3 DEF StorePdf, PdfNamespace, OtherTypeOK
  <2> QED
    BY <1>12, <2>1, <2>4 DEF StorePdf, OtherTypeOK
<1>13. CASE StoryFails(w) \/ RenderFails(w)
  BY <1>1, <1>5, <1>13
  DEF StoryFails, RenderFails, At, WorkerTypeOK, OtherTypeOK, WorkerStates, WorkerSteps
<1>14. CASE JobCompletes(w)
  BY <1>5, <1>6, <1>14 DEF JobCompletes, At, OtherTypeOK, Jobs, JobStates
<1>15. CASE JobFails(w)
  <2>1. worker[w].run \in Runs /\ job[worker[w].run] \in Jobs
    BY <1>5, <1>15 DEF JobFails, At, OtherTypeOK
  <2>2. OtherTypeOK'
    BY <1>15, <2>1 DEF JobFails, OtherTypeOK, Jobs, JobStates
  <2> DEFINE spent == Leaving(worker[w], "exhausted")
  <2>3. spent \in WorkerStates /\ spent.run \in Runs
    BY <1>1, <2>1 DEF Leaving, IdleWorker, WorkerStates, WorkerSteps
  <2>4. worker' = [worker EXCEPT ![w] = spent] \/ worker' = [worker EXCEPT ![w] = IdleWorker]
    BY <1>15 DEF JobFails
  <2>5. ASSUME worker' = [worker EXCEPT ![w] = spent] PROVE WorkerTypeOK'
    <3> HIDE DEF spent
    <3> QED
      BY <2>3, <2>5 DEF WorkerTypeOK
  <2>6. WorkerTypeOK'
    BY <1>6, <2>4, <2>5
  <2> QED
    BY <2>2, <2>6
<1>16. CASE ReadExhausted(w)
  <2>1. fence[worker[w].run] \in Nat
    BY <1>5, <1>16 DEF ReadExhausted, At, DbTypeOK
  <2> QED
    BY <1>1, <1>2, <1>5, <1>16, <2>1
    DEF ReadExhausted, At, WorkerTypeOK, OtherTypeOK, IdleWorker, WorkerStates,
        WorkerSteps
<1>17. CASE FailExhausted(w)
  BY <1>6, <1>17 DEF FailExhausted, OtherTypeOK
<1>18. CASE WorkerCrash(w)
  BY <1>6, <1>18 DEF WorkerCrash, Spend, OtherTypeOK
<1>19. CASE Heartbeat(w)
  BY <1>19 DEF Heartbeat, WorkerTypeOK, OtherTypeOK
<1>20. CASE HeartbeatRejected(w) \/ HeartbeatError(w) \/ DeadlineFires(w)
  BY <1>4, <1>5, <1>20
  DEF HeartbeatRejected, HeartbeatError, DeadlineFires, Beating, AbortReasons,
      OtherTypeOK
<1>21. ASSUME worker[w].step # "idle", \E step \in WorkerSteps : Goto(w, step),
              UNCHANGED <<job, pdfs, dispatcher, removals, faults>>
       PROVE  WorkerTypeOK' /\ OtherTypeOK'
  BY <1>3, <1>5, <1>21 DEF OtherTypeOK
<1>22. CASE ClaimRefused(w) \/ StartPipeline(w) \/ EnterRender(w) \/ CollectOutcome(w)
            \/ PipelineStopped(w) \/ DeliveryThrows(w) \/ Settle(w)
  BY <1>21, <1>22
  DEF ClaimRefused, StartPipeline, EnterRender, CollectOutcome, PipelineStopped,
      DeliveryThrows, Settle, At, Beating, WorkerSteps
<1>23. CASE FailInvalidSnapshot(w) \/ FailDeadline(w) \/ CompleteRun(w)
  BY <1>21, <1>23
  DEF FailInvalidSnapshot, FailDeadline, CompleteRun, AfterFinalize, At, WorkerSteps
<1> QED
  BY <1>10, <1>11, <1>12, <1>13, <1>14, <1>15, <1>16, <1>17, <1>18, <1>19, <1>20,
     <1>22, <1>23
  DEF WorkerStep, WorkerTimers

LEMMA OtherTypeStep ==
    ASSUME DbTypeOK, WorkerTypeOK, SweeperTypeOK, OtherTypeOK,
           OwnerNext \/ DispatcherNext \/ QueueNext \/ ClockNext \/ SweeperNext
    PROVE  WorkerTypeOK' /\ SweeperTypeOK' /\ OtherTypeOK'
<1>1. CASE OwnerNext
  <2>1. ASSUME NEW b \in Books, CancelGeneration(b) PROVE removals' \subseteq Runs
    <3>1. activeRun[b] \in Runs
      BY <2>1 DEF CancelGeneration, DbTypeOK
    <3> QED
      BY <2>1, <3>1, CancelRunsType DEF CancelGeneration
  <2>2. ASSUME NEW b \in Books, RequestHardDeletion(b) PROVE removals' \subseteq Runs
    BY <2>2, CancelRunsType DEF RequestHardDeletion
  <2>3. UNCHANGED worker /\ UNCHANGED sweeper
    BY <1>1, ZenonT(60)
    DEF OwnerNext, StartGeneration, RetryGeneration, RegenerateBook,
        CreateRunAndSchedule, CancelGeneration, RemoveBook, RequestHardDeletion,
        RemoveIfSafe, RemovalLost
  <2>4. ASSUME NEW r \in Runs, RemoveIfSafe(r) PROVE OtherTypeOK'
    <3>1. job[r] \in Jobs /\ NoJob(job[r].token) \in Jobs
      BY DEF OtherTypeOK, NoJob, Jobs, JobStates
    <3> QED
      BY <2>4, <3>1 DEF RemoveIfSafe, OtherTypeOK
  <2>5. ASSUME NEW b \in Books, RemoveBook(b) \/ RequestHardDeletion(b)
        PROVE  faults' \in [locks: Nat, jobs: Nat, dispatches: Nat, deletions: Nat]
    BY <2>5 DEF RemoveBook, RequestHardDeletion, Spend, OtherTypeOK
  <2>6. ASSUME NEW b \in Books, CancelGeneration(b) PROVE OtherTypeOK'
    BY <2>1, <2>6 DEF CancelGeneration, OtherTypeOK
  <2>7. ASSUME NEW b \in Books, RequestHardDeletion(b) PROVE OtherTypeOK'
    BY <2>2, <2>5, <2>7 DEF RequestHardDeletion, OtherTypeOK
  <2>8. ASSUME NEW b \in Books, RemoveBook(b) PROVE OtherTypeOK'
    BY <2>5, <2>8 DEF RemoveBook, OtherTypeOK
  <2>9. ASSUME NEW b \in Books, NEW r \in Runs, NEW from, CreateRunAndSchedule(b, r, from)
        PROVE  OtherTypeOK'
    BY <2>9 DEF CreateRunAndSchedule, OtherTypeOK
  <2>10. ASSUME NEW r \in Runs, RemovalLost(r) PROVE OtherTypeOK'
    BY <2>10 DEF RemovalLost, OtherTypeOK
  <2>11. OtherTypeOK'
    BY <1>1, <2>4, <2>6, <2>7, <2>8, <2>9, <2>10
    DEF OwnerNext, StartGeneration, RetryGeneration, RegenerateBook
  <2> QED
    BY <2>3, <2>11 DEF WorkerTypeOK, SweeperTypeOK
<1>2. CASE DispatcherNext
  <2>1. PICK d \in Dispatchers :
          \/ FindPending(d)
          \/ \E r \in Runs : Enqueue(d, r) \/ DispatchFails(d, r)
          \/ MarkDispatched(d)
          \/ DispatcherCrash(d)
    BY <1>2 DEF DispatcherNext
  <2>2. UNCHANGED <<worker, sweeper, pdfs, removals>>
    BY <2>1 DEF FindPending, Enqueue, MarkDispatched, DispatchFails, DispatcherCrash
  <2>3. job' \in [Runs -> Jobs]
    BY <2>1
    DEF FindPending, Enqueue, MarkDispatched, DispatchFails, DispatcherCrash,
        OtherTypeOK, Jobs, JobStates
  <2>4. dispatcher[d] \in DispatcherStates
    BY DEF OtherTypeOK
  <2>5. dispatcher' \in [Dispatchers -> DispatcherStates]
    <3>1. CASE FindPending(d)
      BY <3>1 DEF FindPending, OtherTypeOK, DispatcherStates
    <3>2. CASE \E r \in Runs : Enqueue(d, r)
      BY <3>2, <2>4 DEF Enqueue, OtherTypeOK, DispatcherStates
    <3>3. CASE MarkDispatched(d) \/ DispatcherCrash(d) \/ \E r \in Runs : DispatchFails(d, r)
      BY <3>3, <2>4
      DEF MarkDispatched, DispatchFails, DispatcherCrash, OtherTypeOK,
          DispatcherStates, IdleDispatcher
    <3> QED
      BY <2>1, <3>1, <3>2, <3>3
  <2>6. faults' \in [locks: Nat, jobs: Nat, dispatches: Nat, deletions: Nat]
    BY <2>1
    DEF FindPending, Enqueue, MarkDispatched, DispatchFails, DispatcherCrash, Spend,
        OtherTypeOK
  <2> QED
    BY <2>2, <2>3, <2>5, <2>6 DEF WorkerTypeOK, SweeperTypeOK, OtherTypeOK
<1>3. CASE QueueNext
  <2>1. PICK r \in Runs : \/ Stall(r) /\ (UNCHANGED faults \/ Spend("locks", LockLosses))
                          \/ JobLost(r)
    BY <1>3 DEF QueueNext, StallOrphan, StallLive
  <2>2. job[r] \in Jobs
    BY DEF OtherTypeOK
  <2>3. StalledJob(job[r]) \in Jobs /\ NoJob(job[r].token) \in Jobs
    <3>1. [[job[r] EXCEPT !.state = "waiting"] EXCEPT !.stalls = job[r].stalls + 1] \in Jobs
      <4>1. \A j \in Jobs, n \in Nat : [j EXCEPT !.stalls = n] \in Jobs
        BY DEF Jobs
      <4>2. [job[r] EXCEPT !.state = "waiting"] \in Jobs
        BY <2>2 DEF Jobs, JobStates
      <4>3. job[r].stalls + 1 \in Nat
        BY <2>2 DEF Jobs
      <4> QED
        BY <4>1, <4>2, <4>3
    <3>2. [job[r] EXCEPT !.state = "failed"] \in Jobs
      BY <2>2 DEF Jobs, JobStates
    <3>3. NoJob(job[r].token) \in Jobs
      BY <2>2 DEF NoJob, Jobs, JobStates
    <3> QED
      BY <3>1, <3>2, <3>3 DEF StalledJob
  <2>4. faults' \in [locks: Nat, jobs: Nat, dispatches: Nat, deletions: Nat]
    BY <2>1 DEF JobLost, Spend, OtherTypeOK
  <2>5. job' \in [Runs -> Jobs]
    BY <2>1, <2>3 DEF Stall, JobLost, OtherTypeOK
  <2> QED
    BY <2>1, <2>4, <2>5 DEF Stall, JobLost, WorkerTypeOK, SweeperTypeOK, OtherTypeOK
<1>4. CASE ClockNext
  BY <1>4
  DEF ClockNext, Clock, LeaseExpires, QueueWaitExpires, WorkerTypeOK, SweeperTypeOK,
      OtherTypeOK
<1>5. CASE SweeperNext
  <2>1. PICK s \in Sweepers : SweepStep(s) \/ SweepStops(s)
    BY <1>5 DEF SweeperNext
  <2>2. UNCHANGED <<worker, job, pdfs, dispatcher, removals, faults>>
    BY <2>1 DEF SweepStep, SelectCandidate, CheckPending, Recover, SweepStops
  <2>3. IdleSweeper \in SweeperStates /\ IdleSweeper.step = "idle"
    BY DEF IdleSweeper, SweeperStates, Active
  <2>4. ASSUME sweeper' = [sweeper EXCEPT ![s] = IdleSweeper] PROVE SweeperTypeOK'
    BY <2>4 DEF SweeperTypeOK, SweeperStates, IdleSweeper, Active
  <2>5. ASSUME NEW r \in Runs, SelectCandidate(s, r) PROVE SweeperTypeOK'
    <3>1. runStatus[r] \in Active /\ fence[r] \in Nat
      BY <2>5 DEF SelectCandidate, LooksAbandoned, DbTypeOK, Active
    <3> QED
      BY <2>5, <3>1 DEF SelectCandidate, SweeperTypeOK, SweeperStates
  <2>6. ASSUME CheckPending(s) PROVE SweeperTypeOK'
    <3>1. sweeper[s] \in SweeperStates /\ sweeper[s].run \in Runs
      BY <2>6 DEF CheckPending, SweeperTypeOK
    <3>2. CASE sweeper' = [sweeper EXCEPT ![s].step = "fail"]
      BY <3>1, <3>2 DEF SweeperTypeOK, SweeperStates
    <3> QED
      BY <2>4, <2>6, <3>2 DEF CheckPending
  <2>7. SweeperTypeOK'
    BY <2>1, <2>4, <2>5, <2>6 DEF SweepStep, Recover, SweepStops
  <2> QED
    BY <2>2, <2>7 DEF WorkerTypeOK, OtherTypeOK
<1> QED
  BY <1>1, <1>2, <1>3, <1>4, <1>5

LEMMA WorkerKeepsSweepers ==
    ASSUME SweeperTypeOK, WorkerNext PROVE SweeperTypeOK'
BY ZenonT(60) DEF WorkerNext, WorkerStep, WorkerTimers, PickUp, Claim, ClaimRefused,
       StartPipeline, FailInvalidSnapshot, PipelineStopped, DeliveryThrows, StoryFails,
       EnterRender, StorePdf, RenderFails, CollectOutcome, CompleteRun, Settle,
       FailDeadline, JobCompletes, JobFails, ReadExhausted, FailExhausted, Heartbeat,
       HeartbeatRejected, HeartbeatError, DeadlineFires, WorkerCrash, SweeperTypeOK

LEMMA TypeInit == Init => TypeOK
BY GenerationRunAssumption
DEF Init, TypeOK, RunStatuses, BookStatuses, Startable, NoJob, Jobs, JobStates,
    IdleWorker, WorkerStates, WorkerSteps, IdleDispatcher, DispatcherStates,
    IdleSweeper, SweeperStates, Active

LEMMA TypeStep == TypeOK /\ [Next]_vars => TypeOK'
<1> SUFFICES ASSUME TypeOK, [Next]_vars PROVE TypeOK'
  OBVIOUS
<1>1. DbTypeOK /\ WorkerTypeOK /\ SweeperTypeOK /\ OtherTypeOK
  BY TypeParts
<1>2. CASE OwnerNext
  BY <1>1, <1>2, OwnerDbType, OtherTypeStep, TypeParts DEF TypeOK, DbTypeOK,
     WorkerTypeOK, SweeperTypeOK, OtherTypeOK
<1>3. CASE WorkerNext
  <2>1. DbTypeOK' /\ WorkerTypeOK' /\ OtherTypeOK'
    BY <1>1, <1>3, WorkerDbType, WorkerTypeStep DEF WorkerNext
  <2> QED
    BY <1>1, <1>3, <2>1, WorkerKeepsSweepers DEF TypeOK, DbTypeOK, WorkerTypeOK,
       SweeperTypeOK, OtherTypeOK
<1>4. CASE DispatcherNext \/ QueueNext \/ ClockNext \/ SweeperNext
  BY <1>1, <1>4, OtherDbType, OtherTypeStep DEF TypeOK, DbTypeOK, WorkerTypeOK,
     SweeperTypeOK, OtherTypeOK
<1>5. CASE UNCHANGED vars
  BY <1>5 DEF vars, dbVars, runVars, bookVars, moneyVars, TypeOK
<1> QED
  BY <1>2, <1>3, <1>4, <1>5 DEF Next

\* Every variable keeps its type, a worker or recovery pass that is at work has
\* a run, and the owner's balance never goes below zero.
THEOREM TypeCorrect == Spec => []TypeOK
<1> QED
  BY TypeInit, TypeStep, PTL DEF Spec

-----------------------------------------------------------------------------
(* Rows, mirror and ledger *)

\* A deleted book has no active run: what lets a deletion leave the rest of the
\* mirror invariant to the runs it cancels.
DeletedIsIdle == \A r \in Runs : runStatus[r] \in Active => deletion[runBook[r]] = "none"

RowInv == TypeOK /\ MirrorConsistent /\ DeletedIsIdle /\ LedgerMatchesRuns

rowVars == <<runStatus, runBook, bookStatus, activeRun, deletion, ledger>>

LEMMA RowInvUnchanged ==
    ASSUME RowInv, TypeOK', UNCHANGED rowVars
    PROVE  RowInv'
BY DEF RowInv, rowVars, MirrorConsistent, DeletedIsIdle, LedgerMatchesRuns, Charged

LEMMA RowInvFail ==
    ASSUME RowInv, TypeOK', NEW r \in Runs, runStatus[r] \in Active, FailRun(r)
    PROVE  RowInv'
<1>1. runBook[r] \in Books /\ activeRun[runBook[r]] = r
  BY DEF RowInv, MirrorConsistent, TypeOK
<1>2. /\ runStatus' = [runStatus EXCEPT ![r] = "failed"]
      /\ bookStatus' = [bookStatus EXCEPT ![runBook[r]] = "failed"]
      /\ activeRun' = [activeRun EXCEPT ![runBook[r]] = NoRun]
      /\ UNCHANGED <<runBook, deletion>>
  BY DEF FailRun, EndRun
<1>3. MirrorConsistent'
  BY <1>1, <1>2 DEF RowInv, MirrorConsistent, TypeOK, Active
<1>4. DeletedIsIdle'
  BY <1>2 DEF RowInv, DeletedIsIdle, TypeOK, Active
<1>5. ledger' = ledger \cup [kind: {"refund"}, run: {q \in {r} : Charged(q)}]
  BY DEF FailRun, Reimburse
<1>6. \A q \in Runs, kind \in {"charge", "refund", "cancel_refund"} :
         Key(kind, q) \in ledger' <=>
            Key(kind, q) \in ledger \/ (kind = "refund" /\ q = r /\ Charged(r))
  BY <1>5 DEF Key
<1>7. LedgerMatchesRuns'
  BY <1>2, <1>6 DEF RowInv, LedgerMatchesRuns, Charged, Active, TypeOK
<1> QED
  BY <1>3, <1>4, <1>7 DEF RowInv

LEMMA RowInvFailAbandoned ==
    ASSUME RowInv, TypeOK', NEW r \in Runs, NEW status \in Active, NEW f,
           FailAbandoned(r, status, f)
    PROVE  RowInv'
<1>1. CASE TerminalOutcome(r, status, f, TRUE) = "applied"
  <2>1. runStatus[r] \in Active
    BY <1>1 DEF TerminalOutcome
  <2> QED
    BY <1>1, <2>1, RowInvFail DEF FailAbandoned
<1>2. CASE TerminalOutcome(r, status, f, TRUE) # "applied"
  BY <1>2, RowInvUnchanged
  DEF FailAbandoned, rowVars, dbVars, runVars, bookVars, moneyVars
<1> QED
  BY <1>1, <1>2

LEMMA RowInvPublish ==
    ASSUME RowInv, TypeOK', NEW r \in Runs, NEW f, runStatus[r] \in Active,
           PublishRun(r, f)
    PROVE  RowInv'
<1>1. runBook[r] \in Books /\ activeRun[runBook[r]] = r
  BY DEF RowInv, MirrorConsistent, TypeOK
<1>2. /\ runStatus' = [runStatus EXCEPT ![r] = "completed"]
      /\ bookStatus' = [bookStatus EXCEPT ![runBook[r]] = "complete"]
      /\ activeRun' = [activeRun EXCEPT ![runBook[r]] = NoRun]
      /\ UNCHANGED <<runBook, deletion, ledger>>
  BY DEF PublishRun, EndRun, moneyVars
<1>3. MirrorConsistent' /\ DeletedIsIdle'
  BY <1>1, <1>2 DEF RowInv, MirrorConsistent, DeletedIsIdle, TypeOK, Active
<1>4. LedgerMatchesRuns'
  BY <1>2 DEF RowInv, LedgerMatchesRuns, Charged, Active, TypeOK
<1> QED
  BY <1>3, <1>4 DEF RowInv

\* Cancelling active runs: the ledger follows.
LEMMA CancelLedger ==
    ASSUME RowInv, NEW rs \in SUBSET Runs, \A r \in rs : runStatus[r] \in Active,
           CancelRuns(rs)
    PROVE  LedgerMatchesRuns'
<1>1. runStatus' = [r \in Runs |-> IF r \in rs THEN "cancelled" ELSE runStatus[r]]
  BY DEF CancelRuns
<1>2. ledger' = ledger \cup [kind: {"cancel_refund"}, run: {q \in rs : Charged(q)}]
  BY DEF CancelRuns, Reimburse
<1>3. \A q \in Runs, kind \in {"charge", "refund", "cancel_refund"} :
         Key(kind, q) \in ledger' <=>
            Key(kind, q) \in ledger \/ (kind = "cancel_refund" /\ q \in rs /\ Charged(q))
  BY <1>2 DEF Key
<1> QED
  BY <1>1, <1>3 DEF RowInv, LedgerMatchesRuns, Charged, Active

LEMMA RowInvSchedule ==
    ASSUME RowInv, TypeOK', NEW b \in Books, NEW r \in Runs,
           NEW from \in Startable, CreateRunAndSchedule(b, r, from)
    PROVE  RowInv'
<1>1. /\ runStatus[r] = "none" /\ runBook[r] = b /\ deletion[b] = "none"
      /\ ~HasActiveRun(b)
      /\ runStatus' = [runStatus EXCEPT ![r] = "queued"]
      /\ bookStatus' = [bookStatus EXCEPT ![b] = "generating"]
      /\ activeRun' = [activeRun EXCEPT ![b] = r]
      /\ ledger' = IF DemoMode THEN ledger \cup {Key("charge", r)} ELSE ledger
      /\ UNCHANGED <<runBook, deletion>>
  BY DEF CreateRunAndSchedule
<1>2. MirrorConsistent'
  BY <1>1, GenerationRunAssumption
  DEF RowInv, MirrorConsistent, HasActiveRun, TypeOK, Active
<1>3. DeletedIsIdle'
  BY <1>1 DEF RowInv, DeletedIsIdle, TypeOK
<1>4. \A q \in Runs, kind \in {"charge", "refund", "cancel_refund"} :
         Key(kind, q) \in ledger' <=>
            Key(kind, q) \in ledger \/ (DemoMode /\ kind = "charge" /\ q = r)
  BY <1>1 DEF Key
<1>5. LedgerMatchesRuns'
  BY <1>1, <1>4 DEF RowInv, LedgerMatchesRuns, Charged, TypeOK
<1> QED
  BY <1>2, <1>3, <1>5 DEF RowInv

LEMMA RowInvOwner ==
    ASSUME RowInv, TypeOK', OwnerNext
    PROVE  RowInv'
<1>1. ASSUME NEW b \in Books, NEW r \in Runs,
             StartGeneration(b, r) \/ RetryGeneration(b, r) \/ RegenerateBook(b, r)
      PROVE  RowInv'
  BY <1>1, RowInvSchedule
  DEF StartGeneration, RetryGeneration, RegenerateBook, Startable
<1>2. ASSUME NEW b \in Books, CancelGeneration(b) PROVE RowInv'
  <2> DEFINE r == activeRun[b]
  <2>1. r \in Runs /\ runStatus[r] \in Active /\ runBook[r] = b
    BY <1>2 DEF CancelGeneration, RowInv, MirrorConsistent, TypeOK
  <2>2. /\ runStatus' = [q \in Runs |-> IF q \in {r} THEN "cancelled" ELSE runStatus[q]]
        /\ bookStatus' = [bookStatus EXCEPT ![b] = "cancelled"]
        /\ activeRun' = [activeRun EXCEPT ![b] = NoRun]
        /\ UNCHANGED <<runBook, deletion>>
    BY <1>2 DEF CancelGeneration, CancelRuns
  <2>3. MirrorConsistent' /\ DeletedIsIdle'
    BY <2>1, <2>2 DEF RowInv, MirrorConsistent, DeletedIsIdle, TypeOK, Active
  <2>4. LedgerMatchesRuns'
    BY <1>2, <2>1, CancelLedger DEF CancelGeneration
  <2> QED
    BY <2>3, <2>4 DEF RowInv
<1>3. ASSUME NEW b \in Books, RemoveBook(b) PROVE RowInv'
  <2>1. /\ bookStatus[b] \in Startable /\ deletion' = [deletion EXCEPT ![b] = "removed"]
        /\ UNCHANGED <<runStatus, runBook, bookStatus, activeRun, ledger>>
    BY <1>3 DEF RemoveBook, runVars, moneyVars
  <2>2. \A r \in Runs : runStatus[r] \in Active => runBook[r] # b
    BY <2>1 DEF RowInv, MirrorConsistent, Startable
  <2>3. MirrorConsistent'
    BY <2>1 DEF RowInv, MirrorConsistent, TypeOK, Startable
  <2>4. DeletedIsIdle'
    BY <2>1, <2>2 DEF RowInv, DeletedIsIdle, TypeOK
  <2>5. LedgerMatchesRuns'
    BY <2>1 DEF RowInv, LedgerMatchesRuns, Charged
  <2> QED
    BY <2>3, <2>4, <2>5 DEF RowInv
<1>4. ASSUME NEW b \in Books, RequestHardDeletion(b) PROVE RowInv'
  <2> DEFINE rs == {r \in Runs : runBook[r] = b /\ runStatus[r] \in Active}
  <2>1. /\ runStatus' = [q \in Runs |-> IF q \in rs THEN "cancelled" ELSE runStatus[q]]
        /\ activeRun' = [activeRun EXCEPT ![b] = NoRun]
        /\ deletion' = [deletion EXCEPT ![b] = "requested"]
        /\ UNCHANGED <<runBook, bookStatus>>
    BY <1>4 DEF RequestHardDeletion, CancelRuns
  <2>2. MirrorConsistent' /\ DeletedIsIdle'
    BY <2>1 DEF RowInv, MirrorConsistent, DeletedIsIdle, TypeOK, Active
  <2>3. LedgerMatchesRuns'
    BY <1>4, CancelLedger DEF RequestHardDeletion
  <2> QED
    BY <2>2, <2>3 DEF RowInv
<1>5. ASSUME NEW r \in Runs, RemoveIfSafe(r) \/ RemovalLost(r) PROVE RowInv'
  BY <1>5, RowInvUnchanged
  DEF RemoveIfSafe, RemovalLost, rowVars, dbVars, runVars, bookVars, moneyVars
<1> QED
  BY <1>1, <1>2, <1>3, <1>4, <1>5 DEF OwnerNext

LEMMA RowInvWorker ==
    ASSUME RowInv, TypeOK', WorkerNext
    PROVE  RowInv'
<1>1. PICK w \in Workers : WorkerStep(w) \/ WorkerTimers(w) \/ WorkerCrash(w)
  BY DEF WorkerNext
<1>2. worker[w].step # "idle" => worker[w].run \in Runs
  BY DEF RowInv, TypeOK
<1>3. CASE Claim(w)
  <2>1. worker[w].run \in Runs
    BY <1>2, <1>3 DEF Claim, At
  <2>2. /\ runStatus[worker[w].run] \in Active
        /\ runStatus' = [runStatus EXCEPT ![worker[w].run] = "running"]
        /\ UNCHANGED <<runBook, bookStatus, activeRun, deletion, ledger>>
    BY <1>3 DEF Claim, Claimable, Active, bookVars, moneyVars
  <2>3. MirrorConsistent' /\ DeletedIsIdle'
    BY <2>1, <2>2 DEF RowInv, MirrorConsistent, DeletedIsIdle, TypeOK, Active
  <2>4. LedgerMatchesRuns'
    BY <2>1, <2>2 DEF RowInv, LedgerMatchesRuns, Charged, TypeOK, Active
  <2> QED
    BY <2>3, <2>4 DEF RowInv
<1>4. CASE FailInvalidSnapshot(w) \/ FailDeadline(w) \/ FailExhausted(w)
  BY <1>2, <1>4, RowInvFailAbandoned
  DEF FailInvalidSnapshot, FailDeadline, FailExhausted, At, Active
<1>5. CASE CompleteRun(w)
  <2>1. worker[w].run \in Runs
    BY <1>2, <1>5 DEF CompleteRun, At
  <2>2. CASE UNCHANGED dbVars
    BY <2>2, RowInvUnchanged DEF rowVars, dbVars, runVars, bookVars, moneyVars
  <2>3. TerminalOutcome(worker[w].run, "running", worker[w].fence, ~worker[w].ok) = "applied"
           => runStatus[worker[w].run] \in Active
    BY DEF TerminalOutcome, Active
  <2> QED
    BY <1>5, <2>1, <2>2, <2>3, RowInvFail, RowInvPublish DEF CompleteRun
<1>6. CASE UNCHANGED rowVars
  BY <1>6, RowInvUnchanged
<1> QED
  BY <1>1, <1>3, <1>4, <1>5, <1>6
  DEF WorkerStep, WorkerTimers, PickUp, ClaimRefused, StartPipeline, PipelineStopped,
      DeliveryThrows, StoryFails, EnterRender, StorePdf, RenderFails, CollectOutcome,
      Settle, JobCompletes, JobFails, ReadExhausted, Heartbeat, HeartbeatRejected,
      HeartbeatError, DeadlineFires, WorkerCrash, rowVars, dbVars, runVars, bookVars,
      moneyVars

LEMMA RowInvStep == RowInv /\ [Next]_vars => RowInv'
<1> SUFFICES ASSUME RowInv, [Next]_vars PROVE RowInv'
  OBVIOUS
<1>1. TypeOK'
  BY TypeStep DEF RowInv
<1>2. CASE DispatcherNext \/ QueueNext \/ ClockNext \/ UNCHANGED vars
  <2>1. UNCHANGED rowVars
    BY <1>2
    DEF DispatcherNext, FindPending, Enqueue, MarkDispatched, DispatchFails,
        DispatcherCrash, QueueNext, StallOrphan, StallLive, Stall, JobLost, ClockNext,
        Clock, LeaseExpires, QueueWaitExpires, vars, rowVars, dbVars, runVars,
        bookVars, moneyVars
  <2> QED
    BY <1>1, <2>1, RowInvUnchanged
<1>3. CASE SweeperNext
  <2>1. PICK s \in Sweepers : SweepStep(s) \/ SweepStops(s)
    BY <1>3 DEF SweeperNext
  <2>2. CASE Recover(s)
    <3>1. sweeper[s].run \in Runs /\ sweeper[s].status \in Active
      BY <2>2 DEF Recover, RowInv, TypeOK, SweeperStates
    <3> QED
      BY <1>1, <2>2, <3>1, RowInvFailAbandoned DEF Recover
  <2>3. CASE UNCHANGED dbVars
    BY <1>1, <2>3, RowInvUnchanged DEF rowVars, dbVars, runVars, bookVars, moneyVars
  <2> QED
    BY <2>1, <2>2, <2>3 DEF SweepStep, SelectCandidate, CheckPending, SweepStops
<1> QED
  BY <1>1, <1>2, <1>3, RowInvOwner, RowInvWorker DEF Next

LEMMA RowInvInit == Init => RowInv
BY TypeInit, GenerationRunAssumption
DEF Init, RowInv, MirrorConsistent, DeletedIsIdle, LedgerMatchesRuns, Charged, Key,
    Active

LEMMA RowInvCorrect == Spec => []RowInv
BY RowInvInit, RowInvStep, PTL DEF Spec

\* An active run is the one its book points at and a generating book has one,
\* whatever interleaving of deliveries, cancellations, deletions and recovery.
THEOREM MirrorCorrect == Spec => []MirrorConsistent
<1>1. RowInv => MirrorConsistent
  BY DEF RowInv
<1> QED
  BY <1>1, RowInvCorrect, PTL

\* Every run is charged once and reimbursed exactly when it ends without a book.
THEOREM LedgerCorrect == Spec => []LedgerMatchesRuns
<1>1. RowInv => LedgerMatchesRuns
  BY DEF RowInv
<1> QED
  BY <1>1, RowInvCorrect, PTL

-----------------------------------------------------------------------------
(* Who may end a run, and who may publish *)

\* Steps that can move the rows of a run or of a book at all.
LEMMA RowStep ==
    ASSUME RowInv, [Next]_vars
    PROVE  \/ UNCHANGED <<runStatus, runBook, fence, activeRun, published, deletion,
                           credits>>
           \/ OwnerNext /\ UNCHANGED published
           \/ \E w \in Workers : Claim(w)
           \/ \E w \in Workers : /\ CompleteRun(w)
                                /\ worker[w].ok
                                /\ TerminalOutcome(worker[w].run, "running", worker[w].fence,
                                                   ~worker[w].ok) = "applied"
                                /\ PublishRun(worker[w].run, worker[w].fence)
           \/ \E r \in Runs : runStatus[r] \in Active /\ FailRun(r)
<1>1. CASE OwnerNext
  BY <1>1, ZenonT(60)
  DEF OwnerNext, StartGeneration, RetryGeneration, RegenerateBook,
      CreateRunAndSchedule, CancelGeneration, RemoveBook, RequestHardDeletion,
      RemoveIfSafe, RemovalLost, dbVars, bookVars
<1>2. CASE DispatcherNext \/ QueueNext \/ ClockNext \/ UNCHANGED vars
  BY <1>2
  DEF DispatcherNext, FindPending, Enqueue, MarkDispatched, DispatchFails,
      DispatcherCrash, QueueNext, StallOrphan, StallLive, Stall, JobLost, ClockNext,
      Clock, LeaseExpires, QueueWaitExpires, vars, dbVars, runVars, bookVars, moneyVars
<1>3. ASSUME NEW r \in Runs, NEW status \in Active, NEW f, FailAbandoned(r, status, f)
      PROVE  \/ UNCHANGED dbVars
             \/ runStatus[r] \in Active /\ FailRun(r)
  BY <1>3 DEF FailAbandoned, TerminalOutcome
<1>4. CASE SweeperNext
  <2>1. PICK s \in Sweepers : SweepStep(s) \/ SweepStops(s)
    BY <1>4 DEF SweeperNext
  <2>2. CASE Recover(s)
    <3>1. sweeper[s].run \in Runs /\ sweeper[s].status \in Active
      BY <2>2 DEF Recover, RowInv, TypeOK, SweeperStates
    <3> QED
      BY <2>2, <3>1, <1>3 DEF Recover, dbVars, runVars, bookVars, moneyVars
  <2> QED
    BY <2>1, <2>2
    DEF SweepStep, SelectCandidate, CheckPending, SweepStops, dbVars, runVars, bookVars, moneyVars
<1>5. CASE WorkerNext
  <2>1. PICK w \in Workers : WorkerStep(w) \/ WorkerTimers(w) \/ WorkerCrash(w)
    BY <1>5 DEF WorkerNext
  <2>2. worker[w].step # "idle" => worker[w].run \in Runs
    BY DEF RowInv, TypeOK
  <2>3. CASE FailInvalidSnapshot(w) \/ FailDeadline(w) \/ FailExhausted(w)
    BY <1>3, <2>2, <2>3
    DEF FailInvalidSnapshot, FailDeadline, FailExhausted, At, Active, dbVars, runVars,
        bookVars, moneyVars
  <2>4. CASE CompleteRun(w)
    <3>1. worker[w].run \in Runs
      BY <2>2, <2>4 DEF CompleteRun, At
    <3>2. TerminalOutcome(worker[w].run, "running", worker[w].fence, ~worker[w].ok)
             = "applied" => runStatus[worker[w].run] \in Active
      BY DEF TerminalOutcome, Active
    <3> QED
      BY <2>4, <3>1, <3>2 DEF CompleteRun, dbVars, runVars, bookVars, moneyVars
  <2> QED
    BY <2>1, <2>3, <2>4
    DEF WorkerStep, WorkerTimers, PickUp, ClaimRefused, StartPipeline,
        PipelineStopped, DeliveryThrows, StoryFails, EnterRender, StorePdf,
        RenderFails, CollectOutcome, Settle, JobCompletes, JobFails, ReadExhausted,
        Heartbeat, HeartbeatRejected, HeartbeatError, DeadlineFires, WorkerCrash,
        dbVars, runVars, bookVars, moneyVars
<1> QED
  BY <1>1, <1>2, <1>4, <1>5 DEF Next

\* Ended runs are out of every step's reach.
LEMMA EndedStays ==
    ASSUME RowInv, [Next]_vars, NEW r \in Runs, runStatus[r] \in Ended
    PROVE  runStatus'[r] = runStatus[r] /\ fence'[r] = fence[r]
<1>1. runStatus[r] \notin Active /\ runStatus[r] # "none"
  BY DEF Active, Ended
<1>2. CASE OwnerNext
  <2>1. ASSUME NEW b \in Books, CancelGeneration(b)
        PROVE  runStatus'[r] = runStatus[r] /\ fence'[r] = fence[r]
    BY <1>1, <2>1 DEF CancelGeneration, CancelRuns
  <2>2. ASSUME NEW b \in Books, RequestHardDeletion(b)
        PROVE  runStatus'[r] = runStatus[r] /\ fence'[r] = fence[r]
    BY <1>1, <2>2 DEF RequestHardDeletion, CancelRuns
  <2>3. ASSUME NEW b \in Books, NEW q \in Runs, NEW from, CreateRunAndSchedule(b, q, from)
        PROVE  runStatus'[r] = runStatus[r] /\ fence'[r] = fence[r]
    BY <1>1, <2>3 DEF CreateRunAndSchedule, RowInv, TypeOK
  <2> QED
    BY <1>2, <2>1, <2>2, <2>3
    DEF OwnerNext, StartGeneration, RetryGeneration, RegenerateBook, RemoveBook,
        RemoveIfSafe, RemovalLost, dbVars, runVars
<1>3. ASSUME NEW w \in Workers, Claim(w)
      PROVE  runStatus'[r] = runStatus[r] /\ fence'[r] = fence[r]
  <2>1. worker[w].run # r
    BY <1>1, <1>3 DEF Claim, Claimable, Active
  <2> QED
    BY <1>3, <2>1 DEF Claim, RowInv, TypeOK
<1>4. ASSUME NEW q \in Runs, runStatus[q] \in Active, FailRun(q)
      PROVE  runStatus'[r] = runStatus[r] /\ fence'[r] = fence[r]
  BY <1>1, <1>4 DEF FailRun, EndRun, RowInv, TypeOK
<1>5. ASSUME NEW w \in Workers, PublishRun(worker[w].run, worker[w].fence),
             TerminalOutcome(worker[w].run, "running", worker[w].fence, ~worker[w].ok)
                = "applied"
      PROVE  runStatus'[r] = runStatus[r] /\ fence'[r] = fence[r]
  <2>1. worker[w].run # r
    BY <1>1, <1>5 DEF TerminalOutcome, Active
  <2> QED
    BY <1>5, <2>1 DEF PublishRun, EndRun, RowInv, TypeOK
<1> QED
  BY <1>2, <1>3, <1>4, <1>5, RowStep

\* A run is one book's for good.
LEMMA BookOfRunStays == ASSUME RowInv, [Next]_vars PROVE UNCHANGED runBook
BY RowStep, ZenonT(60)
DEF OwnerNext, StartGeneration, RetryGeneration, RegenerateBook, CreateRunAndSchedule,
    CancelGeneration, RemoveBook, RequestHardDeletion, RemoveIfSafe, RemovalLost,
    Claim, PublishRun, FailRun, dbVars, runVars

\* An ended run keeps its status and its fence for ever: no later delivery,
\* sweep, cancellation or deletion ends it again or claims it.
THEOREM EndedRunsFinal == Spec => EndedRunsAreFinal
<1>1. RowInv /\ [Next]_vars =>
        [\A r \in Runs : runStatus[r] \in Ended =>
            runStatus'[r] = runStatus[r] /\ fence'[r] = fence[r]]_vars
  BY EndedStays
<1> QED
  BY <1>1, RowInvCorrect, PTL DEF Spec, EndedRunsAreFinal

\* The edition readers are served changes only when the newest claim of the
\* book's running run completes it, and never once the book is deleted.
THEOREM PublicationFenced == Spec => PublicationIsFenced
<1> DEFINE Fenced(b) ==
      LET e == published'[b] IN
      /\ e # NoEdition
      /\ runBook[e.run] = b
      /\ activeRun[b] = e.run
      /\ runStatus[e.run] = "running" /\ runStatus'[e.run] = "completed"
      /\ fence[e.run] = e.fence
      /\ deletion[b] = "none"
<1>1. ASSUME RowInv, [Next]_vars, NEW b \in Books, published'[b] # published[b]
      PROVE  Fenced(b)
  <2>1. PICK w \in Workers :
          /\ CompleteRun(w)
          /\ TerminalOutcome(worker[w].run, "running", worker[w].fence, ~worker[w].ok)
                = "applied"
          /\ PublishRun(worker[w].run, worker[w].fence)
    BY <1>1, RowStep DEF Claim, bookVars, FailRun
  <2> DEFINE r == worker[w].run
  <2>2. r \in Runs /\ runStatus[r] = "running" /\ fence[r] = worker[w].fence
           /\ activeRun[runBook[r]] = r
    BY <1>1, <2>1 DEF CompleteRun, At, RowInv, TypeOK, TerminalOutcome
  <2>3. b = runBook[r] /\ published'[b] = [run |-> r, fence |-> worker[w].fence]
           /\ runStatus'[r] = "completed"
    BY <1>1, <2>1, <2>2 DEF PublishRun, EndRun, RowInv, TypeOK
  <2>4. deletion[b] = "none"
    BY <1>1, <2>2, <2>3 DEF RowInv, DeletedIsIdle, Active
  <2> QED
    BY <2>2, <2>3, <2>4, GenerationRunAssumption DEF NoEdition
<1>2. RowInv /\ [Next]_vars =>
        [\A b \in Books : published'[b] # published[b] => Fenced(b)]_vars
  BY <1>1
<1> QED
  BY <1>2, RowInvCorrect, PTL DEF Spec, PublicationIsFenced

-----------------------------------------------------------------------------
(* Claims and their PDFs *)

\* A fence only grows.
LEMMA FenceGrows ==
    ASSUME RowInv, [Next]_vars, NEW r \in Runs
    PROVE  fence[r] \in Nat /\ fence'[r] \in Nat /\ fence'[r] >= fence[r]
<1>1. fence[r] \in Nat
  BY DEF RowInv, TypeOK
<1>2. CASE OwnerNext
  <2>1. ASSUME NEW rs, CancelRuns(rs) PROVE fence'[r] \in Nat /\ fence'[r] >= fence[r]
    BY <1>1, <2>1 DEF CancelRuns
  <2>2. UNCHANGED fence \/ \E rs \in SUBSET Runs : CancelRuns(rs)
    <3>1. ASSUME NEW b \in Books, CancelGeneration(b)
          PROVE  \E rs \in SUBSET Runs : CancelRuns(rs)
      <4>1. activeRun[b] \in Runs /\ CancelRuns({activeRun[b]})
        BY <3>1 DEF CancelGeneration, RowInv, TypeOK
      <4> QED
        BY <4>1
    <3> QED
      BY <1>2, <3>1, ZenonT(60)
      DEF OwnerNext, StartGeneration, RetryGeneration, RegenerateBook,
          CreateRunAndSchedule, RemoveBook, RequestHardDeletion, RemoveIfSafe,
          RemovalLost, dbVars, runVars
  <2> QED
    BY <1>1, <2>1, <2>2
<1>3. ASSUME NEW w \in Workers, Claim(w) PROVE fence'[r] \in Nat /\ fence'[r] >= fence[r]
  BY <1>1, <1>3 DEF Claim, RowInv, TypeOK
<1>4. UNCHANGED fence \/ OwnerNext \/ \E w \in Workers : Claim(w)
  BY RowStep DEF PublishRun, FailRun
<1> QED
  BY <1>1, <1>2, <1>3, <1>4

\* What a step does to the claims that workers hold: every claim after it was
\* held before it, or is the one just taken.
LEMMA ClaimStep ==
    ASSUME RowInv, [Next]_vars, NEW w \in Workers, Claimed(w)'
    PROVE  \/ Claim(w)
           \/ /\ Claimed(w)
              /\ worker'[w].run = worker[w].run
              /\ worker'[w].fence = worker[w].fence
<1>1. worker \in [Workers -> WorkerStates]
  BY DEF RowInv, TypeOK
<1>2. worker'[w].step \in {"generate", "render", "stored", "finish", "settle",
                           "deadline", "normalize"}
  BY DEF Claimed, Beating, At
<1>3. CASE worker'[w] = worker[w]
  BY <1>3 DEF Claimed, Beating, At
<1>4. ASSUME NEW v \in Workers, v # w, WorkerStep(v) \/ WorkerTimers(v) \/ WorkerCrash(v)
      PROVE  worker'[w] = worker[w]
  BY <1>1, <1>4
  DEF WorkerStep, WorkerTimers, PickUp, Claim, ClaimRefused, StartPipeline,
      FailInvalidSnapshot, PipelineStopped, DeliveryThrows, StoryFails, EnterRender,
      StorePdf, RenderFails, CollectOutcome, CompleteRun, Settle, FailDeadline,
      JobCompletes, JobFails, ReadExhausted, FailExhausted, Heartbeat,
      HeartbeatRejected, HeartbeatError, DeadlineFires, WorkerCrash, Goto, AbortWith
<1>5. CASE WorkerStep(w) \/ WorkerTimers(w) \/ WorkerCrash(w)
  <2>1. worker[w] \in WorkerStates
    BY <1>1
  <2>2. ASSUME NEW step, Goto(w, step)
        PROVE  worker'[w].run = worker[w].run /\ worker'[w].fence = worker[w].fence
    BY <1>1, <1>2, <2>1, <2>2
    DEF Goto, Leaving, IdleWorker, WorkerStates
  <2>3. ASSUME NEW reason, AbortWith(w, reason)
        PROVE  /\ worker'[w].run = worker[w].run
               /\ worker'[w].fence = worker[w].fence
    BY <1>1, <2>1, <2>3 DEF AbortWith, WorkerStates
  <2>4. CASE PipelineStopped(w) \/ DeliveryThrows(w) \/ EnterRender(w) \/ CollectOutcome(w)
             \/ StartPipeline(w) \/ FailInvalidSnapshot(w) \/ CompleteRun(w)
             \/ Settle(w) \/ FailDeadline(w)
    <3>1. ~DeliveryThrows(w)
      BY <1>1, <1>2 DEF DeliveryThrows, Goto, Leaving, IdleWorker
    <3>2. Claimed(w)
      BY <2>4, <3>1
      DEF PipelineStopped, EnterRender, CollectOutcome, StartPipeline,
          FailInvalidSnapshot, CompleteRun, Settle, FailDeadline, At, Beating, Claimed
    <3> QED
      BY <2>2, <2>4, <3>1, <3>2
      DEF PipelineStopped, DeliveryThrows, EnterRender, CollectOutcome, StartPipeline,
          FailInvalidSnapshot, CompleteRun, Settle, FailDeadline
  <2>5. CASE StoryFails(w) \/ StorePdf(w) \/ RenderFails(w)
    BY <1>1, <2>1, <2>5
    DEF StoryFails, StorePdf, RenderFails, At, Claimed, Beating, WorkerStates
  <2>6. CASE HeartbeatRejected(w) \/ HeartbeatError(w) \/ DeadlineFires(w)
    BY <2>3, <2>6 DEF HeartbeatRejected, HeartbeatError, DeadlineFires, Claimed
  <2>7. CASE (\E r \in Runs : PickUp(w, r)) \/ ClaimRefused(w) \/ JobCompletes(w)
             \/ JobFails(w) \/ ReadExhausted(w) \/ FailExhausted(w) \/ WorkerCrash(w)
    <3>1. ~(\E r \in Runs : PickUp(w, r))
      <4>1. ASSUME NEW r \in Runs, PickUp(w, r) PROVE worker'[w].step = "claim"
        <5>1. worker'[w] = [IdleWorker EXCEPT !.step = "claim", !.run = r,
                                             !.token = job[r].token + 1]
          BY <1>1, <4>1 DEF PickUp
        <5> QED
          BY <5>1 DEF IdleWorker
      <4> QED
        BY <1>2, <4>1
    <3>2. ~ClaimRefused(w)
      BY <1>1, <1>2 DEF ClaimRefused, Goto, Leaving, IdleWorker
    <3>3. ~JobFails(w)
      <4> DEFINE spent == Leaving(worker[w], "exhausted")
      <4>1. spent.step = "exhausted"
        BY DEF Leaving, IdleWorker
      <4>2. ASSUME JobFails(w)
            PROVE  worker'[w] = spent \/ worker'[w] = IdleWorker
        BY <1>1, <4>2 DEF JobFails
      <4> HIDE DEF spent
      <4> QED
        BY <1>2, <4>1, <4>2 DEF IdleWorker
    <3>4. ~ReadExhausted(w)
      <4> DEFINE backstop == [worker[w] EXCEPT !.step = "backstop",
                                               !.fence = fence[worker[w].run]]
      <4>1. backstop.step = "backstop"
        BY <2>1 DEF WorkerStates
      <4>2. ASSUME ReadExhausted(w)
            PROVE  worker'[w] = IF runStatus[worker[w].run] = "running"
                                THEN backstop ELSE IdleWorker
        BY <1>1, <4>2 DEF ReadExhausted
      <4> HIDE DEF backstop
      <4> QED
        BY <1>2, <4>1, <4>2 DEF IdleWorker
    <3>5. ~JobCompletes(w) /\ ~FailExhausted(w) /\ ~WorkerCrash(w)
      BY <1>1, <1>2 DEF JobCompletes, FailExhausted, WorkerCrash, IdleWorker
    <3> QED
      BY <2>7, <3>1, <3>2, <3>3, <3>4, <3>5
  <2>8. CASE Heartbeat(w)
    BY <1>3, <2>8 DEF Heartbeat
  <2> QED
    BY <1>5, <2>4, <2>5, <2>6, <2>7, <2>8 DEF WorkerStep, WorkerTimers
<1>6. CASE ~WorkerNext
  <2>1. UNCHANGED worker
    BY <1>6, ZenonT(60)
    DEF Next, OwnerNext, StartGeneration, RetryGeneration, RegenerateBook,
        CreateRunAndSchedule, CancelGeneration, RemoveBook, RequestHardDeletion,
        RemoveIfSafe, RemovalLost, DispatcherNext, FindPending, Enqueue,
        MarkDispatched, DispatchFails, DispatcherCrash, QueueNext, StallOrphan,
        StallLive, Stall, JobLost, ClockNext, Clock, LeaseExpires, QueueWaitExpires,
        SweeperNext, SweepStep, SelectCandidate, CheckPending, Recover, SweepStops,
        vars
  <2> QED
    BY <1>3, <2>1
<1> QED
  BY <1>3, <1>4, <1>5, <1>6 DEF WorkerNext

LEMMA ClaimsStep == RowInv /\ ExclusiveClaims /\ [Next]_vars => ExclusiveClaims'
<1> SUFFICES ASSUME RowInv, ExclusiveClaims, [Next]_vars PROVE ExclusiveClaims'
  OBVIOUS
<1>1. worker \in [Workers -> WorkerStates]
  BY DEF RowInv, TypeOK
<1>2. ASSUME NEW w \in Workers, Claim(w)
      PROVE  /\ worker'[w].run = worker[w].run /\ worker[w].run \in Runs
             /\ worker'[w].fence = fence[worker[w].run] + 1
             /\ fence'[worker[w].run] = fence[worker[w].run] + 1
             /\ \A v \in Workers \ {w} : worker'[v] = worker[v]
  <2>1. worker[w].run \in Runs /\ worker[w] \in WorkerStates
    BY <1>2 DEF Claim, At, RowInv, TypeOK
  <2> QED
    BY <1>1, <1>2, <2>1 DEF Claim, WorkerStates, RowInv, TypeOK
<1>3. ASSUME NEW w \in Workers, Claimed(w)' PROVE worker'[w].fence <= fence'[worker'[w].run]
  <2>1. CASE Claim(w)
    <3>1. fence[worker[w].run] + 1 \in Nat
      BY <1>2, <2>1 DEF RowInv, TypeOK
    <3> QED
      BY <1>2, <2>1, <3>1
  <2>2. CASE /\ Claimed(w)
             /\ worker'[w].run = worker[w].run
             /\ worker'[w].fence = worker[w].fence
    <3>1. worker[w].run \in Runs /\ worker[w].fence \in Nat
      BY <1>1, <2>2 DEF Claimed, Beating, At, RowInv, TypeOK, WorkerStates
    <3> QED
      BY <2>2, <3>1, FenceGrows DEF ExclusiveClaims
  <2> QED
    BY <1>3, <2>1, <2>2, ClaimStep
<1>4. ASSUME NEW v \in Workers, NEW w \in Workers, v # w, Claimed(v)', Claimed(w)',
             worker'[v].run = worker'[w].run, Claim(w)
      PROVE  worker'[v].fence # worker'[w].fence
  <2>1. ~Claim(v)
    <3>1. worker'[w] # worker[w]
      BY <1>1, <1>4, ZenonT(60) DEF Claim, At, WorkerStates, RowInv, TypeOK
    <3> QED
      BY <1>2, <1>4, <3>1
  <2>2. Claimed(v) /\ worker'[v].run = worker[v].run /\ worker'[v].fence = worker[v].fence
    BY <1>4, <2>1, ClaimStep
  <2>3. worker[v].fence <= fence[worker[w].run] /\ worker[v].fence \in Nat
           /\ fence[worker[w].run] \in Nat
    BY <1>1, <1>2, <1>4, <2>2 DEF ExclusiveClaims, RowInv, TypeOK, WorkerStates
  <2> QED
    BY <1>2, <1>4, <2>2, <2>3
<1>5. ASSUME NEW v \in Workers, NEW w \in Workers, v # w, Claimed(v)', Claimed(w)',
             worker'[v].run = worker'[w].run
      PROVE  worker'[v].fence # worker'[w].fence
  <2>1. CASE Claim(v) \/ Claim(w)
    BY <1>4, <1>5, <2>1
  <2>2. CASE ~Claim(v) /\ ~Claim(w)
    BY <1>5, <2>2, ClaimStep DEF ExclusiveClaims
  <2> QED
    BY <2>1, <2>2
<1> QED
  BY <1>3, <1>5 DEF ExclusiveClaims

\* No two deliveries of a run ever work under the same fence.
THEOREM ClaimsExclusive == Spec => []ExclusiveClaims
<1>1. Init => ExclusiveClaims
  BY DEF Init, ExclusiveClaims, Claimed, Beating, At, IdleWorker
<1> QED
  BY <1>1, ClaimsStep, RowInvCorrect, PTL DEF Spec

-----------------------------------------------------------------------------
(* GenerationRun implements GenerationContract: every step of deliveries,  *)
(* queue, dispatchers, recovery passes and owner is one step of the        *)
(* contract or none.                                                       *)

\* The mapping of Contract (GenerationRun.tla), by name.
Phase == [r \in Runs |-> IF runStatus[r] \in Active THEN "active" ELSE runStatus[r]]
Closed == [b \in Books |-> deletion[b] # "none"]

InstalledFee == IF DemoMode THEN 1 ELSE 0
Busy(b) == {r \in Runs : runStatus[r] \in Active /\ runBook[r] = b}

LEMMA MappedProgress ==
    ASSUME RowInv, NEW b PROVE Contract!InProgress(b) = Busy(b)
<1>1. \A r \in Runs : runStatus[r] \in Active <=>
          (IF runStatus[r] \in Active THEN "active" ELSE runStatus[r]) = "active"
  BY DEF Active, RowInv, TypeOK, RunStatuses, Ended
<1> QED
  BY <1>1 DEF Contract!InProgress, Busy

\* A book is busy with at most the run it points at.
LEMMA BusyWithOne ==
    ASSUME RowInv, NEW b \in Books
    PROVE  \A r \in Busy(b) : r = activeRun[b]
BY DEF RowInv, MirrorConsistent, Busy

LEMMA RefundOne ==
    ASSUME RowInv, NEW r \in Runs, runStatus[r] \in Active
    PROVE  Cardinality({q \in {r} : Charged(q)}) = InstalledFee
<1>1. Charged(r) <=> DemoMode
  BY DEF RowInv, LedgerMatchesRuns, Active
<1>2. CASE DemoMode
  <2>1. {q \in {r} : Charged(q)} = {r}
    BY <1>1, <1>2
  <2> QED
    BY <1>2, <2>1, FS_Singleton DEF InstalledFee
<1>3. CASE ~DemoMode
  <2>1. {q \in {r} : Charged(q)} = {}
    BY <1>1, <1>3
  <2> QED
    BY <1>3, <2>1, FS_EmptySet DEF InstalledFee
<1> QED
  BY <1>2, <1>3

\* Ending a run without an edition, whoever ends it.
LEMMA MappedEnd ==
    ASSUME RowInv, NEW r \in Runs, runStatus[r] \in Active, NEW how \in {"failed", "cancelled"},
           runStatus' = [runStatus EXCEPT ![r] = how],
           credits' = credits + InstalledFee, UNCHANGED <<runBook, published>>
    PROVE  Contract!EndWithoutEdition(r, how)
<1>1. Phase[r] = "active"
  BY DEF Phase
<1>2. Phase' = [Phase EXCEPT ![r] = how]
  BY DEF Phase, Active, RowInv, TypeOK
<1>3. credits' = credits + Contract!Fee
  BY DEF Contract!Fee, InstalledFee
<1> QED
  BY <1>1, <1>2, <1>3 DEF Contract!EndWithoutEdition, Phase

LEMMA MappedStutter ==
    ASSUME RowInv, UNCHANGED <<runBook, published, deletion, credits>>,
           \A r \in Runs : runStatus'[r] = runStatus[r]
                             \/ (runStatus[r] \in Active /\ runStatus'[r] \in Active)
    PROVE  UNCHANGED Contract!cvars
<1>1. Phase' = Phase
  BY DEF Phase
<1>2. Closed' = Closed
  BY DEF Closed
<1> QED
  BY <1>1, <1>2 DEF Contract!cvars, Phase, Closed

LEMMA MappedSchedule ==
    ASSUME RowInv, NEW b \in Books, NEW r \in Runs, NEW from, CreateRunAndSchedule(b, r, from)
    PROVE  Contract!Start(r)
<1>1. /\ runStatus[r] = "none" /\ runBook[r] = b /\ deletion[b] = "none" /\ Busy(b) = {}
      /\ DemoMode => credits >= 1
      /\ runStatus' = [runStatus EXCEPT ![r] = "queued"]
      /\ credits' = IF DemoMode THEN credits - 1 ELSE credits
      /\ UNCHANGED <<runBook, published, deletion>>
  BY DEF CreateRunAndSchedule, HasActiveRun, Busy
<1>2. credits \in Nat
  BY DEF RowInv, TypeOK
<1>3. Phase[r] = "none" /\ Phase' = [Phase EXCEPT ![r] = "active"]
  BY <1>1 DEF Phase, Active, RowInv, TypeOK
<1>4. ~Closed[runBook[r]] /\ Closed' = Closed
  BY <1>1 DEF Closed
<1>5. Contract!InProgress(runBook[r]) = {}
  BY <1>1, MappedProgress
<1>6. credits >= Contract!Fee /\ credits' = credits - Contract!Fee
  BY <1>1, <1>2 DEF Contract!Fee
<1> QED
  BY <1>1, <1>3, <1>4, <1>5, <1>6 DEF Contract!Start, Phase, Closed

LEMMA MappedPublish ==
    ASSUME RowInv, NEW r \in Runs, NEW f, PublishRun(r, f), runStatus[r] \in Active
    PROVE  Contract!Publish(r)
<1>1. /\ runStatus' = [runStatus EXCEPT ![r] = "completed"]
      /\ published' = [published EXCEPT ![runBook[r]] = [run |-> r, fence |-> f]]
      /\ UNCHANGED <<runBook, deletion, credits>>
  BY DEF PublishRun, EndRun, moneyVars
<1>2. Phase[r] = "active" /\ Phase' = [Phase EXCEPT ![r] = "completed"]
  BY <1>1 DEF Phase, Active, RowInv, TypeOK
<1>3. ~Closed[runBook[r]] /\ Closed' = Closed
  BY <1>1 DEF Closed, RowInv, DeletedIsIdle, TypeOK
<1>4. published'[runBook[r]].run = r
         /\ \A b \in Books : b # runBook[r] => published'[b] = published[b]
  BY <1>1 DEF RowInv, TypeOK
<1> QED
  BY <1>1, <1>2, <1>3, <1>4 DEF Contract!Publish, Phase, Closed

LEMMA MappedFail ==
    ASSUME RowInv, NEW r \in Runs, FailRun(r), runStatus[r] \in Active
    PROVE  Contract!Fail(r)
<1>1. credits' = credits + InstalledFee
  BY RefundOne DEF FailRun, Reimburse
<1>2. Closed' = Closed
  BY DEF FailRun, Closed
<1> QED
  BY <1>1, <1>2, MappedEnd DEF FailRun, EndRun, Contract!Fail, Closed

LEMMA MappedCancel ==
    ASSUME RowInv, NEW b \in Books, CancelGeneration(b)
    PROVE  \E r \in Runs : Contract!Cancel(r)
<1> DEFINE r == activeRun[b]
<1>1. r \in Runs /\ runStatus[r] \in Active
  BY DEF CancelGeneration, RowInv, TypeOK
<1>2. credits' = credits + InstalledFee
  BY <1>1, RefundOne DEF CancelGeneration, CancelRuns, Reimburse
<1>3. runStatus' = [runStatus EXCEPT ![r] = "cancelled"]
  BY <1>1 DEF CancelGeneration, CancelRuns, RowInv, TypeOK
<1>4. Closed' = Closed
  BY DEF CancelGeneration, Closed
<1>5. Contract!EndWithoutEdition(r, "cancelled")
  BY <1>1, <1>2, <1>3, MappedEnd DEF CancelGeneration
<1> QED
  BY <1>1, <1>4, <1>5 DEF Contract!Cancel, Closed

LEMMA MappedRemove ==
    ASSUME RowInv, NEW b \in Books, RemoveBook(b)
    PROVE  Contract!Close(b)
<1>1. Busy(b) = {}
  BY DEF RemoveBook, Busy, RowInv, MirrorConsistent, Startable
<1>2. Closed' = [Closed EXCEPT ![b] = TRUE]
  BY DEF RemoveBook, Closed, RowInv, TypeOK
<1>3. Contract!InProgress(b) = {} /\ Phase' = Phase
  BY <1>1, MappedProgress DEF RemoveBook, runVars, Phase
<1> QED
  BY <1>2, <1>3 DEF RemoveBook, runVars, moneyVars, Contract!Close, Phase, Closed

LEMMA MappedHardDeletion ==
    ASSUME RowInv, NEW b \in Books, RequestHardDeletion(b)
    PROVE  Contract!Close(b)
<1>1. CancelRuns(Busy(b))
  <2>1. Busy(b) = {r \in Runs : runBook[r] = b /\ runStatus[r] \in Active}
    BY DEF Busy
  <2> QED
    BY <2>1 DEF RequestHardDeletion
<1>2. Closed' = [Closed EXCEPT ![b] = TRUE]
  BY DEF RequestHardDeletion, Closed, RowInv, TypeOK
<1>3. CASE Busy(b) = {}
  <2>1. runStatus' = runStatus
    BY <1>1, <1>3 DEF CancelRuns, RowInv, TypeOK
  <2>2. {q \in Busy(b) : Charged(q)} = {}
    BY <1>3
  <2>3. credits' = credits
    <3>1. credits' = credits + Cardinality({q \in Busy(b) : Charged(q)})
      BY <1>1 DEF CancelRuns, Reimburse
    <3>2. credits \in Nat /\ Cardinality({q \in Busy(b) : Charged(q)}) = 0
      BY <2>2, FS_EmptySet DEF RowInv, TypeOK
    <3> QED
      BY <3>1, <3>2
  <2>4. Contract!InProgress(b) = {} /\ Phase' = Phase
    BY <1>3, <2>1, MappedProgress DEF Phase
  <2> QED
    BY <1>2, <2>3, <2>4 DEF RequestHardDeletion, Contract!Close, Phase, Closed
<1>4. ASSUME NEW r \in Busy(b) PROVE Contract!Close(b)
  <2>1. r \in Runs /\ runStatus[r] \in Active /\ Busy(b) = {r}
    BY <1>4, BusyWithOne DEF Busy
  <2>2. credits' = credits + InstalledFee
    BY <1>1, <2>1, RefundOne DEF CancelRuns, Reimburse
  <2>3. runStatus' = [runStatus EXCEPT ![r] = "cancelled"]
    BY <1>1, <2>1 DEF CancelRuns, RowInv, TypeOK
  <2>4. Contract!EndWithoutEdition(r, "cancelled")
    BY <2>1, <2>2, <2>3, MappedEnd DEF RequestHardDeletion
  <2>5. r \in Contract!InProgress(b)
    BY <1>4, MappedProgress
  <2> QED
    BY <1>2, <2>4, <2>5 DEF Contract!Close, Closed
<1> QED
  BY <1>3, <1>4

LEMMA MappedInit == Init => Contract!CInit
<1> SUFFICES ASSUME Init PROVE Contract!CInit
  OBVIOUS
<1>1. Phase = [r \in Runs |-> "none"] /\ Closed = [b \in Books |-> FALSE]
  BY DEF Init, Phase, Closed, Active
<1> QED
  BY <1>1 DEF Init, NoEdition, Contract!CInit, Phase, Closed

LEMMA MappedStep == RowInv /\ [Next]_vars => [Contract!CNext]_(Contract!cvars)
<1> SUFFICES ASSUME RowInv, [Next]_vars
             PROVE  Contract!CNext \/ UNCHANGED Contract!cvars
  OBVIOUS
<1>1. CASE OwnerNext
  <2>1. ASSUME NEW r \in Runs, RemoveIfSafe(r) \/ RemovalLost(r)
        PROVE  UNCHANGED Contract!cvars
    BY <2>1, MappedStutter
    DEF RemoveIfSafe, RemovalLost, dbVars, runVars, bookVars, moneyVars
  <2> QED
    BY <1>1, <2>1, MappedSchedule, MappedCancel, MappedRemove, MappedHardDeletion
    DEF OwnerNext, StartGeneration, RetryGeneration, RegenerateBook, Contract!CNext
<1>2. ASSUME NEW w \in Workers, Claim(w) PROVE UNCHANGED Contract!cvars
  <2>1. UNCHANGED <<runBook, published, deletion, credits>>
    BY <1>2 DEF Claim, bookVars, moneyVars
  <2>2. \A r \in Runs : runStatus'[r] = runStatus[r]
                          \/ (runStatus[r] \in Active /\ runStatus'[r] \in Active)
    BY <1>2 DEF Claim, Claimable, Active, RowInv, TypeOK
  <2> QED
    BY <2>1, <2>2, MappedStutter
<1>3. ASSUME NEW w \in Workers, CompleteRun(w),
             TerminalOutcome(worker[w].run, "running", worker[w].fence, ~worker[w].ok)
                = "applied",
             PublishRun(worker[w].run, worker[w].fence)
      PROVE  Contract!CNext
  <2>1. worker[w].run \in Runs /\ runStatus[worker[w].run] \in Active
    BY <1>3 DEF CompleteRun, At, TerminalOutcome, Active, RowInv, TypeOK
  <2> QED
    BY <1>3, <2>1, MappedPublish DEF Contract!CNext
<1>4. ASSUME NEW r \in Runs, runStatus[r] \in Active, FailRun(r) PROVE Contract!CNext
  BY <1>4, MappedFail DEF Contract!CNext
<1>5. CASE UNCHANGED <<runStatus, runBook, fence, activeRun, published, deletion, credits>>
  BY <1>5, MappedStutter
<1> QED
  BY <1>1, <1>2, <1>3, <1>4, <1>5, RowStep

\* With any number of workers, dispatchers and recovery passes, whatever they
\* lose, the owner of a book sees only what the contract promises: one
\* generation at a time, which ends once, publishes only by completing, and
\* gives the credit back at the very step that ends it without an edition.
THEOREM Implements == Spec => ImplementsContract
BY MappedInit, MappedStep, RowInvCorrect, PTL DEF Spec, ImplementsContract, Contract!CSpec

-----------------------------------------------------------------------------
(* Frames: what moves only with an actor of its own *)

\* A worker slot changes only by a step of its own.
LEMMA OneWorkerMoves ==
    ASSUME RowInv, [Next]_vars, NEW w \in Workers, worker'[w] # worker[w]
    PROVE  WorkerStep(w) \/ WorkerTimers(w) \/ WorkerCrash(w)
<1>1. ASSUME NEW v \in Workers, v # w, WorkerStep(v) \/ WorkerTimers(v) \/ WorkerCrash(v)
      PROVE  worker'[w] = worker[w]
  BY <1>1, ZenonT(60)
  DEF RowInv, TypeOK, WorkerStep, WorkerTimers, PickUp, Claim, ClaimRefused,
      StartPipeline, FailInvalidSnapshot, PipelineStopped, DeliveryThrows, StoryFails,
      EnterRender, StorePdf, RenderFails, CollectOutcome, CompleteRun, Settle,
      FailDeadline, JobCompletes, JobFails, ReadExhausted, FailExhausted, Heartbeat,
      HeartbeatRejected, HeartbeatError, DeadlineFires, WorkerCrash, Goto, AbortWith
<1>2. CASE ~WorkerNext
  BY <1>2, ZenonT(60)
  DEF Next, OwnerNext, StartGeneration, RetryGeneration, RegenerateBook,
      CreateRunAndSchedule, CancelGeneration, RemoveBook, RequestHardDeletion,
      RemoveIfSafe, RemovalLost, DispatcherNext, FindPending, Enqueue,
      MarkDispatched, DispatchFails, DispatcherCrash, QueueNext, StallOrphan,
      StallLive, Stall, JobLost, ClockNext, Clock, LeaseExpires, QueueWaitExpires,
      SweeperNext, SweepStep, SelectCandidate, CheckPending, Recover, SweepStops,
      vars
<1> QED
  BY <1>1, <1>2 DEF WorkerNext

\* PDFs change only when one is stored.
LEMMA PdfsStep ==
    ASSUME RowInv, [Next]_vars
    PROVE  UNCHANGED pdfs \/ \E w \in Workers : StorePdf(w)
<1>1. CASE WorkerNext
  BY <1>1, ZenonT(60)
  DEF WorkerNext, WorkerStep, WorkerTimers, PickUp, Claim, ClaimRefused, StartPipeline,
      FailInvalidSnapshot, PipelineStopped, DeliveryThrows, StoryFails, EnterRender,
      RenderFails, CollectOutcome, CompleteRun, Settle, FailDeadline, JobCompletes,
      JobFails, ReadExhausted, FailExhausted, Heartbeat, HeartbeatRejected,
      HeartbeatError, DeadlineFires, WorkerCrash
<1>2. CASE OwnerNext
  BY <1>2, ZenonT(60)
  DEF OwnerNext, StartGeneration, RetryGeneration, RegenerateBook,
      CreateRunAndSchedule, CancelGeneration, RemoveBook, RequestHardDeletion,
      RemoveIfSafe, RemovalLost
<1>3. CASE DispatcherNext \/ QueueNext \/ ClockNext \/ SweeperNext \/ UNCHANGED vars
  BY <1>3
  DEF DispatcherNext, FindPending, Enqueue, MarkDispatched, DispatchFails,
      DispatcherCrash, QueueNext, StallOrphan, StallLive, Stall, JobLost, ClockNext,
      Clock, LeaseExpires, QueueWaitExpires, SweeperNext, SweepStep, SelectCandidate,
      CheckPending, Recover, SweepStops, vars
<1> QED
  BY <1>1, <1>2, <1>3 DEF Next

-----------------------------------------------------------------------------
(* What readers are served *)

\* A delivery whose outcome is a finished book.
Rendered(w) == worker[w].step \in {"stored", "finish"} /\ worker[w].ok

LEMMA RenderedStep ==
    ASSUME RowInv, [Next]_vars, NEW w \in Workers, Rendered(w)'
    PROVE  \/ StorePdf(w)
           \/ /\ Rendered(w)
              /\ worker'[w].run = worker[w].run
              /\ worker'[w].fence = worker[w].fence
<1>1. worker \in [Workers -> WorkerStates] /\ worker[w] \in WorkerStates
  BY DEF RowInv, TypeOK
<1>2. worker'[w].step \in {"stored", "finish"} /\ worker'[w].ok
  BY DEF Rendered
<1>3. CASE worker'[w] = worker[w]
  BY <1>2, <1>3 DEF Rendered
<1>4. CASE WorkerStep(w) \/ WorkerTimers(w) \/ WorkerCrash(w)
  <2>1. ASSUME NEW step, Goto(w, step)
        PROVE  /\ worker'[w].step = step
               /\ step \in {"stored", "finish"} =>
                     /\ worker'[w].ok = worker[w].ok
                     /\ worker'[w].run = worker[w].run
                     /\ worker'[w].fence = worker[w].fence
    BY <1>1, <2>1 DEF Goto, Leaving, IdleWorker, WorkerStates
  <2>2. ASSUME NEW reason, AbortWith(w, reason)
        PROVE  /\ worker'[w].step = worker[w].step /\ worker'[w].ok = worker[w].ok
               /\ worker'[w].run = worker[w].run
               /\ worker'[w].fence = worker[w].fence
    BY <1>1, <2>2 DEF AbortWith, WorkerStates
  <2>3. CASE CollectOutcome(w)
    BY <1>2, <2>1, <2>3 DEF CollectOutcome, At, Rendered
  <2>4. ASSUME NEW step \in WorkerSteps \ {"stored", "finish"}, Goto(w, step)
        PROVE  FALSE
    BY <1>2, <2>1, <2>4
  <2>5. CASE ClaimRefused(w) \/ StartPipeline(w) \/ PipelineStopped(w)
              \/ DeliveryThrows(w) \/ EnterRender(w)
    BY <2>4, <2>5
    DEF ClaimRefused, StartPipeline, PipelineStopped, DeliveryThrows, EnterRender,
        WorkerSteps
  <2>6. CASE FailInvalidSnapshot(w) \/ FailDeadline(w) \/ CompleteRun(w) \/ Settle(w)
    BY <2>4, <2>6
    DEF FailInvalidSnapshot, FailDeadline, AfterFinalize, CompleteRun, Settle,
        WorkerSteps
  <2>7. ~(StoryFails(w) \/ RenderFails(w) \/ Claim(w))
    BY <1>1, <1>2 DEF StoryFails, RenderFails, Claim, WorkerStates
  <2>8. CASE WorkerTimers(w)
    BY <1>2, <1>3, <2>2, <2>8
    DEF WorkerTimers, Heartbeat, HeartbeatRejected, HeartbeatError, DeadlineFires,
        Rendered
  <2>9. ~(JobCompletes(w) \/ FailExhausted(w) \/ WorkerCrash(w))
    BY <1>1, <1>2 DEF JobCompletes, FailExhausted, WorkerCrash, IdleWorker
  <2>10. ASSUME NEW r \in Runs, PickUp(w, r) PROVE FALSE
    <3>1. worker'[w] = [IdleWorker EXCEPT !.step = "claim", !.run = r,
                                         !.token = job[r].token + 1]
      BY <1>1, <2>10 DEF PickUp
    <3>2. worker'[w].step = "claim"
      BY <3>1 DEF IdleWorker
    <3> QED
      BY <1>2, <3>2
  <2>11. ~JobFails(w)
    <3> DEFINE spent == Leaving(worker[w], "exhausted")
    <3>1. spent.step = "exhausted"
      BY DEF Leaving, IdleWorker
    <3>2. ASSUME JobFails(w) PROVE worker'[w] = spent \/ worker'[w] = IdleWorker
      BY <1>1, <3>2 DEF JobFails
    <3> HIDE DEF spent
    <3> QED
      BY <1>2, <3>1, <3>2 DEF IdleWorker
  <2>12. ~ReadExhausted(w)
    <3> DEFINE backstop == [worker[w] EXCEPT !.step = "backstop",
                                             !.fence = fence[worker[w].run]]
    <3>1. backstop.step = "backstop"
      BY <1>1 DEF WorkerStates
    <3>2. ASSUME ReadExhausted(w)
          PROVE  worker'[w] = backstop \/ worker'[w] = IdleWorker
      BY <1>1, <3>2 DEF ReadExhausted
    <3> HIDE DEF backstop
    <3> QED
      BY <1>2, <3>1, <3>2 DEF IdleWorker
  <2> QED
    BY <1>4, <2>3, <2>5, <2>6, <2>7, <2>8, <2>9, <2>10, <2>11, <2>12 DEF WorkerStep
<1> QED
  BY <1>3, <1>4, OneWorkerMoves

\* What was rendered under a claim is in that claim's namespace, and only that:
\* the strengthening PublishedEditionIntact needs.
EditionOf(d) == [run |-> d.run, fence |-> d.fence]
IsStored(e) == [at |-> e, by |-> e] \in pdfs

PdfInv ==
    /\ \A p \in pdfs : p.by = p.at
    /\ \A w \in Workers : Rendered(w) => IsStored(EditionOf(worker[w]))
    /\ \A b \in Books : published[b] # NoEdition =>
          /\ runStatus[published[b].run] = "completed"
          /\ runBook[published[b].run] = b
          /\ IsStored(published[b])

LEMMA StoredStays ==
    ASSUME RowInv, PdfInv, [Next]_vars
    PROVE  /\ \A p \in pdfs' : p.by = p.at
           /\ \A e : IsStored(e) => IsStored(e)'
<1>1. ASSUME NEW w \in Workers, StorePdf(w)
      PROVE  pdfs' = {p \in pdfs : p.at # EditionOf(worker[w])} \cup
                     {[at |-> EditionOf(worker[w]), by |-> EditionOf(worker[w])]}
  BY <1>1 DEF StorePdf, PdfNamespace, EditionOf
<1>2. \A p \in pdfs : p \in [at: Edition, by: Edition]
  BY DEF RowInv, TypeOK
<1>3. ASSUME NEW x,
             pdfs' = {p \in pdfs : p.at # x} \cup {[at |-> x, by |-> x]}
      PROVE  /\ \A p \in pdfs' : p.by = p.at
             /\ \A e : IsStored(e) => IsStored(e)'
  BY <1>3 DEF PdfInv, IsStored
<1> QED
  BY <1>1, <1>3, PdfsStep DEF PdfInv, IsStored

LEMMA PdfInvStep == RowInv /\ PdfInv /\ [Next]_vars => PdfInv'
<1> SUFFICES ASSUME RowInv, PdfInv, [Next]_vars PROVE PdfInv'
  OBVIOUS
<1>1. ASSUME NEW w \in Workers, Rendered(w)' PROVE IsStored(EditionOf(worker[w]))'
  <2>1. CASE StorePdf(w)
    <3>1. worker'[w].run = worker[w].run /\ worker'[w].fence = worker[w].fence
      BY <2>1 DEF StorePdf, RowInv, TypeOK, WorkerStates
    <3>2. EditionOf(worker[w])' = EditionOf(worker[w])
      BY <3>1 DEF EditionOf
    <3>3. [at |-> EditionOf(worker[w]), by |-> EditionOf(worker[w])] \in pdfs'
      BY <2>1 DEF StorePdf, PdfNamespace, EditionOf
    <3> QED
      BY <3>2, <3>3 DEF IsStored
  <2>2. CASE /\ Rendered(w)
             /\ worker'[w].run = worker[w].run
             /\ worker'[w].fence = worker[w].fence
    BY <2>2, StoredStays DEF PdfInv, EditionOf, IsStored
  <2> QED
    BY <1>1, <2>1, <2>2, RenderedStep
<1>2. ASSUME NEW b \in Books, published'[b] # NoEdition
      PROVE  /\ runStatus'[published'[b].run] = "completed"
             /\ runBook'[published'[b].run] = b
             /\ IsStored(published[b])'
  <2>1. CASE published'[b] = published[b]
    <3>1. published[b] # NoEdition /\ published[b].run \in Runs
      BY <1>2, <2>1 DEF RowInv, TypeOK, Edition
    <3>2. runStatus'[published[b].run] = runStatus[published[b].run] /\ UNCHANGED runBook
      BY <3>1, EndedStays, BookOfRunStays DEF PdfInv, Ended
    <3> QED
      BY <2>1, <3>1, <3>2, StoredStays DEF PdfInv, IsStored
  <2>2. CASE published'[b] # published[b]
    <3>1. PICK w \in Workers :
            /\ CompleteRun(w)
            /\ worker[w].ok
            /\ PublishRun(worker[w].run, worker[w].fence)
      BY <2>2, RowStep DEF Claim, bookVars, FailRun
    <3>2. worker[w].run \in Runs /\ Rendered(w)
      BY <3>1 DEF CompleteRun, At, RowInv, TypeOK, Rendered
    <3>3. b = runBook[worker[w].run] /\ published'[b] = EditionOf(worker[w])
             /\ runStatus'[worker[w].run] = "completed" /\ UNCHANGED runBook
      BY <2>2, <3>1, <3>2 DEF PublishRun, EndRun, RowInv, TypeOK, EditionOf
    <3>4. IsStored(EditionOf(worker[w])) /\ UNCHANGED pdfs
      BY <3>1, <3>2 DEF PdfInv, CompleteRun
    <3>5. IsStored(published[b])'
      BY <3>3, <3>4 DEF IsStored
    <3>6. published'[b].run = worker[w].run
      BY <3>3 DEF EditionOf
    <3> QED
      BY <3>3, <3>5, <3>6
  <2> QED
    BY <2>1, <2>2
<1> QED
  BY <1>1, <1>2, StoredStays DEF PdfInv

\* Readers are served an edition that exists and that its own claim rendered.
THEOREM PublishedIntact == Spec => []PublishedEditionIntact
<1>1. Init => PdfInv
  BY DEF Init, PdfInv, Rendered, IdleWorker
<1>2. PdfInv => PublishedEditionIntact
  BY DEF PdfInv, IsStored, PublishedEditionIntact
<1> QED
  BY <1>1, <1>2, PdfInvStep, RowInvCorrect, PTL DEF Spec

-----------------------------------------------------------------------------
(* Which queued runs a worker can reach *)

\* The runs a dispatcher has in hand.
LEMMA DispatcherStep ==
    ASSUME RowInv, [Next]_vars, NEW d \in Dispatchers
    PROVE  /\ \A r \in Runs : r \in dispatcher'[d].batch =>
                 r \in dispatcher[d].batch \/ outbox[r] = "pending"
           /\ dispatcher'[d].sent # NoRun =>
                 \/ dispatcher'[d] = dispatcher[d]
                 \/ \E r \in Runs : Enqueue(d, r) /\ dispatcher'[d].sent = r
                                      /\ dispatcher'[d].batch = dispatcher[d].batch
<1>1. dispatcher \in [Dispatchers -> DispatcherStates] /\ dispatcher[d] \in DispatcherStates
  BY DEF RowInv, TypeOK
<1>2. CASE dispatcher'[d] = dispatcher[d]
  BY <1>2
<1>3. CASE FindPending(d)
  BY <1>1, <1>3 DEF FindPending
<1>4. ASSUME NEW r \in Runs, Enqueue(d, r)
      PROVE  dispatcher'[d].sent = r /\ dispatcher'[d].batch = dispatcher[d].batch
  BY <1>1, <1>4 DEF Enqueue, DispatcherStates
<1>5. CASE MarkDispatched(d) \/ DispatcherCrash(d) \/ \E r \in Runs : DispatchFails(d, r)
  BY <1>1, <1>5 DEF MarkDispatched, DispatcherCrash, DispatchFails, IdleDispatcher
<1>6. ASSUME NEW e \in Dispatchers, e # d,
             \/ FindPending(e) \/ MarkDispatched(e) \/ DispatcherCrash(e)
             \/ \E r \in Runs : Enqueue(e, r) \/ DispatchFails(e, r)
      PROVE  dispatcher'[d] = dispatcher[d]
  BY <1>1, <1>6 DEF FindPending, MarkDispatched, DispatcherCrash, Enqueue, DispatchFails
<1>7. CASE ~DispatcherNext
  <2>1. CASE WorkerNext
    BY <2>1, ZenonT(60)
    DEF WorkerNext, WorkerStep, WorkerTimers, PickUp, Claim, ClaimRefused,
        StartPipeline, FailInvalidSnapshot, PipelineStopped, DeliveryThrows, StoryFails,
        EnterRender, StorePdf, RenderFails, CollectOutcome, CompleteRun, Settle,
        FailDeadline, JobCompletes, JobFails, ReadExhausted, FailExhausted, Heartbeat,
        HeartbeatRejected, HeartbeatError, DeadlineFires, WorkerCrash
  <2>2. CASE OwnerNext \/ QueueNext \/ ClockNext \/ SweeperNext \/ UNCHANGED vars
    BY <2>2, ZenonT(60)
    DEF OwnerNext, StartGeneration, RetryGeneration, RegenerateBook,
        CreateRunAndSchedule, CancelGeneration, RemoveBook, RequestHardDeletion,
        RemoveIfSafe, RemovalLost, QueueNext, StallOrphan, StallLive, Stall, JobLost,
        ClockNext, Clock, LeaseExpires, QueueWaitExpires, SweeperNext, SweepStep,
        SelectCandidate, CheckPending, Recover, SweepStops, vars
  <2> QED
    BY <1>7, <2>1, <2>2 DEF Next
<1> QED
  BY <1>2, <1>3, <1>4, <1>5, <1>6, <1>7 DEF DispatcherNext

\* A job that is there stays there, unless Redis loses it or a cancellation
\* takes it.
LEMMA JobStays ==
    ASSUME RowInv, [Next]_vars, NEW r \in Runs, job[r].state # "missing"
    PROVE  job'[r].state # "missing" \/ JobLost(r) \/ RemoveIfSafe(r)
<1>1. job \in [Runs -> Jobs] /\ job[r] \in Jobs
  BY DEF RowInv, TypeOK
<1>2. CASE UNCHANGED job
  BY <1>2
<1>3. CASE OwnerNext
  BY <1>1, <1>3, ZenonT(60)
  DEF OwnerNext, StartGeneration, RetryGeneration, RegenerateBook,
      CreateRunAndSchedule, CancelGeneration, RemoveBook, RequestHardDeletion,
      RemoveIfSafe, RemovalLost
<1>4. CASE DispatcherNext
  BY <1>1, <1>4
  DEF DispatcherNext, FindPending, Enqueue, MarkDispatched, DispatchFails, DispatcherCrash
<1>5. CASE QueueNext
  <2>1. StalledJob(job[r]).state # "missing"
    <3>1. [job[r] EXCEPT !.state = "waiting", !.stalls = @ + 1].state = "waiting"
      BY <1>1 DEF Jobs
    <3>2. [job[r] EXCEPT !.state = "failed"].state = "failed"
      BY <1>1 DEF Jobs
    <3> QED
      BY <3>1, <3>2 DEF StalledJob
  <2>2. ASSUME NEW q \in Runs, Stall(q) PROVE job'[r].state # "missing"
    BY <1>1, <2>1, <2>2 DEF Stall
  <2>3. ASSUME NEW q \in Runs, JobLost(q) PROVE job'[r].state # "missing" \/ JobLost(r)
    BY <1>1, <2>3 DEF JobLost
  <2> QED
    BY <1>5, <2>2, <2>3 DEF QueueNext, StallOrphan, StallLive
<1>6. ASSUME NEW w \in Workers, WorkerStep(w) \/ WorkerTimers(w) \/ WorkerCrash(w)
      PROVE  job'[r].state # "missing"
  <2>1. ASSUME NEW q \in Runs, PickUp(w, q) PROVE job'[r].state # "missing"
    BY <1>1, <2>1 DEF PickUp, Jobs
  <2>2. CASE JobCompletes(w) \/ JobFails(w)
    <3>1. worker[w].run \in Runs
      BY <2>2 DEF JobCompletes, JobFails, At, RowInv, TypeOK
    <3> QED
      BY <1>1, <2>2, <3>1 DEF JobCompletes, JobFails, Jobs
  <2> QED
    BY <1>2, <1>6, <2>1, <2>2
    DEF WorkerStep, WorkerTimers, Claim, ClaimRefused, StartPipeline,
        FailInvalidSnapshot, PipelineStopped, DeliveryThrows, StoryFails, EnterRender,
        StorePdf, RenderFails, CollectOutcome, CompleteRun, Settle, FailDeadline,
        ReadExhausted, FailExhausted, Heartbeat, HeartbeatRejected, HeartbeatError,
        DeadlineFires, WorkerCrash
<1>7. CASE ClockNext \/ SweeperNext \/ UNCHANGED vars
  BY <1>2, <1>7
  DEF ClockNext, Clock, LeaseExpires, QueueWaitExpires, SweeperNext, SweepStep,
      SelectCandidate, CheckPending, Recover, SweepStops, vars
<1> QED
  BY <1>3, <1>4, <1>5, <1>6, <1>7 DEF Next, WorkerNext

\* How a run's status moves.
LEMMA StatusStep ==
    ASSUME RowInv, [Next]_vars, NEW r \in Runs
    PROVE  \/ runStatus'[r] = runStatus[r]
           \/ runStatus[r] = "none" /\ runStatus'[r] = "queued" /\ outbox'[r] = "pending"
           \/ runStatus[r] \in Active /\ runStatus'[r] \in {"running"} \cup Ended
<1>1. /\ runStatus \in [Runs -> RunStatuses]
      /\ outbox \in [Runs -> {"none", "pending", "dispatched", "cancelled"}]
  BY DEF RowInv, TypeOK
<1>2. CASE OwnerNext
  <2>1. ASSUME NEW b \in Books, CancelGeneration(b)
        PROVE  \/ runStatus'[r] = runStatus[r]
               \/ runStatus[r] \in Active /\ runStatus'[r] = "cancelled"
    BY <2>1 DEF CancelGeneration, CancelRuns
  <2>2. ASSUME NEW b \in Books, RequestHardDeletion(b)
        PROVE  \/ runStatus'[r] = runStatus[r]
               \/ runStatus[r] \in Active /\ runStatus'[r] = "cancelled"
    BY <2>2 DEF RequestHardDeletion, CancelRuns
  <2>3. ASSUME NEW b \in Books, NEW q \in Runs, NEW from, CreateRunAndSchedule(b, q, from)
        PROVE  \/ runStatus'[r] = runStatus[r]
               \/ runStatus[r] = "none" /\ runStatus'[r] = "queued" /\ outbox'[r] = "pending"
    BY <1>1, <2>3 DEF CreateRunAndSchedule
  <2> QED
    BY <1>2, <2>1, <2>2, <2>3
    DEF OwnerNext, StartGeneration, RetryGeneration, RegenerateBook, RemoveBook,
        RemoveIfSafe, RemovalLost, dbVars, runVars, Ended
<1>3. ASSUME NEW w \in Workers, Claim(w)
      PROVE  \/ runStatus'[r] = runStatus[r]
             \/ runStatus[r] \in Active /\ runStatus'[r] = "running"
  BY <1>1, <1>3 DEF Claim, Claimable, Active
<1>4. ASSUME NEW q \in Runs, runStatus[q] \in Active, FailRun(q)
      PROVE  \/ runStatus'[r] = runStatus[r]
             \/ runStatus[r] \in Active /\ runStatus'[r] = "failed"
  BY <1>1, <1>4 DEF FailRun, EndRun
<1>5. ASSUME NEW w \in Workers, PublishRun(worker[w].run, worker[w].fence),
             TerminalOutcome(worker[w].run, "running", worker[w].fence, ~worker[w].ok)
                = "applied"
      PROVE  \/ runStatus'[r] = runStatus[r]
             \/ runStatus[r] \in Active /\ runStatus'[r] = "completed"
  BY <1>1, <1>5 DEF PublishRun, EndRun, TerminalOutcome, Active
<1> QED
  BY <1>2, <1>3, <1>4, <1>5, RowStep DEF Ended

\* Only a claim makes a run running.
LEMMA ClaimStarts ==
    ASSUME RowInv, [Next]_vars, NEW r \in Runs, runStatus[r] # "running",
           runStatus'[r] = "running"
    PROVE  \E w \in Workers : Claim(w)
<1>1. runStatus \in [Runs -> RunStatuses]
  BY DEF RowInv, TypeOK
<1>2. CASE OwnerNext
  <2>1. ASSUME NEW rs, CancelRuns(rs) PROVE FALSE
    BY <2>1 DEF CancelRuns
  <2>2. ASSUME NEW b \in Books, NEW q \in Runs, NEW from, CreateRunAndSchedule(b, q, from)
        PROVE  FALSE
    BY <1>1, <2>2 DEF CreateRunAndSchedule
  <2> QED
    BY <1>2, <2>1, <2>2
    DEF OwnerNext, StartGeneration, RetryGeneration, RegenerateBook, CancelGeneration,
        RequestHardDeletion, RemoveBook, RemoveIfSafe, RemovalLost, dbVars, runVars
<1>3. ASSUME NEW q, NEW to \in Ended, NEW bookTo, EndRun(q, to, bookTo) PROVE FALSE
  BY <1>1, <1>3 DEF EndRun, Ended
<1> QED
  BY <1>2, <1>3, RowStep DEF FailRun, PublishRun, Ended

\* How an outbox event moves.
LEMMA OutboxStep ==
    ASSUME RowInv, [Next]_vars, NEW r \in Runs
    PROVE  \/ outbox'[r] = outbox[r]
           \/ outbox'[r] = "pending" /\ runStatus[r] = "none" /\ runStatus'[r] = "queued"
           \/ outbox[r] = "pending" /\ outbox'[r] = "cancelled" /\ runStatus'[r] = "cancelled"
           \/ outbox'[r] = "dispatched" /\ \E d \in Dispatchers : /\ MarkDispatched(d)
                                                               /\ dispatcher[d].sent = r
<1>1. /\ runStatus \in [Runs -> RunStatuses]
      /\ outbox \in [Runs -> {"none", "pending", "dispatched", "cancelled"}]
  BY DEF RowInv, TypeOK
<1>2. CASE UNCHANGED outbox
  BY <1>2
<1>3. CASE OwnerNext
  <2>1. ASSUME NEW rs, CancelRuns(rs)
        PROVE  \/ outbox'[r] = outbox[r]
               \/ /\ outbox[r] = "pending" /\ outbox'[r] = "cancelled"
                  /\ runStatus'[r] = "cancelled"
    BY <2>1 DEF CancelRuns
  <2>2. ASSUME NEW b \in Books, NEW q \in Runs, NEW from, CreateRunAndSchedule(b, q, from)
        PROVE  \/ outbox'[r] = outbox[r]
               \/ outbox'[r] = "pending" /\ runStatus[r] = "none" /\ runStatus'[r] = "queued"
    BY <1>1, <2>2 DEF CreateRunAndSchedule
  <2> QED
    BY <1>2, <1>3, <2>1, <2>2
    DEF OwnerNext, StartGeneration, RetryGeneration, RegenerateBook, CancelGeneration,
        RequestHardDeletion, RemoveBook, RemoveIfSafe, RemovalLost, dbVars
<1>4. CASE DispatcherNext
  <2>1. ASSUME NEW d \in Dispatchers, MarkDispatched(d)
        PROVE  \/ outbox'[r] = outbox[r]
               \/ outbox'[r] = "dispatched" /\ dispatcher[d].sent = r
    BY <1>1, <2>1 DEF MarkDispatched
  <2> QED
    BY <1>2, <1>4, <2>1
    DEF DispatcherNext, FindPending, Enqueue, DispatchFails, DispatcherCrash, dbVars
<1>5. CASE WorkerNext
  <2>1. ASSUME NEW q, NEW status, NEW f, FailAbandoned(q, status, f) PROVE UNCHANGED outbox
    BY <2>1 DEF FailAbandoned, FailRun, dbVars
  <2>2. PICK w \in Workers : WorkerStep(w) \/ WorkerTimers(w) \/ WorkerCrash(w)
    BY <1>5 DEF WorkerNext
  <2>3. CASE FailInvalidSnapshot(w) \/ FailDeadline(w) \/ FailExhausted(w) \/ CompleteRun(w)
    BY <1>2, <2>1, <2>3
    DEF FailInvalidSnapshot, FailDeadline, FailExhausted, CompleteRun, PublishRun,
        FailRun, dbVars
  <2> QED
    BY <1>2, <2>2, <2>3
    DEF WorkerStep, WorkerTimers, PickUp, Claim, ClaimRefused, StartPipeline,
        PipelineStopped, DeliveryThrows, StoryFails, EnterRender, StorePdf, RenderFails,
        CollectOutcome, Settle, JobCompletes, JobFails, ReadExhausted, Heartbeat,
        HeartbeatRejected, HeartbeatError, DeadlineFires, WorkerCrash, dbVars
<1>6. CASE QueueNext \/ ClockNext \/ SweeperNext \/ UNCHANGED vars
  BY <1>2, <1>6
  DEF QueueNext, StallOrphan, StallLive, Stall, JobLost, ClockNext, Clock, LeaseExpires,
      QueueWaitExpires, SweeperNext, SweepStep, SelectCandidate, CheckPending, Recover,
      SweepStops, FailAbandoned, FailRun, vars, dbVars
<1> QED
  BY <1>3, <1>4, <1>5, <1>6 DEF Next

\* A removal is due only for a run that was cancelled.
LEMMA RemovalStep ==
    ASSUME RowInv, [Next]_vars, NEW r \in Runs, r \in removals'
    PROVE  r \in removals \/ runStatus'[r] = "cancelled"
<1>1. CASE OwnerNext
  BY <1>1, ZenonT(60)
  DEF OwnerNext, StartGeneration, RetryGeneration, RegenerateBook,
      CreateRunAndSchedule, CancelGeneration, RequestHardDeletion, RemoveBook,
      RemoveIfSafe, RemovalLost, CancelRuns
<1>2. CASE WorkerNext
  BY <1>2, ZenonT(60)
  DEF WorkerNext, WorkerStep, WorkerTimers, PickUp, Claim, ClaimRefused, StartPipeline,
      FailInvalidSnapshot, PipelineStopped, DeliveryThrows, StoryFails, EnterRender,
      StorePdf, RenderFails, CollectOutcome, CompleteRun, Settle, FailDeadline,
      JobCompletes, JobFails, ReadExhausted, FailExhausted, Heartbeat,
      HeartbeatRejected, HeartbeatError, DeadlineFires, WorkerCrash
<1>3. CASE DispatcherNext \/ QueueNext \/ ClockNext \/ SweeperNext \/ UNCHANGED vars
  BY <1>3
  DEF DispatcherNext, FindPending, Enqueue, MarkDispatched, DispatchFails,
      DispatcherCrash, QueueNext, StallOrphan, StallLive, Stall, JobLost, ClockNext,
      Clock, LeaseExpires, QueueWaitExpires, SweeperNext, SweepStep, SelectCandidate,
      CheckPending, Recover, SweepStops, vars
<1> QED
  BY <1>1, <1>2, <1>3 DEF Next

\* The losses of jobs are counted.
LEMMA JobLossStep ==
    ASSUME RowInv, [Next]_vars
    PROVE  /\ faults.jobs \in Nat
           /\ \/ faults'.jobs = faults.jobs /\ \A r \in Runs : ~JobLost(r)
              \/ faults'.jobs = faults.jobs + 1 /\ faults.jobs < JobLosses
<1>1. faults \in [locks: Nat, jobs: Nat, dispatches: Nat, deletions: Nat]
  BY DEF RowInv, TypeOK
<1>2. ASSUME NEW r \in Runs, JobLost(r)
      PROVE  faults'.jobs = faults.jobs + 1 /\ faults.jobs < JobLosses
  BY <1>1, <1>2 DEF JobLost, Spend
<1>3. ASSUME NEW kind \in {"locks", "dispatches", "deletions"}, NEW bound, Spend(kind, bound)
      PROVE  faults'.jobs = faults.jobs
  BY <1>1, <1>3 DEF Spend
<1>4. CASE OwnerNext
  BY <1>1, <1>2, <1>3, <1>4, ZenonT(60)
  DEF OwnerNext, StartGeneration, RetryGeneration, RegenerateBook,
      CreateRunAndSchedule, CancelGeneration, RequestHardDeletion, RemoveBook,
      RemoveIfSafe, RemovalLost
<1>5. CASE WorkerNext
  BY <1>1, <1>2, <1>3, <1>5, ZenonT(60)
  DEF WorkerNext, WorkerStep, WorkerTimers, PickUp, Claim, ClaimRefused, StartPipeline,
      FailInvalidSnapshot, PipelineStopped, DeliveryThrows, StoryFails, EnterRender,
      StorePdf, RenderFails, CollectOutcome, CompleteRun, Settle, FailDeadline,
      JobCompletes, JobFails, ReadExhausted, FailExhausted, Heartbeat,
      HeartbeatRejected, HeartbeatError, DeadlineFires, WorkerCrash
<1>6. CASE DispatcherNext \/ QueueNext \/ ClockNext \/ SweeperNext \/ UNCHANGED vars
  BY <1>1, <1>2, <1>3, <1>6
  DEF DispatcherNext, FindPending, Enqueue, MarkDispatched, DispatchFails,
      DispatcherCrash, QueueNext, StallOrphan, StallLive, ClockNext,
      Clock, LeaseExpires, QueueWaitExpires, SweeperNext, SweepStep, SelectCandidate,
      CheckPending, Recover, SweepStops, vars
<1> QED
  BY <1>4, <1>5, <1>6 DEF Next

LEMMA NoLossSoFar ==
    ASSUME RowInv, [Next]_vars, faults'.jobs = 0
    PROVE  faults.jobs = 0 /\ \A r \in Runs : ~JobLost(r)
BY JobLossStep

\* The run whose job is being added has an event, and a queued run that lost its
\* pending mark has a job: what QueuedRunIsReachable rests on, with who may take
\* a job away again.
DispatchInv ==
    /\ \A r \in Runs : outbox[r] = "none" <=> runStatus[r] = "none"
    /\ \A r \in removals : runStatus[r] = "cancelled"
    /\ \A d \in Dispatchers : \A r \in dispatcher[d].batch : outbox[r] # "none"
    /\ \A d \in Dispatchers : dispatcher[d].sent # NoRun =>
          dispatcher[d].sent \in dispatcher[d].batch
    /\ faults.jobs = 0 =>
          \A d \in Dispatchers : dispatcher[d].sent # NoRun =>
             \/ runStatus[dispatcher[d].sent] # "queued"
             \/ job[dispatcher[d].sent].state # "missing"
    /\ QueuedRunIsReachable

LEMMA DispatchInvInit == Init => DispatchInv
BY DEF Init, DispatchInv, QueuedRunIsReachable, IdleDispatcher

LEMMA DispatchInvStep == RowInv /\ DispatchInv /\ [Next]_vars => DispatchInv'
<1> SUFFICES ASSUME RowInv, DispatchInv, [Next]_vars PROVE DispatchInv'
  OBVIOUS
<1>1. RowInv'
  BY RowInvStep
<1>2. \A r \in Runs : runStatus'[r] = "queued" =>
         runStatus[r] = "queued" \/ (outbox[r] = "none" /\ outbox'[r] = "pending")
  <2>1. SUFFICES ASSUME NEW r \in Runs, runStatus'[r] = "queued"
                 PROVE  \/ runStatus[r] = "queued"
                        \/ outbox[r] = "none" /\ outbox'[r] = "pending"
    OBVIOUS
  <2> QED
    BY <2>1, StatusStep DEF DispatchInv, Active, Ended
<1>3. ASSUME NEW d \in Dispatchers, dispatcher[d].sent # NoRun
      PROVE  /\ dispatcher[d].sent \in Runs /\ dispatcher[d].sent \in dispatcher[d].batch
             /\ outbox[dispatcher[d].sent] # "none"
  BY <1>3 DEF DispatchInv, RowInv, TypeOK, DispatcherStates
<1>4. ASSUME NEW r \in Runs, faults'.jobs = 0, runStatus'[r] = "queued",
             job[r].state # "missing"
      PROVE  job'[r].state # "missing"
  <2>1. r \notin removals
    <3>1. r \in removals => runStatus[r] = "cancelled"
      BY DEF DispatchInv
    <3> QED
      BY <1>4, <3>1, StatusStep DEF Active, Ended
  <2> QED
    BY <1>4, <2>1, JobStays, NoLossSoFar DEF RemoveIfSafe
<1>5. \A r \in Runs : outbox'[r] = "none" <=> runStatus'[r] = "none"
  <2>1. SUFFICES ASSUME NEW r \in Runs PROVE outbox'[r] = "none" <=> runStatus'[r] = "none"
    OBVIOUS
  <2>2. outbox[r] = "none" <=> runStatus[r] = "none"
    BY DEF DispatchInv
  <2>3. CASE outbox'[r] = "dispatched" /\ \E d \in Dispatchers : /\ MarkDispatched(d)
                                                             /\ dispatcher[d].sent = r
    <3>1. outbox[r] # "none"
      BY <1>3, <2>3 DEF MarkDispatched
    <3> QED
      BY <2>2, <2>3, <3>1, StatusStep DEF Active, Ended
  <2> QED
    BY <2>2, <2>3, OutboxStep, StatusStep DEF Active, Ended
<1>6. \A r \in removals' : runStatus'[r] = "cancelled"
  <2>1. SUFFICES ASSUME NEW r \in removals' PROVE runStatus'[r] = "cancelled"
    OBVIOUS
  <2>2. r \in Runs
    BY <1>1 DEF RowInv, TypeOK
  <2>3. r \in removals => runStatus'[r] = "cancelled"
    BY <2>2, EndedStays DEF DispatchInv, Ended
  <2> QED
    BY <2>2, <2>3, RemovalStep
<1>7. \A d \in Dispatchers : \A r \in dispatcher'[d].batch : outbox'[r] # "none"
  <2>1. SUFFICES ASSUME NEW d \in Dispatchers, NEW r \in dispatcher'[d].batch
                 PROVE  outbox'[r] # "none"
    OBVIOUS
  <2>2. r \in Runs
    BY <1>1 DEF RowInv, TypeOK, DispatcherStates
  <2>3. outbox[r] # "none"
    BY <2>2, DispatcherStep DEF DispatchInv
  <2> QED
    BY <2>2, <2>3, OutboxStep
<1>8. ASSUME NEW d \in Dispatchers, dispatcher'[d].sent # NoRun
      PROVE  /\ dispatcher'[d].sent \in dispatcher'[d].batch
             /\ faults'.jobs = 0 => \/ runStatus'[dispatcher'[d].sent] # "queued"
                                    \/ job'[dispatcher'[d].sent].state # "missing"
  <2>1. CASE dispatcher'[d] = dispatcher[d]
    <3>1. dispatcher[d].sent \in Runs /\ outbox[dispatcher[d].sent] # "none"
      BY <1>3, <1>8, <2>1
    <3>2. ASSUME faults'.jobs = 0, runStatus'[dispatcher[d].sent] = "queued"
          PROVE  job'[dispatcher[d].sent].state # "missing"
      <4>1. runStatus[dispatcher[d].sent] = "queued"
        BY <1>2, <3>1, <3>2
      <4> QED
        BY <1>4, <1>8, <2>1, <3>1, <3>2, <4>1, NoLossSoFar DEF DispatchInv
    <3> QED
      BY <1>3, <1>8, <2>1, <3>2
  <2>2. CASE \E r \in Runs : Enqueue(d, r) /\ dispatcher'[d].sent = r
                               /\ dispatcher'[d].batch = dispatcher[d].batch
    <3>1. PICK r \in Runs : Enqueue(d, r) /\ dispatcher'[d].sent = r
                              /\ dispatcher'[d].batch = dispatcher[d].batch
      BY <2>2
    <3>2. job'[r].state # "missing"
      BY <3>1 DEF Enqueue, RowInv, TypeOK, Jobs
    <3> QED
      BY <3>1, <3>2 DEF Enqueue
  <2> QED
    BY <1>8, <2>1, <2>2, DispatcherStep
<1>9. ASSUME faults'.jobs = 0, NEW r \in Runs, runStatus'[r] = "queued",
             outbox'[r] # "pending"
      PROVE  job'[r].state # "missing"
  <2>1. runStatus[r] = "queued"
    BY <1>2, <1>9
  <2>2. faults.jobs = 0 /\ (outbox[r] = "pending" \/ job[r].state # "missing")
    BY <1>9, <2>1, NoLossSoFar DEF DispatchInv, QueuedRunIsReachable
  <2>3. CASE \E d \in Dispatchers : MarkDispatched(d) /\ dispatcher[d].sent = r
    <3>1. job[r].state # "missing"
      BY <2>1, <2>2, <2>3 DEF DispatchInv, MarkDispatched
    <3> QED
      BY <1>4, <1>9, <3>1
  <2> QED
    BY <1>4, <1>9, <2>1, <2>2, <2>3, OutboxStep
<1> QED
  BY <1>5, <1>6, <1>7, <1>8, <1>9 DEF DispatchInv, QueuedRunIsReachable

\* As long as Redis has lost no job, every queued run still has an event to be
\* dispatched or a job, whatever dispatchers, cancellations and crashes did.
THEOREM QueuedReachable == Spec => []QueuedRunIsReachable
<1>1. DispatchInv => QueuedRunIsReachable
  BY DEF DispatchInv
<1> QED
  BY <1>1, DispatchInvInit, DispatchInvStep, RowInvCorrect, PTL DEF Spec

-----------------------------------------------------------------------------
(* Who may fail a run that a live delivery owns *)

\* A finished job stays finished unless Redis loses it.
Finished(r) == job[r].state \in {"completed", "failed"}

LEMMA FinishedStays ==
    ASSUME RowInv, [Next]_vars, NEW r \in Runs, Finished(r)
    PROVE  job'[r].state = job[r].state \/ JobLost(r)
<1>1. job \in [Runs -> Jobs] /\ job[r] \in Jobs
  BY DEF RowInv, TypeOK
<1>2. CASE UNCHANGED job
  BY <1>2
<1>3. CASE OwnerNext
  BY <1>1, <1>3, ZenonT(60)
  DEF OwnerNext, StartGeneration, RetryGeneration, RegenerateBook,
      CreateRunAndSchedule, CancelGeneration, RemoveBook, RequestHardDeletion,
      RemoveIfSafe, RemovalLost, Finished
<1>4. CASE DispatcherNext
  BY <1>1, <1>4
  DEF DispatcherNext, FindPending, Enqueue, MarkDispatched, DispatchFails,
      DispatcherCrash, Finished
<1>5. CASE QueueNext
  BY <1>1, <1>5 DEF QueueNext, StallOrphan, StallLive, Stall, JobLost, Finished
<1>6. ASSUME NEW w \in Workers, WorkerStep(w) \/ WorkerTimers(w) \/ WorkerCrash(w)
      PROVE  job'[r].state = job[r].state
  <2>1. ASSUME NEW q \in Runs, PickUp(w, q) PROVE job'[r].state = job[r].state
    BY <1>1, <2>1 DEF PickUp, Finished
  <2>2. CASE JobCompletes(w) \/ JobFails(w)
    BY <1>1, <2>2 DEF JobCompletes, JobFails, HoldsLock, Finished
  <2> QED
    BY <1>2, <1>6, <2>1, <2>2
    DEF WorkerStep, WorkerTimers, Claim, ClaimRefused, StartPipeline,
        FailInvalidSnapshot, PipelineStopped, DeliveryThrows, StoryFails, EnterRender,
        StorePdf, RenderFails, CollectOutcome, CompleteRun, Settle, FailDeadline,
        ReadExhausted, FailExhausted, Heartbeat, HeartbeatRejected, HeartbeatError,
        DeadlineFires, WorkerCrash
<1>7. CASE ClockNext \/ SweeperNext \/ UNCHANGED vars
  BY <1>2, <1>7
  DEF ClockNext, Clock, LeaseExpires, QueueWaitExpires, SweeperNext, SweepStep,
      SelectCandidate, CheckPending, Recover, SweepStops, vars
<1> QED
  BY <1>3, <1>4, <1>5, <1>6, <1>7 DEF Next, WorkerNext

\* A delivery keeps its run, and only a job spent for good makes it exhausted.
Exhausted(w) == worker[w].step \in {"exhausted", "backstop"}

LEMMA DeliveryStep ==
    ASSUME RowInv, [Next]_vars, NEW w \in Workers, worker'[w].step # "idle"
    PROVE  \/ \E r \in Runs : PickUp(w, r) /\ worker'[w].run = r /\ ~Exhausted(w)'
           \/ /\ worker[w].step # "idle" /\ worker'[w].run = worker[w].run
              /\ Exhausted(w)' => Exhausted(w) \/ job'[worker[w].run].state = "failed"
<1>1. worker \in [Workers -> WorkerStates] /\ worker[w] \in WorkerStates
  BY DEF RowInv, TypeOK
<1>2. CASE worker'[w] = worker[w]
  BY <1>2 DEF Exhausted
<1>3. CASE WorkerStep(w) \/ WorkerTimers(w) \/ WorkerCrash(w)
  <2>1. ASSUME NEW step \in WorkerSteps \ {"exhausted", "backstop"}, Goto(w, step),
               worker[w].step # "idle"
        PROVE  /\ worker'[w].run = worker[w].run
               /\ ~Exhausted(w)'
    BY <1>1, <2>1 DEF Goto, Leaving, IdleWorker, WorkerStates, Exhausted
  <2>2. ASSUME NEW reason, AbortWith(w, reason)
        PROVE  /\ worker'[w].step = worker[w].step
               /\ worker'[w].run = worker[w].run
    BY <1>1, <2>2 DEF AbortWith, WorkerStates
  <2>3. CASE WorkerTimers(w)
    BY <1>1, <1>2, <2>2, <2>3
    DEF WorkerTimers, Heartbeat, HeartbeatRejected, HeartbeatError, DeadlineFires,
        Beating, Exhausted
  <2>4. ~(JobCompletes(w) \/ FailExhausted(w) \/ WorkerCrash(w))
    BY <1>1 DEF JobCompletes, FailExhausted, WorkerCrash, IdleWorker
  <2>5. ASSUME NEW r \in Runs, PickUp(w, r)
        PROVE  worker'[w].run = r /\ ~Exhausted(w)'
    <3>1. worker'[w] = [IdleWorker EXCEPT !.step = "claim", !.run = r,
                                         !.token = job[r].token + 1]
      BY <1>1, <2>5 DEF PickUp
    <3>2. worker'[w].step = "claim" /\ worker'[w].run = r
      BY <3>1 DEF IdleWorker
    <3> QED
      BY <3>2 DEF Exhausted
  <2>6. CASE ClaimRefused(w) \/ StartPipeline(w) \/ PipelineStopped(w)
             \/ DeliveryThrows(w) \/ EnterRender(w) \/ CollectOutcome(w)
    BY <2>1, <2>6
    DEF ClaimRefused, StartPipeline, PipelineStopped, DeliveryThrows, EnterRender,
        CollectOutcome, At, Beating, WorkerSteps
  <2>7. CASE FailInvalidSnapshot(w) \/ FailDeadline(w) \/ CompleteRun(w) \/ Settle(w)
    BY <2>1, <2>7
    DEF FailInvalidSnapshot, FailDeadline, AfterFinalize, CompleteRun, Settle, At,
        WorkerSteps
  <2>8. CASE Claim(w) \/ StoryFails(w) \/ StorePdf(w) \/ RenderFails(w)
    BY <1>1, <2>8
    DEF Claim, StoryFails, StorePdf, RenderFails, At, WorkerStates, Exhausted
  <2>9. CASE JobFails(w)
    <3> DEFINE spent == Leaving(worker[w], "exhausted")
    <3>1. spent.run = worker[w].run
      BY DEF Leaving, IdleWorker
    <3>2. /\ worker'[w] = spent \/ worker'[w] = IdleWorker
          /\ worker'[w] # IdleWorker =>
                HoldsLock(w) /\ job[worker[w].run].attemptsMade + 1 >= MaxAttempts
      BY <1>1, <2>9 DEF JobFails
    <3>3. worker'[w] # IdleWorker
      BY DEF IdleWorker
    <3>4. worker[w].run \in Runs /\ job[worker[w].run] \in Jobs
      BY <2>9 DEF JobFails, At, RowInv, TypeOK
    <3>5. job' = [job EXCEPT ![worker[w].run].attemptsMade = job[worker[w].run].attemptsMade + 1,
                             ![worker[w].run].state =
                                IF job[worker[w].run].attemptsMade + 1 < MaxAttempts
                                THEN "waiting" ELSE "failed"]
      BY <2>9, <3>2, <3>3 DEF JobFails
    <3>6. ~(job[worker[w].run].attemptsMade + 1 < MaxAttempts)
      BY <3>2, <3>3, <3>4, GenerationRunAssumption DEF Jobs
    <3>7. job'[worker[w].run].state = "failed"
      BY <3>4, <3>5, <3>6 DEF Jobs, RowInv, TypeOK
    <3> HIDE DEF spent
    <3> QED
      BY <2>9, <3>1, <3>2, <3>3, <3>7 DEF JobFails, At
  <2>10. CASE ReadExhausted(w)
    <3> DEFINE backstop == [worker[w] EXCEPT !.step = "backstop",
                                             !.fence = fence[worker[w].run]]
    <3>1. backstop.run = worker[w].run
      BY <1>1 DEF WorkerStates
    <3>2. worker'[w] = backstop \/ worker'[w] = IdleWorker
      BY <1>1, <2>10 DEF ReadExhausted
    <3>3. worker'[w] # IdleWorker
      BY DEF IdleWorker
    <3> HIDE DEF backstop
    <3> QED
      BY <2>10, <3>1, <3>2, <3>3 DEF ReadExhausted, At, Exhausted
  <2> QED
    BY <1>3, <2>3, <2>4, <2>5, <2>6, <2>7, <2>8, <2>9, <2>10 DEF WorkerStep
<1> QED
  BY <1>2, <1>3, OneWorkerMoves

\* A recovery pass moves by its own steps.
LEMMA OneSweeperMoves ==
    ASSUME RowInv, [Next]_vars, NEW s \in Sweepers, sweeper'[s] # sweeper[s]
    PROVE  SweepStep(s) \/ SweepStops(s)
<1>1. ASSUME NEW t \in Sweepers, t # s, SweepStep(t) \/ SweepStops(t)
      PROVE  sweeper'[s] = sweeper[s]
  BY <1>1
  DEF RowInv, TypeOK, SweepStep, SelectCandidate, CheckPending, Recover, SweepStops
<1>2. CASE WorkerNext
  BY <1>2, ZenonT(60)
  DEF WorkerNext, WorkerStep, WorkerTimers, PickUp, Claim, ClaimRefused, StartPipeline,
      FailInvalidSnapshot, PipelineStopped, DeliveryThrows, StoryFails, EnterRender,
      StorePdf, RenderFails, CollectOutcome, CompleteRun, Settle, FailDeadline,
      JobCompletes, JobFails, ReadExhausted, FailExhausted, Heartbeat,
      HeartbeatRejected, HeartbeatError, DeadlineFires, WorkerCrash
<1>3. CASE OwnerNext \/ DispatcherNext \/ QueueNext \/ ClockNext \/ UNCHANGED vars
  BY <1>3, ZenonT(60)
  DEF OwnerNext, StartGeneration, RetryGeneration, RegenerateBook,
      CreateRunAndSchedule, CancelGeneration, RequestHardDeletion, RemoveBook,
      RemoveIfSafe, RemovalLost, DispatcherNext, FindPending, Enqueue, MarkDispatched,
      DispatchFails, DispatcherCrash, QueueNext, StallOrphan, StallLive, Stall, JobLost,
      ClockNext, Clock, LeaseExpires, QueueWaitExpires, vars
<1> QED
  BY <1>1, <1>2, <1>3 DEF Next, SweeperNext

\* Who fails a running run, and on what it had read.
LEMMA FailedBy ==
    ASSUME RowInv, [Next]_vars, NEW r \in Runs, runStatus[r] = "running",
           runStatus'[r] = "failed"
    PROVE  \/ \E w \in Workers :
                /\ \/ FailInvalidSnapshot(w) \/ FailDeadline(w) \/ FailExhausted(w)
                   \/ CompleteRun(w)
                /\ worker[w].run = r /\ worker[w].fence = fence[r]
           \/ \E s \in Sweepers : /\ Recover(s)
                                  /\ sweeper[s].run = r /\ sweeper[s].status = "running"
<1>1. runStatus \in [Runs -> RunStatuses]
  BY DEF RowInv, TypeOK
<1>2. ASSUME NEW q \in Runs, NEW status, NEW f, FailAbandoned(q, status, f)
      PROVE  q = r /\ status = "running" /\ f = fence[r]
  BY <1>1, <1>2 DEF FailAbandoned, TerminalOutcome, FailRun, EndRun, dbVars, runVars
<1>3. CASE OwnerNext
  <2>1. ASSUME NEW rs, CancelRuns(rs) PROVE FALSE
    BY <2>1 DEF CancelRuns
  <2>2. ASSUME NEW b \in Books, NEW q \in Runs, NEW from, CreateRunAndSchedule(b, q, from)
        PROVE  FALSE
    BY <1>1, <2>2 DEF CreateRunAndSchedule
  <2> QED
    BY <1>3, <2>1, <2>2
    DEF OwnerNext, StartGeneration, RetryGeneration, RegenerateBook, CancelGeneration,
        RequestHardDeletion, RemoveBook, RemoveIfSafe, RemovalLost, dbVars, runVars
<1>4. ASSUME NEW w \in Workers, WorkerStep(w) \/ WorkerTimers(w) \/ WorkerCrash(w)
      PROVE  /\ \/ FailInvalidSnapshot(w) \/ FailDeadline(w) \/ FailExhausted(w)
                \/ CompleteRun(w)
             /\ worker[w].run = r /\ worker[w].fence = fence[r]
  <2>1. worker[w].step # "idle" => worker[w].run \in Runs
    BY DEF RowInv, TypeOK
  <2>2. CASE FailInvalidSnapshot(w) \/ FailDeadline(w) \/ FailExhausted(w)
    BY <1>2, <2>1, <2>2 DEF FailInvalidSnapshot, FailDeadline, FailExhausted, At
  <2>3. CASE CompleteRun(w)
    <3>1. TerminalOutcome(worker[w].run, "running", worker[w].fence, ~worker[w].ok)
             = "applied"
      BY <2>3 DEF CompleteRun, dbVars, runVars
    <3>2. fence[worker[w].run] = worker[w].fence
      BY <3>1 DEF TerminalOutcome
    <3>3. worker[w].run = r
      BY <1>1, <2>1, <2>3, <3>1 DEF CompleteRun, At, PublishRun, FailRun, EndRun
    <3> QED
      BY <2>3, <3>2, <3>3
  <2>4. CASE Claim(w)
    BY <1>1, <2>4 DEF Claim
  <2> QED
    BY <1>4, <2>2, <2>3, <2>4
    DEF WorkerStep, WorkerTimers, PickUp, ClaimRefused, StartPipeline, PipelineStopped,
        DeliveryThrows, StoryFails, EnterRender, StorePdf, RenderFails, CollectOutcome,
        Settle, JobCompletes, JobFails, ReadExhausted, Heartbeat, HeartbeatRejected,
        HeartbeatError, DeadlineFires, WorkerCrash, dbVars, runVars
<1>5. ASSUME NEW s \in Sweepers, SweepStep(s) \/ SweepStops(s)
      PROVE  Recover(s) /\ sweeper[s].run = r /\ sweeper[s].status = "running"
  <2>1. CASE Recover(s)
    <3>1. sweeper[s].run \in Runs
      BY <2>1 DEF Recover, RowInv, TypeOK
    <3> QED
      BY <1>2, <2>1, <3>1 DEF Recover
  <2> QED
    BY <1>5, <2>1
    DEF SweepStep, SelectCandidate, CheckPending, SweepStops, dbVars, runVars
<1>6. CASE DispatcherNext \/ QueueNext \/ ClockNext \/ UNCHANGED vars
  BY <1>6
  DEF DispatcherNext, FindPending, Enqueue, MarkDispatched, DispatchFails,
      DispatcherCrash, QueueNext, StallOrphan, StallLive, Stall, JobLost, ClockNext,
      Clock, LeaseExpires, QueueWaitExpires, vars, dbVars, runVars
<1> QED
  BY <1>3, <1>4, <1>5, <1>6 DEF Next, WorkerNext, SweeperNext

\* What a recovery pass knows of its candidate, and a delivery of its job, as
\* long as Redis has lost no job: a pass goes on to fail a running run only once
\* its job is finished, and so is the job of an exhausted delivery.
CandidateInv ==
    \A s \in Sweepers : sweeper[s].step # "idle" =>
        /\ sweeper[s].queueWaitExpired => sweeper[s].status = "queued"
        /\ sweeper[s].status = "running" =>
              runStatus[sweeper[s].run] \in {"running"} \cup Ended

JobInv ==
    /\ \A w \in Workers : worker[w].step # "idle" =>
          job[worker[w].run].state # "missing" \/ runStatus[worker[w].run] = "cancelled"
    /\ \A r \in Runs : runStatus[r] = "running" => job[r].state # "missing"
    /\ \A w \in Workers : Exhausted(w) => job[worker[w].run].state = "failed"
    /\ \A s \in Sweepers :
          sweeper[s].step = "fail" /\ sweeper[s].status = "running" =>
             Finished(sweeper[s].run) \/ runStatus[sweeper[s].run] \in Ended

LiveInv == CandidateInv /\ (faults.jobs = 0 => JobInv)

LEMMA CandidateInvStep == RowInv /\ CandidateInv /\ [Next]_vars => CandidateInv'
<1> SUFFICES ASSUME RowInv, CandidateInv, [Next]_vars, NEW s \in Sweepers,
                    sweeper'[s].step # "idle"
             PROVE  /\ sweeper'[s].queueWaitExpired => sweeper'[s].status = "queued"
                    /\ sweeper'[s].status = "running" =>
                          runStatus'[sweeper'[s].run] \in {"running"} \cup Ended
  BY DEF CandidateInv
<1>1. sweeper \in [Sweepers -> SweeperStates] /\ sweeper[s] \in SweeperStates
  BY DEF RowInv, TypeOK
<1>2. ASSUME sweeper[s].step # "idle", sweeper'[s].run = sweeper[s].run,
             sweeper'[s].status = sweeper[s].status,
             sweeper'[s].queueWaitExpired = sweeper[s].queueWaitExpired
      PROVE  /\ sweeper'[s].queueWaitExpired => sweeper'[s].status = "queued"
             /\ sweeper'[s].status = "running" =>
                   runStatus'[sweeper'[s].run] \in {"running"} \cup Ended
  <2>1. sweeper[s].run \in Runs
    BY <1>2 DEF RowInv, TypeOK
  <2> QED
    BY <1>2, <2>1, StatusStep DEF CandidateInv, Ended
<1>3. ASSUME NEW r \in Runs, SelectCandidate(s, r)
      PROVE  /\ sweeper'[s].queueWaitExpired => sweeper'[s].status = "queued"
             /\ sweeper'[s].status = "running" =>
                   runStatus'[sweeper'[s].run] \in {"running"} \cup Ended
  BY <1>1, <1>3 DEF SelectCandidate, dbVars, runVars
<1>4. CASE CheckPending(s)
  BY <1>1, <1>2, <1>4 DEF CheckPending, SweeperStates, IdleSweeper
<1>5. CASE Recover(s) \/ SweepStops(s)
  BY <1>1, <1>5 DEF Recover, SweepStops, IdleSweeper
<1>6. CASE sweeper'[s] = sweeper[s]
  BY <1>2, <1>6
<1> QED
  BY <1>3, <1>4, <1>5, <1>6, OneSweeperMoves DEF SweepStep

LEMMA JobInvStep ==
    ASSUME RowInv, DispatchInv, CandidateInv, JobInv, [Next]_vars, faults'.jobs = 0
    PROVE  JobInv'
<1>1. faults.jobs = 0 /\ \A r \in Runs : ~JobLost(r)
  BY NoLossSoFar
<1>2. ASSUME NEW r \in Runs, job[r].state # "missing"
      PROVE  job'[r].state # "missing" \/ runStatus'[r] = "cancelled"
  <2>1. CASE r \in removals
    <3>1. runStatus[r] = "cancelled"
      BY <2>1 DEF DispatchInv
    <3> QED
      BY <3>1, EndedStays DEF Ended
  <2> QED
    BY <1>1, <1>2, <2>1, JobStays DEF RemoveIfSafe
<1>3. ASSUME NEW w \in Workers, worker'[w].step # "idle"
      PROVE  \/ job'[worker'[w].run].state # "missing"
             \/ runStatus'[worker'[w].run] = "cancelled"
  <2>1. ASSUME NEW r \in Runs, PickUp(w, r), worker'[w].run = r
        PROVE  job'[r].state # "missing"
    BY <2>1 DEF PickUp, RowInv, TypeOK, Jobs
  <2>2. CASE worker[w].step # "idle" /\ worker'[w].run = worker[w].run
    <3>1. worker[w].run \in Runs
      BY <2>2 DEF RowInv, TypeOK
    <3>2. runStatus[worker[w].run] = "cancelled" => runStatus'[worker[w].run] = "cancelled"
      BY <3>1, EndedStays DEF Ended
    <3> QED
      BY <1>2, <2>2, <3>1, <3>2 DEF JobInv
  <2> QED
    BY <1>3, <2>1, <2>2, DeliveryStep
<1>4. ASSUME NEW r \in Runs, runStatus'[r] = "running" PROVE job'[r].state # "missing"
  <2>1. CASE runStatus[r] = "running"
    BY <1>2, <1>4, <2>1 DEF JobInv
  <2>2. CASE runStatus[r] # "running"
    <3>1. PICK w \in Workers : Claim(w) /\ worker[w].run = r
      <4>1. ASSUME NEW w \in Workers, Claim(w) PROVE worker[w].run = r
        BY <1>4, <2>2, <4>1 DEF Claim, RowInv, TypeOK
      <4>2. \E w \in Workers : Claim(w)
        BY <1>4, <2>2, ClaimStarts
      <4> QED
        BY <4>1, <4>2
    <3>2. job[r].state # "missing"
      BY <3>1 DEF Claim, At, Claimable, JobInv
    <3> QED
      BY <1>2, <1>4, <3>2
  <2> QED
    BY <2>1, <2>2
<1>5. ASSUME NEW w \in Workers, Exhausted(w)' PROVE job'[worker'[w].run].state = "failed"
  <2>1. worker'[w].step # "idle"
    BY <1>5 DEF Exhausted
  <2>2. /\ worker[w].step # "idle" /\ worker'[w].run = worker[w].run
        /\ Exhausted(w) \/ job'[worker[w].run].state = "failed"
    BY <1>5, <2>1, DeliveryStep
  <2>3. worker[w].run \in Runs
    BY <2>2 DEF RowInv, TypeOK
  <2>4. Exhausted(w) => job[worker[w].run].state = "failed"
    BY DEF JobInv
  <2> QED
    BY <1>1, <2>2, <2>3, <2>4, FinishedStays DEF Finished
<1>6. ASSUME NEW s \in Sweepers, sweeper'[s].step = "fail", sweeper'[s].status = "running"
      PROVE  Finished(sweeper[s].run)' \/ runStatus'[sweeper'[s].run] \in Ended
  <2>1. sweeper \in [Sweepers -> SweeperStates] /\ sweeper[s] \in SweeperStates
    BY DEF RowInv, TypeOK
  <2>2. ASSUME sweeper[s].step # "idle", sweeper'[s].run = sweeper[s].run,
               Finished(sweeper[s].run) \/ runStatus[sweeper[s].run] \in Ended
        PROVE  Finished(sweeper[s].run)' \/ runStatus'[sweeper'[s].run] \in Ended
    <3>1. sweeper[s].run \in Runs
      BY <2>2 DEF RowInv, TypeOK
    <3> QED
      BY <1>1, <2>2, <3>1, FinishedStays, EndedStays DEF Finished
  <2>3. CASE sweeper'[s] = sweeper[s]
    BY <1>6, <2>2, <2>3 DEF JobInv
  <2>4. CASE CheckPending(s)
    <3>1. /\ sweeper[s].step = "candidate" /\ sweeper[s].run \in Runs
          /\ sweeper'[s].run = sweeper[s].run /\ sweeper'[s].status = sweeper[s].status
          /\ sweeper[s].queueWaitExpired \/ ~JobStillPending(job[sweeper[s].run])
      BY <1>6, <2>1, <2>4 DEF CheckPending, SweeperStates, IdleSweeper, RowInv, TypeOK
    <3>2. ~JobStillPending(job[sweeper[s].run])
             /\ runStatus[sweeper[s].run] \in {"running"} \cup Ended
      BY <1>6, <3>1 DEF CandidateInv
    <3>3. job[sweeper[s].run].state \in {"missing", "completed", "failed"}
      BY <3>1, <3>2 DEF JobStillPending, RowInv, TypeOK, Jobs, JobStates
    <3>4. Finished(sweeper[s].run) \/ runStatus[sweeper[s].run] \in Ended
      BY <3>1, <3>2, <3>3 DEF JobInv, Finished
    <3> QED
      BY <2>2, <3>1, <3>4
  <2>5. ~(\E r \in Runs : SelectCandidate(s, r))
    BY <1>6, <2>1 DEF SelectCandidate
  <2>6. ~(Recover(s) \/ SweepStops(s))
    BY <1>6, <2>1 DEF Recover, SweepStops, IdleSweeper
  <2> QED
    BY <2>3, <2>4, <2>5, <2>6, OneSweeperMoves DEF SweepStep
<1> QED
  BY <1>3, <1>4, <1>5, <1>6 DEF JobInv, Finished

\* When Redis loses no job, a delivery that holds its job's lock and owns its
\* run is failed by nobody else: the fence keeps out every other delivery, and
\* a recovery pass or an exhausted delivery acts only on a finished job.  (With
\* a lost and redispatched job the exhausted callback may read the fence of the
\* new owner.)
THEOREM LiveOwnersSafe == JobLosses = 0 /\ Spec => LiveOwnerNotAbandoned
<1> DEFINE Inv == RowInv /\ ExclusiveClaims /\ DispatchInv /\ LiveInv
                    /\ (JobLosses = 0 => faults.jobs = 0)
           Kept(w) == /\ HoldsLock(w) /\ Beating(w) /\ OwnsRun(w)
                      /\ runStatus'[worker[w].run] = "failed"
                      => worker'[w] # worker[w]
<1> SUFFICES ASSUME JobLosses = 0 PROVE Spec => LiveOwnerNotAbandoned
  OBVIOUS
<1>1. Init => Inv
  BY RowInvInit, DispatchInvInit
  DEF Init, ExclusiveClaims, Claimed, Beating, At, LiveInv, CandidateInv, JobInv,
      Exhausted, IdleWorker, IdleSweeper
<1>2. Inv /\ [Next]_vars => Inv'
  <2> SUFFICES ASSUME Inv, [Next]_vars PROVE Inv'
    OBVIOUS
  <2>1. RowInv' /\ ExclusiveClaims' /\ DispatchInv' /\ CandidateInv'
    BY RowInvStep, ClaimsStep, DispatchInvStep, CandidateInvStep DEF LiveInv
  <2>2. faults'.jobs = 0 => JobInv'
    BY NoLossSoFar, JobInvStep DEF LiveInv
  <2>3. JobLosses = 0 => faults'.jobs = 0
    BY JobLossStep
  <2> QED
    BY <2>1, <2>2, <2>3 DEF LiveInv
<1>3. ASSUME Inv, [Next]_vars, NEW w \in Workers, HoldsLock(w), Beating(w),
             OwnsRun(w), runStatus'[worker[w].run] = "failed"
      PROVE  worker'[w] # worker[w]
  <2> DEFINE r == worker[w].run
  <2>1. r \in Runs /\ runStatus[r] = "running" /\ worker[w].fence = fence[r]
           /\ job[r].state = "active" /\ Claimed(w) /\ worker[w] \in WorkerStates
    BY <1>3 DEF Beating, OwnsRun, HoldsLock, Claimed, RowInv, TypeOK
  <2>2. JobInv
    BY <1>3 DEF LiveInv
  <2>3. ASSUME NEW s \in Sweepers, Recover(s), sweeper[s].run = r,
               sweeper[s].status = "running"
        PROVE  FALSE
    BY <2>1, <2>2, <2>3 DEF Recover, JobInv, Finished, Ended
  <2>4. ASSUME NEW v \in Workers, FailExhausted(v), worker[v].run = r PROVE FALSE
    BY <2>1, <2>2, <2>4 DEF FailExhausted, At, Exhausted, JobInv
  <2>5. ASSUME NEW v \in Workers, FailInvalidSnapshot(v) \/ FailDeadline(v) \/ CompleteRun(v),
               worker[v].run = r, worker[v].fence = fence[r]
        PROVE  worker'[w] # worker[w]
    <3>1. Claimed(v)
      BY <2>5 DEF FailInvalidSnapshot, FailDeadline, CompleteRun, At, Claimed, Beating
    <3>2. v = w
      BY <1>3, <2>1, <2>5, <3>1 DEF ExclusiveClaims
    <3>3. CASE FailInvalidSnapshot(w)
      BY <1>3, <3>3 DEF FailInvalidSnapshot, At, Beating
    <3>4. ASSUME NEW step \in {"settle", "resolve", "throw"}, Goto(w, step)
          PROVE  worker'[w].step = step
      <4>1. worker \in [Workers -> WorkerStates]
        BY <1>3 DEF RowInv, TypeOK
      <4> QED
        BY <2>1, <3>4, <4>1 DEF Goto, Leaving, IdleWorker, WorkerStates
    <3>5. CASE FailDeadline(w) \/ CompleteRun(w)
      BY <3>4, <3>5 DEF FailDeadline, CompleteRun, AfterFinalize, At
    <3> QED
      BY <2>5, <3>2, <3>3, <3>5
  <2> QED
    BY <1>3, <2>1, <2>3, <2>4, <2>5, FailedBy
<1>4. Inv /\ [Next]_vars => [\A w \in Workers : Kept(w)]_vars
  BY <1>3
<1> QED
  BY <1>1, <1>2, <1>4, PTL DEF Spec, LiveOwnerNotAbandoned

=============================================================================
