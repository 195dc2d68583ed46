-------------------------- MODULE AuthoringExperiment --------------------------
(***************************************************************************)
(* The paid authoring experiment (interactive/authoring/experiment): one   *)
(* authoring run per brief through the pipeline (a generation and at most  *)
(* one repair), with a checkpoint of the manifest around every paid call,  *)
(* and the readers that must make sense of whatever a run, a failed write, *)
(* a cancellation or a killed process leaves on disk: the manifest         *)
(* inspection, the run report parser and the comparison report.            *)
(*                                                                         *)
(* A file is its content.  The manifest's totals, coverage and budget      *)
(* claim are not stored: writer and reader derive them from the entries    *)
(* with the same functions (Observed).  Candidates are reduced to whether  *)
(* validation accepts them.                                                *)
(***************************************************************************)
EXTENDS Naturals, Sequences, FiniteSets, Functions, SequencesExt

CONSTANTS Briefs,          \* how many briefs the corpus has
          MaxRequests, MaxHttpAttempts,   \* per brief: requests, HTTP attempts
          ResponseAttempts, \* HTTP attempts a response may report
          MaxFaults,       \* bound: failing writes, cancellations, deadlines
          Null

ASSUME ExperimentBounds == {Briefs, MaxRequests, MaxHttpAttempts, MaxFaults} \subseteq Nat

VARIABLES runner,   \* the process: where it is and what it holds in memory
          disk,     \* manifest, run reports, route reviews, comparison, directory name
          provider, \* per brief: requests dispatched and HTTP attempts really made
          faults    \* faults so far

experimentVars == <<runner, disk, provider, faults>>
Corpus == 1..Briefs

Unattempted ==
    [status |-> "unattempted", outcome |-> Null, stop |-> Null, repaired |-> Null,
     requests |-> Null, attempts |-> Null, usage |-> "NONE",
     report |-> Null, review |-> Null, approval |-> Null]
Stop(kind, reason) == [kind |-> kind, reason |-> reason]
Halt(kind, entry, reason) == [kind |-> kind, entry |-> entry, reason |-> reason]
SumOf(numbers) == FoldLeft(LAMBDA a, b : a + b, 0, numbers)
AttemptsOf(requests) == SumOf([k \in DOMAIN requests |-> requests[k].attempts])

ExperimentInit ==
    /\ runner = [pc |-> "start", i |-> 1, entries |-> [i \in Corpus |-> Unattempted],
                 record |-> Unattempted, halt |-> Null, reasons |-> {},
                 sigint |-> FALSE, aborted |-> Null, requests |-> <<>>, report |-> Null]
    /\ disk = [manifest |-> Null, runs |-> [i \in Corpus |-> Null], reviews |-> {},
               comparison |-> Null, name |-> "incomplete"]
    /\ provider = [i \in Corpus |-> [requests |-> 0, attempts |-> 0]]
    /\ faults = 0

----------------------------------------------------------------------------
(* Writing. *)

\* summarizeObservation.
Observed(entries, state) ==
    LET reported == SelectSeq(entries, LAMBDA e : e.usage = "REPORTED")
        unknown == SelectSeq(entries, LAMBDA e : e.usage = "UNKNOWN")
        requests == SumOf([k \in DOMAIN reported |-> reported[k].requests])
        attempts == SumOf([k \in DOMAIN reported |-> reported[k].attempts])
        covered == state = "FINAL" /\ unknown = <<>>
    IN  [requests |-> requests, attempts |-> attempts,
         coverage |-> IF covered THEN "COMPLETE" ELSE "PARTIAL",
         withinBudget |-> IF \/ requests > Len(entries) * MaxRequests
                             \/ attempts > Len(entries) * MaxHttpAttempts THEN FALSE
                          ELSE IF covered THEN TRUE ELSE Null]

AllCompleted(entries) == \A i \in DOMAIN entries : entries[i].status = "completed"
\* buildManifest.
Manifest(r, state, comparison) ==
    [state |-> state, entries |-> r.entries, halt |-> r.halt,
     status |-> IF state = "FINAL" /\ r.reasons = {} /\ AllCompleted(r.entries)
                THEN "COMPLETE" ELSE "INCOMPLETE",
     reasons |-> IF state = "IN_PROGRESS" THEN r.reasons \cup {"IN_PROGRESS"} ELSE r.reasons,
     observed |-> Observed(r.entries, state), comparison |-> comparison]

\* Mutant: the last halt cause wins.
WriteFailedLastWins(r, kind) ==
    [r EXCEPT !.reasons = @ \cup {kind}, !.halt = Halt(kind, r.i, Null)]
\* markWriteFailure: the first halt cause wins.
WriteFailed(r, kind) ==
    IF r.halt # Null THEN [r EXCEPT !.reasons = @ \cup {kind}]
    ELSE [r EXCEPT !.reasons = @ \cup {kind}, !.halt = Halt(kind, r.i, Null),
                   !.record.status = "stopped", !.record.stop = Stop(kind, Null)]

Fault == faults < MaxFaults /\ faults' = faults + 1
\* replaceFileAtomically: the whole new manifest, or the previous one.
RunCheckpointed(r, comparison, state, written, failed) ==
    \/ /\ disk' = [disk EXCEPT !.manifest = Manifest(r, state, comparison)]
       /\ runner' = written /\ UNCHANGED faults
    \/ /\ Fault /\ runner' = failed /\ UNCHANGED disk

StartExperiment ==
    /\ runner.pc = "start"
    /\ RunCheckpointed(runner, Null, "IN_PROGRESS",
                    [runner EXCEPT !.pc = "next"], [runner EXCEPT !.pc = "ended"])
    /\ UNCHANGED provider

NextEntry(r) == [r EXCEPT !.pc = IF r.i = Briefs THEN "compare" ELSE "next",
                      !.i = IF r.i = Briefs THEN @ ELSE @ + 1,
                      !.record = Unattempted, !.requests = <<>>, !.aborted = Null, !.report = Null]
Settled(r) == [r EXCEPT !.entries[r.i] = r.record]

SkipEntry ==
    /\ runner.pc = "next" /\ (runner.halt # Null \/ runner.sigint)
    /\ runner' = NextEntry(IF runner.halt # Null THEN runner
                       ELSE [runner EXCEPT !.halt = Halt("CANCELLED", Null, Null),
                                           !.reasons = @ \cup {"CANCELLED"}])
    /\ UNCHANGED <<disk, provider, faults>>

\* Mutant: the brief is handed over before its in-flight status is on disk.
OpenEntryUnrecorded ==
    /\ runner.pc = "next" /\ runner.halt = Null /\ ~runner.sigint
    /\ runner' = [runner EXCEPT !.entries[runner.i] = [Unattempted EXCEPT !.status = "awaiting_response", !.usage = "UNKNOWN"],
                                !.pc = "phase"]
    /\ UNCHANGED <<disk, provider, faults>>
\* Mutant: only a cancellation stops the loop.
OpenEntryAfterHalt ==
    LET waiting == [Unattempted EXCEPT !.status = "awaiting_response", !.usage = "UNKNOWN"]
        opened == [runner EXCEPT !.entries[runner.i] = waiting, !.pc = "phase"]
    IN  /\ runner.pc = "next" /\ ~runner.sigint
        /\ RunCheckpointed(opened, Null, "IN_PROGRESS", opened,
                        NextEntry(Settled(WriteFailed(runner, "CHECKPOINT_WRITE_FAILED"))))
        /\ UNCHANGED provider
\* The in-flight status is durable before the provider sees the brief.
OpenEntry ==
    LET waiting == [Unattempted EXCEPT !.status = "awaiting_response", !.usage = "UNKNOWN"]
        opened == [runner EXCEPT !.entries[runner.i] = waiting, !.pc = "phase"]
    IN  /\ runner.pc = "next" /\ runner.halt = Null /\ ~runner.sigint
        /\ RunCheckpointed(opened, Null, "IN_PROGRESS", opened,
                        NextEntry(Settled(WriteFailed(runner, "CHECKPOINT_WRITE_FAILED"))))
        /\ UNCHANGED provider

----------------------------------------------------------------------------
(* The pipeline (runAuthoring). *)

Phase(requests) == IF requests = <<>> THEN "generate" ELSE "repair"
Request(attempts, outcome, validation) ==
    [phase |-> Phase(runner.requests), attempts |-> attempts,
     outcome |-> outcome, validation |-> validation]

\* The entry's result, and the report writeRunArtifacts will write of it.
Resulted(r, outcome, requests, reason, phase, disposition) ==
    [r EXCEPT !.pc = "record", !.requests = requests,
       !.report = [status |-> outcome, requests |-> requests, reason |-> reason,
                   phase |-> phase, disposition |-> disposition,
                   repaired |-> outcome = "REVIEW_REQUIRED" /\ Len(requests) = 2],
       !.record = [Unattempted EXCEPT
          !.status = IF outcome = "STOPPED" THEN "stopped" ELSE "completed",
          !.outcome = outcome, !.usage = "REPORTED",
          !.stop = IF outcome # "STOPPED" THEN Null
                   ELSE Stop(IF reason = "CANCELLED" THEN "CANCELLED" ELSE "PROVIDER_STOP", reason),
          !.repaired = IF outcome = "REVIEW_REQUIRED" THEN Len(requests) = 2 ELSE Null,
          !.requests = Len(requests), !.attempts = AttemptsOf(requests)]]
Stopped(r, requests, reason, phase) == Resulted(r, "STOPPED", requests, reason, phase, Null)
AnsweredSoFar(request) == Append(runner.requests, request)
Unanswered(r, requests, reason) == Stopped(r, requests, reason, Phase(runner.requests))

\* Mutant: an aborted run goes round its loop without a result.
AbortGoesRound == runner.pc = "phase" /\ runner.aborted # Null /\ UNCHANGED experimentVars
AbortBeforeDispatch ==
    /\ runner.pc = "phase" /\ runner.aborted # Null
    /\ runner' = Unanswered(runner, runner.requests, runner.aborted)
    /\ UNCHANGED <<disk, provider, faults>>

\* The brief is invalid or its identity was published meanwhile.
RejectBrief ==
    LET kind == "BRIEF_REJECTED"
        rejected == [Unattempted EXCEPT !.status = "stopped", !.stop = Stop(kind, "IDENTITY")]
        done == [runner EXCEPT !.entries[runner.i] = rejected,
                               !.halt = Halt(kind, runner.i, "IDENTITY"), !.reasons = @ \cup {kind}]
    IN  /\ runner.pc = "phase" /\ runner.requests = <<>> /\ Fault
        /\ \/ runner' = NextEntry(done) /\ disk' = [disk EXCEPT !.manifest = Manifest(done, "IN_PROGRESS", Null)]
           \/ runner' = NextEntry([done EXCEPT !.reasons = @ \cup {"CHECKPOINT_WRITE_FAILED"}]) /\ UNCHANGED disk
        /\ UNCHANGED provider

Dispatch ==
    /\ runner.pc = "phase" /\ runner.aborted = Null
    /\ provider' = [provider EXCEPT ![runner.i].requests = @ + 1]
    /\ runner' = [runner EXCEPT !.pc = "calling"]
    /\ UNCHANGED <<disk, faults>>

Attempted(attempts) == provider' = [provider EXCEPT ![runner.i].attempts = @ + attempts]

\* A refusal, a timeout, a transport failure, or the abort: never repaired.
CallFails ==
    LET reason == IF runner.aborted # Null THEN runner.aborted ELSE "REFUSAL" IN
    /\ runner.pc = "calling"
    /\ \E attempts \in {0, 1} :
         /\ Attempted(attempts)
         /\ runner' = Unanswered(runner, AnsweredSoFar(Request(attempts, reason, Null)), reason)
    /\ UNCHANGED <<disk, faults>>

\* Mutant: a thrown harness error is recorded as no dispatch at all.
HarnessFailsFree ==
    LET kind == "PROVIDER_STOP"
        broken == [Unattempted EXCEPT !.status = "stopped", !.outcome = "STOPPED",
                                      !.stop = Stop(kind, "PROVIDER_ERROR")]
        done == [runner EXCEPT !.entries[runner.i] = broken,
                               !.halt = Halt(kind, runner.i, "PROVIDER_ERROR"), !.reasons = @ \cup {kind}]
    IN  /\ runner.pc = "calling" /\ Fault
        /\ Attempted(1)
        /\ runner' = NextEntry(done) /\ disk' = [disk EXCEPT !.manifest = Manifest(done, "IN_PROGRESS", Null)]
\* runAuthoring itself throws: a request may have been spent, usage stays unknown.
HarnessFails ==
    LET kind == "PROVIDER_STOP"
        broken == [Unattempted EXCEPT !.status = "stopped", !.outcome = "STOPPED",
                                      !.stop = Stop(kind, "PROVIDER_ERROR"), !.usage = "UNKNOWN"]
        done == [runner EXCEPT !.entries[runner.i] = broken,
                               !.halt = Halt(kind, runner.i, "PROVIDER_ERROR"), !.reasons = @ \cup {kind}]
    IN  /\ runner.pc = "calling" /\ Fault
        /\ \E attempts \in {0, 1} : Attempted(attempts)
        /\ \/ runner' = NextEntry(done) /\ disk' = [disk EXCEPT !.manifest = Manifest(done, "IN_PROGRESS", Null)]
           \/ runner' = NextEntry([done EXCEPT !.reasons = @ \cup {"CHECKPOINT_WRITE_FAILED"}]) /\ UNCHANGED disk

\* What the pipeline does with a response.
AfterResponse(attempts, valid) ==
    LET verdict == IF valid THEN "passed" ELSE "failed"
        answered == AnsweredSoFar(Request(attempts, "ok", verdict))
        stopped(reason) == Unanswered(runner, AnsweredSoFar(Request(attempts, reason, Null)), reason)
    IN  IF AttemptsOf(answered) > MaxHttpAttempts THEN stopped("CALL_BUDGET_EXCEEDED")
        ELSE IF runner.aborted # Null THEN stopped(runner.aborted)
        ELSE IF valid THEN Resulted(runner, "REVIEW_REQUIRED", answered, Null, Null, Null)
        ELSE IF Phase(runner.requests) = "repair"
        THEN Resulted(runner, "REJECTED", answered, Null, Null, "attempted")
        ELSE IF Len(answered) >= MaxRequests \/ AttemptsOf(answered) >= MaxHttpAttempts
        THEN Resulted(runner, "REJECTED", answered, Null, Null, "skipped_budget_exhausted")
        ELSE [runner EXCEPT !.requests = answered, !.pc = "phase"]

CallAnswers ==
    /\ runner.pc = "calling"
    /\ \E attempts \in ResponseAttempts, valid \in BOOLEAN :
         /\ Attempted(attempts)
         /\ runner' = AfterResponse(attempts, valid)
    /\ UNCHANGED <<disk, faults>>

InRun == runner.pc \in {"phase", "calling"}
Cancel ==
    /\ ~runner.sigint /\ runner.pc \notin {"ended", "dead"} /\ Fault
    /\ runner' = [runner EXCEPT !.sigint = TRUE,
                    !.aborted = IF InRun /\ @ = Null THEN "CANCELLED" ELSE @]
    /\ UNCHANGED <<disk, provider>>
CommandDeadlinePasses ==
    /\ InRun /\ runner.aborted = Null /\ Fault
    /\ runner' = [runner EXCEPT !.aborted = "DEADLINE_EXCEEDED"]
    /\ UNCHANGED <<disk, provider>>

----------------------------------------------------------------------------
(* Recording a result. *)

\* The counts are durable before any artifact is written.
RecordResult ==
    LET halted == IF runner.record.outcome # "STOPPED" THEN runner
                  ELSE [runner EXCEPT !.halt = Halt(runner.record.stop.kind, runner.i, runner.record.stop.reason),
                                      !.reasons = @ \cup {runner.record.stop.kind}]
        recording == [halted EXCEPT !.entries[runner.i] = [runner.record EXCEPT !.status = "recording"],
                                    !.pc = "artifacts"]
    IN  /\ runner.pc = "record"
        /\ RunCheckpointed(recording, Null, "IN_PROGRESS", recording,
                        WriteFailed(recording, "CHECKPOINT_WRITE_FAILED"))
        /\ UNCHANGED provider

WriteArtifacts ==
    /\ runner.pc = "artifacts"
    /\ \/ /\ disk' = [disk EXCEPT !.runs[runner.i] = runner.report]
          /\ runner' = [runner EXCEPT
               !.pc = IF runner.record.outcome = "REVIEW_REQUIRED" THEN "review" ELSE "settle",
               !.record.report = runner.record.outcome,
               !.record.approval = IF runner.record.outcome = "REVIEW_REQUIRED" THEN "PENDING" ELSE Null]
          /\ UNCHANGED faults
       \/ /\ Fault /\ UNCHANGED disk
          /\ runner' = [WriteFailed(runner, "ARTIFACT_WRITE_FAILED") EXCEPT !.pc = "settle"]
    /\ UNCHANGED provider

\* The route review is exported, stopped by one of its bounds, or unwritable.
ExportReview ==
    /\ runner.pc = "review"
    /\ \/ /\ disk' = [disk EXCEPT !.reviews = @ \cup {runner.i}]
          /\ runner' = [runner EXCEPT !.pc = "settle", !.record.review = "EXPORTED"]
          /\ UNCHANGED faults
       \/ /\ Fault /\ UNCHANGED disk
          /\ runner' = [runner EXCEPT !.pc = "settle", !.record.review = "FAILED",
                                      !.reasons = @ \cup {"ROUTE_REVIEW_FAILED"}]
       \/ /\ Fault /\ UNCHANGED disk
          /\ runner' = [WriteFailed(runner, "ARTIFACT_WRITE_FAILED")
                          EXCEPT !.pc = "settle", !.record.review = "WRITE_FAILED"]
    /\ UNCHANGED provider

SettleEntry ==
    /\ runner.pc = "settle"
    /\ RunCheckpointed(Settled(runner), Null, "IN_PROGRESS", NextEntry(Settled(runner)),
                    NextEntry(Settled(WriteFailed(runner, "CHECKPOINT_WRITE_FAILED"))))
    /\ UNCHANGED provider

----------------------------------------------------------------------------
(* Reading: run reports (run-report-input) and the comparison. *)

RequestFailed(request) == request.outcome = "ok" /\ request.validation = "failed"
AllFailed(requests) == \A k \in DOMAIN requests : RequestFailed(requests[k])
\* budgetAllowsDispatch.
MayDispatch(prior) == Len(prior) < MaxRequests /\ AttemptsOf(prior) < MaxHttpAttempts

ValidationReportSound(report) ==
    LET requests == report.requests IN
    /\ requests # <<>> /\ \A k \in DOMAIN requests : requests[k].outcome = "ok"
    /\ Last(requests).validation = "passed" /\ AllFailed(Front(requests))
    /\ report.repaired = (Last(requests).phase = "repair")
    /\ AttemptsOf(requests) <= MaxHttpAttempts
    /\ Len(requests) > 1 => MayDispatch(Front(requests))
RejectionSound(report) ==
    LET requests == report.requests
        repaired == report.disposition = "attempted"
    IN  /\ requests # <<>> /\ AllFailed(requests)
        /\ Len(requests) = IF repaired THEN 2 ELSE 1
        /\ AttemptsOf(requests) <= MaxHttpAttempts
        /\ repaired <=> MayDispatch(SubSeq(requests, 1, 1))
StopSound(report) ==
    LET requests == report.requests
        before == IF report.phase = "generate" THEN 0 ELSE 1
        undispatched == Len(requests) = before
        prior == IF undispatched THEN requests ELSE Front(requests)
    IN  /\ Len(requests) \in {before, before + 1}
        /\ undispatched => report.reason \in {"CANCELLED", "DEADLINE_EXCEEDED"}
        /\ ~undispatched => Last(requests).outcome = report.reason /\ Last(requests).validation = Null
        /\ AllFailed(prior)
        /\ report.phase = "repair" => MayDispatch(prior)
        /\ report.reason = "CALL_BUDGET_EXCEEDED" => AttemptsOf(requests) > MaxHttpAttempts
\* parseRunReport accepts the report.
ReportParses(report) ==
    /\ Len(report.requests) <= MaxRequests
    /\ \A k \in DOMAIN report.requests : report.requests[k].phase = (IF k = 1 THEN "generate" ELSE "repair")
    /\ CASE report.status = "REVIEW_REQUIRED" -> ValidationReportSound(report)
         [] report.status = "REJECTED" -> RejectionSound(report)
         [] report.status = "STOPPED" -> StopSound(report)

\* Mutant: every repair request counts as evaluated.
ComparisonOfDispatched(reports) ==
    LET repairs == SelectSeq(FlattenSeq([k \in DOMAIN reports |-> reports[k].requests]),
                             LAMBDA q : q.phase = "repair")
        count(Is(_)) == Cardinality({k \in DOMAIN reports : Is(reports[k])})
        validated(r) == r.requests # <<>> /\ r.requests[1].validation # Null
    IN  [samples |-> Len(reports),
         reviewRequired |-> count(LAMBDA r : r.status = "REVIEW_REQUIRED"),
         rejected |-> count(LAMBDA r : r.status = "REJECTED"),
         stopped |-> count(LAMBDA r : r.status = "STOPPED"),
         firstPassEvaluated |-> count(validated),
         firstPassPassed |-> count(LAMBDA r : validated(r) /\ r.requests[1].validation = "passed"),
         repairAttempted |-> Len(repairs), repairEvaluated |-> Len(repairs),
         repairSucceeded |-> count(LAMBDA r : r.status = "REVIEW_REQUIRED" /\ r.repaired),
         repairSkipped |-> count(LAMBDA r : r.disposition = "skipped_budget_exhausted")]
\* The counts of the comparison report over the run reports on disk.
Comparison(reports) ==
    LET repairs == SelectSeq(FlattenSeq([k \in DOMAIN reports |-> reports[k].requests]),
                             LAMBDA q : q.phase = "repair")
        count(Is(_)) == Cardinality({k \in DOMAIN reports : Is(reports[k])})
        validated(r) == r.requests # <<>> /\ r.requests[1].validation # Null
    IN  [samples |-> Len(reports),
         reviewRequired |-> count(LAMBDA r : r.status = "REVIEW_REQUIRED"),
         rejected |-> count(LAMBDA r : r.status = "REJECTED"),
         stopped |-> count(LAMBDA r : r.status = "STOPPED"),
         firstPassEvaluated |-> count(validated),
         firstPassPassed |-> count(LAMBDA r : validated(r) /\ r.requests[1].validation = "passed"),
         repairAttempted |-> Len(repairs),
         repairEvaluated |-> Len(SelectSeq(repairs, LAMBDA q : q.validation # Null)),
         repairSucceeded |-> count(LAMBDA r : r.status = "REVIEW_REQUIRED" /\ r.repaired),
         repairSkipped |-> count(LAMBDA r : r.disposition = "skipped_budget_exhausted")]

CompareRuns ==
    LET landed == SelectSeq([i \in Corpus |-> disk.runs[i]], LAMBDA r : r # Null)
        unavailable == {"ARTIFACT_WRITE_FAILED", "COMPARISON_UNAVAILABLE"}
    IN  /\ runner.pc = "compare"
        /\ \/ /\ landed # <<>> /\ \A k \in DOMAIN landed : ReportParses(landed[k])
              /\ disk' = [disk EXCEPT !.comparison = Comparison(landed)]
              /\ runner' = [runner EXCEPT !.pc = "final"] /\ UNCHANGED faults
           \/ /\ landed = <<>>
              /\ runner' = [runner EXCEPT !.pc = "final"] /\ UNCHANGED <<disk, faults>>
           \/ /\ \E k \in DOMAIN landed : ~ReportParses(landed[k])
              /\ runner' = [runner EXCEPT !.pc = "final", !.reasons = @ \cup {"COMPARISON_UNAVAILABLE"}]
              /\ UNCHANGED <<disk, faults>>
           \/ /\ landed # <<>> /\ Fault
              /\ runner' = [runner EXCEPT !.pc = "final", !.reasons = @ \cup unavailable]
              /\ UNCHANGED disk
        /\ UNCHANGED provider

FinishManifest ==
    /\ runner.pc = "final"
    /\ RunCheckpointed(runner, IF disk.comparison = Null THEN Null ELSE "comparison-report.json", "FINAL",
                    [runner EXCEPT !.pc = "rename"], [runner EXCEPT !.pc = "ended"])
    /\ UNCHANGED provider
NameDirectory ==
    /\ runner.pc = "rename"
    /\ \/ /\ disk' = [disk EXCEPT !.name = IF disk.manifest.status = "COMPLETE" THEN "complete" ELSE "partial"]
          /\ UNCHANGED faults
       \/ Fault /\ UNCHANGED disk
    /\ runner' = [runner EXCEPT !.pc = "ended"]
    /\ UNCHANGED provider

\* The process is killed.
Killed ==
    /\ runner.pc \notin {"ended", "dead"} /\ Fault
    /\ runner' = [runner EXCEPT !.pc = "dead"]
    /\ UNCHANGED <<disk, provider>>

RunnerStep ==
    \/ StartExperiment \/ SkipEntry \/ OpenEntry \/ AbortBeforeDispatch \/ Dispatch
    \/ CallFails \/ CallAnswers \/ RecordResult \/ WriteArtifacts \/ ExportReview
    \/ SettleEntry \/ CompareRuns \/ FinishManifest \/ NameDirectory
ExperimentNext == RunnerStep \/ RejectBrief \/ HarnessFails \/ Cancel \/ CommandDeadlinePasses \/ Killed
\* The process runs, and every provider call returns: each has a timeout.
ExperimentFairness == WF_experimentVars(RunnerStep)

----------------------------------------------------------------------------
(* Reading: the manifest (experiment-manifest-input, experiment-inspection). *)

NoResult(e) == [e EXCEPT !.status = "unattempted", !.usage = "NONE"] = Unattempted
UsageCoherent(e) == (e.usage = "REPORTED") <=> (e.requests # Null /\ e.attempts # Null)
ResultLegal(e) ==
    IF e.outcome = "REVIEW_REQUIRED" THEN e.repaired # Null /\ (e.repaired => e.requests >= 2)
    ELSE e.repaired = Null
ArtifactsLegal(e) ==
    IF e.report = Null THEN e.review = Null /\ e.approval = Null
    ELSE /\ e.usage = "REPORTED" /\ e.outcome # Null
         /\ e.approval = (IF e.outcome = "REVIEW_REQUIRED" THEN "PENDING" ELSE Null)
         /\ e.review # Null => e.outcome = "REVIEW_REQUIRED"

StoppedLegal(e) ==
    /\ e.stop # Null /\ ResultLegal(e) /\ ArtifactsLegal(e)
    /\ CASE e.outcome = "STOPPED" ->
              /\ e.stop.kind \in {"PROVIDER_STOP", "CANCELLED"}
              /\ e.usage = "REPORTED" \/ (e.usage = "UNKNOWN" /\ e.stop.kind = "PROVIDER_STOP")
         [] e.outcome \in {"REVIEW_REQUIRED", "REJECTED"} ->
              e.usage = "REPORTED" /\ e.stop.kind \in {"ARTIFACT_WRITE_FAILED", "CHECKPOINT_WRITE_FAILED"}
         [] OTHER -> e.usage = "NONE" /\ e.report = Null
                     /\ e.stop.kind \in {"BRIEF_REJECTED", "CHECKPOINT_WRITE_FAILED"}
\* entryIsLegal.
EntryLegal(e, state) ==
    /\ UsageCoherent(e)
    /\ CASE e.status = "unattempted" -> e.usage = "NONE" /\ NoResult(e)
         [] e.status = "awaiting_response" -> state = "IN_PROGRESS" /\ e.usage = "UNKNOWN" /\ NoResult(e)
         [] e.status = "recording" ->
              /\ state = "IN_PROGRESS" /\ e.usage = "REPORTED" /\ e.outcome # Null
              /\ e.report = Null /\ e.review = Null /\ e.approval = Null /\ ResultLegal(e)
              /\ IF e.outcome = "STOPPED"
                 THEN e.stop # Null /\ e.stop.kind \in {"PROVIDER_STOP", "CANCELLED"} ELSE e.stop = Null
         [] e.status = "completed" ->
              /\ e.usage = "REPORTED" /\ e.stop = Null /\ e.outcome \in {"REVIEW_REQUIRED", "REJECTED"}
              /\ ResultLegal(e) /\ e.report # Null /\ ArtifactsLegal(e)
              /\ IF e.outcome = "REVIEW_REQUIRED" THEN e.review \in {"EXPORTED", "FAILED"} ELSE e.review = Null
         [] e.status = "stopped" -> StoppedLegal(e)

\* Settled entries, then at most one open or stopped entry, then unattempted ones.
OrderLegal(entries) ==
    \A i, j \in DOMAIN entries :
        i < j => entries[i].status = "completed" \/ entries[j].status = "unattempted"
HaltLegal(m) ==
    LET stopped == {i \in DOMAIN m.entries : m.entries[i].status = "stopped" \/ m.entries[i].stop # Null} IN
    /\ stopped # {} => m.halt # Null
    /\ m.state = "FINAL" /\ m.halt = Null => AllCompleted(m.entries)
    /\ m.halt # Null =>
         /\ m.halt.kind \in m.reasons
         /\ m.halt.entry # Null =>
              LET e == m.entries[m.halt.entry] IN
              /\ \/ e.status = "stopped"
                 \/ m.state = "IN_PROGRESS" /\ e.status = "recording" /\ e.outcome = "STOPPED"
              /\ e.stop = Stop(m.halt.kind, m.halt.reason)
\* checkConsistency.
ManifestConsistent(m) ==
    /\ \A i \in DOMAIN m.entries : EntryLegal(m.entries[i], m.state)
    /\ OrderLegal(m.entries)
    /\ m.status = (IF m.state = "FINAL" /\ m.reasons = {} /\ AllCompleted(m.entries)
                   THEN "COMPLETE" ELSE "INCOMPLETE")
    /\ ("IN_PROGRESS" \in m.reasons) <=> (m.state = "IN_PROGRESS")
    /\ m.state = "IN_PROGRESS" => m.comparison = Null
    /\ \A i \in DOMAIN m.entries :
         /\ m.entries[i].stop # Null => m.entries[i].stop.kind \in m.reasons
         /\ m.entries[i].review = "FAILED" => "ROUTE_REVIEW_FAILED" \in m.reasons
    /\ HaltLegal(m)
    /\ m.observed = Observed(m.entries, m.state)

\* compareReport: the manifest entry and its run report tell the same story.
ReportMatches(e, report) ==
    /\ report.status = e.outcome
    /\ report.status = "REVIEW_REQUIRED" => report.repaired = e.repaired
    /\ report.status = "STOPPED" /\ e.stop # Null => report.reason = e.stop.reason
    /\ Len(report.requests) = e.requests /\ AttemptsOf(report.requests) = e.attempts
\* inspectExperiment finds no issue.
InspectionPasses(d) ==
    /\ ManifestConsistent(d.manifest)
    /\ \A i \in Corpus :
         LET e == d.manifest.entries[i] IN
         /\ e.report # Null => /\ d.runs[i] # Null /\ ReportParses(d.runs[i])
                               /\ ReportMatches(e, d.runs[i])
         /\ e.review = "EXPORTED" => i \in d.reviews
    /\ d.manifest.comparison # Null => d.comparison # Null

----------------------------------------------------------------------------
(* Properties. *)

\* Whatever step the experiment stopped at, and whichever write failed, the
\* manifest on disk passes the inspection written for it, with every artifact it
\* names present and telling the same outcome, stop and counts.
InterruptedRunsInspect == disk.manifest # Null => InspectionPasses(disk)

\* A paid call is never spent without a trace: once a brief was handed to the
\* provider, the manifest on disk no longer claims that nothing was dispatched.
EveryDispatchOnDisk ==
    \A i \in Corpus : provider[i].requests > 0 => disk.manifest.entries[i].usage # "NONE"

\* Reported usage is a lower bound of what was really spent, and exact once the
\* manifest claims complete coverage.
UsageNeverOverstated ==
    disk.manifest # Null =>
        LET real == SumOf([i \in Corpus |-> provider[i].attempts])
            m == disk.manifest.observed
        IN  m.attempts <= real /\ (m.coverage = "COMPLETE" => m.attempts = real)

\* After the first halt cause nothing more is dispatched, and a brief never
\* costs more requests than its budget.
HaltStopsSpending ==
    [][\A i \in Corpus : provider'[i].requests > provider[i].requests =>
          runner.halt = Null /\ provider'[i].requests <= MaxRequests]_experimentVars

\* The comparison report that lands on disk adds up: every run is counted under
\* one outcome, every validated repair was accepted or rejected, and a repair was
\* only tried after a first candidate that failed.
ComparisonAddsUp ==
    disk.comparison # Null =>
        LET c == disk.comparison IN
        /\ c.samples = c.reviewRequired + c.rejected + c.stopped
        /\ c.repairSucceeded + (c.rejected - c.repairSkipped) = c.repairEvaluated
        /\ c.repairAttempted <= c.firstPassEvaluated - c.firstPassPassed
        /\ c.reviewRequired = c.firstPassPassed + c.repairSucceeded

\* An experiment that started ends: it cannot wait forever on a provider or on its
\* own disk.
ExperimentEnds == []<>(runner.pc \in {"start", "ended", "dead"})

\* At any moment the disk tells what was spent and how far the experiment came,
\* nothing is spent after a halt, and it ends.
ExperimentAccountedFor ==
    /\ [](/\ InterruptedRunsInspect /\ EveryDispatchOnDisk /\ UsageNeverOverstated
         /\ ComparisonAddsUp)
    /\ HaltStopsSpending
    /\ ExperimentEnds

=============================================================================
