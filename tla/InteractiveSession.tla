--------------------------- MODULE InteractiveSession ---------------------------
(***************************************************************************)
(* One interactive session and the browser tabs that play it: the commands *)
(* of interactive.service.ts (a choice is prepared outside and committed   *)
(* inside a transaction that locks the session row) and the state machine  *)
(* of use-interactive-reader.ts, which must tell the player the truth      *)
(* about a choice whose answer was lost, refused or overtaken.             *)
(*                                                                         *)
(* A request the tab stopped waiting for (15 s deadline, reload) goes on   *)
(* in the server.  busyRef is derived: a tab is busy while a command or a  *)
(* confirming or syncing read is in flight.  learned is the ghost of the   *)
(* oldest revision the tab may still build a command on, rejected that of  *)
(* the commands a tab was told were not applied.                           *)
(***************************************************************************)
EXTENDS StoryRules

CONSTANTS Story,            \* the pinned scenario definition
          SessionId, Tabs,
          ReaderBudgets     \* bounds, one combination per behaviour: the tabs that act,
                            \* requests of choices, faults (lost calls, narrator outages,
                            \* lock timeouts, reloads), focus reads and removals

ReaderBudgetSet == [tabs: SUBSET Tabs, sends: Nat, faults: Nat, focus: Nat, removals: Nat]
ASSUME ReaderAssumption == ReaderBudgets \subseteq ReaderBudgetSet /\ None \notin Nat

VARIABLES session,   \* interactive_sessions: state and removed_at
          log,       \* session_events, in sequence order
          handlers,  \* requests of choices the server is working on
          tabs, rejected, sent, readerBudget

sessionVars == <<session, log, handlers, tabs, rejected, sent, readerBudget>>

Genesis == SessionStarted(Story)
ViewOf(state, narration) == PublicView(SessionId, Story, state, narration)
StoredEvent(event, state, key, request, response) ==
    [event |-> event, hash |-> state, key |-> key, request |-> request, response |-> response]

\* The refs of a freshly bound reader; loadSession has begun.
FreshTab == [phase |-> "loading", view |-> None, command |-> None, sync |-> FALSE,
             forced |-> [purpose |-> "load", reply |-> None], focus |-> None, learned |-> 0]

SessionInit ==
    LET state == InitialState(Story)
    IN  /\ session = [state |-> state, removed |-> FALSE]
        /\ log = <<StoredEvent(Genesis, state, None, None, ViewOf(state, Narration(Story, state)))>>
        /\ handlers = {}
        /\ tabs \in [Tabs -> {FreshTab}]
        /\ rejected = {} /\ sent = 0 /\ readerBudget \in ReaderBudgets

SpendSession(what) == readerBudget[what] > 0 /\ readerBudget' = [readerBudget EXCEPT ![what] = @ - 1]
SessionFault == SpendSession("faults")

----------------------------------------------------------------------------
(* The server. *)

\* getSession: the response stored with the event of the current revision.
CurrentView ==
    IF session.removed THEN Error("SESSION_NOT_FOUND")
    ELSE log[session.state.revision + 1].response

Rejections == {"REVISION_CONFLICT", "CHOICE_UNAVAILABLE", "UNKNOWN_CHOICE", "SESSION_TERMINAL"}
Public(code) == IF code \in {"UNKNOWN_CHOICE", "SESSION_TERMINAL"} THEN code ELSE "CHOICE_UNAVAILABLE"

\* prepare: what is computed before the transaction, from the row as read.
Prepared(request, narrator) ==
    IF session.state.revision # request.revision THEN None
    ELSE IF Transition(session.state, request.choice, Story) # "ok"
    THEN [base |-> session.state, narration |-> None, failed |-> FALSE]
    ELSE LET output == Narration(Story, Chosen(session.state, request.choice, Story))
         IN  [base |-> session.state, failed |-> ~narrator,
              narration |-> IF narrator THEN output ELSE None]

\* The event of an earlier attempt answers first, whatever the revision is now.
Recorded(h) == {e \in Range(log) : e.key = h.key}
Replayed(h) ==
    LET e == CHOOSE e \in Recorded(h) : TRUE
    IN  IF e.request = h.request THEN e.response ELSE Error("IDEMPOTENCY_KEY_REUSED")

\* The choice itself, against a state: the event it records, or its refusal.
Applied(h, state) ==
    LET request == h.request
        code == Transition(state, request.choice, Story)
        next == Chosen(state, request.choice, Story)
    IN  IF state.revision # request.revision THEN Error("REVISION_CONFLICT")
        ELSE IF code # "ok" THEN Error(Public(code))
        ELSE IF h.prepared = None \/ h.prepared.base # state THEN Error("STALE")
        ELSE IF h.prepared.failed \/ NarrationCheck(h.prepared.narration, Story, next) # "ok"
        THEN Error("NARRATION_INVALID")
        ELSE [stored |-> StoredEvent(ChoiceMade(state, request.choice), next, h.key, request,
                                ViewOf(next, h.prepared.narration))]

\* Mutants of commit: applied to the state as prepared, the revision compared
\* before the key is looked up, the removal not checked again under the lock.
CommittedAsPrepared(h) ==
    IF session.removed THEN Error("SESSION_NOT_FOUND")
    ELSE IF Recorded(h) # {} THEN Replayed(h)
    ELSE Applied(h, IF h.prepared = None THEN session.state ELSE h.prepared.base)
CommittedRevisionFirst(h) ==
    IF session.removed THEN Error("SESSION_NOT_FOUND")
    ELSE IF session.state.revision # h.request.revision THEN Error("REVISION_CONFLICT")
    ELSE IF Recorded(h) # {} THEN Replayed(h) ELSE Applied(h, session.state)
CommittedUnlocked(h) ==
    IF Recorded(h) # {} THEN Replayed(h) ELSE Applied(h, session.state)

\* commit, under the row lock: the answer, or the event it records.
Committed(h) ==
    IF session.removed THEN Error("SESSION_NOT_FOUND")
    ELSE IF Recorded(h) # {} THEN Replayed(h) ELSE Applied(h, session.state)

Waiting(t, send) ==
    tabs[t].command # None /\ tabs[t].command.send = send /\ tabs[t].command.phase = "submitting"

\* The handler ends with an answer; only the tab still waiting for it sees it.
ServerAnswer(h, answer) ==
    /\ handlers' = handlers \ {h}
    /\ tabs' = IF Waiting(h.tab, h.send) THEN [tabs EXCEPT ![h.tab].command.reply = answer]
               ELSE tabs

\* submitChoice, one attempt: loadOwned and prepare.
PrepareChoice(h) ==
    /\ h.step = "received"
    /\ IF session.removed THEN ServerAnswer(h, Error("SESSION_NOT_FOUND")) /\ UNCHANGED readerBudget
       ELSE /\ \/ handlers' = (handlers \ {h}) \cup
                      {[h EXCEPT !.step = "prepared", !.prepared = Prepared(h.request, TRUE)]}
                  /\ UNCHANGED readerBudget
               \/ SessionFault /\ handlers' = (handlers \ {h}) \cup
                      {[h EXCEPT !.step = "prepared", !.prepared = Prepared(h.request, FALSE)]}
            /\ UNCHANGED tabs
    /\ UNCHANGED <<session, log, rejected, sent>>

CommitChoice(h) ==
    /\ h.step = "prepared"
    /\ \E result \in {Committed(h)} :
        \/ /\ "stored" \in DOMAIN result
           /\ log' = Append(log, result.stored)
           /\ session' = [session EXCEPT !.state = result.stored.hash]
           /\ ServerAnswer(h, result.stored.response)
        \/ /\ "stored" \notin DOMAIN result
           /\ IF result = Error("STALE") /\ h.tries < 3
              THEN handlers' = (handlers \ {h}) \cup
                       {[h EXCEPT !.step = "received", !.tries = @ + 1]} /\ UNCHANGED tabs
              ELSE ServerAnswer(h, IF result = Error("STALE") THEN Error("SESSION_BUSY") ELSE result)
           /\ UNCHANGED <<session, log>>
    /\ UNCHANGED <<rejected, sent, readerBudget>>

\* The guard refuses the login before the service is called.
RefuseLogin(h) ==
    /\ h.step = "received" /\ SessionFault
    /\ ServerAnswer(h, Error("UNAUTHORIZED"))
    /\ UNCHANGED <<session, log, rejected, sent>>

\* lock_timeout or statement_timeout: rolled back, SESSION_BUSY.
LockTimeout(h) ==
    /\ h.step = "prepared" /\ SessionFault
    /\ ServerAnswer(h, Error("SESSION_BUSY"))
    /\ UNCHANGED <<session, log, rejected, sent>>

\* The request or its process is lost before it commits: nobody answers.
LoseHandler(h) ==
    /\ SessionFault /\ handlers' = handlers \ {h}
    /\ UNCHANGED <<session, log, tabs, rejected, sent>>

\* removeSession, from the library: the same row lock as a choice.
RemoveSession ==
    /\ ~session.removed
    /\ session' = [session EXCEPT !.removed = TRUE]
    /\ SpendSession("removals")
    /\ UNCHANGED <<log, handlers, tabs, rejected, sent>>

----------------------------------------------------------------------------
(* The reader. *)

Busy(t) == \/ tabs[t].command # None /\ tabs[t].command.phase = "submitting"
           \/ tabs[t].forced # None /\ tabs[t].forced.purpose \in {"confirm", "sync"}

\* Mutant: whatever arrives is shown.
ApplyViewAlways(tab, view) == [tab EXCEPT !.view = view, !.phase = "ready"]

\* applyView: never older than what is shown.
ApplyView(tab, view) ==
    IF tab.view # None /\ view.revision < tab.view.revision THEN tab
    ELSE [tab EXCEPT !.view = view, !.phase = "ready"]

\* Mutant: the phase is not changed.
MarkUnavailableStillReady(tab) ==
    [tab EXCEPT !.view = None, !.command = None, !.sync = FALSE, !.learned = 0]

MarkUnavailable(tab) ==
    [tab EXCEPT !.phase = "unavailable", !.view = None, !.command = None, !.sync = FALSE,
                !.learned = 0]
\* The login is gone: the auth epoch moves on, so what is in flight is orphaned.
MarkAuthRequired == [FreshTab EXCEPT !.phase = "auth-required", !.forced = None]
ForcedRead(tab, purpose) == [tab EXCEPT !.forced = [purpose |-> purpose, reply |-> None]]

AtLeast(tab, revision) == [tab EXCEPT !.learned = IF @ < revision THEN revision ELSE @]

ConfirmRecorded(tab, revision) ==
    ForcedRead([AtLeast(tab, revision) EXCEPT !.command.phase = "confirming",
                                              !.command.recorded = revision], "confirm")
\* Mutant: choices are not blocked while the story is read again.
RejectCommandUnblocked(tab) == [tab EXCEPT !.command = None]
RejectCommand(tab) == ForcedRead([tab EXCEPT !.command = None, !.sync = TRUE], "sync")

\* failCommand and the two answers of sendPending.
Resolved(tab, reply) ==
    LET command == tab.command
    IN  IF ~IsError(reply)
        THEN IF command.attempts > 1 THEN ConfirmRecorded(tab, reply.revision)
             ELSE [ApplyView(AtLeast(tab, reply.revision), reply) EXCEPT !.command = None]
        ELSE CASE reply.error = "SESSION_NOT_FOUND" -> MarkUnavailable(tab)
               [] reply.error = "UNAUTHORIZED" -> MarkAuthRequired
               [] reply.error = "IDEMPOTENCY_KEY_REUSED" ->
                    [tab EXCEPT !.command.phase = "inconsistent"]
               [] reply.error = "REVISION_CONFLICT" ->
                    RejectCommand(AtLeast(tab, command.request.revision + 1))
               [] reply.error \in Rejections \ {"REVISION_CONFLICT"} -> RejectCommand(tab)
               [] OTHER -> [tab EXCEPT !.command.phase = "retryable"]

\* submitChoice of the hook; `send` numbers requests and makes the key fresh.
Send(t, tab, command) ==
    /\ SpendSession("sends") /\ sent' = sent + 1
    /\ tabs' = [tabs EXCEPT ![t] = [tab EXCEPT !.command =
                   [command EXCEPT !.phase = "submitting", !.attempts = @ + 1,
                                   !.send = sent + 1, !.reply = None]]]
    /\ handlers' = handlers \cup
          {[send |-> sent + 1, tab |-> t, key |-> command.key, request |-> command.request,
            step |-> "received", prepared |-> None, tries |-> 1]}
    /\ UNCHANGED <<session, log, rejected>>

MayChoose(tab, choice) ==
    /\ tab.view # None /\ tab.view.status = "in_progress" /\ choice \in Range(tab.view.choices)
    /\ tab.command = None /\ ~tab.sync
ChoiceCommand(key, tab, choice) ==
    [key |-> key, phase |-> "submitting", attempts |-> 0, send |-> 0, reply |-> None,
     recorded |-> None, request |-> [choice |-> choice, revision |-> tab.view.revision]]

\* Mutant: the key is made from the revision, not fresh.
SubmitChoiceKeyOfRevision(t, choice) ==
    /\ ~Busy(t) /\ MayChoose(tabs[t], choice)
    /\ Send(t, tabs[t], ChoiceCommand(tabs[t].view.revision + 1, tabs[t], choice))

SubmitChoice(t, choice) ==
    /\ ~Busy(t) /\ MayChoose(tabs[t], choice)
    /\ Send(t, tabs[t], ChoiceCommand(sent + 1, tabs[t], choice))

\* retryCommand, retrySync and retryLoad: the recovery buttons.
RetryCommand(t) ==
    LET tab == tabs[t]
    IN  /\ ~Busy(t) /\ tab.command # None
        /\ \/ tab.command.phase = "retryable" /\ Send(t, tab, tab.command)
           \/ /\ tab.command.phase = "confirming"
              /\ tabs' = [tabs EXCEPT ![t] = ForcedRead(tab, "confirm")]
              /\ UNCHANGED <<session, log, handlers, rejected, sent, readerBudget>>

RetryRead(t) ==
    LET tab == tabs[t]
    IN  /\ ~Busy(t)
        /\ \/ tab.sync /\ tab.phase = "ready" /\ tabs' = [tabs EXCEPT ![t] = ForcedRead(tab, "sync")]
           \/ /\ tab.phase = "load-error"
              /\ tabs' = [tabs EXCEPT ![t] = ForcedRead([tab EXCEPT !.phase = "loading"], "load")]
        /\ UNCHANGED <<session, log, handlers, rejected, sent, readerBudget>>

\* Focus or visibility: one coalesced read, not while busy.
FocusRead(t) ==
    /\ tabs[t].view # None /\ ~Busy(t) /\ tabs[t].forced = None /\ tabs[t].focus = None
    /\ tabs[t].phase = "ready"
    /\ tabs' = [tabs EXCEPT ![t].focus = [purpose |-> "focus", reply |-> None]]
    /\ SpendSession("focus")
    /\ UNCHANGED <<session, log, handlers, rejected, sent>>

\* A new page or account: fresh refs; what is in flight is orphaned.
ReloadTab(t) ==
    /\ SessionFault /\ tabs[t] # FreshTab
    /\ tabs' = [tabs EXCEPT ![t] = FreshTab]
    /\ UNCHANGED <<session, log, handlers, rejected, sent>>

\* The answer to the command, or the deadline: its outcome stays unknown.
ReceiveAnswer(t) ==
    LET tab == tabs[t]
        reply == tab.command.reply
    IN  /\ tab.command # None /\ tab.command.phase = "submitting" /\ reply # None
        /\ tabs' = [tabs EXCEPT ![t] = Resolved(tab, reply)]
        /\ rejected' = IF IsError(reply) /\ reply.error \in Rejections
                       THEN rejected \cup {tab.command.key} ELSE rejected
        /\ UNCHANGED <<session, log, handlers, sent, readerBudget>>

\* Mutant: no deadline, only failures the tab hears of.
SendFailsHeard(t) ==
    /\ tabs[t].command # None /\ tabs[t].command.phase = "submitting" /\ SessionFault
    /\ tabs' = [tabs EXCEPT ![t] = Resolved(tabs[t], Error("NETWORK"))]
    /\ UNCHANGED <<session, log, handlers, rejected, sent>>

SendFails(t) ==
    LET tab == tabs[t]
    IN  /\ tab.command # None /\ tab.command.phase = "submitting"
        /\ \/ SessionFault
           \/ /\ tab.command.reply = None /\ \A h \in handlers : h.send # tab.command.send
              /\ UNCHANGED readerBudget
        /\ tabs' = [tabs EXCEPT ![t] = Resolved(tab, Error("NETWORK"))]
        /\ UNCHANGED <<session, log, handlers, rejected, sent>>

\* A read of the session: answered from the row, then delivered.
ServeRead(t, slot) ==
    /\ tabs[t][slot] # None /\ tabs[t][slot].reply = None
    /\ tabs' = [tabs EXCEPT ![t][slot].reply = CurrentView]
    /\ UNCHANGED <<session, log, handlers, rejected, sent, readerBudget>>

\* What follows a refresh that applied its view, or did not.  A late answer to another
\* request may have taken the command away meanwhile.
ViewRefreshed(tab, purpose, ok) ==
    CASE purpose = "sync" -> [tab EXCEPT !.sync = ~ok]
      [] /\ purpose = "confirm" /\ ok /\ tab.command # None
         /\ tab.view.revision >= tab.command.recorded -> [tab EXCEPT !.command = None]
      [] purpose = "load" /\ ~ok -> [tab EXCEPT !.phase = "load-error"]
      [] OTHER -> tab

Delivered(tab, purpose, reply) ==
    IF ~IsError(reply)
    THEN ViewRefreshed(ApplyView(tab, reply), purpose,
                   tab.view = None \/ reply.revision >= tab.view.revision)
    ELSE CASE reply.error = "SESSION_NOT_FOUND" -> MarkUnavailable(tab)
           [] reply.error = "UNAUTHORIZED" -> MarkAuthRequired
           [] OTHER -> ViewRefreshed(tab, purpose, FALSE)

ReceiveRead(t, slot) ==
    LET read == tabs[t][slot]
    IN  /\ read # None
        /\ \/ read.reply # None /\ UNCHANGED readerBudget
              /\ tabs' = [tabs EXCEPT ![t] =
                    Delivered([tabs[t] EXCEPT ![slot] = None], read.purpose, read.reply)]
           \/ SessionFault /\ \E code \in {"NETWORK", "UNAUTHORIZED"} :
                tabs' = [tabs EXCEPT ![t] =
                    Delivered([tabs[t] EXCEPT ![slot] = None], read.purpose, Error(code))]
        /\ UNCHANGED <<session, log, handlers, rejected, sent>>

----------------------------------------------------------------------------
HandlerStep == \E h \in handlers : PrepareChoice(h) \/ CommitChoice(h)
ReaderStep(t) ==
    \/ ReceiveAnswer(t) \/ SendFails(t) \/ RetryCommand(t) \/ RetryRead(t)
    \/ \E slot \in {"forced", "focus"} : ServeRead(t, slot) \/ ReceiveRead(t, slot)

SessionNext ==
    \/ HandlerStep \/ RemoveSession
    \/ \E h \in handlers : RefuseLogin(h) \/ LockTimeout(h) \/ LoseHandler(h)
    \/ \E t \in readerBudget.tabs :
        \/ ReaderStep(t) \/ FocusRead(t) \/ ReloadTab(t)
        \/ \E choice \in UNION {ChoiceIds(Story, s) : s \in DOMAIN Story.scenes} : SubmitChoice(t, choice)

\* Every request the server works on ends (lock, statement and transaction
\* timeouts bound it), reads are answered, deadlines fire, and the player presses
\* the recovery button a reader offers; nobody has to choose.
SessionFairness ==
    /\ []<>(handlers = {})
    /\ WF_sessionVars(\E t \in readerBudget.tabs : ReaderStep(t))

SessionSpec == SessionInit /\ [][SessionNext]_sessionVars /\ SessionFairness

----------------------------------------------------------------------------
(* Properties. *)

SessionTypeOK ==
    /\ session.removed \in BOOLEAN /\ session.state.revision = Len(log) - 1
    /\ \A h \in handlers : h.send \in 1..sent /\ h.tries \in 1..3
    /\ \A t \in Tabs :
        /\ tabs[t].phase \in {"loading", "ready", "load-error", "unavailable", "auth-required"}
        /\ tabs[t].command # None =>
             tabs[t].command.phase \in {"submitting", "retryable", "confirming", "inconsistent"}
        /\ tabs[t].phase = "ready" => tabs[t].view # None

\* Whatever was lost, retried or committed concurrently, the stored events
\* replay to the stored state, and every stored response is the view of the
\* state its event led to (commit writes event and state together).
LogReplaysToTheSession ==
    /\ ReplayIs(log, session.state, Story)
    /\ \A e \in Range(log) : e.response = ViewOf(e.hash, Narration(Story, e.hash))

\* A player who was told that a choice was not applied is never contradicted by
\* the log: not by an attempt of it that is still running, nor by one whose
\* answer was lost (the key is looked up before the revision is compared).
RejectedNeverRecorded == \A e \in Range(log) : e.key \notin rejected

\* Removal and choices serialise on the session row: no event follows one.
NothingAfterRemoval == [][session.removed => UNCHANGED <<log, session>>]_sessionVars

\* No late answer moves a reader back to an older revision of the story.
NeverBackwards ==
    [][\A t \in Tabs : tabs[t].view # None /\ tabs'[t].view # None =>
            tabs'[t].view.revision >= tabs[t].view.revision]_sessionVars

\* A new command never builds on a state the tab has learned to be outdated,
\* by a conflict or by the confirmation of an earlier command.
CommandsBuildOnTheLatest ==
    \A t \in Tabs : LET c == tabs[t].command IN
        c # None /\ c.phase = "submitting" /\ c.attempts = 1 => c.request.revision >= tabs[t].learned

\* The keys are fresh and the answers are matched: no reader ever has to say
\* that its action could not be matched with an earlier one.
NeverInconsistent ==
    \A t \in Tabs : tabs[t].command # None => tabs[t].command.phase # "inconsistent"

\* A player who keeps using the recovery the reader offers learns what became
\* of every choice in every tab, or that the story or the login is gone.
EveryChoiceResolved ==
    []<>((\A t \in Tabs : tabs[t].command = None) \/ readerBudget.sends = 0)

\* The log is the story, the tabs show it in order, and every player learns what
\* became of a choice, as it is and will stay recorded.
PlayersAreToldTheTruth ==
    /\ [](/\ SessionTypeOK /\ LogReplaysToTheSession /\ RejectedNeverRecorded
         /\ CommandsBuildOnTheLatest /\ NeverInconsistent)
    /\ NothingAfterRemoval
    /\ NeverBackwards
    /\ EveryChoiceResolved

=============================================================================
