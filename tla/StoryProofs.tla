---------------------------- MODULE StoryProofs ----------------------------
(***************************************************************************)
(* Proofs about InteractiveSession, for every sound story, any set of tabs *)
(* and any number of requests, faults, reads and removals: the log is the  *)
(* story, refusals stand, and no tab is led back or astray.  The states of *)
(* a story and the logs that replay are those of ServiceProofs.            *)
(***************************************************************************)
EXTENDS ServiceProofs, InteractiveSession

-----------------------------------------------------------------------------
(* The inductive invariant *)

\* The story is well-formed as the authoring loads it, and None is no record.
StorySound == Sound(Story) /\ DOMAIN None = {}

ViewAt(state) == ViewOf(state, Narration(Story, state))
Views == {ViewAt(state) : state \in InteractiveStates(Story)}
ErrorCodes == {"SESSION_NOT_FOUND", "UNAUTHORIZED", "NETWORK", "REVISION_CONFLICT", "CHOICE_UNAVAILABLE",
               "UNKNOWN_CHOICE", "SESSION_TERMINAL", "SESSION_BUSY", "NARRATION_INVALID",
               "IDEMPOTENCY_KEY_REUSED", "STALE"}
Errors == [error: ErrorCodes]
TabReplies == {None} \cup Views \cup Errors
ChoiceRequests == [choice: AllIds(Story), revision: Nat]
TabCommands == [key: Nat, phase: {"submitting", "retryable", "confirming", "inconsistent"},
             attempts: Nat, send: Nat, reply: TabReplies, recorded: {None} \cup Nat, request: ChoiceRequests]
Reads == [purpose: {"load", "confirm", "sync", "focus"}, reply: TabReplies]
TabPhases == {"loading", "ready", "load-error", "unavailable", "auth-required"}
TabSet == [phase: TabPhases,
           view: {None} \cup Views, command: {None} \cup TabCommands, sync: BOOLEAN,
           forced: {None} \cup Reads, focus: {None} \cup Reads, learned: Nat]

\* What the tab is told of its command.
ToldGood(reply, asked, rev) ==
    IF IsError(reply)
    THEN reply.error # "IDEMPOTENCY_KEY_REUSED" /\ (reply.error = "REVISION_CONFLICT" => asked.revision < rev)
    ELSE reply.revision = asked.revision + 1 /\ reply.revision <= rev
PendingGood(c, learned, rev) ==
    /\ c.phase # "inconsistent" /\ c.request.revision <= rev
    /\ IF c.phase = "confirming" THEN c.recorded \in Nat /\ learned <= c.recorded
       ELSE learned <= c.request.revision
    /\ c.phase = "submitting" /\ c.reply # None => ToldGood(c.reply, c.request, rev)
\* A read that unblocks choices was served after what the tab has learned.
ReadGood(read, learned, rev) ==
    read.reply # None /\ ~IsError(read.reply) =>
        read.reply.revision <= rev /\ (read.purpose = "sync" => learned <= read.reply.revision)
\* While nothing blocks it, the tab shows no less than it has learned.
TabGood(tab, rev) ==
    /\ tab \in TabSet /\ tab.learned <= rev
    /\ tab.phase = "ready" => tab.view # None
    /\ tab.view = None => tab.learned = 0 /\ tab.command = None
    /\ tab.view # None => /\ tab.view.revision <= rev
                          /\ tab.command = None /\ ~tab.sync => tab.learned <= tab.view.revision
    /\ tab.sync => tab.command = None
    /\ tab.command # None => PendingGood(tab.command, tab.learned, rev)
    /\ tab.forced # None => /\ ReadGood(tab.forced, tab.learned, rev)
                            /\ tab.forced.purpose = "sync" => tab.command = None
                            /\ tab.forced.purpose = "confirm" /\ tab.command # None
                                  => tab.command.phase = "confirming"
    /\ tab.focus # None => tab.focus.purpose = "focus" /\ ReadGood(tab.focus, tab.learned, rev)

\* The rows of the log, as they were served and as they replay.
Bare(rows) == [i \in 1..Len(rows) |-> [event |-> rows[i].event, hash |-> rows[i].hash]]
LogRows == [event: Events(Story), hash: InteractiveStates(Story), key: {None} \cup Nat,
            request: {None} \cup ChoiceRequests, response: Views]
LogInv ==
    /\ session = [state |-> session.state, removed |-> session.removed] /\ session.removed \in BOOLEAN
    /\ log \in Seq(LogRows) /\ LeadsTo(Bare(log), session.state, Story)
    /\ \A i \in 1..Len(log) : log[i].response = ViewAt(log[i].hash) /\ log[i].hash.revision = i - 1
    /\ log[1].key = None
    /\ \A i \in 2..Len(log) : /\ log[i].key \in 1..sent /\ log[i].request \in ChoiceRequests
                              /\ log[i].request.revision = i - 2

\* What the handlers prepared is the narration of the state that they will commit.
Narrations == {Narration(Story, state) : state \in InteractiveStates(Story)}
Preparations == [base: InteractiveStates(Story), narration: {None} \cup Narrations, failed: BOOLEAN]
HandlerSet == [send: Nat, tab: Tabs, key: Nat, request: ChoiceRequests, step: {"received", "prepared"},
               prepared: {None} \cup Preparations, tries: 1..3]
PreparedGood(h) ==
    h.prepared # None /\ Transition(h.prepared.base, h.request.choice, Story) = "ok" /\ ~h.prepared.failed
        => h.prepared.narration = Narration(Story, Chosen(h.prepared.base, h.request.choice, Story))
HandlersInv ==
    /\ handlers \subseteq HandlerSet
    /\ \A h \in handlers : /\ h.send \in 1..sent /\ PreparedGood(h)
                           /\ Waiting(h.tab, h.send) => tabs[h.tab].command.key = h.key

\* A key stands for one request, wherever the two are carried.
Carried == {<<h.key, h.request>> : h \in handlers}
           \cup {<<log[i].key, log[i].request>> : i \in 2..Len(log)}
           \cup {<<tabs[t].command.key, tabs[t].command.request>> : t \in {u \in Tabs : tabs[u].command # None}}
KeysInv ==
    /\ sent \in Nat
    /\ \A a \in Carried : a[1] \in 1..sent /\ a[2].revision <= session.state.revision
    /\ \A a, b \in Carried : a[1] = b[1] => a[2] = b[2]

\* A request that no handler will record any more.
Overruled(asked) ==
    \/ asked.revision < session.state.revision
    \/ asked.revision = session.state.revision /\ Transition(session.state, asked.choice, Story) # "ok"
Settled(key) == /\ \A i \in 2..Len(log) : log[i].key # key
                /\ \A a \in Carried : a[1] = key => Overruled(a[2])
Rejecting(c) ==
    c # None /\ c.phase = "submitting" /\ c.reply # None /\ IsError(c.reply) /\ c.reply.error \in Rejections
RejectionsInv ==
    /\ rejected \subseteq 1..sent /\ \A key \in rejected : Settled(key)
    /\ \A t \in Tabs : Rejecting(tabs[t].command) => Settled(tabs[t].command.key)

TabsInv == /\ tabs = [t \in Tabs |-> tabs[t]]
           /\ \A t \in Tabs : TabGood(tabs[t], session.state.revision)
SessionInv == LogInv /\ HandlersInv /\ TabsInv /\ KeysInv /\ RejectionsInv

\* A command stays the one it was, and waits for the answer it waited for, if for any.
SameCommand(c, d) ==
    /\ c.key = d.key /\ c.request = d.request
    /\ c.phase = "submitting" => d.phase = "submitting" /\ c.send = d.send /\ c.reply = d.reply
Follows(tab, old) == tab.command # None => old.command # None /\ SameCommand(tab.command, old.command)
\* What is shown does not go back.
Forward(tab, old) == old.view # None /\ tab.view # None => old.view.revision <= tab.view.revision

-----------------------------------------------------------------------------
(* What may become of a tab *)

LEMMA ViewsAreViews ==
    ASSUME StorySound, NEW state \in InteractiveStates(Story)
    PROVE  /\ ViewAt(state) \in Views /\ ViewAt(state).revision = state.revision
           /\ state.revision \in Nat /\ ~IsError(ViewAt(state))
<1>1. state.revision \in Nat
  BY StatesAreStates
<1>2. /\ DOMAIN ViewAt(state) = {"session", "revision", "story", "scene", "narration", "choices",
                                 "knowledge", "inventory", "ending", "status"}
      /\ ViewAt(state).revision = state.revision
  BY DEF ViewAt, ViewOf, PublicView
<1> QED
  BY <1>1, <1>2 DEF Views, IsError

LEMMA AnswerForms ==
    ASSUME StorySound, NEW a \in TabReplies, a # None
    PROVE  /\ ~IsError(a) => a \in Views /\ a.revision \in Nat
           /\ IsError(a) => a \in Errors /\ a.error \in ErrorCodes
<1>1. CASE a \in Views
  <2>1. PICK state \in InteractiveStates(Story) : a = ViewAt(state)
    BY <1>1 DEF Views
  <2> QED
    BY <1>1, <2>1, ViewsAreViews
<1>2. CASE a \in Errors
  BY <1>2 DEF Errors, Error, IsError
<1> QED
  BY <1>1, <1>2 DEF TabReplies

LEMMA ViewRevision == ASSUME StorySound, NEW v \in Views PROVE v.revision \in Nat /\ ~IsError(v)
BY ViewsAreViews DEF Views

\* Time passes at the server.
LEMMA TabLater ==
    ASSUME NEW tab, NEW rev \in Nat, NEW later \in Nat, rev <= later, StorySound, TabGood(tab, rev)
    PROVE  TabGood(tab, later)
<1>1. tab \in TabSet /\ tab.learned \in Nat
  BY DEF TabGood, TabSet
<1>2. tab.view # None => tab.view.revision \in Nat
  BY <1>1, ViewRevision DEF TabSet, TabPhases
<1>3. ASSUME tab.command # None PROVE PendingGood(tab.command, tab.learned, later)
  <2>1. tab.command \in TabCommands /\ PendingGood(tab.command, tab.learned, rev)
    BY <1>1, <1>3 DEF TabGood, TabSet
  <2>2. PICK c : c = tab.command
    OBVIOUS
  <2>3. c.request.revision \in Nat /\ c.reply \in TabReplies
    BY <2>1, <2>2 DEF TabCommands, ChoiceRequests
  <2>4. c.reply # None /\ ~IsError(c.reply) => c.reply.revision \in Nat
    BY <2>3, AnswerForms
  <2> QED
    BY <2>1, <2>2, <2>3, <2>4 DEF PendingGood, ToldGood
<1>4. ASSUME NEW read \in Reads, ReadGood(read, tab.learned, rev) PROVE ReadGood(read, tab.learned, later)
  <2>1. read.reply # None /\ ~IsError(read.reply) => read.reply.revision \in Nat
    BY AnswerForms DEF Reads
  <2> QED
    BY <1>4, <2>1 DEF ReadGood
<1>5. /\ tab.forced # None => tab.forced \in Reads
      /\ tab.focus # None => tab.focus \in Reads
  BY <1>1 DEF TabSet, TabPhases
<1> QED
  BY <1>1, <1>2, <1>3, <1>4, <1>5 DEF TabGood

LEMMA FreshTabGood == ASSUME NEW rev \in Nat PROVE TabGood(FreshTab, rev)
<1>1. PICK read : read = [purpose |-> "load", reply |-> None]
  OBVIOUS
<1>2. read \in Reads /\ \A l, r : ReadGood(read, l, r)
  BY <1>1 DEF Reads, TabReplies, ReadGood
<1>3. FreshTab = [phase |-> "loading", view |-> None, command |-> None, sync |-> FALSE,
                  forced |-> read, focus |-> None, learned |-> 0]
  BY <1>1 DEF FreshTab
<1>4. FreshTab \in TabSet
  BY <1>2, <1>3 DEF TabSet, TabPhases
<1> QED
  BY <1>1, <1>2, <1>3, <1>4 DEF TabGood

LEMMA AuthRequiredGood ==
    ASSUME NEW rev \in Nat PROVE TabGood(MarkAuthRequired, rev) /\ MarkAuthRequired.command = None
                                 /\ MarkAuthRequired.view = None
<1>1. MarkAuthRequired = [phase |-> "auth-required", view |-> None, command |-> None, sync |-> FALSE,
                          forced |-> None, focus |-> None, learned |-> 0]
  <2>1. PICK read : read = [purpose |-> "load", reply |-> None]
    OBVIOUS
  <2>2. PICK tab : tab = [phase |-> "loading", view |-> None, command |-> None, sync |-> FALSE,
                          forced |-> read, focus |-> None, learned |-> 0]
    OBVIOUS
  <2>3. FreshTab = tab
    BY <2>1, <2>2 DEF FreshTab
  <2>4. MarkAuthRequired = [tab EXCEPT !.phase = "auth-required", !.forced = None]
    BY <2>3 DEF MarkAuthRequired
  <2> QED
    BY <2>2, <2>4
<1>2. MarkAuthRequired \in TabSet
  BY <1>1 DEF TabSet, TabPhases
<1> QED
  BY <1>1, <1>2 DEF TabGood

LEMMA UnavailableGood ==
    ASSUME NEW tab, NEW rev \in Nat, TabGood(tab, rev), StorySound
    PROVE  /\ TabGood(MarkUnavailable(tab), rev) /\ MarkUnavailable(tab).command = None
           /\ MarkUnavailable(tab).view = None
<1>1. tab \in TabSet /\ tab.learned \in Nat
  BY DEF TabGood, TabSet
<1>2. PICK new : new = MarkUnavailable(tab)
  OBVIOUS
<1>3. /\ new \in TabSet /\ new.phase = "unavailable" /\ new.view = None /\ new.command = None
      /\ new.sync = FALSE /\ new.learned = 0 /\ new.forced = tab.forced /\ new.focus = tab.focus
  BY <1>1, <1>2 DEF MarkUnavailable, TabSet, TabPhases
<1>4. ASSUME NEW read \in Reads, ReadGood(read, tab.learned, rev) PROVE ReadGood(read, 0, rev)
  <2>1. read.reply # None /\ ~IsError(read.reply) => read.reply.revision \in Nat
    BY AnswerForms DEF Reads
  <2> QED
    BY <1>4, <2>1 DEF ReadGood
<1>5. /\ tab.forced # None => tab.forced \in Reads
      /\ tab.focus # None => tab.focus \in Reads
  BY <1>1 DEF TabSet, TabPhases
<1> QED
  BY <1>2, <1>3, <1>4, <1>5 DEF TabGood

\* None is no view.
LEMMA NoneIsNoView == ASSUME StorySound PROVE None \notin Views
<1>1. SUFFICES ASSUME NEW state \in InteractiveStates(Story), None = ViewAt(state) PROVE FALSE
  BY DEF Views
<1>2. DOMAIN ViewAt(state) = {"session", "revision", "story", "scene", "narration", "choices",
                              "knowledge", "inventory", "ending", "status"}
  BY DEF ViewAt, ViewOf, PublicView
<1> QED
  BY <1>1, <1>2 DEF StorySound

\* What TabGood says of the reads in flight, for one that has not been answered.
LEMMA FreshReadGood ==
    ASSUME NEW purpose \in {"load", "confirm", "sync", "focus"}, NEW read,
           read = [purpose |-> purpose, reply |-> None]
    PROVE  read \in Reads /\ read.purpose = purpose /\ \A l, r : ReadGood(read, l, r)
BY DEF Reads, TabReplies, ReadGood

\* The parts of a tab.
TabForm(tab, rev) ==
    /\ tab = [phase |-> tab.phase, view |-> tab.view, command |-> tab.command, sync |-> tab.sync,
              forced |-> tab.forced, focus |-> tab.focus, learned |-> tab.learned]
    /\ tab \in TabSet /\ tab.learned \in Nat /\ tab.sync \in BOOLEAN /\ tab.phase \in TabPhases
    /\ tab.view \in {None} \cup Views /\ tab.command \in {None} \cup TabCommands
    /\ tab.forced \in {None} \cup Reads /\ tab.focus \in {None} \cup Reads
    /\ tab.view # None => tab.view \in Views /\ tab.view.revision \in Nat
    /\ tab.command # None =>
         /\ tab.command \in TabCommands /\ tab.command.request \in ChoiceRequests
         /\ tab.command.request.revision \in Nat
         /\ tab.command.request.revision <= rev /\ tab.view # None /\ ~tab.sync
    /\ tab.forced # None => tab.forced \in Reads
    /\ tab.focus # None => tab.focus \in Reads /\ tab.focus.purpose = "focus"

LEMMA TabIn ==
    ASSUME NEW phase \in TabPhases, NEW view \in {None} \cup Views, NEW command \in {None} \cup TabCommands,
           NEW sync \in BOOLEAN, NEW forced \in {None} \cup Reads, NEW focus \in {None} \cup Reads,
           NEW learned \in Nat
    PROVE  [phase |-> phase, view |-> view, command |-> command, sync |-> sync,
            forced |-> forced, focus |-> focus, learned |-> learned] \in TabSet
BY DEF TabSet

LEMMA TabParts ==
    ASSUME StorySound, NEW tab, NEW rev \in Nat, TabGood(tab, rev) PROVE TabForm(tab, rev)
<1>1. tab \in TabSet
  BY DEF TabGood
<1>2. tab.view # None => tab.view \in Views /\ tab.view.revision \in Nat
  BY <1>1, ViewRevision DEF TabSet, TabPhases
<1>3. ASSUME tab.command # None
      PROVE  /\ tab.command \in TabCommands /\ tab.command.request \in ChoiceRequests
             /\ tab.command.request.revision \in Nat
             /\ tab.command.request.revision <= rev /\ tab.view # None /\ ~tab.sync
  <2>1. tab.command \in TabCommands
    BY <1>1, <1>3 DEF TabSet, TabPhases
  <2>2. PICK c : c = tab.command
    OBVIOUS
  <2>3. c.request \in ChoiceRequests /\ c.request.revision \in Nat
    BY <2>1, <2>2 DEF TabCommands, ChoiceRequests
  <2>4. c.request.revision <= rev
    BY <1>3, <2>2 DEF TabGood, PendingGood
  <2> QED
    BY <1>3, <2>1, <2>2, <2>3, <2>4 DEF TabGood
<1> QED
  BY <1>1, <1>2, <1>3 DEF TabForm, TabSet, TabGood

\* A reader never goes back to an older view.
LEMMA ApplyViewGood ==
    ASSUME StorySound, NEW tab, NEW rev \in Nat, TabGood(tab, rev),
           NEW view \in Views, view.revision <= rev, NEW new, new = ApplyView(tab, view)
    PROVE  /\ TabGood(new, rev) /\ Forward(new, tab)
           /\ new.view # None /\ new.view.revision >= view.revision
           /\ new.command = tab.command /\ new.sync = tab.sync /\ new.learned = tab.learned
           /\ tab.view = None \/ view.revision >= tab.view.revision => new.view = view
<1>0. TabForm(tab, rev)
  BY TabParts
<1>1. view.revision \in Nat /\ view # None
  BY ViewRevision, NoneIsNoView
<1>2. CASE tab.view # None /\ view.revision < tab.view.revision
  BY <1>0, <1>1, <1>2 DEF TabForm, ApplyView, Forward
<1>3. CASE ~(tab.view # None /\ view.revision < tab.view.revision)
  <2>1. /\ new = [phase |-> "ready", view |-> view, command |-> tab.command, sync |-> tab.sync,
                  forced |-> tab.forced, focus |-> tab.focus, learned |-> tab.learned]
    BY <1>0, <1>3 DEF TabForm, ApplyView
  <2>2. new \in TabSet
    BY <1>0, <2>1, TabIn DEF TabForm, TabPhases
  <2>3. TabGood(new, rev)
    BY <1>0, <1>1, <1>3, <2>1, <2>2 DEF TabForm, TabGood
  <2> QED
    BY <1>0, <1>1, <1>3, <2>1, <2>3 DEF TabForm, Forward
<1> QED
  BY <1>2, <1>3

\* Choices are blocked, or unblocked once the tab shows what it has learned.
LEMMA SyncSetGood ==
    ASSUME StorySound, NEW tab, NEW rev \in Nat, TabGood(tab, rev), tab.command = None,
           NEW sync \in BOOLEAN, sync \/ tab.view = None \/ tab.learned <= tab.view.revision,
           NEW new, new = [tab EXCEPT !.sync = sync]
    PROVE  TabGood(new, rev) /\ Follows(new, tab) /\ new.view = tab.view
<1>0. TabForm(tab, rev)
  BY TabParts
<1>1. new = [phase |-> tab.phase, view |-> tab.view, command |-> tab.command, sync |-> sync,
             forced |-> tab.forced, focus |-> tab.focus, learned |-> tab.learned]
  BY <1>0 DEF TabForm
<1>2. new \in TabSet
  BY <1>0, <1>1, TabIn DEF TabForm
<1> QED
  BY <1>0, <1>1, <1>2 DEF TabForm, TabGood, Follows, SameCommand

\* What TabGood asks of a phase.
LEMMA PhaseSetGood ==
    ASSUME StorySound, NEW tab, NEW rev \in Nat, TabGood(tab, rev),
           NEW phase \in TabPhases, phase # "ready",
           NEW new, new = [tab EXCEPT !.phase = phase]
    PROVE  TabGood(new, rev) /\ Follows(new, tab) /\ new.view = tab.view
<1>0. TabForm(tab, rev)
  BY TabParts
<1>1. new = [phase |-> phase, view |-> tab.view, command |-> tab.command, sync |-> tab.sync,
             forced |-> tab.forced, focus |-> tab.focus, learned |-> tab.learned]
  BY <1>0 DEF TabForm
<1>2. new \in TabSet
  BY <1>0, <1>1, TabIn DEF TabForm
<1> QED
  BY <1>0, <1>1, <1>2 DEF TabForm, TabGood, Follows, SameCommand

\* A command may be forgotten when the tab shows what it has learned.
LEMMA CommandDoneGood ==
    ASSUME StorySound, NEW tab, NEW rev \in Nat, TabGood(tab, rev), tab.command # None,
           tab.learned <= tab.view.revision, NEW new, new = [tab EXCEPT !.command = None]
    PROVE  TabGood(new, rev) /\ Follows(new, tab) /\ new.view = tab.view
<1>0. TabForm(tab, rev)
  BY TabParts
<1>1. new = [phase |-> tab.phase, view |-> tab.view, command |-> None, sync |-> tab.sync,
             forced |-> tab.forced, focus |-> tab.focus, learned |-> tab.learned]
  BY <1>0 DEF TabForm
<1>2. new \in TabSet
  BY <1>0, <1>1, TabIn DEF TabForm
<1> QED
  BY <1>0, <1>1, <1>2 DEF TabForm, TabGood, Follows

\* A refresh that showed what it read ends the synchronisation or confirms the command;
\* one that did not blocks choices again, or is reported.
LEMMA RefreshedGood ==
    ASSUME StorySound, NEW tab, NEW rev \in Nat, TabGood(tab, rev),
           NEW purpose \in {"load", "confirm", "sync", "focus"}, NEW ok \in BOOLEAN,
           ok => tab.view # None /\ (purpose = "sync" => tab.learned <= tab.view.revision),
           purpose = "sync" => tab.command = None,
           purpose = "confirm" /\ tab.command # None => tab.command.phase = "confirming",
           NEW new, new = ViewRefreshed(tab, purpose, ok)
    PROVE  TabGood(new, rev) /\ Follows(new, tab) /\ new.view = tab.view
<1>0. TabForm(tab, rev)
  BY TabParts
<1>1. CASE purpose = "sync"
  <2>1. PICK sync \in BOOLEAN : sync = ~ok
    OBVIOUS
  <2>2. new = [tab EXCEPT !.sync = sync]
    BY <1>1, <2>1 DEF ViewRefreshed
  <2>3. sync \/ tab.view = None \/ tab.learned <= tab.view.revision
    BY <1>1, <2>1
  <2> QED
    BY <1>1, <2>2, <2>3, SyncSetGood
<1>2. CASE purpose = "confirm" /\ ok /\ tab.command # None /\ tab.view.revision >= tab.command.recorded
  <2>1. new = [tab EXCEPT !.command = None]
    BY <1>2 DEF ViewRefreshed
  <2>2. tab.learned <= tab.view.revision
    <3>1. PendingGood(tab.command, tab.learned, rev)
      BY <1>2 DEF TabGood
    <3>2. PICK c : c = tab.command
      OBVIOUS
    <3>3. c.recorded \in Nat /\ tab.learned <= c.recorded
      BY <1>2, <3>1, <3>2 DEF PendingGood
    <3>4. tab.view.revision \in Nat /\ tab.learned \in Nat
      BY <1>0, <1>2 DEF TabForm
    <3> QED
      BY <1>2, <3>2, <3>3, <3>4
  <2> QED
    BY <1>2, <2>1, <2>2, CommandDoneGood
<1>3. CASE purpose = "load" /\ ~ok
  <2>1. new = [tab EXCEPT !.phase = "load-error"]
    BY <1>3 DEF ViewRefreshed
  <2> QED
    BY <2>1, PhaseSetGood DEF TabPhases
<1>4. CASE /\ purpose # "sync" /\ ~(purpose = "load" /\ ~ok)
           /\ ~(purpose = "confirm" /\ ok /\ tab.command # None /\ tab.view.revision >= tab.command.recorded)
  <2>1. new = tab
    BY <1>4 DEF ViewRefreshed
  <2> QED
    BY <2>1 DEF Follows, SameCommand
<1> QED
  BY <1>1, <1>2, <1>3, <1>4

\* A read answered, or failed, after its slot was cleared.
LEMMA DeliveredGood ==
    ASSUME StorySound, NEW tab, NEW rev \in Nat, TabGood(tab, rev),
           NEW purpose \in {"load", "confirm", "sync", "focus"}, NEW reply \in TabReplies, reply # None,
           ~IsError(reply) => reply.revision <= rev /\ (purpose = "sync" => tab.learned <= reply.revision),
           purpose = "sync" => tab.command = None,
           purpose = "confirm" /\ tab.command # None => tab.command.phase = "confirming",
           NEW new, new = Delivered(tab, purpose, reply)
    PROVE  TabGood(new, rev) /\ Follows(new, tab) /\ Forward(new, tab)
<1>1. CASE IsError(reply) /\ reply.error \in {"SESSION_NOT_FOUND", "UNAUTHORIZED"}
  <2>1. CASE reply.error = "SESSION_NOT_FOUND"
    BY <1>1, <2>1, UnavailableGood DEF Delivered, Follows, Forward
  <2>2. CASE reply.error = "UNAUTHORIZED"
    BY <1>1, <2>2, AuthRequiredGood DEF Delivered, Follows, Forward
  <2> QED
    BY <1>1, <2>1, <2>2
<1>2. CASE IsError(reply) /\ reply.error \notin {"SESSION_NOT_FOUND", "UNAUTHORIZED"}
  <2>1. PICK ok \in BOOLEAN : ~ok
    OBVIOUS
  <2>2. ok = FALSE
    BY <2>1
  <2>3. new = ViewRefreshed(tab, purpose, ok)
    BY <1>2, <2>2 DEF Delivered
  <2> HIDE <2>2
  <2>4. TabGood(new, rev) /\ Follows(new, tab) /\ new.view = tab.view
    BY <2>1, <2>3, RefreshedGood
  <2> QED
    BY <2>4, TabParts DEF Forward, TabForm
<1>3. CASE ~IsError(reply)
  <2>1. reply \in Views /\ reply.revision \in Nat /\ reply.revision <= rev
    BY <1>3, AnswerForms
  <2>2. PICK mid : mid = ApplyView(tab, reply)
    OBVIOUS
  <2>3. /\ TabGood(mid, rev) /\ Forward(mid, tab)
        /\ mid.view # None /\ mid.view.revision >= reply.revision
        /\ mid.command = tab.command /\ mid.sync = tab.sync /\ mid.learned = tab.learned
        /\ tab.view = None \/ reply.revision >= tab.view.revision => mid.view = reply
    BY <2>1, <2>2, ApplyViewGood
  <2>4. PICK ok : ok = (tab.view = None \/ reply.revision >= tab.view.revision)
    OBVIOUS
  <2>5. ok \in BOOLEAN /\ new = ViewRefreshed(mid, purpose, ok)
    BY <1>3, <2>2, <2>4 DEF Delivered
  <2>6. /\ ok => mid.view # None /\ (purpose = "sync" => mid.learned <= mid.view.revision)
        /\ purpose = "sync" => mid.command = None
        /\ purpose = "confirm" /\ mid.command # None => mid.command.phase = "confirming"
    BY <1>3, <2>1, <2>3, <2>4
  <2>7. TabGood(new, rev) /\ Follows(new, mid) /\ new.view = mid.view
    <3> HIDE <2>4, <1>3, <2>2
    <3> QED
      BY <2>3, <2>5, <2>6, RefreshedGood
  <2> QED
    BY <2>3, <2>7 DEF Follows, Forward, SameCommand
<1> QED
  BY <1>1, <1>2, <1>3

\* The slots of the reads in flight.
LEMMA ForcedSetGood ==
    ASSUME StorySound, NEW tab, NEW rev \in Nat, TabGood(tab, rev),
           NEW read \in {None} \cup Reads, read # None => ReadGood(read, tab.learned, rev),
           read # None /\ read.purpose = "sync" => tab.command = None,
           read # None /\ read.purpose = "confirm" /\ tab.command # None => tab.command.phase = "confirming",
           NEW new, new = [tab EXCEPT !.forced = read]
    PROVE  /\ TabGood(new, rev) /\ Follows(new, tab)
           /\ new.view = tab.view /\ new.learned = tab.learned /\ new.command = tab.command
<1>0. TabForm(tab, rev)
  BY TabParts
<1>1. new = [phase |-> tab.phase, view |-> tab.view, command |-> tab.command, sync |-> tab.sync,
             forced |-> read, focus |-> tab.focus, learned |-> tab.learned]
  BY <1>0 DEF TabForm
<1>2. new \in TabSet
  <2>1. /\ tab.phase \in TabPhases /\ tab.view \in {None} \cup Views /\ tab.sync \in BOOLEAN
        /\ tab.command \in {None} \cup TabCommands /\ tab.focus \in {None} \cup Reads
        /\ tab.learned \in Nat
    BY <1>0 DEF TabForm
  <2>2. PICK phase, view, command, sync, focus, learned :
            /\ phase = tab.phase /\ view = tab.view /\ command = tab.command /\ sync = tab.sync
            /\ focus = tab.focus /\ learned = tab.learned
    OBVIOUS
  <2>3. [phase |-> phase, view |-> view, command |-> command, sync |-> sync,
         forced |-> read, focus |-> focus, learned |-> learned] \in TabSet
    BY <2>1, <2>2, TabIn
  <2> QED
    BY <1>1, <2>2, <2>3
<1> QED
  BY <1>0, <1>1, <1>2 DEF TabForm, TabGood, Follows, SameCommand

LEMMA FocusSetGood ==
    ASSUME StorySound, NEW tab, NEW rev \in Nat, TabGood(tab, rev),
           NEW read \in {None} \cup Reads,
           read # None => ReadGood(read, tab.learned, rev) /\ read.purpose = "focus",
           NEW new, new = [tab EXCEPT !.focus = read]
    PROVE  /\ TabGood(new, rev) /\ Follows(new, tab)
           /\ new.view = tab.view /\ new.learned = tab.learned /\ new.command = tab.command
<1>0. TabForm(tab, rev)
  BY TabParts
<1>1. new = [phase |-> tab.phase, view |-> tab.view, command |-> tab.command, sync |-> tab.sync,
             forced |-> tab.forced, focus |-> read, learned |-> tab.learned]
  BY <1>0 DEF TabForm
<1>2. new \in TabSet
  BY <1>0, <1>1, TabIn DEF TabForm
<1> QED
  BY <1>0, <1>1, <1>2 DEF TabForm, TabGood, Follows, SameCommand

\* The story is read again, for a command that is recorded or for a blocked reader.
LEMMA ForcedReadGood ==
    ASSUME StorySound, NEW tab, NEW rev \in Nat, TabGood(tab, rev),
           NEW purpose \in {"load", "confirm", "sync", "focus"},
           purpose = "sync" => tab.command = None,
           purpose = "confirm" /\ tab.command # None => tab.command.phase = "confirming",
           NEW new, new = ForcedRead(tab, purpose)
    PROVE  TabGood(new, rev) /\ Follows(new, tab) /\ Forward(new, tab)
<1>1. PICK read : read = [purpose |-> purpose, reply |-> None]
  OBVIOUS
<1>2. read \in Reads /\ read.purpose = purpose /\ ReadGood(read, tab.learned, rev)
  BY <1>1, FreshReadGood
<1>3. TabForm(tab, rev)
  BY TabParts
<1>4. new = [tab EXCEPT !.forced = read]
  BY <1>1 DEF ForcedRead
<1>5. TabGood(new, rev) /\ Follows(new, tab) /\ new.view = tab.view
  BY <1>2, <1>4, ForcedSetGood
<1> QED
  BY <1>3, <1>5 DEF Forward, TabForm

\* The command changes, and the request and the key of it do not, or there was none.
LEMMA CommandSetGood ==
    ASSUME StorySound, NEW tab, NEW rev \in Nat, TabGood(tab, rev), tab.view # None, ~tab.sync,
           NEW c \in TabCommands, PendingGood(c, tab.learned, rev),
           tab.forced # None => /\ tab.forced.purpose # "sync"
                                /\ tab.forced.purpose = "confirm" => c.phase = "confirming",
           NEW new, new = [tab EXCEPT !.command = c]
    PROVE  TabGood(new, rev) /\ new.view = tab.view /\ new.command = c /\ c # None
<1>0. TabForm(tab, rev)
  BY TabParts
<1>1. new = [phase |-> tab.phase, view |-> tab.view, command |-> c, sync |-> tab.sync,
             forced |-> tab.forced, focus |-> tab.focus, learned |-> tab.learned]
  BY <1>0 DEF TabForm
<1>2. new \in TabSet
  BY <1>0, <1>1, TabIn DEF TabForm
<1>3. c # None
  <2>1. DOMAIN c = {"key", "phase", "attempts", "send", "reply", "recorded", "request"}
    BY DEF TabCommands
  <2> QED
    BY <2>1 DEF StorySound
<1> QED
  BY <1>0, <1>1, <1>2, <1>3 DEF TabForm, TabGood

\* What a command consists of.
LEMMA CommandParts ==
    ASSUME NEW c \in TabCommands
    PROVE  /\ c = [key |-> c.key, phase |-> c.phase, attempts |-> c.attempts, send |-> c.send,
                   reply |-> c.reply, recorded |-> c.recorded, request |-> c.request]
           /\ c.key \in Nat /\ c.attempts \in Nat /\ c.send \in Nat /\ c.reply \in TabReplies
           /\ c.recorded \in {None} \cup Nat /\ c.request \in ChoiceRequests
           /\ c.request.revision \in Nat /\ c.request.choice \in AllIds(Story)
           /\ c.phase \in {"submitting", "retryable", "confirming", "inconsistent"}
<1>1. c.request \in ChoiceRequests
  BY DEF TabCommands
<1>2. PICK r : r = c.request
  OBVIOUS
<1>3. r.revision \in Nat /\ r.choice \in AllIds(Story)
  BY <1>1, <1>2 DEF ChoiceRequests
<1> QED
  BY <1>1, <1>2, <1>3 DEF TabCommands

LEMMA CommandIn ==
    ASSUME NEW key \in Nat, NEW phase \in {"submitting", "retryable", "confirming", "inconsistent"},
           NEW attempts \in Nat, NEW send \in Nat, NEW reply \in TabReplies,
           NEW recorded \in {None} \cup Nat, NEW asked \in ChoiceRequests
    PROVE  [key |-> key, phase |-> phase, attempts |-> attempts, send |-> send, reply |-> reply,
            recorded |-> recorded, request |-> asked] \in TabCommands
BY DEF TabCommands

\* A command whose answer is not known any more: it is to be confirmed or tried again.
LEMMA CommandTurns ==
    ASSUME StorySound, NEW tab, NEW rev \in Nat, TabGood(tab, rev), tab.command # None,
           tab.command.phase = "submitting", NEW new, new = [tab EXCEPT !.command.phase = "retryable"]
    PROVE  TabGood(new, rev) /\ Follows(new, tab) /\ new.view = tab.view
<1>0. TabForm(tab, rev)
  BY TabParts
<1>1. PICK c \in TabCommands : c = tab.command
  BY <1>0 DEF TabForm
<1>2. PICK d : d = [c EXCEPT !.phase = "retryable"]
  OBVIOUS
<1>3. d = [key |-> c.key, phase |-> "retryable", attempts |-> c.attempts, send |-> c.send,
           reply |-> c.reply, recorded |-> c.recorded, request |-> c.request]
  BY <1>2, CommandParts
<1>4. d \in TabCommands
  BY <1>3, CommandParts, CommandIn
<1>5. PendingGood(d, tab.learned, rev)
  BY <1>1, <1>3 DEF TabGood, PendingGood
<1>6. new = [tab EXCEPT !.command = d]
  BY <1>0, <1>1, <1>2 DEF TabForm
<1>7. tab.view # None /\ ~tab.sync
      /\ (tab.forced # None => tab.forced.purpose # "sync" /\ tab.forced.purpose # "confirm")
  BY <1>0 DEF TabForm, TabGood
<1>8. PICK other : other = [tab EXCEPT !.command = d]
  OBVIOUS
<1>9. d.phase # "confirming"
  BY <1>3
<1>10. TabGood(other, rev) /\ other.view = tab.view /\ other.command = d
  BY <1>4, <1>5, <1>7, <1>8, CommandSetGood
<1>11. new = other
  BY <1>6, <1>8
<1>12. TabGood(new, rev) /\ new.view = tab.view /\ new.command = d
  BY <1>10, <1>11
<1>13. SameCommand(d, c)
  BY <1>3 DEF SameCommand
<1> QED
  BY <1>1, <1>12, <1>13 DEF Follows

\* The recorded choice is what the tab has learned, until it is shown.
LEMMA ConfirmGood ==
    ASSUME StorySound, NEW tab, NEW rev \in Nat, TabGood(tab, rev), tab.command # None,
           tab.command.phase = "submitting", NEW recorded \in Nat, recorded <= rev,
           recorded > tab.command.request.revision,
           NEW new, new = ConfirmRecorded(tab, recorded)
    PROVE  TabGood(new, rev) /\ Follows(new, tab) /\ new.view = tab.view
<1>0. TabForm(tab, rev)
  BY TabParts
<1>1. PICK c \in TabCommands : c = tab.command
  BY <1>0 DEF TabForm
<1>2. PICK d : d = [key |-> c.key, phase |-> "confirming", attempts |-> c.attempts, send |-> c.send,
                    reply |-> c.reply, recorded |-> recorded, request |-> c.request]
  OBVIOUS
<1>3. d \in TabCommands
  BY <1>2, CommandParts, CommandIn
<1>4. tab.learned <= c.request.revision /\ c.request.revision \in Nat /\ c.request.revision < recorded
  BY <1>0, <1>1, CommandParts DEF TabGood, PendingGood
<1>5. PICK read : read = [purpose |-> "confirm", reply |-> None]
  OBVIOUS
<1>6. read \in Reads /\ read.purpose = "confirm" /\ ReadGood(read, recorded, rev)
  BY <1>5, FreshReadGood
<1>7. new = [phase |-> tab.phase, view |-> tab.view, command |-> d, sync |-> tab.sync,
             forced |-> read, focus |-> tab.focus, learned |-> recorded]
  <2>1. PICK mid : mid = AtLeast(tab, recorded)
    OBVIOUS
  <2>2. mid = [phase |-> tab.phase, view |-> tab.view, command |-> c, sync |-> tab.sync,
               forced |-> tab.forced, focus |-> tab.focus, learned |-> recorded]
    BY <1>0, <1>1, <1>4, <2>1 DEF AtLeast, TabForm
  <2>3. PICK e : e = [c EXCEPT !.phase = "confirming"]
    OBVIOUS
  <2>4. e = [key |-> c.key, phase |-> "confirming", attempts |-> c.attempts, send |-> c.send,
             reply |-> c.reply, recorded |-> c.recorded, request |-> c.request]
    BY <2>3, CommandParts
  <2>5. [e EXCEPT !.recorded = recorded] = d
    BY <1>2, <2>4
  <2>6. PICK one : one = [mid EXCEPT !.command.phase = "confirming"]
    OBVIOUS
  <2>7. one = [mid EXCEPT !.command = e]
    BY <2>2, <2>3, <2>6
  <2>8. PICK two : two = [one EXCEPT !.command.recorded = recorded]
    OBVIOUS
  <2>9. two = [one EXCEPT !.command = d]
    BY <2>2, <2>5, <2>7, <2>8
  <2>10. new = [two EXCEPT !.forced = read]
    BY <1>5, <2>1, <2>6, <2>8 DEF ConfirmRecorded, ForcedRead
  <2> QED
    BY <2>2, <2>7, <2>9, <2>10
<1>8. new \in TabSet
  BY <1>0, <1>3, <1>6, <1>7, TabIn DEF TabForm
<1>9. PendingGood(d, recorded, rev)
  BY <1>0, <1>1, <1>2, <1>4 DEF TabForm, PendingGood
<1>10. tab.view # None /\ ~tab.sync /\ (tab.phase = "ready" => tab.view # None)
       /\ (tab.view # None => tab.view.revision <= rev)
       /\ (tab.focus # None => tab.focus.purpose = "focus" /\ ReadGood(tab.focus, tab.learned, rev))
  BY <1>0 DEF TabForm, TabGood
<1>11. tab.focus # None => ReadGood(tab.focus, recorded, rev)
  BY <1>10 DEF ReadGood
<1>12. TabGood(new, rev)
  <2>1. PICK tabSync, tabPhase, view, focus :
          tabSync = tab.sync /\ tabPhase = tab.phase /\ view = tab.view /\ focus = tab.focus
    OBVIOUS
  <2>2. /\ new.phase = tabPhase /\ new.view = view /\ new.command = d /\ new.sync = tabSync
        /\ new.forced = read /\ new.focus = focus /\ new.learned = recorded
    BY <1>7, <2>1
  <2>3. /\ view # None /\ view.revision <= rev /\ ~tabSync /\ d # None
        /\ focus # None => focus.purpose = "focus" /\ ReadGood(focus, recorded, rev)
    <3>1. DOMAIN d = {"key", "phase", "attempts", "send", "reply", "recorded", "request"}
      BY <1>2
    <3>2. d # None
      BY <3>1 DEF StorySound
    <3> QED
      BY <1>10, <1>11, <2>1, <3>2
  <2>4. d.phase = "confirming"
    BY <1>2
  <2> QED
    BY <1>6, <1>8, <1>9, <2>2, <2>3, <2>4 DEF TabGood
<1> QED
  BY <1>1, <1>2, <1>7, <1>12 DEF Follows, SameCommand

\* A choice that was not applied: the reader is blocked until the story is read again.
LEMMA RejectGood ==
    ASSUME StorySound, NEW tab, NEW rev \in Nat, TabGood(tab, rev), tab.command # None,
           NEW learned \in Nat, learned <= rev, tab.learned <= learned,
           NEW new, new = RejectCommand([tab EXCEPT !.learned = learned])
    PROVE  TabGood(new, rev) /\ Follows(new, tab) /\ new.view = tab.view
<1>0. TabForm(tab, rev)
  BY TabParts
<1>1. PICK read : read = [purpose |-> "sync", reply |-> None]
  OBVIOUS
<1>2. read \in Reads /\ read.purpose = "sync" /\ ReadGood(read, learned, rev)
  BY <1>1, FreshReadGood
<1>3. new = [phase |-> tab.phase, view |-> tab.view, command |-> None, sync |-> TRUE,
             forced |-> read, focus |-> tab.focus, learned |-> learned]
  BY <1>0, <1>1 DEF RejectCommand, ForcedRead, TabForm
<1>4. new \in TabSet
  <2>1. PICK sync \in BOOLEAN : sync = TRUE
    OBVIOUS
  <2>2. new = [phase |-> tab.phase, view |-> tab.view, command |-> None, sync |-> sync,
               forced |-> read, focus |-> tab.focus, learned |-> learned]
    BY <1>3, <2>1
  <2>3. PICK phase, view, focus : phase = tab.phase /\ view = tab.view /\ focus = tab.focus
    OBVIOUS
  <2>4. phase \in TabPhases /\ view \in {None} \cup Views /\ focus \in {None} \cup Reads
    BY <1>0, <2>3 DEF TabForm
  <2>5. [phase |-> phase, view |-> view, command |-> None, sync |-> sync,
         forced |-> read, focus |-> focus, learned |-> learned] \in TabSet
    BY <1>2, <2>4, TabIn
  <2> QED
    BY <2>2, <2>3, <2>5
<1>5. /\ tab.view # None => tab.view.revision <= rev
      /\ tab.phase = "ready" => tab.view # None
      /\ tab.view # None
      /\ tab.focus # None => tab.focus.purpose = "focus" /\ ReadGood(tab.focus, tab.learned, rev)
  BY <1>0 DEF TabForm, TabGood
<1>6. tab.focus # None => ReadGood(tab.focus, learned, rev)
  BY <1>5 DEF ReadGood
<1>7. TabGood(new, rev)
  BY <1>2, <1>3, <1>4, <1>5, <1>6 DEF TabGood
<1> QED
  BY <1>3, <1>7 DEF Follows

\* The choice was applied and its view is shown.
LEMMA ResolvedViewGood ==
    ASSUME StorySound, NEW tab, NEW rev \in Nat, TabGood(tab, rev), tab.command # None,
           tab.command.phase = "submitting", NEW view \in Views, view.revision <= rev,
           view.revision > tab.command.request.revision,
           NEW new, new = [ApplyView(AtLeast(tab, view.revision), view) EXCEPT !.command = None]
    PROVE  TabGood(new, rev) /\ Follows(new, tab) /\ Forward(new, tab)
<1>0. TabForm(tab, rev)
  BY TabParts
<1>1. view.revision \in Nat /\ view # None
  BY ViewRevision, NoneIsNoView
<1>2. PICK c \in TabCommands : c = tab.command
  BY <1>0 DEF TabForm
<1>3. tab.learned <= view.revision
  BY <1>0, <1>1, <1>2, CommandParts DEF TabForm, TabGood, PendingGood
<1>4. PICK mid : mid = AtLeast(tab, view.revision)
  OBVIOUS
<1>5. mid = [phase |-> tab.phase, view |-> tab.view, command |-> c, sync |-> tab.sync,
             forced |-> tab.forced, focus |-> tab.focus, learned |-> view.revision]
  BY <1>0, <1>1, <1>2, <1>3, <1>4 DEF AtLeast, TabForm
<1>6. PICK phase, shown : /\ phase = (IF view.revision < tab.view.revision THEN tab.phase ELSE "ready")
                          /\ shown = (IF view.revision < tab.view.revision THEN tab.view ELSE view)
  OBVIOUS
<1>7. tab.view # None /\ ~tab.sync /\ tab.view.revision <= rev /\ tab.view.revision \in Nat
  BY <1>0 DEF TabForm, TabGood
<1>8. new = [phase |-> phase, view |-> shown, command |-> None, sync |-> tab.sync,
             forced |-> tab.forced, focus |-> tab.focus, learned |-> view.revision]
  <2>1. /\ mid.view = tab.view /\ mid.phase = tab.phase
        /\ new = [ApplyView(mid, view) EXCEPT !.command = None]
    BY <1>4, <1>5
  <2>2. CASE view.revision < tab.view.revision
    <3>1. ApplyView(mid, view) = mid
      BY <1>7, <2>1, <2>2 DEF ApplyView
    <3> QED
      BY <1>5, <1>6, <2>1, <2>2, <3>1
  <2>3. CASE ~(view.revision < tab.view.revision)
    <3>1. ApplyView(mid, view) = [mid EXCEPT !.view = view, !.phase = "ready"]
      BY <1>7, <2>1, <2>3 DEF ApplyView
    <3>2. PICK one : one = [mid EXCEPT !.view = view]
      OBVIOUS
    <3>3. one = [phase |-> tab.phase, view |-> view, command |-> c, sync |-> tab.sync,
                 forced |-> tab.forced, focus |-> tab.focus, learned |-> view.revision]
      BY <1>5, <3>2
    <3>4. ApplyView(mid, view) = [one EXCEPT !.phase = "ready"]
      BY <3>1, <3>2
    <3>5. phase = "ready" /\ shown = view
      BY <1>6, <2>3
    <3>6. ApplyView(mid, view)
            = [phase |-> "ready", view |-> view, command |-> c, sync |-> tab.sync,
               forced |-> tab.forced, focus |-> tab.focus, learned |-> view.revision]
      BY <3>3, <3>4
    <3> QED
      BY <2>1, <3>5, <3>6
  <2> QED
    BY <2>2, <2>3
<1>9. /\ phase \in TabPhases /\ shown \in Views /\ shown # None /\ shown.revision <= rev
      /\ view.revision <= shown.revision /\ tab.view.revision <= shown.revision
  <2>1. CASE view.revision < tab.view.revision
    BY <1>0, <1>1, <1>6, <1>7, <2>1 DEF TabForm
  <2>2. CASE ~(view.revision < tab.view.revision)
    BY <1>0, <1>1, <1>6, <1>7, <2>2 DEF TabForm, TabPhases
  <2> QED
    BY <2>1, <2>2
<1>10. new \in TabSet
  BY <1>0, <1>1, <1>8, <1>9, TabIn DEF TabForm
<1>11. /\ tab.forced # None => tab.forced.purpose # "sync" /\ ReadGood(tab.forced, tab.learned, rev)
       /\ tab.focus # None => tab.focus.purpose = "focus" /\ ReadGood(tab.focus, tab.learned, rev)
  BY <1>0 DEF TabForm, TabGood
<1>12. /\ tab.forced # None => ReadGood(tab.forced, view.revision, rev)
       /\ tab.focus # None => ReadGood(tab.focus, view.revision, rev)
  BY <1>11 DEF ReadGood
<1>13. TabGood(new, rev)
  BY <1>1, <1>7, <1>8, <1>9, <1>10, <1>11, <1>12 DEF TabGood
<1> QED
  BY <1>8, <1>9, <1>13 DEF Follows, Forward

\* An answer to the command that is waited for.
LEMMA ResolvedGood ==
    ASSUME StorySound, NEW tab, NEW rev \in Nat, TabGood(tab, rev), tab.command # None,
           tab.command.phase = "submitting", NEW reply \in TabReplies, reply # None,
           ToldGood(reply, tab.command.request, rev), NEW new, new = Resolved(tab, reply)
    PROVE  TabGood(new, rev) /\ Follows(new, tab) /\ Forward(new, tab)
<1>0. TabForm(tab, rev)
  BY TabParts
<1>1. CASE ~IsError(reply)
  <2>1. /\ reply \in Views /\ reply.revision \in Nat
        /\ reply.revision <= rev /\ reply.revision > tab.command.request.revision
    BY <1>0, <1>1, AnswerForms DEF TabForm, ToldGood
  <2>2. CASE tab.command.attempts > 1
    <3>1. new = ConfirmRecorded(tab, reply.revision)
      BY <1>1, <2>2 DEF Resolved
    <3>2. PICK recorded \in Nat : recorded = reply.revision
      BY <2>1
    <3>3. TabGood(new, rev) /\ Follows(new, tab) /\ new.view = tab.view
      BY <2>1, <3>1, <3>2, ConfirmGood
    <3> QED
      BY <1>0, <3>3 DEF Forward, TabForm
  <2>3. CASE ~(tab.command.attempts > 1)
    <3>1. new = [ApplyView(AtLeast(tab, reply.revision), reply) EXCEPT !.command = None]
      BY <1>1, <2>3 DEF Resolved
    <3> QED
      BY <2>1, <3>1, ResolvedViewGood
  <2> QED
    BY <2>2, <2>3
<1>2. CASE IsError(reply) /\ reply.error = "SESSION_NOT_FOUND"
  <2>1. new = MarkUnavailable(tab)
    BY <1>2 DEF Resolved, Rejections
  <2>2. TabGood(new, rev) /\ new.command = None /\ new.view = None
    BY <2>1, UnavailableGood
  <2> QED
    BY <2>2 DEF Follows, Forward
<1>3. CASE IsError(reply) /\ reply.error = "UNAUTHORIZED"
  <2>1. new = MarkAuthRequired
    BY <1>3 DEF Resolved, Rejections
  <2>2. TabGood(new, rev) /\ new.command = None /\ new.view = None
    BY <2>1, AuthRequiredGood
  <2> QED
    BY <2>2 DEF Follows, Forward
<1>4. CASE IsError(reply) /\ reply.error = "REVISION_CONFLICT"
  <2>1. PICK learned : learned = IF tab.learned < tab.command.request.revision + 1
                                 THEN tab.command.request.revision + 1 ELSE tab.learned
    OBVIOUS
  <2>2. learned \in Nat /\ learned <= rev /\ tab.learned <= learned
    BY <1>0, <1>4, <2>1 DEF TabForm, TabGood, ToldGood
  <2>3. new = RejectCommand([tab EXCEPT !.learned = learned])
    <3>1. new = RejectCommand(AtLeast(tab, tab.command.request.revision + 1))
      BY <1>4 DEF Resolved, Rejections
    <3>2. AtLeast(tab, tab.command.request.revision + 1) = [tab EXCEPT !.learned = learned]
      BY <1>0, <2>1 DEF AtLeast, TabForm
    <3> QED
      BY <3>1, <3>2
  <2>4. TabGood(new, rev) /\ Follows(new, tab) /\ new.view = tab.view
    BY <2>2, <2>3, RejectGood
  <2> QED
    BY <1>0, <2>4 DEF Forward, TabForm
<1>5. CASE IsError(reply) /\ reply.error \in Rejections \ {"REVISION_CONFLICT"}
  <2>1. new = RejectCommand(tab)
    BY <1>5 DEF Resolved, Rejections
  <2>2. PICK learned : learned = tab.learned
    OBVIOUS
  <2>3. tab = [tab EXCEPT !.learned = learned] /\ learned \in Nat /\ learned <= rev
    BY <1>0, <2>2 DEF TabForm, TabGood
  <2>4. TabGood(new, rev) /\ Follows(new, tab) /\ new.view = tab.view
    BY <2>1, <2>2, <2>3, RejectGood
  <2> QED
    BY <1>0, <2>4 DEF Forward, TabForm
<1>6. CASE IsError(reply) /\ reply.error \notin Rejections \cup {"SESSION_NOT_FOUND", "UNAUTHORIZED"}
  <2>1. reply.error # "IDEMPOTENCY_KEY_REUSED"
    BY <1>6 DEF ToldGood
  <2>2. new = [tab EXCEPT !.command.phase = "retryable"]
    BY <1>6, <2>1 DEF Resolved, Rejections
  <2>3. TabGood(new, rev) /\ Follows(new, tab) /\ new.view = tab.view
    BY <2>2, CommandTurns
  <2> QED
    BY <1>0, <2>3 DEF Forward, TabForm
<1> QED
  BY <1>1, <1>2, <1>3, <1>4, <1>5, <1>6

\* A read that is answered or fails, with its slot cleared.
LEMMA ReceivedGood ==
    ASSUME StorySound, NEW tab, NEW rev \in Nat, TabGood(tab, rev), NEW slot \in {"forced", "focus"},
           tab[slot] # None, NEW reply \in TabReplies, reply # None,
           reply = tab[slot].reply \/ IsError(reply),
           NEW new, new = Delivered([tab EXCEPT ![slot] = None], tab[slot].purpose, reply)
    PROVE  TabGood(new, rev) /\ Follows(new, tab) /\ Forward(new, tab)
<1>0. TabForm(tab, rev)
  BY TabParts
<1>1. PICK read : read = tab[slot]
  OBVIOUS
<1>2. PICK cleared : cleared = [tab EXCEPT ![slot] = None]
  OBVIOUS
<1>3. /\ TabGood(cleared, rev) /\ cleared.view = tab.view /\ cleared.learned = tab.learned
      /\ cleared.command = tab.command
      /\ read \in Reads /\ ReadGood(read, tab.learned, rev)
      /\ read.purpose = "sync" => tab.command = None
      /\ read.purpose = "confirm" /\ tab.command # None => tab.command.phase = "confirming"
  <2>1. CASE slot = "forced"
    <3>1. read = tab.forced
      BY <1>0, <1>1, <2>1 DEF TabForm
    <3>2. cleared = [tab EXCEPT !.forced = None]
      BY <1>2, <2>1
    <3>3. PICK none \in {None} \cup Reads : none = None
      OBVIOUS
    <3>4. TabGood(cleared, rev) /\ cleared.view = tab.view /\ cleared.learned = tab.learned
          /\ cleared.command = tab.command
      BY <3>2, <3>3, ForcedSetGood
    <3>5. /\ read \in Reads /\ ReadGood(read, tab.learned, rev)
          /\ read.purpose = "sync" => tab.command = None
          /\ read.purpose = "confirm" /\ tab.command # None => tab.command.phase = "confirming"
      BY <1>0, <1>1, <3>1 DEF TabForm, TabGood
    <3> QED
      BY <3>4, <3>5
  <2>2. CASE slot = "focus"
    <3>1. read = tab.focus
      BY <1>0, <1>1, <2>2 DEF TabForm
    <3>2. cleared = [tab EXCEPT !.focus = None]
      BY <1>2, <2>2
    <3>3. PICK none \in {None} \cup Reads : none = None
      OBVIOUS
    <3>4. TabGood(cleared, rev) /\ cleared.view = tab.view /\ cleared.learned = tab.learned
          /\ cleared.command = tab.command
      BY <3>2, <3>3, FocusSetGood
    <3>5. read \in Reads /\ ReadGood(read, tab.learned, rev) /\ read.purpose = "focus"
      BY <1>0, <1>1, <3>1 DEF TabForm, TabGood
    <3> QED
      BY <3>4, <3>5
  <2> QED
    BY <2>1, <2>2
<1>4. /\ read.purpose \in {"load", "confirm", "sync", "focus"}
      /\ ~IsError(reply) => reply.revision <= rev /\ (read.purpose = "sync" => tab.learned <= reply.revision)
  BY <1>1, <1>3 DEF Reads, ReadGood
<1>5. PICK purpose \in {"load", "confirm", "sync", "focus"} : purpose = read.purpose
  BY <1>4
<1>6. new = Delivered(cleared, purpose, reply)
  BY <1>1, <1>2, <1>5
<1>7. /\ ~IsError(reply) => reply.revision <= rev /\ (purpose = "sync" => cleared.learned <= reply.revision)
      /\ purpose = "sync" => cleared.command = None
      /\ purpose = "confirm" /\ cleared.command # None => cleared.command.phase = "confirming"
  BY <1>3, <1>4, <1>5
<1> HIDE <1>2
<1>8. TabGood(new, rev) /\ Follows(new, cleared) /\ Forward(new, cleared)
  BY <1>3, <1>6, <1>7, DeliveredGood
<1> QED
  BY <1>3, <1>8 DEF Follows, Forward

\* A read is served with what the server holds now.
LEMMA ServedGood ==
    ASSUME StorySound, NEW tab, NEW rev \in Nat, TabGood(tab, rev), NEW slot \in {"forced", "focus"},
           tab[slot] # None, NEW reply \in TabReplies, ~IsError(reply) => reply.revision = rev,
           NEW new, new = [tab EXCEPT ![slot].reply = reply]
    PROVE  TabGood(new, rev) /\ Follows(new, tab) /\ Forward(new, tab)
<1>0. TabForm(tab, rev)
  BY TabParts
<1>1. PICK old : old = tab[slot]
  OBVIOUS
<1>2. PICK read : read = [old EXCEPT !.reply = reply]
  OBVIOUS
<1>3. tab.learned <= rev /\ tab.learned \in Nat
  BY <1>0 DEF TabForm, TabGood
<1>4. ASSUME old \in Reads
      PROVE  /\ read \in Reads /\ read.purpose = old.purpose /\ ReadGood(read, tab.learned, rev)
  <2>1. read = [purpose |-> old.purpose, reply |-> reply]
    BY <1>2, <1>4 DEF Reads
  <2>2. read \in Reads /\ read.purpose = old.purpose /\ read.reply = reply
    BY <1>4, <2>1 DEF Reads
  <2> QED
    BY <1>3, <2>2 DEF ReadGood
<1>5. CASE slot = "forced"
  <2>1. old = tab.forced
    BY <1>0, <1>1, <1>5 DEF TabForm
  <2>2. new = [tab EXCEPT !.forced = read]
    BY <1>0, <1>1, <1>2, <1>5 DEF TabForm
  <2>3. /\ old \in Reads
        /\ old.purpose = "sync" => tab.command = None
        /\ old.purpose = "confirm" /\ tab.command # None => tab.command.phase = "confirming"
    BY <1>0, <1>1, <2>1 DEF TabForm, TabGood
  <2>4. PICK other : other = [tab EXCEPT !.forced = read]
    OBVIOUS
  <2>5. TabGood(other, rev) /\ Follows(other, tab) /\ other.view = tab.view
    BY <1>4, <2>3, <2>4, ForcedSetGood
  <2>6. Forward(other, tab)
    BY <1>0, <2>5 DEF Forward, TabForm
  <2> QED
    BY <2>2, <2>4, <2>5, <2>6
<1>6. CASE slot = "focus"
  <2>1. old = tab.focus
    BY <1>0, <1>1, <1>6 DEF TabForm
  <2>2. new = [tab EXCEPT !.focus = read]
    BY <1>0, <1>1, <1>2, <1>6 DEF TabForm
  <2>3. old \in Reads /\ old.purpose = "focus"
    BY <1>0, <1>1, <2>1 DEF TabForm, TabGood
  <2>4. PICK other : other = [tab EXCEPT !.focus = read]
    OBVIOUS
  <2>5. TabGood(other, rev) /\ Follows(other, tab) /\ other.view = tab.view
    BY <1>4, <2>3, <2>4, FocusSetGood
  <2>6. Forward(other, tab)
    BY <1>0, <2>5 DEF Forward, TabForm
  <2> QED
    BY <2>2, <2>4, <2>5, <2>6
<1> QED
  BY <1>5, <1>6

-----------------------------------------------------------------------------
(* Steps of a session *)

\* A command goes on as it was, or is over.
Continues(tab, old) ==
    tab.command # None =>
        /\ old.command # None
        /\ tab.command.key = old.command.key /\ tab.command.request = old.command.request
        /\ tab.command.phase = "submitting" =>
              old.command.phase = "submitting" /\ tab.command.send = old.command.send
SameWork(h, g) == h.send = g.send /\ h.tab = g.tab /\ h.key = g.key /\ h.request = g.request

LEMMA BareRows ==
    ASSUME NEW rows \in Seq(LogRows)
    PROVE  /\ Len(Bare(rows)) = Len(rows) /\ DOMAIN Bare(rows) = 1..Len(rows)
           /\ \A i \in 1..Len(rows) : Bare(rows)[i] = [event |-> rows[i].event, hash |-> rows[i].hash]
           /\ SameEvents(rows, Bare(rows))
<1>1. PICK n \in Nat : n = Len(rows)
  OBVIOUS
<1>2. Bare(rows) = [i \in 1..n |-> [event |-> rows[i].event, hash |-> rows[i].hash]]
  BY <1>1 DEF Bare
<1>3. DOMAIN Bare(rows) = 1..n
  BY <1>2
<1>4. PICK S : S = {[event |-> rows[i].event, hash |-> rows[i].hash] : i \in 1..n}
  OBVIOUS
<1>5. Len(Bare(rows)) = n
  <2>1. Bare(rows) \in [1..n -> S]
    BY <1>2, <1>4
  <2>2. Bare(rows) \in Seq(S)
    BY <2>1
  <2> QED
    BY <1>1, <1>3, <2>2
<1> QED
  BY <1>1, <1>2, <1>3, <1>5 DEF SameEvents

LEMMA ErrorForms ==
    ASSUME StorySound, NEW code \in ErrorCodes
    PROVE  /\ Error(code) \in TabReplies /\ Error(code) # None /\ IsError(Error(code))
           /\ Error(code).error = code /\ "stored" \notin DOMAIN Error(code)
<1>1. Error(code) = [error |-> code] /\ DOMAIN Error(code) = {"error"}
  BY DEF Error
<1> QED
  BY <1>1 DEF TabReplies, Errors, IsError, StorySound

\* What the session row and the log say together.
LEMMA LogFacts ==
    ASSUME StorySound, LogInv
    PROVE  /\ session.state \in InteractiveStates(Story) /\ session.state.revision \in Nat
           /\ Len(log) = session.state.revision + 1
           /\ log[session.state.revision + 1].hash = session.state
           /\ CurrentView \in TabReplies /\ CurrentView # None
           /\ ~IsError(CurrentView) => CurrentView.revision = session.state.revision
<1>1. /\ session.state \in InteractiveStates(Story) /\ log \in Seq(LogRows)
      /\ Bare(log)[Len(Bare(log))].hash = session.state /\ Len(Bare(log)) = session.state.revision + 1
  BY DEF LogInv, LeadsTo
<1>2. session.state.revision \in Nat
  BY <1>1, StatesAreStates
<1>3. Len(log) = session.state.revision + 1 /\ log[Len(log)].hash = session.state
  <2>1. Len(log) = session.state.revision + 1
    BY <1>1, BareRows
  <2>2. Len(log) \in 1..Len(log)
    BY <1>2, <2>1
  <2>3. Bare(log)[Len(log)] = [event |-> log[Len(log)].event, hash |-> log[Len(log)].hash]
    BY <1>1, <2>2, BareRows
  <2> QED
    BY <1>1, <2>1, <2>3
<1>4. PICK i : i = session.state.revision + 1
  OBVIOUS
<1>5. log[i].response = ViewAt(session.state) /\ log[i].hash = session.state
  BY <1>2, <1>3, <1>4 DEF LogInv
<1>6. /\ ViewAt(session.state) \in Views /\ ViewAt(session.state).revision = session.state.revision
      /\ ViewAt(session.state) # None
  BY <1>1, ViewsAreViews, NoneIsNoView
<1>7. CASE session.removed
  <2>0. PICK code \in ErrorCodes : code = "SESSION_NOT_FOUND"
    BY DEF ErrorCodes
  <2>1. CurrentView = Error(code)
    BY <1>7, <2>0 DEF CurrentView
  <2>2. CurrentView \in TabReplies /\ CurrentView # None /\ IsError(CurrentView)
    BY <2>1, ErrorForms
  <2> QED
    BY <1>1, <1>2, <1>3, <1>4, <1>5, <2>2
<1>8. CASE ~session.removed
  BY <1>1, <1>2, <1>3, <1>4, <1>5, <1>6, <1>8 DEF CurrentView, TabReplies
<1> QED
  BY <1>7, <1>8

\* Nothing is recorded.
LEMMA LogKept ==
    ASSUME LogInv, sent \in Nat, sent' \in Nat, sent <= sent', log' = log, session'.state = session.state,
           session' = [state |-> session'.state, removed |-> session'.removed], session'.removed \in BOOLEAN
    PROVE  LogInv'
BY DEF LogInv

\* The handlers that go on have been there, and the commands they answer too.
LEMMA HandlersKept ==
    ASSUME HandlersInv, sent' = sent, \A t \in Tabs : Continues(tabs'[t], tabs[t]),
           \A h \in handlers' : h \in HandlerSet /\ PreparedGood(h) /\ \E g \in handlers : SameWork(h, g)
    PROVE  HandlersInv'
<1>1. ASSUME NEW h \in handlers'
      PROVE  /\ h \in HandlerSet /\ h.send \in 1..sent' /\ PreparedGood(h)
             /\ Waiting(h.tab, h.send)' => tabs'[h.tab].command.key = h.key
  <2>1. h \in HandlerSet /\ PreparedGood(h)
    OBVIOUS
  <2>2. PICK g \in handlers : SameWork(h, g)
    OBVIOUS
  <2>3. g.send \in 1..sent /\ (Waiting(g.tab, g.send) => tabs[g.tab].command.key = g.key)
    BY DEF HandlersInv
  <2>4. h.tab \in Tabs
    BY <2>1 DEF HandlerSet
  <2>5. Continues(tabs'[h.tab], tabs[h.tab])
    BY <2>4
  <2> QED
    BY <2>1, <2>2, <2>3, <2>5 DEF SameWork, Continues, Waiting
<1> QED
  BY <1>1 DEF HandlersInv, PreparedGood

\* No key is carried that was not carried before.
LEMMA CarriedShrinks ==
    ASSUME \A t \in Tabs : Continues(tabs'[t], tabs[t]),
           \A h \in handlers' : \E g \in handlers : SameWork(h, g),
           \A i \in 2..Len(log') : <<log'[i].key, log'[i].request>> \in Carried
    PROVE  Carried' \subseteq Carried
<1>1. SUFFICES ASSUME NEW a \in Carried' PROVE a \in Carried
  OBVIOUS
<1>2. CASE \E h \in handlers' : a = <<h.key, h.request>>
  <2>1. PICK h \in handlers' : a = <<h.key, h.request>>
    BY <1>2
  <2>2. PICK g \in handlers : SameWork(h, g)
    OBVIOUS
  <2> QED
    BY <2>1, <2>2 DEF SameWork, Carried
<1>3. CASE \E i \in 2..Len(log') : a = <<log'[i].key, log'[i].request>>
  BY <1>3
<1>4. CASE \E t \in Tabs : tabs'[t].command # None /\ a = <<tabs'[t].command.key, tabs'[t].command.request>>
  <2>1. PICK t \in Tabs : tabs'[t].command # None /\ a = <<tabs'[t].command.key, tabs'[t].command.request>>
    BY <1>4
  <2>2. Continues(tabs'[t], tabs[t])
    OBVIOUS
  <2> QED
    BY <2>1, <2>2 DEF Continues, Carried
<1> QED
  BY <1>1, <1>2, <1>3, <1>4 DEF Carried

\* A step of the tabs and handlers that records nothing and sends nothing.
LEMMA SessionMoves ==
    ASSUME StorySound, SessionInv, log' = log, sent' = sent, session'.state = session.state,
           session' = [state |-> session'.state, removed |-> session'.removed], session'.removed \in BOOLEAN,
           tabs' = [t \in Tabs |-> tabs'[t]],
           \A t \in Tabs : TabGood(tabs'[t], session.state.revision) /\ Continues(tabs'[t], tabs[t]),
           \A t \in Tabs : Rejecting(tabs'[t].command) => Settled(tabs'[t].command.key),
           \A h \in handlers' : h \in HandlerSet /\ PreparedGood(h) /\ \E g \in handlers : SameWork(h, g),
           rejected' \subseteq 1..sent, \A key \in rejected' : Settled(key)
    PROVE  SessionInv'
<1>1. sent \in Nat /\ LogInv /\ HandlersInv /\ KeysInv
  BY DEF SessionInv, KeysInv
<1>2. LogInv'
  BY <1>1, LogKept
<1>3. HandlersInv'
  BY <1>1, HandlersKept
<1>4. Carried' \subseteq Carried
  <2>1. \A i \in 2..Len(log') : <<log'[i].key, log'[i].request>> \in Carried
    BY DEF Carried
  <2> QED
    BY <2>1, CarriedShrinks
<1>5. KeysInv'
  BY <1>1, <1>4 DEF KeysInv
<1>6. \A key : Settled(key) => Settled(key)'
  BY <1>4 DEF Settled, Overruled
<1>7. RejectionsInv'
  BY <1>6 DEF RejectionsInv, Rejecting
<1>8. TabsInv'
  BY DEF TabsInv
<1> QED
  BY <1>2, <1>3, <1>5, <1>7, <1>8 DEF SessionInv

\* What the player sees does not go back, in any tab.
Onward == \A t \in Tabs : Forward(tabs'[t], tabs[t])

\* One tab moves on its own.
LEMMA TabMoves ==
    ASSUME StorySound, SessionInv, UNCHANGED <<session, log, sent, handlers>>, NEW t \in Tabs,
           NEW new, tabs' = [tabs EXCEPT ![t] = new], TabGood(new, session.state.revision),
           Follows(new, tabs[t]), Forward(new, tabs[t]),
           rejected' \subseteq 1..sent, \A key \in rejected' : Settled(key)
    PROVE  SessionInv' /\ Onward
<1>1. /\ tabs = [u \in Tabs |-> tabs[u]] /\ \A u \in Tabs : TabGood(tabs[u], session.state.revision)
      /\ \A u \in Tabs : Rejecting(tabs[u].command) => Settled(tabs[u].command.key)
      /\ session = [state |-> session.state, removed |-> session.removed] /\ session.removed \in BOOLEAN
      /\ \A h \in handlers : h \in HandlerSet /\ PreparedGood(h)
  BY DEF SessionInv, TabsInv, RejectionsInv, LogInv, HandlersInv
<1>2. /\ tabs' = [u \in Tabs |-> tabs'[u]] /\ tabs'[t] = new
      /\ \A u \in Tabs : u # t => tabs'[u] = tabs[u]
  BY <1>1
<1>3. ASSUME NEW u \in Tabs
      PROVE  /\ TabGood(tabs'[u], session.state.revision) /\ Continues(tabs'[u], tabs[u])
             /\ Rejecting(tabs'[u].command) => Settled(tabs'[u].command.key)
             /\ Forward(tabs'[u], tabs[u])
  <2>1. CASE u = t
    <3>1. tabs'[u] = new /\ Follows(new, tabs[u]) /\ Forward(new, tabs[u])
      BY <1>2, <2>1
    <3>2. Continues(new, tabs[u])
      BY <3>1 DEF Follows, SameCommand, Continues
    <3>3. Rejecting(new.command) => Rejecting(tabs[u].command) /\ tabs[u].command.key = new.command.key
      BY <3>1 DEF Follows, SameCommand, Rejecting
    <3> QED
      BY <1>1, <3>1, <3>2, <3>3
  <2>2. CASE u # t
    <3>1. tabs'[u] = tabs[u]
      BY <1>2, <2>2
    <3>2. TabForm(tabs[u], session.state.revision)
      BY <1>1, LogFacts, TabParts DEF SessionInv
    <3> QED
      BY <1>1, <3>1, <3>2 DEF Continues, Forward, TabForm
  <2> QED
    BY <2>1, <2>2
<1>4. \A h \in handlers' : h \in HandlerSet /\ PreparedGood(h) /\ \E g \in handlers : SameWork(h, g)
  BY <1>1 DEF SameWork
<1>5. SessionInv'
  <2>1. log' = log /\ sent' = sent /\ session' = session
    OBVIOUS
  <2> QED
    BY <1>1, <1>2, <1>3, <1>4, <2>1, SessionMoves
<1> QED
  BY <1>3, <1>5 DEF Onward

\* What is known of the tab that moves.
LEMMA TabFacts ==
    ASSUME StorySound, SessionInv, NEW t \in Tabs
    PROVE  /\ session.state.revision \in Nat /\ TabGood(tabs[t], session.state.revision)
           /\ TabForm(tabs[t], session.state.revision)
           /\ rejected \subseteq 1..sent /\ \A key \in rejected : Settled(key)
           /\ tabs[t].command # None => tabs[t].command.key \in 1..sent
           /\ Rejecting(tabs[t].command) => Settled(tabs[t].command.key)
<1>1. session.state.revision \in Nat /\ TabGood(tabs[t], session.state.revision)
  BY LogFacts DEF SessionInv, TabsInv
<1>2. TabForm(tabs[t], session.state.revision)
  BY <1>1, TabParts
<1>3. ASSUME tabs[t].command # None PROVE tabs[t].command.key \in 1..sent
  <2>1. <<tabs[t].command.key, tabs[t].command.request>> \in Carried
    BY <1>3 DEF Carried
  <2> QED
    BY <2>1 DEF SessionInv, KeysInv
<1> QED
  BY <1>1, <1>2, <1>3 DEF SessionInv, RejectionsInv

LEMMA ReceiveAnswerStep ==
    ASSUME StorySound, SessionInv, NEW t \in Tabs, ReceiveAnswer(t) PROVE SessionInv' /\ Onward
<1> DEFINE rev == session.state.revision
<1>1. PICK tab, reply, new : tab = tabs[t] /\ reply = tabs[t].command.reply /\ new = Resolved(tab, reply)
  OBVIOUS
<1>2. /\ rev \in Nat /\ TabGood(tab, rev) /\ TabForm(tab, rev)
      /\ rejected \subseteq 1..sent /\ \A key \in rejected : Settled(key)
      /\ tab.command # None => tab.command.key \in 1..sent
      /\ Rejecting(tab.command) => Settled(tab.command.key)
  BY <1>1, TabFacts
<1>3. /\ tab.command # None /\ tab.command.phase = "submitting" /\ reply # None /\ reply = tab.command.reply
      /\ tabs' = [tabs EXCEPT ![t] = new]
      /\ rejected' = IF IsError(reply) /\ reply.error \in Rejections
                     THEN rejected \cup {tab.command.key} ELSE rejected
      /\ UNCHANGED <<session, log, handlers, sent>>
  BY <1>1 DEF ReceiveAnswer
<1>4. reply \in TabReplies /\ ToldGood(reply, tab.command.request, rev)
  <2>1. PICK c : c = tab.command
    OBVIOUS
  <2>2. c \in TabCommands /\ PendingGood(c, tab.learned, rev)
    BY <1>2, <1>3, <2>1 DEF TabForm, TabGood
  <2> QED
    BY <1>3, <2>1, <2>2, CommandParts DEF PendingGood
<1> HIDE DEF rev
<1>5. TabGood(new, rev) /\ Follows(new, tab) /\ Forward(new, tab)
  BY <1>1, <1>2, <1>3, <1>4, ResolvedGood
<1>6. rejected' \subseteq 1..sent /\ \A key \in rejected' : Settled(key)
  <2>1. CASE IsError(reply) /\ reply.error \in Rejections
    BY <1>2, <1>3, <2>1 DEF Rejecting
  <2>2. CASE ~(IsError(reply) /\ reply.error \in Rejections)
    BY <1>2, <1>3, <2>2
  <2> QED
    BY <2>1, <2>2
<1> QED
  BY <1>1, <1>3, <1>5, <1>6, TabMoves DEF rev

\* The other steps of a reader leave the refusals it has heard.
LEMMA TabAlone ==
    ASSUME StorySound, SessionInv, UNCHANGED <<session, log, sent, handlers, rejected>>, NEW t \in Tabs,
           NEW new, tabs' = [tabs EXCEPT ![t] = new], TabGood(new, session.state.revision),
           Follows(new, tabs[t]), Forward(new, tabs[t])
    PROVE  SessionInv' /\ Onward
<1>1. rejected' \subseteq 1..sent /\ \A key \in rejected' : Settled(key)
  BY TabFacts
<1> QED
  BY <1>1, TabMoves

LEMMA SendFailsStep ==
    ASSUME StorySound, SessionInv, NEW t \in Tabs, SendFails(t) PROVE SessionInv' /\ Onward
<1> DEFINE rev == session.state.revision
<1>1. PICK code \in ErrorCodes : code = "NETWORK"
  BY DEF ErrorCodes
<1>2. PICK tab, reply, new : tab = tabs[t] /\ reply = Error(code) /\ new = Resolved(tab, reply)
  OBVIOUS
<1>3. rev \in Nat /\ TabGood(tab, rev)
  BY <1>2, TabFacts
<1>4. /\ tab.command # None /\ tab.command.phase = "submitting" /\ tabs' = [tabs EXCEPT ![t] = new]
      /\ UNCHANGED <<session, log, handlers, rejected, sent>>
  BY <1>1, <1>2 DEF SendFails
<1>5. reply \in TabReplies /\ reply # None /\ ToldGood(reply, tab.command.request, rev)
  BY <1>1, <1>2, ErrorForms DEF ToldGood
<1> HIDE DEF rev
<1>6. TabGood(new, rev) /\ Follows(new, tab) /\ Forward(new, tab)
  BY <1>2, <1>3, <1>4, <1>5, ResolvedGood
<1> QED
  BY <1>2, <1>4, <1>6, TabAlone DEF rev

\* Nothing unknown is in flight for a tab that is not busy.
LEMMA NotBusy ==
    ASSUME NEW t, ~Busy(t)
    PROVE  /\ tabs[t].command # None => tabs[t].command.phase # "submitting"
           /\ tabs[t].forced # None => tabs[t].forced.purpose \notin {"confirm", "sync"}
BY DEF Busy

LEMMA ReadAgainStep ==
    ASSUME StorySound, SessionInv, NEW t \in Tabs, ~Busy(t),
           NEW purpose \in {"load", "confirm", "sync", "focus"},
           purpose = "sync" => tabs[t].sync,
           purpose = "confirm" => tabs[t].command # None /\ tabs[t].command.phase = "confirming",
           tabs' = [tabs EXCEPT ![t] = ForcedRead(tabs[t], purpose)],
           UNCHANGED <<session, log, handlers, rejected, sent>>
    PROVE  SessionInv' /\ Onward
<1> DEFINE rev == session.state.revision
<1>1. PICK tab, new : tab = tabs[t] /\ new = ForcedRead(tab, purpose)
  OBVIOUS
<1>2. rev \in Nat /\ TabGood(tab, rev)
  BY <1>1, TabFacts
<1>3. /\ purpose = "sync" => tab.command = None
      /\ purpose = "confirm" /\ tab.command # None => tab.command.phase = "confirming"
  BY <1>1, <1>2 DEF TabGood
<1> HIDE DEF rev
<1>4. TabGood(new, rev) /\ Follows(new, tab) /\ Forward(new, tab)
  BY <1>1, <1>2, <1>3, ForcedReadGood
<1> QED
  BY <1>1, <1>4, TabAlone DEF rev

LEMMA RetryReadStep ==
    ASSUME StorySound, SessionInv, NEW t \in Tabs, RetryRead(t) PROVE SessionInv' /\ Onward
<1>1. CASE /\ tabs[t].sync /\ tabs' = [tabs EXCEPT ![t] = ForcedRead(tabs[t], "sync")]
           /\ ~Busy(t) /\ UNCHANGED <<session, log, handlers, rejected, sent>>
  BY <1>1, ReadAgainStep
<1>2. CASE /\ tabs[t].phase = "load-error"
           /\ tabs' = [tabs EXCEPT ![t] = ForcedRead([tabs[t] EXCEPT !.phase = "loading"], "load")]
           /\ ~Busy(t) /\ UNCHANGED <<session, log, handlers, rejected, sent>>
  <2> DEFINE rev == session.state.revision
  <2>1. PICK phase \in TabPhases : phase = "loading"
    BY DEF TabPhases
  <2>2. PICK tab, mid : tab = tabs[t] /\ mid = [tab EXCEPT !.phase = phase]
    OBVIOUS
  <2>3. rev \in Nat /\ TabGood(tab, rev) /\ TabForm(tab, rev)
    BY <2>2, TabFacts
  <2> HIDE DEF rev
  <2>4. TabGood(mid, rev) /\ Follows(mid, tab) /\ mid.view = tab.view
    BY <2>1, <2>2, <2>3, PhaseSetGood
  <2>5. PICK purpose \in {"load", "confirm", "sync", "focus"} : purpose = "load"
    OBVIOUS
  <2>6. PICK new : new = ForcedRead(mid, purpose)
    OBVIOUS
  <2>7. TabGood(new, rev) /\ Follows(new, mid) /\ Forward(new, mid)
    BY <2>3, <2>4, <2>5, <2>6, ForcedReadGood
  <2>8. Follows(new, tab) /\ Forward(new, tab)
    BY <2>4, <2>7 DEF Follows, Forward, SameCommand
  <2>9. tabs' = [tabs EXCEPT ![t] = new]
    BY <1>2, <2>1, <2>2, <2>5, <2>6
  <2> QED
    BY <1>2, <2>2, <2>7, <2>8, <2>9, TabAlone DEF rev
<1> QED
  BY <1>1, <1>2 DEF RetryRead

LEMMA FocusReadStep ==
    ASSUME StorySound, SessionInv, NEW t \in Tabs, FocusRead(t) PROVE SessionInv' /\ Onward
<1> DEFINE rev == session.state.revision
<1>1. PICK purpose \in {"load", "confirm", "sync", "focus"} : purpose = "focus"
  OBVIOUS
<1>2. PICK read : read = [purpose |-> purpose, reply |-> None]
  OBVIOUS
<1>3. PICK tab, new : tab = tabs[t] /\ new = [tab EXCEPT !.focus = read]
  OBVIOUS
<1>4. rev \in Nat /\ TabGood(tab, rev)
  BY <1>3, TabFacts
<1>5. read \in {None} \cup Reads /\ ReadGood(read, tab.learned, rev) /\ read.purpose = "focus"
  BY <1>1, <1>2, FreshReadGood
<1>6. tabs' = [tabs EXCEPT ![t] = new] /\ UNCHANGED <<session, log, handlers, rejected, sent>>
  BY <1>1, <1>2, <1>3 DEF FocusRead
<1> HIDE DEF rev
<1>7. TabGood(new, rev) /\ Follows(new, tab) /\ new.view = tab.view
  BY <1>3, <1>4, <1>5, FocusSetGood
<1>8. TabForm(tab, rev)
  BY <1>4, TabParts
<1>9. Forward(new, tab)
  BY <1>7, <1>8 DEF Forward, TabForm
<1> QED
  BY <1>3, <1>6, <1>7, <1>9, TabAlone DEF rev

LEMMA ReloadTabStep ==
    ASSUME StorySound, SessionInv, NEW t \in Tabs, ReloadTab(t) PROVE SessionInv' /\ Onward
<1> DEFINE rev == session.state.revision
<1>1. PICK tab, new : tab = tabs[t] /\ new = FreshTab
  OBVIOUS
<1>2. rev \in Nat /\ TabGood(tab, rev)
  BY <1>1, TabFacts
<1>3. tabs' = [tabs EXCEPT ![t] = new] /\ UNCHANGED <<session, log, handlers, rejected, sent>>
  BY <1>1 DEF ReloadTab
<1>4. TabGood(new, rev)
  BY <1>1, <1>2, FreshTabGood
<1>5. new.command = None /\ new.view = None
  BY <1>1 DEF FreshTab
<1>6. Follows(new, tab) /\ Forward(new, tab)
  BY <1>5 DEF Follows, Forward
<1> QED
  BY <1>1, <1>3, <1>4, <1>6, TabAlone DEF rev

LEMMA ServeReadStep ==
    ASSUME StorySound, SessionInv, NEW t \in Tabs, NEW slot \in {"forced", "focus"}, ServeRead(t, slot)
    PROVE  SessionInv' /\ Onward
<1> DEFINE rev == session.state.revision
<1>1. PICK reply : reply = CurrentView
  OBVIOUS
<1>2. PICK tab, new : tab = tabs[t] /\ new = [tab EXCEPT ![slot].reply = reply]
  OBVIOUS
<1>3. rev \in Nat /\ TabGood(tab, rev)
  BY <1>2, TabFacts
<1>4. reply \in TabReplies /\ (~IsError(reply) => reply.revision = rev)
  BY <1>1, LogFacts DEF SessionInv
<1>5. tab[slot] # None /\ tabs' = [tabs EXCEPT ![t] = new] /\ UNCHANGED <<session, log, handlers, rejected, sent>>
  BY <1>1, <1>2 DEF ServeRead
<1> HIDE DEF rev
<1>6. TabGood(new, rev) /\ Follows(new, tab) /\ Forward(new, tab)
  BY <1>2, <1>3, <1>4, <1>5, ServedGood
<1> QED
  BY <1>2, <1>5, <1>6, TabAlone DEF rev

LEMMA ReceiveReadStep ==
    ASSUME StorySound, SessionInv, NEW t \in Tabs, NEW slot \in {"forced", "focus"}, ReceiveRead(t, slot)
    PROVE  SessionInv' /\ Onward
<1> DEFINE rev == session.state.revision
<1>1. PICK tab, read : tab = tabs[t] /\ read = tabs[t][slot]
  OBVIOUS
<1>2. rev \in Nat /\ TabGood(tab, rev) /\ TabForm(tab, rev)
  BY <1>1, TabFacts
<1>3. read # None /\ UNCHANGED <<session, log, handlers, rejected, sent>>
  BY <1>1 DEF ReceiveRead
<1>4. read \in Reads /\ read.reply \in TabReplies
  <2>1. read \in Reads
    BY <1>1, <1>2, <1>3 DEF TabForm
  <2> QED
    BY <2>1 DEF Reads
<1>5. PICK reply \in TabReplies :
         /\ reply # None /\ (reply = read.reply \/ IsError(reply))
         /\ tabs' = [tabs EXCEPT ![t] = Delivered([tab EXCEPT ![slot] = None], read.purpose, reply)]
  <2>1. CASE /\ read.reply # None
             /\ tabs' = [tabs EXCEPT ![t] = Delivered([tab EXCEPT ![slot] = None], read.purpose, read.reply)]
    BY <1>4, <2>1
  <2>2. CASE \E code \in {"NETWORK", "UNAUTHORIZED"} :
                tabs' = [tabs EXCEPT ![t] = Delivered([tab EXCEPT ![slot] = None], read.purpose, Error(code))]
    <3>1. PICK code \in {"NETWORK", "UNAUTHORIZED"} :
                tabs' = [tabs EXCEPT ![t] = Delivered([tab EXCEPT ![slot] = None], read.purpose, Error(code))]
      BY <2>2
    <3>2. code \in ErrorCodes
      BY DEF ErrorCodes
    <3>3. Error(code) \in TabReplies /\ Error(code) # None /\ IsError(Error(code))
      BY <3>2, ErrorForms
    <3> QED
      BY <3>1, <3>3
  <2> QED
    BY <1>1, <2>1, <2>2 DEF ReceiveRead
<1>6. PICK new : new = Delivered([tab EXCEPT ![slot] = None], read.purpose, reply)
  OBVIOUS
<1> HIDE DEF rev
<1>7. TabGood(new, rev) /\ Follows(new, tab) /\ Forward(new, tab)
  BY <1>1, <1>2, <1>3, <1>5, <1>6, ReceivedGood
<1> QED
  BY <1>1, <1>3, <1>5, <1>6, <1>7, TabAlone DEF rev

-----------------------------------------------------------------------------
(* The server's steps *)

\* What is known of a request that the server works on.
LEMMA HandlerFacts ==
    ASSUME StorySound, SessionInv, NEW h \in handlers
    PROVE  /\ h \in HandlerSet /\ PreparedGood(h)
           /\ h = [send |-> h.send, tab |-> h.tab, key |-> h.key, request |-> h.request, step |-> h.step,
                   prepared |-> h.prepared, tries |-> h.tries]
           /\ h.tab \in Tabs /\ h.key \in Nat /\ h.key \in 1..sent /\ h.send \in 1..sent
           /\ h.prepared \in {None} \cup Preparations /\ h.tries \in 1..3
           /\ h.request \in ChoiceRequests /\ h.request.choice \in AllIds(Story)
           /\ h.request.revision \in Nat /\ h.request.revision <= session.state.revision
           /\ <<h.key, h.request>> \in Carried
<1>1. h \in HandlerSet /\ PreparedGood(h) /\ h.send \in 1..sent
  BY DEF SessionInv, HandlersInv
<1>2. <<h.key, h.request>> \in Carried
  BY DEF Carried
<1>3. h.key \in 1..sent /\ h.request.revision <= session.state.revision
  BY <1>2 DEF SessionInv, KeysInv
<1>4. PICK asked : asked = h.request
  OBVIOUS
<1>5. asked \in ChoiceRequests
  BY <1>1, <1>4 DEF HandlerSet
<1>6. asked.choice \in AllIds(Story) /\ asked.revision \in Nat
  BY <1>5 DEF ChoiceRequests
<1> QED
  BY <1>1, <1>2, <1>3, <1>4, <1>5, <1>6 DEF HandlerSet

LEMMA CarriedTyped ==
    ASSUME StorySound, SessionInv, NEW a \in Carried
    PROVE  a[2] \in ChoiceRequests /\ a[2].revision \in Nat
<1>1. a[2] \in ChoiceRequests
  <2>1. CASE \E h \in handlers : a = <<h.key, h.request>>
    BY <2>1, HandlerFacts
  <2>2. CASE \E i \in 2..Len(log) : a = <<log[i].key, log[i].request>>
    BY <2>2 DEF SessionInv, LogInv
  <2>3. CASE \E t \in Tabs : tabs[t].command # None /\ a = <<tabs[t].command.key, tabs[t].command.request>>
    <3>1. PICK t \in Tabs : tabs[t].command # None /\ a = <<tabs[t].command.key, tabs[t].command.request>>
      BY <2>3
    <3>2. TabForm(tabs[t], session.state.revision)
      BY TabFacts
    <3> QED
      BY <3>1, <3>2 DEF TabForm
  <2> QED
    BY <2>1, <2>2, <2>3 DEF Carried
<1>2. PICK asked : asked = a[2]
  OBVIOUS
<1> QED
  BY <1>1, <1>2 DEF ChoiceRequests

\* A tab is told what became of its command.
Told(tab, answer) == [tab EXCEPT !.command.reply = answer]
LEMMA TabTold ==
    ASSUME StorySound, NEW tab, NEW rev \in Nat, TabGood(tab, rev), tab.command # None,
           tab.command.phase = "submitting", NEW answer \in TabReplies, answer # None,
           ToldGood(answer, tab.command.request, rev), NEW new, new = Told(tab, answer)
    PROVE  /\ TabGood(new, rev) /\ new.view = tab.view /\ new.command # None
           /\ new.command.key = tab.command.key /\ new.command.request = tab.command.request
           /\ new.command.phase = "submitting" /\ new.command.send = tab.command.send
           /\ new.command.reply = answer
<1>0. TabForm(tab, rev)
  BY TabParts
<1>1. PICK c \in TabCommands : c = tab.command
  BY <1>0 DEF TabForm
<1>2. PICK d : d = [c EXCEPT !.reply = answer]
  OBVIOUS
<1>3. d = [key |-> c.key, phase |-> c.phase, attempts |-> c.attempts, send |-> c.send,
           reply |-> answer, recorded |-> c.recorded, request |-> c.request]
  BY <1>2, CommandParts
<1>4. d \in TabCommands
  BY <1>3, CommandParts, CommandIn
<1>5. PendingGood(c, tab.learned, rev)
  BY <1>1 DEF TabGood
<1>6. ToldGood(answer, c.request, rev) /\ c.phase = "submitting"
  BY <1>1
<1>7. PendingGood(d, tab.learned, rev)
  BY <1>3, <1>5, <1>6 DEF PendingGood
<1>8. /\ tab.view # None /\ ~tab.sync
      /\ tab.forced # None => tab.forced.purpose # "sync" /\ tab.forced.purpose # "confirm"
  <2>1. tab.forced # None /\ tab.forced.purpose = "confirm" => tab.command.phase = "confirming"
    BY DEF TabGood
  <2>2. tab.view # None /\ ~tab.sync
    BY <1>0 DEF TabForm
  <2>3. tab.forced # None => tab.forced.purpose # "sync"
    BY DEF TabGood
  <2> QED
    BY <2>1, <2>2, <2>3
<1>9. PICK other : other = [tab EXCEPT !.command = d]
  OBVIOUS
<1>10. TabGood(other, rev) /\ other.view = tab.view /\ other.command = d /\ d # None
  <2>1. tab.forced # None => /\ tab.forced.purpose # "sync"
                             /\ tab.forced.purpose = "confirm" => d.phase = "confirming"
    BY <1>8
  <2> QED
    BY <1>4, <1>7, <1>8, <1>9, <2>1, CommandSetGood
<1>11. new = other
  BY <1>0, <1>1, <1>2, <1>9 DEF TabForm, Told
<1>12. d.key = c.key /\ d.request = c.request /\ d.phase = c.phase /\ d.send = c.send /\ d.reply = answer
  BY <1>3
<1> QED
  BY <1>1, <1>6, <1>10, <1>11, <1>12

\* The tabs after the server answered one of its requests, at a revision it may have reached now.
LEMMA TabsAnswered ==
    ASSUME StorySound, SessionInv, NEW rev \in Nat, session.state.revision <= rev, NEW h \in handlers,
           NEW answer \in TabReplies, answer # None, ToldGood(answer, h.request, rev), ServerAnswer(h, answer)
    PROVE  /\ tabs' = [t \in Tabs |-> tabs'[t]] /\ handlers' \subseteq handlers
           /\ \A t \in Tabs : /\ TabGood(tabs'[t], rev) /\ Continues(tabs'[t], tabs[t])
                              /\ Forward(tabs'[t], tabs[t])
                              /\ Rejecting(tabs'[t].command) =>
                                    \/ Rejecting(tabs[t].command) /\ tabs'[t].command.key = tabs[t].command.key
                                    \/ /\ tabs'[t].command.key = h.key
                                       /\ IsError(answer) /\ answer.error \in Rejections
<1>1. tabs = [t \in Tabs |-> tabs[t]] /\ session.state.revision \in Nat
  BY LogFacts DEF SessionInv, TabsInv
<1>2. handlers' = handlers \ {h}
  BY DEF ServerAnswer
<1>3. \A t \in Tabs : TabGood(tabs[t], rev) /\ TabForm(tabs[t], rev)
  <2>1. \A t \in Tabs : TabGood(tabs[t], session.state.revision)
    BY DEF SessionInv, TabsInv
  <2>2. ASSUME NEW t \in Tabs PROVE TabGood(tabs[t], rev)
    BY <1>1, <2>1, TabLater
  <2> QED
    BY <2>2, TabParts
<1>4. ASSUME NEW t \in Tabs, tabs'[t] = tabs[t]
      PROVE  /\ TabGood(tabs'[t], rev) /\ Continues(tabs'[t], tabs[t]) /\ Forward(tabs'[t], tabs[t])
             /\ Rejecting(tabs'[t].command) =>
                   Rejecting(tabs[t].command) /\ tabs'[t].command.key = tabs[t].command.key
  <2>1. PICK tab : tab = tabs[t]
    OBVIOUS
  <2>2. TabGood(tab, rev) /\ TabForm(tab, rev) /\ tabs'[t] = tab
    BY <1>3, <1>4, <2>1
  <2>3. Continues(tab, tab)
    BY DEF Continues
  <2>4. Forward(tab, tab)
    BY <2>2 DEF Forward, TabForm
  <2> QED
    BY <2>1, <2>2, <2>3, <2>4
<1>5. CASE ~Waiting(h.tab, h.send)
  <2>1. tabs' = tabs
    BY <1>5 DEF ServerAnswer
  <2> QED
    BY <1>1, <1>2, <1>4, <2>1
<1>6. CASE Waiting(h.tab, h.send)
  <2>1. PICK u \in Tabs : u = h.tab
    BY HandlerFacts
  <2>2. PICK tab : tab = tabs[u]
    OBVIOUS
  <2>10. PICK new : new = Told(tab, answer)
    OBVIOUS
  <2>3. tabs' = [tabs EXCEPT ![u].command.reply = answer]
    BY <1>6, <2>1 DEF ServerAnswer
  <2>4. /\ tabs' = [t \in Tabs |-> tabs'[t]] /\ tabs'[u] = new /\ \A t \in Tabs : t # u => tabs'[t] = tabs[t]
    BY <1>1, <2>2, <2>10, <2>3 DEF Told
  <2>5. /\ tab.command # None /\ tab.command.phase = "submitting" /\ tab.command.send = h.send
        /\ tab.command.key = h.key
    BY <1>6, <2>1, <2>2 DEF Waiting, SessionInv, HandlersInv
  <2>6. tab.command.request = h.request
    <3>1. <<tab.command.key, tab.command.request>> \in Carried /\ <<h.key, h.request>> \in Carried
      BY <2>2, <2>5, HandlerFacts DEF Carried
    <3> QED
      BY <2>5, <3>1 DEF SessionInv, KeysInv
  <2>7. /\ TabGood(new, rev) /\ new.view = tab.view /\ new.command # None
        /\ new.command.key = tab.command.key /\ new.command.request = tab.command.request
        /\ new.command.phase = "submitting" /\ new.command.send = tab.command.send
        /\ new.command.reply = answer
    <3>1. TabGood(tab, rev) /\ ToldGood(answer, tab.command.request, rev)
      BY <1>3, <2>2, <2>6
    <3>2. tab.command # None /\ tab.command.phase = "submitting"
      BY <2>5
    <3> HIDE <2>2, <2>3, <2>4, <2>5, <1>1, <1>3
    <3> QED
      BY <2>10, <3>1, <3>2, TabTold
  <2>8. Continues(new, tab) /\ Forward(new, tab)
    <3>1. TabForm(tab, rev)
      BY <1>3, <2>2
    <3>2. tab.view # None => tab.view.revision \in Nat
      BY <3>1 DEF TabForm
    <3> QED
      BY <2>5, <2>7, <3>2 DEF Continues, Forward
  <2>9. Rejecting(new.command) => new.command.key = h.key /\ IsError(answer) /\ answer.error \in Rejections
    BY <2>5, <2>7 DEF Rejecting
  <2> QED
    BY <1>2, <1>4, <2>2, <2>4, <2>7, <2>8, <2>9
<1> QED
  BY <1>5, <1>6

\* The server answers a request and records nothing.
LEMMA AnsweredStep ==
    ASSUME StorySound, SessionInv, NEW h \in handlers, NEW answer \in TabReplies, answer # None,
           ToldGood(answer, h.request, session.state.revision),
           IsError(answer) /\ answer.error \in Rejections => Settled(h.key),
           ServerAnswer(h, answer), UNCHANGED <<session, log, rejected, sent>>
    PROVE  SessionInv' /\ Onward
<1>1. PICK rev : rev = session.state.revision
  OBVIOUS
<1>2. /\ rev \in Nat /\ session.state.revision <= rev
      /\ session = [state |-> session.state, removed |-> session.removed] /\ session.removed \in BOOLEAN
      /\ rejected \subseteq 1..sent /\ \A key \in rejected : Settled(key)
      /\ \A t \in Tabs : Rejecting(tabs[t].command) => Settled(tabs[t].command.key)
  BY <1>1, LogFacts DEF SessionInv, LogInv, RejectionsInv
<1>3. /\ tabs' = [t \in Tabs |-> tabs'[t]] /\ handlers' \subseteq handlers
      /\ \A t \in Tabs : /\ TabGood(tabs'[t], rev) /\ Continues(tabs'[t], tabs[t])
                         /\ Forward(tabs'[t], tabs[t])
                         /\ Rejecting(tabs'[t].command) =>
                               \/ Rejecting(tabs[t].command) /\ tabs'[t].command.key = tabs[t].command.key
                               \/ /\ tabs'[t].command.key = h.key
                                  /\ IsError(answer) /\ answer.error \in Rejections
  BY <1>1, <1>2, TabsAnswered
<1>4. \A g \in handlers' : g \in HandlerSet /\ PreparedGood(g) /\ \E k \in handlers : SameWork(g, k)
  BY <1>3 DEF SameWork, SessionInv, HandlersInv
<1>5. \A t \in Tabs : Rejecting(tabs'[t].command) => Settled(tabs'[t].command.key)
  BY <1>2, <1>3
<1>6. SessionInv'
  <2>1. log' = log /\ sent' = sent /\ session' = session /\ rejected' = rejected
    OBVIOUS
  <2> QED
    BY <1>1, <1>2, <1>3, <1>4, <1>5, <2>1, SessionMoves
<1> QED
  BY <1>3, <1>6 DEF Onward

\* The tabs do not change.
LEMMA TabsStay ==
    ASSUME StorySound, SessionInv, tabs' = tabs
    PROVE  /\ tabs' = [t \in Tabs |-> tabs'[t]] /\ Onward
           /\ \A t \in Tabs : /\ TabGood(tabs'[t], session.state.revision) /\ Continues(tabs'[t], tabs[t])
                              /\ Rejecting(tabs'[t].command) => Settled(tabs'[t].command.key)
<1>1. ASSUME NEW t \in Tabs
      PROVE  /\ TabGood(tabs'[t], session.state.revision) /\ Continues(tabs'[t], tabs[t])
             /\ Rejecting(tabs'[t].command) => Settled(tabs'[t].command.key)
             /\ Forward(tabs'[t], tabs[t])
  <2>1. PICK tab : tab = tabs[t]
    OBVIOUS
  <2>2. /\ TabGood(tab, session.state.revision) /\ TabForm(tab, session.state.revision)
        /\ Rejecting(tab.command) => Settled(tab.command.key)
    BY <2>1, TabFacts
  <2>3. Continues(tab, tab)
    BY DEF Continues
  <2>4. Forward(tab, tab)
    BY <2>2 DEF Forward, TabForm
  <2> QED
    BY <2>1, <2>2, <2>3, <2>4
<1> QED
  BY <1>1 DEF Onward, SessionInv, TabsInv

\* The server goes on with its requests, drops some, or the session is removed.
LEMMA HandlersMove ==
    ASSUME StorySound, SessionInv, UNCHANGED <<log, tabs, rejected, sent>>, session'.state = session.state,
           session' = [state |-> session'.state, removed |-> session'.removed], session'.removed \in BOOLEAN,
           \A g \in handlers' : g \in HandlerSet /\ PreparedGood(g) /\ \E k \in handlers : SameWork(g, k)
    PROVE  SessionInv' /\ Onward
<1>1. /\ tabs' = [t \in Tabs |-> tabs'[t]] /\ Onward
      /\ \A t \in Tabs : /\ TabGood(tabs'[t], session.state.revision) /\ Continues(tabs'[t], tabs[t])
                         /\ Rejecting(tabs'[t].command) => Settled(tabs'[t].command.key)
  BY TabsStay
<1>2. log' = log /\ sent' = sent /\ rejected' = rejected
  OBVIOUS
<1>3. rejected' \subseteq 1..sent /\ \A key \in rejected' : Settled(key)
  BY <1>2 DEF SessionInv, RejectionsInv
<1>4. SessionInv'
  BY <1>1, <1>2, <1>3, SessionMoves
<1> QED
  BY <1>1, <1>4

LEMMA HandlersStay ==
    ASSUME SessionInv, NEW h \in handlers
    PROVE  h \in HandlerSet /\ PreparedGood(h) /\ \E k \in handlers : SameWork(h, k)
BY DEF SessionInv, HandlersInv, SameWork

LEMMA RemoveSessionStep ==
    ASSUME StorySound, SessionInv, RemoveSession PROVE SessionInv' /\ Onward
<1>1. UNCHANGED <<log, handlers, tabs, rejected, sent>> /\ session' = [session EXCEPT !.removed = TRUE]
  BY DEF RemoveSession
<1>2. session = [state |-> session.state, removed |-> session.removed]
  BY DEF SessionInv, LogInv
<1>3. session' = [state |-> session.state, removed |-> TRUE]
  BY <1>1, <1>2
<1>4. /\ session'.state = session.state /\ session'.removed \in BOOLEAN
      /\ session' = [state |-> session'.state, removed |-> session'.removed]
  BY <1>3
<1>5. \A g \in handlers' : g \in HandlerSet /\ PreparedGood(g) /\ \E k \in handlers : SameWork(g, k)
  BY <1>1, HandlersStay
<1> QED
  BY <1>1, <1>4, <1>5, HandlersMove

\* A handler goes on: it is the same work.
LEMMA HandlerTurns ==
    ASSUME StorySound, SessionInv, UNCHANGED <<session, log, tabs, rejected, sent>>,
           NEW h \in handlers, NEW g \in HandlerSet, PreparedGood(g), SameWork(g, h),
           handlers' = (handlers \ {h}) \cup {g}
    PROVE  SessionInv' /\ Onward
<1>1. \A k \in handlers' : k \in HandlerSet /\ PreparedGood(k) /\ \E l \in handlers : SameWork(k, l)
  BY HandlersStay
<1>2. /\ session'.state = session.state /\ session'.removed \in BOOLEAN
      /\ session' = [state |-> session'.state, removed |-> session'.removed]
  BY DEF SessionInv, LogInv
<1> QED
  BY <1>1, <1>2, HandlersMove

LEMMA LoseHandlerStep ==
    ASSUME StorySound, SessionInv, NEW h \in handlers, LoseHandler(h) PROVE SessionInv' /\ Onward
<1>1. UNCHANGED <<session, log, tabs, rejected, sent>> /\ handlers' = handlers \ {h}
  BY DEF LoseHandler
<1>2. /\ session'.state = session.state /\ session'.removed \in BOOLEAN
      /\ session' = [state |-> session'.state, removed |-> session'.removed]
  BY <1>1 DEF SessionInv, LogInv
<1>3. \A g \in handlers' : g \in HandlerSet /\ PreparedGood(g) /\ \E k \in handlers : SameWork(g, k)
  BY <1>1, HandlersStay
<1> QED
  BY <1>1, <1>2, <1>3, HandlersMove

\* An answer that says nothing of the choice.
LEMMA ErrorAnswered ==
    ASSUME StorySound, SessionInv, NEW h \in handlers,
           NEW code \in {"SESSION_NOT_FOUND", "UNAUTHORIZED", "SESSION_BUSY", "NARRATION_INVALID"},
           ServerAnswer(h, Error(code)), UNCHANGED <<session, log, rejected, sent>>
    PROVE  SessionInv' /\ Onward
<1>1. code \in ErrorCodes
  BY DEF ErrorCodes
<1>2. PICK answer : answer = Error(code)
  OBVIOUS
<1>3. answer \in TabReplies /\ answer # None /\ IsError(answer) /\ answer.error = code
  BY <1>1, <1>2, ErrorForms
<1>4. ToldGood(answer, h.request, session.state.revision)
  BY <1>3 DEF ToldGood
<1>5. ~(answer.error \in Rejections)
  BY <1>3 DEF Rejections
<1> QED
  BY <1>2, <1>3, <1>4, <1>5, AnsweredStep

LEMMA RefuseLoginStep ==
    ASSUME StorySound, SessionInv, NEW h \in handlers, RefuseLogin(h) PROVE SessionInv' /\ Onward
BY ErrorAnswered DEF RefuseLogin

LEMMA LockTimeoutStep ==
    ASSUME StorySound, SessionInv, NEW h \in handlers, LockTimeout(h) PROVE SessionInv' /\ Onward
BY ErrorAnswered DEF LockTimeout

\* What prepare computes is what the choice leads to from the row as it was read.
Prepares(h, narrator) == [h EXCEPT !.step = "prepared", !.prepared = Prepared(h.request, narrator)]
LEMMA PreparedForms ==
    ASSUME StorySound, SessionInv, NEW h \in handlers, NEW narrator \in BOOLEAN,
           NEW g, g = Prepares(h, narrator)
    PROVE  g \in HandlerSet /\ PreparedGood(g) /\ SameWork(g, h)
<1> DEFINE state == session.state
           next == Chosen(state, h.request.choice, Story)
<1>1. state \in InteractiveStates(Story)
  BY LogFacts DEF SessionInv
<1>2. PICK prepared : prepared = Prepared(h.request, narrator)
  OBVIOUS
<1>3. /\ g = [send |-> h.send, tab |-> h.tab, key |-> h.key, request |-> h.request, step |-> "prepared",
              prepared |-> prepared, tries |-> h.tries]
      /\ h \in HandlerSet
  <2>1. PICK mid : mid = [h EXCEPT !.step = "prepared"]
    OBVIOUS
  <2>2. mid = [send |-> h.send, tab |-> h.tab, key |-> h.key, request |-> h.request, step |-> "prepared",
              prepared |-> h.prepared, tries |-> h.tries]
    <3>1. h = [send |-> h.send, tab |-> h.tab, key |-> h.key, request |-> h.request, step |-> h.step,
               prepared |-> h.prepared, tries |-> h.tries]
      BY HandlerFacts
    <3> QED
      BY <2>1, <3>1
  <2>3. g = [mid EXCEPT !.prepared = prepared]
    BY <1>2, <2>1 DEF Prepares
  <2> QED
    BY <2>2, <2>3, HandlerFacts
<1>4. /\ prepared \in {None} \cup Preparations
      /\ prepared # None /\ Transition(prepared.base, h.request.choice, Story) = "ok" /\ ~prepared.failed
            => prepared.narration = Narration(Story, Chosen(prepared.base, h.request.choice, Story))
  <2>1. CASE state.revision # h.request.revision
    BY <1>2, <2>1 DEF Prepared
  <2>2. CASE state.revision = h.request.revision /\ Transition(state, h.request.choice, Story) # "ok"
    <3>1. prepared = [base |-> state, narration |-> None, failed |-> FALSE]
      BY <1>2, <2>2 DEF Prepared
    <3> QED
      BY <1>1, <2>2, <3>1 DEF Preparations
  <2>3. CASE state.revision = h.request.revision /\ Transition(state, h.request.choice, Story) = "ok"
    <3>1. Narration(Story, next) \in Narrations
      <4>1. None \notin InteractiveStates(Story)
        BY DEF StorySound, InteractiveStates
      <4>2. next \in InteractiveStates(Story)
        BY <1>1, <2>3, <4>1, ChosenType DEF StorySound
      <4> QED
        BY <4>2 DEF Narrations
    <3>2. PICK output : output = Narration(Story, next)
      OBVIOUS
    <3>3. CASE narrator
      <4>1. prepared = [base |-> state, failed |-> FALSE, narration |-> output]
        BY <1>2, <2>3, <3>2, <3>3 DEF Prepared
      <4> QED
        BY <1>1, <3>1, <3>2, <4>1 DEF Preparations
    <3>4. CASE ~narrator
      <4>1. prepared = [base |-> state, failed |-> TRUE, narration |-> None]
        BY <1>2, <2>3, <3>2, <3>4 DEF Prepared
      <4> QED
        BY <1>1, <3>1, <4>1 DEF Preparations
    <3> QED
      BY <3>3, <3>4
  <2> QED
    BY <2>1, <2>2, <2>3
<1>5. g \in HandlerSet
  <2>1. h.send \in Nat /\ h.tab \in Tabs /\ h.key \in Nat /\ h.request \in ChoiceRequests /\ h.tries \in 1..3
    BY <1>3 DEF HandlerSet
  <2> QED
    BY <1>3, <1>4, <2>1 DEF HandlerSet
<1>6. g.prepared = prepared /\ g.request = h.request /\ SameWork(g, h)
  BY <1>3 DEF SameWork
<1> QED
  BY <1>4, <1>5, <1>6 DEF PreparedGood

LEMMA PrepareChoiceStep ==
    ASSUME StorySound, SessionInv, NEW h \in handlers, PrepareChoice(h) PROVE SessionInv' /\ Onward
<1>1. CASE ServerAnswer(h, Error("SESSION_NOT_FOUND")) /\ UNCHANGED <<session, log, rejected, sent>>
  BY <1>1, ErrorAnswered
<1>2. CASE /\ UNCHANGED <<session, log, tabs, rejected, sent>>
           /\ \E narrator \in BOOLEAN : handlers' = (handlers \ {h}) \cup {Prepares(h, narrator)}
  <2>1. PICK narrator \in BOOLEAN : handlers' = (handlers \ {h}) \cup {Prepares(h, narrator)}
    BY <1>2
  <2>2. PICK g : g = Prepares(h, narrator)
    OBVIOUS
  <2>3. g \in HandlerSet /\ PreparedGood(g) /\ SameWork(g, h)
    BY <2>2, PreparedForms
  <2> QED
    BY <1>2, <2>1, <2>2, <2>3, HandlerTurns
<1> QED
  BY <1>1, <1>2 DEF PrepareChoice, Prepares

\* A row that carries a key stands for a choice, and answers with the view it led to.
LEMMA RecordedForms ==
    ASSUME StorySound, SessionInv, NEW h \in handlers, NEW e \in Recorded(h)
    PROVE  /\ e.request = h.request /\ e.response \in Views
           /\ e.response.revision = h.request.revision + 1
           /\ e.response.revision <= session.state.revision
<1>1. /\ log \in Seq(LogRows) /\ log[1].key = None /\ Len(log) = session.state.revision + 1
      /\ session.state.revision \in Nat
      /\ \A i \in 1..Len(log) : log[i].response = ViewAt(log[i].hash) /\ log[i].hash.revision = i - 1
      /\ \A i \in 2..Len(log) : log[i].request.revision = i - 2
  BY LogFacts DEF SessionInv, LogInv
<1>2. PICK i \in 1..Len(log) : e = log[i] /\ e.key = h.key
  <2>1. DOMAIN log = 1..Len(log) /\ e \in Range(log) /\ e.key = h.key
    BY <1>1 DEF Recorded
  <2> QED
    BY <2>1 DEF Range
<1>3. i \in 2..Len(log)
  <2>1. h.key \in Nat /\ None \notin Nat
    BY HandlerFacts, ReaderAssumption
  <2> QED
    BY <1>1, <1>2, <2>1
<1>4. e.request = h.request
  <2>1. <<e.key, e.request>> \in Carried /\ <<h.key, h.request>> \in Carried
    BY <1>2, <1>3, HandlerFacts DEF Carried
  <2> QED
    BY <1>2, <2>1 DEF SessionInv, KeysInv
<1>5. e.response = ViewAt(e.hash) /\ e.hash.revision = i - 1 /\ e.request.revision = i - 2
  BY <1>1, <1>2, <1>3
<1>6. e.hash \in InteractiveStates(Story)
  <2>1. log[i] \in LogRows
    BY <1>1
  <2> QED
    BY <1>2, <2>1 DEF LogRows
<1>7. e.response \in Views /\ e.response.revision = i - 1
  BY <1>5, <1>6, ViewsAreViews
<1> QED
  BY <1>1, <1>3, <1>4, <1>5, <1>7

\* A choice that is refused was settled: no row has its key, and no state will take it.
LEMMA RefusedSettled ==
    ASSUME StorySound, SessionInv, NEW h \in handlers, Recorded(h) = {}, Overruled(h.request)
    PROVE  Settled(h.key)
<1>1. log \in Seq(LogRows)
  BY DEF SessionInv, LogInv
<1>2. \A i \in 2..Len(log) : log[i].key # h.key
  BY <1>1 DEF Recorded, Range
<1>3. \A a \in Carried : a[1] = h.key => a[2] = h.request
  BY HandlerFacts DEF SessionInv, KeysInv
<1> QED
  BY <1>2, <1>3 DEF Settled

\* A choice is recorded when it was made from the state it leads on from.
Records(h, row) ==
    LET next == Chosen(session.state, h.request.choice, Story)
    IN  /\ Recorded(h) = {} /\ session.state.revision = h.request.revision
        /\ Transition(session.state, h.request.choice, Story) = "ok"
        /\ row = StoredEvent(ChoiceMade(session.state, h.request.choice), next, h.key, h.request, ViewAt(next))

\* What commit answers, or records.
LEMMA AppliedForms ==
    ASSUME StorySound, SessionInv, NEW h \in handlers, Recorded(h) = {},
           NEW result, result = Applied(h, session.state)
    PROVE  \/ \E code \in ErrorCodes \ {"IDEMPOTENCY_KEY_REUSED"} :
                 /\ result = Error(code)
                 /\ code \in Rejections => Overruled(h.request)
                 /\ code = "REVISION_CONFLICT" => h.request.revision < session.state.revision
           \/ "stored" \in DOMAIN result /\ Records(h, result.stored)
<1> DEFINE state == session.state
           choice == h.request.choice
           next == Chosen(state, choice, Story)
<1>1. /\ state.revision \in Nat /\ h.request.revision \in Nat /\ h.request.revision <= state.revision
      /\ h.prepared \in {None} \cup Preparations /\ PreparedGood(h)
  BY LogFacts, HandlerFacts DEF SessionInv
<1>2. CASE state.revision # h.request.revision
  <2>1. result = Error("REVISION_CONFLICT") /\ h.request.revision < state.revision
    BY <1>1, <1>2 DEF Applied
  <2> QED
    BY <2>1 DEF Overruled, ErrorCodes
<1>3. CASE state.revision = h.request.revision /\ Transition(state, choice, Story) # "ok"
  <2>1. result = Error(Public(Transition(state, choice, Story)))
    BY <1>3 DEF Applied
  <2>2. PICK code : code = Public(Transition(state, choice, Story))
    OBVIOUS
  <2>3. code \in {"UNKNOWN_CHOICE", "SESSION_TERMINAL", "CHOICE_UNAVAILABLE"}
    BY <2>2 DEF Public
  <2>4. Overruled(h.request)
    BY <1>3 DEF Overruled
  <2>5. code \in ErrorCodes \ {"IDEMPOTENCY_KEY_REUSED"} /\ code # "REVISION_CONFLICT"
    BY <2>3 DEF ErrorCodes
  <2> QED
    BY <2>1, <2>2, <2>4, <2>5
<1>4. CASE state.revision = h.request.revision /\ Transition(state, choice, Story) = "ok"
  <2>1. CASE h.prepared = None \/ h.prepared.base # state
    <3>1. result = Error("STALE")
      BY <1>4, <2>1 DEF Applied
    <3> QED
      BY <3>1 DEF ErrorCodes, Rejections
  <2>2. CASE /\ h.prepared # None /\ h.prepared.base = state
             /\ h.prepared.failed \/ NarrationCheck(h.prepared.narration, Story, next) # "ok"
    <3>1. result = Error("NARRATION_INVALID")
      BY <1>4, <2>2 DEF Applied
    <3> QED
      BY <3>1 DEF ErrorCodes, Rejections
  <2>3. CASE /\ h.prepared # None /\ h.prepared.base = state
             /\ ~h.prepared.failed /\ NarrationCheck(h.prepared.narration, Story, next) = "ok"
    <3>1. h.prepared.narration = Narration(Story, next)
      BY <1>1, <1>4, <2>3 DEF PreparedGood
    <3>2. PICK row : row = StoredEvent(ChoiceMade(state, choice), next, h.key, h.request, ViewAt(next))
      OBVIOUS
    <3>3. result = [stored |-> row]
      BY <1>4, <2>3, <3>1, <3>2 DEF Applied, ViewAt
    <3>4. "stored" \in DOMAIN result /\ result.stored = row
      BY <3>3
    <3> QED
      BY <1>4, <3>2, <3>4 DEF Records
  <2> QED
    BY <2>1, <2>2, <2>3
<1> QED
  BY <1>2, <1>3, <1>4

\* A choice is recorded: the log grows by its row, and the session moves on with it.
LEMMA RecordedStep ==
    ASSUME StorySound, SessionInv, NEW h \in handlers, NEW row, Records(h, row),
           log' = Append(log, row), session' = [session EXCEPT !.state = row.hash],
           ServerAnswer(h, row.response), UNCHANGED <<rejected, sent>>
    PROVE  SessionInv' /\ Onward
<1> DEFINE choice == h.request.choice
           n == Len(log)
<1>1. PICK state, rev, next : /\ state = session.state /\ rev = session.state.revision
                              /\ next = Chosen(session.state, choice, Story)
  OBVIOUS
<1>2. /\ state \in InteractiveStates(Story) /\ rev \in Nat /\ n = rev + 1
      /\ h.request \in ChoiceRequests /\ choice \in AllIds(Story) /\ h.key \in 1..sent /\ h.key \in Nat
      /\ rev = h.request.revision /\ Transition(state, choice, Story) = "ok" /\ Recorded(h) = {}
      /\ LogInv /\ HandlersInv /\ KeysInv /\ RejectionsInv
  BY <1>1, LogFacts, HandlerFacts DEF SessionInv, Records
<1>3. next \in InteractiveStates(Story) /\ next.revision = rev + 1 /\ None \notin InteractiveStates(Story)
  <2>1. None \notin InteractiveStates(Story)
    BY DEF StorySound, InteractiveStates
  <2>2. Sound(Story) /\ next = Chosen(state, choice, Story)
    BY <1>1 DEF StorySound
  <2>3. /\ Chosen(state, choice, Story) \in InteractiveStates(Story)
        /\ Chosen(state, choice, Story).revision = state.revision + 1
    BY <1>2, <2>1, <2>2, ChosenType
  <2> QED
    BY <1>1, <2>1, <2>2, <2>3
<1>4. ViewAt(next) \in Views /\ ViewAt(next).revision = rev + 1 /\ ViewAt(next) # None /\ ~IsError(ViewAt(next))
  BY <1>3, ViewsAreViews, NoneIsNoView
<1>5. row = [event |-> ChoiceMade(state, choice), hash |-> next, key |-> h.key, request |-> h.request,
             response |-> ViewAt(next)]
  BY <1>1 DEF Records, StoredEvent
<1>6. /\ row.event = ChoiceMade(state, choice) /\ row.hash = next /\ row.key = h.key
      /\ row.request = h.request /\ row.response = ViewAt(next)
  BY <1>5
<1>7. session' = [state |-> next, removed |-> session.removed] /\ session.removed \in BOOLEAN
  BY <1>2, <1>6 DEF LogInv
<1>8. session'.state = next /\ session'.removed = session.removed
  BY <1>7
<1> HIDE DEF n
<1>9. row \in LogRows
  <2>1. ChoiceMade(state, choice) \in Events(Story)
    <3>1. state.scene \in DOMAIN Story.scenes
      BY <1>2, StatesAreStates
    <3>2. ChoiceMade(state, choice) = [seq |-> rev + 1, type |-> "ChoiceMade", choice |-> choice,
                                       from |-> state.scene]
      BY <1>1 DEF ChoiceMade
    <3> QED
      BY <1>2, <3>1, <3>2 DEF Events
  <2> QED
    BY <1>2, <1>3, <1>4, <1>5, <2>1 DEF LogRows
<1>10. /\ log \in Seq(LogRows) /\ log' \in Seq(LogRows) /\ Len(log') = n + 1 /\ log'[n + 1] = row
       /\ \A i \in 1..n : log'[i] = log[i]
  <2>1. log \in Seq(LogRows)
    BY <1>2 DEF LogInv
  <2> QED
    BY <1>9, <2>1 DEF n
<1>11. LeadsTo(Bare(log'), next, Story)
  <2>1. LeadsTo(Bare(log), state, Story)
    BY <1>1, <1>2 DEF LogInv
  <2>2. LeadsTo(Longer(Bare(log), state, choice, Story), next, Story)
    BY <1>1, <1>2, <1>3, <2>1, LogGrows DEF StorySound
  <2>3. PICK entry : entry = [event |-> ChoiceMade(state, choice), hash |-> next]
    OBVIOUS
  <2>4. Longer(Bare(log), state, choice, Story) = Append(Bare(log), entry)
    BY <1>1, <2>3 DEF Longer
  <2>5. Bare(log) \in Seq([event: Events(Story), hash: InteractiveStates(Story)])
    BY <2>1 DEF LeadsTo, GoodLog
  <2>10. entry \in [event: Events(Story), hash: InteractiveStates(Story)]
    <3>1. row.event \in Events(Story)
      BY <1>9 DEF LogRows
    <3> QED
      BY <1>3, <1>6, <2>3, <3>1
  <2>11. n \in Nat
    BY <1>2
  <2>6. /\ Len(Bare(log)) = n /\ DOMAIN Bare(log) = 1..n /\ DOMAIN Bare(log') = 1..(n + 1)
        /\ \A i \in 1..n : Bare(log)[i] = [event |-> log[i].event, hash |-> log[i].hash]
        /\ \A i \in 1..(n + 1) : Bare(log')[i] = [event |-> log'[i].event, hash |-> log'[i].hash]
    BY <1>10, BareRows DEF n
  <2>7. /\ Append(Bare(log), entry) \in Seq([event: Events(Story), hash: InteractiveStates(Story)])
        /\ Len(Append(Bare(log), entry)) = n + 1 /\ Append(Bare(log), entry)[n + 1] = entry
        /\ \A i \in 1..n : Append(Bare(log), entry)[i] = Bare(log)[i]
    BY <2>5, <2>6, <2>10, <2>11
  <2>12. Append(Bare(log), entry) = [i \in 1..(n + 1) |-> Append(Bare(log), entry)[i]]
    <3>1. PICK app : app = Append(Bare(log), entry)
      OBVIOUS
    <3>2. app \in [1..(n + 1) -> [event: Events(Story), hash: InteractiveStates(Story)]]
      <4>1. PICK S : S = [event: Events(Story), hash: InteractiveStates(Story)]
        OBVIOUS
      <4>2. app \in Seq(S) /\ Len(app) = n + 1
        BY <2>7, <3>1, <4>1
      <4>3. app \in [1..Len(app) -> S]
        BY <4>2
      <4> QED
        BY <4>1, <4>2, <4>3
    <3>3. app = [i \in 1..(n + 1) |-> app[i]]
      BY <3>2
    <3> QED
      BY <3>1, <3>3
  <2>8. ASSUME NEW i \in 1..(n + 1) PROVE Bare(log')[i] = Append(Bare(log), entry)[i]
    <3>1. CASE i \in 1..n
      BY <1>2, <1>10, <2>6, <2>7, <3>1
    <3>2. CASE i \notin 1..n
      <4>1. i = n + 1
        BY <2>11, <3>2
      <4> QED
        BY <1>6, <1>10, <2>3, <2>6, <2>7, <3>2, <4>1
    <3> QED
      BY <3>1, <3>2
  <2>9. Bare(log') = Append(Bare(log), entry)
    <3>1. Bare(log') = [i \in 1..Len(log') |-> Bare(log')[i]]
      BY DEF Bare
    <3> QED
      BY <1>10, <2>8, <2>12, <3>1
  <2> QED
    BY <2>2, <2>4, <2>9
<1>12. LogInv'
  <2>1. \A i \in 1..Len(log') : log'[i].response = ViewAt(log'[i].hash) /\ log'[i].hash.revision = i - 1
    <3>1. ASSUME NEW i \in 1..n PROVE log'[i].response = ViewAt(log'[i].hash) /\ log'[i].hash.revision = i - 1
      BY <1>2, <1>10 DEF LogInv, n
    <3>2. log'[n + 1].response = ViewAt(log'[n + 1].hash) /\ log'[n + 1].hash.revision = n + 1 - 1
      BY <1>2, <1>3, <1>6, <1>10
    <3> QED
      BY <1>2, <1>10, <3>1, <3>2
  <2>2. log'[1].key = None
    BY <1>2, <1>10 DEF LogInv
  <2>3. \A i \in 2..Len(log') : /\ log'[i].key \in 1..sent /\ log'[i].request \in ChoiceRequests
                                /\ log'[i].request.revision = i - 2
    <3>1. ASSUME NEW i \in 2..n
          PROVE  /\ log'[i].key \in 1..sent /\ log'[i].request \in ChoiceRequests
                 /\ log'[i].request.revision = i - 2
      <4>1. i \in 1..n /\ i \in 2..Len(log)
        BY <1>2 DEF n
      <4>2. log'[i] = log[i]
        BY <1>10, <4>1
      <4> QED
        BY <1>2, <4>1, <4>2 DEF LogInv
    <3>2. /\ log'[n + 1].key \in 1..sent /\ log'[n + 1].request \in ChoiceRequests
          /\ log'[n + 1].request.revision = n + 1 - 2
      BY <1>2, <1>6, <1>10
    <3> QED
      BY <1>2, <1>10, <3>1, <3>2
  <2> QED
    BY <1>7, <1>8, <1>10, <1>11, <2>1, <2>2, <2>3 DEF LogInv
<1>13. /\ tabs' = [t \in Tabs |-> tabs'[t]] /\ handlers' \subseteq handlers
       /\ \A t \in Tabs : /\ TabGood(tabs'[t], rev + 1) /\ Continues(tabs'[t], tabs[t])
                          /\ Forward(tabs'[t], tabs[t])
                          /\ Rejecting(tabs'[t].command) =>
                               Rejecting(tabs[t].command) /\ tabs'[t].command.key = tabs[t].command.key
  <2>1. PICK answer, later : answer = row.response /\ later = rev + 1
    OBVIOUS
  <2>2. /\ answer \in TabReplies /\ answer # None /\ ~IsError(answer) /\ later \in Nat
        /\ session.state.revision <= later
    BY <1>1, <1>2, <1>4, <1>6, <2>1 DEF TabReplies
  <2>3. ToldGood(answer, h.request, later)
    BY <1>2, <1>4, <1>6, <2>1, <2>2 DEF ToldGood
  <2>4. /\ tabs' = [t \in Tabs |-> tabs'[t]] /\ handlers' \subseteq handlers
        /\ \A t \in Tabs : /\ TabGood(tabs'[t], later) /\ Continues(tabs'[t], tabs[t])
                           /\ Forward(tabs'[t], tabs[t])
                           /\ Rejecting(tabs'[t].command) =>
                                 \/ Rejecting(tabs[t].command) /\ tabs'[t].command.key = tabs[t].command.key
                                 \/ /\ tabs'[t].command.key = h.key
                                    /\ IsError(answer) /\ answer.error \in Rejections
    BY <2>1, <2>2, <2>3, TabsAnswered
  <2> QED
    BY <2>1, <2>2, <2>4
<1>14. HandlersInv'
  <2>1. \A g \in handlers' : g \in HandlerSet /\ PreparedGood(g) /\ \E k \in handlers : SameWork(g, k)
    BY <1>13, HandlersStay
  <2>2. sent' = sent
    OBVIOUS
  <2> QED
    BY <1>2, <1>13, <2>1, <2>2, HandlersKept
<1>15. Carried' \subseteq Carried
  <2>1. \A i \in 2..Len(log') : <<log'[i].key, log'[i].request>> \in Carried
    <3>1. ASSUME NEW i \in 2..n PROVE <<log'[i].key, log'[i].request>> \in Carried
      BY <1>2, <1>10 DEF Carried, n
    <3>2. <<log'[n + 1].key, log'[n + 1].request>> \in Carried
      BY <1>6, <1>10, HandlerFacts
    <3> QED
      BY <1>2, <1>10, <3>1, <3>2
  <2>2. \A g \in handlers' : \E k \in handlers : SameWork(g, k)
    BY <1>13, HandlersStay
  <2> QED
    BY <1>13, <2>1, <2>2, CarriedShrinks
<1>16. \A a \in Carried : a[2].revision \in Nat /\ a[2].revision <= rev
  BY <1>1, <1>2, CarriedTyped DEF KeysInv
<1>17. KeysInv'
  BY <1>2, <1>3, <1>8, <1>15, <1>16 DEF KeysInv
<1>18. ASSUME NEW key, Settled(key) PROVE Settled(key)'
  <2>1. \A a \in Carried : a[1] = key => Overruled(a[2])
    BY <1>18 DEF Settled
  <2>2. ~Overruled(h.request)
    BY <1>1, <1>2 DEF Overruled
  <2>3. h.key # key
    BY <2>1, <2>2, HandlerFacts
  <2>4. \A i \in 2..Len(log') : log'[i].key # key
    <3>1. ASSUME NEW i \in 2..n PROVE log'[i].key # key
      BY <1>2, <1>10, <1>18 DEF Settled, n
    <3>2. log'[n + 1].key # key
      BY <1>6, <1>10, <2>3
    <3> QED
      BY <1>2, <1>10, <3>1, <3>2
  <2>5. \A a \in Carried' : a[2].revision < session'.state.revision
    BY <1>2, <1>3, <1>8, <1>15, <1>16
  <2> QED
    BY <2>4, <2>5 DEF Settled, Overruled
<1>19. RejectionsInv'
  BY <1>2, <1>13, <1>18 DEF RejectionsInv, Rejecting
<1>20. TabsInv'
  BY <1>3, <1>8, <1>13 DEF TabsInv
<1> QED
  BY <1>12, <1>13, <1>14, <1>17, <1>19, <1>20 DEF SessionInv, Onward

\* commit: what was recorded before answers first, and nothing else is recorded twice.
LEMMA CommittedForms ==
    ASSUME StorySound, SessionInv, NEW h \in handlers, NEW result, result = Committed(h)
    PROVE  \/ "stored" \in DOMAIN result /\ Records(h, result.stored)
           \/ /\ "stored" \notin DOMAIN result /\ result \in TabReplies /\ result # None
              /\ ToldGood(result, h.request, session.state.revision)
              /\ IsError(result) /\ result.error \in Rejections => Settled(h.key)
<1>1. CASE session.removed
  <2>1. PICK code \in ErrorCodes : code = "SESSION_NOT_FOUND"
    BY DEF ErrorCodes
  <2>2. result = Error(code)
    BY <1>1, <2>1 DEF Committed
  <2>3. /\ result \in TabReplies /\ result # None /\ IsError(result) /\ result.error = code
        /\ "stored" \notin DOMAIN result
    BY <2>2, ErrorForms
  <2> QED
    BY <2>1, <2>3 DEF ToldGood, Rejections
<1>2. CASE ~session.removed /\ Recorded(h) # {}
  <2>1. PICK e \in Recorded(h) : result = IF e.request = h.request THEN e.response
                                           ELSE Error("IDEMPOTENCY_KEY_REUSED")
    BY <1>2 DEF Committed, Replayed
  <2>2. /\ e.request = h.request /\ e.response \in Views
        /\ e.response.revision = h.request.revision + 1
        /\ e.response.revision <= session.state.revision
    BY RecordedForms
  <2>3. result = e.response
    BY <2>1, <2>2
  <2>4. PICK state \in InteractiveStates(Story) : result = ViewAt(state)
    BY <2>2, <2>3 DEF Views
  <2>5. DOMAIN result = {"session", "revision", "story", "scene", "narration", "choices",
                         "knowledge", "inventory", "ending", "status"}
    BY <2>4 DEF ViewAt, ViewOf, PublicView
  <2>6. "stored" \notin DOMAIN result /\ ~IsError(result)
    BY <2>5 DEF IsError
  <2>7. result \in TabReplies /\ result # None
    BY <2>2, <2>3, NoneIsNoView DEF TabReplies
  <2>8. ToldGood(result, h.request, session.state.revision)
    BY <2>2, <2>3, <2>6 DEF ToldGood
  <2> QED
    BY <2>6, <2>7, <2>8
<1>3. CASE ~session.removed /\ Recorded(h) = {}
  <2>1. result = Applied(h, session.state)
    BY <1>3 DEF Committed
  <2>2. CASE "stored" \in DOMAIN result /\ Records(h, result.stored)
    BY <2>2
  <2>3. CASE \E code \in ErrorCodes \ {"IDEMPOTENCY_KEY_REUSED"} :
                /\ result = Error(code)
                /\ code \in Rejections => Overruled(h.request)
                /\ code = "REVISION_CONFLICT" => h.request.revision < session.state.revision
    <3>1. PICK code \in ErrorCodes \ {"IDEMPOTENCY_KEY_REUSED"} :
                /\ result = Error(code)
                /\ code \in Rejections => Overruled(h.request)
                /\ code = "REVISION_CONFLICT" => h.request.revision < session.state.revision
      BY <2>3
    <3>2. /\ result \in TabReplies /\ result # None /\ IsError(result) /\ result.error = code
          /\ "stored" \notin DOMAIN result
      BY <3>1, ErrorForms
    <3>3. ToldGood(result, h.request, session.state.revision)
      BY <3>1, <3>2 DEF ToldGood
    <3>4. code \in Rejections => Settled(h.key)
      BY <1>3, <3>1, RefusedSettled
    <3> QED
      BY <3>2, <3>3, <3>4
  <2> QED
    BY <1>3, <2>1, <2>2, <2>3, AppliedForms
<1> QED
  BY <1>1, <1>2, <1>3

LEMMA CommitChoiceStep ==
    ASSUME StorySound, SessionInv, NEW h \in handlers, CommitChoice(h) PROVE SessionInv' /\ Onward
<1>1. PICK result : /\ result = Committed(h)
                    /\ \/ /\ "stored" \in DOMAIN result
                          /\ log' = Append(log, result.stored)
                          /\ session' = [session EXCEPT !.state = result.stored.hash]
                          /\ ServerAnswer(h, result.stored.response)
                       \/ /\ "stored" \notin DOMAIN result
                          /\ IF result = Error("STALE") /\ h.tries < 3
                             THEN handlers' = (handlers \ {h}) \cup
                                      {[h EXCEPT !.step = "received", !.tries = @ + 1]} /\ UNCHANGED tabs
                             ELSE ServerAnswer(h, IF result = Error("STALE") THEN Error("SESSION_BUSY")
                                                  ELSE result)
                          /\ UNCHANGED <<session, log>>
  BY DEF CommitChoice
<1>2. UNCHANGED <<rejected, sent>>
  BY DEF CommitChoice
<1>3. \/ "stored" \in DOMAIN result /\ Records(h, result.stored)
      \/ /\ "stored" \notin DOMAIN result /\ result \in TabReplies /\ result # None
         /\ ToldGood(result, h.request, session.state.revision)
         /\ IsError(result) /\ result.error \in Rejections => Settled(h.key)
  BY <1>1, CommittedForms
<1>4. CASE "stored" \in DOMAIN result
  <2>1. PICK row : row = result.stored
    OBVIOUS
  <2>2. /\ Records(h, row) /\ log' = Append(log, row) /\ session' = [session EXCEPT !.state = row.hash]
        /\ ServerAnswer(h, row.response)
    BY <1>1, <1>3, <1>4, <2>1
  <2> QED
    BY <1>2, <2>2, RecordedStep
<1>5. CASE "stored" \notin DOMAIN result /\ result = Error("STALE") /\ h.tries < 3
  <2>1. /\ handlers' = (handlers \ {h}) \cup {[h EXCEPT !.step = "received", !.tries = @ + 1]}
        /\ UNCHANGED <<session, log, tabs>>
    BY <1>1, <1>5
  <2>2. PICK g : g = [send |-> h.send, tab |-> h.tab, key |-> h.key, request |-> h.request,
                      step |-> "received", prepared |-> h.prepared, tries |-> h.tries + 1]
    OBVIOUS
  <2>3. h = [send |-> h.send, tab |-> h.tab, key |-> h.key, request |-> h.request, step |-> h.step,
             prepared |-> h.prepared, tries |-> h.tries]
    BY HandlerFacts
  <2>4. g = [h EXCEPT !.step = "received", !.tries = @ + 1]
    <3>1. PICK mid : mid = [h EXCEPT !.step = "received"]
      OBVIOUS
    <3>2. mid = [send |-> h.send, tab |-> h.tab, key |-> h.key, request |-> h.request,
                 step |-> "received", prepared |-> h.prepared, tries |-> h.tries]
      BY <2>3, <3>1
    <3>3. g = [mid EXCEPT !.tries = @ + 1]
      BY <2>2, <3>2
    <3> QED
      BY <3>1, <3>3
  <2>5. g \in HandlerSet /\ SameWork(g, h)
    <3>1. /\ h.send \in Nat /\ h.tab \in Tabs /\ h.key \in Nat /\ h.request \in ChoiceRequests
          /\ h.prepared \in {None} \cup Preparations /\ h.tries \in 1..3
      BY HandlerFacts DEF HandlerSet
    <3>2. h.tries + 1 \in 1..3
      BY <1>5, <3>1
    <3>3. g \in HandlerSet
      BY <2>2, <3>1, <3>2 DEF HandlerSet
    <3> QED
      BY <2>2, <3>3 DEF SameWork
  <2>6. PreparedGood(g)
    <3>1. g.prepared = h.prepared /\ g.request = h.request
      BY <2>2
    <3> QED
      BY <3>1, HandlerFacts DEF PreparedGood
  <2> QED
    BY <1>2, <2>1, <2>4, <2>5, <2>6, HandlerTurns
<1>6. CASE "stored" \notin DOMAIN result /\ ~(result = Error("STALE") /\ h.tries < 3)
  <2>1. CASE result = Error("STALE")
    <3>1. ServerAnswer(h, Error("SESSION_BUSY")) /\ UNCHANGED <<session, log, rejected, sent>>
      BY <1>1, <1>2, <1>6, <2>1
    <3> QED
      BY <3>1, ErrorAnswered
  <2>2. CASE result # Error("STALE")
    <3>1. ServerAnswer(h, result) /\ UNCHANGED <<session, log, rejected, sent>>
      BY <1>1, <1>2, <1>6, <2>2
    <3> QED
      BY <1>3, <1>6, <3>1, AnsweredStep
  <2> QED
    BY <2>1, <2>2
<1> QED
  BY <1>4, <1>5, <1>6

-----------------------------------------------------------------------------
(* The requests of a reader *)

\* A request is sent: a new command under a fresh key, or one that is tried again.
LEMMA SendStep ==
    ASSUME StorySound, SessionInv, NEW t \in Tabs, NEW tab, tab = tabs[t], tab.view # None, ~tab.sync, ~Busy(t),
           NEW command \in TabCommands, Send(t, tab, command),
           command.request.revision <= session.state.revision, tab.learned <= command.request.revision,
           command.key = sent + 1 \/ <<command.key, command.request>> \in Carried
    PROVE  SessionInv' /\ Onward
<1>1. PICK rev : rev = session.state.revision
  OBVIOUS
<1>2. /\ rev \in Nat /\ TabGood(tab, rev) /\ TabForm(tab, rev) /\ sent \in Nat
      /\ LogInv /\ HandlersInv /\ KeysInv /\ RejectionsInv /\ tabs = [u \in Tabs |-> tabs[u]]
      /\ session = [state |-> session.state, removed |-> session.removed] /\ session.removed \in BOOLEAN
  BY <1>1, TabFacts DEF SessionInv, KeysInv, TabsInv, LogInv
<1>3. PICK c : c = [key |-> command.key, phase |-> "submitting", attempts |-> command.attempts + 1,
                    send |-> sent + 1, reply |-> None, recorded |-> command.recorded,
                    request |-> command.request]
  OBVIOUS
<1>4. PICK g : g = [send |-> sent + 1, tab |-> t, key |-> command.key, request |-> command.request,
                    step |-> "received", prepared |-> None, tries |-> 1]
  OBVIOUS
<1>5. PICK new : new = [tab EXCEPT !.command = c]
  OBVIOUS
<1>6. /\ sent' = sent + 1 /\ tabs' = [tabs EXCEPT ![t] = new] /\ handlers' = handlers \cup {g}
      /\ UNCHANGED <<session, log, rejected>>
  <2>1. PICK d : d = [command EXCEPT !.phase = "submitting", !.attempts = @ + 1, !.send = sent + 1, !.reply = None]
    OBVIOUS
  <2>2. d = c
    <3>0. command = [key |-> command.key, phase |-> command.phase, attempts |-> command.attempts,
                     send |-> command.send, reply |-> command.reply, recorded |-> command.recorded,
                     request |-> command.request]
      BY CommandParts
    <3>1. PICK x : x = [command EXCEPT !.phase = "submitting"]
      OBVIOUS
    <3>2. PICK y : y = [x EXCEPT !.attempts = @ + 1]
      OBVIOUS
    <3>3. PICK z : z = [y EXCEPT !.send = sent + 1]
      OBVIOUS
    <3>4. d = [z EXCEPT !.reply = None]
      BY <2>1, <3>1, <3>2, <3>3
    <3>5. x = [key |-> command.key, phase |-> "submitting", attempts |-> command.attempts,
               send |-> command.send, reply |-> command.reply, recorded |-> command.recorded,
               request |-> command.request]
      BY <3>0, <3>1
    <3>6. y = [key |-> command.key, phase |-> "submitting", attempts |-> command.attempts + 1,
               send |-> command.send, reply |-> command.reply, recorded |-> command.recorded,
               request |-> command.request]
      BY <3>2, <3>5
    <3>7. z = [key |-> command.key, phase |-> "submitting", attempts |-> command.attempts + 1,
               send |-> sent + 1, reply |-> command.reply, recorded |-> command.recorded,
               request |-> command.request]
      BY <3>3, <3>6
    <3> QED
      BY <1>3, <3>4, <3>7
  <2>3. tabs' = [tabs EXCEPT ![t] = [tab EXCEPT !.command = d]]
    BY <2>1 DEF Send
  <2> QED
    BY <1>4, <1>5, <2>2, <2>3 DEF Send
<1>7. /\ command.key \in Nat /\ command.attempts \in Nat /\ command.recorded \in {None} \cup Nat
      /\ command.request \in ChoiceRequests /\ command.request.revision \in Nat
  BY CommandParts
<1>8. command.key \in 1..(sent + 1) /\ command.key \in Nat
  <2>1. <<command.key, command.request>> \in Carried => command.key \in 1..sent
    BY <1>2 DEF KeysInv
  <2> QED
    BY <1>2, <1>7, <2>1
<1>9. /\ c.key = command.key /\ c.request = command.request /\ c.phase = "submitting" /\ c.reply = None
      /\ c.send = sent + 1 /\ c \in TabCommands
  <2>1. PICK key, asked, attempts, send, recorded : /\ key = command.key /\ asked = command.request
             /\ attempts = command.attempts + 1 /\ send = sent + 1 /\ recorded = command.recorded
    OBVIOUS
  <2>2. /\ key \in Nat /\ asked \in ChoiceRequests /\ attempts \in Nat /\ send \in Nat
        /\ recorded \in {None} \cup Nat
    BY <1>2, <1>7, <2>1
  <2>3. None \in TabReplies
    BY DEF TabReplies
  <2>4. c = [key |-> key, phase |-> "submitting", attempts |-> attempts, send |-> send, reply |-> None,
             recorded |-> recorded, request |-> asked]
    BY <1>3, <2>1
  <2>5. c \in TabCommands
    BY <2>2, <2>3, <2>4, CommandIn
  <2> QED
    BY <1>3, <2>5
<1>10. TabGood(new, rev) /\ new.view = tab.view /\ new.command = c /\ c # None
  <2>1. PendingGood(c, tab.learned, rev)
    BY <1>1, <1>9 DEF PendingGood
  <2>2. tab.forced # None => /\ tab.forced.purpose # "sync"
                             /\ tab.forced.purpose = "confirm" => c.phase = "confirming"
    BY NotBusy
  <2> QED
    BY <1>2, <1>5, <1>9, <2>1, <2>2, CommandSetGood
<1>11. g \in HandlerSet /\ g.send = sent + 1 /\ g.tab = t /\ g.key = c.key /\ g.request = c.request /\ PreparedGood(g)
  <2>1. g \in HandlerSet
    BY <1>2, <1>4, <1>7 DEF HandlerSet
  <2>2. /\ g.send = sent + 1 /\ g.tab = t /\ g.key = command.key /\ g.request = command.request
        /\ g.prepared = None
    BY <1>4
  <2> QED
    BY <1>9, <2>1, <2>2 DEF PreparedGood
<1>12. /\ tabs' = [u \in Tabs |-> tabs'[u]] /\ tabs'[t] = new
       /\ \A u \in Tabs : u # t => tabs'[u] = tabs[u]
  BY <1>2, <1>6
<1>13. LogInv'
  <2>1. sent' \in Nat /\ sent <= sent' /\ session' = session /\ log' = log
    BY <1>2, <1>6
  <2> QED
    BY <1>2, <2>1, LogKept
<1>14. HandlersInv'
  <2>1. ASSUME NEW h \in handlers'
        PROVE  /\ h \in HandlerSet /\ h.send \in 1..sent' /\ PreparedGood(h)
               /\ Waiting(h.tab, h.send)' => tabs'[h.tab].command.key = h.key
    <3>1. CASE h = g
      BY <1>2, <1>6, <1>10, <1>11, <1>12, <3>1
    <3>2. CASE h \in handlers
      <4>1. /\ h \in HandlerSet /\ h.send \in 1..sent /\ PreparedGood(h) /\ h.tab \in Tabs
            /\ Waiting(h.tab, h.send) => tabs[h.tab].command.key = h.key
        BY <3>2, HandlerFacts DEF SessionInv, HandlersInv
      <4>2. h.send \in 1..sent' /\ h.send # sent + 1
        BY <1>2, <1>6, <4>1
      <4>3. CASE h.tab = t
        <5>1. tabs'[h.tab].command = c
          BY <1>10, <1>12, <4>3
        <5>2. ~Waiting(h.tab, h.send)'
          BY <1>9, <4>2, <5>1 DEF Waiting
        <5> QED
          BY <4>1, <4>2, <5>2
      <4>4. CASE h.tab # t
        <5>1. tabs'[h.tab] = tabs[h.tab]
          BY <1>12, <4>1, <4>4
        <5> QED
          BY <4>1, <4>2, <5>1 DEF Waiting
      <4> QED
        BY <4>3, <4>4
    <3> QED
      BY <1>6, <3>1, <3>2
  <2> QED
    BY <2>1 DEF HandlersInv, PreparedGood
<1>15. Carried' \subseteq Carried \cup {<<c.key, c.request>>}
  <2>1. SUFFICES ASSUME NEW a \in Carried' PROVE a \in Carried \cup {<<c.key, c.request>>}
    OBVIOUS
  <2>2. CASE \E h \in handlers' : a = <<h.key, h.request>>
    BY <1>6, <1>11, <2>2 DEF Carried
  <2>3. CASE \E i \in 2..Len(log') : a = <<log'[i].key, log'[i].request>>
    BY <1>6, <2>3 DEF Carried
  <2>4. CASE \E u \in Tabs : tabs'[u].command # None /\ a = <<tabs'[u].command.key, tabs'[u].command.request>>
    <3>1. PICK u \in Tabs : tabs'[u].command # None /\ a = <<tabs'[u].command.key, tabs'[u].command.request>>
      BY <2>4
    <3>2. CASE u = t
      BY <1>10, <1>12, <3>1, <3>2
    <3>3. CASE u # t
      BY <1>12, <3>1, <3>3 DEF Carried
    <3> QED
      BY <3>2, <3>3
  <2> QED
    BY <2>2, <2>3, <2>4 DEF Carried
<1>16. KeysInv'
  <2>1. sent' \in Nat /\ sent' = sent + 1 /\ session' = session
    BY <1>2, <1>6
  <2>2. \A a \in Carried' : a[1] \in 1..sent' /\ a[2].revision <= session'.state.revision
    <3>1. \A a \in Carried : a[1] \in 1..sent /\ a[2].revision <= session.state.revision
      BY <1>2 DEF KeysInv
    <3> QED
      BY <1>2, <1>8, <1>9, <1>15, <2>1, <3>1
  <2>3. \A a, b \in Carried' : a[1] = b[1] => a[2] = b[2]
    <3>1. \A a \in Carried : a[1] = c.key => a[2] = c.request
      <4>1. \A a \in Carried : a[1] \in 1..sent
        BY <1>2 DEF KeysInv
      <4>2. CASE c.key = sent + 1
        BY <1>2, <4>1, <4>2
      <4>3. CASE <<c.key, c.request>> \in Carried
        BY <1>2, <4>3 DEF KeysInv
      <4> QED
        BY <1>9, <4>2, <4>3
    <3>2. \A a, b \in Carried : a[1] = b[1] => a[2] = b[2]
      BY <1>2 DEF KeysInv
    <3> QED
      BY <1>15, <3>1, <3>2
  <2> QED
    BY <2>1, <2>2, <2>3 DEF KeysInv
<1>17. ASSUME NEW key \in 1..sent, Settled(key) PROVE Settled(key)'
  <2>1. log' = log /\ session' = session
    BY <1>6
  <2>2. \A a \in Carried' : a[1] = key => a \in Carried
    <3>1. c.key = key => <<c.key, c.request>> \in Carried
      BY <1>2, <1>9
    <3> QED
      BY <1>15, <3>1
  <2> QED
    BY <1>17, <2>1, <2>2 DEF Settled, Overruled
<1>18. RejectionsInv'
  <2>1. rejected' = rejected /\ rejected \subseteq 1..sent /\ 1..sent \subseteq 1..sent'
    BY <1>2, <1>6 DEF RejectionsInv
  <2>2. ASSUME NEW u \in Tabs, Rejecting(tabs'[u].command) PROVE Settled(tabs[u].command.key)'
    <3>1. u # t
      BY <1>9, <1>10, <1>12, <2>2 DEF Rejecting
    <3>2. tabs'[u] = tabs[u]
      BY <1>12, <3>1
    <3>3. tabs[u].command.key \in 1..sent /\ Settled(tabs[u].command.key)
      BY <2>2, <3>2, TabFacts DEF Rejecting
    <3>4. PICK key \in 1..sent : key = tabs[u].command.key
      BY <3>3
    <3>5. Settled(key)'
      BY <1>17, <3>3, <3>4
    <3>6. key = tabs'[u].command.key
      BY <3>2, <3>4
    <3> QED
      BY <3>5, <3>6
  <2>3. \A key \in rejected' : Settled(key)'
    BY <1>2, <1>17, <2>1 DEF RejectionsInv
  <2>4. \A u \in Tabs : Rejecting(tabs'[u].command) => Settled(tabs[u].command.key)'
    BY <2>2
  <2>5. rejected' \subseteq 1..sent'
    BY <2>1
  <2> QED
    BY <2>3, <2>4, <2>5 DEF RejectionsInv, Rejecting
<1>19. TabsInv' /\ Onward
  <2>1. ASSUME NEW u \in Tabs PROVE TabGood(tabs'[u], rev) /\ Forward(tabs'[u], tabs[u])
    <3>1. TabGood(tabs[u], rev) /\ TabForm(tabs[u], rev)
      BY <1>1, TabFacts
    <3>2. CASE u = t
      BY <1>10, <1>12, <3>1, <3>2 DEF Forward, TabForm
    <3>3. CASE u # t
      BY <1>12, <3>1, <3>3 DEF Forward, TabForm
    <3> QED
      BY <3>2, <3>3
  <2>2. session' = session
    BY <1>6
  <2> QED
    BY <1>1, <1>12, <2>1, <2>2 DEF TabsInv, Onward
<1> QED
  BY <1>13, <1>14, <1>16, <1>18, <1>19 DEF SessionInv

LEMMA SubmitChoiceStep ==
    ASSUME StorySound, SessionInv, NEW t \in Tabs, NEW choice \in AllIds(Story), SubmitChoice(t, choice)
    PROVE  SessionInv' /\ Onward
<1>1. PICK tab, command : tab = tabs[t] /\ command = ChoiceCommand(sent + 1, tab, choice)
  OBVIOUS
<1>2. /\ TabGood(tab, session.state.revision) /\ TabForm(tab, session.state.revision) /\ sent \in Nat
  BY <1>1, TabFacts DEF SessionInv, KeysInv
<1>3. /\ ~Busy(t) /\ tab.view # None /\ tab.command = None /\ ~tab.sync /\ Send(t, tab, command)
  BY <1>1 DEF SubmitChoice, MayChoose
<1>4. tab.view.revision \in Nat /\ tab.view.revision <= session.state.revision
  BY <1>2, <1>3 DEF TabForm, TabGood
<1>5. PICK asked : asked = [choice |-> choice, revision |-> tab.view.revision]
  OBVIOUS
<1>6. asked \in ChoiceRequests /\ asked.revision = tab.view.revision
  BY <1>4, <1>5 DEF ChoiceRequests
<1>7. command = [key |-> sent + 1, phase |-> "submitting", attempts |-> 0, send |-> 0, reply |-> None,
                 recorded |-> None, request |-> asked]
  BY <1>1, <1>5 DEF ChoiceCommand
<1>8. command \in TabCommands
  BY <1>2, <1>6, <1>7 DEF TabCommands, TabReplies
<1>9. command.key = sent + 1 /\ command.request = asked
  BY <1>7
<1>10. tab.learned <= asked.revision
  BY <1>2, <1>3, <1>6 DEF TabGood
<1> QED
  BY <1>1, <1>3, <1>4, <1>6, <1>8, <1>9, <1>10, SendStep

LEMMA RetryCommandStep ==
    ASSUME StorySound, SessionInv, NEW t \in Tabs, RetryCommand(t) PROVE SessionInv' /\ Onward
<1>1. ~Busy(t) /\ tabs[t].command # None
  BY DEF RetryCommand
<1>2. CASE tabs[t].command.phase = "retryable" /\ Send(t, tabs[t], tabs[t].command)
  <2>1. PICK tab, command : tab = tabs[t] /\ command = tabs[t].command
    OBVIOUS
  <2>2. TabGood(tab, session.state.revision) /\ TabForm(tab, session.state.revision)
    BY <2>1, TabFacts
  <2>3. /\ command \in TabCommands /\ tab.view # None /\ ~tab.sync
        /\ command.request.revision <= session.state.revision
    BY <1>1, <2>1, <2>2 DEF TabForm
  <2>4. PendingGood(command, tab.learned, session.state.revision)
    BY <1>1, <2>1, <2>2 DEF TabGood
  <2>5. tab.learned <= command.request.revision
    BY <1>2, <2>1, <2>4 DEF PendingGood
  <2>6. <<command.key, command.request>> \in Carried
    BY <1>1, <2>1 DEF Carried
  <2>7. Send(t, tab, command)
    BY <1>2, <2>1
  <2> QED
    BY <1>1, <2>1, <2>3, <2>5, <2>6, <2>7, SendStep
<1>3. CASE /\ tabs[t].command.phase = "confirming"
           /\ tabs' = [tabs EXCEPT ![t] = ForcedRead(tabs[t], "confirm")]
           /\ UNCHANGED <<session, log, handlers, rejected, sent>>
  BY <1>1, <1>3, ReadAgainStep
<1> QED
  BY <1>2, <1>3 DEF RetryCommand

-----------------------------------------------------------------------------
(* All steps, and the theorems *)

\* What is left of the bounds: the tabs that act stay the same.
BudgetInv == readerBudget \in ReaderBudgetSet
SpentOrKept == UNCHANGED readerBudget \/ \E what \in {"sends", "faults", "focus", "removals"} : SpendSession(what)

LEMMA BudgetKept == ASSUME BudgetInv, SpentOrKept PROVE BudgetInv'
<1>1. CASE UNCHANGED readerBudget
  BY <1>1 DEF BudgetInv
<1>2. CASE \E what \in {"sends", "faults", "focus", "removals"} : SpendSession(what)
  <2>1. PICK what \in {"sends", "faults", "focus", "removals"} : SpendSession(what)
    BY <1>2
  <2>2. readerBudget[what] - 1 \in Nat
    BY <2>1 DEF BudgetInv, ReaderBudgetSet, SpendSession
  <2> QED
    BY <2>1, <2>2 DEF BudgetInv, ReaderBudgetSet, SpendSession
<1> QED
  BY <1>1, <1>2 DEF SpentOrKept

LEMMA HandlerSteps ==
    ASSUME StorySound, SessionInv, NEW h \in handlers,
           PrepareChoice(h) \/ CommitChoice(h) \/ RefuseLogin(h) \/ LockTimeout(h) \/ LoseHandler(h)
    PROVE  SessionInv' /\ Onward /\ SpentOrKept
<1>1. CASE PrepareChoice(h)
  BY <1>1, PrepareChoiceStep DEF PrepareChoice, SpentOrKept, SessionFault
<1>2. CASE CommitChoice(h)
  BY <1>2, CommitChoiceStep DEF CommitChoice, SpentOrKept
<1>3. CASE RefuseLogin(h)
  BY <1>3, RefuseLoginStep DEF RefuseLogin, SpentOrKept, SessionFault
<1>4. CASE LockTimeout(h)
  BY <1>4, LockTimeoutStep DEF LockTimeout, SpentOrKept, SessionFault
<1>5. CASE LoseHandler(h)
  BY <1>5, LoseHandlerStep DEF LoseHandler, SpentOrKept, SessionFault
<1> QED
  BY <1>1, <1>2, <1>3, <1>4, <1>5

LEMMA ReaderSteps ==
    ASSUME StorySound, SessionInv, NEW t \in Tabs, ReaderStep(t) \/ FocusRead(t) \/ ReloadTab(t)
    PROVE  SessionInv' /\ Onward /\ SpentOrKept
<1>1. CASE ReceiveAnswer(t)
  BY <1>1, ReceiveAnswerStep DEF ReceiveAnswer, SpentOrKept
<1>2. CASE SendFails(t)
  BY <1>2, SendFailsStep DEF SendFails, SpentOrKept, SessionFault
<1>3. CASE RetryCommand(t)
  BY <1>3, RetryCommandStep DEF RetryCommand, Send, SpentOrKept
<1>4. CASE RetryRead(t)
  BY <1>4, RetryReadStep DEF RetryRead, SpentOrKept
<1>5. ASSUME NEW slot \in {"forced", "focus"}, ServeRead(t, slot) PROVE SessionInv' /\ Onward /\ SpentOrKept
  BY <1>5, ServeReadStep DEF ServeRead, SpentOrKept
<1>6. ASSUME NEW slot \in {"forced", "focus"}, ReceiveRead(t, slot) PROVE SessionInv' /\ Onward /\ SpentOrKept
  BY <1>6, ReceiveReadStep DEF ReceiveRead, SpentOrKept, SessionFault
<1>7. CASE FocusRead(t)
  BY <1>7, FocusReadStep DEF FocusRead, SpentOrKept
<1>8. CASE ReloadTab(t)
  BY <1>8, ReloadTabStep DEF ReloadTab, SpentOrKept, SessionFault
<1> QED
  BY <1>1, <1>2, <1>3, <1>4, <1>5, <1>6, <1>7, <1>8 DEF ReaderStep

LEMMA SessionNext_Inv ==
    ASSUME StorySound, SessionInv, BudgetInv, [SessionNext]_sessionVars PROVE SessionInv' /\ BudgetInv' /\ Onward
<1>1. CASE UNCHANGED sessionVars
  <2>1. UNCHANGED <<session, log, handlers, tabs, rejected, sent, readerBudget>>
    BY <1>1 DEF sessionVars
  <2>2. session'.removed \in BOOLEAN /\ session' = [state |-> session'.state, removed |-> session'.removed]
    BY <2>1 DEF SessionInv, LogInv
  <2>3. \A g \in handlers' : g \in HandlerSet /\ PreparedGood(g) /\ \E k \in handlers : SameWork(g, k)
    BY <2>1, HandlersStay
  <2>4. SessionInv' /\ Onward
    BY <2>1, <2>2, <2>3, HandlersMove
  <2> QED
    BY <2>1, <2>4 DEF BudgetInv
<1>2. CASE SessionNext
  <2>1. readerBudget.tabs \subseteq Tabs
    BY DEF BudgetInv, ReaderBudgetSet
  <2>2. ASSUME NEW h \in handlers,
               PrepareChoice(h) \/ CommitChoice(h) \/ RefuseLogin(h) \/ LockTimeout(h) \/ LoseHandler(h)
        PROVE  SessionInv' /\ Onward /\ SpentOrKept
    BY <2>2, HandlerSteps
  <2>3. ASSUME RemoveSession PROVE SessionInv' /\ Onward /\ SpentOrKept
    <3>1. SpentOrKept
      BY <2>3 DEF RemoveSession, SpentOrKept
    <3> QED
      BY <2>3, <3>1, RemoveSessionStep
  <2>4. ASSUME NEW t \in readerBudget.tabs, ReaderStep(t) \/ FocusRead(t) \/ ReloadTab(t)
        PROVE  SessionInv' /\ Onward /\ SpentOrKept
    BY <2>1, <2>4, ReaderSteps
  <2>5. ASSUME NEW t \in readerBudget.tabs,
               NEW choice \in UNION {ChoiceIds(Story, s) : s \in DOMAIN Story.scenes}, SubmitChoice(t, choice)
        PROVE  SessionInv' /\ Onward /\ SpentOrKept
    <3>1. choice \in AllIds(Story)
      BY DEF ChoiceIds, AllIds, AllChoices
    <3>2. SpentOrKept
      BY <2>5 DEF SubmitChoice, Send, SpentOrKept
    <3> QED
      BY <2>1, <2>5, <3>1, <3>2, SubmitChoiceStep
  <2>6. SessionInv' /\ Onward /\ SpentOrKept
    <3>1. CASE \E h \in handlers : PrepareChoice(h) \/ CommitChoice(h) \/ RefuseLogin(h) \/ LockTimeout(h)
                                  \/ LoseHandler(h)
      BY <2>2, <3>1
    <3>2. CASE \E t \in readerBudget.tabs : ReaderStep(t) \/ FocusRead(t) \/ ReloadTab(t)
      BY <2>4, <3>2
    <3>3. CASE \E t \in readerBudget.tabs : \E choice \in UNION {ChoiceIds(Story, s) : s \in DOMAIN Story.scenes} :
                  SubmitChoice(t, choice)
      BY <2>5, <3>3
    <3> QED
      BY <1>2, <2>3, <3>1, <3>2, <3>3 DEF SessionNext, HandlerStep
  <2> QED
    BY <2>6, BudgetKept
<1> QED
  BY <1>1, <1>2

LEMMA SessionInit_Inv == ASSUME StorySound, SessionInit PROVE SessionInv /\ BudgetInv
<1>1. PICK state : state = InitialState(Story)
  OBVIOUS
<1>2. PICK row : row = StoredEvent(Genesis, state, None, None, ViewAt(state))
  OBVIOUS
<1>3. /\ session = [state |-> state, removed |-> FALSE] /\ log = <<row>> /\ handlers = {}
      /\ tabs \in [Tabs -> {FreshTab}] /\ rejected = {} /\ sent = 0 /\ readerBudget \in ReaderBudgets
  BY <1>1, <1>2 DEF SessionInit, ViewAt
<1>4. state \in InteractiveStates(Story) /\ state.revision = 0
  BY <1>1, InitialStateType DEF StorySound, InitialState
<1>5. ViewAt(state) \in Views
  BY <1>4, ViewsAreViews
<1>6. row = [event |-> Genesis, hash |-> state, key |-> None, request |-> None, response |-> ViewAt(state)]
  BY <1>2 DEF StoredEvent
<1>7. /\ row.event = Genesis /\ row.hash = state /\ row.key = None /\ row.response = ViewAt(state)
      /\ row \in LogRows
  BY <1>4, <1>5, <1>6 DEF LogRows, Events, Genesis
<1>8. log \in Seq(LogRows) /\ Len(log) = 1 /\ log[1] = row
  BY <1>3, <1>7
<1>9. LeadsTo(Bare(log), state, Story)
  <2>1. PICK entry : entry = [event |-> Genesis, hash |-> state]
    OBVIOUS
  <2>2. Len(Bare(log)) = 1 /\ DOMAIN Bare(log) = 1..1 /\ Bare(log)[1] = entry
    BY <1>7, <1>8, <2>1, BareRows
  <2>3. entry \in [event: Events(Story), hash: InteractiveStates(Story)]
    BY <1>4, <2>1 DEF Events, Genesis
  <2>4. Bare(log) = <<entry>>
    <3>1. Bare(log) = [i \in 1..1 |-> Bare(log)[i]]
      BY <1>8 DEF Bare
    <3>2. Bare(log) = [i \in 1..1 |-> entry]
      BY <2>2, <3>1
    <3> QED
      BY <3>2
  <2>5. /\ Bare(log) \in Seq([event: Events(Story), hash: InteractiveStates(Story)])
        /\ Bare(log)[Len(Bare(log))].hash = state
    BY <2>1, <2>2, <2>3, <2>4
  <2> QED
    BY <1>1, <1>4, <2>1, <2>2, <2>5 DEF LeadsTo, GoodLog, Genesis
<1>10. LogInv
  BY <1>3, <1>4, <1>7, <1>8, <1>9 DEF LogInv
<1>11. Carried = {}
  <2>1. \A t \in Tabs : tabs[t] = FreshTab
    BY <1>3
  <2>2. \A t \in Tabs : tabs[t].command = None
    BY <2>1 DEF FreshTab
  <2>3. 2..Len(log) = {}
    BY <1>8
  <2> QED
    BY <1>3, <2>2, <2>3 DEF Carried
<1>12. TabsInv
  <2>1. session.state.revision \in Nat
    BY <1>3, <1>4
  <2>2. TabGood(FreshTab, session.state.revision)
    BY <2>1, FreshTabGood
  <2> QED
    BY <1>3, <2>2 DEF TabsInv
<1>13. HandlersInv /\ KeysInv
  BY <1>3, <1>11 DEF HandlersInv, KeysInv
<1>14. RejectionsInv
  <2>1. \A t \in Tabs : ~Rejecting(tabs[t].command)
    BY <1>3 DEF Rejecting, FreshTab
  <2> QED
    BY <1>3, <2>1 DEF RejectionsInv
<1>15. BudgetInv
  BY <1>3, ReaderAssumption DEF BudgetInv
<1> QED
  BY <1>10, <1>12, <1>13, <1>14, <1>15 DEF SessionInv

LEMMA SessionInvariant ==
    ASSUME StorySound PROVE SessionSpec => [](SessionInv /\ BudgetInv)
<1>1. SessionInit => SessionInv /\ BudgetInv
  BY SessionInit_Inv
<1>2. SessionInv /\ BudgetInv /\ [SessionNext]_sessionVars => (SessionInv /\ BudgetInv)'
  BY SessionNext_Inv
<1> QED
  BY <1>1, <1>2, PTL DEF SessionSpec

\* What the invariant says of the log.
LEMMA LogGoodByInv ==
    ASSUME StorySound, SessionInv PROVE SessionTypeOK /\ LogReplaysToTheSession
<1>1. /\ session.removed \in BOOLEAN /\ log \in Seq(LogRows) /\ LeadsTo(Bare(log), session.state, Story)
      /\ \A i \in 1..Len(log) : log[i].response = ViewAt(log[i].hash)
      /\ Len(log) = session.state.revision + 1 /\ session.state.revision \in Nat
      /\ log[session.state.revision + 1].hash = session.state
  BY LogFacts DEF SessionInv, LogInv
<1>2. \A h \in handlers : h.send \in 1..sent /\ h.tries \in 1..3
  BY HandlerFacts
<1>3. ASSUME NEW t \in Tabs
      PROVE  /\ tabs[t].phase \in {"loading", "ready", "load-error", "unavailable", "auth-required"}
             /\ tabs[t].command # None =>
                  tabs[t].command.phase \in {"submitting", "retryable", "confirming", "inconsistent"}
             /\ tabs[t].phase = "ready" => tabs[t].view # None
  <2>1. PICK tab : tab = tabs[t]
    OBVIOUS
  <2>2. TabGood(tab, session.state.revision) /\ TabForm(tab, session.state.revision)
    BY <2>1, TabFacts
  <2>3. tab.command # None => tab.command \in TabCommands
    BY <2>2 DEF TabForm
  <2>4. tab.phase \in TabPhases /\ (tab.phase = "ready" => tab.view # None)
    BY <2>2 DEF TabForm, TabGood
  <2> QED
    BY <2>1, <2>3, <2>4, CommandParts DEF TabPhases
<1>4. SessionTypeOK
  BY <1>1, <1>2, <1>3 DEF SessionTypeOK
<1>5. Folded(log, Story) = session.state
  <2>1. None \notin InteractiveStates(Story)
    BY DEF StorySound, InteractiveStates
  <2>2. GoodLog(Bare(log), Story) /\ Bare(log)[Len(Bare(log))].hash = session.state /\ SameEvents(log, Bare(log))
    BY <1>1, BareRows DEF LeadsTo
  <2> QED
    BY <2>1, <2>2, BareLogReplays
<1>6. Last(log).hash = session.state
  BY <1>1 DEF Last
<1>7. \A e \in Range(log) : e.response = ViewOf(e.hash, Narration(Story, e.hash))
  BY <1>1 DEF Range, ViewAt
<1> QED
  BY <1>4, <1>5, <1>6, <1>7 DEF LogReplaysToTheSession, ReplayIs

LEMMA RejectionsStandByInv == ASSUME StorySound, SessionInv PROVE RejectedNeverRecorded
<1>1. /\ log \in Seq(LogRows) /\ log[1].key = None /\ rejected \subseteq 1..sent
      /\ \A key \in rejected : Settled(key)
  BY DEF SessionInv, LogInv, RejectionsInv
<1>2. ASSUME NEW e \in Range(log), e.key \in rejected PROVE FALSE
  <2>1. PICK i \in 1..Len(log) : e = log[i]
    BY <1>1 DEF Range
  <2>2. e.key \in 1..sent /\ Settled(e.key)
    BY <1>1, <1>2
  <2>3. i # 1
    BY <1>1, <2>1, <2>2, ReaderAssumption
  <2>4. i \in 2..Len(log)
    BY <2>1, <2>3
  <2> QED
    BY <2>1, <2>2, <2>4 DEF Settled
<1> QED
  BY <1>2 DEF RejectedNeverRecorded

LEMMA TabsKeepUpByInv ==
    ASSUME StorySound, SessionInv PROVE CommandsBuildOnTheLatest /\ NeverInconsistent
<1>1. ASSUME NEW t \in Tabs, tabs[t].command # None
      PROVE  /\ tabs[t].command.phase # "inconsistent"
             /\ tabs[t].command.phase = "submitting" => tabs[t].command.request.revision >= tabs[t].learned
  <2>1. PICK tab, c : tab = tabs[t] /\ c = tabs[t].command
    OBVIOUS
  <2>2. TabGood(tab, session.state.revision) /\ TabForm(tab, session.state.revision)
    BY <2>1, TabFacts
  <2>3. /\ tab.learned \in Nat /\ c.request.revision \in Nat
        /\ PendingGood(c, tab.learned, session.state.revision)
    BY <1>1, <2>1, <2>2 DEF TabForm, TabGood
  <2>4. c.phase # "inconsistent" /\ (c.phase = "submitting" => c.request.revision >= tab.learned)
    BY <2>3 DEF PendingGood
  <2> QED
    BY <2>1, <2>4
<1> QED
  BY <1>1 DEF CommandsBuildOnTheLatest, NeverInconsistent

\* Every response a player was given stays the view of the recorded story: the events
\* replay to the session row, and each response is the view of the state after its
\* event (commitChoice, appendEvent).
THEOREM LogIsTheStory ==
    ASSUME StorySound PROVE SessionSpec => [](SessionTypeOK /\ LogReplaysToTheSession)
<1>1. SessionInv => SessionTypeOK /\ LogReplaysToTheSession
  BY LogGoodByInv
<1> QED
  BY <1>1, SessionInvariant, PTL

\* A choice a player was told was not applied is never recorded afterwards, by no
\* attempt of it that is still under way (the key is looked up under the row lock).
THEOREM RejectionsStand == ASSUME StorySound PROVE SessionSpec => []RejectedNeverRecorded
<1>1. SessionInv => RejectedNeverRecorded
  BY RejectionsStandByInv
<1> QED
  BY <1>1, SessionInvariant, PTL

\* A first attempt builds on what its tab has learned, and no reader has to say that its
\* action could not be matched (failCommand, requestSync, applyView).
THEOREM TabsKeepUp ==
    ASSUME StorySound PROVE SessionSpec => [](CommandsBuildOnTheLatest /\ NeverInconsistent)
<1>1. SessionInv => CommandsBuildOnTheLatest /\ NeverInconsistent
  BY TabsKeepUpByInv
<1> QED
  BY <1>1, SessionInvariant, PTL

\* No late answer takes a reader back to an older revision (applyView).
THEOREM ReadersGoForward == ASSUME StorySound PROVE SessionSpec => NeverBackwards
<1>1. ASSUME SessionInv, BudgetInv, [SessionNext]_sessionVars
      PROVE  [\A t \in Tabs : tabs[t].view # None /\ tabs'[t].view # None =>
                 tabs'[t].view.revision >= tabs[t].view.revision]_sessionVars
  <2>1. Onward /\ SessionInv'
    BY <1>1, SessionNext_Inv
  <2>2. ASSUME NEW t \in Tabs, tabs[t].view # None, tabs'[t].view # None
        PROVE  tabs'[t].view.revision >= tabs[t].view.revision
    <3>1. Forward(tabs'[t], tabs[t])
      BY <2>1 DEF Onward
    <3>2. tabs[t].view.revision <= tabs'[t].view.revision
      BY <2>2, <3>1 DEF Forward
    <3> QED
      BY <3>2
  <2> QED
    BY <2>2
<1> QED
  BY <1>1, SessionInvariant, PTL DEF SessionSpec, NeverBackwards

\* A commit that starts on a removed session is refused, under the row lock that the
\* removal takes as well.
LEMMA RemovedStays ==
    ASSUME session.removed, [SessionNext]_sessionVars PROVE UNCHANGED <<log, session>>
<1>1. ASSUME NEW h \in handlers, CommitChoice(h) PROVE UNCHANGED <<log, session>>
  <2>1. Committed(h) = [error |-> "SESSION_NOT_FOUND"]
    BY DEF Committed, Error
  <2>2. "stored" \notin DOMAIN Committed(h)
    BY <2>1
  <2> QED
    BY <1>1, <2>2 DEF CommitChoice
<1>2. ~RemoveSession
  BY DEF RemoveSession
<1>3. ASSUME NEW h \in handlers, PrepareChoice(h) \/ RefuseLogin(h) \/ LockTimeout(h) \/ LoseHandler(h)
      PROVE  UNCHANGED <<log, session>>
  BY <1>3 DEF PrepareChoice, RefuseLogin, LockTimeout, LoseHandler
<1>4. ASSUME NEW t, ReaderStep(t) \/ FocusRead(t) \/ ReloadTab(t) PROVE UNCHANGED <<log, session>>
  BY <1>4 DEF ReaderStep, FocusRead, ReloadTab, ReceiveAnswer, SendFails, RetryCommand, Send, RetryRead, ServeRead,
              ReceiveRead
<1>5. ASSUME NEW t, NEW choice, SubmitChoice(t, choice) PROVE UNCHANGED <<log, session>>
  BY <1>5 DEF SubmitChoice, Send
<1>6. CASE UNCHANGED sessionVars
  BY <1>6 DEF sessionVars
<1> QED
  BY <1>1, <1>2, <1>3, <1>4, <1>5, <1>6 DEF SessionNext, HandlerStep

\* Removal and choices serialise on the session row: no event follows a removal.
THEOREM NothingFollowsRemoval == SessionSpec => NothingAfterRemoval
<1>1. [SessionNext]_sessionVars => [session.removed => UNCHANGED <<log, session>>]_sessionVars
  BY RemovedStays
<1> QED
  BY <1>1, PTL DEF SessionSpec, NothingAfterRemoval

=============================================================================
