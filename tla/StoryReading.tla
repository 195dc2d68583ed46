------------------------------ MODULE StoryReading ------------------------------
(***************************************************************************)
(* What a player reads around an interactive story: the artwork and title  *)
(* of the scene on screen (use-scene-presentation, use-session-metadata),  *)
(* and the transcript of a finished story with its artwork                 *)
(* (transcript.ts, use-interactive-transcript, use-transcript-artwork).    *)
(* All of it is asynchronous decoration of the text: an answer is only     *)
(* used for the exact scope it was requested for.                          *)
(*                                                                         *)
(* The session follows Route through Story; damage says which of its       *)
(* stored events were lost or exchanged, the case transcript.ts refuses.   *)
(* epoch stands for the account and login every scope is bound to, pack    *)
(* for the presentation pack published at the moment (it is not pinned).   *)
(***************************************************************************)
EXTENDS StoryRules

CONSTANTS Tale, Route,       \* the pinned scenario and the choices that end it
          NoPack,            \* model value: no presentation pack is published
          PageSize,          \* TRANSCRIPT_PAGE_SIZE
          MaxArtInFlight,    \* MAX_ARTWORK_REQUESTS_IN_FLIGHT
          MaxArtRetries,     \* MAX_ILLUSTRATION_RETRIES, MAX_ARTWORK_METADATA_RETRIES
          ReadingBudgets     \* bounds: [live, damage, failures, rebinds, removals, packs]; a
                             \* story is finished, or played to revision live meanwhile

VARIABLES sessionRow,      \* the stored session: revision, removed, damage, and its
                       \* events, of which revision + 1 are stored so far
          pack, epoch,
          screen,     \* the revision the reader displays, manual artwork retries
          hooks,      \* "art" and "title": live request and settled answer
          book,       \* the transcript hook
          pictures,   \* the artwork engine: an entry per accepted text page
          inFlight,   \* its counter of live requests
          readingBudget

readingVars == <<sessionRow, pack, epoch, screen, hooks, book, pictures, inFlight, readingBudget>>
serverVars == <<sessionRow, pack>>
transcriptVars == <<book, pictures, inFlight>>

End == Len(Route)
Play == FoldLeft(LAMBDA play, choice : Append(play, Chosen(Last(play), choice, Tale)),
                 <<InitialState(Tale)>>, Route)
Views == FoldLeft(LAMBDA views, state :
                    Append(views, PublicView("s", Tale, state, Narration(Tale, state))), <<>>, Play)
StateAt(n) == Play[n + 1]
ViewAt(n) == Views[n + 1]

SpendReading(what) == readingBudget[what] > 0 /\ readingBudget' = [readingBudget EXCEPT ![what] = @ - 1]
Failure == SpendReading("failures")
Live == readingBudget.live > 0
Panels(p, scene) == <<p, scene>>

NoHook == [request |-> None, settled |-> None]
EmptyBook == [phase |-> "loading", chapters |-> <<>>, pages |-> <<>>, cursor |-> None,
              completed |-> None, request |-> [cursor |-> None, reply |-> None], failure |-> "none"]
IdleBook == [EmptyBook EXCEPT !.request = None]

\* session_events as stored: a row may be lost, hold the response of another
\* revision or a choice that was not offered.
StoredRow(n, damage) ==
    LET hit == Len(damage) > 1 /\ damage[2] = n
    IN  IF hit /\ damage[1] = "lost" THEN None
        ELSE [response |-> ViewAt(IF hit /\ damage[1] = "response" THEN damage[3] ELSE n),
              choice |-> IF n = 0 THEN None
                         ELSE IF hit /\ damage[1] = "choice" THEN damage[3] ELSE Route[n],
              from |-> IF n = 0 THEN None ELSE StateAt(n - 1).scene]
Row(n) == sessionRow.events[n]

ReadingInit ==
    /\ readingBudget \in ReadingBudgets
    /\ \E damage \in readingBudget.damage :
         sessionRow = [revision |-> IF Live THEN 0 ELSE End, removed |-> FALSE, damage |-> damage,
                       events |-> [n \in 0..End |-> StoredRow(n, damage)]]
    /\ pack \in {NoPack, 1} /\ epoch = 1
    /\ screen = [revision |-> 0, retries |-> 0]
    /\ hooks = [h \in {"art", "title"} |-> NoHook]
    /\ book = IF Live THEN IdleBook ELSE EmptyBook
    /\ pictures = <<>> /\ inFlight = 0

----------------------------------------------------------------------------
(* The server's reads. *)

\* getPresentation and getSessionMetadata.
HookAnswer(h, request) ==
    IF sessionRow.removed THEN Error("SESSION_NOT_FOUND")
    ELSE IF h = "title" THEN [story |-> Identity(Tale), title |-> Tale.title]
    ELSE IF Row(sessionRow.revision) = None THEN Error("SESSION_STATE_INVALID")
    ELSE LET view == Row(sessionRow.revision).response
         IN  IF view.revision # request.revision THEN Error("REVISION_CONFLICT")
             ELSE [story |-> view.story, revision |-> view.revision, scene |-> view.scene,
                   panels |-> IF pack = NoPack THEN None ELSE Panels(pack, view.scene)]

\* readStep: the event is there and its response is of this position.
StepReadable(n) == Row(n) # None /\ Row(n).response.revision = n

Window(from) == [lo |-> IF from > 0 THEN from - 1 ELSE 0,
                 hi |-> IF from + PageSize - 1 < sessionRow.revision THEN from + PageSize - 1
                        ELSE sessionRow.revision]
\* Mutant: the label is looked up without asking whether the choice was offered.
OfferedUnchecked(n) == Row(n - 1).response.scene = Row(n).from
Offered(n) == Row(n - 1).response.scene = Row(n).from
              /\ Row(n).choice \in Range(Row(n - 1).response.choices)
EndsWhere(n) == (Row(n).response.status = "ended") <=> n = sessionRow.revision
Step(n) ==
    [revision |-> Row(n).response.revision, scene |-> Row(n).response.scene, text |-> Row(n).response.narration,
     label |-> Row(n).choice, ending |-> Row(n).response.ending]

\* Mutant: the next page starts at the last step of this one.
NextCursorOverlaps(hi) == IF hi < sessionRow.revision
                          THEN [completed |-> sessionRow.revision, next |-> hi] ELSE None
NextCursor(hi) == IF hi < sessionRow.revision THEN [completed |-> sessionRow.revision, next |-> hi + 1]
                  ELSE None

\* buildTranscriptPage.
PageFrom(from) ==
    LET w == Window(from)
    IN  IF ~(\A n \in w.lo..w.hi : StepReadable(n)) THEN Error("SESSION_STATE_INVALID")
        ELSE IF ~(\A n \in w.lo..w.hi : EndsWhere(n)) \/ ~(\A n \in (from..w.hi) \ {0} : Offered(n))
        THEN Error("SESSION_STATE_INVALID")
        ELSE [completed |-> sessionRow.revision, next |-> NextCursor(w.hi),
              steps |-> [i \in 1..(w.hi - from + 1) |-> Step(from + i - 1)]]

\* getTranscript.
TranscriptAnswer(cursor) ==
    IF sessionRow.removed THEN Error("SESSION_NOT_FOUND")
    ELSE IF ~StepReadable(sessionRow.revision) THEN Error("SESSION_STATE_INVALID")
    ELSE IF Row(sessionRow.revision).response.status # "ended" THEN Error("SESSION_NOT_COMPLETED")
    ELSE IF cursor # None /\ cursor.completed # sessionRow.revision THEN Error("INVALID_REQUEST")
    ELSE PageFrom(IF cursor = None THEN 0 ELSE cursor.next)

\* getTranscriptPresentation: the artwork of exactly that text page.
ArtAnswer(cursor) ==
    LET page == TranscriptAnswer(cursor)
    IN  IF IsError(page) THEN page
        ELSE [completed |-> page.completed, next |-> page.next,
              steps |-> [i \in DOMAIN page.steps |->
                 [revision |-> page.steps[i].revision, scene |-> page.steps[i].scene,
                  panels |-> IF pack = NoPack THEN None ELSE Panels(pack, page.steps[i].scene)]]]

----------------------------------------------------------------------------
(* The world around the reader. *)

PlayOn ==
    /\ Live /\ ~sessionRow.removed /\ sessionRow.revision < readingBudget.live
    /\ sessionRow' = [sessionRow EXCEPT !.revision = @ + 1]
    /\ UNCHANGED <<pack, epoch, screen, hooks, transcriptVars, readingBudget>>

RemoveStory ==
    /\ ~sessionRow.removed /\ SpendReading("removals")
    /\ sessionRow' = [sessionRow EXCEPT !.removed = TRUE]
    /\ UNCHANGED <<pack, epoch, screen, hooks, transcriptVars>>

PublishPack ==
    /\ SpendReading("packs") /\ pack' = IF pack = NoPack THEN 1 ELSE pack + 1
    /\ UNCHANGED <<sessionRow, epoch, screen, hooks, transcriptVars>>

\* Another login: every scope key changes in the same render.
Rebind ==
    /\ SpendReading("rebinds") /\ epoch' = epoch + 1
    /\ book' = IF Live THEN IdleBook ELSE EmptyBook
    /\ pictures' = <<>> /\ inFlight' = 0
    /\ UNCHANGED <<sessionRow, pack, screen, hooks>>

ShowNext ==
    /\ Live /\ screen.revision < sessionRow.revision
    /\ screen' = [revision |-> screen.revision + 1, retries |-> 0]
    /\ UNCHANGED <<sessionRow, pack, epoch, hooks, transcriptVars, readingBudget>>

----------------------------------------------------------------------------
(* The hooks beside the reader: scene artwork and title. *)

Scope(h) ==
    IF h = "title" THEN [epoch |-> epoch, story |-> Identity(Tale)]
    ELSE [epoch |-> epoch, story |-> Identity(Tale), revision |-> screen.revision,
          scene |-> ViewAt(screen.revision).scene, retries |-> screen.retries]

\* The effect: whatever was requested for another scope is invalidated.
RunEffect(h) ==
    LET hook == hooks[h]
    IN  /\ Live
        /\ IF hook.request = None THEN hook.settled # None => hook.settled.key # Scope(h)
           ELSE hook.request.key # Scope(h)
        /\ hooks' = [hooks EXCEPT ![h].request = [key |-> Scope(h), reply |-> None]]
        /\ UNCHANGED <<serverVars, epoch, screen, transcriptVars, readingBudget>>

ServeHook(h) ==
    /\ hooks[h].request # None /\ hooks[h].request.reply = None
    /\ hooks' = [hooks EXCEPT ![h].request.reply = HookAnswer(h, hooks[h].request.key)]
    /\ UNCHANGED <<serverVars, epoch, screen, transcriptVars, readingBudget>>

\* What an answer is worth to the scope it was requested for.
Outcome(h, key, reply) ==
    IF IsError(reply)
    THEN [status |-> IF reply.error \in {"REVISION_CONFLICT", "SESSION_NOT_FOUND"} \/ h = "title"
                     THEN "none" ELSE "error", value |-> None]
    ELSE IF reply.story # key.story \/ (h = "art" /\
            (<<reply.revision, reply.scene>> # <<key.revision, key.scene>> \/ reply.panels = None))
    THEN [status |-> "none", value |-> None]
    ELSE [status |-> "ready", value |-> IF h = "title" THEN reply.title ELSE reply.panels]

\* Settled with the key of the request; the epoch and the effect guard it too.
SettleHook(h) ==
    LET request == hooks[h].request
    IN  /\ request # None
        /\ \E reply \in {request.reply, Error("NETWORK")} :
             /\ reply # None
             /\ IF reply = Error("NETWORK") THEN Failure ELSE UNCHANGED readingBudget
             /\ hooks' = [hooks EXCEPT ![h] =
                   [request |-> None,
                    settled |-> IF request.key.epoch # epoch THEN @.settled
                                ELSE [key |-> request.key,
                                      outcome |-> Outcome(h, request.key, reply)]]]
        /\ UNCHANGED <<serverVars, epoch, screen, transcriptVars>>

\* Mutant: the last settled answer is rendered, whatever it was requested for.
ShownByLast(h) == IF hooks[h].settled # None THEN hooks[h].settled.outcome
                  ELSE [status |-> "loading", value |-> None]
\* Rendered only while the scope it was requested for is the displayed one.
Shown(h) == IF hooks[h].settled # None /\ hooks[h].settled.key = Scope(h)
            THEN hooks[h].settled.outcome ELSE [status |-> "loading", value |-> None]

RetryArtwork ==
    /\ Shown("art").status = "error" /\ screen.retries < MaxArtRetries
    /\ screen' = [screen EXCEPT !.retries = @ + 1]
    /\ UNCHANGED <<serverVars, epoch, hooks, transcriptVars, readingBudget>>

----------------------------------------------------------------------------
(* The transcript hook. *)

\* loadNext: single flight; a failed cursor is asked for again.
LoadNext ==
    /\ ~Live /\ book.request = None /\ book.phase \in {"error", "ready"}
    /\ book.chapters = <<>> \/ book.cursor # None
    /\ book' = [book EXCEPT !.failure = "none", !.request =
                  [cursor |-> IF book.chapters = <<>> THEN None ELSE book.cursor, reply |-> None]]
    /\ UNCHANGED <<serverVars, epoch, screen, hooks, pictures, inFlight, readingBudget>>

ServePage ==
    /\ book.request # None /\ book.request.reply = None
    /\ book' = [book EXCEPT !.request.reply = TranscriptAnswer(book.request.cursor)]
    /\ UNCHANGED <<serverVars, epoch, screen, hooks, pictures, inFlight, readingBudget>>

\* checkTranscriptPage: the page continues exactly where the history ends.
PageFits(page, request) ==
    LET next == Len(book.chapters)
        steps == page.steps
        last == steps[Len(steps)].revision
    IN  /\ book.completed \in {None, page.completed}
        /\ Len(steps) \in 1..PageSize
        /\ \A i \in DOMAIN steps :
             /\ steps[i].revision = next + i - 1 /\ steps[i].revision <= page.completed
             /\ (steps[i].revision = 0) <=> (steps[i].label = None)
             /\ (steps[i].revision = page.completed) <=> (steps[i].ending # None)
        /\ IF last = page.completed THEN page.next = None
           ELSE /\ page.next # None /\ page.next # request.cursor
                /\ \A p \in Range(book.pages) : p.cursor = None \/ p.cursor # page.next

PageFailed(b, failure) ==
    [b EXCEPT !.request = None, !.failure = failure,
              !.phase = IF b.chapters = <<>> THEN "error" ELSE b.phase]

\* Each accepted page is frozen with the request it was fetched with.
Accepted(b, page) ==
    [b EXCEPT !.phase = "ready", !.chapters = @ \o page.steps, !.cursor = page.next,
              !.completed = page.completed, !.request = None, !.failure = "none",
              !.pages = Append(@, [cursor |-> b.request.cursor, next |-> page.next,
                                   completed |-> page.completed,
                                   revisions |-> [i \in DOMAIN page.steps |-> page.steps[i].revision],
                                   scenes |-> [i \in DOMAIN page.steps |-> page.steps[i].scene]])]

----------------------------------------------------------------------------
(* The artwork engine of the transcript. *)

Queued == [status |-> "queued", retries |-> 0, steps |-> None, request |-> None]

\* pump: queued entries start in page order while fewer than the limit are live.
Pump(entries, live) ==
    LET waiting == {i \in DOMAIN entries : entries[i].status = "queued"}
        starts == {i \in waiting : Cardinality({j \in waiting : j < i}) + live < MaxArtInFlight}
    IN  [entries |-> [i \in DOMAIN entries |->
            IF i \in starts THEN [entries[i] EXCEPT !.status = "loading", !.steps = None,
                                                    !.request = [reply |-> None]]
            ELSE entries[i]],
         live |-> live + Cardinality(starts)]

\* engine.sync: an entry for every accepted page.
Follow(pages) ==
    LET pumped == Pump(pictures \o [i \in 1..(Len(pages) - Len(pictures)) |-> Queued], inFlight)
    IN  pictures' = pumped.entries /\ inFlight' = pumped.live

ReceivePage ==
    LET request == book.request
    IN  /\ request # None
        /\ \E reply \in {request.reply, Error("NETWORK"), Error("RATE_LIMITED")} :
             /\ reply # None
             /\ IF reply = request.reply THEN UNCHANGED readingBudget ELSE Failure
             /\ \/ /\ ~IsError(reply) /\ PageFits(reply, request)
                   /\ book' = Accepted(book, reply) /\ Follow(book'.pages)
                \/ /\ ~IsError(reply) /\ ~PageFits(reply, request)
                   /\ book' = PageFailed(book, "inconsistent") /\ UNCHANGED <<pictures, inFlight>>
                \/ /\ IsError(reply)
                   /\ book' = CASE reply.error = "SESSION_NOT_FOUND" ->
                                     [IdleBook EXCEPT !.phase = "unavailable"]
                                [] reply.error = "SESSION_NOT_COMPLETED" ->
                                     [IdleBook EXCEPT !.phase = "not-completed"]
                                [] reply.error = "RATE_LIMITED" -> PageFailed(book, "rate-limited")
                                [] OTHER -> PageFailed(book, "failed")
                   /\ IF book'.pages = <<>> THEN pictures' = <<>> /\ inFlight' = 0
                      ELSE UNCHANGED <<pictures, inFlight>>
        /\ UNCHANGED <<serverVars, epoch, screen, hooks>>

ServeArt(i) ==
    /\ pictures[i].request # None /\ pictures[i].request.reply = None
    /\ pictures' = [pictures EXCEPT ![i].request.reply = ArtAnswer(book.pages[i].cursor)]
    /\ UNCHANGED <<serverVars, epoch, screen, hooks, book, inFlight, readingBudget>>

\* checkTranscriptArtwork: everything of the text page, or nothing of the answer.
ArtFits(art, page) ==
    /\ art.completed = page.completed /\ art.next = page.next
    /\ [i \in DOMAIN art.steps |-> art.steps[i].revision] = page.revisions
    /\ [i \in DOMAIN art.steps |-> art.steps[i].scene] = page.scenes

ArtOutcome(reply, page) ==
    IF IsError(reply)
    THEN [status |-> IF reply.error \in {"SESSION_NOT_FOUND", "SESSION_NOT_COMPLETED"} THEN "none"
                     ELSE "error", steps |-> None]
    ELSE IF ~ArtFits(reply, page) THEN [status |-> "none", steps |-> None]
    ELSE [status |-> IF \A i \in DOMAIN reply.steps : reply.steps[i].panels = None THEN "none"
                     ELSE "ready",
          steps |-> [i \in DOMAIN reply.steps |-> reply.steps[i].panels]]

Concluded(i, reply) ==
    LET outcome == ArtOutcome(reply, book.pages[i])
    IN  [pictures EXCEPT ![i].status = outcome.status, ![i].steps = outcome.steps,
                         ![i].request = None]

\* Mutant: a finished request does not start the next one.
SettleUnpumped(i, reply) ==
    pictures' = Concluded(i, reply) /\ inFlight' = inFlight - 1
\* settle: release once, then pump.
Settle(i, reply) ==
    LET pumped == Pump(Concluded(i, reply), inFlight - 1)
    IN  pictures' = pumped.entries /\ inFlight' = pumped.live

\* An answer, or the deadline of the request.
FinishArt(i) ==
    /\ pictures[i].request # None
    /\ \E reply \in {pictures[i].request.reply, Error("NETWORK")} :
         /\ reply # None /\ Settle(i, reply)
         /\ IF reply = pictures[i].request.reply THEN UNCHANGED readingBudget ELSE Failure
    /\ UNCHANGED <<serverVars, epoch, screen, hooks, book>>

\* Mutants: retries are not counted, or started beside the pump.
RetryPageArtUnbounded(i) ==
    /\ pictures[i].status = "error"
    /\ LET pumped == Pump([pictures EXCEPT ![i].retries = @ + 1, ![i].status = "queued"], inFlight)
       IN  pictures' = pumped.entries /\ inFlight' = pumped.live
    /\ UNCHANGED <<serverVars, epoch, screen, hooks, book, readingBudget>>
RetryPageArtAtOnce(i) ==
    /\ pictures[i].status = "error" /\ pictures[i].retries < MaxArtRetries
    /\ pictures' = [pictures EXCEPT ![i].retries = @ + 1, ![i].status = "loading",
                                    ![i].request = [reply |-> None]]
    /\ inFlight' = inFlight + 1
    /\ UNCHANGED <<serverVars, epoch, screen, hooks, book, readingBudget>>
RetryPageArt(i) ==
    /\ pictures[i].status = "error" /\ pictures[i].retries < MaxArtRetries
    /\ LET pumped == Pump([pictures EXCEPT ![i].retries = @ + 1, ![i].status = "queued"], inFlight)
       IN  pictures' = pumped.entries /\ inFlight' = pumped.live
    /\ UNCHANGED <<serverVars, epoch, screen, hooks, book, readingBudget>>

----------------------------------------------------------------------------
ReadingStep ==
    \/ \E h \in {"art", "title"} : RunEffect(h) \/ ServeHook(h) \/ SettleHook(h)
    \/ LoadNext \/ ServePage \/ ReceivePage
    \/ \E i \in DOMAIN pictures : ServeArt(i) \/ FinishArt(i)

ReadingNext ==
    \/ ReadingStep \/ PlayOn \/ RemoveStory \/ PublishPack \/ Rebind \/ ShowNext \/ RetryArtwork
    \/ \E i \in DOMAIN pictures : RetryPageArt(i)

\* Requests are answered or time out, and the player keeps asking for the next
\* page while one is offered; failures are finitely many.
ReadingFairness ==
    /\ WF_readingVars(\E h \in {"art", "title"} : RunEffect(h) \/ ServeHook(h) \/ SettleHook(h))
    /\ WF_readingVars(LoadNext \/ ServePage \/ ReceivePage)
    /\ WF_readingVars(\E i \in DOMAIN pictures : ServeArt(i) \/ FinishArt(i))

----------------------------------------------------------------------------
(* Properties. *)

ReadingTypeOK ==
    /\ book.phase \in {"loading", "ready", "error", "unavailable", "not-completed"}
    /\ Len(pictures) = Len(book.pages)
    /\ \A i \in DOMAIN pictures :
         /\ pictures[i].status \in {"queued", "loading", "ready", "none", "error"}
         /\ pictures[i].retries \in 0..MaxArtRetries

\* Artwork of one scene never stands under the text of another, however late it
\* arrives and whatever pack was published meanwhile.
ArtworkFitsTheScene ==
    Shown("art").status = "ready" =>
        \E p \in {pack, 1} \ {NoPack} : Shown("art").value = Panels(p, ViewAt(screen.revision).scene)

\* The chapters shown are the play, from its first scene on, each with the choice
\* that led to it: no gap, repetition or mixture, also over damaged events.
ChaptersAreThePlay ==
    \A n \in DOMAIN book.chapters :
        book.chapters[n] =
            [revision |-> n - 1, scene |-> StateAt(n - 1).scene, text |-> ViewAt(n - 1).narration,
             label |-> IF n = 1 THEN None ELSE Route[n - 1], ending |-> ViewAt(n - 1).ending]

\* A chapter's panels are of its scene, and the requests that fetch them are
\* counted exactly and limited.
ChapterArtBounded ==
    /\ \A i \in DOMAIN pictures : pictures[i].status = "ready" =>
         \A k \in DOMAIN pictures[i].steps :
            \E p \in 1..2 : pictures[i].steps[k] = Panels(p, StateAt(book.pages[i].revisions[k]).scene)
    /\ inFlight = Cardinality({i \in DOMAIN pictures : pictures[i].request # None})
    /\ inFlight <= MaxArtInFlight

\* A finished, undamaged story can be reread to its end, artwork requests all
\* settle, and no server page is one the client refuses.
Fetching == \E i \in DOMAIN pictures : pictures[i].status \in {"queued", "loading"}
TranscriptCompletes ==
    []<>(/\ book.phase # "loading" /\ sessionRow.damage = <<"intact">>
            => sessionRow.removed \/ Live \/ Len(book.chapters) = End + 1
         /\ ~Fetching)

\* Artwork, titles and chapters on screen belong to the text beside them, and what
\* an undamaged story has of them arrives.
DecorationFitsTheText ==
    /\ [](ReadingTypeOK /\ ArtworkFitsTheScene /\ ChaptersAreThePlay /\ ChapterArtBounded)
    /\ TranscriptCompletes

=============================================================================
