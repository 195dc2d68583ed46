------------------------------- MODULE BookPage -------------------------------
(***************************************************************************)
(* The page of one book in a browser tab, against the books API: the       *)
(* coordinator of its requests (first load, progress polling, "Refresh     *)
(* status"), the mutations a reader can click, and the reader of the       *)
(* published book, which downloads one illustration at a time by edition   *)
(* and follows the regeneration of a page's illustration.                  *)
(*                                                                         *)
(* Requests are answered at the server at one moment and received at       *)
(* another; either way they may fail.  Another tab works on the same book. *)
(* The server's own rules of runs and revisions are those of the modules   *)
(* GenerationRun and PageRevision; here a run or a revision just ends.     *)
(* The book has a cover and one page.                                      *)
(***************************************************************************)
EXTENDS Naturals, FiniteSets, TLC

CONSTANTS PageBudgets    \* bounds: [first, starts, cancels, saves, texts, revisions, refreshes,
                         \* turns, tabs, faults, sleeps]: the book's first status, and how often
                         \* the reader, another tab, the network and the browser do what

VARIABLES row,        \* the book's row: [status, at, edition, text, version, art]
          artOf,      \* edition -> its illustrations (history)
          revisions,  \* page-image revisions of the page
          net,        \* request -> [st, ok, code, row, rev]
          shown,      \* bookRef: the book the page holds
          drawn,      \* the book of the last React commit
          view,       \* [page, editing]: loading, open or failed; the edit form is open
          loop,       \* the polling effect: "off", "timer", "asking", "reading", "idle", "done"
          reader,     \* PublishedBookReader: [slide, image, quote, watching, stored, reload]
          awake,      \* the tab is visible and online
          overtaken,  \* a run began between the loop's two reads (history)
          pageBudget

pageVars == <<row, artOf, revisions, net, shown, drawn, view, loop, reader, awake, overtaken,
              pageBudget>>
serverVars == <<row, artOf, revisions>>
browserVars == <<shown, drawn, view, loop, reader, awake>>

Slides == {"cover", "page"}
Fetches == {"load", "refresh", "progress", "full", "recancel"}
Mutations == {"start", "cancel", "save", "text"}
Requests == Fetches \cup Mutations \cup {"quote", "confirm", "watch", "image"}

NoBook == [status |-> "none", at |-> 0, edition |-> 0, text |-> 0, version |-> 0,
           art |-> [s \in Slides |-> 0]]
FreshReader == [slide |-> "cover", image |-> 0, quote |-> 0, watching |-> 0, stored |-> 0, reload |-> FALSE]
Unchanged == [f \in {} |-> 0]
NoRequest == [st |-> "idle", ok |-> FALSE, code |-> "", row |-> NoBook, rev |-> 0]
Settled(status) == status \in {"complete", "failed", "cancelled"}
Generating(status) == status \in {"planning", "drawing"}
SpendPage(what) == pageBudget[what] > 0 /\ pageBudget' = [pageBudget EXCEPT ![what] = @ - 1]

\* The tab has just been opened; effects have run, the first load is on its way.
PageInit ==
    /\ pageBudget \in PageBudgets
    /\ \E e \in {IF pageBudget.first = "complete" THEN 1 ELSE 0} :
          row = [status |-> pageBudget.first, at |-> 1, edition |-> e, text |-> e, version |-> e,
                 art |-> [s \in Slides |-> e]]
    /\ artOf = (row.edition :> row.art)
    /\ revisions = [r \in 1..pageBudget.revisions |-> [status |-> "none", at |-> 0]]
    /\ net = [k \in Requests |-> IF k = "load" THEN [NoRequest EXCEPT !.st = "sent"] ELSE NoRequest]
    /\ shown = NoBook /\ drawn = NoBook /\ loop = "off" /\ awake = TRUE /\ overtaken = FALSE
    /\ view = [page |-> "loading", editing |-> FALSE]
    /\ reader = FreshReader

----------------------------------------------------------------------------
(* The server. *)

ActiveRevision == {r \in DOMAIN revisions : revisions[r].status = "running"}
Revise(r, status) == revisions' = [revisions EXCEPT ![r].status = status]

Touch(fields) == row' = fields @@ [row EXCEPT !.at = @ + 1]

\* A publication gives the book a new edition, drawn anew where the slides say so.
Publish(slides, fields) ==
    LET e == row.edition + 1
        art == [s \in Slides |-> IF s \in slides THEN e ELSE row.art[s]]
    IN Touch(fields @@ [edition |-> e, art |-> art]) /\ artOf' = (e :> art) @@ artOf

StartableFrom(code) ==
    CASE code = "generate" -> {"created"}
      [] code = "retry" -> {"failed"}
      [] code = "regenerate" -> {"failed", "complete", "cancelled"}

\* What the API does with a request; rejected and unread requests change nothing.
CanStart(code) == row.status \in StartableFrom(code) /\ ActiveRevision = {}
CanEditText(version) == row.status = "complete" /\ ActiveRevision = {} /\ row.version = version
IsQuoted(r) == revisions[r].status = "quoted"
CanConfirm(r) == row.status = "complete" /\ row.at = revisions[r].at /\ ActiveRevision = {}

Accepts(k, q) ==
    CASE k = "start" -> CanStart(q.code)
      [] k = "cancel" -> Generating(row.status)
      [] k = "save" -> ~Generating(row.status)
      [] k = "text" -> CanEditText(q.row.version)
      [] k = "quote" -> CanEditText(q.row.version)
      [] k = "confirm" -> IsQuoted(q.rev) => CanConfirm(q.rev)
      [] OTHER -> TRUE

Effect(k, q) ==
    CASE k = "start" -> Touch([status |-> "planning"]) /\ UNCHANGED <<artOf, revisions>>
      [] k = "cancel" -> Touch([status |-> "cancelled"]) /\ UNCHANGED <<artOf, revisions>>
      [] k = "save" -> Touch(Unchanged) /\ UNCHANGED <<artOf, revisions>>
      [] k = "text" -> Publish({}, [text |-> row.text + 1, version |-> row.version + 1]) /\ UNCHANGED revisions
      [] k = "quote" -> /\ revisions' = [revisions EXCEPT ![q.rev] = [status |-> "quoted", at |-> row.at]]
                        /\ UNCHANGED <<row, artOf>>
      [] k = "confirm" /\ IsQuoted(q.rev) ->
            /\ Revise(q.rev, "running")
            /\ Touch(Unchanged) /\ UNCHANGED artOf
      [] OTHER -> UNCHANGED serverVars

\* The rejections the page tells apart: the code of a cancelled and of an ended book.
Rejection(k) ==
    IF k # "cancel" THEN "conflict"
    ELSE IF row.status = "cancelled" THEN "BOOK_ALREADY_CANCELLED" ELSE "BOOK_NOT_IN_PROGRESS"

\* The request reaches the server, which may fail to answer it.
Serve(k) ==
    LET q == net[k] IN
    /\ q.st = "sent" /\ k # "image"
    /\ IF Accepts(k, q) THEN Effect(k, q) ELSE UNCHANGED serverVars
    /\ \/ /\ net' = [net EXCEPT ![k] =
                [q EXCEPT !.st = "back", !.ok = Accepts(k, q), !.row = row',
                          !.code = IF ~Accepts(k, q) THEN Rejection(k)
                                   ELSE IF k \in {"confirm", "watch"} THEN revisions'[q.rev].status
                                   ELSE "ok"]]
          /\ UNCHANGED pageBudget
       \/ /\ SpendPage("faults")
          /\ net' = [net EXCEPT ![k] = [q EXCEPT !.st = "back", !.ok = FALSE, !.code = "error"]]
    /\ UNCHANGED <<browserVars, overtaken>>

\* getPublishedImage: the edition is compared with the row, then the key is
\* resolved and the bytes read, and the edition is compared once more.
CurrentEdition(e) == e = row.edition

ImageChecked ==
    /\ net.image.st = "sent"
    /\ net' = [net EXCEPT !.image.st = IF CurrentEdition(net.image.row.edition) THEN "checked" ELSE "back"]
    /\ UNCHANGED <<serverVars, browserVars, overtaken, pageBudget>>

\* The cover's key follows from the checked edition; the page's override is read now.
ImageRead ==
    /\ net.image.st = "checked"
    /\ LET s == net.image.code IN
       net' = [net EXCEPT !.image.st = "read",
                          !.image.rev = IF s = "cover" THEN artOf[net.image.row.edition][s] ELSE row.art[s]]
    /\ UNCHANGED <<serverVars, browserVars, overtaken, pageBudget>>

\* Mutant: the edition is not compared again after the bytes were read.
ImageServedUnchecked ==
    /\ net.image.st = "read"
    /\ net' = [net EXCEPT !.image.st = "back", !.image.ok = TRUE]
    /\ UNCHANGED <<serverVars, browserVars, overtaken, pageBudget>>

ImageServed ==
    /\ net.image.st = "read"
    /\ net' = [net EXCEPT !.image.st = "back", !.image.ok = CurrentEdition(net.image.row.edition)]
    /\ UNCHANGED <<serverVars, browserVars, overtaken, pageBudget>>

\* The run goes on, publishes or fails; a revision publishes or fails.
RunMoves ==
    /\ Generating(row.status)
    /\ \/ row.status = "planning" /\ Touch([status |-> "drawing"]) /\ UNCHANGED artOf
       \/ Touch([status |-> "failed"]) /\ UNCHANGED artOf
       \/ row.status = "drawing" /\ Publish(Slides, [status |-> "complete", text |-> row.text + 1, version |-> row.version + 1])
    /\ UNCHANGED <<revisions, net, browserVars, overtaken, pageBudget>>

RevisionMoves ==
    \E r \in ActiveRevision :
        /\ \/ Publish({"page"}, [version |-> row.version + 1]) /\ Revise(r, "completed")
           \/ Touch(Unchanged) /\ UNCHANGED artOf /\ Revise(r, "failed")
        /\ UNCHANGED <<net, browserVars, overtaken, pageBudget>>

\* Another tab of the same account.
OtherTab ==
    /\ SpendPage("tabs")
    /\ \/ /\ CanStart("regenerate") /\ Effect("start", NoRequest)
          /\ overtaken' = (overtaken \/ loop = "reading" \/ net.progress.st = "back")
       \/ Generating(row.status) /\ Effect("cancel", NoRequest) /\ UNCHANGED overtaken
       \/ CanEditText(row.version) /\ Effect("text", NoRequest) /\ UNCHANGED overtaken
    /\ UNCHANGED <<net, browserVars>>

----------------------------------------------------------------------------
(* The page: which books it takes, its polling loop, what React commits. *)

\* Mutant: only a cancellation is compared by time.
AcceptsLatestAnswer(b) == shown = NoBook \/ shown.status # "cancelled" \/ b.at > shown.at

\* shouldAcceptBook: never an older record, and after a cancellation only a newer one.
AcceptsBook(b) ==
    \/ shown = NoBook
    \/ b.at > shown.at
    \/ b.at = shown.at /\ shown.status # "cancelled"

Apply(b) == shown' = IF AcceptsBook(b) THEN b ELSE shown

Send(k, q) == net[k].st = "idle" /\ net' = [net EXCEPT ![k] = [q EXCEPT !.st = "sent"]]
Answered(k) == net[k].st = "back"

\* React draws the book: the polling effect starts over when the status changed,
\* the reader drops its image when the edition did and its dialogs when the text did.
LoopOf(status) == IF Generating(status) THEN "timer" ELSE "off"
LoadsImage(e, slide) == [NoRequest EXCEPT !.st = "sent", !.row.edition = e, !.code = slide]
ImageStale == shown.edition # drawn.edition \/ reader.reload
DialogsStale == reader.slide = "page" /\ shown.text # drawn.text
Polled == reader.watching # 0 /\ net.watch.rev = reader.watching
Closing(ks) == [k \in Requests |-> IF k \in ks THEN NoRequest ELSE net[k]]

\* Mutant: the effect's cleanup does not close its poll.
AbandonsNothing == {}

\* The requests the cleanup of the polling effect closes.
Abandoned == (IF shown.status # drawn.status THEN {"progress", "full"} ELSE {})

Commit ==
    /\ shown # drawn \/ reader.reload
    /\ drawn' = shown
    /\ LET polls == shown.status # drawn.status
           image == ImageStale /\ shown.edition > 0 /\ ~view.editing
           closing == Closing(Abandoned \cup (IF DialogsStale /\ Polled THEN {"watch"} ELSE {}))
       IN /\ loop' = IF polls THEN LoopOf(shown.status) ELSE loop
          /\ net' = IF image THEN [closing EXCEPT !.image = LoadsImage(shown.edition, reader.slide)]
                    ELSE closing
          /\ reader' = [reader EXCEPT !.image = IF image THEN 0 ELSE @, !.reload = FALSE,
                                      !.quote = IF DialogsStale THEN 0 ELSE @,
                                      !.watching = IF DialogsStale THEN 0 ELSE @]
    /\ UNCHANGED <<serverVars, shown, view, awake, overtaken, pageBudget>>

LoadAnswered ==
    /\ Answered("load") /\ net' = Closing({"load"})
    /\ view' = [view EXCEPT !.page = IF net.load.ok THEN "open" ELSE "failed"]
    /\ shown' = IF net.load.ok THEN net.load.row ELSE shown
    /\ UNCHANGED <<serverVars, drawn, loop, reader, awake, overtaken, pageBudget>>

RetryLoad ==
    /\ view.page = "failed" /\ Send("load", NoRequest)
    /\ view' = [view EXCEPT !.page = "loading"]
    /\ UNCHANGED <<serverVars, shown, drawn, loop, reader, awake, overtaken, pageBudget>>

\* The timer fires; hidden or offline, it is set again.
PollFires ==
    /\ loop = "timer" /\ awake /\ Send("progress", NoRequest) /\ loop' = "asking"
    /\ UNCHANGED <<serverVars, shown, drawn, view, reader, awake, overtaken, pageBudget>>

\* Mutant: a failed poll is the last one.
AfterFailedPollStops == "idle"

\* A failed poll is repeated; a finished run is followed by one read of the whole book.
AfterFailedPoll == "timer"

ProgressAnswered ==
    /\ Answered("progress")
    /\ LET ended == net.progress.ok /\ Settled(net.progress.row.status) IN
       /\ net' = IF ended THEN [net EXCEPT !.progress = NoRequest, !.full = [NoRequest EXCEPT !.st = "sent"]]
                 ELSE Closing({"progress"})
       /\ loop' = IF ended THEN "reading" ELSE IF net.progress.ok THEN "timer" ELSE AfterFailedPoll
    /\ UNCHANGED <<serverVars, shown, drawn, view, reader, awake, overtaken, pageBudget>>

FullAnswered ==
    /\ Answered("full") /\ net' = Closing({"full"})
    /\ IF net.full.ok
         THEN /\ Apply(net.full.row)
              /\ loop' = IF AcceptsBook(net.full.row) /\ ~Generating(net.full.row.status)
                           THEN "done" ELSE "idle"
         ELSE UNCHANGED shown /\ loop' = AfterFailedPoll
    /\ UNCHANGED <<serverVars, drawn, view, reader, awake, overtaken, pageBudget>>

Sleep ==
    /\ awake /\ SpendPage("sleeps") /\ awake' = FALSE
    /\ UNCHANGED <<serverVars, net, shown, drawn, view, loop, reader, overtaken>>

\* visibilitychange and online.
Wake ==
    /\ ~awake /\ awake' = TRUE /\ loop' = IF loop = "idle" THEN "timer" ELSE loop
    /\ UNCHANGED <<serverVars, net, shown, drawn, view, reader, overtaken, pageBudget>>

Refresh ==
    /\ view.page = "open" /\ ~view.editing /\ drawn.status \notin {"none", "created"}
    /\ SpendPage("refreshes") /\ Send("refresh", NoRequest)
    /\ UNCHANGED <<serverVars, browserVars, overtaken>>

\* The refresh and the read after a refused cancellation go through applyBook.
FetchAnswered(k) ==
    /\ k \in {"refresh", "recancel"} /\ Answered(k) /\ net' = Closing({k})
    /\ IF net[k].ok THEN Apply(net[k].row) ELSE UNCHANGED shown
    /\ UNCHANGED <<serverVars, drawn, view, loop, reader, awake, overtaken, pageBudget>>

----------------------------------------------------------------------------
(* The mutations, as the drawn book offers them. *)

Offers(status) == view.page = "open" /\ ~view.editing /\ shown = drawn /\ drawn.status \in status

ClickStart ==
    /\ Offers({"created", "failed", "complete", "cancelled"}) /\ SpendPage("starts")
    /\ net.cancel.st = "idle"
    /\ Send("start", [NoRequest EXCEPT !.code =
            CASE drawn.status = "created" -> "generate" [] drawn.status = "failed" -> "retry"
              [] OTHER -> "regenerate"])
    /\ UNCHANGED <<serverVars, browserVars, overtaken>>

ClickCancel ==
    /\ Offers({"planning", "drawing"}) /\ SpendPage("cancels")
    /\ net.recancel.st = "idle" /\ Send("cancel", NoRequest)
    /\ UNCHANGED <<serverVars, browserVars, overtaken>>

StartEdit ==
    /\ Offers({"created", "failed", "complete", "cancelled"}) /\ pageBudget.saves > 0
    /\ view' = [view EXCEPT !.editing = TRUE]
    /\ reader' = [FreshReader EXCEPT !.stored = reader.stored]
    /\ net' = Closing({"image", "watch", "quote"})
    /\ UNCHANGED <<serverVars, shown, drawn, loop, awake, overtaken, pageBudget>>

\* The form closes and the reader is mounted anew.
Reopened(requests) ==
    IF drawn.edition > 0 THEN [requests EXCEPT !.image = LoadsImage(drawn.edition, "cover")] ELSE requests

CancelEdit ==
    /\ view.editing /\ net.save.st = "idle"
    /\ view' = [view EXCEPT !.editing = FALSE] /\ net' = Reopened(net)
    /\ UNCHANGED <<serverVars, shown, drawn, loop, reader, awake, overtaken, pageBudget>>

SaveEdit ==
    /\ view.editing /\ SpendPage("saves") /\ Send("save", NoRequest)
    /\ UNCHANGED <<serverVars, browserVars, overtaken>>

\* The answer of a mutation is put on screen as it is; a refused cancellation reads again.
MutationAnswered(k) ==
    /\ k \in Mutations /\ Answered(k)
    /\ shown' = IF net[k].ok THEN net[k].row ELSE shown
    /\ net' = CASE k = "cancel" /\ net[k].code \in {"BOOK_ALREADY_CANCELLED", "BOOK_NOT_IN_PROGRESS"} ->
                       [net EXCEPT !.cancel = NoRequest, !.recancel = [NoRequest EXCEPT !.st = "sent"]]
                [] k = "save" /\ net[k].ok -> Reopened(Closing({k}))
                [] OTHER -> Closing({k})
    /\ view' = [view EXCEPT !.editing = @ /\ ~(k = "save" /\ net[k].ok)]
    /\ UNCHANGED <<serverVars, drawn, loop, reader, awake, overtaken, pageBudget>>

----------------------------------------------------------------------------
(* The reader of the published book. *)

HasReader == view.page = "open" /\ ~view.editing /\ drawn.edition > 0
Watched == reader.watching # 0
Busy == \E k \in {"quote", "confirm"} : net[k].st # "idle"
Revisable == HasReader /\ drawn.status = "complete" /\ reader.slide = "page" /\ ~Busy /\ ~Watched

ImageAnswered ==
    /\ Answered("image") /\ net' = Closing({"image"})
    /\ reader' = [reader EXCEPT !.image = IF net.image.ok THEN net.image.rev ELSE 0]
    /\ UNCHANGED <<serverVars, shown, drawn, view, loop, awake, overtaken, pageBudget>>

\* "Retry page": the load failed, or the edition on screen is no longer served.
RetryImage ==
    /\ HasReader /\ reader.image = 0
    /\ Send("image", LoadsImage(drawn.edition, reader.slide))
    /\ UNCHANGED <<serverVars, browserVars, overtaken, pageBudget>>

\* Turning the page drops its image and dialogs; a remembered revision is looked up.
TurnPage ==
    /\ HasReader /\ ~Busy /\ ~Watched /\ net.text.st = "idle" /\ SpendPage("turns")
    /\ \E s \in Slides \ {reader.slide} :
        /\ reader' = [reader EXCEPT !.slide = s, !.image = 0, !.quote = 0]
        /\ net' = [net EXCEPT
               !.image = LoadsImage(drawn.edition, s),
               !.watch = IF s = "page" /\ reader.stored # 0
                           THEN [NoRequest EXCEPT !.st = "sent", !.rev = reader.stored] ELSE NoRequest]
    /\ UNCHANGED <<serverVars, shown, drawn, view, loop, awake, overtaken>>

SaveText ==
    /\ Revisable /\ SpendPage("texts") /\ Send("text", [NoRequest EXCEPT !.row = drawn])
    /\ UNCHANGED <<serverVars, browserVars, overtaken>>

AskQuote ==
    /\ Revisable /\ reader.quote = 0
    /\ \E r \in DOMAIN revisions :
        /\ revisions[r].status = "none" /\ \A other \in 1..r-1 : revisions[other].status # "none"
        /\ Send("quote", [NoRequest EXCEPT !.row = drawn, !.rev = r])
    /\ UNCHANGED <<serverVars, browserVars, overtaken, pageBudget>>

DismissQuote ==
    /\ HasReader /\ reader.quote # 0 /\ ~Watched /\ net.confirm.st = "idle"
    /\ reader' = [reader EXCEPT !.quote = 0]
    /\ UNCHANGED <<serverVars, net, shown, drawn, view, loop, awake, overtaken, pageBudget>>

Confirm ==
    /\ HasReader /\ reader.quote # 0 /\ ~Watched
    /\ Send("confirm", [NoRequest EXCEPT !.rev = reader.quote])
    /\ UNCHANGED <<serverVars, browserVars, overtaken, pageBudget>>

\* A confirmed revision is remembered for the session, and watched by the reader that asked.
RevisionAnswered(k) ==
    /\ k \in {"quote", "confirm"} /\ Answered(k) /\ net' = Closing({k})
    /\ LET q == net[k]
           watches == q.code = "running" /\ reader.quote = q.rev
       IN reader' = CASE ~q.ok -> reader
                      [] q.ok /\ k = "quote" -> [reader EXCEPT !.quote = q.rev]
                      [] q.ok /\ k = "confirm" -> [reader EXCEPT !.stored = q.rev,
                                                         !.watching = IF watches THEN q.rev ELSE @]
    /\ UNCHANGED <<serverVars, shown, drawn, view, loop, awake, overtaken, pageBudget>>

WatchFires ==
    /\ Watched /\ Send("watch", [NoRequest EXCEPT !.rev = reader.watching])
    /\ UNCHANGED <<serverVars, browserVars, overtaken, pageBudget>>

\* Mutant: a failed revision goes on being watched.
SettlesCompleted(status) == status = "completed"

\* A settled revision is forgotten, watched or only looked up; the book that comes
\* with a completed one is put on screen as it is, and its image loaded again.
Settles(status) == status \in {"completed", "failed"}

WatchAnswered ==
    /\ Answered("watch") /\ net' = Closing({"watch"})
    /\ LET q == net.watch
           settled == q.ok /\ Settles(q.code)
           published == q.ok /\ q.code = "completed"
       IN /\ reader' = [reader EXCEPT
                 !.watching = IF settled /\ Polled THEN 0 ELSE IF q.ok /\ ~settled THEN q.rev ELSE @,
                 !.stored = IF settled THEN 0 ELSE @,
                 !.quote = IF published /\ Polled THEN 0 ELSE @,
                 !.reload = @ \/ published]
          /\ shown' = IF published THEN q.row ELSE shown
    /\ UNCHANGED <<serverVars, drawn, view, loop, awake, overtaken, pageBudget>>

----------------------------------------------------------------------------
LoopStep == PollFires \/ ProgressAnswered \/ FullAnswered
ImageLoads == ImageChecked \/ ImageRead \/ ImageServed \/ ImageAnswered
Received == LoadAnswered \/ (\E k \in Requests : FetchAnswered(k) \/ MutationAnswered(k) \/ RevisionAnswered(k))
Clicks == RetryLoad \/ Refresh \/ ClickStart \/ ClickCancel \/ StartEdit \/ CancelEdit \/ SaveEdit \/ TurnPage
          \/ SaveText \/ AskQuote \/ DismissQuote \/ Confirm \/ RetryImage

PageNext ==
    \/ \E k \in Requests : Serve(k)
    \/ ImageLoads \/ RunMoves \/ RevisionMoves \/ OtherTab
    \/ Commit \/ LoopStep \/ Received \/ Clicks \/ Sleep \/ Wake \/ WatchFires \/ WatchAnswered

\* Runs and revisions end, requests are answered, timers fire, React draws; what
\* the reader clicks and what other tabs do is left open.
PageFairness ==
    /\ WF_pageVars(RunMoves) /\ WF_pageVars(RevisionMoves)
    /\ WF_pageVars(Commit) /\ WF_pageVars(LoopStep) /\ WF_pageVars(Wake)
    /\ WF_pageVars(Serve("progress")) /\ WF_pageVars(Serve("full"))
    /\ WF_pageVars(WatchFires) /\ WF_pageVars(Serve("watch")) /\ WF_pageVars(WatchAnswered)

PageSpec == PageInit /\ [][PageNext]_pageVars /\ PageFairness
----------------------------------------------------------------------------
(* Properties *)

\* What the page fetches never puts an older record of the book on screen, and a
\* cancelled book gives way only to a newer one: shouldAcceptBook and its callers.
FetchKeepsOrder ==
    LoadAnswered \/ FullAnswered \/ (\E k \in Fetches : FetchAnswered(k)) =>
        shown \in {NoBook, shown'} \/ shown'.at > shown.at
FetchedNeverOlder == [][FetchKeepsOrder]_pageVars

\* A poll in flight is the poll of the loop that is installed: no poll outlives its
\* effect and none is sent twice.
PollsBelongToTheLoop ==
    /\ (loop = "asking") = (net.progress.st # "idle")
    /\ (loop = "reading") = (net.full.st # "idle")

\* A page that shows a run in progress learns of its end without being touched,
\* unless the next run began between the loop's two reads, or an answer from before
\* the end replaced it on screen before React drew it (the loop is done by then).
ShowsEndedRun == view.page = "open" /\ Generating(drawn.status) /\ ~Generating(row.status)
PageCatchesUp == []<>(~ShowsEndedRun \/ overtaken \/ loop = "done")

\* The illustration on screen is the one the drawn edition has on that slide.
ImageFitsEdition ==
    HasReader /\ reader.image # 0 => reader.image = artOf[drawn.edition][reader.slide]

\* A revision the reader shows as running is one that runs, or is about to be found settled.
RevisionFollowed ==
    []<>(HasReader /\ Watched => revisions[reader.watching].status = "running")

\* The page never shows an older book than it has shown, nor another edition's
\* pictures, and comes to know how runs and revisions end.
PageFollowsTheBook ==
    /\ [](PollsBelongToTheLoop /\ ImageFitsEdition)
    /\ FetchedNeverOlder
    /\ PageCatchesUp
    /\ RevisionFollowed

=============================================================================
