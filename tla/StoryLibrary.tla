------------------------------ MODULE StoryLibrary ------------------------------
(***************************************************************************)
(* The library of a user's interactive stories: createSession, listSessions *)
(* and removeSession of interactive.service.ts, and the two hooks of the   *)
(* library page, use-start-story.ts and use-session-library.ts.            *)
(*                                                                         *)
(* One user; Starters are pages from which stories are started, and one of *)
(* them shows the list.  A story is numbered by its id; its place in the   *)
(* list is createdAt, taken when its transaction begins, which may be long *)
(* before it gets the user's row lock.  Requests a page has given up on    *)
(* stay in the server.                                                     *)
(***************************************************************************)
EXTENDS StoryRules

CONSTANTS Starters, Targets,   \* pages, and <<scenario, version>> entries of the catalogue
          MaxSessionsPerUser,  \* INTERACTIVE_MAX_SESSIONS_PER_USER
          LibraryPage,         \* LIBRARY_PAGE_SIZE
          LibraryBudgets       \* bounds: [stored, clicks, retries, removals, faults, lists]

VARIABLES stories,     \* interactive_sessions, by id: key, target, click, at, removed
          creations,   \* createSession requests in the server
          removals,    \* removeSession requests in the server
          starters,    \* use-start-story of every page
          library,     \* use-session-library
          acknowledged, known,   \* ghosts: removals acknowledged; stories the shown
                                 \* first page was read among
          clock, libraryBudget

libraryVars == <<stories, creations, removals, starters, library, acknowledged, known, clock,
                 libraryBudget>>

Retained == {s \in DOMAIN stories : ~stories[s].removed}
SpendLibrary(what) ==
    libraryBudget[what] > 0 /\ libraryBudget' = [libraryBudget EXCEPT ![what] = @ - 1]
LibraryFault == SpendLibrary("faults")

IdleStarter == [command |-> None, inFlight |-> None, reply |-> None, opened |-> None]
EmptyLibrary == [phase |-> "loading", rows |-> <<>>, cursor |-> None, refreshing |-> TRUE,
                 loadingMore |-> FALSE,   \* loadingMoreRef
                 request |-> [cursor |-> None, reply |-> None],
                 removal |-> None]

LibraryInit ==
    /\ libraryBudget \in LibraryBudgets
    /\ stories = [s \in 1..libraryBudget.stored |->
                    [key |-> None, click |-> None, at |-> s, removed |-> FALSE,
                     target |-> CHOOSE t \in Targets : TRUE]]
    /\ creations = {} /\ removals = {}
    /\ starters = [p \in Starters |-> IdleStarter]
    /\ library = EmptyLibrary /\ acknowledged = {} /\ known = {}
    /\ clock = libraryBudget.stored

----------------------------------------------------------------------------
(* createSession. *)

WithKey(key) == {s \in DOMAIN stories : stories[s].key = key}

\* replayCreation: the fingerprint is the target; a removed story is refused.
Replay(command) ==
    LET s == CHOOSE s \in WithKey(command.key) : TRUE
    IN  IF stories[s].target # command.target THEN Error("IDEMPOTENCY_KEY_REUSED")
        ELSE IF stories[s].removed THEN Error("SESSION_REMOVED")
        ELSE [opens |-> s]

ReplyTo(c, reply) ==
    /\ creations' = creations \ {c}
    /\ starters' = IF starters[c.page].inFlight = c.send
                   THEN [starters EXCEPT ![c.page].reply = reply] ELSE starters

\* Before the transaction: the identity, the registry, the narration.
PrepareCreation(c) ==
    /\ c.step = "received"
    /\ IF WithKey(c.command.key) # {} THEN ReplyTo(c, Replay(c.command)) /\ UNCHANGED libraryBudget
       ELSE \/ /\ creations' = (creations \ {c}) \cup {[c EXCEPT !.step = "prepared"]}
               /\ UNCHANGED <<starters, libraryBudget>>
            \/ LibraryFault /\ ReplyTo(c, Error("NARRATION_PROVIDER_FAILED"))
    /\ UNCHANGED <<stories, removals, library, acknowledged, known, clock>>

\* The transaction begins: createdAt is fixed, the lock is still to come.
BeginCreation(c) ==
    /\ c.step = "prepared" /\ clock' = clock + 1
    /\ creations' = (creations \ {c}) \cup {[c EXCEPT !.step = "locking", !.at = clock + 1]}
    /\ UNCHANGED <<stories, removals, starters, library, acknowledged, known, libraryBudget>>

Inserted(c) ==
    Append(stories, [key |-> c.command.key, click |-> c.command.click, at |-> c.at,
                     target |-> c.command.target, removed |-> FALSE])

\* Mutants: at the cap only live stories with the key count; the cap is not looked at again.
AdmissionCapFirst(c) ==
    IF Cardinality(Retained) >= MaxSessionsPerUser THEN Error("SESSION_LIMIT_REACHED")
    ELSE IF WithKey(c.command.key) # {} THEN Replay(c.command)
    ELSE [opens |-> Len(stories) + 1]
AdmissionUncapped(c) ==
    IF WithKey(c.command.key) # {} THEN Replay(c.command) ELSE [opens |-> Len(stories) + 1]

\* Under the lock of the user's row: identity first, then the cap.
Admission(c) ==
    IF WithKey(c.command.key) # {} THEN Replay(c.command)
    ELSE IF Cardinality(Retained) >= MaxSessionsPerUser THEN Error("SESSION_LIMIT_REACHED")
    ELSE [opens |-> Len(stories) + 1]

CommitCreation(c) ==
    /\ c.step = "locking"
    /\ \E reply \in {Admission(c)} :
         /\ ReplyTo(c, reply)
         /\ stories' = IF ~IsError(reply) /\ reply.opens \notin DOMAIN stories
                       THEN Inserted(c) ELSE stories
    /\ UNCHANGED <<removals, library, acknowledged, known, clock, libraryBudget>>

CreationLockTimeout(c) ==
    /\ c.step = "locking" /\ LibraryFault
    /\ ReplyTo(c, Error("SESSION_BUSY"))
    /\ UNCHANGED <<stories, removals, library, acknowledged, known, clock>>

----------------------------------------------------------------------------
(* use-start-story. *)

SendCreation(p, command) ==
    /\ starters' = [starters EXCEPT ![p] = [@ EXCEPT !.command = command, !.reply = None,
                                                   !.inFlight = clock + 1]]
    /\ clock' = clock + 1
    /\ creations' = creations \cup
         {[send |-> clock + 1, page |-> p, command |-> command, step |-> "received", at |-> None]}
    /\ UNCHANGED <<stories, removals, library, acknowledged, known>>

\* start: one immutable command per deliberate click.
Start(p, target) ==
    /\ starters[p].inFlight = None /\ starters[p].command = None /\ SpendLibrary("clicks")
    /\ SendCreation(p, [key |-> clock + 1, click |-> clock + 1, target |-> target])

\* Mutant: the retry mints a new key.
RetryStartFreshKey(p) ==
    /\ starters[p].inFlight = None /\ starters[p].command # None /\ SpendLibrary("retries")
    /\ SendCreation(p, [starters[p].command EXCEPT !.key = clock + 1])
RetryStart(p) ==
    /\ starters[p].inFlight = None /\ starters[p].command # None /\ SpendLibrary("retries")
    /\ SendCreation(p, starters[p].command)

\* classify: whether the same command may be sent again.
Resendable(error) ==
    error \in {"NETWORK", "SESSION_BUSY", "NARRATION_PROVIDER_FAILED", "RATE_LIMITED"}

\* The answer, or the deadline, after which the outcome is unknown.  A started
\* story is navigated to, and the page stays "starting" until it unmounts.
FinishStart(p) ==
    /\ starters[p].inFlight # None /\ starters[p].opened = None
    /\ \E reply \in {starters[p].reply, Error("NETWORK")} :
         /\ reply # None
         /\ IF reply = Error("NETWORK") THEN LibraryFault ELSE UNCHANGED libraryBudget
         /\ starters' = [starters EXCEPT ![p] =
              IF ~IsError(reply) THEN [@ EXCEPT !.command = None, !.reply = None,
                                                !.opened = [story |-> reply.opens,
                                                            click |-> starters[p].command.click]]
              ELSE [@ EXCEPT !.inFlight = None, !.reply = None,
                             !.command = IF Resendable(reply.error) THEN @ ELSE None]]
    /\ UNCHANGED <<stories, creations, removals, library, acknowledged, known, clock>>

\* The page unmounts or the login changes: the command is forgotten.
LeavePage(p) ==
    /\ starters[p] # IdleStarter
    /\ IF starters[p].opened = None THEN LibraryFault ELSE UNCHANGED libraryBudget
    /\ starters' = [starters EXCEPT ![p] = IdleStarter]
    /\ UNCHANGED <<stories, creations, removals, library, acknowledged, known, clock>>

----------------------------------------------------------------------------
(* listSessions and removeSession. *)

Newer(s, r) == stories[s].at > stories[r].at

\* Mutant: pages are cut by offset, not by the position of the last row.
PageAfterOffset(cursor) ==
    LET all == SetToSortSeq(Retained, Newer)
        skip == IF cursor = None THEN 0 ELSE Len(library.rows)
        rows == SubSeq(all, skip + 1, IF Len(all) < skip + LibraryPage THEN Len(all)
                                      ELSE skip + LibraryPage)
    IN  [rows |-> rows, cursor |-> IF Len(all) > skip + LibraryPage
                                   THEN stories[Last(rows)].at ELSE None]

\* Keyset pagination over (createdAt, id), newest first.
PageAfter(cursor) ==
    LET left == {s \in Retained : cursor # None => stories[s].at < cursor}
        sorted == SetToSortSeq(left, Newer)
        rows == SubSeq(sorted, 1, IF Len(sorted) < LibraryPage THEN Len(sorted) ELSE LibraryPage)
    IN  [rows |-> rows,
         cursor |-> IF Len(sorted) > LibraryPage THEN stories[Last(rows)].at ELSE None]

ServeList ==
    /\ library.request # None /\ library.request.reply = None
    /\ \E page \in {PageAfter(library.request.cursor)} :
         library' = [library EXCEPT !.request.reply = [page |-> page, among |-> Retained]]
    /\ UNCHANGED <<stories, creations, removals, starters, acknowledged, known, clock, libraryBudget>>

\* removeSession: user row, then session row; repeated and unknown ids succeed.
CommitRemoval(r) ==
    /\ stories' = [stories EXCEPT ![r.story].removed = TRUE]
    /\ removals' = removals \ {r}
    /\ library' = IF library.removal # None /\ library.removal.send = r.send
                  THEN [library EXCEPT !.removal.reply = "gone"] ELSE library
    /\ UNCHANGED <<creations, starters, acknowledged, known, clock, libraryBudget>>

RemovalLockTimeout(r) ==
    /\ LibraryFault /\ removals' = removals \ {r}
    /\ library' = IF library.removal # None /\ library.removal.send = r.send
                  THEN [library EXCEPT !.removal.reply = "unavailable"] ELSE library
    /\ UNCHANGED <<stories, creations, starters, acknowledged, known, clock>>

----------------------------------------------------------------------------
(* use-session-library. *)

\* Mutant: the flag of an obsoleted loadMore is left to its own finally.
RefreshedKeepsFlag(lib) ==
    [lib EXCEPT !.refreshing = TRUE, !.request = [cursor |-> None, reply |-> None]]
\* refresh: a new generation; every earlier request is aborted.
RefreshedLibrary(lib) ==
    [lib EXCEPT !.refreshing = TRUE, !.loadingMore = FALSE,
                !.request = [cursor |-> None, reply |-> None]]

Refresh ==
    /\ SpendLibrary("lists") /\ library' = RefreshedLibrary(library)
    /\ UNCHANGED <<stories, creations, removals, starters, acknowledged, known, clock>>

LoadMore ==
    /\ library.phase = "ready" /\ ~library.refreshing /\ ~library.loadingMore
    /\ library.cursor # None
    /\ library' = [library EXCEPT !.loadingMore = TRUE,
                                  !.request = [cursor |-> library.cursor, reply |-> None]]
    /\ UNCHANGED <<stories, creations, removals, starters, acknowledged, known, clock, libraryBudget>>

AppendUnique(rows, more) == rows \o SelectSeq(more, LAMBDA s : s \notin Range(rows))
Listed(lib, s) == s \in Range(lib.rows)

\* The first page replaces the list; a submitted removal survives it.
FirstPage(lib, page) ==
    [lib EXCEPT !.phase = "ready", !.rows = page.rows, !.cursor = page.cursor,
                !.refreshing = FALSE, !.request = None,
                !.removal = IF @ # None /\ @.status = "confirming" /\ @.story \notin Range(page.rows)
                            THEN None ELSE @]
NextPage(lib, page) ==
    [lib EXCEPT !.rows = AppendUnique(@, page.rows), !.cursor = page.cursor,
                !.loadingMore = FALSE, !.request = None]

ReceiveList ==
    LET request == library.request
    IN  /\ request # None
        /\ \/ /\ request.reply # None /\ UNCHANGED libraryBudget
              /\ library' = IF library.loadingMore THEN NextPage(library, request.reply.page)
                            ELSE FirstPage(library, request.reply.page)
              /\ known' = IF library.loadingMore THEN known ELSE request.reply.among
           \/ /\ LibraryFault /\ UNCHANGED known
              /\ library' = [library EXCEPT !.request = None, !.refreshing = FALSE,
                                !.loadingMore = FALSE,
                                !.phase = IF @ = "ready" THEN @ ELSE "error"]
        /\ UNCHANGED <<stories, creations, removals, starters, acknowledged, clock>>

\* detachedRemoval: a submitted removal whose row is not shown.
Detached(lib) == lib.removal # None /\ lib.removal.status # "confirming"
                 /\ ~Listed(lib, lib.removal.story)

RequestRemoval(s) ==
    /\ library.phase = "ready" /\ Listed(library, s) /\ ~Detached(library)
    /\ library.removal # None => library.removal.status # "removing"
    /\ SpendLibrary("removals")
    /\ library' = [library EXCEPT !.removal =
                     [story |-> s, status |-> "confirming", send |-> None, reply |-> None]]
    /\ UNCHANGED <<stories, creations, removals, starters, acknowledged, known, clock>>

CancelRemoval ==
    /\ library.removal # None /\ library.removal.status # "removing"
    /\ library' = [library EXCEPT !.removal = None]
    /\ UNCHANGED <<stories, creations, removals, starters, acknowledged, known, clock, libraryBudget>>

\* confirmRemoval, and retryRemoval of one that failed without a definitive answer.
SendRemoval ==
    LET removal == library.removal
    IN  /\ removal # None
        /\ \/ removal.status = "confirming" /\ UNCHANGED libraryBudget
           \/ removal.status = "failed" /\ SpendLibrary("retries")
        /\ clock' = clock + 1
        /\ library' = [library EXCEPT !.removal = [@ EXCEPT !.status = "removing",
                                                     !.send = clock + 1, !.reply = None]]
        /\ removals' = removals \cup {[send |-> clock + 1, story |-> removal.story]}
        /\ UNCHANGED <<stories, creations, starters, acknowledged, known>>

WithoutRow(lib) ==
    [lib EXCEPT !.removal = None, !.rows = SelectSeq(@, LAMBDA s : s # lib.removal.story)]
\* Mutant: what was requested before the acknowledgement may still be shown.
AfterAcknowledgementNoReload(lib) == WithoutRow(lib)
\* Gone at once, and a reload obsoletes every earlier list request.
AfterAcknowledgement(lib) == RefreshedLibrary(WithoutRow(lib))

FinishRemoval ==
    LET removal == library.removal
    IN  /\ removal # None /\ removal.status = "removing"
        /\ \/ /\ removal.reply = "gone" /\ UNCHANGED libraryBudget
              /\ library' = AfterAcknowledgement(library)
              /\ acknowledged' = acknowledged \cup {removal.story}
           \/ /\ IF removal.reply = "unavailable" THEN UNCHANGED libraryBudget ELSE LibraryFault
              /\ library' = [library EXCEPT !.removal.status = "failed", !.removal.send = None]
              /\ UNCHANGED acknowledged
        /\ UNCHANGED <<stories, creations, removals, starters, known, clock>>

----------------------------------------------------------------------------
ServerStep == \/ \E c \in creations : PrepareCreation(c) \/ BeginCreation(c) \/ CommitCreation(c)
              \/ ServeList \/ \E r \in removals : CommitRemoval(r)
PageStep == ReceiveList \/ FinishRemoval \/ \E p \in Starters : FinishStart(p)

LibraryNext ==
    \/ ServerStep \/ PageStep \/ Refresh \/ LoadMore \/ CancelRemoval \/ SendRemoval
    \/ \E c \in creations : CreationLockTimeout(c)
    \/ \E r \in removals : RemovalLockTimeout(r)
    \/ \E s \in DOMAIN stories : RequestRemoval(s)
    \/ \E p \in Starters : RetryStart(p) \/ LeavePage(p) \/ \E t \in Targets : Start(p, t)

\* The server answers and the pages receive; no click is assumed.
LibraryFairness == WF_libraryVars(ServerStep) /\ WF_libraryVars(PageStep)

----------------------------------------------------------------------------
(* Properties. *)

LibraryTypeOK ==
    /\ \A s \in DOMAIN stories : stories[s].at \in 1..clock /\ stories[s].target \in Targets
    /\ \A c \in creations : c.step \in {"received", "prepared", "locking"}
    /\ library.phase \in {"loading", "ready", "error"}
    /\ (library.refreshing \/ library.loadingMore) <=> library.request # None
    /\ library.removal # None =>
         library.removal.status \in {"confirming", "removing", "failed"}

\* However creations, retries and removals race, a user never has more stories
\* than the cap: counted and inserted under the same lock.
CapRespected == Cardinality(Retained) <= MaxSessionsPerUser

\* One click makes at most one story, over lost answers, retries and zombies, and
\* what the page opens is the story of that click.
OneStoryPerStart ==
    /\ \A s, r \in DOMAIN stories :
         stories[s].click # None /\ stories[s].click = stories[r].click => s = r
    /\ \A p \in Starters : starters[p].opened # None =>
         stories[starters[p].opened.story].click = starters[p].opened.click

\* Once a removal is acknowledged no list brings the story back.
AcknowledgedStaysGone == Range(library.rows) \cap acknowledged = {}

\* The list has no story twice, is in order, and skips no story that is still
\* there and that the first page was read among, down to the last row shown.
PagesSkipNothing ==
    /\ \A i, j \in DOMAIN library.rows :
         i < j => stories[library.rows[i]].at > stories[library.rows[j]].at
    /\ library.rows # <<>> => \A s \in known \cap Retained :
         stories[s].at >= stories[Last(library.rows)].at => Listed(library, s)

\* An accepted start is told the cap is reached only if it made no story: the
\* identity of a retry is resolved before the cap.
RetryWorksAtTheCap ==
    \A p \in Starters : starters[p].reply = Error("SESSION_LIMIT_REACHED") =>
        WithKey(starters[p].command.key) = {}

\* Nothing the list page waits for blocks it for ever: a superseded loadMore
\* frees the next one, and a removal ends with an answer or a deadline.
LibraryBusy == \/ library.loadingMore \/ library.refreshing
               \/ library.removal # None /\ library.removal.status = "removing"
LibraryFrees == []<>(~LibraryBusy)

\* The library holds one story per start within the cap, its list shows what it
\* holds, and it can be used again after whatever went wrong.
LibraryIsTrue ==
    /\ [](/\ LibraryTypeOK /\ CapRespected /\ OneStoryPerStart /\ AcknowledgedStaysGone
         /\ PagesSkipNothing /\ RetryWorksAtTheCap)
    /\ LibraryFrees

=============================================================================
