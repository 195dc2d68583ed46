------------------------------- MODULE BookShelf -------------------------------
(***************************************************************************)
(* The dashboard of one reader: the list of books with its "Load more",    *)
(* the covers loaded through a limiter of a few slots, and the permanent   *)
(* deletions the page asks for, restores after a reload and polls until    *)
(* they settle.  Other tabs delete books too.  The erasure itself is the   *)
(* subject of BookDeletion; here a request moves from status to status.    *)
(* Books are numbered newest first.                                        *)
(***************************************************************************)
EXTENDS Naturals, Sequences, FiniteSetsExt, SequencesExt

CONSTANTS Books,          \* 1..n
          PageLimit,      \* books per page (20)
          CoverSlots,     \* MAX_CONCURRENT_COVER_LOADS
          ShelfBudgets    \* bounds: [opened, loads, clicks, others, stalls, faults, erasing, cards]:
                          \* whether the page has had its first answers at the start, lists
                          \* asked for, deletions asked for here and in other tabs, attempts that
                          \* do not finish, failed answers, books whose deletion is under way at
                          \* the start, books whose card comes into view

VARIABLES deletion,       \* book -> status of its deletion request; "none": on the shelf
          listing,        \* [books, pages, total, next, more, error]: the list on screen, the pages
                          \* it is made of (history), "Load more" disabled, the error banner
          loads,          \* the list requests in flight
          tracked,        \* book -> status shown in the deletion panel
          posts,          \* book -> [st, status]: a hard-delete request in flight
          restore,        \* [st, found]: the request for unfinished deletions
          poll,           \* [st, ids, got]: the polling chain
          covers,         \* [queue, fetching, seen]: the limiter, and cards that came into view
          shelfBudget

shelfVars == <<deletion, listing, loads, tracked, posts, restore, poll, covers, shelfBudget>>
InProgress == {"requested", "processing"}
Statuses == InProgress \cup {"none", "retry_pending", "completed"}
SpendShelf(what) == shelfBudget[what] > 0 /\ shelfBudget' = [shelfBudget EXCEPT ![what] = @ - 1]
FirstLoad == [n |-> 0, reset |-> TRUE, page |-> 1, st |-> "sent", books |-> <<>>, total |-> 0,
              aborted |-> FALSE]
PollOff == [st |-> "off", ids |-> {}, got |-> [b \in Books |-> "none"]]
NoPost == [st |-> "idle", status |-> "none"]

OnShelf == SelectSeq([i \in 1..Cardinality(Books) |-> i], LAMBDA b : deletion[b] = "none")

\* findAllForUser: one page of the books that are not tombstoned, by offset.
PageOf(page) ==
    SubSeq(OnShelf, (page - 1) * PageLimit + 1, Min({Len(OnShelf), page * PageLimit}))

\* The page has just been opened, or its two first requests have been answered.
ShelfInit ==
    /\ shelfBudget \in ShelfBudgets
    /\ deletion = [b \in Books |-> IF b \in shelfBudget.erasing THEN "processing" ELSE "none"]
    /\ tracked = IF shelfBudget.opened THEN deletion ELSE [b \in Books |-> "none"]
    /\ restore = [st |-> IF shelfBudget.opened THEN "done" ELSE "sent", found |-> tracked]
    /\ IF shelfBudget.opened
         THEN /\ loads = {}
              /\ listing = [books |-> PageOf(1), pages |-> <<1>>, total |-> Len(OnShelf),
                            next |-> 2, more |-> FALSE, error |-> FALSE]
              /\ poll = IF shelfBudget.erasing = {} THEN PollOff
                        ELSE [PollOff EXCEPT !.st = "timer", !.ids = shelfBudget.erasing]
         ELSE /\ loads = {FirstLoad} /\ poll = PollOff
              /\ listing = [books |-> <<>>, pages |-> <<>>, total |-> 0, next |-> 1, more |-> FALSE,
                            error |-> FALSE]
    /\ posts = [b \in Books |-> NoPost]
    /\ covers = [queue |-> <<>>, fetching |-> {}, seen |-> {}]

----------------------------------------------------------------------------
(* The server. *)

ServeList(l) ==
    /\ l \in loads /\ l.st = "sent"
    /\ \/ /\ loads' = (loads \ {l}) \cup
                {[l EXCEPT !.st = "back", !.books = PageOf(l.page), !.total = Len(OnShelf)]}
          /\ UNCHANGED shelfBudget
       \/ SpendShelf("faults") /\ loads' = (loads \ {l}) \cup {[l EXCEPT !.st = "failed"]}
    /\ UNCHANGED <<deletion, listing, tracked, posts, restore, poll, covers>>

\* request: tombstones the book, or queues a stalled deletion again.
Requested(status) == IF status \in {"none", "retry_pending"} THEN "requested" ELSE status

ServePost(b) ==
    /\ posts[b].st = "sent"
    /\ deletion' = [deletion EXCEPT ![b] = Requested(@)]
    /\ \/ /\ posts' = [posts EXCEPT ![b] = [st |-> "back", status |-> Requested(deletion[b])]]
          /\ UNCHANGED shelfBudget
       \/ SpendShelf("faults") /\ posts' = [posts EXCEPT ![b] = NoPost]
    /\ UNCHANGED <<listing, loads, tracked, restore, poll, covers>>

\* listPending: everything that is not completed.
ServeRestore ==
    /\ restore.st = "sent"
    /\ restore' = [st |-> "back", found |-> [b \in Books |->
                        IF deletion[b] = "completed" THEN "none" ELSE deletion[b]]]
    /\ UNCHANGED <<deletion, listing, loads, tracked, posts, poll, covers, shelfBudget>>

ServeStatus(b) ==
    /\ poll.st = "asking" /\ b \in poll.ids /\ poll.got[b] = "none"
    /\ \/ poll' = [poll EXCEPT !.got[b] = deletion[b]] /\ UNCHANGED shelfBudget
       \/ SpendShelf("faults") /\ poll' = [poll EXCEPT !.got[b] = "failed"]
    /\ UNCHANGED <<deletion, listing, loads, tracked, posts, restore, covers>>

\* The worker: an attempt starts, and finishes or stalls; a delivery may come again.
Worked(b, status) ==
    /\ deletion' = [deletion EXCEPT ![b] = status]
    /\ UNCHANGED <<listing, loads, tracked, posts, restore, poll, covers>>
Erase(b) ==
    \/ deletion[b] = "requested" /\ Worked(b, "processing") /\ UNCHANGED shelfBudget
    \/ deletion[b] = "processing" /\ Worked(b, "completed") /\ UNCHANGED shelfBudget
Stall(b) == deletion[b] = "processing" /\ SpendShelf("stalls") /\ Worked(b, "retry_pending")
Redeliver(b) == deletion[b] = "retry_pending" /\ Worked(b, "processing") /\ UNCHANGED shelfBudget

OtherTabDeletes(b) ==
    /\ deletion[b] \in {"none", "retry_pending"} /\ SpendShelf("others")
    /\ Worked(b, "requested")

----------------------------------------------------------------------------
(* The covers: a FIFO limiter; the card that leaves the screen aborts its load. *)

\* Mutant: a slot is taken only when a card asks.
ReleasedOnly(c, b) == [c EXCEPT !.fetching = @ \ {b}]

\* The slot freed by one load goes to the head of the queue.
Released(c, b) ==
    IF b \notin c.fetching \/ c.queue = <<>> THEN [c EXCEPT !.fetching = @ \ {b}]
    ELSE [c EXCEPT !.fetching = (@ \ {b}) \cup {Head(c.queue)}, !.queue = Tail(@)]

Unmounted(c, b) == Released([c EXCEPT !.queue = SelectSeq(@, LAMBDA x : x # b), !.seen = @ \ {b}], b)

CardInView(b) ==
    /\ b \in (ToSet(listing.books) \cap shelfBudget.cards) \ covers.seen
    /\ covers' = [covers EXCEPT !.seen = @ \cup {b},
           !.fetching = IF Cardinality(@) < CoverSlots THEN @ \cup {b} ELSE @,
           !.queue = IF Cardinality(covers.fetching) < CoverSlots THEN @ ELSE Append(@, b)]
    /\ UNCHANGED <<deletion, listing, loads, tracked, posts, restore, poll, shelfBudget>>

CoverSettles(b) ==
    /\ b \in covers.fetching /\ covers' = Released(covers, b)
    /\ UNCHANGED <<deletion, listing, loads, tracked, posts, restore, poll, shelfBudget>>

----------------------------------------------------------------------------
(* The list.  A new load aborts the one in flight; the banner offers a fresh start. *)

\* Mutant: the answer of an aborted load still counts.
NeverAborted(l) == FALSE

IsAborted(l) == l.aborted

LoadBooks(reset) ==
    /\ SpendShelf("loads")
    /\ \/ reset /\ listing.error
       \/ ~reset /\ listing.books # <<>> /\ Len(listing.books) < listing.total /\ ~listing.more
    /\ loads' = {[l EXCEPT !.aborted = TRUE] : l \in loads} \cup
                {[FirstLoad EXCEPT !.n = shelfBudget.loads, !.reset = reset,
                                   !.page = IF reset THEN 1 ELSE listing.next]}
    /\ listing' = [listing EXCEPT !.more = @ \/ ~reset, !.error = FALSE]
    /\ UNCHANGED <<deletion, tracked, posts, restore, poll, covers>>

\* Mutant: only a page that was read enables "Load more" again.
MoreAfterPage(l) == listing.more /\ l.st = "failed"

\* "Load more" is enabled again by the load that was not aborted, however it settles.
MoreAfter(l) == FALSE

Loaded(l) ==
    /\ l \in loads /\ l.st # "sent" /\ loads' = loads \ {l}
    /\ listing' =
          IF IsAborted(l) THEN listing
          ELSE IF l.st = "failed" THEN [listing EXCEPT !.more = MoreAfter(l), !.error = TRUE]
          ELSE [books |-> IF l.reset THEN l.books ELSE listing.books \o l.books,
                pages |-> IF l.reset THEN <<1>> ELSE Append(listing.pages, l.page),
                total |-> l.total, next |-> l.page + 1, more |-> MoreAfter(l), error |-> FALSE]
    /\ covers' = FoldLeft(Unmounted, covers, SetToSeq(covers.seen \ ToSet(listing'.books)))
    /\ UNCHANGED <<deletion, tracked, posts, restore, poll, shelfBudget>>

----------------------------------------------------------------------------
(* The deletions of useBookDeletions. *)

\* Mutant: the latest answer wins.
UpsertAlways(t, b, status) == [t EXCEPT ![b] = status]

\* A finished deletion is final.
Upsert(t, b, status) == IF t[b] = "completed" THEN t ELSE [t EXCEPT ![b] = status]

\* The polling effect starts over when the set of requests in progress changes.
Following(t) == {b \in Books : t[b] \in InProgress}
Track(t) ==
    /\ tracked' = t
    /\ poll' = IF Following(t) = Following(tracked) THEN poll
               ELSE IF Following(t) = {} THEN PollOff
               ELSE [PollOff EXCEPT !.st = "timer", !.ids = Following(t)]

AskDeletion(b) ==
    /\ b \in ToSet(listing.books) \/ tracked[b] = "retry_pending"
    /\ posts[b].st = "idle" /\ SpendShelf("clicks")
    /\ posts' = [posts EXCEPT ![b].st = "sent"]
    /\ UNCHANGED <<deletion, listing, loads, tracked, restore, poll, covers>>

\* The card leaves the list.
DeletionAnswered(b) ==
    /\ posts[b].st = "back" /\ posts' = [posts EXCEPT ![b] = NoPost]
    /\ Track(Upsert(tracked, b, posts[b].status))
    /\ LET listed == b \in ToSet(listing.books) IN
       /\ listing' = [listing EXCEPT !.books = SelectSeq(@, LAMBDA x : x # b),
                                     !.total = IF listed /\ @ > 0 THEN @ - 1 ELSE @]
       /\ covers' = IF listed THEN Unmounted(covers, b) ELSE covers
    /\ UNCHANGED <<deletion, loads, restore, shelfBudget>>

Restored ==
    /\ restore.st = "back" /\ restore' = [restore EXCEPT !.st = "done"]
    /\ Track(FoldLeft(LAMBDA t, b : Upsert(t, b, restore.found[b]), tracked,
                      SetToSeq({b \in Books : restore.found[b] # "none"})))
    /\ UNCHANGED <<deletion, listing, loads, posts, covers, shelfBudget>>

Dismiss(b) ==
    /\ tracked[b] = "completed" /\ Track([tracked EXCEPT ![b] = "none"])
    /\ UNCHANGED <<deletion, listing, loads, posts, restore, covers, shelfBudget>>

PollTimer ==
    /\ poll.st = "timer" /\ poll' = [poll EXCEPT !.st = "asking"]
    /\ UNCHANGED <<deletion, listing, loads, tracked, posts, restore, covers, shelfBudget>>

\* Every answer is taken as it comes; the chain goes on when all are in.
StatusAnswered(b) ==
    /\ poll.st = "asking" /\ poll.got[b] \in Statuses \ {"none"}
    /\ LET t == Upsert(tracked, b, poll.got[b]) IN
       IF Following(t) = Following(tracked)
         THEN tracked' = t /\ poll' = [poll EXCEPT !.got[b] = "taken"]
         ELSE Track(t)
    /\ UNCHANGED <<deletion, listing, loads, posts, restore, covers, shelfBudget>>

\* Mutant: the chain ends with a failed answer.
NextTickUnlessFailed(failed) == IF failed THEN "off" ELSE "timer"

NextTick(failed) == "timer"

TickEnds ==
    /\ poll.st = "asking" /\ \A b \in poll.ids : poll.got[b] \in {"taken", "failed"}
    /\ poll' = [poll EXCEPT !.got = PollOff.got,
                            !.st = NextTick(\E b \in poll.ids : poll.got[b] = "failed")]
    /\ UNCHANGED <<deletion, listing, loads, tracked, posts, restore, covers, shelfBudget>>

----------------------------------------------------------------------------
PollStep == PollTimer \/ TickEnds \/ \E b \in Books : ServeStatus(b) \/ StatusAnswered(b)
ListStep == (\E r \in BOOLEAN : LoadBooks(r)) \/ (\E l \in loads : ServeList(l) \/ Loaded(l))
DeletionStep == ServeRestore \/ Restored
                \/ \E b \in Books : AskDeletion(b) \/ ServePost(b) \/ DeletionAnswered(b) \/ Dismiss(b)
WorkerStep == \E b \in Books : Erase(b) \/ Stall(b) \/ Redeliver(b) \/ OtherTabDeletes(b)
CoverStep == \E b \in Books : CardInView(b) \/ CoverSettles(b)

ShelfNext == PollStep \/ ListStep \/ DeletionStep \/ WorkerStep \/ CoverStep

\* The worker ends its attempts, timers fire and polls are answered.
ShelfFairness ==
    /\ WF_shelfVars(PollStep)
    /\ \A b \in Books : WF_shelfVars(Erase(b))

ShelfSpec == ShelfInit /\ [][ShelfNext]_shelfVars /\ ShelfFairness
----------------------------------------------------------------------------
(* Properties *)

\* A deletion shown as finished is not revived by a late answer: only "Dismiss"
\* takes it off the panel (useBookDeletions.upsert).
FinishedStays == \A b \in Books : tracked[b] = "completed" => tracked'[b] \in {"completed", "none"}
FinishedStaysFinished == [][FinishedStays]_shelfVars

\* A deletion shown as in progress is one the worker has not settled, or it is
\* about to be: the panel never waits for an erasure that is over.
DeletionsFollowed == []<>(\A b \in Books : tracked[b] \in InProgress => deletion[b] \in InProgress)

\* The list is made of consecutive pages from the first, whichever loads overlap,
\* and the next one asked for is the one that follows.
PagesInOrder ==
    /\ listing.pages = [i \in 1..Len(listing.pages) |-> i]
    /\ listing.next = Len(listing.pages) + 1

\* "Load more" is disabled only while a load is on its way.
LoadMoreComesBack == listing.more => \E l \in loads : ~l.aborted

\* Never more covers load at once than there are slots, no card waits while a slot
\* is free, and cards that left the screen neither wait nor load.
SlotsWellUsed ==
    /\ Cardinality(covers.fetching) <= CoverSlots
    /\ covers.queue # <<>> => Cardinality(covers.fetching) = CoverSlots
    /\ (covers.fetching \cup ToSet(covers.queue)) \subseteq ToSet(listing.books)

\* The shelf lists its pages in order, keeps its covers moving, and shows deletions
\* as far as they are and no less.
ShelfFollowsTheBooks ==
    /\ [](PagesInOrder /\ LoadMoreComesBack /\ SlotsWellUsed)
    /\ FinishedStaysFinished
    /\ DeletionsFollowed

=============================================================================
