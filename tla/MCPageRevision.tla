---------------------------- MODULE MCPageRevision ----------------------------
(***************************************************************************)
(* Instances of PageRevision for TLC: the scenarios explored side by side. *)
(***************************************************************************)
EXTENDS PageRevision

CONSTANTS r1, r2, w1, w2

ActorSymmetry == Permutations(Workers) \cup Permutations(Revisions)

Quiet ==
    [quotes |-> {}, sweepers |-> {}, transportRetries |-> 0, limiterRetries |-> 0,
     locks |-> 0, faults |-> 0, writes |-> 0]

\* A revision whose workers crash, stall and are superseded twice, with every
\* kind of retry of the provider's client.
Redelivered(r) ==
    [Quiet EXCEPT !.quotes = {<<r, 1>>}, !.transportRetries = 1,
                  !.limiterRetries = 1, !.locks = 2]

\* A recovery pass against overlapping deliveries.
Recovering(r) ==
    [Quiet EXCEPT !.quotes = {<<r, 1>>}, !.sweepers = Sweepers, !.locks = 1]

\* A revision, text edits of both pages and other writes to the book.
Editions(r) ==
    [Quiet EXCEPT !.quotes = {r} \X Pages, !.writes = 2]

\* Two quotes that compete for one credit and one book, with a failed write or an
\* event that is dispatched and not marked.
Quotes == [Quiet EXCEPT !.quotes = Revisions \X {1}, !.faults = 1]

AllScenarios ==
    {Quotes} \cup UNION {{Redelivered(r), Recovering(r), Editions(r)} : r \in Revisions}

=============================================================================
