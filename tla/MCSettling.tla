------------------------------ MODULE MCSettling ------------------------------
(***************************************************************************)
(* What must end by itself, for TLC: the permanent deletion of a book and  *)
(* a page-image revision that nobody attends to.  They share no state, so  *)
(* one of the two moves in a behaviour; the other rests where nothing is   *)
(* owed.                                                                   *)
(***************************************************************************)
EXTENDS MCBookDeletion

CONSTANTS r1, NoRevision    \* the revision

VARIABLES part, revisedBook, rev, ledger, credits, outbox, revisionJob, images, sent, worker,
          editor, sweeper, scenario

revisionVars == <<revisedBook, rev, ledger, credits, outbox, revisionJob, images, sent, worker,
                  editor, sweeper, scenario>>

----------------------------------------------------------------------------
(* A recovery pass against one delivery, a lost lock and a failed write.   *)

Quiet ==
    [quotes |-> {}, sweepers |-> {}, transportRetries |-> 0, limiterRetries |-> 0,
     locks |-> 0, faults |-> 0, writes |-> 0]
Unattended ==
    [Quiet EXCEPT !.quotes = {<<r1, 1>>}, !.sweepers = {1}, !.locks = 1, !.faults = 1]

Revision == INSTANCE PageRevision WITH
    Revisions <- {r1}, Pages <- {1}, Workers <- {1}, Editors <- {}, Sweepers <- {1},
    InitialCredits <- 1, MaxStalledCount <- 0, Scenarios <- {Quiet, Unattended},
    book <- revisedBook, job <- revisionJob, left <- scenario

----------------------------------------------------------------------------
RestingBudgets == SettlingBudgets \cup {NoBudget}

SettlingInit ==
    /\ part \in {"revision", "deletion"}
    /\ Revision!Init /\ scenario = IF part = "revision" THEN Unattended ELSE Quiet
    /\ Init /\ left \in IF part = "deletion" THEN SettlingBudgets ELSE {NoBudget}

SettlingNext ==
    /\ part' = part
    /\ \/ part = "revision" /\ Revision!Next /\ UNCHANGED vars
       \/ part = "deletion" /\ Next /\ UNCHANGED revisionVars

\* The fairness of PageRevision and of BookDeletion, while the part is the one that moves.
RevisionMoves(A) == part = "revision" /\ A
DeletionMoves(A) == part = "deletion" /\ A
SettlingFairness ==
    /\ WF_revisionVars(RevisionMoves(Revision!QueueWaitExpires(r1)))
    /\ WF_revisionVars(RevisionMoves(Revision!DeadlinePasses(r1)))
    /\ SF_revisionVars(RevisionMoves(Revision!SelectRevision(1, r1)))
    /\ SF_revisionVars(RevisionMoves(sweeper[1].rev = r1 /\ Revision!Decide(1)))
    /\ SF_revisionVars(RevisionMoves(sweeper[1].rev = r1 /\ Revision!RecoverRevision(1)))
    /\ WF_vars(DeletionMoves(Recovery)) /\ WF_vars(DeletionMoves(GenWorker))
    /\ WF_vars(DeletionMoves(Dispatcher)) /\ WF_vars(DeletionMoves(BackoffElapses))
    /\ \A s \in Slots : WF_vars(DeletionMoves(PickUp(s))) /\ WF_vars(DeletionMoves(Process(s)))

SettlingSpec == SettlingInit /\ [][SettlingNext]_<<part, revisionVars, vars>> /\ SettlingFairness

\* A confirmed revision ends (PageRevision).
RevisionEnds == Revision!RevisionEnds
=============================================================================
