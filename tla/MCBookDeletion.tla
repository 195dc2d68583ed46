----------------------------- MODULE MCBookDeletion -----------------------------
(***************************************************************************)
(* Instances of BookDeletion for TLC: one book, the budgets of the         *)
(* scenarios that a run explores side by side.                             *)
(***************************************************************************)
EXTENDS BookDeletion, TLC

CONSTANTS photo, thumbnail, pages, s1, s2

SlotSymmetry == Permutations(Slots)

NoBudget == [b \in Bounds |-> 0]

\* An upload and a thumbnail that fail, crash or outlast their lease, against
\* each other, recovery and a deletion.
Writing == [NoBudget EXCEPT !["uploads"] = 1, !["thumbnails"] = 1,
                            !["faults"] = 1, !["crashes"] = 1, !["overruns"] = 1]

\* An upload and a generation against a deletion that is delivered twice.
Sweeping == [NoBudget EXCEPT !["uploads"] = 1, !["generations"] = 1,
                             !["stalls"] = 1, !["overruns"] = 1]

\* Deliveries of the deletion that fail, are superseded and are retried.
Retrying == [NoBudget EXCEPT !["thumbnails"] = 1, !["stalls"] = 1,
                             !["faults"] = 1, !["records"] = 1, !["retries"] = 1]

SafetyBudgets == {Writing, Sweeping, Retrying}

\* Two of a dead writer, a failed call and a lost lock.
OneThumbnail == [NoBudget EXCEPT !["thumbnails"] = 1]
SettlingBudgets ==
    {[OneThumbnail EXCEPT !["stalls"] = 1, !["faults"] = 1],
     [OneThumbnail EXCEPT !["stalls"] = 1, !["crashes"] = 1],
     [OneThumbnail EXCEPT !["faults"] = 1, !["crashes"] = 1]}

CrashAndRetry == {[NoBudget EXCEPT !["uploads"] = 1, !["crashes"] = 1,
                                   !["retries"] = 1]}

=============================================================================
