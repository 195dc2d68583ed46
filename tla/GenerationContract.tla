-------------------------- MODULE GenerationContract --------------------------
(***************************************************************************)
(* What the generation subsystem promises to the owner of a book, with no  *)
(* delivery, queue, lease, fence check or outbox in sight: a book has at   *)
(* most one generation at a time, a generation ends once, an edition       *)
(* appears only together with the generation that made it completing, a    *)
(* credit is held from the start of a generation and returned at the very  *)
(* step that ends it without an edition, and a deleted book is never       *)
(* generated or published again.                                           *)
(***************************************************************************)
EXTENDS Integers

CONSTANTS Runs, Books, NoRun, DemoMode, InitialCredits

VARIABLES
    phase,      \* what became of each generation
    bookOf,     \* the book it is for
    edition,    \* what readers of each book are served
    closed,     \* the book was deleted
    balance     \* the owner's credits

cvars == <<phase, bookOf, edition, closed, balance>>

Fee == IF DemoMode THEN 1 ELSE 0
InProgress(b) == {r \in Runs : phase[r] = "active" /\ bookOf[r] = b}

CInit ==
    /\ phase = [r \in Runs |-> "none"]
    /\ bookOf \in [Runs -> Books]
    /\ edition = [b \in Books |-> [run |-> NoRun, fence |-> 0]]
    /\ closed = [b \in Books |-> FALSE]
    /\ balance = InitialCredits

Start(r) ==
    /\ phase[r] = "none"
    /\ ~closed[bookOf[r]]
    /\ InProgress(bookOf[r]) = {}
    /\ balance >= Fee
    /\ phase' = [phase EXCEPT ![r] = "active"]
    /\ balance' = balance - Fee
    /\ UNCHANGED <<bookOf, edition, closed>>

\* Some claim of the run made the edition; which one is the run's business.
Publish(r) ==
    /\ phase[r] = "active"
    /\ ~closed[bookOf[r]]
    /\ phase' = [phase EXCEPT ![r] = "completed"]
    /\ edition'[bookOf[r]].run = r
    /\ \A b \in Books : b # bookOf[r] => edition'[b] = edition[b]
    /\ UNCHANGED <<bookOf, closed, balance>>

EndWithoutEdition(r, how) ==
    /\ phase[r] = "active"
    /\ phase' = [phase EXCEPT ![r] = how]
    /\ balance' = balance + Fee
    /\ UNCHANGED <<bookOf, edition>>

Fail(r) == EndWithoutEdition(r, "failed") /\ UNCHANGED closed
Cancel(r) == EndWithoutEdition(r, "cancelled") /\ UNCHANGED closed

\* Deleting a book ends its generation, if it has one.
Close(b) ==
    /\ closed' = [closed EXCEPT ![b] = TRUE]
    /\ \/ InProgress(b) = {} /\ UNCHANGED <<phase, bookOf, edition, balance>>
       \/ \E r \in InProgress(b) : EndWithoutEdition(r, "cancelled")

CNext ==
    \/ \E r \in Runs : \/ Start(r) \/ Publish(r) \/ Fail(r) \/ Cancel(r)
    \/ \E b \in Books : Close(b)

CSpec == CInit /\ [][CNext]_cvars

=============================================================================
