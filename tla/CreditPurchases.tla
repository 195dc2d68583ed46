---------------------------- MODULE CreditPurchases ----------------------------
(***************************************************************************)
(* Buying credits: checkout sessions at Stripe, the webhook that grants a  *)
(* paid session once however often it is delivered, the credit ledger it   *)
(* shares with concurrent charges of the same user, and the success page   *)
(* that polls for the grant.                                               *)
(*                                                                         *)
(* All mutations are of one user, whose row a transaction locks from its   *)
(* UPDATE until it ends: open is that transaction, and what it wrote is    *)
(* seen by nobody before it commits.                                       *)
(***************************************************************************)
EXTENDS Integers, Sequences, FiniteSets, SequencesExt

CONSTANTS Closed,             \* nobody holds the user's row; no answer yet
          Packages,           \* package id -> credits
          OpeningCredits,     \* the balance the user starts with
          PurchaseBudgets     \* bounds: [sessions, charges, repeats, crashes, reprices, polls]

PurchaseBudgetSet ==
    [sessions: Nat, charges: Nat, repeats: Nat, crashes: Nat, reprices: Nat, polls: Nat]
ASSUME PurchaseAssumption ==
    /\ OpeningCredits \in Nat /\ Packages \in [DOMAIN Packages -> Nat]
    /\ PurchaseBudgets \subseteq PurchaseBudgetSet
    /\ Closed \notin [worker: Nat, balance: Nat]

VARIABLES balance, ledger, open,
          price,              \* version of the configured price ids
          checkouts,          \* sessions at Stripe: [pkg, price, state, acked]
          workers,            \* webhook deliveries and charges being processed
          success,            \* the success page: [session, kind, shown, timing, late, polls]
          purchaseBudget

purchaseVars == <<balance, ledger, open, price, checkouts, workers, success, purchaseBudget>>
accountVars == <<balance, ledger, open>>
stripeVars == <<price, checkouts>>

SpendPurchase(what) ==
    purchaseBudget[what] > 0 /\ purchaseBudget' = [purchaseBudget EXCEPT ![what] = @ - 1]

Unused(set) == CHOOSE n \in 1..(Cardinality(set) + 1) : \A x \in set : x.id # n
Away == [session |-> 0, kind |-> "away", shown |-> 0, timing |-> FALSE, late |-> FALSE, polls |-> {}]

PurchaseInit ==
    /\ balance = OpeningCredits /\ ledger = <<>> /\ open = Closed
    /\ price = 1 /\ checkouts = <<>> /\ workers = {} /\ success = Away
    /\ purchaseBudget \in PurchaseBudgets

RowsOf(key) == {i \in DOMAIN ledger : ledger[i].key = key}
GrantKey(s) == <<"checkout", s>>

----------------------------------------------------------------------------
(* CreditsService. *)

\* Mutants: the UPDATE has no condition; the balance is written outside the
\* transaction of its ledger row.
TakeRowUnconditional(w) ==
    /\ w.stage = "update" /\ open = Closed
    /\ open' = [worker |-> w.id, balance |-> balance + w.amount]
    /\ UNCHANGED balance
TakeRowAtOnce(w) ==
    /\ w.stage = "update" /\ open = Closed /\ balance + w.amount >= 0
    /\ balance' = balance + w.amount
    /\ open' = [worker |-> w.id, balance |-> balance + w.amount]
\* mutateCore: the conditional UPDATE waits for the row and sees what is committed then.
TakeRow(w) ==
    /\ w.stage = "update" /\ open = Closed /\ balance + w.amount >= 0
    /\ open' = [worker |-> w.id, balance |-> balance + w.amount]
    /\ UNCHANGED balance

Became(w, stage) == workers' = (workers \ {w}) \cup {[w EXCEPT !.stage = stage]}
Gone(w) == workers' = workers \ {w}
Acked(w) == Gone(w) /\ checkouts' = [checkouts EXCEPT ![w.session].acked = TRUE]

Update(w) ==
    /\ TakeRow(w) /\ Became(w, "insert")
    /\ UNCHANGED <<ledger, stripeVars, success, purchaseBudget>>
\* 402: only a charge can be too large.
Insufficient(w) ==
    /\ w.stage = "update" /\ open = Closed /\ balance + w.amount < 0 /\ Gone(w)
    /\ UNCHANGED <<accountVars, stripeVars, success, purchaseBudget>>

\* Mutant: no unique idempotency key.
UniqueNever(w) == TRUE
Unique(w) == RowsOf(w.key) = {}
Insert(w) ==
    /\ w.stage = "insert" /\ Unique(w)
    /\ ledger' = Append(ledger, [key |-> w.key, amount |-> w.amount, after |-> open.balance])
    /\ balance' = open.balance /\ open' = Closed
    /\ IF w.session > 0 THEN Acked(w) ELSE Gone(w) /\ UNCHANGED checkouts
    /\ UNCHANGED <<price, success, purchaseBudget>>
\* The key is taken: the transaction rolls back, and the row that took it is returned.
Conflict(w) ==
    /\ w.stage = "insert" /\ ~Unique(w) /\ open' = Closed
    /\ IF w.session > 0 THEN Became(w, "lookup") ELSE Gone(w)
    /\ UNCHANGED <<balance, ledger, stripeVars, success, purchaseBudget>>
Lookup(w) ==
    /\ w.stage = "lookup"
    /\ IF RowsOf(w.key) # {} THEN Acked(w) ELSE Became(w, "update") /\ UNCHANGED checkouts
    /\ UNCHANGED <<accountVars, price, success, purchaseBudget>>

\* A generation run or a page image is charged inside its caller's transaction, whose
\* later writes may still fail.
StartCharge ==
    /\ SpendPurchase("charges")
    /\ workers' = workers \cup {[id |-> Unused(workers), session |-> 0,
                                 key |-> <<"charge", purchaseBudget.charges>>, amount |-> -1,
                                 stage |-> "update"]}
    /\ UNCHANGED <<accountVars, stripeVars, success>>

\* The process dies, or the database or Stripe cannot be reached: 5xx or no answer.
WorkerFails(w) ==
    /\ SpendPurchase("crashes") /\ Gone(w)
    /\ open' = IF open # Closed /\ open.worker = w.id THEN Closed ELSE open
    /\ UNCHANGED <<balance, ledger, stripeVars, success>>

----------------------------------------------------------------------------
(* BillingService and Stripe. *)

\* createCheckoutSession.  The page makes a new idempotency key for every click, so a
\* click after a lost answer makes another session.
CreateCheckoutSession(pkg) ==
    /\ SpendPurchase("sessions")
    /\ checkouts' = Append(checkouts, [pkg |-> pkg, price |-> price, state |-> "open", acked |-> FALSE])
    /\ UNCHANGED <<accountVars, price, workers, success>>
\* The user pays, at once or with a delayed method, and is sent to the success page.
Complete(s) ==
    /\ checkouts[s].state = "open"
    /\ \E state \in {"paid", "unpaid"} : checkouts' = [checkouts EXCEPT ![s].state = state]
    /\ success' = IF purchaseBudget.polls = 0 THEN success   \* the page is not opened
                  ELSE [Away EXCEPT !.session = s, !.kind = "pending", !.timing = TRUE]
    /\ UNCHANGED <<accountVars, price, workers, purchaseBudget>>
Reprice ==
    /\ SpendPurchase("reprices") /\ price' = price + 1
    /\ UNCHANGED <<accountVars, checkouts, workers, success>>

Handled(s) == \E w \in workers : w.session = s
\* checkout.session.completed is delivered until it is acknowledged, and sometimes again.
Deliver(s) ==
    /\ checkouts[s].state \in {"paid", "unpaid"}
    /\ IF checkouts[s].acked \/ Handled(s) THEN SpendPurchase("repeats") ELSE UNCHANGED purchaseBudget
    /\ workers' = workers \cup {[id |-> Unused(workers), session |-> s,
                                 key |-> GrantKey(s), amount |-> Packages[checkouts[s].pkg],
                                 stage |-> "verify"]}
    /\ UNCHANGED <<accountVars, stripeVars, success>>
\* grantCreditsForCheckoutSession: not paid, or the line items are not the package's
\* price: nothing to grant, 2xx.
Verified(w) == checkouts[w.session].state = "paid" /\ checkouts[w.session].price = price
VerifyAnything(w) ==
    /\ w.stage = "verify" /\ Became(w, "lookup")
    /\ UNCHANGED <<accountVars, stripeVars, success, purchaseBudget>>
Verify(w) ==
    /\ w.stage = "verify"
    /\ IF Verified(w) THEN Became(w, "lookup") /\ UNCHANGED checkouts ELSE Acked(w)
    /\ UNCHANGED <<accountVars, price, success, purchaseBudget>>
\* Stripe cannot be asked: the error propagates, the event stays undelivered.
\* Mutant: it is answered like any other reason not to grant.
RetrieveFailsQuietly(w) ==
    /\ w.stage = "verify" /\ SpendPurchase("crashes") /\ Acked(w)
    /\ UNCHANGED <<accountVars, price, success>>
RetrieveFails(w) ==
    /\ w.stage = "verify" /\ SpendPurchase("crashes") /\ Gone(w)
    /\ UNCHANGED <<accountVars, stripeVars, success>>

----------------------------------------------------------------------------
(* BillingSuccessPage: a poll every two seconds, whether or not the last one answered. *)

Showing == success.session # 0
Poll ==
    /\ Showing /\ success.timing /\ Cardinality(success.polls) < 2
    /\ IF success.late THEN UNCHANGED purchaseBudget ELSE SpendPurchase("polls")
    /\ success' = [success EXCEPT !.polls = @ \cup {[id |-> Unused(@), answer |-> Closed]}]
    /\ UNCHANGED <<accountVars, stripeVars, workers>>

\* Mutant of getCheckoutStatus: what Stripe says.
StatusFromStripe(s) ==
    IF checkouts[s].state = "paid"
    THEN [credited |-> TRUE, granted |-> Packages[checkouts[s].pkg], balance |-> balance]
    ELSE [credited |-> FALSE, granted |-> 0, balance |-> 0]
GetCheckoutStatus(s) ==
    IF RowsOf(GrantKey(s)) # {}
    THEN [credited |-> TRUE, granted |-> ledger[CHOOSE i \in RowsOf(GrantKey(s)) : TRUE].amount,
          balance |-> balance]
    ELSE [credited |-> FALSE, granted |-> 0, balance |-> 0]
ServePoll(p) ==
    /\ p.answer = Closed
    /\ success' = [success EXCEPT !.polls = (@ \ {p}) \cup
                                       {[p EXCEPT !.answer = GetCheckoutStatus(success.session)]}]
    /\ UNCHANGED <<accountVars, stripeVars, workers, purchaseBudget>>

\* Mutant: the timer runs on after the deadline.
StillPendingForEver(page) == [page EXCEPT !.kind = IF page.late THEN "timeout" ELSE "pending"]
StillPending(page) ==
    IF page.late THEN [page EXCEPT !.kind = "timeout", !.timing = FALSE]
    ELSE [page EXCEPT !.kind = "pending"]
PollAnswered(p) ==
    /\ p.answer # Closed
    /\ \E page \in {[success EXCEPT !.polls = @ \ {p}]} :
         success' = IF p.answer.credited
                    THEN [page EXCEPT !.kind = "credited", !.shown = p.answer.granted, !.timing = FALSE]
                    ELSE StillPending(page)
    /\ UNCHANGED <<accountVars, stripeVars, workers, purchaseBudget>>
PollFails(p) ==
    /\ SpendPurchase("crashes")
    /\ success' = [success EXCEPT !.polls = @ \ {p}, !.kind = "error", !.timing = FALSE]
    /\ UNCHANGED <<accountVars, stripeVars, workers>>
DeadlinePasses ==
    /\ success.timing /\ ~success.late
    /\ success' = [success EXCEPT !.late = TRUE]
    /\ UNCHANGED <<accountVars, stripeVars, workers, purchaseBudget>>
\* "Check again" starts a new effect; the old one's answers are ignored.
CheckAgain ==
    /\ success.kind \in {"timeout", "error"} /\ SpendPurchase("polls")
    /\ success' = [success EXCEPT !.timing = TRUE, !.late = FALSE, !.polls = {}]
    /\ UNCHANGED <<accountVars, stripeVars, workers>>

----------------------------------------------------------------------------
WorkerStep(w) == Update(w) \/ Insufficient(w) \/ Insert(w) \/ Conflict(w) \/ Lookup(w)
                 \/ (w.session > 0 /\ Verify(w))
PollStep == \E p \in success.polls : ServePoll(p) \/ PollAnswered(p)
PurchaseNext ==
    \/ StartCharge \/ Reprice \/ Poll \/ DeadlinePasses \/ CheckAgain \/ PollStep
    \/ \E pkg \in DOMAIN Packages : CreateCheckoutSession(pkg)
    \/ \E s \in DOMAIN checkouts : Complete(s) \/ Deliver(s)
    \/ \E w \in workers : WorkerStep(w) \/ WorkerFails(w) \/ RetrieveFails(w)
    \/ \E p \in success.polls : PollFails(p)

\* Stripe redelivers what was not acknowledged, workers run, the page's timers fire.
PurchaseFairness ==
    /\ WF_purchaseVars(\E w \in workers : WorkerStep(w))
    /\ WF_purchaseVars(\E s \in DOMAIN checkouts : ~checkouts[s].acked /\ ~Handled(s) /\ Deliver(s))
    /\ WF_purchaseVars(Poll) /\ WF_purchaseVars(PollStep) /\ WF_purchaseVars(DeadlinePasses)

PurchaseSpec == PurchaseInit /\ [][PurchaseNext]_purchaseVars /\ PurchaseFairness

----------------------------------------------------------------------------
(* Properties. *)

\* The row is held by a worker that will write its ledger row, and no debit, however
\* many race, takes the balance below zero.
PurchaseTypeOK ==
    /\ balance >= 0
    /\ open # Closed => \E w \in workers : w.id = open.worker /\ w.stage = "insert"
    /\ success.kind \in {"away", "pending", "credited", "timeout", "error"}

\* The committed balance is always the opening balance and the committed rows, and
\* every row's balanceAfter is the balance it led to: a conflict or a crash between
\* UPDATE and INSERT leaves neither behind.
Total(rows) == FoldLeft(LAMBDA sum, row : sum + row.amount, OpeningCredits, rows)
LedgerExplainsBalance ==
    /\ balance = Total(ledger)
    /\ \A i \in DOMAIN ledger : ledger[i].after = Total(SubSeq(ledger, 1, i))

\* However a session's event is delivered - twice, at once, after a crash - it grants
\* its package once.
GrantedOnce == \A s \in DOMAIN checkouts : Cardinality(RowsOf(GrantKey(s))) <= 1

\* Only what was paid for, at the price the package has, is granted.
OnlyPaidIsGranted == \A s \in DOMAIN checkouts :
    RowsOf(GrantKey(s)) # {} => checkouts[s].state = "paid"

\* The success page never confirms credits that the ledger does not have.
ConfirmedIsGranted == success.kind = "credited" =>
    \E i \in RowsOf(GrantKey(success.session)) : ledger[i].amount = success.shown

\* A session paid at checkout is credited, unless its price was changed meanwhile.
Due(s) == IF s \in DOMAIN checkouts
          THEN checkouts[s].state = "paid" /\ checkouts[s].price = price ELSE FALSE
PaidIsCredited == []<>(\A s \in 1..2 : Due(s) => RowsOf(GrantKey(s)) # {})

\* The page does not poll for ever, whatever it hears.
PollingEnds == []<>(~success.timing)

\* Balance, ledger and Stripe agree: what was paid is granted once, nothing else is,
\* and the page that waits for it says so and stops.
PurchasesAddUp ==
    /\ [](/\ PurchaseTypeOK /\ LedgerExplainsBalance /\ GrantedOnce
         /\ OnlyPaidIsGranted /\ ConfirmedIsGranted)
    /\ PaidIsCredited
    /\ PollingEnds

=============================================================================
